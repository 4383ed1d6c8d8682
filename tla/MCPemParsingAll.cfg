CONSTANTS
    Certs = {c1, c2}
    MaxBlocks = 4

SPECIFICATION Spec

INVARIANT AllCertificatesParsed


CHECK_DEADLOCK FALSE
