CONSTANTS
    Certs = {c1, c2}
    MaxBlocks = 2
    MaxFiles = 2
    MaxArgs = 2

SPECIFICATION Spec

INVARIANT TypeOK
INVARIANT RootsAreParsedChains

CHECK_DEADLOCK FALSE
