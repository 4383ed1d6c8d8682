CONSTANTS
    Certs = {c1, c2}
    MaxBlocks = 4

SPECIFICATION Spec

INVARIANT TypeOK
INVARIANT ParsedPrefixInOrder
PROPERTY ImplementsParseChain
PROPERTY ParsingTerminates

CHECK_DEADLOCK FALSE
