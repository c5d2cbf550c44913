\* Paths and descriptors of a few bytes and of more than 255.
CONSTANTS
    Paths <- MCPaths
    Descriptors <- MCDescriptors
    MaxCut = 6
SPECIFICATION Spec
INVARIANT ParsesBack
PROPERTY ExchangeSpec
CHECK_DEADLOCK FALSE
