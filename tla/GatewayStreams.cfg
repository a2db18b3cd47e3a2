CONSTANTS
    MaxChunks <- MCMaxChunks
SPECIFICATION Spec
INVARIANTS
    CompletedIsWhole
    ReadsUndisturbed
PROPERTY
    StreamSettles
CHECK_DEADLOCK FALSE
