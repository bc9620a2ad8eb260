SPECIFICATION Spec
CONSTANTS
    Bits = {0, 4, 5}
    Sent <- MCSent
INVARIANTS TypeOK EmptyReadsZero
PROPERTIES StrayByteTaken
