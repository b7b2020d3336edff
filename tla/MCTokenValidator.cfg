SPECIFICATION Spec
CONSTANTS
    NotString = NotString
    KeySets <- MCKeySets
    Tokens <- MCTokens
    Validations = {v1}
    MaxRotations = 2
INVARIANTS
    TypeOK
    ActiveIsSigned
    SearchComplete
PROPERTIES
    DroppedKeyRejected
