SPECIFICATION Spec
CONSTANTS
    Names <- MCNames
    Fold <- MCFold
    MaxAnswers = 3
    MaxPacket = 2
    Group = 2
    Wide = 7
    Narrow = 4
    DataSection = 3
    I32Const = 5
    End = 6
    Base = 4
    MaxExponent = 30
    MaxKey = 6
    MaxInt = 127
    AddressSpace = 32
    PageSize = 4
    DefaultPages = 4
INVARIANTS
    AnswerIsTheChain
    FailsClosed
    EgressMatchesGuest
    SegmentsExact
    CryptoTablesAgree
    RSAKeyExact
    LimitIsMaximum
    EntropyFillsOrRefuses
