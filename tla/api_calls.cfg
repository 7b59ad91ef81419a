SPECIFICATION Spec
CONSTANTS
    None = None
    Failed = Failed
    Invalid = Invalid
    MaxLimit = 1
    PathEscape <- MCPathEscape
    PathUnescape <- MCPathUnescape
    PathEncode <- MCPathEncode
    Normalize <- MCNormalize
    HasSlash <- MCHasSlash
    Slash <- MCSlash
    Ids <- MCIds
    Limits <- MCLimits
    Offsets <- MCOffsets
    Codes <- MCCodes
    OtherRequests <- MCOtherRequests
INVARIANTS
    TypeOK
    OnlyKeyHolders
    LayersAgree
    CleanInput
    SignedInIsServed
PROPERTIES
    AnswerArrives
    ImplementsRemoteCall
