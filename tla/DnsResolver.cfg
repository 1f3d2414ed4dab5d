SPECIFICATION FairSpec
CONSTANTS
    BufferSize = 36
    Messages <- MCMessages
    ResponseIp <- MCResponseIp
INVARIANTS
    TypeOK
    ReadsInMessage
    ResponseFits
    RepliesReadBack
PROPERTIES
    Terminates
