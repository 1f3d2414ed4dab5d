SPECIFICATION Spec
CONSTANTS
    UrlSize = 5
    MethodSize = 3
    FieldSize = 3
    MaxHeaders = 3
    Chars <- MCChars
    Lowercase <- MCLowercase
    Exchanges <- MCExchanges
INVARIANTS
    TypeOK
    AskedAsRequested
    ResponseAsReceived
