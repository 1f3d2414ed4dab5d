SPECIFICATION FairTcpSpec
CONSTANTS
    Conns = {c1, c2, c3}
    Careless = {c3}
    Chatty = {c2}
    MaxOpen = 2
    RecvBufferSize = 4
    Lengths = {0, 2, 3}
    Answerable = {2}
INVARIANTS
    TcpTypeOK
    OnlyWholeQueries
PROPERTIES
    ClientsAnswered
