SPECIFICATION FairUdpSpec
CONSTANTS
    Resolvers = {r1, r2}
    Noise <- MCNoise
    Query = 30
    QueueSize = 3
INVARIANTS
    UdpTypeOK
    EachQueryAnsweredOnce
PROPERTIES
    LookupsEnd
