SPECIFICATION FairMainSpec
CONSTANTS
    Guests = {g1}
    Uids = {u1, u2}
    Reqs = {r1, r2}
    Outcomes <- MCOutcomes
    RamStart = 2
    RamSize = 4
    RootfsStart = 9
    RootfsSize = 4
    DictSize = 2
    ImageLengths <- MCImageLengths
INVARIANTS
    TypeOK
    BootsWhole
    TableTracksOpenFetches
PROPERTIES
    WaitKeepsTable
    WaitEnds
