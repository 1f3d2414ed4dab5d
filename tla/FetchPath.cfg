SPECIFICATION FairPathSpec
CONSTANTS
    Guests = {g1, g2}
    Uids = {0, 1}
    Reqs = {r1, r2}
    Outcomes <- MCOutcomes
    Statuses = {200, 204}
INVARIANTS
    PathTypeOK
    YieldsSucceed
    BodyFits
    NoLeak
PROPERTIES
    ImplementsService
    EveryRequestAnswered
    EveryFetchFreed
