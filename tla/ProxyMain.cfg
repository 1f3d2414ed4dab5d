SPECIFICATION FairSpec
CONSTANTS
    Procs = {p1, p2}
    None = None
INVARIANTS
    TypeOK
    OneServes
    ResolvedIsComplete
PROPERTIES
    ReadyIsServed
