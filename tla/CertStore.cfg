SPECIFICATION ApartSpec
CONSTANTS
    Procs = {p1, p2}
    Hosts = {h1, h2}
    Cas = {k1, k2, k3}
    MaxClock = 3
SYMMETRY Symmetry
INVARIANTS
    TypeOK
    CaPairMatches
    IssuedVerify
    NoRelock
    UpToDateUnlessTorn
