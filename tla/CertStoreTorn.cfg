SPECIFICATION Spec
CONSTANTS
    Procs = {p1}
    Hosts = {h1}
    Cas = {k1, k2}
    MaxClock = 2
INVARIANTS
    UpToDateIsInstalled
