SPECIFICATION Spec
CONSTANTS
    Conns = {c1, c2}
    Careless = {c1, c2}
    MaxOpen = 2
    Scripts <- MCScripts
    Outcomes <- MCOutcomes
    Statuses = {200}
SYMMETRY Symmetry
INVARIANTS
    TypeOK
    BytesInOrder
    OwnResponse
PROPERTIES
    NoResetOfSingleRequest
