SPECIFICATION FairSpec
CONSTANTS
    Conns = {c1, c2, c3}
    Careless = {c3}
    MaxOpen = 2
    Scripts <- PlainOnly
    Outcomes <- MCOneOutcome
    Statuses = {200}
PROPERTIES
    PatientClientsServed
