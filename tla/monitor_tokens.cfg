SPECIFICATION FairSpec
CONSTANTS
    Clients = {c1, c2, c3, c4}
    Calls <- CallNames
INVARIANTS
    TypeOK
    CountersExact
    OneFamily
    NobodyStranded
PROPERTIES
    RequestsServed
