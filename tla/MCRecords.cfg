SPECIFICATION RecordsSpec
CONSTANTS
    MaxTickets = 2
    MaxDay = 2
    MaxLosses = 2
    MaxVersion = 4
    Fresh = Fresh
    Refused = Refused
INVARIANTS
    Recoverable
    OncePerPosition
PROPERTIES
    OnlyDamageTears
    ImplementsRegister
    KnownClosingsCounted
