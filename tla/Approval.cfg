SPECIFICATION MCSpec
CONSTANTS
    Id = {a1}
    Person = {alice, bob, carol}
    NoOne = NoOne
    Caller = {c1, c2}
    RequiredChoices = {0, 1}
    DefaultRequired = 2
    ExpireAfter = 0
    CancelWindow = 0
    MaxTime = 1
    MaxUnaudited = 1
SYMMETRY Symmetric
INVARIANTS
    FourEyes
    AuditTellsOutcome
PROPERTIES
    DecidedIsFinal
    WithdrawnInWindow
