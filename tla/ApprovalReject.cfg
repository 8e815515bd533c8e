SPECIFICATION MCSpec
CONSTANTS
    Id = {a1}
    Person = {alice, bob, carol}
    NoOne = NoOne
    Caller = {c1, c2}
    RequiredChoices = {0}
    DefaultRequired = 2
    ExpireAfter = 1
    CancelWindow = 1
    MaxTime = 0
    MaxUnaudited = 0
PROPERTIES
    RejectIsFinal
