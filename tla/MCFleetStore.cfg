SPECIFICATION FairSpec
CONSTANTS
    Humans = {h1, h2}
    Agents = {a1}
    Nodes = {n1}
    Fields = {facts, ratified}
    HumanOnly = {ratified}
    Values = {none, declared}
    None = none
    Facts = facts
    Declared = declared
    MaxEdits = 2
INVARIANTS
    TypeOK
    StalenessUnlessClash
PROPERTIES
    SeatKeepsRatification
    RegistrationConverges
CHECK_DEADLOCK FALSE
