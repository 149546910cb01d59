CONSTANTS
    Nodes = {n1, n2}
    NoNode = NoNode
    Services = {web}
    Controllers = {op}
    NoWrite = NoWrite
    BeatInterval = 1
    NotReadyAfter = 0
    DeadAfter = 1
    MaxUpsets = 2
SPECIFICATION FairSpec
INVARIANTS TypeOK DoubleRunExplained MovesHaveCauses
PROPERTY AutoFailoverCompletes
