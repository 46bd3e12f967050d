\* Two edits or reverts of two groups, with every trigger, reloads that fail and both signals.
SPECIFICATION FairSpec
CONSTANTS
    g1 = g1
    g2 = g2
    Group = {g1, g2}
    Content <- ThreeContents
    groups <- ThreeConfigs
    absent = "absent"
    Rejected <- ThirdRejected
    Triggers = {"tick", "request", "hup", "term"}
    MaxEdits = 2
CHECK_DEADLOCK FALSE
INVARIANTS
    RequestsAreServed
    RunsWhatIsLoaded
    StoppedBeforehand
PROPERTIES
    ShutdownHappens
    LatestContentLoads
