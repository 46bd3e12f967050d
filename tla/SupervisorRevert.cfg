\* An edit that is reverted while a group has received it and not taken it over.
SPECIFICATION FairSpec
CONSTANTS
    g1 = g1
    g2 = g2
    Group = {g1, g2}
    Content <- ThreeContents
    groups <- ThreeConfigs
    absent = "absent"
    Rejected <- ThirdRejected
    Triggers = {"tick"}
    MaxEdits = 2
CHECK_DEADLOCK FALSE
PROPERTIES
    ChecksPickEditsUp
