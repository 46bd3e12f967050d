\* An evaluation that does not end.
SPECIFICATION HangSpec
CONSTANTS
    g1 = g1
    g2 = g2
    Group = {g1, g2}
    Content <- ThreeContents
    groups <- ThreeConfigs
    absent = "absent"
    Rejected <- ThirdRejected
    Triggers = {"term"}
    MaxEdits = 0
CHECK_DEADLOCK FALSE
PROPERTIES
    ShutdownDoesNotHang
