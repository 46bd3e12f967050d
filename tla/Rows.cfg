\* Two evaluations of one result.
SPECIFICATION Spec
CONSTANTS
    NULL = NULL
    Results <- AllResults
    Labelings <- AllLabelings
    alert <- TheAlert
    Addresses <- TwoAddresses
    byteOrder <- NamesInOrder
CHECK_DEADLOCK FALSE
INVARIANTS
    TypeOK
    LabelsAsDocumented
    DuplicatesAreReal
    
