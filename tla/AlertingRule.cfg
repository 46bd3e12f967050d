\* One rule from every restored map: waiting, firing, keeping firing, resolving,
\* purging, re-firing and exceeding its limit, with failures, duplicates and
\* reloads between.
SPECIFICATION HSpec
CONSTANTS
    a = a
    b = b
    Instance <- TwoInstances
    Confs <- RuleConfs
    Restored <- AnyRestored
    ResendDelay = 2
    resolvedRetention = 2
    Epoch = 2
    MaxGap = 2
    MaxTime = 9
SYMMETRY InstanceSymmetry
INVARIANTS
    HTypeOK
    RunsAgree
    AnnouncementsAgree
    NoFiringIsMissed
    ResolvedSendsEnd
    ActiveWithinLimit
PROPERTIES
    FiresOnlyAfterFor
    ResolvesOnlyAfterKeepFiring
    ImplementsLifecycle
