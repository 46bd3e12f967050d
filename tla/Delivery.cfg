\* Two Alertmanagers, the resend delay within the interval, evaluations that take up to half of it.
SPECIFICATION Spec
CONSTANTS
    am1 = am1
    am2 = am2
    Receiver <- TwoReceivers
    interval = 2
    evalDelay = 1
    forDur = 0
    keepFire = 2
    ResendDelay = 2
    resolvedRetention = 4
    Epoch = 2
    MaxExec = 1
    MaxTime = 14
SYMMETRY ReceiverSymmetry
CHECK_DEADLOCK FALSE
INVARIANTS
    StaysFiring
    EndsWithTheRule
    ResolutionEnds
