\* An interval of one sixth of the resend delay, as with -rule.resendDelay's default and interval: 10s; nothing fails.
SPECIFICATION ReliableSpec
CONSTANTS
    am1 = am1
    am2 = am2
    Receiver <- TwoReceivers
    interval = 1
    evalDelay = 0
    forDur = 0
    keepFire = 0
    ResendDelay = 6
    resolvedRetention = 2
    Epoch = 1
    MaxExec = 0
    MaxTime = 10
SYMMETRY ReceiverSymmetry
CHECK_DEADLOCK FALSE
INVARIANTS
    ResolvedOnlyIfWeStop
