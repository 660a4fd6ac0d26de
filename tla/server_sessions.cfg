\* Sessions: two connections with a channel each, a hang and a cut, one place.
CONSTANTS
    c1 = c1  c2 = c2  c3 = c3  c4 = c4
    d1 = d1  d2 = d2
    k1 = k1  k2 = k2
    Conns = {c1, c2}
    Devices = {d1, d2}
    Chans = {k1}
    Cap = 1
    DeviceOf <- TwoOverTwo
    Profile <- HangAndCut
    DriverAuth <- CiscoAndTL1
    SSHAuthMode = "driver"
    AnyPassword = FALSE
    Rolls = {TRUE, FALSE}
    MaxAuthTries = 1
    TransientErrors = TRUE
    BindErrors = TRUE
SPECIFICATION FairSpec
INVARIANTS ResetIsNeverOk LabelsMeanWhatTheySay
PROPERTIES ImplementsSlots EveryConnectionEnds ShutdownReturns ShellsReturn FailedStartStops
CHECK_DEADLOCK FALSE
