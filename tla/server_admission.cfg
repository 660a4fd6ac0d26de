\* Admission: four connections, three of which compete for two places, no channels.
CONSTANTS
    c1 = c1  c2 = c2  c3 = c3  c4 = c4
    d1 = d1  d2 = d2
    k1 = k1  k2 = k2
    Conns = {c1, c2, c3, c4}
    Devices = {d1, d2}
    Chans = {}
    Cap = 2
    DeviceOf <- FourOverTwo
    Profile <- RefuseSecond
    DriverAuth <- CiscoAndTL1
    SSHAuthMode = "password"
    AnyPassword = FALSE
    Rolls = {TRUE, FALSE}
    MaxAuthTries = 1
    TransientErrors = TRUE
    BindErrors = TRUE
SYMMETRY Competitors
SPECIFICATION Spec
INVARIANTS TypeOK SlotsAccounted CountersBalanced DrainIsFinal
CHECK_DEADLOCK FALSE
