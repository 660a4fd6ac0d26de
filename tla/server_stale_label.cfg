\* The label counted may be older than the outcome.
CONSTANTS
    c1 = c1  c2 = c2  c3 = c3  c4 = c4
    d1 = d1  d2 = d2
    k1 = k1  k2 = k2
    Conns = {c1}
    Devices = {d1}
    Chans = {k1, k2}
    Cap = 1
    DeviceOf <- OneOverOne
    Profile <- HangOnly
    DriverAuth <- CiscoOnly
    SSHAuthMode = "password"
    AnyPassword = FALSE
    Rolls = {FALSE}
    MaxAuthTries = 2
    TransientErrors = TRUE
    BindErrors = TRUE
SPECIFICATION Spec
INVARIANT LostSessionsAreCounted
CHECK_DEADLOCK FALSE
