\* A hang while the server shuts down, before any long timer is over: two
\* connections to one hanging device.
CONSTANTS
    c1 = c1  c2 = c2  c3 = c3  c4 = c4
    d1 = d1  d2 = d2
    k1 = k1  k2 = k2
    Conns = {c1, c2}
    Devices = {d1}
    Chans = {k1}
    Cap = 2
    DeviceOf <- TwoOverOne
    Profile <- HangOnly
    DriverAuth <- CiscoOnly
    SSHAuthMode = "password"
    AnyPassword = FALSE
    Rolls = {FALSE}
    MaxAuthTries = 2
    TransientErrors = TRUE
    BindErrors = TRUE
SPECIFICATION PromptSpec
PROPERTY HangsDoNotHoldShutdown
CHECK_DEADLOCK FALSE
