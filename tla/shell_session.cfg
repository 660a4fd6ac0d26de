\* One session of up to six bytes on each sort of device.
CONSTANTS
    Printable = {"e", "ena", "l", "sh", "run", "show", "configuration", "exit"}
    Fits <- SomeFits
    Words <- Vocabulary
    Secret <- Password
    Devices <- SomeDevices
    Files <- SomeFiles
    Faults = {"slow_response", "disconnect_mid", "malformed"}
    MaxKeys = 6
SPECIFICATION Spec
INVARIANTS TypeOK EchoIsTheLine EveryCommandIsObserved CutIsFinal HangsOnTheFirstCommand EndsForAReason
CHECK_DEADLOCK FALSE
