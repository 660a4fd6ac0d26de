\* Two instances, two starts of the first and one of the second, and a second run of the generator.
CONSTANTS
    i1 = i1  i2 = i2
    h1 = h1  h2 = h2  h3 = h3
    f1 = f1  f2 = f2  f3 = f3
    ip1 = ip1  ip2 = ip2
    key1 = key1  key2 = key2
    Instances = {i1, i2}
    Hosts <- SomeHosts
    Point <- Points
    Drivers = {"cisco_ios", "ciena_tl1"}
    MaxPort = 2
    MaxStarts <- SomeStarts
    DiskErrors = TRUE
SPECIFICATION Spec
INVARIANTS TypeOK MapsFollowTheListeners PortsAnswerForTheirRows HostKeyNeverChanges ConfigsMatchTheManifest
CHECK_DEADLOCK FALSE
