\* Two sessions look up three commands of two devices, with edits and errors.
CONSTANTS
    h1 = h1  h2 = h2
    lldp = lldp  cdp = cdp  dotted = dotted
    Sessions = {s1, s2}
    Hosts = {h1, h2}
    Slugs = {lldp, cdp, dotted}
    Unsafe = {dotted}
    Contents <- TwoFolders
    MaxEdits = 1
    DiskErrors = TRUE
SYMMETRY Interchangeable
SPECIFICATION Spec
INVARIANTS TypeOK CachesAreBounded QuietDiskIsTransparent
PROPERTY CachesSettle
CHECK_DEADLOCK FALSE
