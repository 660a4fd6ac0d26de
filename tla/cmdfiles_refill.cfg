\* An edit after the first hit is served, when two first hits overlap.
CONSTANTS
    h1 = h1  h2 = h2
    lldp = lldp  cdp = cdp  dotted = dotted
    Sessions = {s1, s2}
    Hosts = {h1, h2}
    Slugs = {lldp, cdp, dotted}
    Unsafe = {dotted}
    Contents <- TwoFolders
    MaxEdits = 1
    DiskErrors = FALSE
SYMMETRY Interchangeable
SPECIFICATION Spec
PROPERTY FirstReadSticks
CHECK_DEADLOCK FALSE
