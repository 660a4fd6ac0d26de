\* Two workers render up to four devices, with errors at any file; three gateways in a chain.
CONSTANTS
    Models <- ThreeModels
    Configs <- SomeConfigs
    Gateway = "gne"
    Cities = {"LAX"}
    RneCounts = {2, 3}
    Indices = 3
    Workers = {w1, w2}
    QueueCap = 1
    DiskErrors = TRUE
SPECIFICATION FairSpec
INVARIANTS TypeOK ManifestNamesWholeFiles  SharesAreKept SharedElementsAgree
PROPERTY RunReturns
