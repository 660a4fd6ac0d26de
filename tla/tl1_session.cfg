\* A TL1 session with each vendor: login, routing, neighbours, slips of the keyboard.
CONSTANTS
    Words <- SomeWords
    Upper <- UpperCase
    Vendors = {"ciena_tl1", "infinera_tl1", "cisco_ons_tl1"}
    Inventories <- SomeInventories
    Sid = "GNE"
    Username <- User
    Password <- Secret
    PageSize = 2
    Requests <- SomeRequests
    Slips <- SomeSlips
SPECIFICATION Spec
INVARIANTS TypeOK CommandsArriveWhole LoginGate NoStrangersInventory RepliesAreCorrelated PagesAreWhole
CHECK_DEADLOCK FALSE
