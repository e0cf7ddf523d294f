SPECIFICATION TurnSpec
CONSTANTS
    buyer = buyer
    owner = owner
    kennel = kennel
    puppy = puppy
    cat = cat
    Users = {buyer, owner}
    Stores = {kennel}
    Listings = {puppy, cat}
    SellerOf <- OwnerOfEach
    AskedStatuses = {"CLOSED"}
    Requests = {r1, r2}
    MaxThreads = 2
    MaxMessages = 3
    MaxClock = 2
SYMMETRY Symmetry
INVARIANTS
    FromMeIsHonest
    LastMessageAgreesInTurn
CHECK_DEADLOCK FALSE
