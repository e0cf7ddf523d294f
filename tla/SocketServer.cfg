SPECIFICATION FairSpec
CONSTANTS
    ana = ana
    ben = ben
    kennel = kennel
    phone = phone
    tablet = tablet
    shop = shop
    puppy = puppy
    cat = cat
    Customers = {ana, ben}
    Stores = {kennel}
    Devices = {phone, tablet, shop}
    IdentityOf <- MCIdentityOf
    Threads = {puppy, cat}
    CustomerOf <- MCCustomerOf
    SellerOf <- MCSellerOf
    MaxEvents = 1
    MaxConnects = 3
    Asked <- MCAsked
    MaxJoins = 1
INVARIANTS
    PresenceIsTrue
    OnlyPartiesHear
PROPERTIES
    OfflineIsNoticed
    CommittedIsShown
    ClosesOnceLeft
