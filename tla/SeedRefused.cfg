SPECIFICATION Spec
CONSTANTS
    ramesh = ramesh
    reviewer = reviewer
    partnerReview = partnerReview
    groomer = groomer
    supplies = supplies
    reviewStore = reviewStore
    spa = spa
    DemoUsers = {ramesh, reviewer}
    DemoPartner = ramesh
    DemoStores <- MCDemoStores
    Profiled = {spa}
    ReviewCustomer = reviewer
    ReviewPartner = partnerReview
    ReviewSlug = kennel
    Categories = {food, veterinary}
    NoUser = NoUser
    NoStore = NoStore
    MaxIds = 6
INVARIANT CallsAreNeverRefused
CHECK_DEADLOCK FALSE
