CONSTANTS
    Customers = {ana, ben}
    Requests = {p, q}
    MaxAddresses = 5
    Items = {puppy}
    ToggleRequests = {t1, t2, t3}
    MaxHearts = 4
    breed = breed
    colors = colors
    beagle = beagle
    grey = grey
    Keys = {breed, colors}
    Values = {beagle, grey}
    MultiKeys = {colors}
    OtherKeys = {}
    Other = Other
    Versions <- MCVersions
    Columns <- MCColumns
    BreedKeys = {breed}
    Pets = {l1}
    NoListing = NoListing
    FormRequests = {f1, f2}
    MaxOptions = 3
    ramesh = ramesh
    groomer = groomer
    supplies = supplies
    reviewStore = reviewStore
    spa = spa
    DemoUsers = {ramesh, reviewer}
    DemoPartner = ramesh
    DemoStores <- MCDemoStores
    Profiled = {spa}
    ReviewCustomer = reviewer
    ReviewPartner = partnerReview
    ReviewSlug = kennel
    Categories = {"food", "veterinary"}
    NoUser = NoUser
    NoStore = NoStore
    MaxIds = 6
    PLACES <- MCPlaces
    CITY_ALIASES <- MCCityAliases
    Unknown = "Atlantis"
    None = "null"

SPECIFICATION AllSpec
SYMMETRY Symmetry
CHECK_DEADLOCK FALSE

INVARIANTS
    TypesOK
    SingleDefaultInTurn
    OverlappingTapsFlipOnce
    SavedAnswersStayValid
    PublishedFormIsTheFile
    OwnersPointAtTheirStore
    LabelsAreFound
    SchemaIsSound

PROPERTIES
    DefaultPassesOnInTurn
