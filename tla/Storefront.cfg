CONSTANTS
    Owners = {ana}
    StaffStatuses = {"ACTIVE", "SUSPENDED", "REJECTED"}
    OnboardingRequests = {o, q}
    Categories = {"vitamins", "medicines", "grooming"}
    KindOf <- MCKindOf
    RootOf <- MCRootOf
    Gated = {"medicines"}
    Contents = {"plain", "dosed"}
    Fits <- MCFits
    NewListings <- MCNewListings
    Edits <- MCEdits
    NoContent = NoContent
    ListingRequests = {p}
    MaxListings = 1

SPECIFICATION Spec
SYMMETRY Symmetry

INVARIANTS
    TypeOK
    OfferedByItsStore
    PublishedIsReviewedInTurn

PROPERTIES
    PublishesWithProofInTurn
    SettledStoresAreStaffsInTurn
