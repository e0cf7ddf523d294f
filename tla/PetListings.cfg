CONSTANTS
    Owners = {ana, ben}
    Names = {"bruno", "bruno 2"}
    Slugs = {"bruno", "bruno-2", "bruno-2-2"}
    SlugsFor <- MCSlugsFor
    Prices = {100, 200}
    NoPrice = NoPrice
    Colors = {"grey", "black"}
    Forms <- MCForms
    AskedStatuses = {"AVAILABLE", "SOLD", "ARCHIVED"}
    Requests = {p, q}
    MaxListings = 2
    MaxViews = 1

SPECIFICATION TurnSpec
SYMMETRY Symmetry

INVARIANTS
    SaleIsPriced
    LiveNamesAreUniqueInTurn
    ChoicesAreMirroredInTurn

PROPERTIES
    AdoptionIsTerminal
