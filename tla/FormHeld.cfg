SPECIFICATION Spec
CONSTANTS
    breed = breed
    colors = colors
    beagle = beagle
    grey = grey
    black = black
    Keys = {breed, colors}
    Values = {beagle, grey, black}
    MultiKeys = {colors}
    OtherKeys = {breed}
    Other = Other
    Versions <- MCVersions
    Columns <- MCColumns
    BreedKeys = {breed}
    Listings = {l1}
    NoListing = NoListing
    Requests = {p}
    MaxOptions = 6
INVARIANT NothingHoldsTheSeederBack
CHECK_DEADLOCK FALSE
