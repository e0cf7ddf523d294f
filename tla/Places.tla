------------------------------- MODULE Places -------------------------------
(***************************************************************************)
(* Where a listing is: utils/indiaLocations.js, the location half of       *)
(* petListing.service.js and the state filter of the public catalogue.  An *)
(* individual's listing has a location of its own, a partner's inherits its*)
(* store's; either may lack its state, hold a former name of a city or one *)
(* several states share.  Upper and lower case are one name throughout.    *)
(***************************************************************************)
EXTENDS Naturals, FiniteSets

CONSTANTS
    PLACES,             \* the dataset's cities: records of a name and a state
    CITY_ALIASES,       \* the current name of a former one
    Unknown,            \* a name the dataset does not have
    None                \* null

ASSUME PlacesAssumption ==
    /\ IsFiniteSet(PLACES)
    /\ \A p \in PLACES : p.name # None /\ p.state # None
    /\ None \notin DOMAIN CITY_ALIASES

Cities  == {p.name : p \in PLACES}
States  == {p.state : p \in PLACES}
Aliases == DOMAIN CITY_ALIASES

\* What a client or a partner may send as a city and as a state.
AnyCity  == Cities \cup Aliases \cup {Unknown, None}
AnyState == States \cup {Unknown, None}

Location == [city : AnyCity, state : AnyState]
Nowhere  == [city |-> None, state |-> None]

----------------------------------------------------------------------------
(* The dataset *)

\* STATES_BY_CITY: an alias is wherever its city is.
StatesOf(city) ==
    {p.state : p \in {p \in PLACES :
        p.name = IF city \in Aliases THEN CITY_ALIASES[city] ELSE city}}

\* The state of a city, unless no state or more than one has it.
StateOfCity(city) ==
    IF Cardinality(StatesOf(city)) = 1 THEN CHOOSE s \in StatesOf(city) : TRUE ELSE None

CitiesIn(state) == {p.name : p \in {p \in PLACES : p.state = state}}

\* The cities of a state and their former names.
CitiesInState(state) ==
    CitiesIn(state) \cup {a \in Aliases : CITY_ALIASES[a] \in CitiesIn(state)}

----------------------------------------------------------------------------
(* Rows *)

\* The columns of a listing that brings its own location.
LocationColumnsFrom(location) ==
    [city  |-> location.city,
     state |-> IF location.state # None THEN location.state
                                        ELSE StateOfCity(location.city)]

\* The two kinds of listing: an individual's, and a partner's with whatever its
\* store's onboarding saved.
Rows == {[own |-> LocationColumnsFrom(l), store |-> Nowhere] : l \in Location}
            \cup {[own |-> Nowhere, store |-> l] : l \in Location}

HasOwn(row) == row.own.city # None \/ row.own.state # None

\* The location the card shows.
LocationOf(row) ==
    LET source == IF HasOwn(row) THEN row.own ELSE row.store IN
    [city  |-> source.city,
     state |-> IF source.state # None THEN source.state ELSE StateOfCity(source.city)]

\* Mutant: the store is asked for its state alone.
MatchesStateColumns(row, state) ==
    state \in {row.own.state, row.store.state} \/ row.own.city \in CitiesInState(state)

\* The state arm of findAndCountPublic.
MatchesState(row, state) ==
    \/ state \in {row.own.state, row.store.state}
    \/ {row.own.city, row.store.city} \cap CitiesInState(state) # {}

----------------------------------------------------------------------------
(* Property *)

\* "The label has to agree with the filter": a listing whose card names a state
\* is found by everyone who browses that state, whoever published it, however
\* little of its location was filled in and under whichever name of its city;
\* and a city that several states share never gets a state of its own.
LabelIsFound ==
    /\ \A row \in Rows :
          LocationOf(row).state # None => MatchesState(row, LocationOf(row).state)
    /\ \A city \in Cities : Cardinality(StatesOf(city)) > 1 => StateOfCity(city) = None

=============================================================================
