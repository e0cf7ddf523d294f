----------------------------- MODULE MCCustomer -----------------------------
(***************************************************************************)
(* A small instance of Customer, and the file the form comes from, of which*)
(* the one thing asked is asked in "data".                                 *)
(***************************************************************************)
EXTENDS Customer, TLC

CONSTANTS
    breed, colors, beagle, grey,
    ramesh, groomer, supplies, reviewStore, spa

\* The second version drops a question.
MCVersions ==
    << <<[key |-> breed, values |-> {beagle}], [key |-> colors, values |-> {grey}]>>,
       <<[key |-> colors, values |-> {grey}]>> >>

\* The columns breed, breedOther and colors.
MCColumns == {{breed} \X Values, {<<breed, Other>>}, {colors} \X (Values \cup {Other})}

\* Three of the five demo stores: one per way an owner comes to its account.
MCDemoStores == supplies :> ramesh @@ reviewStore :> ReviewPartner @@ spa :> groomer

\* Bengaluru has a former name, two states share Aurangabad, and one of them
\* has a city of its own.
MCPlaces == {[name |-> "Bengaluru",  state |-> "Karnataka"],
             [name |-> "Aurangabad", state |-> "Maharashtra"],
             [name |-> "Aurangabad", state |-> "Bihar"],
             [name |-> "Darbhanga",  state |-> "Bihar"]}

MCCityAliases == "bangalore" :> "Bengaluru"

AddForm == INSTANCE PetFormSchema

\* The form's file can be seeded, filled in and saved for every animal.
SchemaIsSound == focus = "data" => AddForm!SchemaIsSound

Symmetry == Permutations(Requests) \cup Permutations(FormRequests)

=============================================================================
