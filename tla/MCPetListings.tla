--------------------------- MODULE MCPetListings ---------------------------
(* Two people list pets under two names, one of which is the other's second *)
(* link.                                                                    *)
EXTENDS PetListingsInTurn, TLC

MCSlugsFor == ("bruno" :> <<"bruno", "bruno-2">>) @@ ("bruno 2" :> <<"bruno-2", "bruno-2-2">>)

MCForms ==
    { [name |-> "bruno",   price |-> 100,     colors |-> "grey"],
      [name |-> "bruno 2", price |-> NoPrice, colors |-> "black"] }

Symmetry == Permutations(Requests) \cup Permutations(Owners)

============================================================================
