----------------------------- MODULE MCPetForm -----------------------------
(* Two questions; the second version of the file drops one and adds an     *)
(* option to the other.                                                    *)
EXTENDS PetForm

CONSTANTS breed, colors, beagle, grey, black

MCVersions ==
    << <<[key |-> breed, values |-> {beagle}], [key |-> colors, values |-> {grey}]>>,
       <<[key |-> colors, values |-> {grey, black}]>> >>

\* The columns breed, breedOther and colors.
MCColumns == {{breed} \X Values, {<<breed, Other>>}, {colors} \X (Values \cup {Other})}

=============================================================================
