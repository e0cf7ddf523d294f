------------------------- MODULE PetListingsInTurn -------------------------
(* PetListings with a memory of whether requests have ever overlapped, and *)
(* what the handlers promise as long as they have not.                     *)
EXTENDS PetListings

VARIABLE overlapped     \* a request took a step while another was in flight

turnVars == <<vars, overlapped>>

TurnInit == Init /\ overlapped = FALSE

Alone(r) == \A q \in Requests \ {r} : reqs[q] = Idle

TurnNext ==
    \E r \in Requests :
        /\ Handle(r)
        /\ overlapped' = (overlapped \/ ~Alone(r))

TurnSpec == TurnInit /\ [][TurnNext]_turnVars

\* "One live listing per name", also after edits, removals and relistings, as
\* long as requests take turns: the query and the insert are apart.
LiveNamesAreUniqueInTurn == ~overlapped => LiveNamesAreUnique

\* The string half of an answer and its id half agree as long as requests take
\* turns, though one is saved by difference and the other replaced.
ChoicesAreMirroredInTurn == ~overlapped => ChoicesAreMirrored

============================================================================
