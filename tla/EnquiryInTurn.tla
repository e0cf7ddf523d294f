--------------------------- MODULE EnquiryInTurn ---------------------------
(* Enquiry with a memory of whether requests have ever overlapped, and     *)
(* what the handlers promise as long as they have not.                     *)
EXTENDS Enquiry

VARIABLE overlapped     \* a request took a step while another was in flight

turnVars == <<vars, overlapped>>

TurnInit == Init /\ overlapped = FALSE

Alone(r) == \A q \in Requests \ {r} : reqs[q] = Idle

TurnNext ==
    \/ \E r \in Requests :
          /\ Handle(r)
          /\ overlapped' = (overlapped \/ ~Alone(r))
    \/ Elsewhere /\ UNCHANGED overlapped

TurnSpec == TurnInit /\ [][TurnNext]_turnVars

\* "Was the newest message written by whoever is reading this row?": as long
\* as requests take turns, the last_message_ columns an inbox goes by are
\* those of the message written last.
LastMessageAgreesInTurn == ~overlapped => LastMessageAgrees

============================================================================
