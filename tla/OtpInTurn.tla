----------------------------- MODULE OtpInTurn -----------------------------
(* Otp with a memory of whether requests have ever overlapped, and what    *)
(* the handlers promise as long as they have not.                          *)
EXTENDS Otp

VARIABLE overlapped     \* a request took a step while another was in flight

turnVars == <<vars, overlapped>>

TurnInit == Init /\ overlapped = FALSE

Alone(r) == \A q \in Requests \ {r} : reqs[q] = Idle

TurnNext ==
    \/ \E r \in Requests :
          /\ Handle(r)
          /\ overlapped' = (overlapped \/ ~Alone(r))
    \/ \E i \in DOMAIN challenges : Age(i) /\ UNCHANGED overlapped

TurnSpec == TurnInit /\ [][TurnNext]_turnVars

\* As long as requests take turns, a code is accepted only while it is the
\* active one: neither after it was used nor after a newer one was stored.
AcceptedWhileActiveInTurn ==
    [][~overlapped' =>
          \A i \in DOMAIN accepted : accepted'[i] # accepted[i] => i \in Active]_turnVars

============================================================================
