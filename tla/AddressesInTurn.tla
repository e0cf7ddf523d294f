-------------------------- MODULE AddressesInTurn --------------------------
(* Addresses with a memory of whether requests have ever overlapped, and   *)
(* what the handlers promise as long as they have not.                     *)
EXTENDS Addresses

VARIABLE overlapped     \* a request took a step while another was in flight

turnVars == <<vars, overlapped>>

TurnInit == Init /\ overlapped = FALSE

Alone(r) == \A q \in Requests \ {r} : reqs[q] = Idle

TurnNext ==
    \E r \in Requests :
        /\ Handle(r)
        /\ overlapped' = (overlapped \/ ~Alone(r))

TurnSpec == TurnInit /\ [][TurnNext]_turnVars

\* ensureSingleDefault keeps its word as long as requests take turns, also when
\* a default is removed and another promoted.
SingleDefaultInTurn ==
    ~overlapped => \A u \in Customers : \A a, b \in Defaults(u) : a = b

\* A customer who has a default keeps one as long as there are addresses and
\* requests take turns: only their own PATCH can switch it off.
DefaultPassesOnInTurn ==
    [][~overlapped' => \A u \in Customers :
          Defaults(u) # {} /\ Defaults(u)' = {} =>
              \/ AddressesOf(u)' = {}
              \/ \E r \in Requests : reqs[r].stage = "updating" /\ ~reqs[r].asked]_turnVars

=============================================================================
