--------------------------- MODULE SessionsInTurn ---------------------------
(* Sessions with a memory of whether requests have ever overlapped, and    *)
(* what the handlers promise as long as they have not.                     *)
EXTENDS Sessions

VARIABLES
    overlapped,     \* a request took a step while another was in flight
    failed          \* a request ended half-way

turnVars == <<vars, overlapped, failed>>

TurnInit == Init /\ overlapped = FALSE /\ failed = FALSE

Alone(r) == \A q \in Requests \ {r} : reqs[q] = Idle

TurnNext ==
    \/ \E r \in Requests :
          /\ Handle(r)
          /\ overlapped' = (overlapped \/ ~Alone(r))
          /\ failed' = (failed \/ Fail(r))
    \/ \E t \in Tokens : Expire(t) /\ UNCHANGED <<overlapped, failed>>

TurnSpec == TurnInit /\ [][TurnNext]_turnVars

\* As long as requests take turns, a session that a logout, a reset or the
\* replay of its token has ended never comes back to life, whatever fails.
EndedStaysEndedInTurn == ~overlapped => EndedStaysEnded

\* As long as requests take turns, a token that has its replacement never
\* gets another.
OneUsePerTokenInTurn == [][~overlapped' => ReplacedOnce]_turnVars

\* As long as requests take turns and none fails half-way, no session is
\* older than its user's password, except while the request that set it runs.
OutdatedSessionsEndInTurn == ~overlapped /\ ~failed => OutdatedSessionsEnd

=============================================================================
