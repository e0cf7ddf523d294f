-------------------------------- MODULE Auth --------------------------------
(***************************************************************************)
(* services/shared/auth.service.js: accounts with their sessions, and the  *)
(* one-time codes of a subject.  They share no row: what a code was asked  *)
(* for goes on once it was accepted, in a request of Sessions that does not*)
(* look at the code again, and a code is requested and compared whatever   *)
(* the sessions are.  So a step of one can neither enable nor disturb a    *)
(* step of the other, and instead of their product a behaviour exercises   *)
(* one of them, the one named by focus.                                    *)
(***************************************************************************)
EXTENDS SessionsInTurn, Naturals, Sequences

CONSTANTS MaxAttempts, CodeRequests, MaxChallenges                   \* Codes

VARIABLES
    focus,
    challenges, codeReqs, accepted, codesOverlapped

ASSUME CodesAssumption ==
    /\ MaxAttempts \in Nat \ {0}
    /\ MaxChallenges \in Nat
    /\ IsFiniteSet(CodeRequests)

Codes == INSTANCE OtpInTurn WITH
    Requests <- CodeRequests, reqs <- codeReqs, overlapped <- codesOverlapped

codeVars == <<challenges, codeReqs, accepted, codesOverlapped>>
allVars  == <<turnVars, codeVars, focus>>

AllInit ==
    /\ focus \in {"sessions", "codes"}
    /\ TurnInit /\ Codes!TurnInit

AllNext ==
    /\ UNCHANGED focus
    /\ \/ focus = "sessions" /\ TurnNext       /\ UNCHANGED codeVars
       \/ focus = "codes"    /\ Codes!TurnNext /\ UNCHANGED turnVars

AllSpec == AllInit /\ [][AllNext]_allVars

----------------------------------------------------------------------------
(* Properties *)

\* Every table of both parts holds what it can hold.
TypesOK == TypeOK /\ Codes!TypeOK

\* Codes: only the code sent last can work, however the requests for codes and
\* the uses of codes overlap (the transaction of requestOtp).
OnlyNewestIsActive == Codes!OnlyNewestIsActive

\* Codes: the attempt cap is exceeded by less than the requests that run beside
\* the one that reaches it (consumeOtp).
AttemptsAreBounded == Codes!AttemptsAreBounded

\* Codes: as long as requests take turns, a code is accepted only while it is
\* the active one (consumeOtp).
AcceptedWhileActiveInTurn == Codes!AcceptedWhileActiveInTurn

=============================================================================
