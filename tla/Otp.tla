-------------------------------- MODULE Otp --------------------------------
(***************************************************************************)
(* One-time codes for one subject (a destination, a channel and a purpose):*)
(* requestOtp and consumeOtp of services/shared/auth.service.js over       *)
(* repositories/shared/otp.repository.js.  Subjects share no row, so one   *)
(* stands for all.                                                         *)
(*                                                                         *)
(* Both handlers read the newest challenge that is not consumed, decide on *)
(* that instance, and write later: requestOtp after the code has been sent,*)
(* in a transaction; consumeOtp in a single UPDATE by id.  Whether there is*)
(* an account for the destination is checked before and after, in Sessions.*)
(***************************************************************************)
EXTENDS Naturals, Sequences, FiniteSets

CONSTANTS
    MaxAttempts,    \* OTP_MAX_ATTEMPTS, 5 unless configured
    Requests,       \* the HTTP requests that may be in flight at one time
    MaxChallenges   \* bound: the codes that are created

VARIABLES
    challenges,     \* the subject's rows of otp_challenges, oldest first
    reqs,           \* what each request in flight holds
    accepted        \* ghost: how often the code of each challenge was accepted

vars == <<challenges, reqs, accepted>>

----------------------------------------------------------------------------
(* Rows and requests *)

\* expired: expires_at is in the past; cooling: less than the resend cooldown
\* has passed since created_at.
Challenge == [attempts : Nat, consumed : BOOLEAN, expired : BOOLEAN, cooling : BOOLEAN]

NewChallenge == [attempts |-> 0, consumed |-> FALSE, expired |-> FALSE, cooling |-> TRUE]

Idle == [op |-> "idle"]

\* send: a new code may be sent and stored; count: the code given was wrong;
\* burn: it was right.
Request == {Idle} \cup [op : {"send"}] \cup [op : {"count", "burn"}, id : Nat]

Active == {i \in DOMAIN challenges : ~challenges[i].consumed}

\* findLatestActive.
IsLatestActive(i) == i \in Active /\ \A j \in Active : j <= i

----------------------------------------------------------------------------
(* Actions *)

Init ==
    /\ challenges = <<>>
    /\ reqs = [r \in Requests |-> Idle]
    /\ accepted = <<>>

\* requestOtp up to the sending of the code: the newest code that is not
\* consumed has left its cooldown.
RequestOtp(r) ==
    /\ reqs[r] = Idle
    /\ \A i \in DOMAIN challenges : IsLatestActive(i) => ~challenges[i].cooling
    /\ reqs' = [reqs EXCEPT ![r] = [op |-> "send"]]
    /\ UNCHANGED <<challenges, accepted>>

\* invalidateActive.
Invalidated == [i \in DOMAIN challenges |-> [challenges[i] EXCEPT !.consumed = TRUE]]

\* Mutant: earlier codes stay valid.
StoreAnotherChallenge(r) ==
    /\ reqs[r].op = "send"
    /\ Len(challenges) < MaxChallenges
    /\ challenges' = Append(challenges, NewChallenge)
    /\ accepted' = Append(accepted, 0)
    /\ reqs' = [reqs EXCEPT ![r] = Idle]

\* The transaction of requestOtp, once the code has been delivered.
StoreChallenge(r) ==
    /\ reqs[r].op = "send"
    /\ Len(challenges) < MaxChallenges
    /\ challenges' = Append(Invalidated, NewChallenge)
    /\ accepted' = Append(accepted, 0)
    /\ reqs' = [reqs EXCEPT ![r] = Idle]

\* Mutant: one attempt too many.
AllowsOneMore(i) == ~challenges[i].expired /\ challenges[i].attempts <= MaxAttempts

\* The checks of consumeOtp on the challenge it loaded.
Allows(i) == ~challenges[i].expired /\ challenges[i].attempts < MaxAttempts

\* Mutant: any challenge whose code matches will do, consumed or not.
ReadAnyChallenge(r, i, isValid) ==
    /\ reqs[r] = Idle
    /\ i \in DOMAIN challenges
    /\ Allows(i)
    /\ reqs' = [reqs EXCEPT ![r] = [op |-> IF isValid THEN "burn" ELSE "count", id |-> i]]
    /\ UNCHANGED <<challenges, accepted>>

\* consumeOtp up to its write: challenge i is loaded and compared with the
\* code the client gave.
ReadChallenge(r, i, isValid) ==
    /\ reqs[r] = Idle
    /\ IsLatestActive(i)
    /\ Allows(i)
    /\ reqs' = [reqs EXCEPT ![r] = [op |-> IF isValid THEN "burn" ELSE "count", id |-> i]]
    /\ UNCHANGED <<challenges, accepted>>

\* incrementAttempts: attempts = attempts + 1 in the table.
IncrementAttempts(r) ==
    /\ reqs[r].op = "count"
    /\ challenges' = [challenges EXCEPT ![reqs[r].id].attempts = @ + 1]
    /\ reqs' = [reqs EXCEPT ![r] = Idle]
    /\ UNCHANGED accepted

\* markConsumed, after which the flow that asked for the code goes on.
MarkConsumed(r) ==
    /\ reqs[r].op = "burn"
    /\ challenges' = [challenges EXCEPT ![reqs[r].id].consumed = TRUE]
    /\ accepted' = [accepted EXCEPT ![reqs[r].id] = @ + 1]
    /\ reqs' = [reqs EXCEPT ![r] = Idle]

\* The code is not delivered, or the request dies before it writes.
Fail(r) ==
    /\ reqs[r] # Idle
    /\ reqs' = [reqs EXCEPT ![r] = Idle]
    /\ UNCHANGED <<challenges, accepted>>

\* The cooldown of challenge i passes, or its lifetime, which is longer.
Age(i) ==
    /\ i \in DOMAIN challenges
    /\ challenges' = [challenges EXCEPT ![i].cooling = FALSE,
                                        ![i].expired = ~challenges[i].cooling]
    /\ UNCHANGED <<reqs, accepted>>

\* One step of request r.
Handle(r) ==
    \/ RequestOtp(r)
    \/ StoreChallenge(r)
    \/ \E i \in DOMAIN challenges, isValid \in BOOLEAN : ReadChallenge(r, i, isValid)
    \/ IncrementAttempts(r)
    \/ MarkConsumed(r)
    \/ Fail(r)

Next ==
    \/ \E r \in Requests : Handle(r)
    \/ \E i \in DOMAIN challenges : Age(i)

Spec == Init /\ [][Next]_vars

----------------------------------------------------------------------------
(* Properties *)

\* Every variable holds what its table or its handler can hold.
TypeOK ==
    /\ challenges \in Seq(Challenge)
    /\ reqs \in [Requests -> Request]
    /\ \A r \in Requests : reqs[r].op \in {"count", "burn"} => reqs[r].id \in DOMAIN challenges
    /\ accepted \in [DOMAIN challenges -> Nat]

\* Only the code sent last can work: any other challenge is consumed, however
\* the requests for codes and the uses of codes overlap.
OnlyNewestIsActive == \A i \in Active : i = Len(challenges)

\* The wrong codes being counted for challenge i.
Counting(i) == {r \in Requests : reqs[r].op = "count" /\ reqs[r].id = i}

\* "the attempt cap [is] defined once": requests that overlap can exceed the
\* cap only by as many as run beside the one that reaches it.
AttemptsAreBounded ==
    \A i \in DOMAIN challenges :
        challenges[i].attempts + Cardinality(Counting(i)) < MaxAttempts + Cardinality(Requests)

============================================================================
