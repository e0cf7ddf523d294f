--------------------------- MODULE EnquiryProofs ---------------------------
(***************************************************************************)
(* What Enquiry keeps for any users, stores, listings and requests: both   *)
(* ends of a conversation see who wrote what, and as long as requests take *)
(* turns the inbox row of a thread is that of the message written last.    *)
(***************************************************************************)
EXTENDS EnquiryInTurn, TLAPS

----------------------------------------------------------------------------
(* The strengthened invariant *)

\* sender and from are those of a party to the conversation that row is about.
Sided(row, sender, from) ==
    LET seller == SellerOf[row.listing] IN
    row.customer # seller =>
        /\ sender \in {row.customer, seller}
        /\ from = "PARTNER" <=> sender = seller

SameEnds(row, other) == row.customer = other.customer /\ row.listing = other.listing

\* Every message was written by the end it is filed under.
Authored ==
    \A i \in DOMAIN messages :
        Sided(threads[messages[i].thread], messages[i].sender, messages[i].from)

\* So will be the one that a request is about to write, whatever became of the
\* thread since it was loaded.
HeldBy(q) ==
    q \in Posting =>
        /\ Sided(q.seen, q.sender, q.from)
        /\ q.thread # 0 => q.thread \in DOMAIN threads /\ SameEnds(q.seen, threads[q.thread])

Held == \A r \in Requests : HeldBy(reqs[r])

EnquiryInv == TypeOK /\ Authored /\ Held

----------------------------------------------------------------------------
(* Rows and requests *)

LEMMA TableFacts ==
    ASSUME TypeOK
    PROVE  /\ Len(threads) \in Nat /\ DOMAIN threads = 1 .. Len(threads)
           /\ Len(messages) \in Nat /\ DOMAIN messages = 1 .. Len(messages)
           /\ \A t \in DOMAIN threads : threads[t] \in Thread
           /\ \A i \in DOMAIN messages : messages[i] \in Message
BY DEF TypeOK

LEMMA StageFacts ==
    ASSUME NEW q \in Request
    PROVE  /\ q.stage = "checked" => q.user \in Users /\ q.listing \in Listings
           /\ q.stage \in {"loaded", "stamped"} <=> q \in Posting
           /\ q.stage = "status" => q.thread \in Nat /\ q.status \in EnquiryStatus
           /\ q.stage = "idle" <=> q = Idle
BY DEF Request, Idle, Posting

LEMMA PostingFacts ==
    ASSUME NEW q \in Posting
    PROVE  /\ q.thread \in Nat /\ q.seen \in Thread /\ q.sender \in Users \cup Stores
           /\ q.from \in SenderType /\ q.status \in EnquiryStatus /\ q.at \in Nat
BY DEF Posting

LEMMA NewThreadIsThread ==
    ASSUME NEW c \in Users, NEW l \in Listings
    PROVE  /\ NewThread(c, l) \in Thread
           /\ NewThread(c, l).customer = c /\ NewThread(c, l).listing = l
BY DEF NewThread, Thread, EnquiryStatus

LEMMA LoadedIsPosting ==
    ASSUME NEW t \in Nat, NEW row \in Thread, NEW sender \in Users \cup Stores,
           NEW from \in SenderType, NEW status \in EnquiryStatus
    PROVE  LET q == Loaded(t, row, sender, from, status)
           IN  /\ q \in Posting /\ q \in Request
               /\ q.thread = t /\ q.seen = row /\ q.sender = sender /\ q.from = from
BY DEF Loaded, Posting, Request

\* Saving the columns of the inbox leaves the two ends of a thread alone.
LEMMA TouchedFacts ==
    ASSUME NEW row \in Thread, NEW q \in Posting
    PROVE  Touched(row, q) \in Thread /\ SameEnds(Touched(row, q), row)
<1>1. /\ Saved(q.at, q.seen.lastAt, row.lastAt) \in Nat
      /\ Saved(q.from, q.seen.lastFrom, row.lastFrom) \in SenderType \cup {"nobody"}
      /\ Saved(q.status, q.seen.status, row.status) \in EnquiryStatus
  BY PostingFacts DEF Thread, Saved
<1> QED
  BY <1>1 DEF Touched, Thread, SameEnds

LEMMA EndsDecideSides ==
    ASSUME NEW row, NEW other, NEW sender, NEW from,
           SameEnds(row, other), Sided(row, sender, from)
    PROVE  Sided(other, sender, from)
BY DEF SameEnds, Sided

----------------------------------------------------------------------------
(* Steps that only change what a request holds *)

LEMMA RequestStep ==
    ASSUME EnquiryInv, NEW r \in Requests, NEW q \in Request, HeldBy(q),
           reqs' = [reqs EXCEPT ![r] = q], UNCHANGED <<threads, messages, clock>>
    PROVE  EnquiryInv'
<1>1. TypeOK'
  BY DEF EnquiryInv, TypeOK
<1>2. Authored'
  BY DEF EnquiryInv, Authored
<1>3. \A x \in Requests : reqs'[x] = IF x = r THEN q ELSE reqs[x]
  BY DEF EnquiryInv, TypeOK
<1>4. Held'
  BY <1>3 DEF EnquiryInv, Held, HeldBy
<1> QED
  BY <1>1, <1>2, <1>4 DEF EnquiryInv

LEMMA IdleIsHeld == Idle \in Request /\ Idle \notin Posting /\ HeldBy(Idle)
<1>1. Idle \notin Posting
  BY DEF Idle, Posting
<1> QED
  BY <1>1 DEF Request, HeldBy

LEMMA StartStep ==
    ASSUME EnquiryInv, NEW r \in Requests, NEW c \in Users, NEW l \in Listings,
           StartFromCustomer(r, c, l)
    PROVE  EnquiryInv'
<1> DEFINE q == [stage |-> "checked", user |-> c, listing |-> l]
<1>1. q \in Request /\ q \notin Posting
  BY DEF Request, Posting
<1>2. HeldBy(q)
  BY <1>1 DEF HeldBy
<1> QED
  BY <1>1, <1>2, RequestStep DEF StartFromCustomer, Become

LEMMA FindStep ==
    ASSUME EnquiryInv, NEW r \in Requests, FindThread(r)
    PROVE  EnquiryInv'
<1> DEFINE c == reqs[r].user
           l == reqs[r].listing
           found == {t \in DOMAIN threads : threads[t].customer = c /\ threads[t].listing = l}
<1>1. c \in Users /\ l \in Listings
  BY StageFacts DEF FindThread, EnquiryInv, TypeOK
<1>2. "CUSTOMER" \in SenderType /\ "NEW" \in EnquiryStatus
  BY DEF SenderType, EnquiryStatus
<1>3. ASSUME NEW row, row.customer = c PROVE Sided(row, c, "CUSTOMER")
  BY <1>3 DEF Sided
<1>4. CASE found = {}
  <2> DEFINE q == Loaded(0, NewThread(c, l), c, "CUSTOMER", "NEW")
  <2>1. /\ q \in Request /\ q.seen = NewThread(c, l) /\ q.thread = 0
        /\ q.sender = c /\ q.from = "CUSTOMER"
    BY <1>1, <1>2, NewThreadIsThread, LoadedIsPosting
  <2>2. HeldBy(q)
    BY <1>1, <1>3, <2>1, NewThreadIsThread DEF HeldBy
  <2>3. reqs' = [reqs EXCEPT ![r] = q] /\ UNCHANGED <<threads, messages, clock>>
    BY <1>4 DEF FindThread, Become
  <2> HIDE DEF q
  <2> QED
    BY <2>1, <2>2, <2>3, RequestStep
<1>5. CASE found # {}
  <2>1. PICK t \in found :
           reqs' = [reqs EXCEPT ![r] = Loaded(t, threads[t], c, "CUSTOMER", threads[t].status)]
    BY <1>5 DEF FindThread, Become
  <2> DEFINE q == Loaded(t, threads[t], c, "CUSTOMER", threads[t].status)
  <2>2. t \in Nat /\ t \in DOMAIN threads /\ threads[t] \in Thread /\ threads[t].status \in EnquiryStatus
    BY TableFacts DEF EnquiryInv, Thread
  <2>3. /\ q \in Request /\ q.seen = threads[t] /\ q.thread = t
        /\ q.sender = c /\ q.from = "CUSTOMER"
    BY <1>1, <1>2, <2>2, LoadedIsPosting
  <2>4. HeldBy(q)
    BY <1>3, <2>2, <2>3 DEF HeldBy, SameEnds
  <2>5. UNCHANGED <<threads, messages, clock>>
    BY DEF FindThread
  <2> HIDE DEF q
  <2> QED
    BY <2>1, <2>3, <2>4, <2>5, RequestStep DEF q
<1> QED
  BY <1>4, <1>5

LEMMA SendStep ==
    ASSUME EnquiryInv, NEW r \in Requests, NEW u \in Users, NEW t \in DOMAIN threads,
           SendFromCustomer(r, u, t)
    PROVE  EnquiryInv'
<1> DEFINE from == IF ViewerRoleOf(t, u) = "SELLER" THEN "PARTNER" ELSE "CUSTOMER"
           q == Loaded(t, threads[t], u, from, threads[t].status)
<1>1. t \in Nat /\ threads[t] \in Thread /\ threads[t].status \in EnquiryStatus
  BY TableFacts DEF EnquiryInv, Thread
<1>2. from \in SenderType
  BY DEF SenderType
<1>3. /\ q \in Request /\ q.seen = threads[t] /\ q.thread = t
      /\ q.sender = u /\ q.from = from
  BY <1>1, <1>2, LoadedIsPosting
<1>4. Sided(threads[t], u, from)
  BY DEF SendFromCustomer, Parties, Seller, ViewerRoleOf, Sided
<1>5. HeldBy(q)
  BY <1>3, <1>4 DEF HeldBy, SameEnds
<1>6. reqs' = [reqs EXCEPT ![r] = q] /\ UNCHANGED <<threads, messages, clock>>
  BY DEF SendFromCustomer, Become
<1> HIDE DEF q
<1> QED
  BY <1>3, <1>5, <1>6, RequestStep

LEMMA ReplyStep ==
    ASSUME EnquiryInv, NEW r \in Requests, NEW s \in Stores, NEW t \in DOMAIN threads,
           ReplyFromPartner(r, s, t)
    PROVE  EnquiryInv'
<1> DEFINE q == Loaded(t, threads[t], s, "PARTNER", NextStatus(threads[t]))
<1>1. t \in Nat /\ threads[t] \in Thread /\ NextStatus(threads[t]) \in EnquiryStatus
  BY TableFacts DEF EnquiryInv, Thread, NextStatus, EnquiryStatus
<1>2. /\ q \in Request /\ q.seen = threads[t] /\ q.thread = t
      /\ q.sender = s /\ q.from = "PARTNER"
  BY <1>1, LoadedIsPosting DEF SenderType
<1>3. Sided(threads[t], s, "PARTNER")
  BY DEF ReplyFromPartner, Seller, Sided
<1>4. HeldBy(q)
  BY <1>2, <1>3 DEF HeldBy, SameEnds
<1>5. reqs' = [reqs EXCEPT ![r] = q] /\ UNCHANGED <<threads, messages, clock>>
  BY DEF ReplyFromPartner, Become
<1> HIDE DEF q
<1> QED
  BY <1>2, <1>4, <1>5, RequestStep

LEMMA CreateStep ==
    ASSUME EnquiryInv, NEW r \in Requests, CreateMessage(r)
    PROVE  EnquiryInv'
<1> DEFINE q == [reqs[r] EXCEPT !.stage = "stamped", !.at = clock]
<1>1. reqs[r] \in Posting /\ clock \in Nat /\ HeldBy(reqs[r])
  BY StageFacts DEF CreateMessage, EnquiryInv, TypeOK, Held
<1>2. /\ q \in Posting /\ q.seen = reqs[r].seen /\ q.thread = reqs[r].thread
      /\ q.sender = reqs[r].sender /\ q.from = reqs[r].from
  BY <1>1 DEF Posting
<1>3. q \in Request
  BY <1>2 DEF Request
<1>4. HeldBy(q)
  BY <1>1, <1>2 DEF HeldBy
<1>5. reqs' = [reqs EXCEPT ![r] = q] /\ UNCHANGED <<threads, messages, clock>>
  BY DEF CreateMessage, Become
<1> HIDE DEF q
<1> QED
  BY <1>3, <1>4, <1>5, RequestStep

LEMMA AskStatusStep ==
    ASSUME EnquiryInv, NEW r \in Requests, NEW s \in Stores, NEW t \in DOMAIN threads,
           NEW status \in AskedStatuses, UpdateStatusForStore(r, s, t, status)
    PROVE  EnquiryInv'
<1> DEFINE q == [stage |-> "status", thread |-> t, seen |-> threads[t], status |-> status]
<1>1. t \in Nat /\ threads[t] \in Thread /\ status \in EnquiryStatus
  BY TableFacts, EnquiryAssumption DEF EnquiryInv
<1>2. q \in Request /\ q \notin Posting
  BY <1>1 DEF Request, Posting
<1>3. HeldBy(q)
  BY <1>2 DEF HeldBy
<1>4. reqs' = [reqs EXCEPT ![r] = q] /\ UNCHANGED <<threads, messages, clock>>
  BY DEF UpdateStatusForStore, Become
<1> HIDE DEF q
<1> QED
  BY <1>2, <1>3, <1>4, RequestStep

LEMMA FailStep ==
    ASSUME EnquiryInv, NEW r \in Requests, Fail(r)
    PROVE  EnquiryInv'
BY IdleIsHeld, RequestStep DEF Fail, Become

----------------------------------------------------------------------------
(* Steps that write to the tables *)

\* A table of threads whose rows keep their two ends.
LEMMA ThreadsStep ==
    ASSUME EnquiryInv, threads' \in Seq(Thread), DOMAIN threads \subseteq DOMAIN threads',
           \A t \in DOMAIN threads : SameEnds(threads'[t], threads[t]),
           messages' = messages, clock' = clock, NEW r \in Requests,
           reqs' = [reqs EXCEPT ![r] = Idle]
    PROVE  EnquiryInv'
<1>1. TypeOK'
  BY IdleIsHeld DEF EnquiryInv, TypeOK
<1>2. Authored'
  <2> SUFFICES ASSUME NEW i \in DOMAIN messages
               PROVE  Sided(threads'[messages[i].thread], messages[i].sender, messages[i].from)
    BY DEF Authored, Sided
  <2>1. messages[i].thread \in DOMAIN threads
    BY DEF EnquiryInv, TypeOK
  <2> QED
    BY <2>1 DEF EnquiryInv, Authored, Sided, SameEnds
<1>3. ASSUME NEW x \in Requests PROVE HeldBy(reqs[x])'
  <2>1. reqs'[x] = IF x = r THEN Idle ELSE reqs[x]
    BY DEF EnquiryInv, TypeOK
  <2>2. CASE x = r
    BY <2>1, <2>2, IdleIsHeld DEF HeldBy
  <2>3. CASE x # r
    <3>1. HeldBy(reqs[x]) /\ reqs'[x] = reqs[x]
      BY <2>1, <2>3 DEF EnquiryInv, Held
    <3> QED
      BY <3>1 DEF HeldBy, Sided, SameEnds
  <2> QED
    BY <2>2, <2>3
<1> QED
  BY <1>1, <1>2, <1>3 DEF EnquiryInv, Held

\* A status is saved into its column alone.
LEMMA SaveStatusEffect ==
    ASSUME EnquiryInv, NEW r \in Requests, SaveStatus(r)
    PROVE  /\ threads' \in Seq(Thread) /\ DOMAIN threads' = DOMAIN threads
           /\ \A x \in DOMAIN threads :
                 /\ SameEnds(threads'[x], threads[x])
                 /\ threads'[x].lastAt = threads[x].lastAt
                 /\ threads'[x].lastFrom = threads[x].lastFrom
<1> DEFINE t == reqs[r].thread
           row == [threads[t] EXCEPT
                      !.status = Saved(reqs[r].status, reqs[r].seen.status, threads[t].status)]
<1>1. t \in Nat /\ reqs[r].status \in EnquiryStatus
  BY StageFacts DEF SaveStatus, EnquiryInv, TypeOK
<1>2. threads' = [threads EXCEPT ![t] = row]
  BY DEF SaveStatus
<1>3. t \in DOMAIN threads =>
         /\ row \in Thread /\ SameEnds(row, threads[t])
         /\ row.lastAt = threads[t].lastAt /\ row.lastFrom = threads[t].lastFrom
  <2> HAVE t \in DOMAIN threads
  <2>1. threads[t] \in Thread
    BY TableFacts DEF EnquiryInv
  <2>2. Saved(reqs[r].status, reqs[r].seen.status, threads[t].status) \in EnquiryStatus
    BY <1>1, <2>1 DEF Saved, Thread
  <2> QED
    BY <2>1, <2>2 DEF Thread, SameEnds
<1> HIDE DEF row, t
<1>4. threads' \in Seq(Thread) /\ DOMAIN threads' = DOMAIN threads
  <2>1. threads \in [1 .. Len(threads) -> Thread] /\ Len(threads) \in Nat
    BY TableFacts DEF EnquiryInv, TypeOK
  <2>2. \A x \in DOMAIN threads : threads'[x] = IF x = t THEN row ELSE threads[x]
    BY <1>2, <2>1
  <2>3. threads' \in [1 .. Len(threads) -> Thread]
    BY <1>2, <1>3, <2>1, <2>2
  <2> QED
    BY <2>1, <2>3
<1>5. \A x \in DOMAIN threads :
         /\ SameEnds(threads'[x], threads[x])
         /\ threads'[x].lastAt = threads[x].lastAt
         /\ threads'[x].lastFrom = threads[x].lastFrom
  BY <1>2, <1>3, TableFacts DEF EnquiryInv, TypeOK, SameEnds
<1> QED
  BY <1>4, <1>5

LEMMA SaveStatusStep ==
    ASSUME EnquiryInv, NEW r \in Requests, SaveStatus(r)
    PROVE  EnquiryInv'
BY SaveStatusEffect, ThreadsStep DEF SaveStatus, Become

\* What a commit makes of the two tables.
LEMMA CommitEffect ==
    ASSUME EnquiryInv, NEW r \in Requests, Commit(r)
    PROVE  LET q == reqs[r] IN
           /\ q \in Posting /\ HeldBy(q)
           /\ threads' \in Seq(Thread) /\ DOMAIN threads \subseteq DOMAIN threads'
           /\ DOMAIN threads' \subseteq DOMAIN threads \cup {ThreadId(q)}
           /\ \A t \in DOMAIN threads : SameEnds(threads'[t], threads[t])
           /\ \A t \in DOMAIN threads \ {ThreadId(q)} : threads'[t] = threads[t]
           /\ ThreadId(q) \in DOMAIN threads' /\ SameEnds(threads'[ThreadId(q)], q.seen)
           /\ threads'[ThreadId(q)] =
                 Touched(IF q.thread = 0 THEN q.seen ELSE threads[q.thread], q)
           /\ StoredMessage(q) \in Message
           /\ messages' \in Seq(Message) /\ DOMAIN messages' = 1 .. Len(messages) + 1
           /\ \A i \in DOMAIN messages : messages'[i] = messages[i]
           /\ messages'[Len(messages) + 1] = StoredMessage(q)
           /\ reqs' = [reqs EXCEPT ![r] = Idle] /\ clock' = clock
<1> DEFINE q == reqs[r]
<1>1. q \in Posting /\ HeldBy(q)
  BY StageFacts DEF Commit, EnquiryInv, TypeOK, Held
<1>2. /\ threads' = StoredThreads(q) /\ messages' = Append(messages, StoredMessage(q))
      /\ reqs' = [reqs EXCEPT ![r] = Idle] /\ clock' = clock
  BY DEF Commit, Become
<1> HIDE DEF q
<1>3. /\ q.thread \in Nat /\ q.seen \in Thread /\ Len(threads) \in Nat
      /\ ThreadId(q) \in Nat \ {0}
  BY <1>1, PostingFacts, TableFacts DEF ThreadId, EnquiryInv
<1>4. /\ threads' \in Seq(Thread) /\ DOMAIN threads \subseteq DOMAIN threads'
      /\ DOMAIN threads' \subseteq DOMAIN threads \cup {ThreadId(q)}
      /\ \A t \in DOMAIN threads : SameEnds(threads'[t], threads[t])
      /\ \A t \in DOMAIN threads \ {ThreadId(q)} : threads'[t] = threads[t]
      /\ ThreadId(q) \in DOMAIN threads' /\ SameEnds(threads'[ThreadId(q)], q.seen)
      /\ threads'[ThreadId(q)] = Touched(IF q.thread = 0 THEN q.seen ELSE threads[q.thread], q)
  <2>1. CASE q.thread = 0
    <3> DEFINE row == Touched(q.seen, q)
    <3>1. row \in Thread /\ SameEnds(row, q.seen)
      BY <1>1, <1>3, TouchedFacts
    <3>2. threads' = Append(threads, row) /\ ThreadId(q) = Len(threads) + 1
      BY <1>2, <2>1 DEF StoredThreads, ThreadId
    <3> HIDE DEF row
    <3>3. threads \in Seq(Thread)
      BY DEF EnquiryInv, TypeOK
    <3>4. /\ threads' \in Seq(Thread) /\ DOMAIN threads' = 1 .. Len(threads) + 1
          /\ DOMAIN threads = 1 .. Len(threads)
          /\ \A t \in DOMAIN threads : threads'[t] = threads[t]
          /\ threads'[Len(threads) + 1] = row
      BY <3>1, <3>2, <3>3
    <3> QED
      BY <1>3, <2>1, <3>1, <3>2, <3>4 DEF SameEnds, row
  <2>2. CASE q.thread # 0
    <3> DEFINE row == Touched(threads[q.thread], q)
    <3>1. q.thread \in DOMAIN threads /\ SameEnds(q.seen, threads[q.thread])
      BY <1>1, <2>2 DEF HeldBy
    <3>2. row \in Thread /\ SameEnds(row, threads[q.thread])
      BY <1>1, <3>1, TableFacts, TouchedFacts DEF EnquiryInv
    <3>3. threads' = [threads EXCEPT ![q.thread] = row] /\ ThreadId(q) = q.thread
      BY <1>2, <2>2 DEF StoredThreads, ThreadId
    <3> HIDE DEF row
    <3>4. threads' \in Seq(Thread) /\ DOMAIN threads' = DOMAIN threads
      BY <3>1, <3>2, <3>3 DEF EnquiryInv, TypeOK
    <3>5. /\ threads'[q.thread] = row
          /\ \A t \in DOMAIN threads \ {q.thread} : threads'[t] = threads[t]
      BY <3>1, <3>3
    <3> QED
      BY <2>2, <3>1, <3>2, <3>3, <3>4, <3>5 DEF SameEnds, row
  <2> QED
    BY <2>1, <2>2
<1>5. StoredMessage(q) \in Message
  BY <1>1, <1>3, PostingFacts DEF StoredMessage, Message
<1>6. /\ messages' \in Seq(Message) /\ DOMAIN messages' = 1 .. Len(messages) + 1
      /\ \A i \in DOMAIN messages : messages'[i] = messages[i]
      /\ messages'[Len(messages) + 1] = StoredMessage(q)
  BY <1>2, <1>5 DEF EnquiryInv, TypeOK
<1> QED
  BY <1>1, <1>2, <1>4, <1>5, <1>6 DEF q

LEMMA CommitStep ==
    ASSUME EnquiryInv, NEW r \in Requests, Commit(r)
    PROVE  EnquiryInv'
<1> DEFINE q == reqs[r]
           id == ThreadId(q)
<1>1. /\ q \in Posting /\ HeldBy(q)
      /\ threads' \in Seq(Thread) /\ DOMAIN threads \subseteq DOMAIN threads'
      /\ \A t \in DOMAIN threads : SameEnds(threads'[t], threads[t])
      /\ id \in DOMAIN threads' /\ SameEnds(threads'[id], q.seen)
      /\ messages' \in Seq(Message) /\ DOMAIN messages' = 1 .. Len(messages) + 1
      /\ \A i \in DOMAIN messages : messages'[i] = messages[i]
      /\ messages'[Len(messages) + 1] = StoredMessage(q)
      /\ reqs' = [reqs EXCEPT ![r] = Idle] /\ clock' = clock
  BY CommitEffect
<1>2. /\ StoredMessage(q).thread = id /\ StoredMessage(q).sender = q.sender
      /\ StoredMessage(q).from = q.from
  BY DEF StoredMessage
<1> HIDE DEF q, id
<1>3. \A i \in DOMAIN messages' : i \in DOMAIN messages \/ i = Len(messages) + 1
  BY <1>1, TableFacts DEF EnquiryInv
<1>4. TypeOK'
  <2>1. \A i \in DOMAIN messages' : messages'[i].thread \in DOMAIN threads'
    BY <1>1, <1>2, <1>3 DEF EnquiryInv, TypeOK
  <2>2. reqs' \in [Requests -> Request] /\ clock' \in Nat
    BY <1>1, IdleIsHeld DEF EnquiryInv, TypeOK
  <2> QED
    BY <1>1, <2>1, <2>2 DEF TypeOK
<1>5. ASSUME NEW i \in DOMAIN messages'
      PROVE  Sided(threads'[messages'[i].thread], messages'[i].sender, messages'[i].from)
  <2>1. CASE i \in DOMAIN messages
    <3>1. messages[i].thread \in DOMAIN threads
      BY <2>1 DEF EnquiryInv, TypeOK
    <3>2. Sided(threads[messages[i].thread], messages[i].sender, messages[i].from)
      BY <2>1 DEF EnquiryInv, Authored
    <3> QED
      BY <1>1, <2>1, <3>1, <3>2 DEF Sided, SameEnds
  <2>2. CASE i = Len(messages) + 1
    <3>1. Sided(q.seen, q.sender, q.from)
      BY <1>1 DEF HeldBy
    <3>2. Sided(threads'[id], q.sender, q.from)
      BY <1>1, <3>1 DEF Sided, SameEnds
    <3> QED
      BY <1>1, <1>2, <2>2, <3>2
  <2> QED
    BY <1>3, <2>1, <2>2
<1>6. Authored'
  BY <1>5 DEF Authored, Sided
<1>7. ASSUME NEW x \in Requests PROVE HeldBy(reqs[x])'
  <2>1. reqs'[x] = IF x = r THEN Idle ELSE reqs[x]
    BY <1>1 DEF EnquiryInv, TypeOK
  <2>2. CASE x = r
    BY <2>1, <2>2, IdleIsHeld DEF HeldBy
  <2>3. CASE x # r
    <3>1. HeldBy(reqs[x]) /\ reqs'[x] = reqs[x]
      BY <2>1, <2>3 DEF EnquiryInv, Held
    <3> QED
      BY <1>1, <3>1 DEF HeldBy, Sided, SameEnds
  <2> QED
    BY <2>2, <2>3
<1> QED
  BY <1>4, <1>6, <1>7 DEF EnquiryInv, Held

\* Read marks change nothing that says who wrote a message, or when.
LEMMA MarkReadEffect ==
    ASSUME TypeOK, NEW p \in Users \cup Stores, NEW t \in DOMAIN threads, MarkRead(p, t)
    PROVE  /\ messages' \in Seq(Message) /\ DOMAIN messages' = DOMAIN messages
           /\ \A i \in DOMAIN messages :
                 /\ messages'[i].thread = messages[i].thread
                 /\ messages'[i].sender = messages[i].sender
                 /\ messages'[i].from = messages[i].from
                 /\ messages'[i].at = messages[i].at
<1> DEFINE other == IF ViewerRoleOf(t, p) = "SELLER" THEN "CUSTOMER" ELSE "PARTNER"
           new(i) == IF messages[i].thread = t /\ messages[i].from = other
                     THEN [messages[i] EXCEPT !.read = TRUE] ELSE messages[i]
<1>1. messages' = [i \in DOMAIN messages |-> new(i)]
  BY DEF MarkRead
<1>2. \A i \in DOMAIN messages :
         /\ new(i) \in Message
         /\ new(i).thread = messages[i].thread /\ new(i).sender = messages[i].sender
         /\ new(i).from = messages[i].from /\ new(i).at = messages[i].at
  BY TableFacts DEF Message
<1> HIDE DEF new
<1>3. messages' \in [1 .. Len(messages) -> Message] /\ Len(messages) \in Nat
  BY <1>1, <1>2, TableFacts
<1>4. messages' \in Seq(Message)
  BY <1>3
<1> QED
  BY <1>1, <1>2, <1>4

LEMMA MarkReadStep ==
    ASSUME EnquiryInv, NEW p \in Users \cup Stores, NEW t \in DOMAIN threads, MarkRead(p, t)
    PROVE  EnquiryInv'
<1>1. /\ messages' \in Seq(Message) /\ DOMAIN messages' = DOMAIN messages
      /\ \A i \in DOMAIN messages :
            /\ messages'[i].thread = messages[i].thread
            /\ messages'[i].sender = messages[i].sender
            /\ messages'[i].from = messages[i].from
  BY MarkReadEffect DEF EnquiryInv
<1>2. threads' = threads /\ reqs' = reqs /\ clock' = clock
  BY DEF MarkRead
<1> QED
  BY <1>1, <1>2 DEF EnquiryInv, TypeOK, Authored, Sided, Held, HeldBy, SameEnds

LEMMA EnquiryInit == Init => EnquiryInv
<1> SUFFICES ASSUME Init PROVE EnquiryInv
  OBVIOUS
<1>1. TypeOK
  BY IdleIsHeld DEF Init, TypeOK
<1>2. Authored
  BY DEF Init, Authored
<1>3. Held
  BY IdleIsHeld DEF Init, Held
<1> QED
  BY <1>1, <1>2, <1>3 DEF EnquiryInv

LEMMA HandleStep ==
    ASSUME EnquiryInv, NEW r \in Requests, Handle(r)
    PROVE  EnquiryInv'
BY StartStep, FindStep, SendStep, ReplyStep, CreateStep, CommitStep, AskStatusStep,
   SaveStatusStep, FailStep DEF Handle

LEMMA ElsewhereStep == EnquiryInv /\ Elsewhere => EnquiryInv'
<1> SUFFICES ASSUME EnquiryInv, Elsewhere PROVE EnquiryInv'
  OBVIOUS
<1>1. CASE \E p \in Users \cup Stores, t \in DOMAIN threads : MarkRead(p, t)
  BY <1>1, MarkReadStep
<1>2. CASE Tick
  BY <1>2 DEF Tick, EnquiryInv, TypeOK, Authored, Sided, Held, HeldBy, SameEnds
<1> QED
  BY <1>1, <1>2 DEF Elsewhere

LEMMA EnquiryStep == EnquiryInv /\ [Next]_vars => EnquiryInv'
<1> SUFFICES ASSUME EnquiryInv, [Next]_vars PROVE EnquiryInv'
  OBVIOUS
<1>1. CASE \E r \in Requests : Handle(r)
  BY <1>1, HandleStep
<1>2. CASE Elsewhere
  BY <1>2, ElsewhereStep
<1>3. CASE UNCHANGED vars
  BY <1>3 DEF vars, EnquiryInv, TypeOK, Authored, Sided, Held, HeldBy, SameEnds
<1> QED
  BY <1>1, <1>2, <1>3 DEF Next

----------------------------------------------------------------------------
(* As long as requests take turns *)

\* What a request in flight loaded is what the table still holds.
Fresh ==
    \A r \in Requests :
        reqs[r] \in Posting /\ reqs[r].thread # 0 => reqs[r].seen = threads[reqs[r].thread]

TurnInv == EnquiryInv /\ (~overlapped => LastMessageAgrees /\ Fresh)

LEMMA FreshWhenIdle ==
    ASSUME EnquiryInv, NEW r \in Requests, Alone(r), reqs' = [reqs EXCEPT ![r] = Idle]
    PROVE  Fresh'
<1>1. \A x \in Requests : reqs'[x] = Idle
  BY DEF EnquiryInv, TypeOK, Alone
<1> QED
  BY <1>1, IdleIsHeld DEF Fresh

\* The steps before a write load what is there.
LEMMA ReadersStayFresh ==
    ASSUME EnquiryInv, NEW r \in Requests, Alone(r), Fresh, LastMessageAgrees,
           NEW q, reqs' = [reqs EXCEPT ![r] = q],
           q \in Posting /\ q.thread # 0 => q.seen = threads[q.thread],
           UNCHANGED <<threads, messages>>
    PROVE  LastMessageAgrees' /\ Fresh'
<1>1. \A x \in Requests : reqs'[x] = IF x = r THEN q ELSE reqs[x]
  BY DEF EnquiryInv, TypeOK
<1>2. Fresh'
  BY <1>1 DEF Fresh
<1>3. LastMessageAgrees'
  BY DEF LastMessageAgrees, MessagesOf
<1> QED
  BY <1>2, <1>3

LEMMA ReadStepInTurn ==
    ASSUME EnquiryInv, NEW r \in Requests, Alone(r), Fresh, LastMessageAgrees,
           Handle(r), ~Commit(r), ~SaveStatus(r)
    PROVE  LastMessageAgrees' /\ Fresh'
<1>1. CASE \E c \in Users, l \in Listings : StartFromCustomer(r, c, l)
  <2>1. PICK c \in Users, l \in Listings : StartFromCustomer(r, c, l)
    BY <1>1
  <2> DEFINE q == [stage |-> "checked", user |-> c, listing |-> l]
  <2>2. q \notin Posting
    BY DEF Posting
  <2> QED
    BY <2>1, <2>2, ReadersStayFresh DEF StartFromCustomer, Become
<1>2. CASE FindThread(r)
  <2> DEFINE c == reqs[r].user
             l == reqs[r].listing
  <2>1. \/ reqs' = [reqs EXCEPT ![r] = Loaded(0, NewThread(c, l), c, "CUSTOMER", "NEW")]
        \/ \E t \in DOMAIN threads :
              reqs' = [reqs EXCEPT ![r] = Loaded(t, threads[t], c, "CUSTOMER", threads[t].status)]
    BY <1>2 DEF FindThread, Become
  <2>2. UNCHANGED <<threads, messages>>
    BY <1>2 DEF FindThread
  <2>3. Loaded(0, NewThread(c, l), c, "CUSTOMER", "NEW").thread = 0
    BY DEF Loaded
  <2>4. ASSUME NEW t PROVE LET q == Loaded(t, threads[t], c, "CUSTOMER", threads[t].status)
                           IN  q.thread = t /\ q.seen = threads[t]
    BY DEF Loaded
  <2> HIDE DEF c, l
  <2>5. CASE reqs' = [reqs EXCEPT ![r] = Loaded(0, NewThread(c, l), c, "CUSTOMER", "NEW")]
    BY <2>2, <2>3, <2>5, ReadersStayFresh
  <2>6. CASE \E t \in DOMAIN threads :
              reqs' = [reqs EXCEPT ![r] = Loaded(t, threads[t], c, "CUSTOMER", threads[t].status)]
    <3>1. PICK t \in DOMAIN threads :
              reqs' = [reqs EXCEPT ![r] = Loaded(t, threads[t], c, "CUSTOMER", threads[t].status)]
      BY <2>6
    <3> QED
      BY <2>2, <2>4, <3>1, ReadersStayFresh
  <2> QED
    BY <2>1, <2>5, <2>6
<1>3. CASE \E u \in Users, t \in DOMAIN threads : SendFromCustomer(r, u, t)
  <2>1. PICK u \in Users, t \in DOMAIN threads : SendFromCustomer(r, u, t)
    BY <1>3
  <2> DEFINE q == Loaded(t, threads[t], u,
                         IF ViewerRoleOf(t, u) = "SELLER" THEN "PARTNER" ELSE "CUSTOMER",
                         threads[t].status)
  <2>2. q.thread = t /\ q.seen = threads[t]
    BY DEF Loaded
  <2>3. reqs' = [reqs EXCEPT ![r] = q] /\ UNCHANGED <<threads, messages>>
    BY <2>1 DEF SendFromCustomer, Become
  <2> HIDE DEF q
  <2> QED
    BY <2>2, <2>3, ReadersStayFresh
<1>4. CASE \E s \in Stores, t \in DOMAIN threads : ReplyFromPartner(r, s, t)
  <2>1. PICK s \in Stores, t \in DOMAIN threads : ReplyFromPartner(r, s, t)
    BY <1>4
  <2> DEFINE q == Loaded(t, threads[t], s, "PARTNER", NextStatus(threads[t]))
  <2>2. q.thread = t /\ q.seen = threads[t]
    BY DEF Loaded
  <2>3. reqs' = [reqs EXCEPT ![r] = q] /\ UNCHANGED <<threads, messages>>
    BY <2>1 DEF ReplyFromPartner, Become
  <2> HIDE DEF q
  <2> QED
    BY <2>2, <2>3, ReadersStayFresh
<1>5. CASE CreateMessage(r)
  <2> DEFINE q == [reqs[r] EXCEPT !.stage = "stamped", !.at = clock]
  <2>1. reqs[r] \in Posting
    BY <1>5, StageFacts DEF CreateMessage, EnquiryInv, TypeOK
  <2>2. q.thread = reqs[r].thread /\ q.seen = reqs[r].seen
    BY <2>1 DEF Posting
  <2>3. reqs' = [reqs EXCEPT ![r] = q] /\ UNCHANGED <<threads, messages>>
    BY <1>5 DEF CreateMessage, Become
  <2> HIDE DEF q
  <2> QED
    BY <2>1, <2>2, <2>3, ReadersStayFresh DEF Fresh
<1>6. CASE \E s \in Stores, t \in DOMAIN threads, status \in AskedStatuses :
               UpdateStatusForStore(r, s, t, status)
  <2>1. PICK s \in Stores, t \in DOMAIN threads, status \in AskedStatuses :
               UpdateStatusForStore(r, s, t, status)
    BY <1>6
  <2> DEFINE q == [stage |-> "status", thread |-> t, seen |-> threads[t], status |-> status]
  <2>2. q.seen = threads[t] /\ q.thread = t
    OBVIOUS
  <2>3. reqs' = [reqs EXCEPT ![r] = q] /\ UNCHANGED <<threads, messages>>
    BY <2>1 DEF UpdateStatusForStore, Become
  <2> HIDE DEF q
  <2> QED
    BY <2>2, <2>3, ReadersStayFresh
<1>7. CASE Fail(r)
  BY <1>7, IdleIsHeld, ReadersStayFresh DEF Fail, Become
<1> QED
  BY <1>1, <1>2, <1>3, <1>4, <1>5, <1>6, <1>7 DEF Handle

\* A commit saves the columns of its own message over the row it loaded.
LEMMA CommitInTurn ==
    ASSUME EnquiryInv, NEW r \in Requests, Alone(r), Fresh, LastMessageAgrees, Commit(r)
    PROVE  LastMessageAgrees' /\ Fresh'
<1> DEFINE q == reqs[r]
           id == ThreadId(q)
           new == Len(messages) + 1
<1>1. /\ q \in Posting /\ HeldBy(q)
      /\ DOMAIN threads' \subseteq DOMAIN threads \cup {id}
      /\ \A t \in DOMAIN threads \ {id} : threads'[t] = threads[t]
      /\ threads'[id] = Touched(IF q.thread = 0 THEN q.seen ELSE threads[q.thread], q)
      /\ DOMAIN messages' = 1 .. new
      /\ \A i \in DOMAIN messages : messages'[i] = messages[i]
      /\ messages'[new] = StoredMessage(q)
      /\ reqs' = [reqs EXCEPT ![r] = Idle]
  BY CommitEffect
<1>2. Fresh'
  BY <1>1, FreshWhenIdle
<1>3. threads'[id] = Touched(q.seen, q)
  BY <1>1 DEF Fresh
<1>4. threads'[id].lastAt = q.at /\ threads'[id].lastFrom = q.from
  BY <1>1, <1>3, PostingFacts DEF Touched, Saved, Thread
<1>5. StoredMessage(q).thread = id /\ StoredMessage(q).at = q.at /\ StoredMessage(q).from = q.from
  BY DEF StoredMessage
<1> HIDE DEF q, id
<1>6. Len(messages) \in Nat /\ DOMAIN messages = 1 .. Len(messages)
  BY TableFacts DEF EnquiryInv
<1>7. ASSUME NEW t \in DOMAIN threads', NEW i \in DOMAIN messages', messages'[i].thread = t,
             \A j \in DOMAIN messages' : messages'[j].thread = t => j <= i
      PROVE  threads'[t].lastAt = messages'[i].at /\ threads'[t].lastFrom = messages'[i].from
  <2>1. CASE t = id
    <3>1. new \in DOMAIN messages' /\ messages'[new].thread = id
      BY <1>1, <1>5, <1>6
    <3>2. i = new
      BY <1>1, <1>6, <1>7, <2>1, <3>1
    <3> QED
      BY <1>1, <1>4, <1>5, <2>1, <3>2
  <2>2. CASE t # id
    <3>1. i \in DOMAIN messages /\ messages'[i] = messages[i]
      BY <1>1, <1>5, <1>6, <1>7, <2>2
    <3>2. t \in DOMAIN threads /\ threads'[t] = threads[t]
      BY <1>1, <2>2
    <3>3. \A j \in DOMAIN messages : messages[j].thread = t => j <= i
      BY <1>1, <1>6, <1>7
    <3>4. threads[t].lastAt = messages[i].at /\ threads[t].lastFrom = messages[i].from
      BY <1>7, <3>1, <3>2, <3>3 DEF LastMessageAgrees, MessagesOf
    <3> QED
      BY <3>1, <3>2, <3>4
  <2> QED
    BY <2>1, <2>2
<1>8. LastMessageAgrees'
  BY <1>7 DEF LastMessageAgrees, MessagesOf
<1> QED
  BY <1>2, <1>8

LEMMA SaveStatusInTurn ==
    ASSUME EnquiryInv, NEW r \in Requests, Alone(r), LastMessageAgrees, SaveStatus(r)
    PROVE  LastMessageAgrees' /\ Fresh'
<1>1. Fresh'
  BY FreshWhenIdle DEF SaveStatus, Become
<1>2. /\ DOMAIN threads' = DOMAIN threads /\ messages' = messages
      /\ \A x \in DOMAIN threads :
            threads'[x].lastAt = threads[x].lastAt /\ threads'[x].lastFrom = threads[x].lastFrom
  BY SaveStatusEffect DEF SaveStatus
<1>3. LastMessageAgrees'
  BY <1>2 DEF LastMessageAgrees, MessagesOf
<1> QED
  BY <1>1, <1>3

LEMMA ElsewhereInTurn ==
    ASSUME EnquiryInv, Fresh, LastMessageAgrees, Elsewhere
    PROVE  LastMessageAgrees' /\ Fresh'
<1>1. CASE \E p \in Users \cup Stores, t \in DOMAIN threads : MarkRead(p, t)
  <2>1. PICK p \in Users \cup Stores, t \in DOMAIN threads : MarkRead(p, t)
    BY <1>1
  <2>2. /\ DOMAIN messages' = DOMAIN messages
        /\ \A i \in DOMAIN messages :
              /\ messages'[i].thread = messages[i].thread
              /\ messages'[i].from = messages[i].from
              /\ messages'[i].at = messages[i].at
    BY <2>1, MarkReadEffect DEF EnquiryInv
  <2>3. threads' = threads /\ reqs' = reqs
    BY <2>1 DEF MarkRead
  <2> QED
    BY <2>2, <2>3 DEF LastMessageAgrees, MessagesOf, Fresh
<1>2. CASE Tick
  BY <1>2 DEF Tick, LastMessageAgrees, MessagesOf, Fresh
<1> QED
  BY <1>1, <1>2 DEF Elsewhere

LEMMA TurnInvInit == TurnInit => TurnInv
<1> SUFFICES ASSUME TurnInit PROVE TurnInv
  OBVIOUS
<1>1. EnquiryInv
  BY EnquiryInit DEF TurnInit
<1>2. LastMessageAgrees
  BY DEF TurnInit, Init, LastMessageAgrees
<1>3. Fresh
  BY IdleIsHeld DEF TurnInit, Init, Fresh
<1> QED
  BY <1>1, <1>2, <1>3 DEF TurnInv

LEMMA TurnStep == TurnInv /\ [TurnNext]_turnVars => TurnInv'
<1> SUFFICES ASSUME TurnInv, [TurnNext]_turnVars PROVE TurnInv'
  OBVIOUS
<1>1. ASSUME NEW r \in Requests, Handle(r), overlapped' = (overlapped \/ ~Alone(r))
      PROVE  TurnInv'
  <2>1. EnquiryInv'
    BY <1>1, HandleStep DEF TurnInv
  <2>2. ASSUME ~overlapped' PROVE LastMessageAgrees' /\ Fresh'
    <3>1. Alone(r) /\ Fresh /\ LastMessageAgrees
      BY <1>1, <2>2 DEF TurnInv
    <3>2. CASE Commit(r)
      BY <3>1, <3>2, CommitInTurn DEF TurnInv
    <3>3. CASE SaveStatus(r)
      BY <3>1, <3>3, SaveStatusInTurn DEF TurnInv
    <3>4. CASE ~Commit(r) /\ ~SaveStatus(r)
      BY <1>1, <3>1, <3>4, ReadStepInTurn DEF TurnInv
    <3> QED
      BY <3>2, <3>3, <3>4
  <2> QED
    BY <2>1, <2>2 DEF TurnInv
<1>2. CASE Elsewhere /\ UNCHANGED overlapped
  BY <1>2, ElsewhereStep, ElsewhereInTurn DEF TurnInv
<1>3. CASE UNCHANGED turnVars
  <2>1. UNCHANGED vars /\ overlapped' = overlapped
    BY <1>3 DEF turnVars
  <2>2. EnquiryInv'
    BY <2>1, EnquiryStep DEF TurnInv
  <2> QED
    BY <2>1, <2>2 DEF TurnInv, vars, LastMessageAgrees, MessagesOf, Fresh
<1> QED
  BY <1>1, <1>2, <1>3 DEF TurnNext

----------------------------------------------------------------------------
(* Theorems *)

\* Threads, messages and requests keep their types, and every message belongs
\* to a thread, for any users, stores, listings and requests.
THEOREM TypeCorrect == Spec => []TypeOK
<1>1. EnquiryInv => TypeOK
  BY DEF EnquiryInv
<1> QED
  BY <1>1, EnquiryInit, EnquiryStep, PTL DEF Spec

\* Both ends of a conversation see as their own exactly the messages they
\* wrote (toMessageDto), whatever requests overlap.
THEOREM FromMeIsAlwaysHonest == Spec => []FromMeIsHonest
<1>1. EnquiryInv => FromMeIsHonest
  <2> SUFFICES ASSUME EnquiryInv, NEW i \in DOMAIN messages,
                      threads[messages[i].thread].customer # Seller(messages[i].thread),
                      NEW viewer \in Parties(messages[i].thread)
               PROVE  FromMe(messages[i], viewer) = (viewer = messages[i].sender)
    BY DEF FromMeIsHonest
  <2>1. /\ messages[i].sender \in Parties(messages[i].thread)
        /\ messages[i].from = "PARTNER" <=> messages[i].sender = Seller(messages[i].thread)
    BY DEF EnquiryInv, Authored, Sided, Seller, Parties
  <2>2. FromMe(messages[i], viewer) <=> viewer = messages[i].sender
    BY <2>1 DEF FromMe, ViewerRoleOf, Parties
  <2> QED
    BY <2>2 DEF FromMe
<1> QED
  BY <1>1, EnquiryInit, EnquiryStep, PTL DEF Spec

\* Until requests overlap for the first time, the last_message_ columns that an
\* inbox goes by are those of the message written last.
THEOREM InboxAgreesInTurn == TurnSpec => []LastMessageAgreesInTurn
<1>1. TurnInv => LastMessageAgreesInTurn
  BY DEF TurnInv, LastMessageAgreesInTurn
<1> QED
  BY <1>1, TurnInvInit, TurnStep, PTL DEF TurnSpec

=============================================================================
