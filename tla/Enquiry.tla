------------------------------ MODULE Enquiry ------------------------------
(***************************************************************************)
(* Conversations about pet listings: services/shared/enquiry.service.js    *)
(* over repositories/shared/enquiry.repository.js.                         *)
(*                                                                         *)
(* A thread belongs to one customer and one listing, and its selling side  *)
(* is the store or the private user that owns the listing.  Each handler   *)
(* loads the thread, decides on that instance, and then writes the message *)
(* and the thread's denormalised columns in one transaction; what it saves *)
(* is relative to what it loaded (Sequelize!Saved).                        *)
(***************************************************************************)
EXTENDS Naturals, Sequences, FiniteSets, Sequelize

CONSTANTS
    Users,          \* customer accounts, private sellers among them
    Stores,
    Listings,
    SellerOf,       \* who owns each listing: a store or a user
    AskedStatuses,  \* the statuses a store may ask for
    Requests,       \* the requests that may be in flight at one time
    MaxThreads,     \* bound: the conversations that are opened
    MaxMessages,    \* bound: the messages that are written
    MaxClock        \* bound: the seconds that pass

EnquiryStatus == {"NEW", "FOLLOW_UP", "ACTIVE", "RESERVED", "CLOSED"}
SenderType    == {"CUSTOMER", "PARTNER"}

ASSUME EnquiryAssumption ==
    /\ SellerOf \in [Listings -> Users \cup Stores]
    /\ Users \cap Stores = {}
    /\ AskedStatuses \subseteq EnquiryStatus
    /\ MaxThreads \in Nat
    /\ MaxMessages \in Nat
    /\ MaxClock \in Nat \ {0}

VARIABLES
    threads,    \* enquiries, in order of creation
    messages,   \* messages, in order of commit
    reqs,       \* what each request in flight holds
    clock       \* the second on the clock; DATETIME columns keep no fraction

vars == <<threads, messages, reqs, clock>>

----------------------------------------------------------------------------
(* Rows and requests *)

\* lastFrom stands for last_message_from_partner, "nobody" and 0 for NULL.
Thread == [customer : Users, listing : Listings, status : EnquiryStatus,
           lastAt : Nat, lastFrom : SenderType \cup {"nobody"}]

\* sender is the user, or the store whose partner wrote it.
Message == [thread : Nat \ {0}, sender : Users \cup Stores, from : SenderType,
            at : Nat, read : BOOLEAN]

NewThread(c, l) == [customer |-> c, listing |-> l, status |-> "NEW",
                    lastAt |-> 0, lastFrom |-> "nobody"]

Idle == [stage |-> "idle"]

\* thread is 0 while the row the request holds is not in the table; seen is
\* the instance it loaded, status the one it will save.
Posting == [stage : {"loaded", "stamped"}, thread : Nat, seen : Thread,
            sender : Users \cup Stores, from : SenderType,
            status : EnquiryStatus, at : Nat]

Request == {Idle}
    \cup [stage : {"checked"}, user : Users, listing : Listings]
    \cup Posting
    \cup [stage : {"status"}, thread : Nat, seen : Thread, status : EnquiryStatus]

Seller(t) == SellerOf[threads[t].listing]

\* partyToThread, and the store scope of the partner's own reads.
Parties(t) == {threads[t].customer, Seller(t)}

\* Mutant: whoever opened the thread is its buyer, without a look at its owner.
ViewerRoleOfCustomer(t, u) == "BUYER"

\* viewerRoleOf: a private seller is told by the listing's owner column.
ViewerRoleOf(t, u) == IF Seller(t) = u THEN "SELLER" ELSE "BUYER"

\* toMessageDto's fromMe.
FromMe(m, viewer) ==
    (ViewerRoleOf(m.thread, viewer) = "SELLER") = (m.from = "PARTNER")

MessagesOf(t) == {i \in DOMAIN messages : messages[i].thread = t}

----------------------------------------------------------------------------
(* Actions *)

Init ==
    /\ threads = <<>>
    /\ messages = <<>>
    /\ reqs = [r \in Requests |-> Idle]
    /\ clock = 1

Become(r, request) == reqs' = [reqs EXCEPT ![r] = request]

Loaded(t, row, sender, from, status) ==
    [stage |-> "loaded", thread |-> t, seen |-> row, sender |-> sender,
     from |-> from, status |-> status, at |-> 0]

\* startFromCustomer up to its transaction: the listing is found.  Whether it
\* is public at that moment is up to its owner, who may archive it any time.
StartFromCustomer(r, c, l) ==
    /\ reqs[r] = Idle
    /\ Become(r, [stage |-> "checked", user |-> c, listing |-> l])
    /\ UNCHANGED <<threads, messages, clock>>

\* findByCustomerAndListing, or the row that is about to be created.
FindThread(r) ==
    /\ reqs[r].stage = "checked"
    /\ LET c == reqs[r].user
           l == reqs[r].listing
           found == {t \in DOMAIN threads : threads[t].customer = c /\ threads[t].listing = l}
       IN  IF found = {}
           THEN Become(r, Loaded(0, NewThread(c, l), c, "CUSTOMER", "NEW"))
           ELSE \E t \in found :
                    Become(r, Loaded(t, threads[t], c, "CUSTOMER", threads[t].status))
    /\ UNCHANGED <<threads, messages, clock>>

\* sendFromCustomer up to its transaction.
SendFromCustomer(r, u, t) ==
    /\ reqs[r] = Idle
    /\ t \in DOMAIN threads
    /\ u \in Parties(t)
    /\ threads[t].status # "CLOSED"
    /\ Become(r, Loaded(t, threads[t], u,
                        IF ViewerRoleOf(t, u) = "SELLER" THEN "PARTNER" ELSE "CUSTOMER",
                        threads[t].status))
    /\ UNCHANGED <<threads, messages, clock>>

\* What a partner's reply does to the status it loaded.
NextStatus(row) == IF row.status = "NEW" THEN "ACTIVE" ELSE row.status

\* replyFromPartner up to its transaction.
ReplyFromPartner(r, s, t) ==
    /\ reqs[r] = Idle
    /\ t \in DOMAIN threads
    /\ Seller(t) = s
    /\ Become(r, Loaded(t, threads[t], s, "PARTNER", NextStatus(threads[t])))
    /\ UNCHANGED <<threads, messages, clock>>

\* Message.create takes its created_at here; the row shows at the commit.
CreateMessage(r) ==
    /\ reqs[r].stage = "loaded"
    /\ Become(r, [reqs[r] EXCEPT !.stage = "stamped", !.at = clock])
    /\ UNCHANGED <<threads, messages, clock>>

\* Mutant: only the time of the last message is kept up to date.
TouchedLater(row, q) == [row EXCEPT !.lastAt = Saved(q.at, q.seen.lastAt, row.lastAt)]

\* enquiryRepository.update of q's thread, on top of what row holds by then.
Touched(row, q) ==
    [row EXCEPT !.lastAt   = Saved(q.at, q.seen.lastAt, row.lastAt),
                !.lastFrom = Saved(q.from, q.seen.lastFrom, row.lastFrom),
                !.status   = Saved(q.status, q.seen.status, row.status)]

\* The thread a message goes to.
ThreadId(q) == IF q.thread = 0 THEN Len(threads) + 1 ELSE q.thread

\* The unique index on (customer_id, pet_listing_id) refuses a second thread.
Refused(q) ==
    /\ q.thread = 0
    /\ \E t \in DOMAIN threads : /\ threads[t].customer = q.seen.customer
                                /\ threads[t].listing = q.seen.listing

InBounds(q) == Len(messages) < MaxMessages /\ ThreadId(q) <= MaxThreads

StoredMessage(q) ==
    [thread |-> ThreadId(q), sender |-> q.sender, from |-> q.from, at |-> q.at, read |-> FALSE]

StoredThreads(q) ==
    IF q.thread = 0 THEN Append(threads, Touched(q.seen, q))
    ELSE [threads EXCEPT ![q.thread] = Touched(@, q)]

\* The transaction of startFromCustomer, sendFromCustomer and replyFromPartner
\* commits; the events that follow change no row.  A request that is refused
\* ends in Fail, and leaves nothing.
Commit(r) ==
    LET q == reqs[r] IN
    /\ q.stage = "stamped"
    /\ InBounds(q)
    /\ ~Refused(q)
    /\ threads' = StoredThreads(q)
    /\ messages' = Append(messages, StoredMessage(q))
    /\ Become(r, Idle)
    /\ UNCHANGED clock

\* updateStatusForStore loads the thread ...
UpdateStatusForStore(r, s, t, status) ==
    /\ reqs[r] = Idle
    /\ t \in DOMAIN threads
    /\ Seller(t) = s
    /\ Become(r, [stage |-> "status", thread |-> t, seen |-> threads[t], status |-> status])
    /\ UNCHANGED <<threads, messages, clock>>

\* ... and saves the status it was asked for.
SaveStatus(r) ==
    /\ reqs[r].stage = "status"
    /\ threads' = [threads EXCEPT ![reqs[r].thread].status =
                                      Saved(reqs[r].status, reqs[r].seen.status, @)]
    /\ Become(r, Idle)
    /\ UNCHANGED <<messages, clock>>

\* markReadByPartner and markReadByCustomer: one UPDATE of the other side's
\* messages.  Who is a party, and on which side, never changes.
MarkRead(p, t) ==
    /\ t \in DOMAIN threads
    /\ p \in Parties(t)
    /\ LET other == IF ViewerRoleOf(t, p) = "SELLER" THEN "CUSTOMER" ELSE "PARTNER" IN
       messages' = [i \in DOMAIN messages |->
                       IF messages[i].thread = t /\ messages[i].from = other
                       THEN [messages[i] EXCEPT !.read = TRUE] ELSE messages[i]]
    /\ UNCHANGED <<threads, reqs, clock>>

\* The process dies, a statement fails, or a unique index refuses a row.
Fail(r) ==
    /\ reqs[r] # Idle
    /\ Become(r, Idle)
    /\ UNCHANGED <<threads, messages, clock>>

Tick ==
    /\ clock < MaxClock
    /\ clock' = clock + 1
    /\ UNCHANGED <<threads, messages, reqs>>

\* One step of request r.
Handle(r) ==
    \/ \E c \in Users, l \in Listings : StartFromCustomer(r, c, l)
    \/ FindThread(r)
    \/ \E u \in Users, t \in DOMAIN threads : SendFromCustomer(r, u, t)
    \/ \E s \in Stores, t \in DOMAIN threads : ReplyFromPartner(r, s, t)
    \/ CreateMessage(r)
    \/ Commit(r)
    \/ \E s \in Stores, t \in DOMAIN threads, status \in AskedStatuses :
           UpdateStatusForStore(r, s, t, status)
    \/ SaveStatus(r)
    \/ Fail(r)

\* Steps that leave every request where it is.
Elsewhere ==
    \/ \E p \in Users \cup Stores, t \in DOMAIN threads : MarkRead(p, t)
    \/ Tick

Next == (\E r \in Requests : Handle(r)) \/ Elsewhere

Spec == Init /\ [][Next]_vars

----------------------------------------------------------------------------
(* Properties *)

\* Every variable holds what its table or its handler can hold, and every
\* message belongs to a thread.
TypeOK ==
    /\ threads \in Seq(Thread)
    /\ messages \in Seq(Message)
    /\ \A i \in DOMAIN messages : messages[i].thread \in DOMAIN threads
    /\ reqs \in [Requests -> Request]
    /\ clock \in Nat

\* Both ends of a conversation between two parties see as their own exactly
\* the messages they wrote, a private seller included.
FromMeIsHonest ==
    \A i \in DOMAIN messages :
        LET m == messages[i] IN
        threads[m.thread].customer # Seller(m.thread) =>
            \A viewer \in Parties(m.thread) : FromMe(m, viewer) = (viewer = m.sender)

\* The thread's last_message_ columns are those of the message written last.
LastMessageAgrees ==
    \A t \in DOMAIN threads : \A i \in MessagesOf(t) :
        (\A j \in MessagesOf(t) : j <= i) =>
            threads[t].lastAt = messages[i].at /\ threads[t].lastFrom = messages[i].from

============================================================================
