---------------------------- MODULE SocketServer ----------------------------
(***************************************************************************)
(* The push side of the enquiry chat: realtime/socketServer.js, the calls  *)
(* services/shared/enquiry.service.js makes to it, and the start and the   *)
(* shutdown of the process it lives in, server.js.                         *)
(*                                                                         *)
(* Rooms and presence counts exist in memory only.  What a handler of      *)
(* REST wrote is announced after its commit, to whoever is in the rooms of *)
(* its thread; a device that was not reached reads the thread over REST    *)
(* when it connects anew.  Socket.IO and the apps are not part of the      *)
(* repository: a socket may be lost without the server noticing it before  *)
(* its heartbeat does, it is kept for a while then, and the packets due to *)
(* it with it, so that the device may recover it.                          *)
(***************************************************************************)
EXTENDS Naturals, Sequences, FiniteSets

CONSTANTS
    Customers,      \* customer accounts, private sellers among them
    Stores,         \* stores whose partner uses the app
    Devices,        \* the apps that are installed
    IdentityOf,     \* resolveIdentity: who is signed in on each device
    Threads,        \* conversations
    CustomerOf,     \* the buyer of each conversation
    SellerOf,       \* its selling side: a store or a customer
    MaxEvents,      \* bound: what is written to conversations
    MaxConnects,    \* bound: the connections that are opened
    Asked,          \* bound: who asks to join which conversation, <<d, t>>
    MaxJoins        \* bound: the joins that are asked for

Identities == Customers \cup Stores

ASSUME SocketServerAssumption ==
    /\ IsFiniteSet(Devices)
    /\ Customers \cap Stores = {}
    /\ IdentityOf \in [Devices -> Identities]
    /\ CustomerOf \in [Threads -> Customers]
    /\ SellerOf \in [Threads -> Identities]
    /\ MaxEvents \in Nat
    /\ MaxConnects \in Nat
    /\ Asked \subseteq Devices \X Threads
    /\ MaxJoins \in Nat

VARIABLES
    process,    \* the server process: "up", "closing" or "down"
    sockets,    \* the socket of each device, as the server keeps it
    counts,     \* onlineCustomerConnectionCounts
    written,    \* what was committed to conversations, in order
    pending,    \* what was committed and not announced yet
    screens,    \* what each device knows of the conversations
    connects,   \* how many connections were opened
    joins       \* how many joins were asked for

vars == <<process, sockets, counts, written, pending, screens, connects, joins>>

----------------------------------------------------------------------------
(* Sockets, rooms and events *)

\* open: connected.  lost: gone, and the server does not know yet.  kept: the
\* server knows, and keeps its rooms and its packets for a recovery.
Socket ==
    [state : {"none", "open", "lost", "kept"},
     joining : SUBSET Threads,          \* enquiry:join is asking the database
     rooms : SUBSET Threads,            \* the thread rooms it is in
     due : SUBSET (1 .. MaxEvents),     \* events sent and not received
     presence : SUBSET Customers]       \* who is online by all it was sent

NoSocket == [state |-> "none", joining |-> {}, rooms |-> {}, due |-> {}, presence |-> {}]

\* What the services announce: a message, or a change of status or read marks.
Event == [thread : Threads, kind : {"message", "update"}]

Screen == [shown : SUBSET (1 .. MaxEvents), stale : BOOLEAN]

State(d) == sockets[d].state

\* The server counts a socket until it notices its loss.
Connected(c) == {d \in Devices : IdentityOf[d] = c /\ State(d) \in {"open", "lost"}}

Parties(t) == {CustomerOf[t], SellerOf[t]}

\* isThreadOfStore and isPartyToThread.
IsParty(d, t) == IdentityOf[d] \in Parties(t)

\* isCustomerOnline.
IsCustomerOnline(c) == counts[c] > 0

\* Mutant: only those who have the conversation open hear of its messages.
AudienceInRoom(e) == {d \in Devices : e.thread \in sockets[d].rooms}

\* The rooms an event goes to: the thread's, and for a message those of the
\* identities of both sides as well.
Audience(e) ==
    {d \in Devices :
        /\ State(d) # "none"
        /\ \/ e.thread \in sockets[d].rooms
           \/ e.kind = "message" /\ IsParty(d, e.thread)}

Init ==
    /\ process = "up"
    /\ sockets = [d \in Devices |-> NoSocket]
    /\ counts = [c \in Customers |-> 0]
    /\ written = <<>>
    /\ pending = {}
    /\ screens = [d \in Devices |-> [shown |-> {}, stale |-> FALSE]]
    /\ connects = 0
    /\ joins = 0

----------------------------------------------------------------------------
(* Connections *)

\* The packet customer:presence, to every partner's socket.
TellPartners(table, c, online) ==
    [d \in Devices |->
        IF IdentityOf[d] \in Stores /\ table[d].state # "none"
        THEN [table[d] EXCEPT !.presence = IF online THEN @ \cup {c} ELSE @ \ {c}]
        ELSE table[d]]

\* The connection handler once d's socket is as in row.
Arrive(d, row) ==
    LET c == IdentityOf[d]
        table == [sockets EXCEPT ![d] = row]
    IN  IF c \in Customers
        THEN /\ counts' = [counts EXCEPT ![c] = @ + 1]
             /\ sockets' = IF counts[c] = 0 THEN TellPartners(table, c, TRUE) ELSE table
        ELSE /\ sockets' = table
             /\ UNCHANGED counts

\* Mutant: a customer who closes one device is offline.
RemainingNone(c) == 0

\* How many sockets of c remain after one of them is gone.
Remaining(c) == counts[c] - 1

\* Mutant: a loss that may still be recovered is not counted as leaving.
LeaveUnkept(d, row) ==
    LET c == IdentityOf[d]
        table == [sockets EXCEPT ![d] = row]
    IN  IF c \in Customers /\ row.state # "kept"
        THEN /\ counts' = [counts EXCEPT ![c] = Remaining(c)]
             /\ sockets' = IF Remaining(c) = 0 THEN TellPartners(table, c, FALSE) ELSE table
        ELSE /\ sockets' = table
             /\ UNCHANGED counts

\* The disconnect handler, which leaves row of d's socket.
Leave(d, row) ==
    LET c == IdentityOf[d]
        table == [sockets EXCEPT ![d] = row]
    IN  IF c \in Customers
        THEN /\ counts' = [counts EXCEPT ![c] = Remaining(c)]
             /\ sockets' = IF Remaining(c) = 0 THEN TellPartners(table, c, FALSE) ELSE table
        ELSE /\ sockets' = table
             /\ UNCHANGED counts

CanConnect == process = "up" /\ connects < MaxConnects

\* What a partner may read over REST at the moment their stream starts.
PresenceFor(d) == {c \in Customers : IdentityOf[d] \in Stores /\ IsCustomerOnline(c)}

\* A new connection: its screen has to be read anew.
Connect(d) ==
    /\ CanConnect
    /\ State(d) \in {"none", "kept"}
    /\ Arrive(d, [NoSocket EXCEPT !.state = "open", !.presence = PresenceFor(d)])
    /\ screens' = [screens EXCEPT ![d].stale = TRUE]
    /\ connects' = connects + 1
    /\ UNCHANGED <<process, written, pending, joins>>

\* connectionStateRecovery: the rooms and the packets due are those kept.
Recover(d) ==
    /\ CanConnect
    /\ State(d) = "kept"
    /\ Arrive(d, [sockets[d] EXCEPT !.state = "open"])
    /\ connects' = connects + 1
    /\ UNCHANGED <<process, written, pending, screens, joins>>

\* The app closes its socket, which is never recovered.
Close(d) ==
    /\ State(d) = "open"
    /\ Leave(d, NoSocket)
    /\ UNCHANGED <<process, written, pending, screens, connects, joins>>

\* The network drops: nothing happens at the server.
Lose(d) ==
    /\ State(d) = "open"
    /\ sockets' = [sockets EXCEPT ![d].state = "lost"]
    /\ UNCHANGED <<process, counts, written, pending, screens, connects, joins>>

\* Mutant: a shutdown stops the heartbeats.
NoticeWhileUp(d) ==
    /\ process = "up"
    /\ State(d) = "lost"
    /\ Leave(d, [sockets[d] EXCEPT !.state = "kept", !.joining = {}])
    /\ UNCHANGED <<process, written, pending, screens, connects, joins>>

\* The heartbeat notices.  A join that is still waiting will have no effect.
Notice(d) ==
    /\ State(d) = "lost"
    /\ Leave(d, [sockets[d] EXCEPT !.state = "kept", !.joining = {}])
    /\ UNCHANGED <<process, written, pending, screens, connects, joins>>

\* maxDisconnectionDuration is over.
Forget(d) ==
    /\ State(d) = "kept"
    /\ sockets' = [sockets EXCEPT ![d] = NoSocket]
    /\ UNCHANGED <<process, counts, written, pending, screens, connects, joins>>

----------------------------------------------------------------------------
(* Thread rooms *)

\* enquiry:join up to its question to the database; any app may name any thread.
EnquiryJoin(d, t) ==
    /\ State(d) = "open"
    /\ <<d, t>> \in Asked
    /\ joins < MaxJoins
    /\ joins' = joins + 1
    /\ sockets' = [sockets EXCEPT ![d].joining = @ \cup {t}]
    /\ UNCHANGED <<process, counts, written, pending, screens, connects>>

\* Mutant: an account that says who it is may join any conversation.
MayJoinSignedIn(d, t) == IdentityOf[d] \in Identities

MayJoin(d, t) == IsParty(d, t)

\* The answer; the socket may have left, or may have been lost, meanwhile.
Joined(d, t) ==
    /\ t \in sockets[d].joining
    /\ sockets' = [sockets EXCEPT
           ![d].joining = @ \ {t},
           ![d].rooms = IF MayJoin(d, t) THEN @ \cup {t} ELSE @]
    /\ UNCHANGED <<process, counts, written, pending, screens, connects, joins>>

\* The question fails.
JoinFailed(d, t) ==
    /\ t \in sockets[d].joining
    /\ sockets' = [sockets EXCEPT ![d].joining = @ \ {t}]
    /\ UNCHANGED <<process, counts, written, pending, screens, connects, joins>>

\* enquiry:leave, which a join that is waiting overtakes.
EnquiryLeave(d, t) ==
    /\ State(d) = "open"
    /\ t \in sockets[d].rooms
    /\ sockets' = [sockets EXCEPT ![d].rooms = @ \ {t}]
    /\ UNCHANGED <<process, counts, written, pending, screens, connects, joins>>

----------------------------------------------------------------------------
(* What is written, announced and shown *)

\* A handler of the enquiry service commits; one that is in flight when the
\* shutdown begins is still waited for.
Write(t, kind) ==
    /\ process # "down"
    /\ Len(written) < MaxEvents
    /\ written' = Append(written, [thread |-> t, kind |-> kind])
    /\ pending' = pending \cup {Len(written) + 1}
    /\ UNCHANGED <<process, sockets, counts, screens, connects, joins>>

\* Its emit calls, once it resumes after the commit.
Announce(e) ==
    /\ e \in pending
    /\ pending' = pending \ {e}
    /\ sockets' = [d \in Devices |->
           IF d \in Audience(written[e])
           THEN [sockets[d] EXCEPT !.due = @ \cup {e}] ELSE sockets[d]]
    /\ UNCHANGED <<process, counts, written, screens, connects, joins>>

\* The app receives what is due to it, and keys it by id.
Receive(d) ==
    /\ State(d) = "open"
    /\ sockets[d].due # {}
    /\ screens' = [screens EXCEPT ![d].shown = @ \cup sockets[d].due]
    /\ sockets' = [sockets EXCEPT ![d].due = {}]
    /\ UNCHANGED <<process, counts, written, pending, connects, joins>>

\* The app reads its conversations over REST after it connected anew.
Reconcile(d) ==
    /\ process = "up"
    /\ State(d) = "open"
    /\ screens[d].stale
    /\ screens' = [screens EXCEPT ![d] =
           [shown |-> {e \in DOMAIN written : IsParty(d, written[e].thread)}, stale |-> FALSE]]
    /\ UNCHANGED <<process, sockets, counts, written, pending, connects, joins>>

----------------------------------------------------------------------------
(* The process *)

\* Everything in memory goes with the process.
Vanish ==
    /\ process' = "down"
    /\ sockets' = [d \in Devices |-> NoSocket]
    /\ counts' = [c \in Customers |-> 0]
    /\ pending' = {}
    /\ UNCHANGED <<written, screens, connects, joins>>

Crash == process # "down" /\ Vanish

\* SIGTERM: no connection is taken any more, and those that exist are waited for.
Shutdown ==
    /\ process = "up"
    /\ process' = "closing"
    /\ UNCHANGED <<sockets, counts, written, pending, screens, connects, joins>>

\* server.close calls back.
Exit ==
    /\ process = "closing"
    /\ \A d \in Devices : State(d) \in {"none", "kept"}
    /\ pending = {}
    /\ Vanish

Start ==
    /\ process = "down"
    /\ process' = "up"
    /\ UNCHANGED <<sockets, counts, written, pending, screens, connects, joins>>

\* What the server, its heartbeats and the apps do without being told to.
Serve(d) ==
    \/ Notice(d) \/ Forget(d) \/ Receive(d) \/ Reconcile(d)
    \/ \E t \in Threads : Joined(d, t) \/ JoinFailed(d, t)

Use(d) ==
    \/ Connect(d) \/ Recover(d) \/ Close(d) \/ Lose(d)
    \/ \E t \in Threads : EnquiryJoin(d, t) \/ EnquiryLeave(d, t)

Next ==
    \/ \E d \in Devices : Serve(d) \/ Use(d)
    \/ \E t \in Threads, kind \in {"message", "update"} : Write(t, kind)
    \/ \E e \in pending : Announce(e)
    \/ Crash \/ Shutdown \/ Exit \/ Start

Spec == Init /\ [][Next]_vars

\* Node resumes a handler whose commit was answered, the heartbeat times out,
\* an open connection delivers, the app reads what it has to, and a server
\* that nobody is connected to stops.  Nobody has to connect, to leave, to
\* write, or to start the process again.
DeviceFairness(d) == WF_vars(Notice(d)) /\ WF_vars(Receive(d)) /\ WF_vars(Reconcile(d))
EventFairness(e) == WF_vars(Announce(e))

DevicesAreServed == \A d \in Devices : DeviceFairness(d)
EventsAreAnnounced == \A e \in 1 .. MaxEvents : EventFairness(e)

Fairness == DevicesAreServed /\ EventsAreAnnounced /\ WF_vars(Exit)

FairSpec == Spec /\ Fairness
----------------------------------------------------------------------------
(* Properties *)

TypeOK ==
    /\ process \in {"up", "closing", "down"}
    /\ sockets \in [Devices -> Socket]
    /\ counts \in [Customers -> Nat]
    /\ written \in Seq(Event)
    /\ Len(written) <= MaxEvents
    /\ pending \subseteq DOMAIN written
    /\ screens \in [Devices -> Screen]
    /\ connects \in Nat
    /\ joins \in Nat

\* A customer is online exactly while one of their devices is connected, and
\* the presence events sent to a partner's socket end in that truth, whatever
\* the devices of the customer do and whichever sockets are lost, recovered
\* or still to be noticed (the counts of socketServer.js; emission on the
\* transitions 0 to 1 and 1 to 0 only).
PresenceIsTrue ==
    \A c \in Customers :
        /\ IsCustomerOnline(c) <=> Connected(c) # {}
        /\ \A d \in Devices :
               IdentityOf[d] \in Stores /\ State(d) # "none"
               => (c \in sockets[d].presence <=> Connected(c) # {})

\* Nothing of a conversation is sent to, or shown on, the device of someone
\* who is not a party to it, whatever joins are asked for and answered late
\* (enquiry:join checks the row).
OnlyPartiesHear ==
    \A d \in Devices : \A e \in sockets[d].due \cup screens[d].shown :
        IsParty(d, written[e].thread)

\* A customer whose devices are all gone does not stay online, also when no
\* device said goodbye (the disconnect handler, the heartbeat).
OfflineIsNoticed ==
    \A c \in Customers :
        LET Gone == \A d \in Devices : IdentityOf[d] = c => State(d) # "open"
        IN  (IsCustomerOnline(c) /\ Gone) ~> (~IsCustomerOnline(c) \/ ~Gone)

IsMessageOf(d, e) ==
    e \in DOMAIN written /\ written[e].kind = "message" /\ IsParty(d, written[e].thread)

\* A message that was committed is shown on every device of either side that
\* stays connected, whichever screen it is on and whether or not the process
\* died between the commit and the emit (emitEnquiryMessage and the apps'
\* reconciliation).  A closing server takes no request any more.
CommittedIsShown ==
    \A d \in Devices : \A e \in 1 .. MaxEvents :
        (IsMessageOf(d, e) /\ State(d) = "open")
        ~> (e \in screens[d].shown \/ State(d) # "open" \/ process # "up")

\* A shutdown ends once no app is connected any more, also when sockets were
\* lost unnoticed (server.close waits for every connection that is left, and
\* nothing makes an app leave).
ClosesOnceLeft ==
    process = "closing" ~> (process # "closing" \/ \E d \in Devices : State(d) = "open")

============================================================================
