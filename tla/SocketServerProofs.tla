------------------------ MODULE SocketServerProofs ------------------------
(***************************************************************************)
(* What SocketServer keeps for any accounts, devices, conversations and    *)
(* bounds: the presence counts are the truth and so is what every          *)
(* partner's socket was told, and nobody hears of a conversation they are  *)
(* not a party to.  The counts are natural numbers only because they are   *)
(* those of connected devices, so that the types need that invariant too.  *)
(* What it promises comes last: a message reaches whoever stays connected, *)
(* one silent loss is noticed and one commit announced, and each of the    *)
(* stages in which many of them are leads nearer to the end.  These are    *)
(* stated under []NothingOwedIsBlocked, a hypothesis and not a property:  *)
(* where their guards hold, the steps that are owed are enabled.           *)
(***************************************************************************)
EXTENDS SocketServer, FiniteSetTheorems, TLAPS

----------------------------------------------------------------------------
(* The strengthened invariants *)

\* The count of a customer is the number of their connected devices.
Counted == \A c \in Customers : counts[c] = Cardinality(Connected(c))

\* Who is online by all that was sent to d's socket.
Told ==
    \A d \in Devices :
        IdentityOf[d] \in Stores /\ State(d) # "none"
        => sockets[d].presence = {c \in Customers : Connected(c) # {}}

PresenceInv == TypeOK /\ Counted /\ Told

\* A thread room holds parties only, so that events reach parties only.
Private ==
    \A d \in Devices :
        /\ \A t \in sockets[d].rooms : IsParty(d, t)
        /\ \A e \in sockets[d].due \cup screens[d].shown :
               e \in DOMAIN written /\ IsParty(d, written[e].thread)

----------------------------------------------------------------------------
(* Sockets *)

\* Two sockets that differ in nothing but what they were told of presence and
\* in the joins that wait.
Same(s, t) == s.state = t.state /\ s.rooms = t.rooms /\ s.due = t.due

LEMMA NoSocketIsSocket == NoSocket \in Socket
BY DEF NoSocket, Socket

\* What a step may rely on of a socket.
LEMMA SocketFacts ==
    ASSUME NEW s \in Socket
    PROVE  /\ s = [state |-> s.state, joining |-> s.joining, rooms |-> s.rooms,
                   due |-> s.due, presence |-> s.presence]
           /\ s.state \in {"none", "open", "lost", "kept"}
           /\ s.joining \subseteq Threads /\ s.rooms \subseteq Threads
           /\ s.due \subseteq 1 .. MaxEvents /\ s.presence \subseteq Customers
BY DEF Socket

\* customer:presence changes nothing but what partners were told: that a customer
\* is online from now on, or is not any more.
LEMMA ToldOnline ==
    ASSUME NEW table \in [Devices -> Socket], NEW c \in Customers
    PROVE  /\ TellPartners(table, c, TRUE) \in [Devices -> Socket]
           /\ \A d \in Devices :
                 /\ TellPartners(table, c, TRUE)[d].state = table[d].state
                 /\ TellPartners(table, c, TRUE)[d].rooms = table[d].rooms
                 /\ TellPartners(table, c, TRUE)[d].due = table[d].due
                 /\ TellPartners(table, c, TRUE)[d].presence =
                      IF IdentityOf[d] \in Stores /\ table[d].state # "none"
                      THEN table[d].presence \cup {c} ELSE table[d].presence
<1> DEFINE T == TellPartners(table, c, TRUE)
<1>1. T = [d \in Devices |->
             IF IdentityOf[d] \in Stores /\ table[d].state # "none"
             THEN [table[d] EXCEPT !.presence = table[d].presence \cup {c}]
             ELSE table[d]]
  BY DEF TellPartners
<1> HIDE DEF T
<1>2. ASSUME NEW d \in Devices
      PROVE  /\ T[d] \in Socket
             /\ T[d].state = table[d].state
             /\ T[d].rooms = table[d].rooms
             /\ T[d].due = table[d].due
             /\ T[d].presence =
                  IF IdentityOf[d] \in Stores /\ table[d].state # "none"
                  THEN table[d].presence \cup {c} ELSE table[d].presence
  <2>1. table[d] \in Socket
    OBVIOUS
  <2>2. CASE IdentityOf[d] \in Stores /\ table[d].state # "none"
    <3>1. T[d] = [table[d] EXCEPT !.presence = table[d].presence \cup {c}]
      BY <1>1, <2>2
    <3> QED
      BY <2>1, <2>2, <3>1 DEF Socket
  <2>3. CASE ~(IdentityOf[d] \in Stores /\ table[d].state # "none")
    BY <1>1, <2>1, <2>3
  <2> QED
    BY <2>2, <2>3
<1>3. T \in [Devices -> Socket]
  BY <1>1, <1>2
<1>4. /\ T \in [Devices -> Socket]
      /\ \A d \in Devices :
            /\ T[d].state = table[d].state
            /\ T[d].rooms = table[d].rooms
            /\ T[d].due = table[d].due
            /\ T[d].presence =
                 IF IdentityOf[d] \in Stores /\ table[d].state # "none"
                 THEN table[d].presence \cup {c} ELSE table[d].presence
  BY <1>2, <1>3
<1> QED
  BY <1>4 DEF T

LEMMA ToldOffline ==
    ASSUME NEW table \in [Devices -> Socket], NEW c \in Customers
    PROVE  /\ TellPartners(table, c, FALSE) \in [Devices -> Socket]
           /\ \A d \in Devices :
                 /\ TellPartners(table, c, FALSE)[d].state = table[d].state
                 /\ TellPartners(table, c, FALSE)[d].rooms = table[d].rooms
                 /\ TellPartners(table, c, FALSE)[d].due = table[d].due
                 /\ TellPartners(table, c, FALSE)[d].presence =
                      IF IdentityOf[d] \in Stores /\ table[d].state # "none"
                      THEN table[d].presence \ {c} ELSE table[d].presence
<1> DEFINE T == TellPartners(table, c, FALSE)
<1>1. T = [d \in Devices |->
             IF IdentityOf[d] \in Stores /\ table[d].state # "none"
             THEN [table[d] EXCEPT !.presence = table[d].presence \ {c}]
             ELSE table[d]]
  BY DEF TellPartners
<1> HIDE DEF T
<1>2. ASSUME NEW d \in Devices
      PROVE  /\ T[d] \in Socket
             /\ T[d].state = table[d].state
             /\ T[d].rooms = table[d].rooms
             /\ T[d].due = table[d].due
             /\ T[d].presence =
                  IF IdentityOf[d] \in Stores /\ table[d].state # "none"
                  THEN table[d].presence \ {c} ELSE table[d].presence
  <2>1. table[d] \in Socket
    OBVIOUS
  <2>2. CASE IdentityOf[d] \in Stores /\ table[d].state # "none"
    <3>1. T[d] = [table[d] EXCEPT !.presence = table[d].presence \ {c}]
      BY <1>1, <2>2
    <3> QED
      BY <2>1, <2>2, <3>1 DEF Socket
  <2>3. CASE ~(IdentityOf[d] \in Stores /\ table[d].state # "none")
    BY <1>1, <2>1, <2>3
  <2> QED
    BY <2>2, <2>3
<1>3. T \in [Devices -> Socket]
  BY <1>1, <1>2
<1>4. /\ T \in [Devices -> Socket]
      /\ \A d \in Devices :
            /\ T[d].state = table[d].state
            /\ T[d].rooms = table[d].rooms
            /\ T[d].due = table[d].due
            /\ T[d].presence =
                 IF IdentityOf[d] \in Stores /\ table[d].state # "none"
                 THEN table[d].presence \ {c} ELSE table[d].presence
  BY <1>2, <1>3
<1> QED
  BY <1>4 DEF T

LEMMA ConnectedIsFinite ==
    ASSUME NEW c \in Customers
    PROVE  /\ IsFiniteSet(Connected(c))
           /\ Cardinality(Connected(c)) \in Nat
           /\ Cardinality(Connected(c)) = 0 <=> Connected(c) = {}
<1>1. Connected(c) \in SUBSET Devices
  BY DEF Connected
<1>2. IsFiniteSet(Connected(c))
  BY <1>1, FS_Subset, SocketServerAssumption
<1> QED
  BY <1>2, FS_CardinalityType, FS_EmptySet

----------------------------------------------------------------------------
(* Arriving and leaving *)

\* The connection handler counts the device of a customer once more and tells
\* partners of the first.
LEMMA ArriveEffect ==
    ASSUME PresenceInv, NEW d \in Devices, NEW row \in Socket,
           State(d) \in {"none", "kept"}, row.state = "open",
           IdentityOf[d] \in Stores
               => row.presence = {c \in Customers : Connected(c) # {}},
           Arrive(d, row)
    PROVE  /\ sockets' \in [Devices -> Socket] /\ counts' \in [Customers -> Nat]
           /\ Counted' /\ Told'
           /\ Same(sockets'[d], row)
           /\ \A x \in Devices \ {d} : Same(sockets'[x], sockets[x])
<1> DEFINE c == IdentityOf[d]
           table == [sockets EXCEPT ![d] = row]
<1>1. /\ table \in [Devices -> Socket] /\ table[d] = row
      /\ \A x \in Devices \ {d} : table[x] = sockets[x]
  BY DEF PresenceInv, TypeOK
<1> HIDE DEF table
<1>2. CASE c \in Customers
  <2>1. c \notin Stores
    BY <1>2, SocketServerAssumption
  <2>2. counts \in [Customers -> Nat] /\ counts' = [counts EXCEPT ![c] = @ + 1]
    BY <1>2 DEF Arrive, PresenceInv, TypeOK
  <2>3. sockets' = IF counts[c] = 0 THEN TellPartners(table, c, TRUE) ELSE table
    BY <1>2 DEF Arrive, table
  <2>4. /\ sockets' \in [Devices -> Socket]
        /\ \A x \in Devices :
              /\ sockets'[x].state = table[x].state
              /\ sockets'[x].rooms = table[x].rooms
              /\ sockets'[x].due = table[x].due
              /\ sockets'[x].presence =
                    IF counts[c] = 0 /\ IdentityOf[x] \in Stores /\ table[x].state # "none"
                    THEN table[x].presence \cup {c} ELSE table[x].presence
    <3>1. CASE counts[c] = 0
      <4> DEFINE T == TellPartners(table, c, TRUE)
      <4>1. /\ T \in [Devices -> Socket]
            /\ \A x \in Devices :
                 /\ T[x].state = table[x].state
                 /\ T[x].rooms = table[x].rooms
                 /\ T[x].due = table[x].due
                 /\ T[x].presence =
                      IF IdentityOf[x] \in Stores /\ table[x].state # "none"
                      THEN table[x].presence \cup {c} ELSE table[x].presence
        BY <1>1, <1>2, ToldOnline
      <4> HIDE DEF T
      <4>2. sockets' = T
        BY <2>3, <3>1 DEF T
      <4> QED
        BY <3>1, <4>1, <4>2
    <3>2. CASE counts[c] # 0
      BY <1>1, <2>3, <3>2
    <3> QED
      BY <3>1, <3>2
  <2>5. /\ d \notin Connected(c)
        /\ Connected(c)' = Connected(c) \cup {d}
        /\ \A k \in Customers \ {c} : Connected(k)' = Connected(k)
    <3>1. \A x \in Devices : sockets'[x].state = table[x].state
      BY <2>4
    <3>2. /\ sockets'[d].state = "open" /\ sockets[d].state \notin {"open", "lost"}
          /\ \A x \in Devices \ {d} : sockets'[x].state = sockets[x].state
      BY <1>1, <3>1 DEF State
    <3> HIDE DEF c
    <3>3. c = IdentityOf[d]
      BY DEF c
    <3> QED
      BY <3>2, <3>3 DEF Connected, State
  <2>6. Cardinality(Connected(c)') = Cardinality(Connected(c)) + 1
    BY <1>2, <2>5, ConnectedIsFinite, FS_AddElement
  <2>7. Counted'
    BY <1>2, <2>2, <2>5, <2>6 DEF Counted, PresenceInv
  <2>8. counts[c] = 0 <=> Connected(c) = {}
    BY <1>2, ConnectedIsFinite DEF Counted, PresenceInv
  <2>9. {k \in Customers : Connected(k)' # {}} = {k \in Customers : Connected(k) # {}} \cup {c}
    BY <1>2, <2>5
  <2>10. ASSUME NEW x \in Devices, IdentityOf[x] \in Stores, sockets'[x].state # "none"
         PROVE  sockets'[x].presence = {k \in Customers : Connected(k)' # {}}
    <3>1. x # d
      BY <2>1, <2>10
    <3>2. table[x] = sockets[x] /\ State(x) # "none"
      BY <1>1, <2>4, <2>10, <3>1 DEF State
    <3>3. sockets[x].presence = {k \in Customers : Connected(k) # {}}
      BY <2>10, <3>2 DEF PresenceInv, Told
    <3>4. CASE counts[c] = 0
      BY <2>4, <2>9, <2>10, <3>2, <3>3, <3>4 DEF State
    <3>5. CASE counts[c] # 0
      BY <1>2, <2>4, <2>8, <2>9, <3>2, <3>3, <3>5
    <3> QED
      BY <3>4, <3>5
  <2>11. Told'
    BY <2>10 DEF Told, State
  <2>12. counts' \in [Customers -> Nat]
    BY <1>2, <2>2
  <2> QED
    BY <1>1, <2>4, <2>7, <2>11, <2>12 DEF Same
<1>3. CASE c \notin Customers
  <2>1. sockets' = table /\ counts' = counts
    BY <1>3 DEF Arrive, table
  <2>2. \A k \in Customers : Connected(k)' = Connected(k)
    BY <1>1, <1>3, <2>1 DEF Connected, State
  <2>3. Counted'
    BY <2>1, <2>2 DEF Counted, PresenceInv
  <2>4. {k \in Customers : Connected(k)' # {}} = {k \in Customers : Connected(k) # {}}
    BY <2>2
  <2>5. Told'
    BY <1>1, <2>1, <2>4 DEF Told, State, PresenceInv
  <2> QED
    BY <1>1, <2>1, <2>3, <2>5 DEF Same, PresenceInv, TypeOK
<1> QED
  BY <1>2, <1>3

\* The disconnect handler counts the device of a customer out and tells
\* partners of the last.
LEMMA LeaveEffect ==
    ASSUME PresenceInv, NEW d \in Devices, NEW row \in Socket,
           State(d) \in {"open", "lost"}, row.state \in {"none", "kept"},
           row.state = "kept" => row.presence = sockets[d].presence,
           Leave(d, row)
    PROVE  /\ sockets' \in [Devices -> Socket] /\ counts' \in [Customers -> Nat]
           /\ Counted' /\ Told'
           /\ Same(sockets'[d], row)
           /\ \A x \in Devices \ {d} : Same(sockets'[x], sockets[x])
<1> DEFINE c == IdentityOf[d]
           table == [sockets EXCEPT ![d] = row]
<1>1. /\ table \in [Devices -> Socket] /\ table[d] = row
      /\ \A x \in Devices \ {d} : table[x] = sockets[x]
  BY DEF PresenceInv, TypeOK
<1> HIDE DEF table
<1>2. CASE c \in Customers
  <2>1. c \notin Stores
    BY <1>2, SocketServerAssumption
  <2>2. counts \in [Customers -> Nat] /\ counts' = [counts EXCEPT ![c] = counts[c] - 1]
    BY <1>2 DEF Leave, Remaining, PresenceInv, TypeOK
  <2>3. sockets' = IF counts[c] - 1 = 0 THEN TellPartners(table, c, FALSE) ELSE table
    BY <1>2 DEF Leave, Remaining, table
  <2>4. /\ sockets' \in [Devices -> Socket]
        /\ \A x \in Devices :
              /\ sockets'[x].state = table[x].state
              /\ sockets'[x].rooms = table[x].rooms
              /\ sockets'[x].due = table[x].due
              /\ sockets'[x].presence =
                    IF counts[c] - 1 = 0 /\ IdentityOf[x] \in Stores /\ table[x].state # "none"
                    THEN table[x].presence \ {c} ELSE table[x].presence
    <3>1. CASE counts[c] - 1 = 0
      <4> DEFINE T == TellPartners(table, c, FALSE)
      <4>1. /\ T \in [Devices -> Socket]
            /\ \A x \in Devices :
                 /\ T[x].state = table[x].state
                 /\ T[x].rooms = table[x].rooms
                 /\ T[x].due = table[x].due
                 /\ T[x].presence =
                      IF IdentityOf[x] \in Stores /\ table[x].state # "none"
                      THEN table[x].presence \ {c} ELSE table[x].presence
        BY <1>1, <1>2, ToldOffline
      <4> HIDE DEF T
      <4>2. sockets' = T
        BY <2>3, <3>1 DEF T
      <4> QED
        BY <3>1, <4>1, <4>2
    <3>2. CASE counts[c] - 1 # 0
      BY <1>1, <2>3, <3>2
    <3> QED
      BY <3>1, <3>2
  <2>5. /\ d \in Connected(c)
        /\ Connected(c)' = Connected(c) \ {d}
        /\ \A k \in Customers \ {c} : Connected(k)' = Connected(k)
    <3>1. \A x \in Devices : sockets'[x].state = table[x].state
      BY <2>4
    <3>2. /\ sockets'[d].state \notin {"open", "lost"} /\ sockets[d].state \in {"open", "lost"}
          /\ \A x \in Devices \ {d} : sockets'[x].state = sockets[x].state
      BY <1>1, <3>1 DEF State
    <3> HIDE DEF c
    <3>3. c = IdentityOf[d]
      BY DEF c
    <3> QED
      BY <3>2, <3>3 DEF Connected, State
  <2>6. /\ Cardinality(Connected(c)) \in Nat \ {0}
        /\ Cardinality(Connected(c)') = Cardinality(Connected(c)) - 1
    BY <1>2, <2>5, ConnectedIsFinite, FS_RemoveElement
  <2>7. Counted'
    BY <1>2, <2>2, <2>5, <2>6 DEF Counted, PresenceInv
  <2>8. counts[c] - 1 = 0 <=> Connected(c)' = {}
    <3>1. IsFiniteSet(Connected(c)')
      BY <1>2, <2>5, ConnectedIsFinite, FS_RemoveElement
    <3>2. Cardinality(Connected(c)') = 0 <=> Connected(c)' = {}
      BY <3>1, FS_EmptySet
    <3> QED
      BY <1>2, <2>6, <3>2 DEF Counted, PresenceInv
  <2>9. {k \in Customers : Connected(k)' # {}} =
            IF counts[c] - 1 = 0 THEN {k \in Customers : Connected(k) # {}} \ {c}
                                 ELSE {k \in Customers : Connected(k) # {}}
    BY <1>2, <2>5, <2>8
  <2>10. ASSUME NEW x \in Devices, IdentityOf[x] \in Stores, sockets'[x].state # "none"
         PROVE  sockets'[x].presence = {k \in Customers : Connected(k)' # {}}
    <3>1. x # d
      BY <2>1, <2>10
    <3>2. table[x] = sockets[x] /\ State(x) # "none"
      BY <1>1, <2>4, <2>10, <3>1 DEF State
    <3>3. sockets[x].presence = {k \in Customers : Connected(k) # {}}
      BY <2>10, <3>2 DEF PresenceInv, Told
    <3>4. CASE counts[c] - 1 = 0
      BY <2>4, <2>9, <2>10, <3>2, <3>3, <3>4 DEF State
    <3>5. CASE counts[c] - 1 # 0
      BY <2>4, <2>9, <3>2, <3>3, <3>5
    <3> QED
      BY <3>4, <3>5
  <2>11. Told'
    BY <2>10 DEF Told, State
  <2>12. counts' \in [Customers -> Nat]
    BY <1>2, <2>2, <2>6 DEF Counted, PresenceInv
  <2> QED
    BY <1>1, <2>4, <2>7, <2>11, <2>12 DEF Same
<1>3. CASE c \notin Customers
  <2>1. sockets' = table /\ counts' = counts
    BY <1>3 DEF Leave, table
  <2>2. \A k \in Customers : Connected(k)' = Connected(k)
    BY <1>1, <1>3, <2>1 DEF Connected, State
  <2>3. Counted'
    BY <2>1, <2>2 DEF Counted, PresenceInv
  <2>4. {k \in Customers : Connected(k)' # {}} = {k \in Customers : Connected(k) # {}}
    BY <2>2
  <2>5. Told'
    BY <1>1, <2>1, <2>4 DEF Told, State, PresenceInv
  <2> QED
    BY <1>1, <2>1, <2>3, <2>5 DEF Same, PresenceInv, TypeOK
<1> QED
  BY <1>2, <1>3

\* A step that counts nobody in or out leaves presence as it is.
LEMMA PresenceKept ==
    ASSUME PresenceInv, sockets' \in [Devices -> Socket], counts' = counts,
           \A d \in Devices :
               /\ sockets'[d].state \in {"open", "lost"} <=> State(d) \in {"open", "lost"}
               /\ sockets'[d].state # "none"
                     => State(d) # "none" /\ sockets'[d].presence = sockets[d].presence
    PROVE  Counted' /\ Told'
<1>1. \A k \in Customers : Connected(k)' = Connected(k)
  BY DEF Connected, State
<1>2. Counted'
  BY <1>1 DEF Counted, PresenceInv
<1>3. {k \in Customers : Connected(k)' # {}} = {k \in Customers : Connected(k) # {}}
  BY <1>1
<1>4. Told'
  BY <1>3 DEF Told, State, PresenceInv
<1> QED
  BY <1>2, <1>4

----------------------------------------------------------------------------
(* Presence *)

LEMMA WrittenFacts ==
    ASSUME TypeOK
    PROVE  /\ Len(written) \in Nat /\ DOMAIN written = 1 .. Len(written)
           /\ DOMAIN written \subseteq 1 .. MaxEvents
           /\ pending \subseteq 1 .. MaxEvents
           /\ \A e \in DOMAIN written : written[e] \in Event
BY SocketServerAssumption DEF TypeOK

LEMMA PresenceInit == Init => PresenceInv
<1> SUFFICES ASSUME Init PROVE PresenceInv
  OBVIOUS
<1>1. TypeOK
  BY NoSocketIsSocket, SocketServerAssumption DEF Init, TypeOK, Screen
<1>2. \A c \in Customers : Connected(c) = {}
  BY DEF Init, Connected, State, NoSocket
<1>3. Counted
  BY <1>2, FS_EmptySet DEF Counted, Init
<1>4. Told
  BY DEF Told, Init, State, NoSocket
<1> QED
  BY <1>1, <1>3, <1>4 DEF PresenceInv

LEMMA ConnectKeepsPresence ==
    ASSUME PresenceInv, NEW d \in Devices, Connect(d) \/ Recover(d)
    PROVE  PresenceInv'
<1>1. CASE Connect(d)
  <2> DEFINE row == [NoSocket EXCEPT !.state = "open", !.presence = PresenceFor(d)]
  <2>1. row \in Socket /\ row.state = "open" /\ row.presence = PresenceFor(d)
    BY DEF NoSocket, Socket, PresenceFor
  <2>2. IdentityOf[d] \in Stores => row.presence = {c \in Customers : Connected(c) # {}}
    BY <2>1, ConnectedIsFinite DEF PresenceFor, IsCustomerOnline, PresenceInv, Counted
  <2>3. Arrive(d, row) /\ State(d) \in {"none", "kept"}
    BY <1>1 DEF Connect
  <2> HIDE DEF row
  <2>4. sockets' \in [Devices -> Socket] /\ counts' \in [Customers -> Nat] /\ Counted' /\ Told'
    BY <2>1, <2>2, <2>3, ArriveEffect
  <2>5. screens' \in [Devices -> Screen] /\ connects' \in Nat
    <3>1. screens \in [Devices -> Screen] /\ connects \in Nat
      BY DEF PresenceInv, TypeOK
    <3>2. [screens[d] EXCEPT !.stale = TRUE] \in Screen
      BY <3>1 DEF Screen
    <3>3. screens' = [screens EXCEPT ![d] = [screens[d] EXCEPT !.stale = TRUE]]
      BY <1>1, <3>1 DEF Connect, Screen
    <3> QED
      BY <1>1, <3>1, <3>2, <3>3 DEF Connect
  <2> QED
    BY <1>1, <2>4, <2>5 DEF Connect, PresenceInv, TypeOK
<1>2. CASE Recover(d)
  <2> DEFINE row == [sockets[d] EXCEPT !.state = "open"]
  <2>1. /\ sockets[d] \in Socket /\ row \in Socket
        /\ row.state = "open" /\ row.presence = sockets[d].presence
    BY DEF Socket, PresenceInv, TypeOK
  <2>2. Arrive(d, row) /\ State(d) = "kept"
    BY <1>2 DEF Recover
  <2>3. IdentityOf[d] \in Stores => row.presence = {c \in Customers : Connected(c) # {}}
    BY <2>1, <2>2 DEF PresenceInv, Told
  <2> HIDE DEF row
  <2>4. sockets' \in [Devices -> Socket] /\ counts' \in [Customers -> Nat] /\ Counted' /\ Told'
    BY <2>1, <2>2, <2>3, ArriveEffect
  <2> QED
    BY <1>2, <2>4 DEF Recover, PresenceInv, TypeOK
<1> QED
  BY <1>1, <1>2

LEMMA LeaveKeepsPresence ==
    ASSUME PresenceInv, NEW d \in Devices, Close(d) \/ Notice(d)
    PROVE  PresenceInv'
<1>1. CASE Close(d)
  <2>1. Leave(d, NoSocket) /\ State(d) \in {"open", "lost"} /\ NoSocket.state = "none"
    BY <1>1 DEF Close, NoSocket
  <2>2. sockets' \in [Devices -> Socket] /\ counts' \in [Customers -> Nat] /\ Counted' /\ Told'
    BY <2>1, NoSocketIsSocket, LeaveEffect
  <2> QED
    BY <1>1, <2>2 DEF Close, PresenceInv, TypeOK
<1>2. CASE Notice(d)
  <2> DEFINE row == [sockets[d] EXCEPT !.state = "kept", !.joining = {}]
  <2>1. /\ sockets[d] \in Socket /\ row \in Socket
        /\ row.state = "kept" /\ row.presence = sockets[d].presence
    BY DEF Socket, PresenceInv, TypeOK
  <2>2. Leave(d, row) /\ State(d) \in {"open", "lost"}
    BY <1>2 DEF Notice
  <2> HIDE DEF row
  <2>3. sockets' \in [Devices -> Socket] /\ counts' \in [Customers -> Nat] /\ Counted' /\ Told'
    BY <2>1, <2>2, LeaveEffect
  <2> QED
    BY <1>2, <2>3 DEF Notice, PresenceInv, TypeOK
<1> QED
  BY <1>1, <1>2

\* The other steps of one socket: d's socket stays as present as it was.
LEMMA OneSocket ==
    ASSUME PresenceInv, NEW d \in Devices, NEW row \in Socket,
           sockets' = [sockets EXCEPT ![d] = row], counts' = counts,
           row.state \in {"open", "lost"} <=> State(d) \in {"open", "lost"},
           row.state # "none" => State(d) # "none" /\ row.presence = sockets[d].presence
    PROVE  sockets' \in [Devices -> Socket] /\ counts' \in [Customers -> Nat] /\ Counted' /\ Told'
<1>1. sockets' \in [Devices -> Socket] /\ counts' \in [Customers -> Nat]
  BY DEF PresenceInv, TypeOK
<1>2. sockets'[d] = row /\ \A x \in Devices \ {d} : sockets'[x] = sockets[x]
  BY DEF PresenceInv, TypeOK
<1>3. \A x \in Devices :
        /\ sockets'[x].state \in {"open", "lost"} <=> State(x) \in {"open", "lost"}
        /\ sockets'[x].state # "none"
              => State(x) # "none" /\ sockets'[x].presence = sockets[x].presence
  BY <1>2 DEF State
<1> QED
  BY <1>1, <1>3, PresenceKept

LEMMA OwnStepKeepsPresence ==
    ASSUME PresenceInv, NEW d \in Devices, NEW t,
           \/ Lose(d) \/ Forget(d) \/ Receive(d)
           \/ /\ t \in Threads
              /\ \/ EnquiryJoin(d, t) \/ EnquiryLeave(d, t)
                 \/ Joined(d, t) \/ JoinFailed(d, t)
    PROVE  PresenceInv'
<1>1. sockets[d] \in Socket /\ sockets \in [Devices -> Socket]
  BY DEF PresenceInv, TypeOK
<1>2. CASE Lose(d)
  <2> DEFINE row == [sockets[d] EXCEPT !.state = "lost"]
  <2>1. row \in Socket /\ row.state = "lost" /\ row.presence = sockets[d].presence
    BY <1>1 DEF Socket
  <2>2. sockets' = [sockets EXCEPT ![d] = row] /\ counts' = counts /\ State(d) = "open"
    BY <1>2 DEF Lose
  <2> HIDE DEF row
  <2>3. sockets' \in [Devices -> Socket] /\ counts' \in [Customers -> Nat] /\ Counted' /\ Told'
    BY <2>1, <2>2, OneSocket
  <2> QED
    BY <1>2, <2>3 DEF Lose, PresenceInv, TypeOK
<1>3. CASE Forget(d)
  <2>1. NoSocket.state = "none" /\ State(d) = "kept"
    BY <1>3 DEF Forget, NoSocket
  <2>2. sockets' = [sockets EXCEPT ![d] = NoSocket] /\ counts' = counts
    BY <1>3 DEF Forget
  <2>3. sockets' \in [Devices -> Socket] /\ counts' \in [Customers -> Nat] /\ Counted' /\ Told'
    BY <2>1, <2>2, NoSocketIsSocket, OneSocket
  <2> QED
    BY <1>3, <2>3 DEF Forget, PresenceInv, TypeOK
<1>4. CASE Receive(d)
  <2> DEFINE row == [sockets[d] EXCEPT !.due = {}]
  <2>1. row \in Socket /\ row.state = State(d) /\ row.presence = sockets[d].presence
    BY <1>1 DEF Socket, State
  <2>2. sockets' = [sockets EXCEPT ![d] = row] /\ counts' = counts
    BY <1>4 DEF Receive
  <2> HIDE DEF row
  <2>3. sockets' \in [Devices -> Socket] /\ counts' \in [Customers -> Nat] /\ Counted' /\ Told'
    BY <2>1, <2>2, OneSocket
  <2>4. screens' \in [Devices -> Screen]
    BY <1>1, <1>4, SocketFacts DEF Receive, PresenceInv, TypeOK, Screen
  <2> QED
    BY <1>4, <2>3, <2>4 DEF Receive, PresenceInv, TypeOK
<1>5. CASE t \in Threads /\ EnquiryJoin(d, t)
  <2> DEFINE row == [sockets[d] EXCEPT !.joining = sockets[d].joining \cup {t}]
  <2>1. row \in Socket /\ row.state = State(d) /\ row.presence = sockets[d].presence
    BY <1>1, <1>5 DEF Socket, State
  <2>2. sockets' = [sockets EXCEPT ![d] = row] /\ counts' = counts
    BY <1>5 DEF EnquiryJoin
  <2> HIDE DEF row
  <2>3. sockets' \in [Devices -> Socket] /\ counts' \in [Customers -> Nat] /\ Counted' /\ Told'
    BY <2>1, <2>2, OneSocket
  <2> QED
    BY <1>5, <2>3 DEF EnquiryJoin, PresenceInv, TypeOK
<1>6. CASE t \in Threads /\ Joined(d, t)
  <2> DEFINE row == [sockets[d] EXCEPT
                        !.joining = sockets[d].joining \ {t},
                        !.rooms = IF MayJoin(d, t) THEN sockets[d].rooms \cup {t}
                                                   ELSE sockets[d].rooms]
  <2>1. row \in Socket /\ row.state = State(d) /\ row.presence = sockets[d].presence
    BY <1>1, <1>6 DEF Socket, State
  <2>2. sockets' = [sockets EXCEPT ![d] = row] /\ counts' = counts
    BY <1>6 DEF Joined
  <2> HIDE DEF row
  <2>3. sockets' \in [Devices -> Socket] /\ counts' \in [Customers -> Nat] /\ Counted' /\ Told'
    BY <2>1, <2>2, OneSocket
  <2> QED
    BY <1>6, <2>3 DEF Joined, PresenceInv, TypeOK
<1>7. CASE t \in Threads /\ JoinFailed(d, t)
  <2> DEFINE row == [sockets[d] EXCEPT !.joining = sockets[d].joining \ {t}]
  <2>1. row \in Socket /\ row.state = State(d) /\ row.presence = sockets[d].presence
    BY <1>1 DEF Socket, State
  <2>2. sockets' = [sockets EXCEPT ![d] = row] /\ counts' = counts
    BY <1>7 DEF JoinFailed
  <2> HIDE DEF row
  <2>3. sockets' \in [Devices -> Socket] /\ counts' \in [Customers -> Nat] /\ Counted' /\ Told'
    BY <2>1, <2>2, OneSocket
  <2> QED
    BY <1>7, <2>3 DEF JoinFailed, PresenceInv, TypeOK
<1>8. CASE t \in Threads /\ EnquiryLeave(d, t)
  <2> DEFINE row == [sockets[d] EXCEPT !.rooms = sockets[d].rooms \ {t}]
  <2>1. row \in Socket /\ row.state = State(d) /\ row.presence = sockets[d].presence
    BY <1>1 DEF Socket, State
  <2>2. sockets' = [sockets EXCEPT ![d] = row] /\ counts' = counts
    BY <1>8 DEF EnquiryLeave
  <2> HIDE DEF row
  <2>3. sockets' \in [Devices -> Socket] /\ counts' \in [Customers -> Nat] /\ Counted' /\ Told'
    BY <2>1, <2>2, OneSocket
  <2> QED
    BY <1>8, <2>3 DEF EnquiryLeave, PresenceInv, TypeOK
<1> QED
  BY <1>2, <1>3, <1>4, <1>5, <1>6, <1>7, <1>8

\* What is written, announced and read counts nobody in or out.
LEMMA ConversationsKeepPresence ==
    ASSUME PresenceInv,
           \/ \E t \in Threads, kind \in {"message", "update"} : Write(t, kind)
           \/ \E e \in pending : Announce(e)
           \/ \E d \in Devices : Reconcile(d)
    PROVE  PresenceInv'
<1>1. CASE \E t \in Threads, kind \in {"message", "update"} : Write(t, kind)
  <2>1. PICK t \in Threads, kind \in {"message", "update"} : Write(t, kind)
    BY <1>1
  <2>2. [thread |-> t, kind |-> kind] \in Event
    BY DEF Event
  <2>3. /\ written' \in Seq(Event) /\ Len(written') = Len(written) + 1
        /\ Len(written) \in Nat /\ Len(written) < MaxEvents
    BY <2>1, <2>2 DEF Write, PresenceInv, TypeOK
  <2>4. Len(written') <= MaxEvents /\ pending' \subseteq DOMAIN written'
    BY <2>1, <2>3, SocketServerAssumption, WrittenFacts DEF Write, PresenceInv, TypeOK
  <2>5. TypeOK'
    BY <2>1, <2>3, <2>4 DEF Write, PresenceInv, TypeOK
  <2>6. sockets' = sockets /\ counts' = counts
    BY <2>1 DEF Write
  <2>7. Counted' /\ Told'
    BY <2>5, <2>6, PresenceKept DEF TypeOK, State
  <2> QED
    BY <2>5, <2>7 DEF PresenceInv
<1>2. CASE \E e \in pending : Announce(e)
  <2>1. PICK e \in pending : Announce(e)
    BY <1>2
  <2>2. sockets' = [d \in Devices |->
            IF d \in Audience(written[e])
            THEN [sockets[d] EXCEPT !.due = sockets[d].due \cup {e}] ELSE sockets[d]]
    BY <2>1 DEF Announce
  <2>3. e \in 1 .. MaxEvents
    BY WrittenFacts DEF PresenceInv
  <2>4. \A d \in Devices :
          LET s == sockets[d]
              heard == [s EXCEPT !.due = s.due \cup {e}]
          IN  /\ s \in Socket /\ heard \in Socket
              /\ heard.state = s.state /\ heard.presence = s.presence
    BY <2>3 DEF PresenceInv, TypeOK, Socket
  <2>5. /\ sockets' \in [Devices -> Socket]
        /\ \A d \in Devices :
              sockets'[d].state = State(d) /\ sockets'[d].presence = sockets[d].presence
    BY <2>2, <2>4 DEF State
  <2>6. TypeOK'
    BY <2>1, <2>5 DEF Announce, PresenceInv, TypeOK
  <2>7. Counted' /\ Told'
    BY <2>1, <2>5, PresenceKept DEF Announce
  <2> QED
    BY <2>6, <2>7 DEF PresenceInv
<1>3. CASE \E d \in Devices : Reconcile(d)
  <2>1. PICK d \in Devices : Reconcile(d)
    BY <1>3
  <2>2. screens' \in [Devices -> Screen]
    BY <2>1, WrittenFacts DEF Reconcile, PresenceInv, TypeOK, Screen
  <2>3. TypeOK'
    BY <2>1, <2>2 DEF Reconcile, PresenceInv, TypeOK
  <2>4. sockets' = sockets /\ counts' = counts
    BY <2>1 DEF Reconcile
  <2>5. Counted' /\ Told'
    BY <2>3, <2>4, PresenceKept DEF TypeOK, State
  <2> QED
    BY <2>3, <2>5 DEF PresenceInv
<1> QED
  BY <1>1, <1>2, <1>3

\* With the process goes everything that presence is about.
LEMMA ProcessKeepsPresence ==
    ASSUME PresenceInv, Crash \/ Exit \/ Shutdown \/ Start
    PROVE  PresenceInv'
<1>1. CASE Vanish
  <2>1. TypeOK'
    BY <1>1, NoSocketIsSocket DEF Vanish, PresenceInv, TypeOK
  <2>2. \A c \in Customers : Connected(c)' = {}
    BY <1>1 DEF Vanish, Connected, State, NoSocket
  <2>3. Counted'
    BY <1>1, <2>2, FS_EmptySet DEF Counted, Vanish
  <2>4. Told'
    BY <1>1 DEF Told, Vanish, State, NoSocket
  <2> QED
    BY <2>1, <2>3, <2>4 DEF PresenceInv
<1>2. CASE Shutdown \/ Start
  <2>1. TypeOK'
    BY <1>2 DEF Shutdown, Start, PresenceInv, TypeOK
  <2>2. sockets' = sockets /\ counts' = counts
    BY <1>2 DEF Shutdown, Start
  <2>3. Counted' /\ Told'
    BY <2>1, <2>2, PresenceKept DEF TypeOK, State
  <2> QED
    BY <2>1, <2>3 DEF PresenceInv
<1> QED
  BY <1>1, <1>2 DEF Crash, Exit

LEMMA PresenceStep == PresenceInv /\ [Next]_vars => PresenceInv'
<1> SUFFICES ASSUME PresenceInv, [Next]_vars PROVE PresenceInv'
  OBVIOUS
<1>1. ASSUME NEW d \in Devices, Serve(d) PROVE PresenceInv'
  <2>1. CASE Notice(d)
    BY <2>1, LeaveKeepsPresence
  <2>2. CASE Reconcile(d)
    BY <2>2, ConversationsKeepPresence
  <2>3. CASE Forget(d) \/ Receive(d)
    BY <2>3, OwnStepKeepsPresence
  <2>4. CASE \E t \in Threads : Joined(d, t) \/ JoinFailed(d, t)
    BY <2>4, OwnStepKeepsPresence
  <2> QED
    BY <1>1, <2>1, <2>2, <2>3, <2>4 DEF Serve
<1>2. ASSUME NEW d \in Devices, Use(d) PROVE PresenceInv'
  <2>1. CASE Connect(d) \/ Recover(d)
    BY <2>1, ConnectKeepsPresence
  <2>2. CASE Close(d)
    BY <2>2, LeaveKeepsPresence
  <2>3. CASE Lose(d)
    BY <2>3, OwnStepKeepsPresence
  <2>4. CASE \E t \in Threads : EnquiryJoin(d, t) \/ EnquiryLeave(d, t)
    BY <2>4, OwnStepKeepsPresence
  <2> QED
    BY <1>2, <2>1, <2>2, <2>3, <2>4 DEF Use
<1>3. CASE \/ \E t \in Threads, kind \in {"message", "update"} : Write(t, kind)
           \/ \E e \in pending : Announce(e)
  BY <1>3, ConversationsKeepPresence
<1>4. CASE Crash \/ Shutdown \/ Exit \/ Start
  BY <1>4, ProcessKeepsPresence
<1>5. CASE UNCHANGED vars
  <2>1. TypeOK'
    BY <1>5 DEF vars, PresenceInv, TypeOK
  <2>2. sockets' = sockets /\ counts' = counts
    BY <1>5 DEF vars
  <2>3. Counted' /\ Told'
    BY <2>1, <2>2, PresenceKept DEF TypeOK, State
  <2> QED
    BY <2>1, <2>3 DEF PresenceInv
<1> QED
  BY <1>1, <1>2, <1>3, <1>4, <1>5 DEF Next

\* What arriving and leaving do to the socket of one device and to its screen.
LEMMA ConnectionEffect ==
    ASSUME PresenceInv, NEW d \in Devices,
           Connect(d) \/ Recover(d) \/ Close(d) \/ Notice(d) \/ Lose(d) \/ Forget(d)
    PROVE  /\ written' = written /\ pending' = pending
           /\ \A x \in Devices \ {d} :
                 Same(sockets'[x], sockets[x]) /\ screens'[x] = screens[x]
           /\ screens'[d].shown = screens[d].shown
           /\ Lose(d) \/ sockets'[d].state # "lost"
           /\ Notice(d) => sockets'[d].state = "kept"
           /\ \/ /\ State(d) \in {"none", "kept"}
                 /\ sockets'[d].rooms = {} /\ sockets'[d].due = {}
                 /\ screens'[d].stale
              \/ /\ sockets'[d].rooms = {} /\ sockets'[d].due = {}
                 /\ sockets'[d].state = "none" /\ screens'[d].stale = screens[d].stale
              \/ /\ State(d) \in {"kept", "lost"} \/ sockets'[d].state = "lost"
                 /\ State(d) # "none"
                 /\ sockets'[d].rooms = sockets[d].rooms /\ sockets'[d].due = sockets[d].due
                 /\ screens'[d].stale = screens[d].stale
<1>1. sockets \in [Devices -> Socket] /\ screens \in [Devices -> Screen]
  BY DEF PresenceInv, TypeOK
<1>2. written' = written /\ pending' = pending
  BY DEF Connect, Recover, Close, Notice, Lose, Forget
<1>3. /\ \A x \in Devices \ {d} : screens'[x] = screens[x]
      /\ screens'[d].shown = screens[d].shown
      /\ Connect(d) => screens'[d].stale
      /\ ~Connect(d) => screens'[d].stale = screens[d].stale
  BY <1>1 DEF Connect, Recover, Close, Notice, Lose, Forget, Screen
<1>4. CASE Connect(d)
  <2> DEFINE row == [NoSocket EXCEPT !.state = "open", !.presence = PresenceFor(d)]
  <2>1. /\ row \in Socket /\ row.state = "open" /\ row.presence = PresenceFor(d)
        /\ row.rooms = {} /\ row.due = {}
    BY DEF NoSocket, Socket, PresenceFor
  <2>2. IdentityOf[d] \in Stores => row.presence = {c \in Customers : Connected(c) # {}}
    BY <2>1, ConnectedIsFinite DEF PresenceFor, IsCustomerOnline, PresenceInv, Counted
  <2>3. Arrive(d, row) /\ State(d) \in {"none", "kept"}
    BY <1>4 DEF Connect
  <2> HIDE DEF row
  <2>4. Same(sockets'[d], row) /\ \A x \in Devices \ {d} : Same(sockets'[x], sockets[x])
    BY <2>1, <2>2, <2>3, ArriveEffect
  <2> QED
    BY <1>2, <1>3, <1>4, <2>1, <2>3, <2>4 DEF Same, Notice
<1>5. CASE Recover(d)
  <2> DEFINE row == [sockets[d] EXCEPT !.state = "open"]
  <2>1. /\ sockets[d] \in Socket /\ row \in Socket
        /\ row.state = "open" /\ row.presence = sockets[d].presence
        /\ row.rooms = sockets[d].rooms /\ row.due = sockets[d].due
    BY <1>1 DEF Socket
  <2>2. Arrive(d, row) /\ State(d) = "kept"
    BY <1>5 DEF Recover
  <2>3. IdentityOf[d] \in Stores => row.presence = {c \in Customers : Connected(c) # {}}
    BY <2>1, <2>2 DEF PresenceInv, Told
  <2> HIDE DEF row
  <2>4. Same(sockets'[d], row) /\ \A x \in Devices \ {d} : Same(sockets'[x], sockets[x])
    BY <2>1, <2>2, <2>3, ArriveEffect
  <2>5. screens' = screens
    BY <1>5 DEF Recover
  <2> QED
    BY <1>2, <2>1, <2>2, <2>4, <2>5 DEF Same, Notice
<1>6. CASE Close(d)
  <2>1. /\ Leave(d, NoSocket) /\ State(d) \in {"open", "lost"} /\ NoSocket.state = "none"
        /\ NoSocket.rooms = {} /\ NoSocket.due = {}
    BY <1>6 DEF Close, NoSocket
  <2>2. Same(sockets'[d], NoSocket) /\ \A x \in Devices \ {d} : Same(sockets'[x], sockets[x])
    BY <2>1, NoSocketIsSocket, LeaveEffect
  <2>3. screens' = screens
    BY <1>6 DEF Close
  <2> QED
    BY <1>2, <1>6, <2>1, <2>2, <2>3 DEF Same, Close, Notice
<1>7. CASE Notice(d)
  <2> DEFINE row == [sockets[d] EXCEPT !.state = "kept", !.joining = {}]
  <2>1. /\ sockets[d] \in Socket /\ row \in Socket
        /\ row.state = "kept" /\ row.presence = sockets[d].presence
        /\ row.rooms = sockets[d].rooms /\ row.due = sockets[d].due
    BY <1>1 DEF Socket
  <2>2. Leave(d, row) /\ State(d) = "lost"
    BY <1>7 DEF Notice
  <2> HIDE DEF row
  <2>3. Same(sockets'[d], row) /\ \A x \in Devices \ {d} : Same(sockets'[x], sockets[x])
    BY <2>1, <2>2, LeaveEffect
  <2>4. screens' = screens
    BY <1>7 DEF Notice
  <2> QED
    BY <1>2, <2>1, <2>2, <2>3, <2>4 DEF Same
<1>8. CASE Lose(d)
  <2>1. /\ sockets'[d].state = "lost" /\ State(d) = "open" /\ screens' = screens
        /\ sockets'[d].rooms = sockets[d].rooms /\ sockets'[d].due = sockets[d].due
        /\ \A x \in Devices \ {d} : sockets'[x] = sockets[x]
    BY <1>1, <1>8 DEF Lose, Socket
  <2> QED
    BY <1>2, <1>8, <2>1 DEF Same, Notice
<1>9. CASE Forget(d)
  <2>1. /\ sockets'[d] = NoSocket /\ screens' = screens
        /\ \A x \in Devices \ {d} : sockets'[x] = sockets[x]
    BY <1>1, <1>9 DEF Forget
  <2> QED
    BY <1>2, <1>9, <2>1 DEF Same, NoSocket, Notice, Forget
<1> QED
  BY <1>4, <1>5, <1>6, <1>7, <1>8, <1>9

----------------------------------------------------------------------------
(* Who hears of what *)

LEMMA PrivateInit == Init => Private
BY DEF Init, Private, NoSocket

\* Reading a step of one device: what is in its rooms, due to it and on its
\* screen is about its own conversations, and the others are left alone.
LEMMA OneDevice ==
    ASSUME Private, NEW d \in Devices,
           \A e \in DOMAIN written : e \in DOMAIN written' /\ written'[e] = written[e],
           \A t \in sockets'[d].rooms : IsParty(d, t),
           \A e \in sockets'[d].due \cup screens'[d].shown :
               e \in DOMAIN written /\ IsParty(d, written[e].thread),
           \A x \in Devices \ {d} :
               /\ sockets'[x].rooms = sockets[x].rooms /\ sockets'[x].due = sockets[x].due
               /\ screens'[x].shown = screens[x].shown
    PROVE  Private'
<1> SUFFICES ASSUME NEW x \in Devices
             PROVE  /\ \A t \in sockets'[x].rooms : IsParty(x, t)
                    /\ \A e \in sockets'[x].due \cup screens'[x].shown :
                           e \in DOMAIN written' /\ IsParty(x, written'[e].thread)
  BY DEF Private, IsParty, Parties
<1>1. CASE x = d
  BY <1>1
<1>2. CASE x # d
  BY <1>2 DEF Private
<1> QED
  BY <1>1, <1>2

\* A device that arrives or leaves knows of nothing it did not know of.
LEMMA ConnectionsKeepPrivate ==
    ASSUME PresenceInv, Private, NEW d \in Devices,
           Connect(d) \/ Recover(d) \/ Close(d) \/ Notice(d) \/ Lose(d) \/ Forget(d)
    PROVE  Private'
<1>1. /\ written' = written
      /\ screens'[d].shown = screens[d].shown
      /\ \/ sockets'[d].rooms = {} /\ sockets'[d].due = {}
         \/ sockets'[d].rooms = sockets[d].rooms /\ sockets'[d].due = sockets[d].due
      /\ \A x \in Devices \ {d} :
            Same(sockets'[x], sockets[x]) /\ screens'[x] = screens[x]
  BY ConnectionEffect
<1>2. \A t \in sockets'[d].rooms : IsParty(d, t)
  BY <1>1 DEF Private
<1>3. \A e \in sockets'[d].due \cup screens'[d].shown :
         e \in DOMAIN written /\ IsParty(d, written[e].thread)
  BY <1>1 DEF Private
<1> QED
  BY <1>1, <1>2, <1>3, OneDevice DEF Same

\* enquiry:join looks at the conversation before it opens its room.
LEMMA RoomsKeepPrivate ==
    ASSUME PresenceInv, Private, NEW d \in Devices, NEW t \in Threads,
           EnquiryJoin(d, t) \/ Joined(d, t) \/ JoinFailed(d, t) \/ EnquiryLeave(d, t)
    PROVE  Private'
<1>1. sockets \in [Devices -> Socket]
  BY DEF PresenceInv, TypeOK
<1>2. written' = written /\ screens' = screens
  BY DEF EnquiryJoin, Joined, JoinFailed, EnquiryLeave
<1>3. /\ sockets'[d].due = sockets[d].due
      /\ \A x \in Devices \ {d} : sockets'[x] = sockets[x]
      /\ \A u \in sockets'[d].rooms : u \in sockets[d].rooms \/ IsParty(d, u)
  <2>1. CASE EnquiryJoin(d, t)
    BY <1>1, <2>1 DEF EnquiryJoin, Socket
  <2>2. CASE Joined(d, t)
    <3>1. sockets' = [sockets EXCEPT ![d] = [sockets[d] EXCEPT
                 !.joining = sockets[d].joining \ {t},
                 !.rooms = IF MayJoin(d, t) THEN sockets[d].rooms \cup {t} ELSE sockets[d].rooms]]
      BY <2>2 DEF Joined
    <3>2. sockets'[d].rooms = IF MayJoin(d, t) THEN sockets[d].rooms \cup {t} ELSE sockets[d].rooms
      BY <1>1, <3>1 DEF Socket
    <3>3. /\ sockets'[d].due = sockets[d].due
          /\ \A x \in Devices \ {d} : sockets'[x] = sockets[x]
      BY <1>1, <3>1 DEF Socket
    <3> QED
      BY <3>2, <3>3 DEF MayJoin
  <2>3. CASE JoinFailed(d, t)
    BY <1>1, <2>3 DEF JoinFailed, Socket
  <2>4. CASE EnquiryLeave(d, t)
    BY <1>1, <2>4 DEF EnquiryLeave, Socket
  <2> QED
    BY <2>1, <2>2, <2>3, <2>4
<1>4. \A u \in sockets'[d].rooms : IsParty(d, u)
  BY <1>3 DEF Private
<1>5. \A e \in sockets'[d].due \cup screens'[d].shown :
         e \in DOMAIN written /\ IsParty(d, written[e].thread)
  BY <1>2, <1>3 DEF Private
<1> QED
  BY <1>2, <1>3, <1>4, <1>5, OneDevice

LEMMA ConversationsKeepPrivate ==
    ASSUME PresenceInv, Private,
           \/ \E t \in Threads, kind \in {"message", "update"} : Write(t, kind)
           \/ \E e \in pending : Announce(e)
           \/ \E d \in Devices : Receive(d) \/ Reconcile(d)
    PROVE  Private'
<1>1. sockets \in [Devices -> Socket] /\ screens \in [Devices -> Screen]
  BY DEF PresenceInv, TypeOK
<1>2. CASE \E t \in Threads, kind \in {"message", "update"} : Write(t, kind)
  <2>1. PICK t \in Threads, kind \in {"message", "update"} : Write(t, kind)
    BY <1>2
  <2>2. written \in Seq(Event) /\ [thread |-> t, kind |-> kind] \in Event
    BY DEF Event, PresenceInv, TypeOK
  <2>3. \A e \in DOMAIN written : e \in DOMAIN written' /\ written'[e] = written[e]
    BY <2>1, <2>2 DEF Write
  <2>4. sockets' = sockets /\ screens' = screens
    BY <2>1 DEF Write
  <2> QED
    BY <2>3, <2>4 DEF Private, IsParty, Parties
<1>3. CASE \E e \in pending : Announce(e)
  <2>1. PICK e \in pending : Announce(e)
    BY <1>3
  <2>2. e \in DOMAIN written /\ written' = written /\ screens' = screens
    BY <2>1 DEF Announce, PresenceInv, TypeOK
  <2>3. sockets' = [d \in Devices |->
            IF d \in Audience(written[e])
            THEN [sockets[d] EXCEPT !.due = sockets[d].due \cup {e}] ELSE sockets[d]]
    BY <2>1 DEF Announce
  <2>4. \A d \in Devices :
          /\ sockets'[d].rooms = sockets[d].rooms
          /\ sockets'[d].due \subseteq
                IF d \in Audience(written[e]) THEN sockets[d].due \cup {e} ELSE sockets[d].due
    BY <1>1, <2>3 DEF Socket
  <2>5. \A d \in Devices : d \in Audience(written[e]) => IsParty(d, written[e].thread)
    BY DEF Audience, Private
  <2> QED
    BY <2>2, <2>4, <2>5 DEF Private, IsParty, Parties
<1>4. CASE \E d \in Devices : Receive(d)
  <2>1. PICK d \in Devices : Receive(d)
    BY <1>4
  <2>2. /\ written' = written
        /\ screens'[d].shown = screens[d].shown \cup sockets[d].due
        /\ sockets'[d].due = {} /\ sockets'[d].rooms = sockets[d].rooms
        /\ \A x \in Devices \ {d} : sockets'[x] = sockets[x] /\ screens'[x] = screens[x]
    BY <1>1, <2>1 DEF Receive, Socket, Screen
  <2> QED
    BY <2>2, OneDevice DEF Private
<1>5. CASE \E d \in Devices : Reconcile(d)
  <2>1. PICK d \in Devices : Reconcile(d)
    BY <1>5
  <2>2. /\ written' = written /\ sockets' = sockets
        /\ screens'[d].shown = {e \in DOMAIN written : IsParty(d, written[e].thread)}
        /\ \A x \in Devices \ {d} : screens'[x] = screens[x]
    BY <1>1, <2>1 DEF Reconcile
  <2> QED
    BY <2>2, OneDevice DEF Private
<1> QED
  BY <1>2, <1>3, <1>4, <1>5

LEMMA PrivateStep == PresenceInv /\ Private /\ [Next]_vars => Private'
<1> SUFFICES ASSUME PresenceInv, Private, [Next]_vars PROVE Private'
  OBVIOUS
<1>1. ASSUME NEW d \in Devices, Serve(d) \/ Use(d) PROVE Private'
  <2>1. CASE Connect(d) \/ Recover(d) \/ Close(d) \/ Notice(d) \/ Lose(d) \/ Forget(d)
    BY <2>1, ConnectionsKeepPrivate
  <2>2. CASE \E t \in Threads :
                EnquiryJoin(d, t) \/ Joined(d, t) \/ JoinFailed(d, t) \/ EnquiryLeave(d, t)
    BY <2>2, RoomsKeepPrivate
  <2>3. CASE Receive(d) \/ Reconcile(d)
    BY <2>3, ConversationsKeepPrivate
  <2> QED
    BY <1>1, <2>1, <2>2, <2>3 DEF Serve, Use
<1>2. CASE \/ \E t \in Threads, kind \in {"message", "update"} : Write(t, kind)
           \/ \E e \in pending : Announce(e)
  BY <1>2, ConversationsKeepPrivate
<1>3. CASE Crash \/ Exit
  BY <1>3 DEF Crash, Exit, Vanish, NoSocket, Private
<1>4. CASE Shutdown \/ Start
  BY <1>4 DEF Shutdown, Start, Private, IsParty, Parties
<1>5. CASE UNCHANGED vars
  BY <1>5 DEF vars, Private, IsParty, Parties
<1> QED
  BY <1>1, <1>2, <1>3, <1>4, <1>5 DEF Next

----------------------------------------------------------------------------
(* What is owed *)

\* Where a message that was committed is, for a device of one of its sides
\* whose socket the server has: before its emit, on the way, on the screen, or
\* in the conversation that the app has still to read anew.
Owed(d, e) ==
    \/ e \in pending \/ e \in sockets[d].due
    \/ e \in screens[d].shown \/ screens[d].stale

Accounted ==
    \A d \in Devices : \A e \in 1 .. MaxEvents :
        State(d) # "none" /\ IsMessageOf(d, e) => Owed(d, e)

\* What a step may do with a message that is there already: it moves on towards
\* the screen, or the socket is gone.
MovesOn(d, e) ==
    /\ IsMessageOf(d, e)'
    /\ State(d) # "none" /\ Owed(d, e) => Owed(d, e)' \/ State(d)' = "none"
    /\ State(d) = "none" => State(d)' = "none" \/ screens'[d].stale
    /\ State(d) = "open" /\ screens[d].stale => screens'[d].stale \/ e \in screens'[d].shown
    /\ State(d) = "open" /\ e \in sockets[d].due
          => State(d)' # "open" \/ e \in sockets'[d].due \/ e \in screens'[d].shown
    /\ State(d) = "open" /\ e \in pending
          => State(d)' # "open" \/ e \in pending' \/ e \in sockets'[d].due

LEMMA ConnectionsMoveOn ==
    ASSUME PresenceInv, NEW d \in Devices, NEW e \in 1 .. MaxEvents, IsMessageOf(d, e),
           NEW x \in Devices,
           Connect(x) \/ Recover(x) \/ Close(x) \/ Notice(x) \/ Lose(x) \/ Forget(x)
    PROVE  MovesOn(d, e)
<1>1. IsMessageOf(d, e)'
  BY ConnectionEffect DEF IsMessageOf, IsParty, Parties
<1>2. CASE x = d
  BY <1>1, <1>2, ConnectionEffect DEF MovesOn, Owed, State
<1>3. CASE x # d
  <2>1. Same(sockets'[d], sockets[d]) /\ screens'[d] = screens[d] /\ pending' = pending
    BY <1>3, ConnectionEffect
  <2> QED
    BY <1>1, <2>1 DEF Same, MovesOn, Owed, State
<1> QED
  BY <1>2, <1>3

\* The joins of any device leave what is due and what is shown alone.
LEMMA RoomsEffect ==
    ASSUME PresenceInv, NEW d \in Devices, NEW x \in Devices, NEW t \in Threads,
           EnquiryJoin(x, t) \/ Joined(x, t) \/ JoinFailed(x, t) \/ EnquiryLeave(x, t)
    PROVE  /\ written' = written /\ screens' = screens /\ pending' = pending
           /\ sockets'[d].due = sockets[d].due /\ sockets'[d].state = sockets[d].state
<1>1. sockets \in [Devices -> Socket]
  BY DEF PresenceInv, TypeOK
<1>2. written' = written /\ screens' = screens /\ pending' = pending
  BY DEF EnquiryJoin, Joined, JoinFailed, EnquiryLeave
<1>3. CASE EnquiryJoin(x, t)
  BY <1>1, <1>2, <1>3 DEF EnquiryJoin, Socket
<1>4. CASE Joined(x, t)
  <2>1. sockets' = [sockets EXCEPT ![x] = [sockets[x] EXCEPT
               !.joining = sockets[x].joining \ {t},
               !.rooms = IF MayJoin(x, t) THEN sockets[x].rooms \cup {t} ELSE sockets[x].rooms]]
    BY <1>4 DEF Joined
  <2> QED
    BY <1>1, <1>2, <2>1 DEF Socket
<1>5. CASE JoinFailed(x, t)
  BY <1>1, <1>2, <1>5 DEF JoinFailed, Socket
<1>6. CASE EnquiryLeave(x, t)
  BY <1>1, <1>2, <1>6 DEF EnquiryLeave, Socket
<1> QED
  BY <1>3, <1>4, <1>5, <1>6

LEMMA RoomsMoveOn ==
    ASSUME PresenceInv, NEW d \in Devices, NEW e \in 1 .. MaxEvents, IsMessageOf(d, e),
           NEW x \in Devices, NEW t \in Threads,
           EnquiryJoin(x, t) \/ Joined(x, t) \/ JoinFailed(x, t) \/ EnquiryLeave(x, t)
    PROVE  MovesOn(d, e)
BY RoomsEffect DEF MovesOn, Owed, State, IsMessageOf, IsParty, Parties

LEMMA ConversationsMoveOn ==
    ASSUME PresenceInv, NEW d \in Devices, NEW e \in 1 .. MaxEvents, IsMessageOf(d, e),
           \/ \E t \in Threads, kind \in {"message", "update"} : Write(t, kind)
           \/ \E f \in pending : Announce(f)
           \/ \E x \in Devices : Receive(x) \/ Reconcile(x)
    PROVE  MovesOn(d, e)
<1>1. sockets \in [Devices -> Socket] /\ screens \in [Devices -> Screen]
  BY DEF PresenceInv, TypeOK
<1>2. CASE \E t \in Threads, kind \in {"message", "update"} : Write(t, kind)
  <2>1. PICK t \in Threads, kind \in {"message", "update"} : Write(t, kind)
    BY <1>2
  <2>2. written \in Seq(Event) /\ [thread |-> t, kind |-> kind] \in Event
    BY DEF Event, PresenceInv, TypeOK
  <2>3. \A f \in DOMAIN written : f \in DOMAIN written' /\ written'[f] = written[f]
    BY <2>1, <2>2 DEF Write
  <2>4. IsMessageOf(d, e)'
    BY <2>3 DEF IsMessageOf, IsParty, Parties
  <2>5. sockets' = sockets /\ screens' = screens /\ pending \subseteq pending'
    BY <2>1 DEF Write
  <2> QED
    BY <2>4, <2>5 DEF MovesOn, Owed, State
<1>3. CASE \E f \in pending : Announce(f)
  <2>1. PICK f \in pending : Announce(f)
    BY <1>3
  <2>2. f \in DOMAIN written /\ written' = written /\ screens' = screens
        /\ pending' = pending \ {f}
    BY <2>1 DEF Announce, PresenceInv, TypeOK
  <2>3. sockets' = [x \in Devices |->
            IF x \in Audience(written[f])
            THEN [sockets[x] EXCEPT !.due = sockets[x].due \cup {f}] ELSE sockets[x]]
    BY <2>1 DEF Announce
  <2>4. /\ sockets'[d].state = State(d)
        /\ sockets[d].due \subseteq sockets'[d].due
        /\ d \in Audience(written[f]) => f \in sockets'[d].due
    BY <1>1, <2>3 DEF Socket, State
  <2>5. State(d) # "none" => d \in Audience(written[e])
    BY DEF Audience, IsMessageOf
  <2> QED
    BY <2>2, <2>4, <2>5 DEF MovesOn, Owed, State, IsMessageOf, IsParty, Parties
<1>4. CASE \E x \in Devices : Receive(x)
  <2>1. PICK x \in Devices : Receive(x)
    BY <1>4
  <2>2. /\ written' = written /\ pending' = pending
        /\ sockets'[d].state = State(d)
        /\ screens'[d].stale = screens[d].stale
        /\ screens[d].shown \subseteq screens'[d].shown
        /\ sockets[d].due \subseteq sockets'[d].due \cup screens'[d].shown
    BY <1>1, <2>1 DEF Receive, Socket, Screen, State
  <2> QED
    BY <2>2 DEF MovesOn, Owed, State, IsMessageOf, IsParty, Parties
<1>5. CASE \E x \in Devices : Reconcile(x)
  <2>1. PICK x \in Devices : Reconcile(x)
    BY <1>5
  <2>2. /\ written' = written /\ pending' = pending /\ sockets' = sockets
        /\ screens'[d] = screens[d] \/ e \in screens'[d].shown
    BY <1>1, <2>1 DEF Reconcile, IsMessageOf
  <2> QED
    BY <2>2 DEF MovesOn, Owed, State, IsMessageOf, IsParty, Parties
<1> QED
  BY <1>2, <1>3, <1>4, <1>5

LEMMA StepMovesOn ==
    ASSUME PresenceInv, [Next]_vars, NEW d \in Devices, NEW e \in 1 .. MaxEvents,
           IsMessageOf(d, e)
    PROVE  MovesOn(d, e)
<1>1. ASSUME NEW x \in Devices, Serve(x) \/ Use(x) PROVE MovesOn(d, e)
  <2>1. CASE Connect(x) \/ Recover(x) \/ Close(x) \/ Notice(x) \/ Lose(x) \/ Forget(x)
    BY <2>1, ConnectionsMoveOn
  <2>2. CASE \E t \in Threads :
                EnquiryJoin(x, t) \/ Joined(x, t) \/ JoinFailed(x, t) \/ EnquiryLeave(x, t)
    BY <2>2, RoomsMoveOn
  <2>3. CASE Receive(x) \/ Reconcile(x)
    BY <2>3, ConversationsMoveOn
  <2> QED
    BY <1>1, <2>1, <2>2, <2>3 DEF Serve, Use
<1>2. CASE \/ \E t \in Threads, kind \in {"message", "update"} : Write(t, kind)
           \/ \E f \in pending : Announce(f)
  BY <1>2, ConversationsMoveOn
<1>3. CASE Crash \/ Exit
  BY <1>3 DEF Crash, Exit, Vanish, NoSocket, MovesOn, Owed, State, IsMessageOf, IsParty, Parties
<1>4. CASE Shutdown \/ Start
  BY <1>4 DEF Shutdown, Start, MovesOn, Owed, State, IsMessageOf, IsParty, Parties
<1>5. CASE UNCHANGED vars
  BY <1>5 DEF vars, MovesOn, Owed, State, IsMessageOf, IsParty, Parties
<1> QED
  BY <1>1, <1>2, <1>3, <1>4, <1>5 DEF Next

LEMMA OnlyWriteWrites ==
    ASSUME [Next]_vars
    PROVE  \/ UNCHANGED written
           \/ \E t \in Threads, kind \in {"message", "update"} : Write(t, kind)
BY DEF Next, Serve, Use, Notice, Forget, Receive, Reconcile, Joined, JoinFailed, Connect,
       Recover, Close, Lose, EnquiryJoin, EnquiryLeave, Announce, Crash, Shutdown, Exit,
       Vanish, Start, vars

\* An event that a step adds to the conversations is one that it owes.
LEMMA NewIsPending ==
    ASSUME PresenceInv, [Next]_vars, NEW e \in DOMAIN written', e \notin DOMAIN written
    PROVE  e \in pending'
<1>1. CASE \E t \in Threads, kind \in {"message", "update"} : Write(t, kind)
  <2>1. PICK t \in Threads, kind \in {"message", "update"} : Write(t, kind)
    BY <1>1
  <2>2. written \in Seq(Event) /\ [thread |-> t, kind |-> kind] \in Event
    BY DEF Event, PresenceInv, TypeOK
  <2> QED
    BY <2>1, <2>2 DEF Write
<1>2. CASE UNCHANGED written
  BY <1>2
<1> QED
  BY <1>1, <1>2, OnlyWriteWrites

\* What was committed stays as it is.
LEMMA WrittenKept ==
    ASSUME PresenceInv, [Next]_vars, NEW e \in DOMAIN written
    PROVE  e \in DOMAIN written' /\ written'[e] = written[e]
<1>1. CASE \E t \in Threads, kind \in {"message", "update"} : Write(t, kind)
  <2>1. PICK t \in Threads, kind \in {"message", "update"} : Write(t, kind)
    BY <1>1
  <2>2. written \in Seq(Event) /\ [thread |-> t, kind |-> kind] \in Event
    BY DEF Event, PresenceInv, TypeOK
  <2> QED
    BY <2>1, <2>2 DEF Write
<1>2. CASE UNCHANGED written
  BY <1>2
<1> QED
  BY <1>1, <1>2, OnlyWriteWrites

\* A commit that was announced is not announced again.
LEMMA OldIsNotPending ==
    ASSUME PresenceInv, [Next]_vars, NEW e \in DOMAIN written, e \notin pending
    PROVE  e \notin pending'
<1>1. ASSUME NEW t \in Threads, NEW kind \in {"message", "update"}, Write(t, kind)
      PROVE  e \notin pending'
  BY <1>1, WrittenFacts DEF Write, PresenceInv
<1>2. CASE pending' \subseteq pending
  BY <1>2
<1> QED
  BY <1>1, <1>2 DEF Next, Serve, Use, Notice, Forget, Receive, Reconcile, Joined, JoinFailed,
     Connect, Recover, Close, Lose, EnquiryJoin, EnquiryLeave, Announce, Crash, Shutdown,
     Exit, Vanish, Start, vars

LEMMA AccountedInit == Init => Accounted
BY DEF Init, Accounted, State, NoSocket

LEMMA AccountedStep == PresenceInv /\ Accounted /\ [Next]_vars => Accounted'
<1> SUFFICES ASSUME PresenceInv, Accounted, [Next]_vars,
                    NEW d \in Devices, NEW e \in 1 .. MaxEvents,
                    State(d)' # "none", IsMessageOf(d, e)'
             PROVE  Owed(d, e)'
  BY DEF Accounted
<1>1. CASE IsMessageOf(d, e)
  BY <1>1, StepMovesOn DEF MovesOn, Accounted, Owed
<1>2. CASE e \notin DOMAIN written
  BY <1>2, NewIsPending DEF IsMessageOf, Owed
<1>3. CASE e \in DOMAIN written /\ ~IsMessageOf(d, e)
  <2>1. written'[e] = written[e]
    BY <1>3, WrittenKept
  <2> QED
    BY <1>3, <2>1 DEF IsMessageOf, IsParty, Parties
<1> QED
  BY <1>1, <1>2, <1>3

----------------------------------------------------------------------------
(* Theorems *)

\* Rows of memory keep their types, and a count never goes below zero, for any
\* accounts and devices (onlineCustomerConnectionCounts).
THEOREM TypeCorrect == Spec => []TypeOK
<1>1. PresenceInv => TypeOK
  BY DEF PresenceInv
<1> QED
  BY <1>1, PresenceInit, PresenceStep, PTL DEF Spec

\* A customer is online exactly while one of their devices is connected, and
\* every partner's stream of presence events says so, for any number of both,
\* through losses, recoveries and the loss of the process.
THEOREM PresenceIsAlwaysTrue == Spec => []PresenceIsTrue
<1>1. PresenceInv => PresenceIsTrue
  BY ConnectedIsFinite DEF PresenceInv, Counted, Told, PresenceIsTrue, IsCustomerOnline
<1> QED
  BY <1>1, PresenceInit, PresenceStep, PTL DEF Spec

\* Nothing of a conversation reaches a device of anyone else, for any number of
\* conversations and whatever joins are asked for and answered late.
THEOREM OnlyPartiesEverHear == Spec => []OnlyPartiesHear
<1>1. Private => OnlyPartiesHear
  BY DEF Private, OnlyPartiesHear
<1> QED
  BY <1>1, PresenceInit, PresenceStep, PrivateInit, PrivateStep, PTL DEF Spec

\* The hypothesis of the theorems that follow: the steps that are owed are enabled
\* where their guards hold.  It says nothing of the server.  It stands for the
\* computation of ENABLED from the shape of Notice, Receive, Reconcile, Announce
\* and Exit, which is out of reach of the provers here.
NothingOwedIsBlocked ==
    /\ \A d \in Devices :
          /\ State(d) = "lost" => ENABLED <<Notice(d)>>_vars
          /\ State(d) = "open" /\ sockets[d].due # {} => ENABLED <<Receive(d)>>_vars
          /\ process = "up" /\ State(d) = "open" /\ screens[d].stale
                => ENABLED <<Reconcile(d)>>_vars
    /\ \A e \in 1 .. MaxEvents : e \in pending => ENABLED <<Announce(e)>>_vars
    /\ process = "closing" /\ (\A d \in Devices : State(d) \notin {"open", "lost"}) /\ pending = {}
          => ENABLED <<Exit>>_vars

\* A message that was committed is shown on every device of either side that
\* stays connected, for any number of devices, conversations and messages, also
\* when the process died between the commit and the emit: until it is shown it
\* is accounted for, as one that is to be announced, received, or read anew,
\* and the step for that is fair (emitEnquiryMessage, the apps' reconciliation).
THEOREM CommittedIsEventuallyShown ==
    FairSpec /\ []NothingOwedIsBlocked => CommittedIsShown
<1>1. ASSUME NEW d \in Devices, NEW e \in 1 .. MaxEvents
      PROVE  FairSpec /\ []NothingOwedIsBlocked
             => ((IsMessageOf(d, e) /\ State(d) = "open")
                 ~> (e \in screens[d].shown \/ State(d) # "open" \/ process # "up"))
  <2> DEFINE Goal == e \in screens[d].shown \/ State(d) # "open" \/ process # "up"
             Waits == IsMessageOf(d, e) /\ State(d) = "open" /\ process = "up"
             Unread == Waits /\ screens[d].stale
             Due == Waits /\ e \in sockets[d].due
             Unsent == Waits /\ e \in pending
  <2>1. PresenceInv /\ Unread /\ [Next]_vars => Unread' \/ Goal'
    BY StepMovesOn DEF MovesOn
  <2>2. PresenceInv /\ Due /\ [Next]_vars => Due' \/ Goal'
    BY StepMovesOn DEF MovesOn
  <2>3. PresenceInv /\ Unsent /\ [Next]_vars => Unsent' \/ Due' \/ Goal'
    BY StepMovesOn DEF MovesOn
  <2>4. PresenceInv /\ Unread /\ <<Reconcile(d)>>_vars => Goal'
    BY DEF Reconcile, IsMessageOf, PresenceInv, TypeOK
  <2>5. PresenceInv /\ Due /\ <<Receive(d)>>_vars => Goal'
    BY DEF Receive, PresenceInv, TypeOK, Screen
  <2>6. PresenceInv /\ Unsent /\ <<Announce(e)>>_vars => Due' \/ Goal'
    <3> SUFFICES ASSUME PresenceInv, Unsent, Announce(e)
                 PROVE  Due' \/ Goal'
      OBVIOUS
    <3>1. MovesOn(d, e)
      BY ConversationsMoveOn
    <3>2. e \notin pending'
      BY DEF Announce
    <3> QED
      BY <3>1, <3>2 DEF MovesOn
  <2>7. NothingOwedIsBlocked
        => /\ Unread => ENABLED <<Reconcile(d)>>_vars
           /\ Due => ENABLED <<Receive(d)>>_vars
           /\ Unsent => ENABLED <<Announce(e)>>_vars
    BY DEF NothingOwedIsBlocked
  <2>8. Accounted /\ IsMessageOf(d, e) /\ State(d) = "open" => Goal \/ Unread \/ Due \/ Unsent
    BY DEF Accounted, Owed
  <2>9. /\ DevicesAreServed => DeviceFairness(d)
        /\ EventsAreAnnounced => EventFairness(e)
    BY DEF DevicesAreServed, EventsAreAnnounced
  <2> HIDE DEF Goal, Unread, Due, Unsent
  <2>10. FairSpec /\ []NothingOwedIsBlocked => ((IsMessageOf(d, e) /\ State(d) = "open") ~> Goal)
    BY <2>1, <2>2, <2>3, <2>4, <2>5, <2>6, <2>7, <2>8, <2>9, PresenceInit, PresenceStep,
       AccountedInit, AccountedStep, PTL DEF FairSpec, Spec, Fairness, DeviceFairness, EventFairness
  <2> QED
    BY <2>10 DEF Goal
<1> QED
  BY <1>1 DEF CommittedIsShown

----------------------------------------------------------------------------
(* What fairness brings to one socket and to one commit *)

\* The server serves what it is able to.
Serving == FairSpec /\ []NothingOwedIsBlocked

\* A socket that is away is lost only by being open first.
LEMMA AwayStays ==
    ASSUME PresenceInv, [Next]_vars, NEW d \in Devices,
           State(d) \notin {"open", "lost"}, State(d)' # "open"
    PROVE  State(d)' # "lost"
<1> SUFFICES sockets'[d].state # "lost"
  BY DEF State
<1>1. sockets \in [Devices -> Socket] /\ sockets[d].state \notin {"open", "lost"}
  BY DEF PresenceInv, TypeOK, State
<1>2. ASSUME NEW x \in Devices,
             Connect(x) \/ Recover(x) \/ Close(x) \/ Notice(x) \/ Lose(x) \/ Forget(x)
      PROVE  sockets'[d].state # "lost"
  <2>1. Lose(d) => FALSE
    BY <1>1 DEF Lose, State
  <2>2. CASE x = d
    BY <1>2, <2>1, <2>2, ConnectionEffect
  <2>3. CASE x # d
    <3>1. Same(sockets'[d], sockets[d])
      BY <1>2, <2>3, ConnectionEffect
    <3> QED
      BY <1>1, <3>1 DEF Same
  <2> QED
    BY <2>2, <2>3
<1>3. ASSUME NEW x \in Devices, NEW t \in Threads,
             EnquiryJoin(x, t) \/ Joined(x, t) \/ JoinFailed(x, t) \/ EnquiryLeave(x, t)
      PROVE  sockets'[d].state # "lost"
  BY <1>1, <1>3, RoomsEffect
<1>4. ASSUME NEW x \in Devices, Receive(x) PROVE sockets'[d].state # "lost"
  BY <1>1, <1>4 DEF Receive, Socket
<1>5. ASSUME NEW e \in pending, Announce(e) PROVE sockets'[d].state # "lost"
  <2>1. sockets' = [x \in Devices |->
            IF x \in Audience(written[e])
            THEN [sockets[x] EXCEPT !.due = sockets[x].due \cup {e}] ELSE sockets[x]]
    BY <1>5 DEF Announce
  <2> QED
    BY <1>1, <2>1 DEF Socket
<1>6. CASE Crash \/ Exit
  BY <1>6 DEF Crash, Exit, Vanish, NoSocket
<1>7. CASE UNCHANGED sockets
  BY <1>1, <1>7
<1> QED
  BY <1>2, <1>3, <1>4, <1>5, <1>6, <1>7
     DEF Next, Serve, Use, Reconcile, Write, Shutdown, Start, vars

\* Whoever is away for good is noticed for good, whichever other sockets are
\* lost, and whether or not the server is closing: the heartbeat of one socket
\* needs no other one (the disconnect handler).
THEOREM LossIsNoticedForGood ==
    ASSUME NEW d \in Devices
    PROVE  Serving => (<>[](State(d) # "open") => <>[](State(d) \notin {"open", "lost"}))
<1> DEFINE Gone == State(d) # "open"
           Seen == State(d) \notin {"open", "lost"}
<1>1. PresenceInv /\ Gone' /\ Seen /\ [Next]_vars => Seen'
  BY AwayStays
<1>2. PresenceInv /\ <<Notice(d)>>_vars => Seen'
  <2> SUFFICES ASSUME PresenceInv, Notice(d) PROVE Seen'
    OBVIOUS
  <2>1. sockets'[d].state = "kept"
    BY ConnectionEffect
  <2> QED
    BY <2>1 DEF State
<1>3. NothingOwedIsBlocked /\ Gone => Seen \/ ENABLED <<Notice(d)>>_vars
  BY DEF NothingOwedIsBlocked
<1>4. DevicesAreServed => DeviceFairness(d)
  BY DEF DevicesAreServed
<1> HIDE DEF Gone, Seen
<1>5. Serving => (<>[]Gone => <>[]Seen)
  BY <1>1, <1>2, <1>3, <1>4, PresenceInit, PresenceStep,
     PTL DEF Serving, FairSpec, Spec, Fairness, DeviceFairness
<1> QED
  BY <1>5 DEF Gone, Seen

\* A commit is announced in the end, and then never again, whatever the sockets
\* do; or the process dies, and with it what was pending (the emitters, called
\* after the commit).
THEOREM CommitIsAnnouncedForGood ==
    ASSUME NEW e \in 1 .. MaxEvents
    PROVE  Serving => <>[](e \notin pending)
<1> DEFINE There == e \in DOMAIN written
           Waits == e \in pending
           Done == There /\ e \notin pending
<1>1. PresenceInv /\ Done /\ [Next]_vars => Done'
  <2> SUFFICES ASSUME PresenceInv, Done, [Next]_vars PROVE Done'
    OBVIOUS
  <2>1. There'
    BY WrittenKept
  <2>2. e \notin pending'
    BY WrittenKept, OldIsNotPending
  <2> QED
    BY <2>1, <2>2
<1>2. PresenceInv /\ Waits /\ [Next]_vars => Waits' \/ Done'
  <2> SUFFICES ASSUME PresenceInv, Waits, [Next]_vars PROVE There'
    OBVIOUS
  <2>1. There
    BY DEF PresenceInv, TypeOK
  <2> QED
    BY <2>1, WrittenKept
<1>3. PresenceInv /\ Waits /\ <<Announce(e)>>_vars => Done'
  BY DEF Announce, PresenceInv, TypeOK
<1>4. NothingOwedIsBlocked /\ Waits => ENABLED <<Announce(e)>>_vars
  BY DEF NothingOwedIsBlocked
<1>5. EventsAreAnnounced => EventFairness(e)
  BY DEF EventsAreAnnounced
<1>6. (Done => e \notin pending) /\ (Waits <=> ~(e \notin pending))
  OBVIOUS
<1> HIDE DEF There, Waits, Done
<1> QED
  BY <1>1, <1>2, <1>3, <1>4, <1>5, <1>6, PresenceInit, PresenceStep,
     PTL DEF Serving, FairSpec, Spec, Fairness, EventFairness

----------------------------------------------------------------------------
(* What it brings to many of them: every stage is nearer to the end *)

AllAway(S) == \A d \in S : State(d) # "open"
Lost(S) == {d \in S : State(d) = "lost"}

DevicesOf(c) == {d \in Devices : IdentityOf[d] = c}

LEMMA LostOnlyShrink ==
    ASSUME PresenceInv, [Next]_vars, NEW S \in SUBSET Devices, AllAway(S), AllAway(S)'
    PROVE  Lost(S)' \subseteq Lost(S)
<1> SUFFICES ASSUME NEW d \in S, State(d)' = "lost" PROVE State(d) = "lost"
  BY DEF Lost
<1>1. State(d) # "open" /\ State(d)' # "open"
  BY DEF AllAway
<1> QED
  BY <1>1, AwayStays

LEMMA NoticedIsNotLost ==
    ASSUME PresenceInv, NEW S \in SUBSET Devices, NEW d \in S, Notice(d)
    PROVE  d \notin Lost(S)'
<1>1. sockets'[d].state = "kept"
  BY ConnectionEffect
<1> QED
  BY <1>1 DEF Lost, State

\* A customer who is online with nobody there, and R still to be noticed.
Lingers(c, R) ==
    /\ IsCustomerOnline(c)
    /\ AllAway(DevicesOf(c))
    /\ Lost(DevicesOf(c)) = R

\* What comes of it: they are offline or back, or fewer are to be noticed.
NearerOffline(c, R) ==
    \/ ~IsCustomerOnline(c)
    \/ ~AllAway(DevicesOf(c))
    \/ Lost(DevicesOf(c)) \subseteq R /\ Lost(DevicesOf(c)) # R

LEMMA LingersNeedsLosses ==
    ASSUME PresenceInv, NEW c \in Customers, Lingers(c, {})
    PROVE  FALSE
<1>1. Connected(c) = {}
  BY DEF Connected, Lingers, AllAway, Lost, DevicesOf
<1>2. counts[c] = 0
  BY <1>1, FS_EmptySet DEF PresenceInv, Counted
<1> QED
  BY <1>2 DEF Lingers, IsCustomerOnline

\* A customer whose devices are all gone comes nearer to being offline with
\* every socket that is noticed, and never farther from it, for any number of
\* devices: each stage of OfflineIsNoticed leads to one with fewer lost sockets,
\* and with none of them left the customer is offline.
THEOREM OfflineComesNearer ==
    \A c \in Customers : \A R \in SUBSET Devices :
        Serving => (Lingers(c, R) ~> NearerOffline(c, R))
<1> SUFFICES ASSUME NEW c \in Customers, NEW R \in SUBSET Devices
             PROVE  Serving => (Lingers(c, R) ~> NearerOffline(c, R))
  OBVIOUS
<1>1. CASE R = {}
  <2>1. PresenceInv => ~Lingers(c, R)
    BY <1>1, LingersNeedsLosses
  <2> QED
    BY <2>1, PresenceInit, PresenceStep, PTL DEF Serving, FairSpec, Spec
<1>2. CASE R # {}
  <2> PICK d \in R : TRUE
    BY <1>2
  <2>1. PresenceInv /\ Lingers(c, R) /\ [Next]_vars => Lingers(c, R)' \/ NearerOffline(c, R)'
    <3> SUFFICES ASSUME PresenceInv, Lingers(c, R), [Next]_vars,
                        IsCustomerOnline(c)', AllAway(DevicesOf(c))'
                 PROVE  Lost(DevicesOf(c))' \subseteq R
      BY DEF Lingers, NearerOffline
    <3>1. DevicesOf(c) \in SUBSET Devices
      BY DEF DevicesOf
    <3> QED
      BY <3>1, LostOnlyShrink DEF Lingers
  <2>2. PresenceInv /\ Lingers(c, R) /\ <<Notice(d)>>_vars /\ [Next]_vars => NearerOffline(c, R)'
    <3> SUFFICES ASSUME PresenceInv, Lingers(c, R), Notice(d), [Next]_vars,
                        AllAway(DevicesOf(c))'
                 PROVE  Lost(DevicesOf(c))' \subseteq R /\ Lost(DevicesOf(c))' # R
      BY DEF NearerOffline
    <3>1. DevicesOf(c) \in SUBSET Devices /\ d \in DevicesOf(c)
      BY DEF DevicesOf, Lingers, Lost
    <3> QED
      BY <3>1, LostOnlyShrink, NoticedIsNotLost DEF Lingers
  <2>3. NothingOwedIsBlocked /\ Lingers(c, R) => ENABLED <<Notice(d)>>_vars
    BY DEF NothingOwedIsBlocked, Lingers, Lost
  <2>4. DevicesAreServed => DeviceFairness(d)
    BY DEF DevicesAreServed
  <2> QED
    BY <2>1, <2>2, <2>3, <2>4, PresenceInit, PresenceStep,
       PTL DEF Serving, FairSpec, Spec, Fairness, DeviceFairness
<1> QED
  BY <1>1, <1>2

\* A shutdown that waits with no app connected: R is to be noticed and E to be
\* announced, and n is how much was committed so far.
Waits(R, n, E) ==
    /\ process = "closing" /\ AllAway(Devices)
    /\ Lost(Devices) = R /\ Len(written) = n /\ pending = E

\* What comes of it: it is over, or an app is connected, or one of the handlers
\* it waits for has committed, or there is less to wait for.
NearerClosed(R, n, E) ==
    \/ process # "closing"
    \/ ~AllAway(Devices)
    \/ /\ Lost(Devices) \subseteq R
       /\ \/ Len(written) > n
          \/ /\ Len(written) = n
             /\ pending \subseteq E
             /\ Lost(Devices) # R \/ pending # E

\* Commits only grow in number, and what is pending only without one.
LEMMA CommitsOrShrinks ==
    ASSUME PresenceInv, [Next]_vars
    PROVE  \/ Len(written') > Len(written)
           \/ Len(written') = Len(written) /\ pending' \subseteq pending
<1>1. CASE \E t \in Threads, kind \in {"message", "update"} : Write(t, kind)
  <2>1. PICK t \in Threads, kind \in {"message", "update"} : Write(t, kind)
    BY <1>1
  <2>2. written \in Seq(Event) /\ [thread |-> t, kind |-> kind] \in Event
    BY DEF Event, PresenceInv, TypeOK
  <2>3. Len(written') = Len(written) + 1 /\ Len(written) \in Nat
    BY <2>1, <2>2 DEF Write
  <2> QED
    BY <2>3
<1>2. CASE UNCHANGED written
  <2>1. PresenceInv'
    BY PresenceStep
  <2>2. pending' \subseteq DOMAIN written'
    BY <2>1 DEF PresenceInv, TypeOK
  <2>3. \A e \in DOMAIN written : e \notin pending => e \notin pending'
    BY OldIsNotPending
  <2> QED
    BY <1>2, <2>2, <2>3
<1> QED
  BY <1>1, <1>2, OnlyWriteWrites

LEMMA WaitingStep ==
    ASSUME PresenceInv, [Next]_vars, NEW R, NEW n, NEW E, Waits(R, n, E)
    PROVE  Waits(R, n, E)' \/ NearerClosed(R, n, E)'
<1> SUFFICES ASSUME process' = "closing", AllAway(Devices)'
             PROVE  Waits(R, n, E)' \/ NearerClosed(R, n, E)'
  BY DEF NearerClosed
<1>1. Lost(Devices)' \subseteq R
  BY LostOnlyShrink DEF Waits
<1>2. \/ Len(written') > n
      \/ Len(written') = n /\ pending' \subseteq E
  BY CommitsOrShrinks DEF Waits
<1> QED
  BY <1>1, <1>2 DEF Waits, NearerClosed

\* A shutdown comes nearer to its end with every socket that is noticed and
\* every commit that is announced, for any number of both, and ends when there
\* are none: each stage of ClosesOnceLeft leads to the end, to one with less to
\* wait for, or to one more of the MaxEvents commits (server.close).
THEOREM ShutdownComesNearer ==
    \A R \in SUBSET Devices : \A n \in Nat : \A E \in SUBSET (1 .. MaxEvents) :
        Serving => (Waits(R, n, E) ~> NearerClosed(R, n, E))
<1> SUFFICES ASSUME NEW R \in SUBSET Devices, NEW n \in Nat,
                    NEW E \in SUBSET (1 .. MaxEvents)
             PROVE  Serving => (Waits(R, n, E) ~> NearerClosed(R, n, E))
  OBVIOUS
<1>1. PresenceInv /\ Waits(R, n, E) /\ [Next]_vars
          => Waits(R, n, E)' \/ NearerClosed(R, n, E)'
  BY WaitingStep
<1>2. CASE R # {}
  <2> PICK d \in R : TRUE
    BY <1>2
  <2>1. PresenceInv /\ Waits(R, n, E) /\ <<Notice(d)>>_vars /\ [Next]_vars
            => NearerClosed(R, n, E)'
    <3> SUFFICES ASSUME PresenceInv, Waits(R, n, E), Notice(d), [Next]_vars
                 PROVE  NearerClosed(R, n, E)'
      OBVIOUS
    <3>1. d \notin Lost(Devices)'
      BY NoticedIsNotLost
    <3>2. Waits(R, n, E)' => d \in Lost(Devices)'
      BY DEF Waits
    <3> QED
      BY <1>1, <3>1, <3>2
  <2>2. NothingOwedIsBlocked /\ Waits(R, n, E) => ENABLED <<Notice(d)>>_vars
    BY DEF NothingOwedIsBlocked, Waits, Lost
  <2>3. DevicesAreServed => DeviceFairness(d)
    BY DEF DevicesAreServed
  <2> QED
    BY <1>1, <2>1, <2>2, <2>3, PresenceInit, PresenceStep,
       PTL DEF Serving, FairSpec, Spec, Fairness, DeviceFairness
<1>3. CASE E # {}
  <2> PICK e \in E : TRUE
    BY <1>3
  <2>1. PresenceInv /\ Waits(R, n, E) /\ <<Announce(e)>>_vars /\ [Next]_vars
            => NearerClosed(R, n, E)'
    <3> SUFFICES ASSUME PresenceInv, Waits(R, n, E), Announce(e), [Next]_vars
                 PROVE  NearerClosed(R, n, E)'
      OBVIOUS
    <3>1. e \notin pending'
      BY DEF Announce
    <3>2. Waits(R, n, E)' => e \in pending'
      BY DEF Waits
    <3> QED
      BY <1>1, <3>1, <3>2
  <2>2. NothingOwedIsBlocked /\ Waits(R, n, E) => ENABLED <<Announce(e)>>_vars
    BY DEF NothingOwedIsBlocked, Waits
  <2>3. EventsAreAnnounced => EventFairness(e)
    BY DEF EventsAreAnnounced
  <2> QED
    BY <1>1, <2>1, <2>2, <2>3, PresenceInit, PresenceStep,
       PTL DEF Serving, FairSpec, Spec, Fairness, EventFairness
<1>4. CASE R = {} /\ E = {}
  <2>1. <<Exit>>_vars => NearerClosed(R, n, E)'
    BY DEF Exit, Vanish, NearerClosed
  <2>2. NothingOwedIsBlocked /\ Waits(R, n, E) => ENABLED <<Exit>>_vars
    BY <1>4 DEF NothingOwedIsBlocked, Waits, Lost, AllAway
  <2> QED
    BY <1>1, <2>1, <2>2, PresenceInit, PresenceStep,
       PTL DEF Serving, FairSpec, Spec, Fairness
<1> QED
  BY <1>2, <1>3, <1>4

=============================================================================
