--------------------------- MODULE CustomerProofs ---------------------------
(***************************************************************************)
(* What the parts around a customer keep for any customers, items, options,*)
(* accounts, places and requests: part by part, and at the end of any      *)
(* behaviour of Customer.                                                  *)
(***************************************************************************)
EXTENDS Customer, FiniteSetTheorems, SequenceTheorems, TLAPS

----------------------------------------------------------------------------
(* Rows *)

Row == Address \cup {Deleted}

\* What a step may rely on of the table.
LEMMA RowFacts ==
    ASSUME TypeOK
    PROVE  /\ Len(addresses) \in Nat
           /\ DOMAIN addresses = 1 .. Len(addresses)
           /\ addresses \in Seq(Row)
           /\ \A a \in DOMAIN addresses : addresses[a] \in Row
           /\ \A a \in Existing : a \in DOMAIN addresses /\ addresses[a] \in Address
BY DEF TypeOK, Existing, Row

LEMMA DeletedIsNoAddress ==
    /\ Deleted.owner \notin Customers
    /\ \A row \in Address : row.owner \in Customers /\ row.isDefault \in BOOLEAN
BY AddressesAssumption DEF Deleted, Address

\* A rewrite of the table row by row.
LEMMA RewrittenRows ==
    ASSUME TypeOK, NEW new, new = [a \in DOMAIN addresses |-> new[a]],
           \A a \in DOMAIN addresses : new[a] \in Row
    PROVE  new \in Seq(Row) /\ Len(new) = Len(addresses) /\ DOMAIN new = DOMAIN addresses
<1>1. new \in [1 .. Len(addresses) -> Row] /\ Len(addresses) \in Nat
  BY RowFacts
<1>2. new \in Seq(Row)
  BY <1>1
<1>3. DOMAIN new = 1 .. Len(new) /\ Len(new) \in Nat
  BY <1>2
<1> QED
  BY <1>1, <1>2, <1>3, RowFacts

\* ensureSingleDefault touches nothing but the flags of the customer's rows.
LEMMA ClearedRows ==
    ASSUME TypeOK, NEW u \in Customers, NEW spared, NEW new,
           new = SingleDefault(addresses, u, spared)
    PROVE  /\ new \in Seq(Row) /\ Len(new) = Len(addresses) /\ DOMAIN new = DOMAIN addresses
           /\ \A a \in DOMAIN addresses :
                 IF addresses[a].owner = u /\ a # spared
                 THEN new[a] = [owner |-> u, isDefault |-> FALSE]
                 ELSE new[a] = addresses[a]
<1>1. new = [a \in DOMAIN addresses |->
                IF addresses[a].owner = u /\ a # spared
                THEN [addresses[a] EXCEPT !.isDefault = FALSE] ELSE addresses[a]]
  BY DEF SingleDefault
<1>2. \A a \in DOMAIN addresses :
         IF addresses[a].owner = u /\ a # spared
         THEN new[a] = [owner |-> u, isDefault |-> FALSE]
         ELSE new[a] = addresses[a]
  <2> TAKE a \in DOMAIN addresses
  <2>1. CASE addresses[a].owner = u /\ a # spared
    <3>1. addresses[a] \in Address
      BY <2>1, RowFacts, DeletedIsNoAddress DEF Row
    <3> QED
      BY <1>1, <2>1, <3>1 DEF Address
  <2>2. CASE ~(addresses[a].owner = u /\ a # spared)
    BY <1>1, <2>2
  <2> QED
    BY <2>1, <2>2
<1>3. \A a \in DOMAIN addresses : new[a] \in Row
  <2>1. [owner |-> u, isDefault |-> FALSE] \in Row
    BY DEF Row, Address
  <2> QED
    BY <1>2, <2>1, RowFacts
<1>4. new = [a \in DOMAIN addresses |-> new[a]]
  BY <1>1
<1> QED
  BY <1>2, <1>3, <1>4, RewrittenRows

\* What the commits make of the table.
LEMMA CreatedRows ==
    ASSUME TypeOK, NEW r \in Requests, CommitCreate(r)
    PROVE  /\ addresses' \in Seq(Row)
           /\ DOMAIN addresses' = 1 .. Len(addresses) + 1
           /\ addresses'[Len(addresses) + 1] =
                 [owner |-> reqs[r].owner, isDefault |-> reqs[r].isDefault]
           /\ \A a \in DOMAIN addresses :
                 IF reqs[r].isDefault /\ addresses[a].owner = reqs[r].owner
                 THEN addresses'[a] = [owner |-> reqs[r].owner, isDefault |-> FALSE]
                 ELSE addresses'[a] = addresses[a]
<1> DEFINE q == reqs[r]
           new == [owner |-> q.owner, isDefault |-> q.isDefault]
           others == IF q.isDefault THEN SingleDefault(addresses, q.owner, NoAddress)
                                    ELSE addresses
<1>1. q.owner \in Customers /\ q.isDefault \in BOOLEAN
  BY DEF TypeOK, CommitCreate, Request, Idle
<1>2. new \in Row
  BY <1>1 DEF Row, Address
<1>3. /\ others \in Seq(Row) /\ Len(others) = Len(addresses)
      /\ \A a \in DOMAIN addresses :
            IF q.isDefault /\ addresses[a].owner = q.owner
            THEN others[a] = [owner |-> q.owner, isDefault |-> FALSE]
            ELSE others[a] = addresses[a]
  <2>1. CASE q.isDefault
    <3>1. \A a \in DOMAIN addresses : a # NoAddress
      BY RowFacts DEF NoAddress
    <3> QED
      BY <1>1, <2>1, <3>1, ClearedRows
  <2>2. CASE ~q.isDefault
    BY <2>2, RowFacts
  <2> QED
    BY <2>1, <2>2
<1>4. addresses' = Append(others, new)
  BY DEF CommitCreate
<1> HIDE DEF others, new
<1>5. /\ addresses' \in Seq(Row)
      /\ DOMAIN addresses' = 1 .. Len(others) + 1
      /\ addresses'[Len(others) + 1] = new
      /\ \A a \in 1 .. Len(others) : addresses'[a] = others[a]
  BY <1>2, <1>3, <1>4
<1> QED
  BY <1>3, <1>5, RowFacts DEF new

LEMMA UpdatedRows ==
    ASSUME TypeOK, NEW r \in Requests, CommitUpdate(r)
    PROVE  /\ addresses' \in Seq(Row)
           /\ DOMAIN addresses' = DOMAIN addresses
           /\ \A a \in DOMAIN addresses :
                 /\ a = reqs[r].id /\ a \in Existing =>
                       addresses'[a] =
                          [owner |-> addresses[a].owner,
                           isDefault |-> Saved(reqs[r].asked, reqs[r].seen,
                                               addresses[a].isDefault)]
                 /\ a # reqs[r].id =>
                       IF reqs[r].asked /\ addresses[a].owner = reqs[r].owner
                       THEN addresses'[a] = [owner |-> reqs[r].owner, isDefault |-> FALSE]
                       ELSE addresses'[a] = addresses[a]
                 /\ a \notin Existing => addresses'[a] = addresses[a]
<1> DEFINE q == reqs[r]
           others == IF q.asked THEN SingleDefault(addresses, q.owner, q.id)
                                ELSE addresses
           row == [owner |-> addresses[q.id].owner,
                   isDefault |-> Saved(q.asked, q.seen, addresses[q.id].isDefault)]
<1>1. q.owner \in Customers /\ q.asked \in BOOLEAN /\ q.seen \in BOOLEAN
  BY DEF TypeOK, CommitUpdate, Request, Idle
<1>2. /\ others \in Seq(Row) /\ Len(others) = Len(addresses) /\ DOMAIN others = DOMAIN addresses
      /\ \A a \in DOMAIN addresses :
            IF q.asked /\ addresses[a].owner = q.owner /\ a # q.id
            THEN others[a] = [owner |-> q.owner, isDefault |-> FALSE]
            ELSE others[a] = addresses[a]
  <2>1. CASE q.asked
    BY <1>1, <2>1, ClearedRows
  <2>2. CASE ~q.asked
    BY <2>2, RowFacts
  <2> QED
    BY <2>1, <2>2
<1>3. \A a \in DOMAIN addresses : a \notin Existing => addresses[a].owner \notin Customers
  BY DeletedIsNoAddress DEF Existing
<1>4. CASE q.id \in Existing
  <2>1. q.id \in DOMAIN others /\ addresses[q.id] \in Address /\ others[q.id] = addresses[q.id]
    BY <1>2, <1>4, RowFacts
  <2>2. addresses' = [others EXCEPT ![q.id].isDefault = Saved(q.asked, q.seen, @)]
    BY <1>4 DEF CommitUpdate
  <2>3. addresses' = [others EXCEPT ![q.id] = row]
    BY <2>1, <2>2 DEF Address
  <2>4. row \in Row
    BY <1>1, <2>1 DEF Row, Address, Saved
  <2> HIDE DEF others, row
  <2>5. /\ addresses' \in Seq(Row) /\ DOMAIN addresses' = DOMAIN others
        /\ addresses'[q.id] = row
        /\ \A a \in DOMAIN others : a # q.id => addresses'[a] = others[a]
    BY <1>2, <2>1, <2>3, <2>4, ExceptSeq
  <2> QED
    BY <1>1, <1>2, <1>3, <1>4, <2>5 DEF row
<1>5. CASE q.id \notin Existing
  <2>1. addresses' = others
    BY <1>5 DEF CommitUpdate
  <2> HIDE DEF others
  <2> QED
    BY <1>1, <1>2, <1>3, <1>5, <2>1
<1> QED
  BY <1>4, <1>5

LEMMA RemovedRows ==
    ASSUME TypeOK, NEW r \in Requests, CommitRemove(r)
    PROVE  /\ addresses' \in Seq(Row)
           /\ DOMAIN addresses' = DOMAIN addresses
           /\ \A a \in DOMAIN addresses :
                 IF a = reqs[r].id THEN addresses'[a] = Deleted
                 ELSE IF a = reqs[r].next /\ Promotes(reqs[r])
                 THEN addresses'[a] =
                         [owner |-> addresses[a].owner,
                          isDefault |-> Saved(TRUE, reqs[r].nextSeen, addresses[a].isDefault)]
                 ELSE addresses'[a] = addresses[a]
<1> DEFINE q == reqs[r]
<1>1. q.nextSeen \in BOOLEAN
  BY DEF TypeOK, CommitRemove, Request, Idle
<1>2. addresses' = [a \in DOMAIN addresses |->
                      IF a = q.id THEN Deleted
                      ELSE IF a = q.next /\ Promotes(q)
                           THEN [addresses[a] EXCEPT !.isDefault = Saved(TRUE, q.nextSeen, @)]
                      ELSE addresses[a]]
  BY DEF CommitRemove
<1>3. ASSUME NEW a \in DOMAIN addresses
      PROVE  /\ addresses'[a] \in Row
             /\ IF a = q.id THEN addresses'[a] = Deleted
                ELSE IF a = q.next /\ Promotes(q)
                THEN addresses'[a] =
                        [owner |-> addresses[a].owner,
                         isDefault |-> Saved(TRUE, q.nextSeen, addresses[a].isDefault)]
                ELSE addresses'[a] = addresses[a]
  <2>1. CASE a = q.id
    BY <1>2, <2>1 DEF Row
  <2>2. CASE a # q.id /\ a = q.next /\ Promotes(q)
    <3>1. addresses[a] \in Address
      BY <2>2, RowFacts DEF Promotes
    <3>2. addresses'[a] = [addresses[a] EXCEPT
                              !.isDefault = Saved(TRUE, q.nextSeen, addresses[a].isDefault)]
      BY <1>2, <2>2, <3>1 DEF Address
    <3>3. Saved(TRUE, q.nextSeen, addresses[a].isDefault) \in BOOLEAN
      BY <1>1, <3>1 DEF Saved, Address
    <3> QED
      BY <2>2, <3>1, <3>2, <3>3 DEF Row, Address
  <2>3. CASE a # q.id /\ ~(a = q.next /\ Promotes(q))
    BY <1>2, <2>3, RowFacts
  <2> QED
    BY <2>1, <2>2, <2>3
<1>4. addresses' = [a \in DOMAIN addresses |-> addresses'[a]]
  BY <1>2
<1>5. addresses' \in Seq(Row) /\ DOMAIN addresses' = DOMAIN addresses
  BY <1>3, <1>4, RewrittenRows
<1> QED
  BY <1>3, <1>5

----------------------------------------------------------------------------
(* Type correctness *)

\* No row goes but by deletion, none comes back, and none changes hands.
Kept(a) ==
    /\ a \in DOMAIN addresses'
    /\ addresses'[a] = Deleted \/ (addresses[a] # Deleted /\ addresses'[a].owner = addresses[a].owner)

\* A commit that keeps the rows keeps the types.
LEMMA CommitTypes ==
    ASSUME TypeOK, NEW r \in Requests, reqs' = [reqs EXCEPT ![r] = Idle],
           addresses' \in Seq(Row), \A a \in DOMAIN addresses : Kept(a)
    PROVE  TypeOK'
<1>1. reqs' \in [Requests -> Request]
  BY DEF TypeOK, Request
<1>2. Idle.stage \notin {"updating", "removing"}
  BY DEF Idle
<1>3. \A q \in Requests : q # r => reqs'[q] = reqs[q]
  BY DEF TypeOK
<1>4. reqs'[r] = Idle
  BY DEF TypeOK
<1>5. ASSUME NEW q \in Requests, reqs'[q].stage \in {"updating", "removing"}
      PROVE  /\ reqs'[q].id \in DOMAIN addresses'
             /\ addresses'[reqs'[q].id] = Deleted \/ addresses'[reqs'[q].id].owner = reqs'[q].owner
  <2>1. reqs'[q] = reqs[q]
    BY <1>2, <1>3, <1>4, <1>5
  <2>2. /\ reqs[q].id \in DOMAIN addresses
        /\ addresses[reqs[q].id] = Deleted \/ addresses[reqs[q].id].owner = reqs[q].owner
    BY <1>5, <2>1 DEF TypeOK
  <2> QED
    BY <2>1, <2>2 DEF Kept
<1> QED
  BY <1>1, <1>5 DEF TypeOK, Row

\* A request that only reads keeps the types when what it holds is its own.
LEMMA ReadTypes ==
    ASSUME TypeOK, NEW r \in Requests, NEW q \in Request, Become(r, q), UNCHANGED addresses,
           q.stage \in {"updating", "removing"} =>
              /\ q.id \in DOMAIN addresses
              /\ addresses[q.id] = Deleted \/ addresses[q.id].owner = q.owner
    PROVE  TypeOK'
<1>1. reqs' \in [Requests -> Request] /\ reqs'[r] = q
  BY DEF TypeOK, Become
<1>2. \A p \in Requests : p # r => reqs'[p] = reqs[p]
  BY DEF TypeOK, Become
<1> QED
  BY <1>1, <1>2 DEF TypeOK

LEMMA CommitKeeps ==
    ASSUME TypeOK, NEW r \in Requests, CommitCreate(r) \/ CommitUpdate(r) \/ CommitRemove(r)
    PROVE  /\ addresses' \in Seq(Row) /\ reqs' = [reqs EXCEPT ![r] = Idle]
           /\ \A a \in DOMAIN addresses : Kept(a)
<1>0. \A a \in DOMAIN addresses : addresses[a].owner \in Customers => addresses[a] # Deleted
  BY DeletedIsNoAddress
<1>1. ASSUME NEW a \in DOMAIN addresses, a \in DOMAIN addresses', addresses'[a] = addresses[a]
      PROVE  Kept(a)
  BY <1>1 DEF Kept
<1>2. ASSUME NEW a \in DOMAIN addresses, a \in DOMAIN addresses', NEW flag,
             addresses'[a] = [owner |-> addresses[a].owner, isDefault |-> flag],
             addresses[a] # Deleted
      PROVE  Kept(a)
  BY <1>2 DEF Kept
<1>3. CASE CommitCreate(r)
  <2>1. reqs[r].owner \in Customers
    BY <1>3 DEF TypeOK, CommitCreate, Request, Idle
  <2>2. ASSUME NEW a \in DOMAIN addresses PROVE Kept(a)
    <3>1. a \in DOMAIN addresses'
      <4>1. DOMAIN addresses' = 1 .. Len(addresses) + 1
        BY <1>3, CreatedRows
      <4> QED
        BY <4>1, RowFacts
    <3>2. CASE reqs[r].isDefault /\ addresses[a].owner = reqs[r].owner
      BY <1>0, <1>2, <1>3, <2>1, <3>1, <3>2, CreatedRows
    <3>3. CASE ~(reqs[r].isDefault /\ addresses[a].owner = reqs[r].owner)
      BY <1>1, <1>3, <3>1, <3>3, CreatedRows
    <3> QED
      BY <3>2, <3>3
  <2> QED
    BY <1>3, <2>2, CreatedRows DEF CommitCreate, Become
<1>4. CASE CommitUpdate(r)
  <2>1. reqs[r].owner \in Customers
    BY <1>4 DEF TypeOK, CommitUpdate, Request, Idle
  <2>2. ASSUME NEW a \in DOMAIN addresses PROVE Kept(a)
    <3>1. a \in DOMAIN addresses'
      BY <1>4, UpdatedRows
    <3>2. CASE a \notin Existing
      BY <1>1, <1>4, <3>1, <3>2, UpdatedRows
    <3>3. CASE a \in Existing /\ a = reqs[r].id
      <4>1. addresses[a] # Deleted
        BY <3>3 DEF Existing
      <4> QED
        <5>1. addresses'[a] = [owner |-> addresses[a].owner,
                               isDefault |-> Saved(reqs[r].asked, reqs[r].seen,
                                                   addresses[a].isDefault)]
          BY <1>4, <3>3, UpdatedRows
        <5> QED
          BY <1>2, <3>1, <4>1, <5>1
    <3>4. CASE a # reqs[r].id /\ reqs[r].asked /\ addresses[a].owner = reqs[r].owner
      <4>1. addresses'[a] = [owner |-> addresses[a].owner, isDefault |-> FALSE]
        BY <1>4, <3>4, UpdatedRows
      <4>2. addresses[a] # Deleted
        BY <1>0, <2>1, <3>4
      <4> QED
        BY <1>2, <3>1, <4>1, <4>2
    <3>5. CASE a # reqs[r].id /\ ~(reqs[r].asked /\ addresses[a].owner = reqs[r].owner)
      BY <1>1, <1>4, <3>1, <3>5, UpdatedRows
    <3> QED
      BY <3>2, <3>3, <3>4, <3>5
  <2> QED
    BY <1>4, <2>2, UpdatedRows DEF CommitUpdate, Become
<1>5. CASE CommitRemove(r)
  <2>1. ASSUME NEW a \in DOMAIN addresses PROVE Kept(a)
    <3>1. a \in DOMAIN addresses'
      BY <1>5, RemovedRows
    <3>2. CASE a = reqs[r].id
      BY <1>5, <3>1, <3>2, RemovedRows DEF Kept
    <3>3. CASE a # reqs[r].id /\ a = reqs[r].next /\ Promotes(reqs[r])
      <4>1. addresses[a] # Deleted
        BY <3>3 DEF Promotes, Existing
      <4> QED
        BY <1>2, <1>5, <3>1, <3>3, <4>1, RemovedRows
    <3>4. CASE a # reqs[r].id /\ ~(a = reqs[r].next /\ Promotes(reqs[r]))
      BY <1>1, <1>5, <3>1, <3>4, RemovedRows
    <3> QED
      BY <3>2, <3>3, <3>4
  <2> QED
    BY <1>5, <2>1, RemovedRows DEF CommitRemove, Become
<1> QED
  BY <1>3, <1>4, <1>5

LEMMA TypeStep == TypeOK /\ [Next]_vars => TypeOK'
<1> SUFFICES ASSUME TypeOK, [Next]_vars PROVE TypeOK'
  OBVIOUS
<1>1. ASSUME NEW r \in Requests, NEW u \in Customers, NEW asked \in BOOLEAN, Create(r, u, asked)
      PROVE  TypeOK'
  <2> DEFINE q == [stage |-> "creating", owner |-> u,
                   isDefault |-> asked \/ AddressesOf(u) = {}]
  <2>1. q \in Request /\ q.stage \notin {"updating", "removing"}
    BY DEF Request
  <2>2. Become(r, q) /\ UNCHANGED addresses
    BY <1>1 DEF Create
  <2> QED
    BY <2>1, <2>2, ReadTypes
<1>2. ASSUME NEW r \in Requests, CommitCreate(r) \/ CommitUpdate(r) \/ CommitRemove(r)
      PROVE  TypeOK'
  BY <1>2, CommitKeeps, CommitTypes
<1>3. ASSUME NEW r \in Requests, NEW a \in Existing, NEW asked \in BOOLEAN, Update(r, a, asked)
      PROVE  TypeOK'
  <2> DEFINE q == [stage |-> "updating", owner |-> addresses[a].owner, id |-> a,
                   seen |-> addresses[a].isDefault, asked |-> asked]
  <2>1. a \in Nat \ {0} /\ a \in DOMAIN addresses /\ addresses[a] \in Address
    BY RowFacts
  <2>2. q \in Request /\ q.id = a /\ q.owner = addresses[a].owner
    BY <2>1 DEF Request, Address
  <2>3. Become(r, q) /\ UNCHANGED addresses
    BY <1>3 DEF Update
  <2> HIDE DEF q
  <2> QED
    BY <2>1, <2>2, <2>3, ReadTypes
<1>4. ASSUME NEW r \in Requests, NEW a \in Existing, Remove(r, a)
      PROVE  TypeOK'
  <2>1. PICK next \in Existing \cup {NoAddress} :
            /\ Become(r, [stage |-> "removing", owner |-> addresses[a].owner, id |-> a,
                          seen |-> addresses[a].isDefault, next |-> next,
                          nextSeen |-> next # NoAddress /\ addresses[next].isDefault])
            /\ UNCHANGED addresses
    BY <1>4 DEF Remove
  <2> DEFINE q == [stage |-> "removing", owner |-> addresses[a].owner, id |-> a,
                   seen |-> addresses[a].isDefault, next |-> next,
                   nextSeen |-> next # NoAddress /\ addresses[next].isDefault]
  <2>2. /\ a \in Nat \ {0} /\ a \in DOMAIN addresses /\ addresses[a] \in Address
        /\ next \in Nat
    BY <2>1, RowFacts DEF NoAddress
  <2>3. q \in Request /\ q.id = a /\ q.owner = addresses[a].owner
    BY <2>2 DEF Request, Address
  <2>4. Become(r, q) /\ UNCHANGED addresses
    BY <2>1
  <2> HIDE DEF q
  <2> QED
    BY <2>2, <2>3, <2>4, ReadTypes
<1>5. ASSUME NEW r \in Requests, Fail(r)
      PROVE  TypeOK'
  <2>1. Idle \in Request /\ Idle.stage \notin {"updating", "removing"}
    BY DEF Request, Idle
  <2> QED
    BY <1>5, <2>1, ReadTypes DEF Fail
<1>6. CASE UNCHANGED vars
  BY <1>6 DEF vars, TypeOK
<1> QED
  BY <1>1, <1>2, <1>3, <1>4, <1>5, <1>6 DEF Next, Handle

LEMMA TypeInit == Init => TypeOK
BY DEF Init, TypeOK, Request, Idle

\* Rows and requests keep their types, and every request points at rows of its
\* own customer, for any customers and any number of requests.
THEOREM TypeCorrect == Spec => []TypeOK
BY TypeInit, TypeStep, PTL DEF Spec


----------------------------------------------------------------------------
(* The default, as long as requests take turns *)

\* What a request in flight holds is still what the table says.
Honest(r) ==
    LET q == reqs[r] IN
    /\ q.stage \in {"updating", "removing"} =>
          /\ q.id \in Existing
          /\ addresses[q.id].owner = q.owner
          /\ addresses[q.id].isDefault = q.seen
    /\ q.stage = "removing" =>
          IF q.next = NoAddress THEN AddressesOf(q.owner) \subseteq {q.id}
          ELSE /\ q.next \in AddressesOf(q.owner) \ {q.id}
               /\ addresses[q.next].isDefault = q.nextSeen

OneDefault == \A u \in Customers : \A a, b \in Defaults(u) : a = b

TurnInv ==
    /\ TypeOK
    /\ ~overlapped => OneDefault /\ \A r \in Requests : Honest(r)

LEMMA DefaultRow ==
    /\ \A u \in Customers : \A a \in DOMAIN addresses :
          a \in AddressesOf(u) <=> addresses[a].owner = u
    /\ \A u \in Customers : \A a :
          a \in Defaults(u) <=> /\ a \in DOMAIN addresses
                               /\ addresses[a].owner = u
                               /\ addresses[a].isDefault
    /\ \A u \in Customers : \A a :
          a \in Defaults(u)' <=> /\ a \in DOMAIN addresses'
                                /\ addresses'[a].owner = u
                                /\ addresses'[a].isDefault
BY DeletedIsNoAddress DEF Defaults, AddressesOf, Existing

\* One who saves an address as the default takes it from all the others.
LEMMA CreateInTurn ==
    ASSUME TypeOK, OneDefault, NEW r \in Requests, CommitCreate(r)
    PROVE  /\ OneDefault'
           /\ \A u \in Customers : Defaults(u) # {} => Defaults(u)' # {}
<1> DEFINE q == reqs[r]
           top == Len(addresses) + 1
<1>1. q.owner \in Customers /\ q.isDefault \in BOOLEAN
  BY DEF TypeOK, CommitCreate, Request, Idle
<1>2. top \notin DOMAIN addresses /\ DOMAIN addresses' = DOMAIN addresses \cup {top}
  <2>1. DOMAIN addresses' = 1 .. Len(addresses) + 1
    BY CreatedRows
  <2> QED
    BY <2>1, RowFacts
<1>3. addresses'[top] = [owner |-> q.owner, isDefault |-> q.isDefault]
  BY CreatedRows
<1>4. \A a \in DOMAIN addresses :
         IF q.isDefault /\ addresses[a].owner = q.owner
         THEN addresses'[a] = [owner |-> q.owner, isDefault |-> FALSE]
         ELSE addresses'[a] = addresses[a]
  BY CreatedRows
<1> HIDE DEF q, top
<1>5. ASSUME NEW u \in Customers
      PROVE  Defaults(u)' = IF q.isDefault /\ u = q.owner THEN {top} ELSE Defaults(u)
  <2>1. ASSUME NEW a \in DOMAIN addresses, ~(q.isDefault /\ u = q.owner)
        PROVE  a \in Defaults(u)' <=> a \in Defaults(u)
    BY <1>2, <1>4, <2>1, DefaultRow
  <2>2. ASSUME NEW a \in DOMAIN addresses, q.isDefault /\ u = q.owner
        PROVE  a \notin Defaults(u)'
    BY <1>2, <1>4, <2>2, DefaultRow
  <2>3. top \in Defaults(u)' <=> q.isDefault /\ u = q.owner
    BY <1>2, <1>3, DefaultRow
  <2>4. Defaults(u) \subseteq DOMAIN addresses /\ Defaults(u)' \subseteq DOMAIN addresses \cup {top}
    BY <1>2, DefaultRow
  <2> QED
    BY <1>2, <2>1, <2>2, <2>3, <2>4
<1> QED
  BY <1>5 DEF OneDefault

LEMMA UpdateInTurn ==
    ASSUME TypeOK, OneDefault, NEW r \in Requests, CommitUpdate(r), Honest(r)
    PROVE  /\ OneDefault'
           /\ \A u \in Customers :
                 Defaults(u) # {} /\ Defaults(u)' = {} => ~reqs[r].asked
<1> DEFINE q == reqs[r]
<1>1. q.owner \in Customers /\ q.asked \in BOOLEAN /\ q.seen \in BOOLEAN
  BY DEF TypeOK, CommitUpdate, Request, Idle
<1>2. /\ q.id \in Existing /\ q.id \in DOMAIN addresses
      /\ addresses[q.id].owner = q.owner /\ addresses[q.id].isDefault = q.seen
  BY DEF Honest, CommitUpdate, Existing
<1>3. DOMAIN addresses' = DOMAIN addresses
  BY UpdatedRows
<1>4. addresses'[q.id] = [owner |-> q.owner, isDefault |-> q.asked]
  <2>1. Saved(q.asked, q.seen, addresses[q.id].isDefault) = q.asked
    BY <1>2 DEF Saved
  <2>2. addresses'[q.id] =
          [owner |-> addresses[q.id].owner,
           isDefault |-> Saved(q.asked, q.seen, addresses[q.id].isDefault)]
    BY <1>2, UpdatedRows
  <2> QED
    BY <1>2, <2>1, <2>2
<1>5. \A a \in DOMAIN addresses : a # q.id =>
         IF q.asked /\ addresses[a].owner = q.owner
         THEN addresses'[a] = [owner |-> q.owner, isDefault |-> FALSE]
         ELSE addresses'[a] = addresses[a]
  BY UpdatedRows
<1> HIDE DEF q
<1>6. ASSUME NEW u \in Customers
      PROVE  Defaults(u)' = IF u # q.owner THEN Defaults(u)
                            ELSE IF q.asked THEN {q.id} ELSE Defaults(u) \ {q.id}
  <2>1. ASSUME NEW a \in DOMAIN addresses, a # q.id, ~(q.asked /\ u = q.owner)
        PROVE  a \in Defaults(u)' <=> a \in Defaults(u)
    BY <1>3, <1>5, <2>1, DefaultRow
  <2>2. ASSUME NEW a \in DOMAIN addresses, a # q.id, q.asked /\ u = q.owner
        PROVE  a \notin Defaults(u)'
    BY <1>3, <1>5, <2>2, DefaultRow
  <2>3. q.id \in Defaults(u)' <=> q.asked /\ u = q.owner
    BY <1>2, <1>3, <1>4, DefaultRow
  <2>4. q.id \in Defaults(u) => u = q.owner
    BY <1>2, DefaultRow
  <2>5. Defaults(u) \subseteq DOMAIN addresses /\ Defaults(u)' \subseteq DOMAIN addresses
    BY <1>3, DefaultRow
  <2> QED
    BY <1>2, <2>1, <2>2, <2>3, <2>4, <2>5
<1>7. ASSUME NEW u \in Customers, Defaults(u) # {}, Defaults(u)' = {}
      PROVE  ~q.asked
  BY <1>6, <1>7
<1> QED
  BY <1>6, <1>7 DEF OneDefault, q

LEMMA RemoveInTurn ==
    ASSUME TypeOK, OneDefault, NEW r \in Requests, CommitRemove(r), Honest(r)
    PROVE  /\ OneDefault'
           /\ \A u \in Customers :
                 Defaults(u) # {} /\ Defaults(u)' = {} => AddressesOf(u)' = {}
<1> DEFINE q == reqs[r]
<1>1. q.owner \in Customers /\ q.seen \in BOOLEAN /\ q.nextSeen \in BOOLEAN
  BY DEF TypeOK, CommitRemove, Request, Idle
<1>2. /\ q.id \in DOMAIN addresses
      /\ addresses[q.id].owner = q.owner /\ addresses[q.id].isDefault = q.seen
  BY DEF Honest, CommitRemove, Existing
<1>3. DOMAIN addresses' = DOMAIN addresses
  BY RemovedRows
<1>4. addresses'[q.id].owner \notin Customers
  BY <1>2, RemovedRows, DeletedIsNoAddress
<1>5. \A a \in DOMAIN addresses : a # q.id =>
         IF a = q.next /\ Promotes(q)
         THEN addresses'[a] = [owner |-> addresses[a].owner,
                               isDefault |-> Saved(TRUE, q.nextSeen, addresses[a].isDefault)]
         ELSE addresses'[a] = addresses[a]
  BY RemovedRows
<1>6. CASE Promotes(q)
  <2>1. /\ q.seen /\ q.next # q.id /\ q.next \in DOMAIN addresses
        /\ addresses[q.next].owner = q.owner /\ addresses[q.next].isDefault = q.nextSeen
    <3>1. q.next # NoAddress
      BY <1>6, RowFacts DEF Promotes, NoAddress
    <3>2. q.next \in AddressesOf(q.owner) \ {q.id} /\ addresses[q.next].isDefault = q.nextSeen
      BY <3>1 DEF Honest, CommitRemove
    <3> QED
      BY <1>6, <3>2 DEF Promotes, AddressesOf, Existing
  <2>2. addresses'[q.next] = [owner |-> q.owner, isDefault |-> TRUE]
    BY <1>1, <1>5, <1>6, <2>1 DEF Saved
  <2>3. q.id \in Defaults(q.owner)
    BY <1>1, <1>2, <2>1, DefaultRow
  <2> HIDE DEF q
  <2>4. ASSUME NEW u \in Customers, NEW a \in DOMAIN addresses, a # q.id, a # q.next
        PROVE  a \in Defaults(u)' <=> a \in Defaults(u)
    <3>1. addresses'[a] = addresses[a]
      BY <1>5, <2>4
    <3> QED
      BY <1>3, <3>1, DefaultRow
  <2>5. \A u \in Customers : q.id \notin Defaults(u)'
    BY <1>4, DefaultRow
  <2>6. \A u \in Customers : q.next \in Defaults(u)' <=> u = q.owner
    BY <1>1, <1>3, <2>1, <2>2, DefaultRow
  <2>7. \A u \in Customers : Defaults(u) \subseteq DOMAIN addresses
                            /\ Defaults(u)' \subseteq DOMAIN addresses
    BY <1>3, DefaultRow
  <2>8. ASSUME NEW u \in Customers, u = q.owner
        PROVE  /\ \A a \in Defaults(u)' : a = q.next
               /\ q.next \in Defaults(u)'
    <3>1. \A a \in Defaults(u) : a = q.id
      BY <2>3, <2>8 DEF OneDefault
    <3>2. \A a \in Defaults(u)' : a = q.next
      BY <2>4, <2>5, <2>7, <3>1
    <3> QED
      BY <2>6, <2>8, <3>2
  <2>9. ASSUME NEW u \in Customers, u # q.owner PROVE Defaults(u)' = Defaults(u)
    <3>1. q.id \notin Defaults(u) /\ q.next \notin Defaults(u)
      BY <1>2, <2>1, <2>9, DefaultRow
    <3> QED
      BY <2>4, <2>5, <2>6, <2>7, <2>9, <3>1
  <2>10. ASSUME NEW u \in Customers
         PROVE  /\ \A a, b \in Defaults(u)' : a = b
                /\ Defaults(u) # {} => Defaults(u)' # {}
    <3>1. CASE u = q.owner
      <4>1. \A a, b \in Defaults(u)' : a = b
        BY <2>8, <3>1
      <4>2. Defaults(u)' # {}
        BY <2>8, <3>1
      <4> QED
        BY <4>1, <4>2
    <3>2. CASE u # q.owner
      BY <2>9, <3>2 DEF OneDefault
    <3> QED
      BY <3>1, <3>2
  <2> QED
    BY <2>10 DEF OneDefault
<1>7. CASE ~Promotes(q)
  <2>1. ASSUME NEW u \in Customers PROVE Defaults(u)' = Defaults(u) \ {q.id}
    <3>1. ASSUME NEW a \in DOMAIN addresses, a # q.id
          PROVE  a \in Defaults(u)' <=> a \in Defaults(u)
      BY <1>3, <1>5, <1>7, <3>1, DefaultRow
    <3>2. q.id \notin Defaults(u)'
      BY <1>4, DefaultRow
    <3>3. Defaults(u) \subseteq DOMAIN addresses /\ Defaults(u)' \subseteq DOMAIN addresses
      BY <1>3, DefaultRow
    <3> QED
      BY <3>1, <3>2, <3>3
  <2>2. ASSUME NEW u \in Customers, Defaults(u) # {}, Defaults(u)' = {}
        PROVE  AddressesOf(u)' = {}
    <3>1. q.id \in Defaults(u)
      BY <2>1, <2>2
    <3>2. u = q.owner /\ q.seen
      BY <1>2, <3>1, DefaultRow
    <3>3. q.next \notin Existing
      BY <1>7, <3>2 DEF Promotes
    <3>4. AddressesOf(q.owner) \subseteq {q.id}
      BY <3>3 DEF Honest, CommitRemove, AddressesOf
    <3>5. ASSUME NEW a \in DOMAIN addresses, a # q.id PROVE addresses'[a].owner # u
      <4>1. a \notin AddressesOf(u)
        BY <3>2, <3>4, <3>5
      <4>2. addresses'[a] = addresses[a]
        BY <1>5, <1>7, <3>5
      <4> QED
        BY <4>1, <4>2, DefaultRow
    <3> QED
      BY <1>3, <1>4, <3>5 DEF AddressesOf, Existing
  <2> QED
    BY <2>1, <2>2 DEF OneDefault, q
<1> QED
  BY <1>6, <1>7


\* A request that is idle holds nothing, so nothing can have gone stale.
LEMMA IdleIsHonest == \A r \in Requests : reqs'[r] = Idle => Honest(r)'
BY DEF Honest, Idle

\* A request that only reads leaves the others' word, and gives its own.
LEMMA ReadInTurn ==
    ASSUME TypeOK, OneDefault, NEW r \in Requests, Alone(r), UNCHANGED addresses, NEW q,
           Become(r, q), Honest(r)'
    PROVE  /\ OneDefault' /\ \A p \in Requests : Honest(p)'
           /\ \A u \in Customers : Defaults(u)' = Defaults(u)
<1>1. \A p \in Requests \ {r} : reqs'[p] = Idle
  BY DEF Alone, Become, TypeOK
<1>2. \A p \in Requests : Honest(p)'
  BY <1>1, IdleIsHonest
<1>3. \A u \in Customers : Defaults(u)' = Defaults(u)
  BY DEF Defaults, AddressesOf, Existing
<1> QED
  BY <1>2, <1>3 DEF OneDefault

\* A commit leaves nobody in flight.
LEMMA CommitIsHonest ==
    ASSUME TypeOK, NEW r \in Requests, Alone(r), Become(r, Idle)
    PROVE  \A p \in Requests : Honest(p)'
<1>1. \A p \in Requests : reqs'[p] = Idle
  BY DEF Alone, Become, TypeOK
<1> QED
  BY <1>1, IdleIsHonest

\* One step of a request that nobody overlaps.
LEMMA HandleInTurn ==
    ASSUME TypeOK, OneDefault, NEW r \in Requests, Honest(r), Alone(r), Handle(r)
    PROVE  /\ OneDefault' /\ \A p \in Requests : Honest(p)'
           /\ \A u \in Customers :
                 Defaults(u) # {} /\ Defaults(u)' = {} =>
                    \/ AddressesOf(u)' = {}
                    \/ reqs[r].stage = "updating" /\ ~reqs[r].asked
<1>1. ASSUME NEW u \in Customers, NEW asked \in BOOLEAN, Create(r, u, asked)
      PROVE  Honest(r)'
  <2>1. reqs'[r].stage = "creating"
    BY <1>1 DEF Create, Become, TypeOK
  <2> QED
    BY <2>1 DEF Honest
<1>2. ASSUME NEW a \in Existing, NEW asked \in BOOLEAN, Update(r, a, asked)
      PROVE  Honest(r)'
  <2>1. reqs'[r] = [stage |-> "updating", owner |-> addresses[a].owner, id |-> a,
                    seen |-> addresses[a].isDefault, asked |-> asked]
    BY <1>2 DEF Update, Become, TypeOK
  <2>2. addresses' = addresses
    BY <1>2 DEF Update
  <2> QED
    BY <2>1, <2>2 DEF Honest, Existing
<1>3. ASSUME NEW a \in Existing, Remove(r, a)
      PROVE  Honest(r)'
  <2>1. PICK next \in Existing \cup {NoAddress} :
            /\ IsNextOf(next, a)
            /\ Become(r, [stage |-> "removing", owner |-> addresses[a].owner, id |-> a,
                          seen |-> addresses[a].isDefault, next |-> next,
                          nextSeen |-> next # NoAddress /\ addresses[next].isDefault])
            /\ UNCHANGED addresses
    BY <1>3 DEF Remove
  <2>2. reqs'[r] = [stage |-> "removing", owner |-> addresses[a].owner, id |-> a,
                    seen |-> addresses[a].isDefault, next |-> next,
                    nextSeen |-> next # NoAddress /\ addresses[next].isDefault]
    BY <2>1 DEF Become, TypeOK
  <2>3. IF next = NoAddress THEN AddressesOf(addresses[a].owner) \subseteq {a}
        ELSE /\ next \in AddressesOf(addresses[a].owner) \ {a}
             /\ addresses[next].isDefault \in BOOLEAN
    <3>1. \A b \in AddressesOf(addresses[a].owner) : b # NoAddress /\ addresses[b] \in Address
      BY RowFacts DEF AddressesOf, NoAddress
    <3> QED
      BY <2>1, <3>1, DeletedIsNoAddress DEF IsNextOf
  <2>4. addresses' = addresses
    BY <2>1
  <2>5. /\ reqs'[r].stage = "removing" /\ reqs'[r].id = a /\ reqs'[r].next = next
        /\ reqs'[r].owner = addresses[a].owner /\ reqs'[r].seen = addresses[a].isDefault
        /\ next # NoAddress => reqs'[r].nextSeen = addresses[next].isDefault
    BY <2>2, <2>3
  <2> QED
    BY <2>3, <2>4, <2>5 DEF Honest, AddressesOf, Existing
<1>4. CASE \/ \E u \in Customers, asked \in BOOLEAN : Create(r, u, asked)
           \/ \E a \in Existing, asked \in BOOLEAN : Update(r, a, asked)
           \/ \E a \in Existing : Remove(r, a)
           \/ Fail(r)
  <2>1. Honest(r)'
    <3>1. Fail(r) => reqs'[r] = Idle
      BY DEF Fail, Become, TypeOK
    <3> QED
      BY <1>1, <1>2, <1>3, <1>4, <3>1, IdleIsHonest
  <2>2. UNCHANGED addresses /\ \E q : Become(r, q)
    BY <1>4 DEF Create, Update, Remove, Fail
  <2> QED
    BY <2>1, <2>2, ReadInTurn
<1>5. CASE CommitCreate(r)
  BY <1>5, CreateInTurn, CommitIsHonest DEF CommitCreate
<1>6. CASE CommitUpdate(r)
  <2>1. reqs[r].stage = "updating" /\ Become(r, Idle)
    BY <1>6 DEF CommitUpdate
  <2> QED
    BY <1>6, <2>1, UpdateInTurn, CommitIsHonest
<1>7. CASE CommitRemove(r)
  BY <1>7, RemoveInTurn, CommitIsHonest DEF CommitRemove
<1> QED
  BY <1>4, <1>5, <1>6, <1>7 DEF Handle

LEMMA TurnStart == TurnInit => TurnInv
<1> SUFFICES ASSUME TurnInit PROVE TurnInv
  OBVIOUS
<1>1. TypeOK
  BY TypeInit DEF TurnInit
<1>2. \A u \in Customers : Defaults(u) = {}
  BY DEF TurnInit, Init, Defaults, AddressesOf, Existing
<1>3. \A r \in Requests : Honest(r)
  BY DEF TurnInit, Init, Honest, Idle
<1> QED
  BY <1>1, <1>2, <1>3 DEF TurnInv, OneDefault

\* What is promised of one step while requests take turns.
PassesOn ==
    ~overlapped' => \A u \in Customers :
        Defaults(u) # {} /\ Defaults(u)' = {} =>
            \/ AddressesOf(u)' = {}
            \/ \E r \in Requests : reqs[r].stage = "updating" /\ ~reqs[r].asked

LEMMA TurnStep == TurnInv /\ [TurnNext]_turnVars => TurnInv' /\ [PassesOn]_turnVars
<1> SUFFICES ASSUME TurnInv, [TurnNext]_turnVars PROVE TurnInv' /\ [PassesOn]_turnVars
  OBVIOUS
<1>1. TypeOK'
  <2>1. [Next]_vars
    BY DEF TurnNext, Next, turnVars, vars
  <2> QED
    BY <2>1, TypeStep DEF TurnInv
<1>2. CASE TurnNext
  <2>1. PICK r \in Requests : Handle(r) /\ overlapped' = (overlapped \/ ~Alone(r))
    BY <1>2 DEF TurnNext
  <2>2. CASE overlapped'
    BY <1>1, <2>2 DEF TurnInv, PassesOn
  <2>3. CASE ~overlapped'
    <3>1. ~overlapped /\ Alone(r)
      BY <2>1, <2>3
    <3>2. TypeOK /\ OneDefault /\ Honest(r)
      BY <3>1 DEF TurnInv
    <3> QED
      BY <1>1, <2>1, <3>1, <3>2, HandleInTurn DEF TurnInv, PassesOn
  <2> QED
    BY <2>2, <2>3
<1>3. CASE UNCHANGED turnVars
  BY <1>1, <1>3 DEF TurnInv, turnVars, vars, OneDefault, Honest, Defaults, AddressesOf, Existing
<1> QED
  BY <1>2, <1>3

\* A customer has one default address at most as long as requests take turns:
\* ensureSingleDefault keeps its word, removal and promotion included.
THEOREM OneDefaultInTurn == TurnSpec => []SingleDefaultInTurn
<1>1. TurnInv => SingleDefaultInTurn
  BY DEF TurnInv, OneDefault, SingleDefaultInTurn
<1> QED
  BY TurnStart, TurnStep, <1>1, PTL DEF TurnSpec

\* As long as requests take turns, a customer with a default loses it only with
\* the last address, or by switching it off.
THEOREM DefaultIsPassedOn == TurnSpec => DefaultPassesOnInTurn
<1>1. [][PassesOn]_turnVars => DefaultPassesOnInTurn
  BY PTL DEF DefaultPassesOnInTurn, PassesOn
<1> QED
  BY TurnStart, TurnStep, <1>1, PTL DEF TurnSpec

----------------------------------------------------------------------------
(* The wishlist *)

Burst == [was : BOOLEAN, together : BOOLEAN, wrote : BOOLEAN, answers : SUBSET BOOLEAN]

\* What the unique index and the deletion by id keep of the rows.
RowsAreSound ==
    /\ \A v, w \in rows : v.item = w.item => v = w
    /\ \A r \in ToggleRequests : toggleReqs[r].stage = "remove" =>
          \A w \in rows : w.id = toggleReqs[r].id => w.item = toggleReqs[r].item

\* What the taps in flight know as long as they all looked before one wrote.
TapsAgree(i) ==
    burst[i].together => \A r \in Hearts!Taps(i) :
        /\ toggleReqs[r].stage = "remove" <=> burst[i].was
        /\ toggleReqs[r].stage = "remove" =>
              (burst[i].wrote <=> \A w \in rows : w.id # toggleReqs[r].id)

\* The heart before and after the first write of a burst.
BurstIsSound(i) ==
    /\ ~burst[i].wrote => /\ burst[i].together
                          /\ burst[i].answers = {}
                          /\ Hearts!Heart(i) <=> burst[i].was
    /\ burst[i].wrote /\ burst[i].together =>
          /\ Hearts!Heart(i) <=> ~burst[i].was
          /\ burst[i].answers = {~burst[i].was}

HeartsInv ==
    /\ Hearts!TypeOK
    /\ burst \in [Items -> Burst]
    /\ RowsAreSound
    /\ \A i \in Items : TapsAgree(i) /\ BurstIsSound(i)

HeartStages == {"idle", "check", "add", "remove"}

\* What the kinds of requests tell apart.
LEMMA HeartsFacts ==
    ASSUME Hearts!TypeOK, NEW r \in ToggleRequests
    PROVE  /\ toggleReqs[r].stage \in HeartStages
           /\ toggleReqs[r] = Hearts!Idle <=> toggleReqs[r].stage = "idle"
           /\ toggleReqs[r] # Hearts!Idle => toggleReqs[r].item \in Items
           /\ toggleReqs[r].stage = "remove" => toggleReqs[r].id \in 1 .. hearts
           /\ toggleReqs[r].stage = "check" =>
                 toggleReqs[r] = [stage |-> "check", item |-> toggleReqs[r].item]
BY DEF Hearts!TypeOK, Hearts!Idle, HeartStages

\* The heart is a yes or a no.
LEMMA HeartIsBoolean == \A i : Hearts!Heart(i) \in BOOLEAN
BY DEF Hearts!Heart

LEMMA HeartsInit == Hearts!Init => HeartsInv
<1> SUFFICES ASSUME Hearts!Init PROVE HeartsInv
  OBVIOUS
<1>1. Hearts!TypeOK
  BY HeartsAssumption DEF Hearts!Init, Hearts!TypeOK, Hearts!Idle
<1>2. \A i \in Items : ~Hearts!Heart(i)
  BY DEF Hearts!Init, Hearts!Heart
<1>3. \A i \in Items : burst[i] = [was |-> FALSE, together |-> TRUE, wrote |-> FALSE, answers |-> {}]
  BY <1>2, HeartIsBoolean DEF Hearts!Init, Hearts!Quiet
<1>4. burst \in [Items -> Burst]
  <2>1. [was |-> FALSE, together |-> TRUE, wrote |-> FALSE, answers |-> {}] \in Burst
    BY DEF Burst
  <2> QED
    BY <1>3, <2>1 DEF Hearts!Init
<1>5. RowsAreSound
  BY DEF Hearts!Init, RowsAreSound
<1>6. ASSUME NEW i \in Items PROVE TapsAgree(i) /\ BurstIsSound(i)
  BY <1>2, <1>3 DEF Hearts!Init, Hearts!Taps, TapsAgree, BurstIsSound, Hearts!Idle
<1> QED
  BY <1>1, <1>4, <1>5, <1>6 DEF HeartsInv

\* A tap looks: what it finds is what the others of its burst found.
LEMMA ToggleKeeps ==
    ASSUME HeartsInv, NEW r \in ToggleRequests, NEW i \in Items, Hearts!Toggle(r, i)
    PROVE  HeartsInv'
<1> DEFINE b == IF Hearts!Taps(i) = {} THEN Hearts!Quiet(i) ELSE burst[i]
<1> USE DEF HeartsInv
<1>1. /\ toggleReqs[r] = Hearts!Idle
      /\ burst' = [burst EXCEPT ![i] = [b EXCEPT !.together = @ /\ ~b.wrote]]
      /\ UNCHANGED <<rows, hearts, public>>
  BY DEF Hearts!Toggle
<1>2. PICK q :
          /\ toggleReqs' = [toggleReqs EXCEPT ![r] = q]
          /\ \/ /\ \E w \in rows : w.item = i /\ q = [stage |-> "remove", item |-> i, id |-> w.id]
                /\ Hearts!Heart(i)
             \/ /\ q = [stage |-> "check", item |-> i]
                /\ ~Hearts!Heart(i)
  BY DEF Hearts!Toggle, Hearts!Heart
<1>3. /\ q.item = i /\ q.stage \in {"remove", "check"} /\ q # Hearts!Idle
      /\ q.stage = "remove" <=> Hearts!Heart(i)
      /\ q.stage = "remove" => \E w \in rows : w.item = i /\ w.id = q.id
      /\ q \in [stage : {"check", "add"}, item : Items]
                  \cup [stage : {"remove"}, item : Items, id : 1 .. hearts]
  BY <1>2 DEF Hearts!Idle, Hearts!TypeOK, Hearts!Row
<1>4. Hearts!TypeOK'
  BY <1>1, <1>2, <1>3 DEF Hearts!TypeOK
<1>5. RowsAreSound'
  BY <1>1, <1>2, <1>3 DEF RowsAreSound, Hearts!TypeOK
<1>6. b \in Burst
  BY HeartIsBoolean DEF Burst, Hearts!Quiet
<1>7. burst' \in [Items -> Burst]
  BY <1>1, <1>6 DEF Burst
<1>8. ASSUME NEW j \in Items, j # i
      PROVE  (TapsAgree(j) /\ BurstIsSound(j))'
  <2>1. burst'[j] = burst[j] /\ Hearts!Heart(j)' = Hearts!Heart(j)
    BY <1>1, <1>8 DEF Hearts!Heart
  <2>2. \A t \in Hearts!Taps(j)' : t \in Hearts!Taps(j) /\ toggleReqs'[t] = toggleReqs[t]
    BY <1>2, <1>3, <1>8 DEF Hearts!Taps, Hearts!TypeOK
  <2> QED
    BY <1>1, <1>8, <2>1, <2>2 DEF TapsAgree, BurstIsSound
<1>9. (TapsAgree(i) /\ BurstIsSound(i))'
  <2>1. /\ burst'[i].was = b.was /\ burst'[i].wrote = b.wrote /\ burst'[i].answers = b.answers
        /\ burst'[i].together <=> b.together /\ ~b.wrote
    BY <1>1, <1>6 DEF Burst
  <2>2. Hearts!Heart(i)' = Hearts!Heart(i)
    BY <1>1 DEF Hearts!Heart
  <2>3. \A t \in Hearts!Taps(i)' : t = r \/ (t \in Hearts!Taps(i) /\ toggleReqs'[t] = toggleReqs[t])
    BY <1>2 DEF Hearts!Taps, Hearts!TypeOK
  <2>4. toggleReqs'[r] = q
    BY <1>2 DEF Hearts!TypeOK
  <2>5. ~b.wrote => b.together /\ b.answers = {} /\ (Hearts!Heart(i) <=> b.was)
    BY DEF BurstIsSound, Hearts!Quiet
  <2>6. BurstIsSound(i)'
    BY <2>1, <2>2, <2>5 DEF BurstIsSound
  <2>7. ~b.wrote => \A t \in Hearts!Taps(i) :
            /\ toggleReqs[t].stage = "remove" <=> b.was
            /\ toggleReqs[t].stage = "remove" => \E w \in rows : w.id = toggleReqs[t].id
    BY DEF TapsAgree, BurstIsSound
  <2>8. TapsAgree(i)'
    BY <1>1, <1>3, <2>1, <2>3, <2>4, <2>5, <2>7 DEF TapsAgree
  <2> QED
    BY <2>6, <2>8
<1> QED
  BY <1>4, <1>5, <1>7, <1>8, <1>9

\* Nothing but requests changed, and a request that changed asks for less.
LEMMA TapEnds ==
    ASSUME HeartsInv, Hearts!TypeOK', rows' = rows, burst' = burst,
           \A t \in ToggleRequests :
              /\ toggleReqs'[t].stage = "remove" => toggleReqs'[t] = toggleReqs[t]
              /\ toggleReqs'[t] # Hearts!Idle =>
                    /\ toggleReqs[t] # Hearts!Idle
                    /\ toggleReqs'[t].item = toggleReqs[t].item
                    /\ toggleReqs[t].stage = "remove" => toggleReqs'[t] = toggleReqs[t]
    PROVE  HeartsInv'
<1> USE DEF HeartsInv
<1>1. RowsAreSound'
  BY DEF RowsAreSound
<1>2. ASSUME NEW i \in Items, NEW t \in Hearts!Taps(i)'
      PROVE  /\ t \in Hearts!Taps(i)
             /\ toggleReqs'[t].stage = "remove" <=> toggleReqs[t].stage = "remove"
             /\ toggleReqs'[t].stage = "remove" => toggleReqs'[t].id = toggleReqs[t].id
  BY <1>2 DEF Hearts!Taps
<1>3. \A i \in Items : TapsAgree(i)'
  BY <1>2 DEF TapsAgree
<1>4. \A i \in Items : BurstIsSound(i)'
  BY DEF BurstIsSound, Hearts!Heart
<1> QED
  BY <1>1, <1>3, <1>4

LEMMA FailKeeps ==
    ASSUME HeartsInv, NEW r \in ToggleRequests, Hearts!Fail(r)
    PROVE  HeartsInv'
<1>1. Hearts!TypeOK'
  BY DEF HeartsInv, Hearts!Fail, Hearts!TypeOK
<1>2. \A t \in ToggleRequests : toggleReqs'[t] = IF t = r THEN Hearts!Idle ELSE toggleReqs[t]
  BY DEF HeartsInv, Hearts!Fail, Hearts!TypeOK
<1>3. rows' = rows /\ burst' = burst
  BY DEF Hearts!Fail
<1>4. Hearts!Idle.stage # "remove"
  BY DEF Hearts!Idle
<1> QED
  BY <1>1, <1>2, <1>3, <1>4, TapEnds

LEMMA CheckKeeps ==
    ASSUME HeartsInv, NEW r \in ToggleRequests, Hearts!CheckPublic(r)
    PROVE  HeartsInv'
<1>1. toggleReqs[r] = [stage |-> "check", item |-> toggleReqs[r].item] /\ toggleReqs[r].item \in Items
  BY HeartsFacts DEF HeartsInv, Hearts!CheckPublic, Hearts!Idle
<1> DEFINE q == [stage |-> "add", item |-> toggleReqs[r].item]
<1>2. /\ q.stage = "add" /\ q.item = toggleReqs[r].item
      /\ toggleReqs[r].stage = "check" /\ toggleReqs[r] # Hearts!Idle
      /\ q \in [stage : {"check", "add"}, item : Items]
  BY <1>1 DEF Hearts!Idle
<1>3. [toggleReqs[r] EXCEPT !.stage = "add"] = q
  BY <1>1
<1> HIDE DEF q
<1>4. toggleReqs' = [toggleReqs EXCEPT ![r] = q] /\ UNCHANGED <<rows, hearts, public, burst>>
  BY <1>3 DEF Hearts!CheckPublic
<1>5. Hearts!TypeOK'
  BY <1>2, <1>4 DEF HeartsInv, Hearts!TypeOK
<1>6. \A t \in ToggleRequests : toggleReqs'[t] = IF t = r THEN q ELSE toggleReqs[t]
  BY <1>4 DEF HeartsInv, Hearts!TypeOK
<1> QED
  BY <1>2, <1>4, <1>5, <1>6, TapEnds

\* A write ends a tap on item i and leaves every other item's rows alone.
LEMMA WriteKeeps ==
    ASSUME HeartsInv, NEW r \in ToggleRequests, NEW i \in Items, NEW answer \in BOOLEAN,
           toggleReqs[r] # Hearts!Idle, toggleReqs[r].item = i,
           toggleReqs' = [toggleReqs EXCEPT ![r] = Hearts!Idle],
           Hearts!Answered(i, answer), Hearts!TypeOK', RowsAreSound',
           \A w \in rows : w \notin rows' => w.item = i,
           \A w \in rows' : w \notin rows => w.item = i /\ w.id \notin 1 .. hearts,
           burst[i].together =>
               /\ burst[i].was <=> ~answer
               /\ Hearts!Heart(i)' <=> answer
               /\ \A t \in Hearts!Taps(i) : toggleReqs[t].stage = "remove" =>
                     \A w \in rows' : w.id # toggleReqs[t].id
    PROVE  HeartsInv'
<1> USE DEF HeartsInv
<1>1. /\ burst' \in [Items -> Burst]
      /\ \A j \in Items \ {i} : burst'[j] = burst[j]
      /\ burst'[i].was = burst[i].was /\ burst'[i].together = burst[i].together
      /\ burst'[i].wrote /\ burst'[i].answers = burst[i].answers \cup {answer}
  BY DEF Hearts!Answered, Burst
<1>2. ASSUME NEW j \in Items, NEW t \in Hearts!Taps(j)'
      PROVE  t \in Hearts!Taps(j) /\ toggleReqs'[t] = toggleReqs[t]
  BY <1>2 DEF Hearts!Taps, Hearts!TypeOK
<1>3. ASSUME NEW j \in Items, j # i
      PROVE  TapsAgree(j)' /\ BurstIsSound(j)'
  <2>1. Hearts!Heart(j)' <=> Hearts!Heart(j)
    BY <1>3 DEF Hearts!Heart
  <2>2. ASSUME NEW t \in Hearts!Taps(j), toggleReqs[t].stage = "remove"
        PROVE  (\A w \in rows' : w.id # toggleReqs[t].id) <=> (\A w \in rows : w.id # toggleReqs[t].id)
    BY <1>3, <2>2, HeartsFacts DEF Hearts!Taps, RowsAreSound
  <2> QED
    BY <1>1, <1>2, <1>3, <2>1, <2>2 DEF TapsAgree, BurstIsSound
<1>4. BurstIsSound(i)'
  BY <1>1 DEF BurstIsSound
<1>5. TapsAgree(i)'
  <2> SUFFICES ASSUME burst[i].together, NEW t \in Hearts!Taps(i)'
               PROVE  /\ toggleReqs'[t].stage = "remove" <=> burst[i].was
                      /\ toggleReqs'[t].stage = "remove" => \A w \in rows' : w.id # toggleReqs'[t].id
    BY <1>1 DEF TapsAgree
  <2> QED
    BY <1>2 DEF TapsAgree
<1> QED
  BY <1>1, <1>3, <1>4, <1>5

LEMMA AddKeeps ==
    ASSUME HeartsInv, NEW r \in ToggleRequests, Hearts!Add(r)
    PROVE  HeartsInv'
<1> USE DEF HeartsInv
<1>0. PICK i \in Items : i = toggleReqs[r].item
  BY HeartsFacts DEF Hearts!Add, Hearts!Idle
<1> DEFINE new == [id |-> hearts + 1, item |-> i]
<1>1. /\ toggleReqs[r].stage = "add" /\ toggleReqs[r] # Hearts!Idle
      /\ ~Hearts!Heart(i)
      /\ rows' = rows \cup {new} /\ hearts' = hearts + 1
      /\ toggleReqs' = [toggleReqs EXCEPT ![r] = Hearts!Idle]
      /\ Hearts!Answered(i, TRUE)
  BY <1>0, HeartsFacts DEF Hearts!Add
<1>9. hearts \in Nat
  BY DEF Hearts!TypeOK
<1>2. Hearts!TypeOK'
  BY <1>0, <1>1, HeartsAssumption DEF Hearts!Add, Hearts!TypeOK, Hearts!Row
<1>3. \A t \in ToggleRequests : /\ toggleReqs[t].stage = "remove" => toggleReqs[t].id # new.id
                                /\ toggleReqs'[t].stage = "remove" => toggleReqs'[t] = toggleReqs[t]
  BY <1>1, <1>9, HeartsFacts DEF Hearts!TypeOK, Hearts!Idle
<1>4. RowsAreSound'
  <2>1. \A v, w \in rows' : v.item = w.item => v = w
    BY <1>1 DEF RowsAreSound, Hearts!Heart
  <2>2. \A t \in ToggleRequests : toggleReqs'[t].stage = "remove" =>
            \A w \in rows' : w.id = toggleReqs'[t].id => w.item = toggleReqs'[t].item
    BY <1>1, <1>3 DEF RowsAreSound
  <2> QED
    BY <2>1, <2>2 DEF RowsAreSound
<1>5. Hearts!Heart(i)'
  <2>1. new \in rows' /\ new.item = i
    BY <1>1
  <2> QED
    BY <2>1 DEF Hearts!Heart
<1>6. ASSUME burst[i].together
      PROVE  ~burst[i].was /\ ~burst[i].wrote /\ \A t \in Hearts!Taps(i) : toggleReqs[t].stage # "remove"
  BY <1>0, <1>1, <1>6 DEF TapsAgree, BurstIsSound, Hearts!Taps
<1>7. \A w \in rows' : w \notin rows => w.item = i /\ w.id \notin 1 .. hearts
  BY <1>1, <1>9
<1>8. \A w \in rows : w \in rows'
  BY <1>1
<1> HIDE DEF new
<1> QED
  BY <1>0, <1>1, <1>2, <1>4, <1>5, <1>6, <1>7, <1>8, WriteKeeps

LEMMA RemoveKeeps ==
    ASSUME HeartsInv, NEW r \in ToggleRequests, Hearts!Remove(r)
    PROVE  HeartsInv'
<1> USE DEF HeartsInv
<1>0. PICK i \in Items : i = toggleReqs[r].item
  BY HeartsFacts DEF Hearts!Remove, Hearts!Idle
<1>1. /\ toggleReqs[r].stage = "remove" /\ toggleReqs[r] # Hearts!Idle
      /\ rows' = {w \in rows : w.id # toggleReqs[r].id} /\ UNCHANGED <<hearts, public>>
      /\ toggleReqs' = [toggleReqs EXCEPT ![r] = Hearts!Idle]
      /\ Hearts!Answered(i, FALSE)
  BY <1>0, HeartsFacts DEF Hearts!Remove
<1>2. Hearts!TypeOK'
  BY <1>1 DEF Hearts!TypeOK
<1>3. RowsAreSound'
  BY <1>1 DEF RowsAreSound, Hearts!Idle, Hearts!TypeOK
<1>4. \A w \in rows : w \notin rows' => w.item = i
  BY <1>0, <1>1 DEF RowsAreSound
<1>5. ASSUME burst[i].together
      PROVE  /\ burst[i].was
             /\ \A t \in Hearts!Taps(i) : toggleReqs[t].stage = "remove" =>
                   \A w \in rows' : w.id # toggleReqs[t].id
             /\ ~Hearts!Heart(i)'
  <2>1. r \in Hearts!Taps(i) /\ burst[i].was
    BY <1>0, <1>1, <1>5 DEF TapsAgree, Hearts!Taps
  <2>2. CASE burst[i].wrote
    <3>1. ~Hearts!Heart(i)
      BY <1>5, <2>1, <2>2 DEF BurstIsSound
    <3> QED
      BY <1>1, <1>5, <2>1, <2>2, <3>1 DEF TapsAgree, Hearts!Heart
  <2>3. CASE ~burst[i].wrote
    <3>1. ASSUME NEW t \in Hearts!Taps(i), toggleReqs[t].stage = "remove"
          PROVE  \E w \in rows : w.item = i /\ w.id = toggleReqs[t].id
      BY <1>5, <2>3, <3>1 DEF TapsAgree, RowsAreSound, Hearts!Taps
    <3>2. PICK w \in rows : w.item = i /\ w.id = toggleReqs[r].id
      BY <1>1, <2>1, <3>1
    <3>3. \A v \in rows' : v.item # i
      BY <1>1, <3>2 DEF RowsAreSound
    <3> QED
      BY <1>1, <2>1, <3>1, <3>3 DEF Hearts!Heart
  <2> QED
    BY <2>2, <2>3
<1>6. \A w \in rows' : w \in rows
  BY <1>1
<1> QED
  BY <1>0, <1>1, <1>2, <1>3, <1>4, <1>5, <1>6, WriteKeeps

LEMMA HeartsStep == HeartsInv /\ [Hearts!Next]_(Hearts!vars) => HeartsInv'
<1> SUFFICES ASSUME HeartsInv, [Hearts!Next]_(Hearts!vars) PROVE HeartsInv'
  OBVIOUS
<1>3. CASE UNCHANGED <<rows, hearts, toggleReqs, burst>> /\ public' \subseteq Items
  BY <1>3 DEF HeartsInv, Hearts!TypeOK, RowsAreSound, TapsAgree, BurstIsSound,
              Hearts!Heart, Hearts!Taps
<1>4. ASSUME NEW i \in Items, Hearts!ShowOrHide(i) PROVE HeartsInv'
  BY <1>3, <1>4 DEF Hearts!ShowOrHide, HeartsInv, Hearts!TypeOK
<1>5. CASE UNCHANGED Hearts!vars
  BY <1>3, <1>5 DEF Hearts!vars, HeartsInv, Hearts!TypeOK
<1> QED
  BY <1>4, <1>5, ToggleKeeps, CheckKeeps, AddKeeps, RemoveKeeps, FailKeeps DEF Hearts!Next

LEMMA HeartsAlways == Hearts!Spec => []HeartsInv
BY HeartsInit, HeartsStep, PTL DEF Hearts!Spec

----------------------------------------------------------------------------
(* The pet form: what a listing answered *)

\* The ids of an answer are of options of its question and its values are
\* theirs, as far as these options are still there: an id is never used again.
Sound(k, a) ==
    /\ \A id \in a.ids : id <= born
    /\ \A o \in options : o.id \in a.ids => o.key = k /\ o.value \in a.values
    /\ \A v \in a.values :
          \/ Form!IsOther(k, v)
          \/ \E id \in a.ids : \A o \in options : o.id = id => o.value = v

\* A saved answer names options of its question by id, and by value too unless
\* two edits crossed.
ListingsHold ==
    \A l \in Pets : listings[l] # NoListing => \A k \in Keys :
        /\ \A id \in listings[l][k].ids : \E o \in options : o.id = id /\ o.key = k
        /\ l \notin crossed => Sound(k, listings[l][k])

RequestsHold ==
    \A r \in FormRequests :
        /\ formReqs[r].stage = "resolved" => \A k \in Keys : Sound(k, formReqs[r].answers[k])
        /\ formReqs[r] # Form!Idle /\ formReqs[r].loaded # NoListing =>
              listings[formReqs[r].listing] # NoListing

AnswersInv == Form!TypeOK /\ ListingsHold /\ RequestsHold

LEMMA FormFacts ==
    ASSUME Form!TypeOK
    PROVE  /\ born \in Nat
           /\ \A o \in options : /\ o.id \in 1 .. MaxOptions /\ o.key \in Keys
                                 /\ o.value \in Values /\ o.isActive \in BOOLEAN
                                 /\ o.id \in 1 .. born
           /\ \A l \in Pets : listings[l] # NoListing => listings[l] \in Form!Row
           /\ \A r \in FormRequests : formReqs[r] # Form!Idle =>
                  /\ formReqs[r].listing \in Pets
                  /\ formReqs[r].loaded # NoListing => formReqs[r].loaded \in Form!Row
                  /\ formReqs[r].stage = "resolved" => formReqs[r].answers \in Form!Row
                  /\ formReqs[r].stage \in {"loaded", "resolved"}
BY FormAssumption DEF Form!TypeOK, Form!Option

\* The file that is deployed: something is asked, nothing is asked twice.
LEMMA FileFacts ==
    ASSUME Form!TypeOK
    PROVE  /\ Len(Form!File) \in Nat \ {0} /\ DOMAIN Form!File = 1 .. Len(Form!File)
           /\ \A i \in DOMAIN Form!File : /\ Form!File[i].key \in Keys
                                          /\ Form!File[i].values \subseteq Values
                                          /\ IsFiniteSet(Form!File[i].values)
           /\ \A i, j \in DOMAIN Form!File : Form!File[i].key = Form!File[j].key => i = j
<1> DEFINE S == [key : Keys, values : SUBSET Values]
<1>1. version \in DOMAIN Versions /\ Versions \in Seq(Seq(S))
  BY FormAssumption DEF Form!TypeOK
<1>2. Form!File \in Seq(S) /\ Form!File # <<>>
  BY <1>1, FormAssumption DEF Form!File
<1>4. \A s \in S : s.key \in Keys /\ s.values \subseteq Values
  OBVIOUS
<1> HIDE DEF S
<1>3. \A i \in DOMAIN Form!File : Form!File[i] \in S
  BY <1>2
<1>5. /\ \A i \in DOMAIN Form!File : IsFiniteSet(Form!File[i].values)
      /\ \A i, j \in DOMAIN Form!File : Form!File[i].key = Form!File[j].key => i = j
  BY <1>1, FormAssumption DEF Form!File
<1>6. Len(Form!File) \in Nat \ {0} /\ DOMAIN Form!File = 1 .. Len(Form!File)
  BY <1>2
<1> QED
  BY <1>3, <1>4, <1>5, <1>6

\* Resolving gives the ids and the values of options of the question.
LEMMA ResolveFacts ==
    ASSUME Form!TypeOK, NEW k \in Keys, NEW tokens, Form!IsAcceptable(k, tokens)
    PROVE  Form!Resolve(k, tokens) \in Form!Answer /\ Sound(k, Form!Resolve(k, tokens))
<1> DEFINE chosen == UNION {Form!Match(k, token) : token \in tokens}
           vals   == {o.value : o \in chosen} \cup (tokens \cap {Other})
           ids    == {o.id : o \in chosen}
           a      == [values |-> vals, ids |-> ids]
<1>1. Form!Resolve(k, tokens) = a
  BY DEF Form!Resolve
<1>2. \A o \in chosen : o \in options /\ o.key = k
  BY DEF Form!Match, Form!AnyOptionOf
<1>3. vals \subseteq Values \cup {Other} /\ ids \subseteq 1 .. MaxOptions
  BY <1>2, FormFacts
<1>4. \A id \in ids : id <= born
  BY <1>2, FormFacts
<1>5. \A o \in options : o.id \in ids => o.key = k /\ o.value \in vals
  BY <1>2 DEF Form!TypeOK
<1>6. ASSUME NEW v \in vals
      PROVE  \/ Form!IsOther(k, v)
             \/ \E id \in ids : \A o \in options : o.id = id => o.value = v
  <2>1. ASSUME NEW p \in chosen, v = p.value
        PROVE  p.id \in ids /\ \A o \in options : o.id = p.id => o.value = v
    BY <1>2, <2>1 DEF Form!TypeOK
  <2>2. ASSUME v \in tokens, v = Other, ~Form!IsOther(k, v)
        PROVE  \E p \in chosen : v = p.value
    <3>1. PICK p \in Form!Match(k, v) : TRUE
      BY <2>2 DEF Form!IsAcceptable
    <3>2. p \in chosen /\ p \in options /\ v \in {p.id, p.value}
      BY <2>2, <3>1 DEF Form!Match, Form!AnyOptionOf
    <3>3. v # p.id
      BY <2>2, <3>2, FormFacts, FormAssumption
    <3> QED
      BY <3>2, <3>3
  <2> QED
    BY <2>1, <2>2
<1>7. a \in Form!Answer
  BY <1>3 DEF Form!Answer
<1>8. a.ids = ids /\ a.values = vals
  OBVIOUS
<1> HIDE DEF vals, ids, a
<1> QED
  BY <1>1, <1>4, <1>5, <1>6, <1>7, <1>8 DEF Sound

\* No answer is sound.
LEMMA NoAnswerFacts ==
    ASSUME NEW k
    PROVE  [values |-> {}, ids |-> {}] \in Form!Answer /\ Sound(k, [values |-> {}, ids |-> {}])
BY DEF Form!Answer, Sound

\* A request moves on while the tables stay.
LEMMA RequestMoves ==
    ASSUME AnswersInv, NEW r \in FormRequests, NEW q,
           formReqs' = [formReqs EXCEPT ![r] = q],
           UNCHANGED <<questions, options, born, listings, version, crossed>>,
           \/ q = Form!Idle
           \/ q \in [stage : {"loaded"}, listing : Pets, loaded : {NoListing} \cup Form!Row]
           \/ q \in [stage : {"resolved"}, listing : Pets, loaded : {NoListing} \cup Form!Row,
                    answers : Form!Row],
           q.stage = "resolved" => \A k \in Keys : Sound(k, q.answers[k]),
           q # Form!Idle /\ q.loaded # NoListing => listings[q.listing] # NoListing
    PROVE  AnswersInv'
<1> USE DEF AnswersInv
<1>1. Form!TypeOK'
  BY DEF Form!TypeOK
<1>2. \A t \in FormRequests : formReqs'[t] = IF t = r THEN q ELSE formReqs[t]
  BY DEF Form!TypeOK
<1>3. \A k, a : Sound(k, a)' <=> Sound(k, a)
  BY DEF Sound, Form!IsOther
<1>4. ListingsHold'
  BY <1>3 DEF ListingsHold
<1>5. RequestsHold'
  BY <1>2, <1>3 DEF RequestsHold
<1> QED
  BY <1>1, <1>4, <1>5

LEMMA LoadKeeps ==
    ASSUME AnswersInv, NEW r \in FormRequests, NEW l \in Pets, Form!Load(r, l)
    PROVE  AnswersInv'
<1> DEFINE q == [stage |-> "loaded", listing |-> l, loaded |-> listings[l]]
<1>1. /\ formReqs' = [formReqs EXCEPT ![r] = q]
      /\ UNCHANGED <<questions, options, born, listings, version, crossed>>
  BY DEF Form!Load, Form!formVars
<1>2. listings[l] \in {NoListing} \cup Form!Row
  BY DEF AnswersInv, Form!TypeOK
<1>3. /\ q \in [stage : {"loaded"}, listing : Pets, loaded : {NoListing} \cup Form!Row]
      /\ q.stage = "loaded" /\ q.listing = l /\ q.loaded = listings[l]
  BY <1>2
<1> HIDE DEF q
<1> QED
  BY <1>1, <1>3, RequestMoves

LEMMA SubmitKeeps ==
    ASSUME AnswersInv, NEW r \in FormRequests, NEW tokens, Form!Submit(r, tokens)
    PROVE  AnswersInv'
<1> DEFINE answer(k) == IF k \in questions THEN Form!Resolve(k, tokens[k])
                                           ELSE [values |-> {}, ids |-> {}]
           answers == [k \in Keys |-> answer(k)]
           listing == formReqs[r].listing
           loaded  == formReqs[r].loaded
           q == [stage |-> "resolved", listing |-> listing, loaded |-> loaded, answers |-> answers]
<1>1. /\ formReqs' = [formReqs EXCEPT ![r] = q]
      /\ formReqs[r].stage = "loaded"
      /\ \A k \in questions : Form!IsAcceptable(k, tokens[k])
      /\ UNCHANGED <<questions, options, born, listings, version, crossed>>
  BY DEF Form!Submit, Form!formVars
<1>2. ASSUME NEW k \in Keys PROVE answer(k) \in Form!Answer /\ Sound(k, answer(k))
  BY <1>1, ResolveFacts, NoAnswerFacts DEF AnswersInv
<1> HIDE DEF answer
<1>3. answers \in Form!Row /\ \A k \in Keys : Sound(k, answers[k])
  BY <1>2 DEF Form!Row
<1>4. /\ listing \in Pets /\ loaded \in {NoListing} \cup Form!Row
      /\ loaded # NoListing => listings[listing] # NoListing
  BY <1>1, FormFacts DEF AnswersInv, RequestsHold, Form!Idle
<1> HIDE DEF answers, listing, loaded
<1>5. /\ q \in [stage : {"resolved"}, listing : Pets, loaded : {NoListing} \cup Form!Row,
                answers : Form!Row]
      /\ q.stage = "resolved" /\ q.listing = listing /\ q.loaded = loaded /\ q.answers = answers
  BY <1>3, <1>4
<1> HIDE DEF q
<1> QED
  BY <1>1, <1>3, <1>4, <1>5, RequestMoves

\* An edit that saves over the row it loaded writes its answers.
LEMMA UncrossedRow ==
    ASSUME NEW q, NEW stored, q.answers \in Form!Row, q.loaded = stored
    PROVE  Form!SavedRow(q, stored) = q.answers
<1> DEFINE strings == Form!StringsOf(q.answers)
           V == Values \cup {Other}
           write(column) == Form!Saved(strings \cap column, Form!StringsOf(q.loaded) \cap column,
                                       Form!StringsOf(stored) \cap column)
<1>1. \A column : write(column) = strings \cap column
  BY DEF Form!Saved
<1>2. strings \subseteq Keys \X V
  <2> DEFINE holds(x) == x[2] \in q.answers[x[1]].values
  <2>1. strings = {x \in Keys \X V : holds(x)}
    BY DEF Form!StringsOf
  <2> HIDE DEF holds
  <2> QED
    BY <2>1
<1>3. Form!SavedStrings(q, stored) = UNION {write(column) : column \in Columns}
  BY DEF Form!SavedStrings
<1>4. Form!SavedStrings(q, stored) = strings
  <2> HIDE DEF strings, write
  <2> QED
    BY <1>1, <1>2, <1>3, FormAssumption
<1>5. ASSUME NEW k \in Keys
      PROVE  /\ {v \in V : <<k, v>> \in Form!SavedStrings(q, stored)} = q.answers[k].values
             /\ Form!SavedIds(q, stored, k) = q.answers[k].ids
             /\ q.answers[k] = [values |-> q.answers[k].values, ids |-> q.answers[k].ids]
  <2>1. q.answers[k] \in Form!Answer
    BY DEF Form!Row
  <2>2. \A v \in V : <<k, v>> \in strings <=> v \in q.answers[k].values
    BY DEF Form!StringsOf
  <2>3. q.answers[k].values \subseteq V
    BY <2>1 DEF Form!Answer
  <2>4. Form!SavedIds(q, stored, k) = q.answers[k].ids
    BY DEF Form!SavedIds, Form!Saved
  <2> QED
    BY <1>4, <2>1, <2>2, <2>3, <2>4 DEF Form!Answer
<1>6. Form!SavedRow(q, stored) = [k \in Keys |-> q.answers[k]]
  BY <1>5 DEF Form!SavedRow
<1> QED
  BY <1>6 DEF Form!Row

\* What an edit writes over any row: strings and ids, and the ids are the ones
\* it resolved or the ones the row holds.
LEMMA SavedRowFacts ==
    ASSUME NEW q, NEW stored, q.answers \in Form!Row, stored \in Form!Row
    PROVE  /\ Form!SavedRow(q, stored) \in Form!Row
           /\ \A k \in Keys : Form!SavedRow(q, stored)[k].ids
                                 \in {q.answers[k].ids, stored[k].ids}
<1> DEFINE row == Form!SavedRow(q, stored)
           strings(k) == {v \in Values \cup {Other} : <<k, v>> \in Form!SavedStrings(q, stored)}
<1>1. row = [k \in Keys |-> [values |-> strings(k), ids |-> Form!SavedIds(q, stored, k)]]
  BY DEF Form!SavedRow
<1>2. \A k \in Keys : Form!SavedIds(q, stored, k) \in {q.answers[k].ids, stored[k].ids}
  BY DEF Form!SavedIds, Form!Saved
<1>3. \A k \in Keys : /\ q.answers[k].ids \subseteq 1 .. MaxOptions
                      /\ stored[k].ids \subseteq 1 .. MaxOptions
                      /\ strings(k) \subseteq Values \cup {Other}
  BY DEF Form!Row, Form!Answer
<1> HIDE DEF strings, row
<1>4. \A k \in Keys : [values |-> strings(k), ids |-> Form!SavedIds(q, stored, k)] \in Form!Answer
  BY <1>2, <1>3 DEF Form!Answer
<1>5. row \in Form!Row /\ \A k \in Keys : row[k].ids = Form!SavedIds(q, stored, k)
  BY <1>1, <1>4 DEF Form!Row
<1> QED
  BY <1>2, <1>5 DEF row

\* A row whose ids are of its questions, and that is sound unless edits crossed.
LEMMA WriteKeepsAnswers ==
    ASSUME AnswersInv, NEW r \in FormRequests, NEW row \in Form!Row,
           formReqs[r].stage = "resolved", Form!Write(r, row),
           \A k \in Keys : \A id \in row[k].ids : \A o \in options : o.id = id => o.key = k,
           listings[formReqs[r].listing] = formReqs[r].loaded => row = formReqs[r].answers
    PROVE  AnswersInv'
<1> DEFINE l == formReqs[r].listing
<1> USE DEF AnswersInv
<1>1. /\ \A k \in Keys : row[k].ids \subseteq {o.id : o \in options}
      /\ listings' = [listings EXCEPT ![l] = row]
      /\ crossed' = IF listings[l] = formReqs[r].loaded THEN crossed \ {l} ELSE crossed \cup {l}
      /\ formReqs' = [formReqs EXCEPT ![r] = Form!Idle]
      /\ UNCHANGED <<questions, options, born, version>>
  BY DEF Form!Write, Form!ReferencesHold, Form!formVars
<1>2. l \in Pets
  BY FormFacts DEF Form!Idle
<1>3. Form!TypeOK'
  BY <1>1, <1>2 DEF Form!TypeOK
<1>4. \A x \in Pets : listings'[x] = IF x = l THEN row ELSE listings[x]
  BY <1>1 DEF Form!TypeOK
<1>5. \A t \in FormRequests : formReqs'[t] = IF t = r THEN Form!Idle ELSE formReqs[t]
  BY <1>1 DEF Form!TypeOK
<1>6. \A k, a : Sound(k, a)' <=> Sound(k, a)
  BY <1>1 DEF Sound, Form!IsOther
<1>7. row # NoListing
  BY FormAssumption
<1>8. ASSUME NEW x \in Pets, listings'[x] # NoListing, NEW k \in Keys
      PROVE  /\ \A id \in listings'[x][k].ids : \E o \in options' : o.id = id /\ o.key = k
             /\ x \notin crossed' => Sound(k, listings'[x][k])
  <2>1. CASE x = l
    <3>1. \A id \in row[k].ids : \E o \in options : o.id = id /\ o.key = k
      BY <1>1
    <3>2. x \notin crossed' => Sound(k, row[k])
      BY <1>1, <2>1 DEF RequestsHold
    <3> QED
      BY <1>1, <1>4, <2>1, <3>1, <3>2
  <2>2. CASE x # l
    BY <1>1, <1>4, <1>8, <2>2 DEF ListingsHold
  <2> QED
    BY <2>1, <2>2
<1>9. ListingsHold'
  BY <1>6, <1>8 DEF ListingsHold
<1>10. \A x \in Pets : listings[x] # NoListing => listings'[x] # NoListing
  BY <1>4, <1>7
<1>11. RequestsHold'
  BY <1>5, <1>6, <1>10, FormFacts DEF RequestsHold, Form!Idle
<1> QED
  BY <1>3, <1>9, <1>11

LEMMA CreateKeeps ==
    ASSUME AnswersInv, NEW r \in FormRequests, Form!Create(r)
    PROVE  AnswersInv'
<1>1. formReqs[r].stage = "resolved" /\ Form!Write(r, formReqs[r].answers)
  BY DEF Form!Create
<1>2. formReqs[r].answers \in Form!Row
  BY <1>1, FormFacts DEF AnswersInv, Form!Idle
<1>3. \A k \in Keys : \A id \in formReqs[r].answers[k].ids :
          \A o \in options : o.id = id => o.key = k
  BY <1>1 DEF AnswersInv, RequestsHold, Sound
<1> QED
  BY <1>1, <1>2, <1>3, WriteKeepsAnswers

LEMMA SaveKeeps ==
    ASSUME AnswersInv, NEW r \in FormRequests, Form!Save(r)
    PROVE  AnswersInv'
<1> DEFINE q == formReqs[r]
           stored == listings[q.listing]
           row == Form!SavedRow(q, stored)
<1> USE DEF AnswersInv
<1>1. q.stage = "resolved" /\ q.loaded # NoListing /\ Form!Write(r, row)
  BY DEF Form!Save
<1>2. q # Form!Idle /\ q.listing \in Pets /\ q.answers \in Form!Row /\ stored # NoListing
  BY <1>1, FormFacts DEF RequestsHold, Form!Idle
<1>3. stored \in Form!Row
  BY <1>2, FormFacts
<1>4. row \in Form!Row /\ \A k \in Keys : row[k].ids \in {q.answers[k].ids, stored[k].ids}
  BY <1>2, <1>3, SavedRowFacts
<1>5. stored = q.loaded => row = q.answers
  BY <1>2, UncrossedRow
<1>6. ASSUME NEW k \in Keys, NEW id \in row[k].ids, NEW o \in options, o.id = id
      PROVE  o.key = k
  <2>1. CASE id \in q.answers[k].ids
    BY <1>1, <1>6, <2>1 DEF RequestsHold, Sound
  <2>2. CASE id \in stored[k].ids
    <3>1. PICK p \in options : p.id = id /\ p.key = k
      BY <1>2, <2>2 DEF ListingsHold
    <3> QED
      BY <1>6, <3>1 DEF Form!TypeOK
  <2> QED
    BY <1>4, <2>1, <2>2
<1> HIDE DEF row
<1> QED
  BY <1>1, <1>4, <1>5, <1>6, WriteKeepsAnswers

LEMMA FormFailKeeps ==
    ASSUME AnswersInv, NEW r \in FormRequests, Form!Fail(r)
    PROVE  AnswersInv'
<1>1. /\ formReqs' = [formReqs EXCEPT ![r] = Form!Idle]
      /\ UNCHANGED <<questions, options, born, listings, version, crossed>>
  BY DEF Form!Fail, Form!formVars
<1>2. Form!Idle.stage # "resolved"
  BY DEF Form!Idle
<1> QED
  BY <1>1, <1>2, RequestMoves

\* A change of the options that keeps those some listing refers to and gives
\* no old id to a new option.
LEMMA OptionsChange ==
    ASSUME AnswersInv, UNCHANGED <<listings, formReqs, crossed>>, Form!TypeOK', born' >= born,
           \A o \in options :
              \/ \E p \in options' : p.id = o.id /\ p.key = o.key /\ p.value = o.value
              \/ \A l \in Pets : listings[l] # NoListing => o.id \notin listings[l][o.key].ids,
           \A p \in options' :
              \/ p.id \notin 1 .. born
              \/ \E o \in options : p.id = o.id /\ p.key = o.key /\ p.value = o.value
    PROVE  AnswersInv'
<1> USE DEF AnswersInv
<1>1. ASSUME NEW k \in Keys, NEW a \in Form!Answer, Sound(k, a)
      PROVE  Sound(k, a)'
  <2>1. a.ids \subseteq 1 .. born
    BY <1>1, FormFacts DEF Sound, Form!Answer
  <2>2. \A id \in a.ids : id <= born'
    BY <2>1, FormFacts DEF Form!TypeOK
  <2>3. ASSUME NEW p \in options', p.id \in a.ids
        PROVE  p.key = k /\ p.value \in a.values
    BY <1>1, <2>1, <2>3 DEF Sound
  <2>4. ASSUME NEW v \in a.values, ~Form!IsOther(k, v)
        PROVE  \E id \in a.ids : \A p \in options' : p.id = id => p.value = v
    <3>1. PICK id \in a.ids : \A o \in options : o.id = id => o.value = v
      BY <1>1, <2>4 DEF Sound
    <3>2. \A p \in options' : p.id = id => p.value = v
      BY <2>1, <3>1
    <3> QED
      BY <3>2
  <2>5. \A v : Form!IsOther(k, v)' <=> Form!IsOther(k, v)
    BY DEF Form!IsOther
  <2> QED
    BY <2>2, <2>3, <2>4, <2>5 DEF Sound
<1>2. \A l \in Pets : listings[l] # NoListing => \A k \in Keys : listings[l][k] \in Form!Answer
  BY FormFacts DEF Form!Row
<1>3. \A r \in FormRequests : formReqs[r].stage = "resolved" =>
          \A k \in Keys : formReqs[r].answers[k] \in Form!Answer
  BY FormFacts DEF Form!Row, Form!Idle
<1>4. ASSUME NEW l \in Pets, listings[l] # NoListing, NEW k \in Keys
      PROVE  \A id \in listings[l][k].ids : \E o \in options' : o.id = id /\ o.key = k
  BY <1>4 DEF ListingsHold
<1>5. ListingsHold'
  BY <1>1, <1>2, <1>4 DEF ListingsHold
<1>6. RequestsHold'
  BY <1>1, <1>3 DEF RequestsHold
<1> QED
  BY <1>5, <1>6

LEMMA RetireKeeps ==
    ASSUME AnswersInv, NEW o \in options, Form!Retire(o)
    PROVE  AnswersInv'
<1> DEFINE p == [o EXCEPT !.isActive = FALSE]
<1> USE DEF AnswersInv
<1>1. options' = (options \ {o}) \cup {p} /\ UNCHANGED <<questions, born, listings, version, formReqs, crossed>>
  BY DEF Form!Retire
<1>2. p.id = o.id /\ p.key = o.key /\ p.value = o.value /\ p \in Form!Option
  BY DEF Form!TypeOK, Form!Option
<1> HIDE DEF p
<1>3. Form!TypeOK'
  BY <1>1, <1>2 DEF Form!TypeOK
<1>4. born' >= born
  BY <1>1, FormFacts
<1> QED
  BY <1>1, <1>2, <1>3, <1>4, OptionsChange

----------------------------------------------------------------------------
(* The pet form: what the seeder has published *)

ValuesOf(key) == {o.value : o \in Form!AnyOptionOf(key)}

IsPublished(i) ==
    /\ Form!File[i].key \in questions
    /\ ValuesOf(Form!File[i].key) = Form!File[i].values

\* Where the seeder is, and what it has done before it got there.
SeederIsSound ==
    /\ seeder \in {Form!Idle}
           \cup [stage : {"field", "clear", "fill"}, at : DOMAIN Form!File]
           \cup [stage : {"prune", "done"}]
    /\ seeder.stage \in {"clear", "fill"} => Form!File[seeder.at].key \in questions
    /\ seeder.stage = "fill" => Form!AnyOptionOf(Form!File[seeder.at].key) = {}

\* The fields before the one at hand are published, and at the end all of them
\* and no others.
SeederPublishes ==
    /\ seeder.stage \in {"field", "clear", "fill"} =>
          \A i \in DOMAIN Form!File : i < seeder.at => IsPublished(i)
    /\ seeder.stage \in {"prune", "done"} => \A i \in DOMAIN Form!File : IsPublished(i)
    /\ seeder.stage = "done" => questions \subseteq {Form!File[i].key : i \in DOMAIN Form!File}

FormInv == AnswersInv /\ SeederIsSound /\ SeederPublishes

\* Where the seeder stops, starts or is not concerned, what counts is that
\* every question kept its values.
LEMMA SeederRests ==
    ASSUME FormInv, UNCHANGED <<questions, version, seeder>>,
           \A k : ValuesOf(k)' = ValuesOf(k)
    PROVE  (SeederIsSound /\ SeederPublishes)'
<1> USE DEF FormInv
<1>1. Form!File' = Form!File
  BY DEF Form!File
<1>2. \A k : Form!AnyOptionOf(k) = {} <=> ValuesOf(k) = {}
  BY DEF ValuesOf
<1>3. \A k : Form!AnyOptionOf(k)' = {} <=> ValuesOf(k)' = {}
  BY DEF ValuesOf
<1>4. SeederIsSound'
  <2>1. seeder' = seeder /\ questions' = questions /\ SeederIsSound
    OBVIOUS
  <2>2. \A k : Form!AnyOptionOf(k)' = {} <=> Form!AnyOptionOf(k) = {}
    BY <1>2, <1>3
  <2> QED
    BY <1>1, <2>1, <2>2 DEF SeederIsSound
<1>5. \A i : IsPublished(i)' <=> IsPublished(i)
  BY <1>1 DEF IsPublished
<1>6. seeder' = seeder /\ questions' = questions
  OBVIOUS
<1>7. SeederPublishes'
  BY <1>1, <1>5, <1>6 DEF SeederPublishes
<1> QED
  BY <1>4, <1>7

LEMMA SameOptions ==
    ASSUME options' = options
    PROVE  \A k : ValuesOf(k)' = ValuesOf(k) /\ Form!AnyOptionOf(k)' = Form!AnyOptionOf(k)
BY DEF ValuesOf, Form!AnyOptionOf

LEMMA CustomerKeepsForm ==
    ASSUME FormInv, AnswersInv', UNCHANGED <<questions, options, born, version, seeder>>
    PROVE  FormInv'
BY SeederRests, SameOptions DEF FormInv

LEMMA RetireKeepsForm ==
    ASSUME FormInv, NEW o \in options, Form!Retire(o)
    PROVE  FormInv'
<1> DEFINE p == [o EXCEPT !.isActive = FALSE]
<1>1. options' = (options \ {o}) \cup {p} /\ UNCHANGED <<questions, version, seeder>>
  BY DEF Form!Retire
<1>2. p.key = o.key /\ p.value = o.value
  BY DEF FormInv, AnswersInv, Form!TypeOK, Form!Option
<1> HIDE DEF p
<1>3. ASSUME NEW k PROVE ValuesOf(k)' = ValuesOf(k)
  BY <1>1, <1>2 DEF ValuesOf, Form!AnyOptionOf
<1> QED
  BY <1>1, <1>3, RetireKeeps, SeederRests DEF FormInv

\* Only the seeder's place or the deployed file changed.
LEMMA TablesStay ==
    ASSUME AnswersInv, UNCHANGED <<questions, options, born, listings, formReqs, crossed>>,
           version' \in DOMAIN Versions
    PROVE  AnswersInv'
<1>1. \A k, a : Sound(k, a)' <=> Sound(k, a)
  BY DEF Sound, Form!IsOther
<1> QED
  BY <1>1 DEF AnswersInv, Form!TypeOK, ListingsHold, RequestsHold

LEMMA SeederIdles ==
    ASSUME FormInv,
           \/ Form!StopSeeder
           \/ Form!Deploy
    PROVE  FormInv'
<1>1. version' \in DOMAIN Versions
  BY FormAssumption DEF FormInv, AnswersInv, Form!TypeOK, Form!StopSeeder, Form!Deploy
<1>2. AnswersInv'
  BY <1>1, TablesStay DEF FormInv, Form!StopSeeder, Form!Deploy, Form!formVars
<1>3. seeder' = Form!Idle
  BY DEF Form!StopSeeder, Form!Deploy
<1>4. (SeederIsSound /\ SeederPublishes)'
  BY <1>3 DEF SeederIsSound, SeederPublishes, Form!Idle
<1> QED
  BY <1>2, <1>4 DEF FormInv

LEMMA StartKeeps ==
    ASSUME FormInv, Form!StartSeeder
    PROVE  FormInv'
<1>1. AnswersInv' /\ version' = version
  BY TablesStay DEF FormInv, AnswersInv, Form!TypeOK, Form!StartSeeder, Form!formVars
<1>2. seeder' = [stage |-> "field", at |-> 1]
  BY DEF Form!StartSeeder
<1>3. 1 \in DOMAIN Form!File /\ Form!File' = Form!File
  BY <1>1, FileFacts DEF FormInv, AnswersInv, Form!File
<1>4. SeederIsSound'
  BY <1>2, <1>3 DEF SeederIsSound
<1>5. SeederPublishes'
  BY <1>2, <1>3, FileFacts DEF SeederPublishes, FormInv, AnswersInv
<1> QED
  BY <1>1, <1>4, <1>5 DEF FormInv

\* The seeder is at a field of the file.
LEMMA AtField ==
    ASSUME FormInv, seeder.stage \in {"field", "clear", "fill"}
    PROVE  /\ seeder = [stage |-> seeder.stage, at |-> seeder.at]
           /\ seeder.at \in DOMAIN Form!File /\ seeder.at \in 1 .. Len(Form!File)
           /\ Form!File[seeder.at].key \in Keys
BY FileFacts DEF FormInv, AnswersInv, SeederIsSound, Form!Idle

LEMMA UpsertKeeps ==
    ASSUME FormInv, Form!UpsertQuestion
    PROVE  FormInv'
<1> DEFINE i == seeder.at
           key == Form!File[i].key
<1> USE DEF FormInv, AnswersInv
<1>1. /\ seeder.stage = "field" /\ questions' = questions \cup {key}
      /\ seeder' = [seeder EXCEPT !.stage = IF key \in questions THEN "clear" ELSE "fill"]
      /\ UNCHANGED <<options, born, listings, version, formReqs, crossed>>
  BY DEF Form!UpsertQuestion
<1>2. i \in DOMAIN Form!File /\ key \in Keys /\ Form!File' = Form!File
      /\ seeder = [stage |-> seeder.stage, at |-> i]
  BY <1>1, AtField DEF Form!File
<1>3. Form!TypeOK'
  BY <1>1, <1>2 DEF Form!TypeOK
<1>4. AnswersInv'
  BY <1>1, <1>3, FormFacts, OptionsChange
<1>5. seeder' = [stage |-> IF key \in questions THEN "clear" ELSE "fill", at |-> i]
  BY <1>1, <1>2
<1>6. key \notin questions => Form!AnyOptionOf(key) = {}
  BY DEF Form!TypeOK, Form!AnyOptionOf
<1>7. SeederIsSound'
  BY <1>1, <1>2, <1>5, <1>6, SameOptions DEF SeederIsSound
<1>8. \A j : IsPublished(j) => IsPublished(j)'
  BY <1>1, <1>2, SameOptions DEF IsPublished
<1>9. SeederPublishes'
  BY <1>1, <1>2, <1>5, <1>8 DEF SeederPublishes
<1> QED
  BY <1>4, <1>7, <1>9

LEMMA ClearKeeps ==
    ASSUME FormInv, Form!ClearOptions
    PROVE  FormInv'
<1> DEFINE i == seeder.at
           key == Form!File[i].key
<1> USE DEF FormInv, AnswersInv
<1>1. /\ seeder.stage = "clear" /\ options' = options \ Form!AnyOptionOf(key)
      /\ seeder' = [seeder EXCEPT !.stage = "fill"]
      /\ Form!IsFree({key})
      /\ UNCHANGED <<questions, born, listings, version, formReqs, crossed>>
  BY DEF Form!ClearOptions
<1>2. i \in DOMAIN Form!File /\ key \in Keys /\ Form!File' = Form!File
      /\ seeder = [stage |-> "clear", at |-> i] /\ key \in questions
  BY <1>1, AtField DEF Form!File, SeederIsSound
<1>3. Form!TypeOK'
  BY <1>1 DEF Form!TypeOK
<1>4. \A o \in options : o \in options' \/ o.key = key
  BY <1>1 DEF Form!AnyOptionOf
<1>5. \A l \in Pets : listings[l] # NoListing => listings[l][key].ids = {}
  BY <1>1 DEF Form!IsFree
<1>6. AnswersInv'
  BY <1>1, <1>3, <1>4, <1>5, FormFacts, OptionsChange
<1>7. seeder' = [stage |-> "fill", at |-> i]
  BY <1>1, <1>2
<1>8. Form!AnyOptionOf(key)' = {} /\ \A k : k # key => ValuesOf(k)' = ValuesOf(k)
  BY <1>1, <1>2 DEF Form!AnyOptionOf, ValuesOf
<1>9. SeederIsSound'
  BY <1>1, <1>2, <1>7, <1>8 DEF SeederIsSound
<1>10. \A j \in DOMAIN Form!File : j < i /\ IsPublished(j) => IsPublished(j)'
  BY <1>1, <1>2, <1>8, FileFacts DEF IsPublished
<1>11. SeederPublishes'
  BY <1>1, <1>2, <1>7, <1>10 DEF SeederPublishes
<1> QED
  BY <1>6, <1>9, <1>11

\* The options of a field in some order, each once.
LEMMA SetToSeqFacts ==
    ASSUME NEW S, IsFiniteSet(S)
    PROVE  LET f == Form!SetToSeq(S) IN
           /\ Len(f) \in Nat /\ DOMAIN f = 1 .. Len(f)
           /\ S = {f[i] : i \in DOMAIN f}
           /\ \A i, j \in DOMAIN f : f[i] = f[j] => i = j
<1> DEFINE n == Cardinality(S)
           f == Form!SetToSeq(S)
<1>1. n \in Nat /\ ExistsBijection(1 .. n, S)
  BY FS_CardinalityType
<1>2. PICK g \in [1 .. n -> S] : \A i, j \in 1 .. n : g[i] = g[j] => i = j
  BY <1>1 DEF ExistsBijection, Bijection, Injection, IsInjective
<1>3. Form!IsInjective(g)
  BY <1>2 DEF Form!IsInjective
<1>11. Form!Cardinality(S) = n
  BY DEF Form!Cardinality, Cardinality
<1>4. f \in [1 .. n -> S] /\ Form!IsInjective(f)
  BY <1>3, <1>11 DEF Form!SetToSeq
<1>5. DOMAIN f = 1 .. n /\ \A i, j \in 1 .. n : f[i] = f[j] => i = j
  BY <1>4 DEF Form!IsInjective
<1>6. f \in Injection(1 .. n, S)
  BY <1>4, <1>5 DEF Injection, IsInjective
<1>7. Cardinality(1 .. n) = n
  BY <1>1, FS_Interval
<1>8. f \in Surjection(1 .. n, S)
  BY <1>6, <1>7, FS_Injection
<1>9. S = {f[i] : i \in 1 .. n}
  BY <1>4, <1>8 DEF Surjection
<1>10. f \in Seq(S) /\ Len(f) = n
  BY <1>1, <1>4
<1> HIDE DEF f, n
<1> QED
  BY <1>1, <1>5, <1>9, <1>10 DEF f

LEMMA FillKeeps ==
    ASSUME FormInv, Form!FillOptions
    PROVE  FormInv'
<1>0. PICK i, key, values : /\ i = seeder.at /\ key = Form!File[i].key
                            /\ values = Form!File[i].values
  OBVIOUS
<1> DEFINE f == Form!SetToSeq(values)
           row(n) == [id |-> born + n, key |-> key, value |-> f[n], isActive |-> TRUE]
<1> USE DEF FormInv, AnswersInv
<1>1. /\ seeder.stage = "fill" /\ born + Len(f) <= MaxOptions
      /\ options' = options \cup {row(n) : n \in DOMAIN f}
      /\ born' = born + Len(f)
      /\ seeder' = IF i = Len(Form!File) THEN [stage |-> "prune"]
                   ELSE [stage |-> "field", at |-> i + 1]
      /\ UNCHANGED <<questions, listings, version, formReqs, crossed>>
  BY <1>0 DEF Form!FillOptions
<1>2. /\ i \in 1 .. Len(Form!File) /\ i \in DOMAIN Form!File /\ key \in Keys /\ key \in questions
      /\ Form!AnyOptionOf(key) = {} /\ Form!File' = Form!File
      /\ values \subseteq Values /\ IsFiniteSet(values)
  BY <1>0, <1>1, AtField, FileFacts DEF Form!File, SeederIsSound
<1>3. /\ Len(f) \in Nat /\ DOMAIN f = 1 .. Len(f)
      /\ values = {f[n] : n \in DOMAIN f}
      /\ \A m, n \in DOMAIN f : f[m] = f[n] => m = n
  BY <1>2, SetToSeqFacts
<1> HIDE DEF f
<1>4. born \in Nat /\ MaxOptions \in Nat /\ \A o \in options : o.id \in 1 .. born /\ o.key # key
  BY <1>2, FormFacts, FormAssumption DEF Form!AnyOptionOf
<1>5. \A n \in DOMAIN f : /\ row(n).id = born + n /\ row(n).key = key /\ row(n).value = f[n]
                          /\ row(n) \in Form!Option /\ row(n).id \notin 1 .. born
                          /\ row(n).id \in 1 .. born + Len(f)
  BY <1>1, <1>2, <1>3, <1>4 DEF Form!Option
<1> HIDE DEF row
<1>6. \A o, p \in options' : o.id = p.id \/ (o.key = p.key /\ o.value = p.value) => o = p
  <2>1. ASSUME NEW m \in DOMAIN f, NEW n \in DOMAIN f,
               row(m).id = row(n).id \/ row(m).value = row(n).value
        PROVE  row(m) = row(n)
    BY <1>3, <1>4, <1>5, <2>1
  <2>2. ASSUME NEW o \in options, NEW n \in DOMAIN f
        PROVE  o.id # row(n).id /\ o.key # row(n).key
    BY <1>4, <1>5
  <2> QED
    BY <1>1, <2>1, <2>2 DEF Form!TypeOK
<1>7. Form!TypeOK'
  BY <1>1, <1>2, <1>3, <1>4, <1>5, <1>6 DEF Form!TypeOK
<1>8. AnswersInv'
  BY <1>1, <1>3, <1>4, <1>5, <1>7, OptionsChange
<1>9. /\ ValuesOf(key)' = values
      /\ \A k : k # key => ValuesOf(k)' = ValuesOf(k)
  <2>1. ASSUME NEW k, NEW o
        PROVE  o \in Form!AnyOptionOf(k)' <=> \/ o \in Form!AnyOptionOf(k)
                                              \/ k = key /\ \E n \in DOMAIN f : o = row(n)
    BY <1>1, <1>5 DEF Form!AnyOptionOf
  <2>2. Form!AnyOptionOf(key)' = {row(n) : n \in DOMAIN f}
    BY <1>2, <2>1
  <2>3. ValuesOf(key)' = {f[n] : n \in DOMAIN f}
    BY <1>5, <2>2 DEF ValuesOf
  <2>4. ASSUME NEW k, k # key PROVE ValuesOf(k)' = ValuesOf(k)
    BY <2>1, <2>4 DEF ValuesOf
  <2> QED
    BY <1>3, <2>3, <2>4
<1>10. ASSUME NEW j \in DOMAIN Form!File, j <= i
       PROVE  IsPublished(j)'
  <2>1. CASE j = i
    BY <1>0, <1>1, <1>2, <1>9, <2>1 DEF IsPublished
  <2>2. CASE j # i
    <3>1. j < i /\ Form!File[j].key # key
      BY <1>0, <1>2, <1>10, <2>2, FileFacts
    <3>2. IsPublished(j)
      BY <1>0, <1>1, <3>1 DEF SeederPublishes
    <3> QED
      BY <1>1, <1>2, <1>9, <3>1, <3>2 DEF IsPublished
  <2> QED
    BY <2>1, <2>2
<1>11. SeederIsSound'
  BY <1>1, <1>2, FileFacts DEF SeederIsSound
<1>12. SeederPublishes'
  BY <1>1, <1>2, <1>10, FileFacts DEF SeederPublishes
<1> QED
  BY <1>8, <1>11, <1>12

LEMMA PruneKeeps ==
    ASSUME FormInv, Form!Prune
    PROVE  FormInv'
<1> DEFINE asked == {Form!File[i].key : i \in DOMAIN Form!File}
           dropped == questions \ asked
<1> USE DEF FormInv, AnswersInv
<1>1. /\ seeder.stage = "prune" /\ Form!IsFree(dropped)
      /\ questions' = questions \ dropped
      /\ options' = {o \in options : o.key \notin dropped}
      /\ seeder' = [stage |-> "done"]
      /\ UNCHANGED <<born, listings, version, formReqs, crossed>>
  BY DEF Form!Prune
<1>2. Form!File' = Form!File
  BY <1>1 DEF Form!File
<1>3. Form!TypeOK'
  BY <1>1 DEF Form!TypeOK
<1>4. \A l \in Pets : listings[l] # NoListing => \A k \in dropped : listings[l][k].ids = {}
  BY <1>1 DEF Form!IsFree
<1>5. AnswersInv'
  BY <1>1, <1>3, <1>4, FormFacts, OptionsChange
<1>6. \A j \in DOMAIN Form!File : IsPublished(j)'
  <2>1. ASSUME NEW j \in DOMAIN Form!File
        PROVE  IsPublished(j) /\ Form!File[j].key \notin dropped
    BY <1>1 DEF SeederPublishes
  <2>2. ASSUME NEW k, k \notin dropped PROVE ValuesOf(k)' = ValuesOf(k)
    BY <1>1, <2>2 DEF ValuesOf, Form!AnyOptionOf
  <2> QED
    BY <1>1, <1>2, <2>1, <2>2 DEF IsPublished
<1>7. SeederIsSound'
  BY <1>1 DEF SeederIsSound
<1>8. SeederPublishes'
  BY <1>1, <1>2, <1>6 DEF SeederPublishes
<1> QED
  BY <1>5, <1>7, <1>8

LEMMA FormInit == Form!Init => FormInv
<1> SUFFICES ASSUME Form!Init PROVE FormInv
  OBVIOUS
<1>1. /\ questions = {} /\ options = {} /\ born = 0 /\ version = 1 /\ seeder = Form!Idle
      /\ listings = [l \in Pets |-> NoListing] /\ formReqs = [r \in FormRequests |-> Form!Idle]
      /\ crossed = {}
  BY DEF Form!Init
<1>2. 1 \in DOMAIN Versions
  BY FormAssumption
<1>3. Form!TypeOK
  BY <1>1, <1>2, FormAssumption DEF Form!TypeOK
<1>4. ListingsHold /\ RequestsHold
  BY <1>1 DEF ListingsHold, RequestsHold, Form!Idle
<1>5. SeederIsSound /\ SeederPublishes
  BY <1>1 DEF SeederIsSound, SeederPublishes, Form!Idle
<1> QED
  BY <1>3, <1>4, <1>5 DEF FormInv, AnswersInv

LEMMA FormStep == FormInv /\ [Form!Next]_(Form!vars) => FormInv'
<1> SUFFICES ASSUME FormInv, [Form!Next]_(Form!vars) PROVE FormInv'
  OBVIOUS
<1> USE DEF FormInv
<1>0. ASSUME NEW r \in FormRequests, NEW l \in Pets, Form!Load(r, l)
      PROVE  FormInv'
  BY <1>0, LoadKeeps, CustomerKeepsForm DEF Form!Load, Form!formVars
<1>1. ASSUME NEW r \in FormRequests, NEW tokens, Form!Submit(r, tokens)
      PROVE  FormInv'
  BY <1>1, SubmitKeeps, CustomerKeepsForm DEF Form!Submit, Form!formVars
<1>2. ASSUME NEW r \in FormRequests, Form!Resave(r)
      PROVE  FormInv'
  BY <1>1, <1>2 DEF Form!Resave
<1>3. ASSUME NEW r \in FormRequests, Form!Create(r) \/ Form!Save(r)
      PROVE  FormInv'
  BY <1>3, CreateKeeps, SaveKeeps, CustomerKeepsForm DEF Form!Create, Form!Save, Form!Write, Form!formVars
<1>4. ASSUME NEW r \in FormRequests, Form!Fail(r)
      PROVE  FormInv'
  BY <1>4, FormFailKeeps, CustomerKeepsForm DEF Form!Fail, Form!formVars
<1>5. CASE UNCHANGED Form!vars
  <2>1. UNCHANGED <<questions, options, born, listings, version, seeder, formReqs, crossed>>
    BY <1>5 DEF Form!vars, Form!formVars
  <2>2. AnswersInv'
    BY <2>1, TablesStay DEF AnswersInv, Form!TypeOK
  <2> QED
    BY <2>1, <2>2, CustomerKeepsForm
<1>6. CASE Form!Next
  BY <1>0, <1>1, <1>2, <1>3, <1>4, <1>6, RetireKeepsForm, SeederIdles, StartKeeps,
     UpsertKeeps, ClearKeeps, FillKeeps, PruneKeeps DEF Form!Next
<1> QED
  BY <1>5, <1>6

LEMMA FormAlways == Form!Spec => []FormInv
BY FormInit, FormStep, PTL DEF Form!Spec

\* The id and the value of a saved answer name one option, the same.
LEMMA AnswersResolve == FormInv => Form!SavedAnswersStayValid
<1> SUFFICES ASSUME FormInv, NEW l \in Pets, listings[l] # NoListing, NEW k \in Keys
             PROVE  /\ \A id \in listings[l][k].ids : \E o \in options :
                          /\ Form!Match(k, id) = {o}
                          /\ l \notin crossed => /\ o.value \in listings[l][k].values
                                                /\ Form!Match(k, o.value) = {o}
                    /\ l \notin crossed => \A v \in listings[l][k].values :
                          \/ Form!IsOther(k, v)
                          \/ \E o \in options : o.id \in listings[l][k].ids /\ o.value = v
  BY DEF Form!SavedAnswersStayValid
<1> USE DEF FormInv, AnswersInv
<1>0. /\ \A id \in listings[l][k].ids : \E o \in options : o.id = id /\ o.key = k
      /\ l \notin crossed => Sound(k, listings[l][k])
  BY DEF ListingsHold
<1>1. ASSUME NEW id \in listings[l][k].ids
      PROVE  \E o \in options : /\ Form!Match(k, id) = {o}
                                /\ l \notin crossed => /\ o.value \in listings[l][k].values
                                                      /\ Form!Match(k, o.value) = {o}
  <2>1. PICK o \in options : o.id = id /\ o.key = k
    BY <1>0
  <2>2. \A p \in options : p.id # o.value /\ p.value # id
    BY <2>1, FormFacts, FormAssumption
  <2>3. \A p \in options : p.id = o.id \/ (p.key = o.key /\ p.value = o.value) => p = o
    BY DEF Form!TypeOK
  <2>4. Form!Match(k, id) = {o} /\ Form!Match(k, o.value) = {o}
    BY <2>1, <2>2, <2>3 DEF Form!Match, Form!AnyOptionOf
  <2>5. l \notin crossed => o.value \in listings[l][k].values
    BY <1>0, <2>1 DEF Sound
  <2> QED
    BY <2>4, <2>5
<1>2. ASSUME l \notin crossed, NEW v \in listings[l][k].values, ~Form!IsOther(k, v)
      PROVE  \E o \in options : o.id \in listings[l][k].ids /\ o.value = v
  <2>1. PICK id \in listings[l][k].ids : \A o \in options : o.id = id => o.value = v
    BY <1>0, <1>2 DEF Sound
  <2> QED
    BY <1>0, <2>1
<1> QED
  BY <1>1, <1>2

LEMMA PublishedFile == FormInv => Form!PublishedFormIsTheFile
<1> SUFFICES ASSUME FormInv, seeder.stage = "done" PROVE Form!PublishedFormIsTheFile
  BY DEF Form!PublishedFormIsTheFile
<1>1. \A i \in DOMAIN Form!File : IsPublished(i)
  BY DEF FormInv, SeederPublishes
<1>2. questions = {Form!File[i].key : i \in DOMAIN Form!File}
  BY <1>1 DEF FormInv, SeederPublishes, IsPublished
<1> QED
  BY <1>1, <1>2 DEF Form!PublishedFormIsTheFile, IsPublished, ValuesOf, FormInv, AnswersInv, Form!TypeOK

----------------------------------------------------------------------------
(* Seeding *)

OwnerOf(slug) == IF slug = ReviewSlug THEN ReviewPartner ELSE DemoStores[slug]

\* What each seeder may rely on: who owns the stores there are, and that the
\* accounts of demo stores are partners' with the store to come in their token.
SeedsInv ==
    /\ Seeds!TypeOK
    /\ Seeds!OwnersPointAtTheirStore
    /\ \A s \in stores : s.owner = OwnerOf(s.slug)
    /\ \A s \in DOMAIN DemoStores : users[DemoStores[s]] # NoStore
    /\ call.at = "stores" =>
          /\ call.plan \in [DOMAIN call.plan -> 1 .. MaxIds]
          /\ DOMAIN call.plan \subseteq DOMAIN DemoStores
          /\ \A s, t \in DOMAIN call.plan : call.plan[s] = call.plan[t] => s = t
          /\ \A s \in DOMAIN call.plan : users[DemoStores[s]] = call.plan[s]
    /\ call.at = "review-store" => users[ReviewPartner] \in 1 .. MaxIds
    /\ call.at = "questions" => call.new \subseteq categories

\* A call that is at none of the statements that rely on earlier ones.
Fresh(c) == c.at \notin {"stores", "review-store", "questions"}

LEMMA EmailFacts ==
    /\ DemoPartner \in Seeds!Emails /\ ReviewCustomer \in Seeds!Emails
    /\ ReviewPartner \in Seeds!Emails /\ DemoUsers \subseteq Seeds!Emails
    /\ \A s \in DOMAIN DemoStores : DemoStores[s] \in Seeds!Emails /\ s \in Seeds!Slugs
    /\ ReviewSlug \in Seeds!Slugs
    /\ \A s \in Seeds!Slugs : s = ReviewSlug \/ s \in DOMAIN DemoStores
BY SeedsAssumption DEF Seeds!Emails, Seeds!Slugs

LEMMA StoreFacts ==
    ASSUME SeedsInv, NEW s \in stores
    PROVE  /\ s.id \in 1 .. MaxIds /\ s.slug \in Seeds!Slugs /\ s.owner \in Seeds!Emails
           /\ s.owner = OwnerOf(s.slug) /\ users[s.owner] = s.id
           /\ s.owner # ReviewCustomer /\ users[s.owner] # NoUser
<1>1. s \in Seeds!Store /\ s.owner = OwnerOf(s.slug) /\ users[s.owner] = s.id
  BY DEF SeedsInv, Seeds!TypeOK, Seeds!OwnersPointAtTheirStore
<1>2. s.id \in 1 .. MaxIds /\ s.slug \in Seeds!Slugs /\ s.owner \in Seeds!Emails
  BY <1>1 DEF Seeds!Store
<1> QED
  BY <1>1, <1>2, EmailFacts, SeedsAssumption DEF OwnerOf

\* What follows a seeder relies on nothing.
LEMMA AfterIsFresh == \A i \in 1 .. 5 : Fresh(Seeds!After(i))
<1>1. \A i \in 1 .. 5 : Seeds!Seeders[i] \notin {"stores", "review-store", "questions"}
  BY DEF Seeds!Seeders
<1>2. Len(Seeds!Seeders) = 5
  BY DEF Seeds!Seeders
<1> QED
  BY <1>1, <1>2 DEF Fresh, Seeds!After, Seeds!Ended

\* The tables of accounts and stores stay, and so does what relies on them.
LEMMA StoresStay ==
    ASSUME SeedsInv, UNCHANGED <<users, stores, lastId>>, Fresh(call'),
           {form', answered'} \subseteq BOOLEAN, answered' => form',
           asking' \subseteq categories', categories' \subseteq Categories
    PROVE  SeedsInv'
BY DEF SeedsInv, Seeds!TypeOK, Seeds!OwnersPointAtTheirStore, Fresh

LEMMA RefusedKeeps ==
    ASSUME SeedsInv, Seeds!Refused, answered' = answered
    PROVE  SeedsInv'
<1>1. Fresh(call')
  BY DEF Seeds!Refused, Fresh
<1> QED
  BY <1>1, StoresStay DEF Seeds!Refused, Seeds!tables, SeedsInv, Seeds!TypeOK

\* Calls, and the statements that leave accounts and stores alone.
LEMMA CallKeeps ==
    ASSUME SeedsInv,
           \/ Seeds!SeedAll
           \/ \E i \in DOMAIN Seeds!Seeders : Seeds!SeedOne(i)
           \/ Seeds!Crash
           \/ Seeds!InsertProfiles
           \/ Seeds!PublishForm
           \/ Seeds!InsertReviewProfile
           \/ Seeds!InsertQuestions
    PROVE  SeedsInv'
<1> USE DEF SeedsInv, Seeds!TypeOK, Seeds!tables
<1>1. CASE Seeds!SeedAll
  BY <1>1, StoresStay DEF Seeds!SeedAll, Fresh, Seeds!Seeders
<1>2. ASSUME NEW i \in DOMAIN Seeds!Seeders, Seeds!SeedOne(i) PROVE SeedsInv'
  <2>1. i \in 1 .. 5 /\ Fresh(call')
    BY <1>2 DEF Seeds!SeedOne, Fresh, Seeds!Seeders
  <2> QED
    BY <1>2, <2>1, StoresStay DEF Seeds!SeedOne
<1>3. CASE Seeds!Crash
  BY <1>3, StoresStay DEF Seeds!Crash, Fresh, Seeds!Ended
<1>4. CASE Seeds!InsertProfiles
  BY <1>4, RefusedKeeps, StoresStay, AfterIsFresh DEF Seeds!InsertProfiles
<1>5. CASE Seeds!PublishForm
  <2>1. CASE answered
    BY <1>5, <2>1, RefusedKeeps DEF Seeds!PublishForm
  <2>2. CASE ~answered
    <3>1. form' = TRUE /\ Fresh(call') /\ UNCHANGED <<users, stores, lastId, answered, categories, asking>>
      BY <1>5, <2>2, AfterIsFresh DEF Seeds!PublishForm
    <3>2. {form', answered'} \subseteq BOOLEAN
      BY <3>1
    <3> QED
      BY <3>1, <3>2, StoresStay
  <2> QED
    BY <2>1, <2>2
<1>6. CASE Seeds!InsertReviewProfile
  BY <1>6, RefusedKeeps DEF Seeds!InsertReviewProfile
<1>7. CASE Seeds!InsertQuestions
  BY <1>7, StoresStay, AfterIsFresh DEF Seeds!InsertQuestions
<1> QED
  BY <1>1, <1>2, <1>3, <1>4, <1>5, <1>6, <1>7

LEMMA PublishKeeps == ASSUME SeedsInv, Seeds!Publish PROVE SeedsInv'
BY DEF Seeds!Publish, Seeds!tables, SeedsInv, Seeds!TypeOK, Seeds!OwnersPointAtTheirStore

LEMMA CategoriesKeep == ASSUME SeedsInv, Seeds!InsertCategories PROVE SeedsInv'
<1>1. call'.at = "questions" /\ call'.new = Categories \ categories
  BY DEF Seeds!InsertCategories
<1> QED
  BY <1>1 DEF Seeds!InsertCategories, SeedsInv, Seeds!TypeOK, Seeds!OwnersPointAtTheirStore

\* Accounts change, but none that owns a store, and none of a demo store's
\* owner to a customer's.
LEMMA AccountsChange ==
    ASSUME SeedsInv, UNCHANGED <<stores, form, answered, categories, asking>>,
           users' \in [Seeds!Emails -> {NoUser, NoStore} \cup 1 .. MaxIds],
           lastId' \in 0 .. MaxIds,
           \A s \in stores : users'[s.owner] = users[s.owner],
           \A s \in DOMAIN DemoStores : users'[DemoStores[s]] # NoStore
    PROVE  /\ Seeds!TypeOK' /\ Seeds!OwnersPointAtTheirStore'
           /\ \A s \in stores' : s.owner = OwnerOf(s.slug)
BY DEF SeedsInv, Seeds!TypeOK, Seeds!OwnersPointAtTheirStore

LEMMA DemoUsersKeep == ASSUME SeedsInv, Seeds!InsertDemoUsers PROVE SeedsInv'
<1>1. /\ users[DemoPartner] = NoUser => lastId < MaxIds
      /\ users' = [e \in Seeds!Emails |->
                     IF e \in DemoUsers /\ users[e] = NoUser
                     THEN IF e = DemoPartner THEN lastId + 1 ELSE NoStore
                     ELSE users[e]]
      /\ lastId' = IF users[DemoPartner] = NoUser THEN lastId + 1 ELSE lastId
      /\ Fresh(call')
      /\ UNCHANGED <<stores, form, answered, categories, asking>>
  BY AfterIsFresh DEF Seeds!InsertDemoUsers
<1>2. users \in [Seeds!Emails -> {NoUser, NoStore} \cup 1 .. MaxIds] /\ lastId \in 0 .. MaxIds
  BY DEF SeedsInv, Seeds!TypeOK
<1>3. users[DemoPartner] = NoUser => lastId + 1 \in 1 .. MaxIds
  BY <1>1, <1>2, SeedsAssumption
<1>4. /\ users' \in [Seeds!Emails -> {NoUser, NoStore} \cup 1 .. MaxIds]
      /\ lastId' \in 0 .. MaxIds
  BY <1>1, <1>2, <1>3
<1>5. \A s \in stores : users'[s.owner] = users[s.owner]
  BY <1>1, StoreFacts
<1>6. \A s \in DOMAIN DemoStores : users'[DemoStores[s]] # NoStore
  BY <1>1, <1>3, EmailFacts, SeedsAssumption DEF SeedsInv
<1> QED
  BY <1>1, <1>4, <1>5, <1>6, AccountsChange DEF SeedsInv, Fresh

\* The ids drawn for missing stores are those above the newest one.
LEMMA DrawnIds ==
    ASSUME NEW M, IsFiniteSet(M), NEW plan \in [M -> 1 .. MaxIds], NEW n \in 0 .. MaxIds,
           \A s, t \in M : plan[s] = plan[t] => s = t
    PROVE  n + Cardinality({s \in M : plan[s] > n}) \in 0 .. MaxIds
<1> DEFINE D == {s \in M : plan[s] > n}
           f == [s \in D |-> plan[s]]
<1>1. n \in Nat /\ MaxIds \in Nat /\ n <= MaxIds
  BY SeedsAssumption
<1>2. IsFiniteSet(D) /\ Cardinality(D) \in Nat
  BY FS_Subset, FS_CardinalityType
<1>3. f \in [D -> n + 1 .. MaxIds]
  BY <1>1
<1>4. f \in Injection(D, n + 1 .. MaxIds)
  BY <1>3 DEF Injection, IsInjective
<1>5. IsFiniteSet(n + 1 .. MaxIds) /\ Cardinality(n + 1 .. MaxIds) = MaxIds - n
  <2>1. n + 1 \in Int /\ MaxIds \in Int
    BY <1>1
  <2>2. IsFiniteSet(n + 1 .. MaxIds) /\ Cardinality(n + 1 .. MaxIds) = IF n + 1 > MaxIds THEN 0 ELSE MaxIds - (n + 1) + 1
    BY <2>1, FS_Interval
  <2> QED
    BY <1>1, <2>2
<1>6. Cardinality(D) <= MaxIds - n
  BY <1>4, <1>5, FS_Injection
<1> QED
  BY <1>1, <1>2, <1>6

LEMMA SeedsCardinality == \A S : Seeds!Cardinality(S) = Cardinality(S)
BY DEF Seeds!Cardinality, Cardinality

LEMMA OwnersKeep == ASSUME SeedsInv, Seeds!InsertOwners PROVE SeedsInv'
<1> DEFINE M == Seeds!MissingStores
<1>1. PICK plan \in [M -> 1 .. MaxIds] :
          /\ \A s \in DOMAIN plan :
                IF users[DemoStores[s]] \in 1 .. MaxIds
                THEN plan[s] = users[DemoStores[s]]
                ELSE plan[s] > lastId
          /\ \A s, t \in M : plan[s] = plan[t] => s = t
          /\ users' = [e \in Seeds!Emails |->
                 IF users[e] # NoUser \/ \A s \in M : DemoStores[s] # e
                 THEN users[e]
                 ELSE plan[CHOOSE s \in M : DemoStores[s] = e]]
          /\ lastId' = lastId + Cardinality({s \in M : plan[s] > lastId})
          /\ call' = [at |-> "stores", alone |-> call.alone, plan |-> plan]
          /\ UNCHANGED <<stores, form, answered, categories, asking>>
  BY SeedsCardinality DEF Seeds!InsertOwners, Seeds!ReusesPlaceholders
<1>2. /\ users \in [Seeds!Emails -> {NoUser, NoStore} \cup 1 .. MaxIds] /\ lastId \in 0 .. MaxIds
      /\ M \subseteq DOMAIN DemoStores
  BY DEF SeedsInv, Seeds!TypeOK, Seeds!MissingStores
<1>3. IsFiniteSet(M)
  BY <1>2, SeedsAssumption, FS_Subset
<1>4. lastId' \in 0 .. MaxIds
  BY <1>1, <1>2, <1>3, DrawnIds
<1> HIDE DEF M
<1>5. ASSUME NEW s \in M PROVE (CHOOSE t \in M : DemoStores[t] = DemoStores[s]) = s
  BY <1>2, SeedsAssumption
<1>6. \A s \in M : users'[DemoStores[s]] = plan[s]
  <2> SUFFICES ASSUME NEW s \in M PROVE users'[DemoStores[s]] = plan[s]
    OBVIOUS
  <2>1. DemoStores[s] \in Seeds!Emails /\ users[DemoStores[s]] # NoStore
    BY <1>2, EmailFacts DEF SeedsInv
  <2>2. CASE users[DemoStores[s]] = NoUser
    BY <1>1, <1>5, <2>1, <2>2
  <2>3. CASE users[DemoStores[s]] # NoUser
    BY <1>1, <1>2, <2>1, <2>3
  <2> QED
    BY <2>2, <2>3
<1>7. ASSUME NEW e \in Seeds!Emails
      PROVE  users'[e] = users[e] \/ \E s \in M : e = DemoStores[s] /\ users[e] = NoUser
  BY <1>1
<1>8. users' \in [Seeds!Emails -> {NoUser, NoStore} \cup 1 .. MaxIds]
  <2>1. \A e \in Seeds!Emails : users'[e] \in {NoUser, NoStore} \cup 1 .. MaxIds
    BY <1>1, <1>2, <1>6, <1>7
  <2>2. users' = [e \in Seeds!Emails |-> users'[e]]
    BY <1>1
  <2> QED
    BY <2>1, <2>2
<1>9. \A s \in stores : users'[s.owner] = users[s.owner]
  BY <1>7, StoreFacts
<1>10. \A s \in DOMAIN DemoStores : users'[DemoStores[s]] # NoStore
  BY <1>1, <1>6, <1>7, EmailFacts, SeedsAssumption DEF SeedsInv
<1>11. Seeds!TypeOK' /\ Seeds!OwnersPointAtTheirStore' /\ \A s \in stores' : s.owner = OwnerOf(s.slug)
  BY <1>1, <1>4, <1>8, <1>9, <1>10, AccountsChange
<1>12. call'.at = "stores" /\ call'.plan = plan /\ DOMAIN plan = M
  BY <1>1
<1> QED
  BY <1>1, <1>2, <1>6, <1>10, <1>11, <1>12 DEF SeedsInv

\* New stores of owners whose accounts point at them.
LEMMA StoresGrow ==
    ASSUME SeedsInv, NEW new, Seeds!Inserts(new), new \subseteq Seeds!Store,
           \A s, t \in new : s.id = t.id \/ s.slug = t.slug \/ s.owner = t.owner => s = t,
           \A s \in new : s.owner = OwnerOf(s.slug) /\ users[s.owner] = s.id,
           stores' = stores \cup new, Fresh(call'),
           UNCHANGED <<users, lastId, form, answered, categories, asking>>
    PROVE  SeedsInv'
<1> USE DEF SeedsInv
<1>1. \A s, t \in stores' : s.id = t.id \/ s.slug = t.slug \/ s.owner = t.owner => s = t
  BY DEF Seeds!TypeOK, Seeds!Inserts
<1>2. Seeds!TypeOK'
  BY <1>1 DEF Seeds!TypeOK
<1>3. Seeds!OwnersPointAtTheirStore' /\ \A s \in stores' : s.owner = OwnerOf(s.slug)
  BY DEF Seeds!OwnersPointAtTheirStore
<1> QED
  BY <1>2, <1>3 DEF Fresh

LEMMA StoresKeep == ASSUME SeedsInv, Seeds!InsertStores PROVE SeedsInv'
<1> DEFINE new == Seeds!Planned
           row(s) == [id |-> call.plan[s], slug |-> s, owner |-> DemoStores[s]]
<1>1. CASE ~Seeds!Inserts(new)
  BY <1>1, RefusedKeeps DEF Seeds!InsertStores
<1>2. CASE Seeds!Inserts(new)
  <2>1. /\ call.at = "stores" /\ stores' = stores \cup new /\ Fresh(call')
        /\ UNCHANGED <<users, lastId, form, answered, categories, asking>>
    BY <1>2 DEF Seeds!InsertStores, Fresh
  <2>2. /\ call.plan \in [DOMAIN call.plan -> 1 .. MaxIds]
        /\ DOMAIN call.plan \subseteq DOMAIN DemoStores
        /\ \A s, t \in DOMAIN call.plan : call.plan[s] = call.plan[t] => s = t
        /\ \A s \in DOMAIN call.plan : users[DemoStores[s]] = call.plan[s]
    BY <2>1 DEF SeedsInv
  <2>3. new = {row(s) : s \in DOMAIN call.plan}
    BY DEF Seeds!Planned
  <2>4. \A s \in DOMAIN call.plan : /\ row(s) \in Seeds!Store
                                    /\ row(s).id = call.plan[s] /\ row(s).slug = s
                                    /\ row(s).owner = DemoStores[s] /\ OwnerOf(s) = DemoStores[s]
    BY <2>2, EmailFacts, SeedsAssumption DEF Seeds!Store, OwnerOf
  <2> HIDE DEF new, row
  <2>5. new \subseteq Seeds!Store
    BY <2>3, <2>4
  <2>6. \A s, t \in new : s.id = t.id \/ s.slug = t.slug \/ s.owner = t.owner => s = t
    <3>1. ASSUME NEW s \in DOMAIN call.plan, NEW t \in DOMAIN call.plan,
                 row(s).id = row(t).id \/ row(s).slug = row(t).slug \/ row(s).owner = row(t).owner
          PROVE  s = t
      BY <2>2, <2>4, <3>1, SeedsAssumption
    <3> QED
      BY <2>3, <3>1
  <2>7. \A s \in new : s.owner = OwnerOf(s.slug) /\ users[s.owner] = s.id
    BY <2>2, <2>3, <2>4
  <2> QED
    BY <1>2, <2>1, <2>5, <2>6, <2>7, StoresGrow
<1> QED
  BY <1>1, <1>2

LEMMA ReviewCustomerKeeps == ASSUME SeedsInv, Seeds!UpsertReviewCustomer PROVE SeedsInv'
<1>1. /\ users' = [users EXCEPT ![ReviewCustomer] = NoStore] /\ Fresh(call')
      /\ UNCHANGED <<stores, lastId, form, answered, categories, asking>>
  BY DEF Seeds!UpsertReviewCustomer, Fresh
<1>2. /\ users' \in [Seeds!Emails -> {NoUser, NoStore} \cup 1 .. MaxIds] /\ lastId' \in 0 .. MaxIds
      /\ \A e \in Seeds!Emails \ {ReviewCustomer} : users'[e] = users[e]
  BY <1>1 DEF SeedsInv, Seeds!TypeOK
<1>3. \A s \in stores : users'[s.owner] = users[s.owner]
  BY <1>2, StoreFacts
<1>4. \A s \in DOMAIN DemoStores : users'[DemoStores[s]] # NoStore
  BY <1>2, EmailFacts, SeedsAssumption DEF SeedsInv
<1> QED
  BY <1>1, <1>2, <1>3, <1>4, AccountsChange DEF SeedsInv, Fresh

LEMMA ReviewPartnerKeeps == ASSUME SeedsInv, Seeds!UpsertReviewPartner PROVE SeedsInv'
<1>1. PICK id \in 1 .. MaxIds :
          /\ \/ \E s \in stores : s.slug = ReviewSlug /\ s.id = id
             \/ /\ \A s \in stores : s.slug # ReviewSlug
                /\ users[ReviewPartner] \in 1 .. MaxIds => id = users[ReviewPartner]
          /\ users' = [users EXCEPT ![ReviewPartner] = id]
          /\ lastId' = IF id > lastId THEN id ELSE lastId
          /\ call' = [at |-> "review-store", alone |-> call.alone]
          /\ UNCHANGED <<stores, form, answered, categories, asking>>
  BY DEF Seeds!UpsertReviewPartner
<1>2. users[ReviewPartner] \in 1 .. MaxIds => users[ReviewPartner] = id
  BY <1>1, StoreFacts DEF OwnerOf
<1>3. users \in [Seeds!Emails -> {NoUser, NoStore} \cup 1 .. MaxIds] /\ lastId \in 0 .. MaxIds
  BY DEF SeedsInv, Seeds!TypeOK
<1>4. /\ users' \in [Seeds!Emails -> {NoUser, NoStore} \cup 1 .. MaxIds]
      /\ users'[ReviewPartner] = id
      /\ \A e \in Seeds!Emails \ {ReviewPartner} : users'[e] = users[e]
  BY <1>1, <1>3, EmailFacts
<1>5. lastId' \in 0 .. MaxIds
  BY <1>1, <1>3, SeedsAssumption
<1>6. \A s \in stores : users'[s.owner] = users[s.owner]
  BY <1>2, <1>4, StoreFacts
<1>7. \A s \in DOMAIN DemoStores : users'[DemoStores[s]] # NoStore
  BY <1>4, EmailFacts, SeedsAssumption DEF SeedsInv
<1>8. call'.at = "review-store"
  BY <1>1
<1> QED
  BY <1>1, <1>4, <1>5, <1>6, <1>7, <1>8, AccountsChange DEF SeedsInv

LEMMA ReviewStoreKeeps == ASSUME SeedsInv, Seeds!UpsertReviewStore PROVE SeedsInv'
<1> DEFINE new == [id |-> users[ReviewPartner], slug |-> ReviewSlug, owner |-> ReviewPartner]
<1>1. CASE (\E s \in stores : s.slug = ReviewSlug) /\ call' = Seeds!After(4)
              /\ UNCHANGED <<Seeds!tables, answered>>
  BY <1>1, StoresStay, AfterIsFresh DEF Seeds!tables, SeedsInv, Seeds!TypeOK
<1>2. CASE Seeds!Refused /\ answered' = answered
  BY <1>2, RefusedKeeps
<1>3. CASE /\ Seeds!Inserts({new}) /\ stores' = stores \cup {new} /\ call.at = "review-store"
           /\ call' = [at |-> "review-profile", alone |-> call.alone]
           /\ UNCHANGED <<users, lastId, form, answered, categories, asking>>
  <2>1. Fresh(call')
    BY <1>3 DEF Fresh
  <2>2. /\ new \in Seeds!Store /\ new.owner = OwnerOf(new.slug) /\ users[new.owner] = new.id
    BY <1>3, EmailFacts DEF SeedsInv, Seeds!Store, OwnerOf
  <2> HIDE DEF new
  <2> QED
    BY <1>3, <2>1, <2>2, StoresGrow
<1> QED
  BY <1>1, <1>2, <1>3 DEF Seeds!UpsertReviewStore

LEMMA SeedsInit == Seeds!Init => SeedsInv
<1> SUFFICES ASSUME Seeds!Init PROVE SeedsInv
  OBVIOUS
<1>1. Seeds!TypeOK
  <2>1. users \in [Seeds!Emails -> {NoUser, NoStore} \cup 1 .. MaxIds] /\ lastId \in 0 .. MaxIds
    BY SeedsAssumption DEF Seeds!Init
  <2>2. {form, answered} \subseteq BOOLEAN /\ (answered => form)
    BY DEF Seeds!Init
  <2>3. stores = {} /\ categories = {} /\ asking = {}
    BY DEF Seeds!Init
  <2> QED
    BY <2>1, <2>2, <2>3 DEF Seeds!TypeOK
<1>2. Seeds!OwnersPointAtTheirStore /\ stores = {}
  BY DEF Seeds!Init, Seeds!OwnersPointAtTheirStore
<1>3. \A s \in DOMAIN DemoStores : users[DemoStores[s]] # NoStore
  BY EmailFacts, SeedsAssumption DEF Seeds!Init
<1>4. Fresh(call)
  BY DEF Seeds!Init, Seeds!Ended, Fresh
<1> QED
  BY <1>1, <1>2, <1>3, <1>4 DEF SeedsInv, Fresh

LEMMA SeedsStep == SeedsInv /\ [Seeds!Next]_(Seeds!vars) => SeedsInv'
<1> SUFFICES ASSUME SeedsInv, [Seeds!Next]_(Seeds!vars) PROVE SeedsInv'
  OBVIOUS
<1>1. CASE UNCHANGED Seeds!vars
  BY <1>1 DEF Seeds!vars, Seeds!tables, SeedsInv, Seeds!TypeOK, Seeds!OwnersPointAtTheirStore
<1>2. CASE Seeds!Next
  BY <1>2, CallKeeps, PublishKeeps, CategoriesKeep, DemoUsersKeep, OwnersKeep, StoresKeep,
     ReviewCustomerKeeps, ReviewPartnerKeeps, ReviewStoreKeeps DEF Seeds!Next
<1> QED
  BY <1>1, <1>2

LEMMA SeedsAlways == Seeds!Spec => []SeedsInv
BY SeedsInit, SeedsStep, PTL DEF Seeds!Spec

----------------------------------------------------------------------------
(* Places: the label agrees with the filter for every dataset and every table *)
(* of former names, not only for the real ones. *)

\* The places of a city, under whichever of its names.
LEMMA StatesOfFinite ==
    ASSUME NEW city
    PROVE  IsFiniteSet(StatesOf(city))
<1> DEFINE name  == IF city \in Aliases THEN CITY_ALIASES[city] ELSE city
           found == {p \in PLACES : p.name = name}
           state == [p \in found |-> p.state]
<1>1. IsFiniteSet(found)
  BY PlacesAssumption, FS_Subset
<1>2. StatesOf(city) = {p.state : p \in found}
  BY DEF StatesOf
<1>3. state \in Surjection(found, StatesOf(city))
  BY <1>2 DEF Surjection
<1> QED
  BY <1>1, <1>3, FS_Surjection

\* A state that a city is given is one of its states, and the only one.
LEMMA StateOfCityIsItsState ==
    ASSUME NEW city, StateOfCity(city) # None
    PROVE  StateOfCity(city) \in StatesOf(city)
<1>1. Cardinality(StatesOf(city)) = 1
  BY DEF StateOfCity
<1>2. StatesOf(city) # {}
  BY <1>1, StatesOfFinite, FS_EmptySet
<1> QED
  BY <1>1, <1>2 DEF StateOfCity

\* No city is in the state null, and null is no city.
LEMMA NoneIsNoPlace ==
    ASSUME NEW city
    PROVE  None \notin StatesOf(city)
BY PlacesAssumption DEF StatesOf

\* Whoever browses a state of a city browses that city, under all its names.
LEMMA CityIsInItsState ==
    ASSUME NEW city, NEW state \in StatesOf(city)
    PROVE  city \in CitiesInState(state)
<1>1. PICK p \in PLACES : /\ p.name = (IF city \in Aliases THEN CITY_ALIASES[city] ELSE city)
                          /\ p.state = state
  BY DEF StatesOf
<1>2. p.name \in CitiesIn(state)
  BY <1>1 DEF CitiesIn
<1> QED
  BY <1>1, <1>2 DEF CitiesInState

\* The state that locationOf puts on a card is one whose filter finds the
\* listing, whoever published it and whatever of its location is there.
THEOREM LabelIsAlwaysFound ==
    ASSUME NEW row \in Rows, LocationOf(row).state # None
    PROVE  MatchesState(row, LocationOf(row).state)
<1> DEFINE source == IF HasOwn(row) THEN row.own ELSE row.store
<1>1. CASE source.state # None
  <2>1. LocationOf(row).state = source.state
    BY <1>1 DEF LocationOf
  <2>2. source.state \in {row.own.state, row.store.state}
    OBVIOUS
  <2> QED
    BY <2>1, <2>2 DEF MatchesState
<1>2. CASE source.state = None
  <2>1. LocationOf(row).state = StateOfCity(source.city)
    BY <1>2 DEF LocationOf
  <2>2. StateOfCity(source.city) \in StatesOf(source.city)
    BY <2>1, StateOfCityIsItsState
  <2>3. source.city \in CitiesInState(StateOfCity(source.city))
    BY <2>2, CityIsInItsState
  <2>4. source.city \in {row.own.city, row.store.city}
    OBVIOUS
  <2> QED
    BY <2>1, <2>3, <2>4 DEF MatchesState
<1> QED
  BY <1>1, <1>2

\* A city that several states share belongs to none of them.
LEMMA SharedCityHasNoState ==
    ASSUME NEW city, Cardinality(StatesOf(city)) > 1
    PROVE  StateOfCity(city) = None
<1>1. Cardinality(StatesOf(city)) \in Nat
  BY StatesOfFinite, FS_CardinalityType
<1> QED
  BY <1>1 DEF StateOfCity

\* The property the run evaluates on a few places, for every dataset.
THEOREM LabelFound == LabelIsFound
BY LabelIsAlwaysFound, SharedCityHasNoState DEF LabelIsFound

----------------------------------------------------------------------------
(* All of them together *)

\* A behaviour of the whole is a behaviour of each part.
LEMMA AllParts == AllSpec => TurnSpec /\ Hearts!Spec /\ Form!Spec /\ Seeds!Spec
<1>1. AllInit => TurnInit /\ Hearts!Init /\ Form!Init /\ Seeds!Init
  BY DEF AllInit
<1>2. [AllNext]_allVars => /\ [TurnNext]_turnVars /\ [Hearts!Next]_(Hearts!vars)
                           /\ [Form!Next]_(Form!vars) /\ [Seeds!Next]_(Seeds!vars)
  BY DEF AllNext, allVars, turnVars, vars, hearVars, petVars, seedVars,
         Hearts!vars, Form!vars, Form!formVars, Seeds!vars, Seeds!tables
<1> QED
  BY <1>1, <1>2, PTL DEF AllSpec, TurnSpec, Hearts!Spec, Form!Spec, Seeds!Spec

\* The tables of every part hold what they can hold.
THEOREM TypesCorrect == AllSpec => []TypesOK
<1>1. TurnInv /\ HeartsInv /\ FormInv /\ SeedsInv => TypesOK
  BY DEF TurnInv, HeartsInv, FormInv, AnswersInv, SeedsInv, TypesOK
<1>2. TurnSpec => []TurnInv
  BY TurnStart, TurnStep, PTL DEF TurnSpec
<1> QED
  BY <1>1, <1>2, AllParts, HeartsAlways, FormAlways, SeedsAlways, PTL

\* wishlist.service.js: taps that all looked before one of them wrote flip the
\* heart once, for any number of taps, whichever of them fail.
THEOREM OverlappingTapsAlwaysFlipOnce == AllSpec => []OverlappingTapsFlipOnce
<1>1. HeartsInv => OverlappingTapsFlipOnce
  <2> SUFFICES ASSUME HeartsInv, NEW i \in Items, burst[i].wrote, burst[i].together
               PROVE  Hearts!Heart(i) = ~burst[i].was /\ burst[i].answers = {Hearts!Heart(i)}
    BY DEF OverlappingTapsFlipOnce, Hearts!OverlappingTapsFlipOnce
  <2>1. (Hearts!Heart(i) <=> ~burst[i].was) /\ burst[i].answers = {~burst[i].was}
    BY DEF HeartsInv, BurstIsSound
  <2>2. Hearts!Heart(i) = ~burst[i].was
    BY <2>1, HeartIsBoolean
  <2> QED
    BY <2>1, <2>2
<1> QED
  BY <1>1, AllParts, HeartsAlways, PTL

\* petAnswerValidation.service.js and replaceChoiceRows: whatever was retired,
\* shipped or re-seeded, and whichever edits overlapped, every id a listing was
\* saved with resolves to its option.  Its strings do too, and name the same
\* options, unless its last save was over a row that had changed since it was
\* loaded: columns are saved by difference, choice rows wholesale.
THEOREM SavedAnswersAlwaysStayValid == AllSpec => []SavedAnswersStayValid
<1>1. FormInv => SavedAnswersStayValid
  BY AnswersResolve DEF SavedAnswersStayValid
<1> QED
  BY <1>1, AllParts, FormAlways, PTL

\* The form's seeder: a run that ends leaves the file's form, however many runs
\* before it were interrupted.
THEOREM PublishedFormIsAlwaysTheFile == AllSpec => []PublishedFormIsTheFile
<1>1. FormInv => PublishedFormIsTheFile
  BY PublishedFile DEF PublishedFormIsTheFile
<1> QED
  BY <1>1, AllParts, FormAlways, PTL

\* The seeders of accounts: whoever owns a store has it in the token, in whatever
\* order seeders ran and wherever they stopped.
THEOREM OwnersAlwaysPointAtTheirStore == AllSpec => []OwnersPointAtTheirStore
<1>1. SeedsInv => OwnersPointAtTheirStore
  BY DEF SeedsInv, OwnersPointAtTheirStore
<1> QED
  BY <1>1, AllParts, SeedsAlways, PTL

\* indiaLocations.js: the card's state is one whose filter finds the listing.
THEOREM LabelsAreAlwaysFound == AllSpec => []LabelsAreFound
<1>1. LabelsAreFound
  BY LabelFound DEF LabelsAreFound
<1> QED
  BY <1>1, PTL

=============================================================================
