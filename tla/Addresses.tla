----------------------------- MODULE Addresses -----------------------------
(***************************************************************************)
(* A customer's saved addresses and the one of them that is the default:   *)
(* services/customer/address.service.js.                                   *)
(*                                                                         *)
(* Every handler is one database transaction.  Its reads come from the     *)
(* snapshot its first read takes; its writes act on the rows as they are   *)
(* by then, keep them locked to the end and become visible together.  So a *)
(* handler is two steps, the snapshot and the commit, and what it decides  *)
(* in the second rests on the first.                                       *)
(***************************************************************************)
EXTENDS Naturals, Sequences, Sequelize

CONSTANTS
    Customers,      \* accounts that keep addresses
    Requests,       \* the requests that may be in flight at one time
    MaxAddresses    \* bound: the addresses that are created

ASSUME AddressesAssumption ==
    /\ MaxAddresses \in Nat
    /\ "nobody" \notin Customers

VARIABLES
    addresses,      \* user_addresses, in order of creation
    reqs            \* what each request in flight holds

vars == <<addresses, reqs>>

----------------------------------------------------------------------------
(* Rows and requests *)

Address == [owner : Customers, isDefault : BOOLEAN]

Deleted == [owner |-> "nobody"]

NoAddress == 0

Idle == [stage |-> "idle"]

\* A request that patches says "unset" when its body has no isDefault; seen is
\* the flag of the row it loaded; next the oldest other address of the owner.
Request == {Idle}
    \cup [stage : {"creating"}, owner : Customers, isDefault : BOOLEAN]
    \cup [stage : {"updating"}, owner : Customers, id : Nat \ {0}, seen : BOOLEAN,
          asked : BOOLEAN]
    \cup [stage : {"removing"}, owner : Customers, id : Nat \ {0}, seen : BOOLEAN,
          next : Nat, nextSeen : BOOLEAN]

Become(r, request) == reqs' = [reqs EXCEPT ![r] = request]

Existing == {a \in DOMAIN addresses : addresses[a] # Deleted}

AddressesOf(u) == {a \in Existing : addresses[a].owner = u}

Defaults(u) == {a \in AddressesOf(u) : addresses[a].isDefault}

\* ensureSingleDefault: the rows after the flag is cleared on all the
\* customer's addresses but the one spared.
SingleDefault(rows, u, spared) ==
    [a \in DOMAIN rows |->
        IF rows[a].owner = u /\ a # spared THEN [rows[a] EXCEPT !.isDefault = FALSE]
                                           ELSE rows[a]]

----------------------------------------------------------------------------
(* Handlers *)

Init ==
    /\ addresses = <<>>
    /\ reqs = [r \in Requests |-> Idle]

\* create up to its writes: a first address is the default unasked.
Create(r, u, asked) ==
    /\ reqs[r] = Idle
    /\ Become(r, [stage |-> "creating", owner |-> u,
                  isDefault |-> asked \/ AddressesOf(u) = {}])
    /\ UNCHANGED addresses

CommitCreate(r) ==
    /\ reqs[r].stage = "creating"
    /\ Len(addresses) < MaxAddresses
    /\ LET q == reqs[r]
           others == IF q.isDefault THEN SingleDefault(addresses, q.owner, NoAddress)
                                    ELSE addresses IN
          addresses' = Append(others, [owner |-> q.owner, isDefault |-> q.isDefault])
    /\ Become(r, Idle)

\* Mutant: the address is looked up by its id alone.
UpdateAnyones(r, a, asked) ==
    /\ reqs[r] = Idle
    /\ \E u \in Customers :
          Become(r, [stage |-> "updating", owner |-> u, id |-> a,
                     seen |-> addresses[a].isDefault, asked |-> asked])
    /\ UNCHANGED addresses

\* update up to its writes, with isDefault in the body; an update without it
\* leaves the flags alone.
Update(r, a, asked) ==
    /\ reqs[r] = Idle
    /\ Become(r, [stage |-> "updating", owner |-> addresses[a].owner, id |-> a,
                  seen |-> addresses[a].isDefault, asked |-> asked])
    /\ UNCHANGED addresses

\* The others are cleared whether or not the row is still there to be set, or
\* its own flag has to be sent.
CommitUpdate(r) ==
    /\ reqs[r].stage = "updating"
    /\ LET q == reqs[r]
           others == IF q.asked THEN SingleDefault(addresses, q.owner, q.id)
                                ELSE addresses IN
          addresses' =
              IF q.id \in Existing
              THEN [others EXCEPT ![q.id].isDefault = Saved(q.asked, q.seen, @)]
              ELSE others
    /\ Become(r, Idle)

\* next is the oldest address of the customer of a, but a itself.
IsNextOf(next, a) ==
    LET rest == AddressesOf(addresses[a].owner) \ {a} IN
        IF rest = {} THEN next = NoAddress
                     ELSE next \in rest /\ \A b \in rest : next <= b

\* remove up to its writes.
Remove(r, a) ==
    /\ reqs[r] = Idle
    /\ \E next \in Existing \cup {NoAddress} :
          /\ IsNextOf(next, a)
          /\ Become(r, [stage |-> "removing", owner |-> addresses[a].owner, id |-> a,
                        seen |-> addresses[a].isDefault, next |-> next,
                        nextSeen |-> next # NoAddress /\ addresses[next].isDefault])
    /\ UNCHANGED addresses

\* Mutant: the default goes with the address that had it.
NothingToPromote(q) == FALSE

\* Mutant: whether the address was the default is not asked.
PromotesAnyway(q) == q.next \in Existing

\* A default that goes away is handed to the next address, if it is there.
Promotes(q) == q.seen /\ q.next \in Existing

CommitRemove(r) ==
    /\ reqs[r].stage = "removing"
    /\ LET q == reqs[r] IN
          addresses' =
              [a \in DOMAIN addresses |->
                  IF a = q.id THEN Deleted
                  ELSE IF a = q.next /\ Promotes(q)
                       THEN [addresses[a] EXCEPT !.isDefault = Saved(TRUE, q.nextSeen, @)]
                  ELSE addresses[a]]
    /\ Become(r, Idle)

\* The request dies, or its transaction is rolled back, out of a deadlock say.
Fail(r) ==
    /\ reqs[r] # Idle
    /\ Become(r, Idle)
    /\ UNCHANGED addresses

Handle(r) ==
    \/ \E u \in Customers, asked \in BOOLEAN : Create(r, u, asked)
    \/ CommitCreate(r)
    \/ \E a \in Existing, asked \in BOOLEAN : Update(r, a, asked)
    \/ CommitUpdate(r)
    \/ \E a \in Existing : Remove(r, a)
    \/ CommitRemove(r)
    \/ Fail(r)

Next == \E r \in Requests : Handle(r)

Spec == Init /\ [][Next]_vars

----------------------------------------------------------------------------
(* Properties *)

\* Rows and requests hold what their table or handler can hold, and a request
\* only ever points at rows that were created for its own customer.
TypeOK ==
    /\ addresses \in Seq(Address \cup {Deleted})
    /\ reqs \in [Requests -> Request]
    /\ \A r \in Requests : reqs[r].stage \in {"updating", "removing"} =>
          /\ reqs[r].id \in DOMAIN addresses
          /\ addresses[reqs[r].id] = Deleted \/ addresses[reqs[r].id].owner = reqs[r].owner

=============================================================================
