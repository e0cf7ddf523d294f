------------------------------ MODULE Wishlist ------------------------------
(***************************************************************************)
(* One customer's saved pets and stores: services/customer/                *)
(* wishlist.service.js.  The app has one heart and one request for it; the *)
(* server looks the row up and then deletes it by its id, or checks that   *)
(* the item is public and inserts it.  The three awaits of overlapping taps*)
(* interleave; a unique index and the deletion by id decide.               *)
(***************************************************************************)
EXTENDS Integers, FiniteSets

CONSTANTS
    Items,              \* pets and stores
    Requests,
    MaxRows             \* bound: rows ever inserted

VARIABLES
    rows,               \* wishlist_items: the item of each row's id
    born,               \* how many rows were ever inserted; the newest id
    public,             \* the items a customer may see
    reqs,               \* the requests in flight
    burst               \* ghost: the overlapping taps on each item

vars == <<rows, born, public, reqs, burst>>

Row  == [id : 1 .. MaxRows, item : Items]
Idle == [stage |-> "idle"]

Heart(i) == \E w \in rows : w.item = i
Taps(i)  == {r \in Requests : reqs[r] # Idle /\ reqs[r].item = i}

\* A burst starts with a tap on a quiet item; it remembers the heart at that
\* moment, whether every tap so far looked before any wrote, whether one did
\* write, and the answers given.
Quiet(i) == [was |-> Heart(i), together |-> TRUE, wrote |-> FALSE, answers |-> {}]

Init ==
    /\ rows = {} /\ born = 0
    /\ public = Items
    /\ reqs = [r \in Requests |-> Idle]
    /\ burst = [i \in Items |-> Quiet(i)]

----------------------------------------------------------------------------
(* Actions *)

\* togglePet or toggleStore as far as the lookup.
Toggle(r, i) ==
    LET b == IF Taps(i) = {} THEN Quiet(i) ELSE burst[i] IN
    /\ reqs[r] = Idle
    /\ \/ \E w \in rows :
             /\ w.item = i
             /\ reqs' = [reqs EXCEPT ![r] = [stage |-> "remove", item |-> i, id |-> w.id]]
       \/ /\ ~Heart(i)
          /\ reqs' = [reqs EXCEPT ![r] = [stage |-> "check", item |-> i]]
    /\ burst' = [burst EXCEPT ![i] = [b EXCEPT !.together = @ /\ ~b.wrote]]
    /\ UNCHANGED <<rows, born, public>>

\* findPublicByIds: only what comes back from the catalogue may be saved.
CheckPublic(r) ==
    /\ reqs[r].stage = "check"
    /\ reqs[r].item \in public
    /\ reqs' = [reqs EXCEPT ![r].stage = "add"]
    /\ UNCHANGED <<rows, born, public, burst>>

Answered(i, answer) ==
    burst' = [burst EXCEPT ![i].wrote = TRUE, ![i].answers = @ \cup {answer}]

\* The insert; the unique index lets it through where there is no row.
Add(r) ==
    LET i == reqs[r].item IN
    /\ reqs[r].stage = "add"
    /\ ~Heart(i)
    /\ born < MaxRows
    /\ rows' = rows \cup {[id |-> born + 1, item |-> i]}
    /\ born' = born + 1
    /\ Answered(i, TRUE)
    /\ reqs' = [reqs EXCEPT ![r] = Idle]
    /\ UNCHANGED public

\* Mutant: a tap that deletes nothing saves the item again.
RemoveOrAdd(r) ==
    LET i    == reqs[r].item
        gone == {w \in rows : w.id = reqs[r].id}
    IN
    /\ reqs[r].stage = "remove"
    /\ born < MaxRows
    /\ rows' = IF gone # {} THEN rows \ gone ELSE rows \cup {[id |-> born + 1, item |-> i]}
    /\ born' = IF gone # {} THEN born ELSE born + 1
    /\ Answered(i, gone = {})
    /\ reqs' = [reqs EXCEPT ![r] = Idle]
    /\ UNCHANGED public

\* removeById, of a row that may be gone.
Remove(r) ==
    /\ reqs[r].stage = "remove"
    /\ rows' = {w \in rows : w.id # reqs[r].id}
    /\ Answered(reqs[r].item, FALSE)
    /\ reqs' = [reqs EXCEPT ![r] = Idle]
    /\ UNCHANGED <<born, public>>

\* The item is not public, the index refuses, or the process dies.
Fail(r) ==
    /\ reqs[r] # Idle
    /\ reqs' = [reqs EXCEPT ![r] = Idle]
    /\ UNCHANGED <<rows, born, public, burst>>

\* An owner archives or restores a listing, staff suspend a store.
ShowOrHide(i) ==
    /\ public' = (public \cup {i}) \ (public \cap {i})
    /\ UNCHANGED <<rows, born, reqs, burst>>

Next ==
    \/ \E r \in Requests :
          \/ \E i \in Items : Toggle(r, i)
          \/ CheckPublic(r) \/ Add(r) \/ Remove(r) \/ Fail(r)
    \/ \E i \in Items : ShowOrHide(i)

Spec == Init /\ [][Next]_vars

----------------------------------------------------------------------------
(* Properties *)

\* Rows point at items and no two share an id; every request holds what its
\* lookup may have found.
TypeOK ==
    /\ rows \subseteq Row
    /\ \A v, w \in rows : v.id = w.id => v = w
    /\ born \in 0 .. MaxRows /\ \A w \in rows : w.id <= born
    /\ public \subseteq Items
    /\ reqs \in [Requests -> {Idle}
           \cup [stage : {"check", "add"}, item : Items]
           \cup [stage : {"remove"}, item : Items, id : 1 .. born]]

\* "That makes a double-tap idempotent in effect": taps that all looked before
\* one of them wrote flip the heart once, however many they are and whichever of
\* them fail, and every answer they get is the heart they leave behind.
OverlappingTapsFlipOnce ==
    \A i \in Items : burst[i].wrote /\ burst[i].together =>
        /\ Heart(i) = ~burst[i].was
        /\ burst[i].answers = {Heart(i)}

=============================================================================
