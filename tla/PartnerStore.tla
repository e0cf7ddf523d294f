---------------------------- MODULE PartnerStore ----------------------------
(***************************************************************************)
(* How a partner gets a store: services/partner/onboarding.service.js and  *)
(* services/partner/store.service.js over store.repository.js.             *)
(*                                                                         *)
(* Each handler loads the store and checks the request against that        *)
(* instance; what it writes is committed later.  What Petza staff decide   *)
(* about a store is not in the repository and may happen at any time.      *)
(***************************************************************************)
EXTENDS Naturals, Sequences

CONSTANTS
    Owners,         \* accounts that sign up as partners
    StaffStatuses,  \* what staff may set a store's status to
    Requests        \* the requests that may be in flight at one time

PartnerCapability == {"PRODUCTS", "SERVICES"}
StoreStatus       == {"PENDING_KYC", "UNDER_REVIEW", "ACTIVE", "SUSPENDED", "REJECTED"}
KycDocStatus      == {"PENDING", "APPROVED", "REJECTED"}

VARIABLES
    stores,     \* stores with their KYC documents, in order of creation
    linked,     \* users.partner_store_id
    reqs        \* what each request in flight holds

vars == <<stores, linked, reqs>>

----------------------------------------------------------------------------
(* Rows and requests *)

\* offers is the pair of flags; document the best of the store's KYC
\* documents, "NONE" when it has submitted none.
Store == [owner : Owners, offers : SUBSET PartnerCapability, status : StoreStatus,
          document : KycDocStatus \cup {"NONE"}]

NoStore == 0

Idle == [stage |-> "idle"]

Request == {Idle}
    \cup [stage : {"opening"}, owner : Owners, offers : SUBSET PartnerCapability]
    \cup [stage : {"widening"}, id : Nat \ {0}, offers : SUBSET PartnerCapability]
    \cup [stage : {"submitting"}, id : Nat \ {0}, document : {"NONE", "PENDING"}]

Become(r, request) == reqs' = [reqs EXCEPT ![r] = request]

\* findByOwnerUserId
StoresOf(owner) == {s \in DOMAIN stores : stores[s].owner = owner}

----------------------------------------------------------------------------
(* Choosing what to offer *)

Init ==
    /\ stores = <<>>
    /\ linked = [o \in Owners |-> NoStore]
    /\ reqs = [r \in Requests |-> Idle]

\* A non-empty choice of what to offer: selectCapabilitiesSchema.
Choices == SUBSET PartnerCapability \ {{}}

\* selectCapabilities up to its write: the flags that are set already are not
\* written again, and nothing is written when all of them are.
SelectCapabilities(r, owner, choice) ==
    /\ reqs[r] = Idle
    /\ \/ /\ StoresOf(owner) = {}
          /\ Become(r, [stage |-> "opening", owner |-> owner, offers |-> choice])
       \/ \E s \in StoresOf(owner) :
             /\ ~(choice \subseteq stores[s].offers)
             /\ Become(r, [stage |-> "widening", id |-> s,
                           offers |-> choice \ stores[s].offers])
    /\ UNCHANGED <<stores, linked>>

\* The transaction that creates the one store of its owner and links the user
\* to it; the unique index on owner_user_id refuses a second one.
OpenStore(r) ==
    /\ reqs[r].stage = "opening"
    /\ LET owner == reqs[r].owner IN
          /\ StoresOf(owner) = {}
          /\ stores' = Append(stores, [owner |-> owner, offers |-> reqs[r].offers,
                                       status |-> "PENDING_KYC", document |-> "NONE"])
          /\ linked' = [linked EXCEPT ![owner] = Len(stores) + 1]
    /\ Become(r, Idle)

\* enableCapabilities is for a running store.
EnableCapabilities(r, s, choice) ==
    /\ reqs[r] = Idle
    /\ stores[s].status = "ACTIVE"
    /\ Become(r, [stage |-> "widening", id |-> s, offers |-> choice \ stores[s].offers])
    /\ UNCHANGED <<stores, linked>>

\* Mutant: what the partner picked is what the store offers.
Narrowed(offered, picked) == picked

\* Only the flags that were off when the store was loaded are sent, as on.
Widened(offered, picked) == offered \cup picked

CommitCapabilities(r) ==
    /\ reqs[r].stage = "widening"
    /\ stores' = [stores EXCEPT ![reqs[r].id].offers = Widened(@, reqs[r].offers)]
    /\ Become(r, Idle)
    /\ UNCHANGED linked

----------------------------------------------------------------------------
(* KYC *)

\* Mutant: a running store may submit again.
AnyButSuspended == StoreStatus \ {"SUSPENDED"}

\* KYC_EDITABLE_STATUSES
KycEditableStatuses == {"PENDING_KYC", "REJECTED"}

SubmitKyc(r, s, document) ==
    /\ reqs[r] = Idle
    /\ stores[s].status \in KycEditableStatuses
    /\ Become(r, [stage |-> "submitting", id |-> s, document |-> document])
    /\ UNCHANGED <<stores, linked>>

\* The status differs from the loaded one and is always written; the documents
\* are replaced wholesale, by unreviewed ones.
CommitKyc(r) ==
    /\ reqs[r].stage = "submitting"
    /\ stores' = [stores EXCEPT ![reqs[r].id].status   = "ACTIVE",
                                ![reqs[r].id].document = reqs[r].document]
    /\ Become(r, Idle)
    /\ UNCHANGED linked

\* The request is refused, or dies, or its transaction is rolled back.
Fail(r) ==
    /\ reqs[r] # Idle
    /\ Become(r, Idle)
    /\ UNCHANGED <<stores, linked>>

Handle(r) ==
    \/ \E owner \in Owners, choice \in Choices : SelectCapabilities(r, owner, choice)
    \/ OpenStore(r)
    \/ \E s \in DOMAIN stores, choice \in Choices : EnableCapabilities(r, s, choice)
    \/ CommitCapabilities(r)
    \/ \E s \in DOMAIN stores, document \in {"NONE", "PENDING"} : SubmitKyc(r, s, document)
    \/ CommitKyc(r)
    \/ Fail(r)

----------------------------------------------------------------------------
(* Petza staff *)

DecideStore(s, status) ==
    /\ stores' = [stores EXCEPT ![s].status = status]
    /\ UNCHANGED <<linked, reqs>>

ReviewDocument(s, verdict) ==
    /\ stores[s].document # "NONE"
    /\ stores' = [stores EXCEPT ![s].document = verdict]
    /\ UNCHANGED <<linked, reqs>>

Staff ==
    \/ \E s \in DOMAIN stores, status \in StaffStatuses : DecideStore(s, status)
    \/ \E s \in DOMAIN stores, verdict \in {"APPROVED", "REJECTED"} : ReviewDocument(s, verdict)

Next == (\E r \in Requests : Handle(r)) \/ Staff

Spec == Init /\ [][Next]_vars

----------------------------------------------------------------------------
(* Properties *)

\* Every variable holds what its table or its handler can hold, and every store
\* is the one its owner's account is linked to.
TypeOK ==
    /\ stores \in Seq(Store)
    /\ linked \in [Owners -> Nat]
    /\ \A s \in DOMAIN stores : linked[stores[s].owner] = s
    /\ reqs \in [Requests -> Request]
    /\ \A r \in Requests : reqs[r].stage \in {"widening", "submitting"}
                               => reqs[r].id \in DOMAIN stores

\* Once a store's details are in, neither its status nor its documents are the
\* partner's to change: a step that does is a step of staff.
LeavesSettledStores ==
    \A s \in DOMAIN stores : stores[s].status \notin {"PENDING_KYC", "REJECTED"} =>
        \/ /\ stores'[s].status = stores[s].status
           /\ stores'[s].document = stores[s].document
        \/ UNCHANGED reqs

=============================================================================
