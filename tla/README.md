# petza-backend in TLA+

petza-backend is the server of a pet marketplace: an Express application on
MySQL through Sequelize, with a Socket.IO server beside it. Customers list pets
and talk about them, partners open stores that sell products and bookable
services, and staff review what partners submit. This directory holds a model of
the parts of it that decide something, the TLC configurations that check them,
and proofs of the results that do not depend on the size of an instance.

Paths are relative to the repository. `PROJECT.json` maps every definition to the
lines it stands for.

## 1. The system

Node runs one handler at a time but changes hands at every `await`, and several
server processes may share the database. Nothing in the code takes a row lock
(there is no `FOR UPDATE`), the isolation level is MySQL's default REPEATABLE
READ, and most handlers have the same shape: load a row, decide on what was
loaded, and write later, possibly in another transaction. Every hard behaviour of
this code comes from that gap, and from the four ways the write can go:

| write | what it does to a row that changed since it was loaded |
|---|---|
| `instance.update(values)` / `save()` | writes only the columns whose new value differs **from the loaded one** |
| `Model.update(values, {where})` | overwrites those columns of the rows that match **now** |
| `increment` | adds to the current value |
| `bulkCreate`, `create` | may fail on a unique index, which fails the transaction |

`Sequelize.tla` states the first, as `Saved(value, loaded, stored)`. Every module
that has a stale instance in it uses that operator, because saving by difference
is neither "last writer wins" nor "the stale write is lost": each column goes its
own way.

### Components

**Partner orders and bookings** (`services/partner/commerce.service.js`, the
`Order`, `Booking` and `WalletTransaction` models). *State:* status, reason and
delivered/completed time of each sale, the slot of a booking, and the append-only
ledger. *Operations:* `setOrderStatus`, `setBookingStatus`, `rescheduleBooking`.
*Interactions:* a delivery or completion writes an `EARNING` row and a return a
`REFUND` row in the transaction of the status change; the wallet reads them.
*Hard:* the transition table is consulted on the loaded row. *Correct when:* no
sale is shown as delivered without its money, none is paid twice, no refund
without its earning, no cancellation without a reason.

**Wallet** (`services/partner/wallet.service.js`). *State:* payout accounts with
one default, and the payout rows of the same ledger; balances are sums over it.
*Operations:* `addPayoutAccount`, `requestWithdrawal` (three awaits: the account,
the sums, the row). *Interactions:* finance completes or fails a payout, outside
this repository. *Correct when:* a store has one default account and never
withdraws what it has not earned.

**Accounts and sessions** (`services/shared/auth.service.js`, `RefreshToken`).
*State:* users and refresh tokens. *Operations:* registration, sign-in by
password, code or Google, refresh with rotation and replay detection, logout,
logout everywhere, password change and reset. *Hard:* none of the check-then-act
sequences is conditional on what it checked. *Correct when:* a token has one use
and an ended session stays ended.

**One-time codes** (same file, `OtpChallenge`). *State:* the challenges of a
subject with attempts, consumption, expiry and cooldown. *Operations:*
`requestOtp`, `consumeOtp`. *Correct when:* only the newest code works, once, and
for a bounded number of guesses.

**Enquiries** (`services/shared/enquiry.service.js`). *State:* threads with the
columns an inbox row is made of, and messages with whole-second times.
*Operations:* opening a thread with a first message, messages of either side, the
store's status changes, read marks. *Interactions:* events to the socket server
after commit. *Correct when:* an inbox row describes a message of its thread, and
both ends see who wrote what.

**Pet listings** (`services/shared/petListing.service.js`). *State:* listings,
each answer held twice (a string column and rows of choices), a unique link.
*Operations:* publish, edit, status buttons, view counter. *Correct when:* a
rehoming never becomes a sale, type and price agree, one live listing per name,
removal is final.

**Partner onboarding and stores** (`services/partner/onboarding.service.js`).
*State:* stores with capabilities, status and KYC documents, and the account's
link to its store. *Operations:* select or enable capabilities, submit KYC; staff
decide outside this repository. *Correct when:* capabilities only widen, and a
submitted store is no longer the partner's to change.

**Partner listings** (`services/partner/listing.service.js`). *State:* products
and services with status, moderation, category answers and availability.
*Operations:* create, edit, set status, delete. *Interactions:* reads the store's
capabilities and documents; orders and bookings keep a listing from being
deleted. *Correct when:* customers see only what staff approved as it stands, and
gated categories only with proof.

**Customer addresses** (`services/customer/address.service.js`). *State:*
addresses, one of them the default. *Operations:* create, update, remove, each one
transaction. *Correct when:* exactly one default as long as there is an address.

**Realtime socket server, start and shutdown** (`realtime/socketServer.js`,
`server.js`). *State*, all of it in memory: sockets with their rooms, one presence
count per customer. *Operations:* connecting, disconnecting, `enquiry:join` (which
asks the database), `enquiry:leave`, the three emitters the enquiry service calls
after its commits, SIGTERM. *Interactions:* reads threads, is asked
`isCustomerOnline`; an app reads over REST what it missed. *Hard:* a socket can be
gone before anybody notices, or come back with its rooms; the process can die
between a commit and its emit. *Correct when:* online means online, nobody hears
of other people's conversations, and a message reaches whoever stays connected.

**Wishlist** (`services/customer/wishlist.service.js`). *State:* one row per saved
pet or store, unique. *Operations:* `togglePet`, `toggleStore`: look up, check that
the item is public, write. *Correct when:* a double tap is what its comment calls
it, "idempotent in effect".

**Pet form and its answers** (`petAnswerValidation.service.js`, the repository's
`replaceChoiceRows`, `seeders/20260824000002-pet-form-schema.cjs`, `seed-data/pet-form-schema.cjs`).
*State:* questions, options and the listings that refer to them. *Operations:*
resolving answers, creating and editing a listing, publishing the form statement by
statement. *Hard:* the form changes between resolving and saving; of an edit, the
strings are saved by difference and the ids wholesale, on a row that may have
changed; and foreign keys restrict what the seeder may delete. *Correct when:* a
saved answer can always be saved again, and a seeder that ends leaves the file's form.

**Places** (`utils/indiaLocations.js`, the location of a listing, the state
filter). *State:* none; a dataset of cities and states and a table of former names.
*Correct when:* the state on a card is one whose filter finds the card.

**Seeding** (`services/system/seed.service.js`, the seeders). *State:* accounts,
stores, form and taxonomy. *Operations:* a call runs every seeder again from
whatever the last call left. *Correct when:* an owner's account and its store
point at each other, however often and however far the seeders ran.

Components without a module:

| component | why |
|---|---|
| Store catalogue | read-only queries, no state |
| Authentication middleware and rate limits | stateless checks and a library's in-memory counters |
| Mail, SMS, Google | external; a delivery succeeds or fails in `Otp`, a verified identity is given in `Sessions` |
| Admin console tables | the admin router is empty; what staff decide is external in the modules concerned |
| Schema (migrations) | run once per database by sequelize-cli; the indexes and foreign keys act where the handlers meet them |
| Errors, responses, pagination, logging | formatting |

## 2. How the modules are built

A handler in flight is a record in `reqs[r]`, holding the local variables that
survive its next `await`. Each action is what a handler does between two awaits
at which another request can change what it goes on with; a transaction
whose reads are not used for a decision is one action, and the insert that a
unique index may refuse carries that refusal in its guard or outcome. `Fail(r)`
ends any request in flight at any point: a lost connection, a deadlock broken by
the database, a restart. Nothing of a request survives the process, so a crash is
all requests failing, in any order.

Where the code keeps a promise only while requests do not overlap, saying so is
the result. A module `XInTurn` adds a variable `overlapped`, which turns true at
the first step a request takes while another is in flight (and, in
`Storefront`, at the first step staff take then). Its properties read
`~overlapped => P`, or `[][~overlapped' => A]_vars` for steps; the same run still
explores all the overlapping behaviours, for the properties that hold in them.

| module | models | state in the code |
|---|---|---|
| `Sequelize` | saving by difference | `Model#save` |
| `WalletLedger` | rows of the ledger and their sums | `wallet_transactions`, `walletTransaction.repository.js` |
| `PartnerCommerce` | status changes and rescheduling | `orders`, `bookings`, `ledger` |
| `SaleSettlement` | what commerce promises about money, without requests and tables | abstract |
| `Wallet` | payout accounts and withdrawals | `payoutAccounts`, `ledger` |
| `PartnerMoney` | commerce and wallet on one ledger | both |
| `PartnerSales` | commerce, commerce with payouts, and the wallet, one at a time | those of the three |
| `Sessions`, `SessionsInTurn` | accounts and refresh tokens | `credentials` (`users`), `tokens` (`refresh_tokens`) |
| `Otp`, `OtpInTurn` | the codes of one subject | `challenges` (`otp_challenges`) |
| `Auth` | sessions and codes, one at a time | both |
| `Enquiry`, `EnquiryInTurn` | conversations | `threads`, `messages`, the second on the `clock` |
| `PetListings`, `PetListingsInTurn` | customers' pets | `listings` with their choice rows |
| `PartnerStore` | onboarding | `stores` with documents, `linked` (`users.partner_store_id`) |
| `PartnerListings` | products and services | `listings` of both tables, `sold` |
| `Storefront` | the two above, sharing `stores` | both |
| `Addresses`, `AddressesInTurn` | customers' addresses | `addresses` (`user_addresses`) |
| `SocketServer` | connections, presence, rooms, events, the process | `sockets`, `counts` (`onlineCustomerConnectionCounts`), `written` and `pending` (commits and emits), `screens` (the apps) |
| `Wishlist` | hearts | `rows` (`wishlist_items`), `public` |
| `PetForm` | answers, edits that overlap, and the form's seeder | `questions`, `options` (`pet_attributes`, `pet_attribute_options`), `listings` (their answers), `seeder` |
| `PetFormSchema` | the form as it ships | `pet-form-schema.cjs`; no variables |
| `Places` | cities, states, labels and the filter | `indiaLocations.js`; no variables |
| `Seeding` | what a seed call does | `users`, `stores`, `form`, `categories`, `call` |
| `Customer` | addresses, wishlist, form, seeding and places, one at a time | those of the five |
| `*Proofs` | theorems | |
| `MC*` | instances for TLC | |

Actions carry the handlers' names: `SetOrderStatus` is `setOrderStatus` up to its
transaction and `CommitOrderStatus` the transaction; `Refresh`, `Rotate` and
`KillChain` are the three ways `refresh` goes; and so on. An operator whose
comment begins with "Mutant" is no part of a specification: it is a plausible slip in the
definition that follows it, kept to show that the properties notice.

**Ghosts.** `ended` and `outdated` (Sessions) remember which sessions a logout or
revocation ended, and which are older than the password; the replacement of a
token inherits both. `accepted` (Otp) counts uses of a code. `approved`
(PartnerListings) is what moderators saw. `burst` (Wishlist) remembers, of the taps
that overlap on an item, what the heart was and what was answered. `crossed` (PetForm)
remembers the listings whose last save was over a row that had changed since it was
loaded. `overlapped`
and `failed` are described above. No action of the code reads any of them.

**External steps.** `Wallet!DecidePayout` (finance), `PartnerStore!Staff`,
`PartnerListings!Moderate` and `Sell`, `Sessions!Expire`, `Otp!Age`,
`Enquiry!Tick` and the requests' failures stand for what is not in the repository,
as its code takes it. So do `Wishlist!ShowOrHide` (an item stops being public),
`PetForm!Retire`, `Deploy` and `StopSeeder`, and `Seeding!Publish` and `Crash`. In
`SocketServer`, what Socket.IO and the apps do is external: `Recover`, `Close`,
`Lose`, `Notice` (the heartbeat), `Forget` (the end of `maxDisconnectionDuration`),
`Receive`, `Reconcile` (the app reads over REST after it connected anew), and
`Crash`.

**Composition.** `PartnerMoney` instantiates `PartnerCommerce` and `Wallet` on one
`ledger`; `Storefront` instantiates `PartnerStore` and `PartnerListings` on one
`stores`. A step of one leaves the other's requests alone. `PartnerSales`, `Auth` and
`Customer` put parts beside each other that share no table: `focus` chooses
one of them in the initial state, and the others stand still. What a run of them
explores is the sum of the parts and not their product, which would show nothing
more about any of them. In `PartnerSales`, `Money` is `PartnerMoney` with tables of
its own, and `Purse` the wallet with a ledger that opens with some earnings; what
`Money` promises under a condition on overlap is stated with `SalesInTurn` and
`WithdrawalsInTurn`, which its instance in `MCSales` meets by having one request on
each side. `MCSales`, `MCAuth` and `MCCustomer` give these modules their constants; the two runs of
`MCAuth` leave the part that is not theirs without accounts or without requests, and with it nothing to do.

**Crashes.** A request's failure is enough for most of the code, which keeps nothing
in memory. Where something is kept, or left half-done, the crash is an action of
its own: `SocketServer!Crash` takes every socket, room, count and unannounced event
with it and the apps connect again to an empty server; `PetForm!StopSeeder` and
`Seeding!Crash` stop between two statements that each committed.

**Fairness.** Handlers have none: every request may fail at every await, nothing is
retried, and no step of theirs is owed to anybody. The exception is
`SocketServer!FairSpec`, with weak fairness on five kinds of step: for each device
its own (`DeviceFairness`), for each commit its own (`EventFairness`), and `Exit`.
`Notice`: the heartbeat runs for as long as a socket is counted. `Receive`: an open connection
delivers what was sent on it (one that does not is `lost`). `Reconcile`: the apps
reread their conversations on `connect`, which the comments of `socketServer.js`
rely on. `Announce`: Node resumes a handler whose commit was answered, unless the
process dies. `Exit`: `server.close` calls back once nothing is connected. Nobody has
to connect, to leave, to write, to join, or to start the process again; a join may
never be answered.

## 3. Runs

States are distinct states of the complete state space.

| run | shows | bounds | states |
|---|---|---|---|
| `sales` | commerce under any overlap of two requests: paid when delivered, refunds follow earnings, cancellations have reasons. Wallet, under overlap: exactly one default payout account per store. Both on one ledger, one request on each side: they implement `SaleSettlement`, and payouts are covered by earnings | two stores with an order and a booking of different amounts, 2 reasons, 2 slots; the wallet with 3 accounts, 4 ledger rows; the ledger they share with 5 rows | 652 k |
| `sessions` | rotation leaves no loose end under overlap; one use per token, ended sessions stay ended and resets end old sessions, in turn | 2 users, 2 passwords, 3 tokens, 2 requests | 731 k |
| `otp` | one usable code and a bounded number of guesses under overlap; single use in turn | cap 2, 3 requests, 3 challenges | 1.4 M |
| `enquiry` | honest sides under overlap; the inbox row is the newest message, in turn | a kennel's and a private seller's listing, 2 requests, 2 threads, 3 messages, 2 instants | 4.1 M |
| `chat` | presence is true of every device and in every partner's stream, only parties hear; a silent loss is noticed, a committed message is shown to all who stay, and a shutdown ends once the apps are gone | a customer with two devices and a kennel's app, a second customer who has none, 2 threads, 3 connections, 1 event, 1 join | 234 k |
| `pets` | a rehoming stays one and a sale is priced, under overlap; names and choices in turn | 2 owners, 2 names whose links collide, 2 listings, 2 requests | 2.8 M |
| `storefront` | listings belong to what their store offers, under overlap; review, proof and the KYC queue in turn | a store, 3 categories (a gated one, one that is filed under it and not gated itself, a service), 2 onboarding requests, 1 on a listing, 1 listing | 2.7 M |
| `customer` | one default address that is never lost, in turn; a heart that overlapping taps flip once; answers that nothing strands, under overlap as far as the code keeps them, and a form that is the file's; owners that point at their stores; labels that agree with the filter; a sound form file | 2 customers, 2 requests, 5 addresses; 3 taps, 4 hearts; a breed and colours with an option each, the breed gone from the second version of the file, 1 listing, 2 requests on it, 3 option rows; 3 demo stores, 2 categories, 6 ids; 4 places, one name shared by two states, one former name; the form file whole | 3.1 M |
| `commerce_paid_twice` | *violated:* a sale earned at most once | as in `sales` | |
| `wallet_overdraw` | *violated:* the balance never goes below zero | as in `sales` | |
| `form_held` | *violated:* nothing holds the form's seeder back | as in `customer` | |
| `seed_refused` | *violated:* no statement of a seed call is refused | as in `customer` | |

**Why the bounds are enough.** All races in this code are between a request that
loaded a row and one that changed it, so two requests show them; three are used
where a number of requests is itself in the property (`otp`, where the cap is
exceeded by less than the number of requests; two would not tell "one more" from
"at most as many"). The limits on rows are set so that something remains to be
done after the interesting case: three tokens are a rotation and a replay of the
replaced one; a fifth ledger row is an earning, its refund, a payout and two more;
five addresses let a deleted default's successor be deleted as well; four hearts are
a heart added, removed, added and refused; three option rows are the first
version published and one question filled again, under a fresh id. An option of each
question is enough for two edits to cross, because no answer is a choice as
well: one edit takes the colour away, the other sends it again. `Other` is exercised
by `form_held`, and covered by the theorem. One event is enough for the chat, because an
app keys what it receives by id and no emitter looks at earlier events; three
connections are all devices at once, or one device that comes back, by recovery or
anew, beside another. The attempt cap is a small stand-in for 5, and nothing but
a comparison reads it. Amounts are 1 to 3 with a minimum of 2, so that
amounts below, at and above the minimum and the balance all occur. Every bound
(`MaxRows`, `MaxChallenges`, `MaxThreads`, `MaxMessages`, `MaxClock`,
`MaxListings`, `MaxViews`, `MaxAddresses`, `MaxHearts`, `MaxOptions`, `MaxIds`,
`MaxEvents`, `MaxConnects`, `MaxJoins`) is a constant in the guard of the actions
that create the row, open the connection or move the clock. `sales`, `sessions`,
`otp`, `enquiry`, `customer` and the runs that expect a violation switch the
deadlock check off: a sale in its last status, a session table or a clock at its
bound, and the data sets of `customer`, which have no steps, stop legitimately.
`chat`, `pets` and `storefront` keep it on. Symmetry is used on requests (in `customer` those of the addresses and of the form) and on
names no property orders; never in `chat`, whose liveness it could hide.

### Violations

Four runs check a sentence of the repository that its code does not keep.

- `EarnedAtMostOnce`: two requests load the same shipped order, both find the
  move legal and both commit; `models/WalletTransaction.js` says each delivery
  writes one earning.
- `NeverOverdrawn`: two withdrawals both sum the ledger before either inserts;
  `wallet.service.js:123` says two in quick succession cannot overdraw.
- `NothingHoldsTheSeederBack`: the form's seeder deletes the options of each
  question before it inserts them again (line 66), and since the migration
  `20260825000009` (line 159) a listing's answers restrict that. One listing
  is enough for the run to be refused, although the seeder's own comment says that
  deleting and inserting again orphans nothing and is how a change is published.
- `CallsAreNeverRefused`: on a fresh database the first seed call stops at the
  groomer's profile, whose table a migration dropped; later calls get past it and
  stop at the store of `play-review-accounts`, whose owner already has one.
  `seed.service.js:36` promises a fully seeded database. The taxonomy, without
  which no partner can list anything, comes after that and is never reached.

The other disagreements met on the way have no run of their own. Each is the
overlapping case that a property `...InTurn` leaves out, or a fact that one
handler's source shows by itself:

- *Commerce.* A stale request moves a sale off its lifecycle: cancelled after it
  was paid, paid after it was cancelled, rescheduled after it was cancelled. The
  dashboard's available balance (`commerce.service.js:62`) still contains payouts
  that were asked for, the wallet's (`wallet.service.js:18`) does not. A reason is
  stored with any move that brings one, not only with cancellations (`Order.js:67`).
- *Sessions.* Two overlapping refreshes give one token two replacements
  (`auth.service.js:366`, `refreshToken.repository.js:15`). A refresh overlapping a
  logout outlives it. A failure between the password's update and the revocation
  (`auth.service.js:434`) leaves old sessions alive.
- *Codes.* Two overlapping requests use one code twice (`auth.service.js:179`
  against the comment at 159), go over the cap by one each, or both pass the cooldown.
- *Enquiries.* The history query takes the *oldest* 500 messages
  (`enquiry.service.js:440`), so message 501 is never in the opened thread, though
  `enquiry.repository.js:111` calls it the full history. Asking again
  does not reopen a closed thread, although the comment at line 230 says so. An owner
  who messages about their own listing is shown both sides as one. The
  preview text and its "You:" prefix may be of two messages of one second. Under
  overlap the inbox columns may be those of an older message.
- *Realtime.* `server.close` waits for WebSockets and nothing closes them
  (`server.js:31`): with one app connected a shutdown never ends, and takes no new
  request meanwhile. A room that is left while its join still waits is joined
  afterwards; a join that waits when its socket is lost is not among the rooms a
  recovery restores.
- *Pets.* Overlapping edits leave a rehomed pet with a price
  (`petListing.service.js:619` against the comment at 617), two live namesakes, or
  a colour string and colour rows that differ; a status button that was loaded
  before a removal revives the listing. The string that no id stands for, after such
  edits (`crossed`), is kept by no foreign key: once the seeder replaces or
  drops its option, the listing cannot be saved again as it stands. `myListing.validator.js:76` says an
  accepted enquiry reserves a pet; nothing sets `RESERVED`.
- *Partner listings.* Photos, stock and opening hours are asked for by the status
  button alone, so creating or editing puts a service on offer without hours
  (`listing.service.js:292`, `328`, comment at 369). The update schema has no
  MRP/price check (`listing.validator.js:59`). Creating and editing a product
  asks for the proof of its tag, switching it on for that of tag and root (`listing.service.js:180`,
  `209`, `242`); no root that ships is gated. A suspended store may still publish
  (`requireCapability`). Under overlap an approval survives an edit it never saw,
  and a draft moved into a gated category goes on offer without proof.
- *Onboarding.* Resubmitting documents removes the approved licence of gated
  listings that stay on offer; a submission that overlaps a suspension lifts it.
- *Places.* The converse of the label's promise does not hold: a row whose city and
  state disagree is also found under the city's state, which its card does not name.
- *Seeding.* A taxonomy run that stops between its two inserts leaves categories
  whose questions no later run adds: it finds the slugs. Publishing the form again
  makes retired options active.
- *Addresses.* Overlapping requests leave two defaults (a removal promotes on what
  it read) or none (an update whose own flag looked set already).

## 4. Proofs

TLC checks the instances above; the following hold for every value of the
constants that satisfies the named assumptions, and tlapm checks them.

| module | theorems | run |
|---|---|---|
| `SalesProofs` | `TypeCorrect`, `TypesCorrect`, `CommerceCorrect`, `DeliveryIsAlwaysPaid`, `PaidIsAlwaysStamped`, `CancellationIsAlwaysExplained`, `RefundAlwaysFollowsEarning`, `OneDefaultAlways`, `PayoutsAlwaysCovered`, `SettlementIsImplemented`, `PaidOnceInTurn`, `NeverOverdrawnInTurn` | `sales` |
| `AuthProofs` | `TypesCorrect`, `RotationIsAlwaysSound`, `SessionsStayEndedInTurn`, `TokensAreUsedOnceInTurn`, `OutdatedSessionsAlwaysEndInTurn`, `OnlyNewestIsEverActive`, `AttemptsAreAlwaysBounded`, `AcceptedOnlyWhileActiveInTurn` | `sessions`, `otp` |
| `PetListingsProofs` | `PetsCorrect`, `TypeCorrect`, `SaleIsAlwaysPriced`, `LinksAreAlwaysUnique`, `AdoptionIsForever`, `LiveNamesStayUniqueInTurn`, `ChoicesStayMirroredInTurn` | `pets` |
| `StorefrontProofs` | `TypeCorrect`, `ListedIsAlwaysOffered`, `PublishedIsAlwaysReviewedInTurn`, `ProofIsAlwaysAskedInTurn`, `SettledIsStaffsInTurn` | `storefront` |
| `EnquiryProofs` | `TypeCorrect`, `FromMeIsAlwaysHonest`, `InboxAgreesInTurn` | `enquiry` |
| `SocketServerProofs` | `TypeCorrect`, `PresenceIsAlwaysTrue`, `OnlyPartiesEverHear`, `CommittedIsEventuallyShown`, `LossIsNoticedForGood`, `CommitIsAnnouncedForGood`, `OfflineComesNearer`, `ShutdownComesNearer` | `chat` |
| `CustomerProofs` | `TypeCorrect`, `TypesCorrect`, `OneDefaultInTurn`, `DefaultIsPassedOn`, `OverlappingTapsAlwaysFlipOnce`, `SavedAnswersAlwaysStayValid`, `PublishedFormIsAlwaysTheFile`, `OwnersAlwaysPointAtTheirStore`, `LabelIsAlwaysFound`, `LabelFound`, `LabelsAreAlwaysFound` | `customer` |

**Assumptions.** Each component names its own (`CommerceAssumption` and the like):
the constants are of the sort the code makes them, sentinels such as `NoReason`
are not values, and the set of requests is finite where they are counted. TLC
evaluates them in every run. Six say more about the code than a sort:

- `AmountsAssumption`: a withdrawal is asked for in whole rupees, one at least
  (`commerce.validator.js:66`).
- `PurseAssumption`: the ledger a wallet starts with has rows of the table's shape.
- `FormAssumption`: a version of `pet-form-schema.cjs` asks something, asks nothing
  twice and names finitely many options, no option's value is an option's id, and
  every answer has a column that can hold it. `SchemaIsSound` finds the first three in the
  file that ships; ids are numbers here (UUIDs in the code) and values names; and `columnsFromAnswers`
  puts what has no column of its own into `attributes`.
- `SeedsAssumption`: in the seed files no account owns two demo stores, the owners
  are not plain demo users (but for `DemoPartner`, who is one and gets a placeholder for
  a store's id), and the review customer owns nothing. With two stores of one owner, the account
  could not point at both.
- `CodesAssumption`: at least one guess is allowed (`OTP_MAX_ATTEMPTS`, 5 unless configured), the codes have
  a bound and the requests are finitely many.
- `HeartsAssumption`: the bound of the model, a number.

**The arguments.** None of these properties is inductive by itself. What makes it so
is, nearly everywhere, a statement of what a request in flight may still rely on of
what it loaded.

- *Commerce.* A request holds a status and a
  reason that were judged on a row that has since changed. `CommerceInv` adds
  `SnapshotsAreSound`: the move in flight was legal for the row *as loaded*, a
  loaded row that was delivered is of a sale that has been credited, and a reason
  the loaded row had has not gone. Since the ledger only grows and no save clears
  a reason, each commit re-establishes everything from the snapshot alone; this is
  why the money properties survive the stale writes that break the lifecycle.
- *Sums.* A balance is a fold over the rows of a store, and the library's theorems on
  induction cannot be used with these provers. The lemmas of `SalesProofs` on sums over finite sets go
  round that: a set of naturals whose least element would be a counterexample is
  empty (`NatInductionSet`, from the well-foundedness of `<`). That gives `MapThenSumSet` its
  two equations, for the empty set and for one more element, and from there what the rest needs:
  `SumAppended`, a row adds its amount to the sums it counts for and to no other, and
  `SumMoved`, a row that changes status takes its amount along.
- *Wallet.* `PurseInv`: a request that found no payout account will make its own the
  default as long as there is none; so two devices that both add a first account cannot leave
  none, and unsetting the others in the transaction leaves one. `Solvent` and
  `Covered` say that the withdrawal past its check is still affordable:
  its amount and what was spent are together no more than what was earned. A delivery
  only adds to that, finance only gives back. Another withdrawal of the store would
  take from it, and that is all the hypothesis excludes.
- *Settlement.* `SettlementIsImplemented` is the refinement: `LoadedIsCurrent` says that the
  status a request loaded is the row's, as long as no other request
  is at the same sale (`SalesInTurn`; requests for other sales may overlap at will, and payouts be
  asked for and decided). A committed delivery, cancellation or return then maps to
  `Settle`, `Void` or `Reverse` with the one row the abstract step writes, and every other
  step to a stutter, because the counts of rows per sale are read off the ledger and a payout's row counts for none.
- *The two violated runs.* `PaidOnceInTurn` and `NeverOverdrawnInTurn` state for any
  number of requests what the counterexamples of `commerce_paid_twice` and
  `wallet_overdraw` suggest: an overlap on one sale, or on one balance, is the only
  way to them. Nothing else that may happen in between does it.
- *Sessions.* `RotationIsSound` needs that a request in flight rotates a token of
  its own user, which `TypeOK` keeps. Two in-turn theorems rest on `SerialInv`: as long as nothing has
  overlapped, every ended session is revoked, and a request about to rotate
  still holds a token that is not; the replacement of a live session's token is
  then never born ended. `OutdatedAreRevoked` adds that a session older than the
  password is revoked, or is about to be by the request that changed the password; a
  failure between those two statements is the one way out, which the property excludes by name.
- *Codes.* A wrong guess passes the cap at its read and is counted later. The
  inductive bound is on counters *plus the guesses still to be counted*: a request
  that joins them found fewer than the cap, and the others in flight are fewer than
  all requests. In turn, a request that has matched a code holds an active challenge,
  so what it burns was neither used nor replaced before.
- *Pets.* `PetsInv` relates the edit in flight to the row: a sale it carries has a
  price (`Priced`), and an edit that loaded a rehoming writes one over a row that
  still is one (`KeepsAdoption`). Whether the save then skips the price or the
  type because it equals what was loaded, every sale is left with a price. In turn,
  `StillHolds`: the name that was looked up is still free, the instance is the row, and no status
  button in flight loaded a removed listing; so the name that a save
  writes, or that a button revives, is no other live listing's, and both halves of an answer come from one request.
- *Storefront.* `Sourced` carries `OfferedByItsStore` through any overlap: the row about
  to be created is of a kind its store offers, and an edit keeps the kind. The check
  was made on a store that may have changed since, but capabilities only widen and a listing's
  kind never changes. In turn, `Honest`: what an edit loaded is what the table
  holds, and it sends the listing back to review or leaves what was reviewed alone;
  `Proven`: whoever is about to write a gated listing on offer showed a licence that still stands; `Open`: a
  submission in flight is of a store that may still submit. Staff count as an overlap,
  because each of the three fails when they step in between.
- *Addresses.* Row lemmas say once what each commit makes of the table.
  `TurnInv` says that, until something overlaps, what a request holds is still what
  the table says (`Honest`); with it each commit computes the set of defaults
  exactly, and both in-turn theorems read off that set.
- *Wishlist.* As long as the taps of a burst all looked before one wrote, they agree
  (`TapsAgree`): all mean to remove, or all to add. The first write flips the
  heart, and the others then meet the unique index or a row that is gone and answer the same
  (`BurstIsSound`). Ids are never used again, so a tap cannot remove a row that it did not see (`RowsAreSound`).
- *Form.* `ListingsHold`: every id of a listing is that of an option that exists, which
  the foreign key keeps from being deleted. `RequestsHold`: a resolved answer is `Sound`:
  its strings are those of its ids, as far as these are left, and no id is of an option that came
  later, because ids are never used again. An answer whose option went meanwhile is refused by
  that key. So ids hold whatever overlaps. Of the strings, `UncrossedRow` is the case that
  matters: a save over the row as it was loaded leaves exactly the answers of its request, by
  difference or not. Over any other row it may leave the string of one edit beside the
  ids of another, and nothing is claimed of that listing's strings until it is
  saved again.
  `SeederPublishes`: the fields before the one at hand are as in the file, and
  clearing or filling one touches no other.
- *Seeding.* `SeedsInv` says what each seeder relies on when it comes to its statement: stores have the
  owners of the files, the account of a demo store's owner never is one without a store, and the plan of stores to be
  inserted agrees with what the accounts already point at, across any number of calls that stopped anywhere.
- *Enquiries.* `FromMeIsHonest` looks at finished messages, and a message is decided
  on two awaits earlier. `EnquiryInv` adds that every message was written by the
  side it is filed under (`Authored`), and that the one a request still holds will
  be (`Held`): the two ends of a thread never change, so what was loaded is enough.
  `TurnInv` adds, up to the first overlap, that what a request loaded is what the
  table holds (`Fresh`), and the inbox row follows from the commit alone.
- *Realtime.* The counts are compared with zero, but change by one; that they are
  right, and even that they stay natural numbers, needs `Counted`: each is the
  cardinality of the customer's connected devices. `Told` says the same of what each
  partner's socket was sent. A step concerns one device, and the lemmas say what it
  makes of the set of connected ones. `OnlyPartiesHear` needs that rooms, too,
  hold parties only (`Private`).
- *What the server owes.* `Accounted` says of every message and every connected device
  of its two sides where the message is (`Owed`): about to be announced, due on the socket, shown, or to be
  read by an app that has just connected. A crash empties the first two places,
  and makes every app read anew. `MovesOn` says what a step may do with it: bring it nearer to the
  screen, never farther away, unless the socket goes. From each place the next step is
  fair, and three leads-to steps make `CommittedIsShown`. The other two properties are about all
  devices of a customer, or all sockets and commits of the process, while fairness is
  about one. Of one, it is a theorem that it settles for good (`LossIsNoticedForGood`,
  `CommitIsAnnouncedForGood`). Of many, each stage is a theorem: with the sockets in `R` still to be
  noticed, `OfflineComesNearer` leads to a proper subset of `R`, or to the customer being offline or back;
  `ShutdownComesNearer` does the same for sockets and commits together, where another handler may
  still commit, and `Len(written)` counts those. `LostOnlyShrink` is why no stage leads back.
- *Places.* No steps: with one state per city at most, the state a card adds is one of
  the city's (a finite set of one element), so that the city, under whichever of its
  names, is among those the filter looks for.
- *Beside each other.* `AllParts`, in `SalesProofs`, `AuthProofs` and `CustomerProofs`: a behaviour
  of the whole is one of each part, since the part that `focus` names takes its own
  steps and the others stutter. What is proved of a part thereby holds in the whole.

**Left to TLC.** The liveness theorems have the form
`FairSpec /\ []NothingOwedIsBlocked => P`. Weak fairness speaks of `ENABLED`, which is out
of these provers' reach; `NothingOwedIsBlocked` is the one thing they need to know of it: where the guards of `Notice`, `Receive`,
`Reconcile`, `Announce` or `Exit` hold, the step is enabled. It can be read off these
actions, mentions no other step and no history, and says nothing about the server: it is a hypothesis
in `SocketServerProofs`, and neither a property of a run nor a theorem. The liveness
properties themselves are checked by `chat`, where TLC computes `ENABLED`. `OfflineIsNoticed` and `ClosesOnceLeft` themselves are checked by TLC only: from the stages above
they need that a finite set does not shrink for ever, an induction whose statement is a
temporal formula, and a set defined by one is not TLA+. Besides these, `SchemaIsSound` is about one fixed file: TLC's evaluation of it is complete. Every other
property of a passing run is stated by a theorem. What a recursive definition
computes for every input would need induction with an operator as a parameter; no module
here declares a RECURSIVE operator, and the one fold that matters is treated above.

## 5. What is abstracted

Texts, names, addresses, photos and answers are members of small sets: only
whether two are equal, or whether an answer fits its category, matters. Times are
whole seconds where order matters (`Enquiry`) and otherwise flags (`expired`,
`cooling`, `deliveredAt`). Hashing, JWT signing and Google's verification are taken
to work. Lists, filters, DTOs and pagination change nothing. Unique indexes and
foreign keys act where the handlers meet them. Creating orders and bookings, and
everything staff do, happens outside this code. The gallery of pets is left
out, and their location columns are in `Places` alone. The pet functions for partner
stores, which are exported and not routed, are left out too; the enquiry functions for stores are modelled although
they are not routed either, because the threads of a store cannot go on without them.
The form has one kind of animal in `PetForm` (another's questions are other keys) and
no text answers, which refer to nothing; `PetFormSchema` has every animal. Socket
authentication and the typing hint, which is stored nowhere, are left out of
`SocketServer`; the search behind the location picker is left out of `Places`. A
seed call is one at a time, on a migrated database.

## 6. Plan

Done, in this order: commerce and its abstract settlement; wallet and their
composition; sessions; codes; enquiries; pets; stores, listings and their
composition; addresses; the socket server with its process; the wishlist; the form,
its file, its seeder and its answers; places; seeding.

What is left, most important first:

1. *Enquiry and chat on one state.* `SocketServer` writes events of its own; composed
   with `Enquiry`, a message that arrives between opening a thread and marking it read
   (`enquiry.service.js:498`) would show as read and never seen.
2. *Answers of partner listings.* `buildAttributes` as an operator against a
   reference definition, in place of the constant relation `Fits`.
3. *The gallery of a pet*, replaced wholesale beside a row that is saved by difference.
4. *Proofs.* Those of the modules above as they come: that a composed `Enquiry` and
   `SocketServer` still promise what they promise alone, and `buildAttributes` against
   its definition for every category.
