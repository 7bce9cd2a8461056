# A TLA+ model of BD Property Hub

This directory holds TLA+ specifications of BD Property Hub, a property
marketplace on NestJS, Mongoose and MongoDB (`src/apps/api`) with a Next.js client
(`src/apps/web`): what listings, sellers, accounts, photos and bookmarks go through,
what overlapping requests, failures, crashes and retries do to them, what TLC checks
of that on small instances, and what TLAPS proves of it for instances of every size.

## 1. Inventory

The repository is a monorepo. The program's own logic is in the API; the web
application renders it and adds some client-side state; the chat gateway and the
workers are placeholders in this commit.

| Component | State it keeps | Operations | What makes it correct |
|---|---|---|---|
| listing lifecycle and moderation (`listings/listings.service.ts`, `listing-moderation.ts`) | `listings.publicationStatus`, the content, `listingStatusHistory` | create, update, submit, withdraw, restore, delete; approve, reject, takedown, reinstate | the public catalog holds only what was submitted complete and then approved; a takedown holds; reviewed content does not change; status and history move together |
| seller verification (`seller-verification/`) | `users.kycStatus`, `users.kycReason`, `sellerVerificationHistory` | request, approve, reject | only staff verify, only who asked; the note belongs to the last decision; status and history move together |
| listing photos (`listings.service.ts` 650-837, `cloudinary/`) | `listings.media`, the document's version, the assets in Cloudinary | sign, upload (by the browser), commit, remove, reorder, clean up | at most the cap, no asset twice, positions contiguous, no photo lost, no asset destroyed that is shown |
| listing fields and map pin (`listings.service.ts` create and update, `listing-pin.ts`) | `transactionType` and `isGroupPurchase`, `location`, `exactPoint` and `displayPoint` | part of create and update | derived fields agree with what they are derived from; the location is a nested chain |
| geography (`geo/`) | five reference collections | seed, look up, resolve a location | seeding converges when repeated; a listing is located only by what is there |
| catalog and paging (`catalog.controller.ts`, `findPublic`) | none; cursors held by clients | list pages by keyset or by offset | no page repeats or skips what stayed |
| saved listings (`saved/`, `hooks/use-saved-listings.ts`) | `savedListings`; the browser's copy of the ids | save, unsave, list; toggle and roll back | the cap; the hearts show what the API holds |
| users and roles, admin (`users/`, `admin/`, `auth/me.controller.ts`) | `users.role`, `status`, `clerkUserId`, `passwordHash`, ... | register, verify email, link, suspend, assign role, become seller | one role; suspension and deletion stick; only the prime acts on staff |
| sessions, tokens, account flows, Clerk (`auth/`) | `sessions`, `authTokens` | login, logout, issue, consume, reset, bridge, webhook | a token works once and only the last one; a reset or suspension ends every earlier session |
| role backfill (`scripts/backfill-single-role.ts`) | `users.role`, the retired `roles` | one `updateMany` per role | agrees with the fallback the API reads by |
| connection, guards, throttling, health (`common/`, `health/`, `main.ts`) | connection attempts, the fatal flag, counters | connect, shut down, increment, probe | boot and shutdown come to an end; a limit stays in force |
| session bridge and sign-out (`components/auth/`, `hooks/use-logout.ts`) | what one tab shows, its two sessions | exchange, choose a role, sign out | nobody is stuck; a sign-out holds |
| location editor (`components/dashboard/listing-editor.tsx`) | the four selectors and their lists | choose, load, send | what is sent is nested |
| email, configuration, statistics, request pipeline, chat, workers | none of their own | send, validate, count, format | not modelled (section 7) |

How they interact: controllers call one service method per request; the services
share the MongoDB collections and nothing else. `ListingsService` reads the
owner's `kycStatus` through `UsersService` before a draft is created and before a
submission, resolves locations through `GeoService`, and cleans up assets through
`CloudinaryService`. `SellerVerificationService` writes the same user documents that
`UsersService` and the admin services write. The session guard reads a session and
then its user; the account flows write users, tokens and sessions, each in an
operation of its own. The browser holds a Clerk session and the API's cookie, and
swaps the first for the second.

What is hard about it: nothing locks. A handler reads a document, checks what it
read, may await further queries, and saves the fields it changed, filtered by `_id`
alone. Two requests on one document interleave at every await. Status transitions of
listings and verification put the save and the history row in one transaction, which
protects them from each other's halves but not from a stale read; and a transaction
that is retried runs its callback again with a document that Mongoose already regards
as saved. Accounts have no transactions at all: a request that dies between two
operations leaves the first one done. Photos are written in two ways that do not see
each other, a conditional push and a versioned save of the whole array. The browser
acts before it hears from the API and takes back what failed. `PROJECT.json` lists
these hazards at their lines, with the properties that cover them.

## 2. The modules

| Module | Contents |
|---|---|
| `ListingLifecycle` | the ten operations on a listing, request by request |
| `SellerVerification` | the three operations on a seller's verification |
| `Marketplace` | both together: the lifecycle's gate reads the verification's state |
| `ListingMedia` | the photos of one listing: sign, upload, commit, remove, reorder, and a delete of the draft |
| `Geography` | the places, their nesting, and the chains a client may send |
| `GeoTaxonomy` | the seed, level by level, and the resolution of a location (on `Geography`) |
| `ListingFields` | the fields of one listing that belong together, under overlapping updates (on `GeoTaxonomy`) |
| `LocationEditor` | the cascade of selectors in the dashboard (on `Geography`) |
| `Roles` | the single role, its fallback for accounts with the retired array, and the backfill |
| `Users` | the user documents and the writes on them (on `Roles`) |
| `Sessions`, `AuthTokens` | the two collections and their operations |
| `Accounts` | the requests on all three: registration, login, Clerk, tokens, staff decisions |
| `MongoConnection` | waiting for the database at boot |
| `RateLimit` | the counters of the throttler, in Redis and in memory |
| `Server` | one process from bootstrap to its end (on `MongoConnection` and `RateLimit`) |
| `SessionBridge` | one tab's sign-in and sign-out |
| `CatalogPaging` | the catalog read page by page while it moves |
| `WebTab` | one tab: signed in by the bridge, it reads the catalog |
| `SavedListings` | bookmarks, at the API and in the browser |
| `PhotoGallery` | abstract: a list of at most the cap without repetition, which only grows at its end |
| `AuditedStatus` | abstract: a status moves only together with a history row |
| `ModerationPolicy` | abstract: the moderation state machine, every operation at once |
| `MC...` | model values, the values of function constants and the symmetry for TLC |
| `...Proofs` | the theorems about a module and their proofs; those about `RateLimit` are in `SavedListingsProofs`, those about `LocationEditor` in `ListingFieldsProofs` |

### ListingLifecycle

| Variable | In the code |
|---|---|
| `status[l]` | `publicationStatus`; "unborn" and "deleted" are ids without a document |
| `owner[l]`, `content[l]` | `ownerId`; the catalog fields, with `Bare` for a listing whose `location` is null |
| `trail[l]` | the `listingStatusHistory` rows of the listing, oldest first |
| `verified`, `everVerified` | owners whose `kycStatus` is 'verified', and who ever were |
| `pc[s]`, `req[s]` | one request being served: where it is, and the document it read |

A request starts with an action named after its service method (`Update`,
`Withdraw`, `Approve`, ...): the read and every check made on it, up to the first
await on something else. A request that fails a check is answered with an error
and changes nothing, so it is no step. The rest of the handler is one action per
database operation: `SellerVerifiedGate`, `InsertDraft`, `SaveUpdate`,
`CommitTransition` (on a retry `SaveUnmodified` and `AppendRow`), and for a delete
`CountHistory`, `EraseDraft` and `PurgeHistory`, each acting on `req[s]`, the stale
copy, as the code acts on its `listing` variable. Between any two of them every other request may run.

`CommitTransition` is one step because the save and the row are in one
transaction: of two that write one document one is aborted and run again from
the start of the callback, which is as if it had run later. `RetryAfterSave` is
the other kind of retry: the save went through, then the row or the commit
failed transiently; the server rolls everything back, and the document in memory
stays clean (`req.dirty`). Setting the same status on it again marks nothing as
modified, so the next attempt does not write the document: its save only looks
whether the document exists (`SaveUnmodified`), a read that conflicts with no other
request, and its row is inserted and committed later (`AppendRow`), by when the
listing may have moved on or been deleted. `Abort` ends a request anywhere: a failed
query, a lost connection, or the death of the process, which loses nothing but
requests, as all other state is in MongoDB.

`seen` in a request and the `trail` itself let the properties date what a
request read; `seen` is not in the code and no action looks at it.

### SellerVerification

The same shape with two steps per request, the read with its checks and
`Commit`. Status and note are separate fields, and Mongoose writes only those
that differ from what was read: `WrittenNote` is where that matters, since an
approval that read no note clears none.

### Marketplace

`ListingLifecycle` leaves `verified` and `everVerified` to an environment action,
`VerificationMoves`. `Marketplace` replaces both by what `SellerVerification`
keeps and checks that the environment was not supposed to do less than the real
one (`VerificationIsAsSupposed`).

### ListingMedia

| Variable | In the code |
|---|---|
| `stage` | `publicationStatus`: the two statuses that allow edits, "frozen" for the four that do not, "deleted" |
| `media` | the `media` array of the document, items as storage key and `position` |
| `version` | the document's `__v`, kept by Mongoose |
| `asset[k]` | the asset in Cloudinary: signed for, stored, destroyed |
| `commits[k]` | how often a client sent the commit of an upload (its browser may send it again) |
| `pc[s]`, `req[s]` | a request being served, the array and the version it read, and the array it will write |

`CommitUploadedMedia`, `RemoveMedia` and `ReorderMedia` are the read with its
checks; `PushMedia`, `SaveMedia` and `RenumberMedia` the writes. The push is
conditional on the array as it then is and does not increment the version. A
save whose array was set is conditional on the version that was read and
increments it. A reorder that leaves the order as it is only writes the
positions that differ: conditional on the version, without an increment.
`DestroyAssets` is the best-effort cleanup, which may reach any of the assets.
`LifecycleMoves` lets the lifecycle move the listing at any time; `moves` counts
the moves, `seen` is what it was when a request read, and no action looks at either.

### Geography, GeoTaxonomy, ListingFields

| Variable | In the code |
|---|---|
| `rows` | the documents of the collections, by code; a row names its parent once and for all |
| `seeder[s]`, `seeded` | one run of `seed:geo`: the level it is at and what it has left there; has a run ever completed |
| `listing` | the fields of the document that belong together |
| `request[s]` | an update: its body, the document it read, the secret of its process |
| `secret` | the secret the pin's offset is drawn with, by which of two deployments or restarts answers |
| `mixed` | parts whose two fields may come from different updates; no action looks at it |

The seed upserts the levels from the top; it takes the ids of the level above once
that level is complete, and may die between any two rows and be run again, or twice
at once. Rows are never removed, so the look at the rows in `Resolves` stands for the
four queries of `resolveListingLocation`. `Update` reads, `ResolveLocation` awaits
the geography, and `Save` writes the fields that differ from what was read:
`Changed` is the document in memory once the body is set on it, and the field by
field comparison in `Save` is what Mongoose sends. The offset of the public point is
the function `Fuzz` of secret and point. When an update may happen at all is
`ListingLifecycle`'s.

### LocationEditor

`chosen`, `offered` and `loading` are the React state of the four selectors, the
lists under them and the fetches under way; `sent` is the location of the last save.
A list may be empty, late, or still that of an earlier choice: `ParentIfOffered` is
the lookup `handleUpazilaChange` and `handleAreaChange` make in it. Each selector
also has the choice of no place, which its handler finds in no list: `ClearDistrict`,
`ClearUpazila` and `ClearArea` clear the levels below and leave those above alone;
`ChooseDivision` clears everything below it in either case.

### Accounts and its parts

| Variable | In the code |
|---|---|
| `account[u]` | the user document with the address u: `emailVerified`, `status`, is `passwordHash` set, is `clerkUserId` set, `role`, the retired `roles` |
| `session[i]` | a session that can be presented: from `issue` until revoked or expired |
| `token[i]` | an e-mailed token that can be redeemed: until spent, superseded or expired |
| `pc[s]`, `req[s]` | one request: the database operation it does next, and the last document it read |
| `lapsed[u]` | a request ended between cutting u off from its sessions and revoking them |

Each route is a first step named after it (`Register`, `Login`, `BridgeLinked`,
`VerifyEmail`, ...) and then one step per database operation, down to the separate
`updateMany` and `create` of a token and the separate reads of the session guard
and of the handler. `Abort` may end a request before any of them. Saves follow the
same rule as everywhere: `SaveStatus`, `SaveVerified` and `SaveLink` write the
fields that differ from what was *read* into what is *there*. A password is
set or not; a login that verified a password since replaced is one that `overtaken`
marks. `overtaken`, `raced` and `stale` date requests, tokens and sessions, and no
action looks at them. Creating an account is guarded by the unique index, as in the
code, and `Recover` is what the loser does.

### MongoConnection, RateLimit, Server

`phase` is where `bootstrap` is: probing, sleeping, connecting, wiring the
application, listening, serving. Delays are kept to the window the backoff computes;
time itself is not. `stranded` is a process whose `bootstrap` was rejected: nobody
awaits it, the guard logs the rejection, and the process neither serves nor exits.
`closing` and `fatalHandled` are those of `process-guards.ts`. An error is the
sequence of its causes, as `IsTransient` walks it, to a depth of five. `RateLimit`
counts the accepted requests of one caller in one window over several instances;
`fellBack` says that an increment was ever made in memory.

### SessionBridge, CatalogPaging, WebTab

`run[r]` is one run of the effect at `/complete`, `current` the one that has not been
aborted. React may run the effect again at any time; the run before sees it at its
next look at the signal. An exchange has two waits. Until the headers of an answer
arrive (`posting`) the call is limited to ten seconds and ends when the run is
aborted (`Answered`, `NotAnswered`); a welcome sets the cookie at that moment. From
then on `bridgeClerkSession` has taken both away, and the body (`welcomed`,
`refused`) is awaited for as long as it takes (`Exchanged`, `NotExchanged`).
`Redirect` is the page load that ends a sign-out, after both calls or by the
safeguard. `apiOut` and `clerkOut` are the two calls of a sign-out;
the API's outlives the page. `out` is set when both were torn down. `scan` is what
the browser has loaded of the catalog, page by page, with the cursor it got;
`history` is what entered, left and stayed meanwhile, and no action looks at it.

### SavedListings

`saved` are the rows, `job[c]` a call with the place its handler has reached, `ids`
the browser's copy, `lookup` its fetch. A save finds the listing public, looks for
its own row, counts, and upserts, in four steps. `doubt` holds the listings about
which the copy may be wrong for a reason the code accepts.

## 3. What is checked

| Run | Instance | Shows | Distinct states |
|---|---|---|---|
| `Lifecycle` | 1 listing, 1 seller, 1 staff, 3 contents, 2 requests at a time, history up to 4 and the requests in flight, retries after the save | the safety of the catalog, of takedowns, of reviewed content and of deletes; every write is a step of `ModerationPolicy` but by a request that was overtaken | 273,634 |
| `Verification` | 1 seller, 1 staff, 3 requests at a time, history up to 4, retries | verification only by staff, and it lasts | 21,586 |
| `Marketplace` | 1 listing, 1 seller, 2 + 2 requests, both histories up to 4 | both histories vouch for the catalog; both statuses implement `AuditedStatus`; the composition is as `ListingLifecycle` supposes | 185,701 |
| `Media` | 3 uploads, a cap of 2, 2 requests at a time, each commit sent up to twice, 2 saves, 1 move of the lifecycle | implements `PhotoGallery`; what may lose a photo, show a destroyed one, or change photos of a frozen listing | 845,342 |
| `AccountAccess` | the owner, and a prime from the multi-role days who suspends; 2 requests, 2 sessions, 1 token | which sessions survive a reset, a suspension, a link; whom a sign-in admits | 1,090,672 |
| `AccountRoles` | the owner, and support staff from those days who may become a seller; 2 requests, 2 sessions, 2 tokens; the backfill | who comes to hold which role, who lifts a denial, which tokens work at once | 513,286 |
| `Server` | 3 probes, 2 connections, 2 instances, 2 requests per window, four kinds of error, fairness | boot, shutdown and health checks end; the budget of the limiter | 117,248 |
| `Web` | 2 sign-ins, 2 runs of the effect with 2 polls each; 3 listings, 1 to a page, offsets up to 1, 1 move during a visit; fairness | the spinner ends but for the wait without a limit, a sign-out holds, what a scan of a moving catalog shows | 511,088 |
| `Saved` | 4 listings of which 2 fit, 2 calls at a time, the session lost up to twice | the hearts and the cap | 144,438 |
| `Fields` | 2 districts, 2 upazilas, 1 area, 1 seeder at a time, 2 updates at a time and 3 in all, 3 transaction types, 2 pins, 2 secrets | the chain, the flag and the pin | 2,540,612 |
| `BridgeHangs` | 1 sign-in, 1 run of the effect with 1 poll, a catalog as in `Web` | violated: section 6 | |
| `EditorChain` | 2 districts with an upazila each, 1 area | violated: section 6 | |

Bounds. One listing and one seller are enough for the interleavings, since no
handler reads two listings or two sellers; the theorems have no bound on either.
Two slots are the smallest number with a race; a third is used where it is
affordable. The guard on accepting a transition lets histories reach five rows in
`Lifecycle`: a listing is submitted, approved, taken down and then withdrawn by a
request older than the takedown; or submitted, withdrawn and restored, then deleted
by a request that had counted no rows. (With `MaxRows = 5` the run has 1,703,184
states and the same verdicts.) Four rows hold submit, reject, submit, approve, or
request, reject, request, approve. The bound
is a guard on accepting a transition, `MaxRows` or `MaxEvents`, so requests in
flight may exceed it by the number of slots. `Content` needs two complete values
for an update that changes a complete listing. `Media` has one upload more than
fits, so that a commit meets a full array; two saves are a remove and a reorder,
or a remove and one that is refused for its version. A second move of the
lifecycle would show nothing new: a request only compares the status when it
reads. `MaxCommits`, `MaxVersion` and `MaxMoves` guard what clients and the
lifecycle start, and the theorems hold for all their values.

The two account runs divide the routes between them (`Offered`), as all of them at
once are too many for one run; each has the requests that race for what its
properties are about, and the theorems hold for any division. Two users are the owner, in whom every rule meets, and one
who acts on them. `SessionId` and `TokenId` bound how many are live at the same time,
not how many there ever are. `Fields` needs the third update so that one is
overtaken by another that read what a third one wrote; it has one seeder, which dies
and starts again, while `ChainIsSound` is proved for several at once. `Saved` needs twice the cap
in listings for two saves to pass it while two others are there. `Web` has two
listings of one age and two of one price, on both sides of a page boundary, and an
offset bound that the second page passes. `Server` has one probe more than it takes
to see the backoff capped.

Deadlock is checked in `Lifecycle`, `Saved` and `Fields`. Elsewhere the
system really may stop: once every seller is verified no verification request is
accepted any more; a deleted listing has no requests; a process may have exited; and
the bounds on sessions, tokens, sign-ins and effect runs end the rest.

Symmetry is over slots, calls, keys, sessions, tokens and listings, and only in runs
without liveness.

Most modules define a `TypeOK` of their own. Where no run lists it, it is proved
(`ListingMedia`, `SellerVerification`, `SavedListings`, `ListingFields`, `WebTab`), or it
is a statement for the reader (`Server`, `LocationEditor`).

Fairness is stated where a run checks liveness, in `Server` and `WebTab`, and is that
of timers and of awaited calls with a limit. In `Server`, bootstrap goes on (every
step of it is an awaited call with a limit, or a timer), and the timers of `onFatal`
and of the health check fire; nothing is asked of the database, of Redis, of
`app.close()`, of the ping. In `WebTab`, a run of the effect takes its next step: its
sleeps are timers, and the headers of an answer are given ten seconds. Nothing is
asked of the body of an answer, which the code awaits without a limit; `SpinnerEnds`
excepts exactly that wait, and `BridgeHangs` shows that it must. Clerk's `getToken`
has no limit in this code either; that it answers is supposed of Clerk's library, and
without it the spinner of `/complete` could last too. Nothing is asked of a sign-out.
`ListingLifecycle` states no fairness: that each of its requests ends would follow
from the progress of the handler's steps alone.

## 4. What is proved

The proofs suppose nothing of the sizes of the constant sets (`Listing`, `Seller`,
`Staff`, `Slot`, `Content`, `Key`, `Call`, `Kind`, `Pin`, `User`, ...), except that what
is counted is finite (calls, saved listings, instances, the rows of the catalog), and use only the named assumptions of the modules. The
bounds on histories, commits, versions, updates and flips are arbitrary.

`ListingLifecycleProofs`. No property of interest is inductive: that an approved
listing was reviewed depends on what every request in flight can still commit.
The invariant `IInv` says what a request's copy means, in layers, each proved
from the ones before it:

1. `WellFormed`: the types; each request is at a step its operation has, read a
   status its operation accepts, and acts for someone of the right kind;
2. `InPlace`: a request is about a listing that was there when it started and, for
   the owner's operations, is the caller's; an id being created is known to no
   other request;
3. `Dated`: if an existing listing is no longer in the status a request read, some
   row written since then moved it to where it is now (the heart of the argument:
   every theorem about stale requests rests on it);
4. `OwnersWereVerified`: the owner of every listing was verified before it was
   created;
5. `Vouched`: the history holds the submission and the approval that the status of
   a listing implies, and those that the status a pending request read implies;
6. `Located`: what is submitted, or about to be, has a location;
7. `Counted`: a listing that a delete is about to erase, or has erased, had no history
   when that delete read it.

From `IInv` follow the invariants `TypeCorrect`, `CatalogIsReviewed`,
`SubmittedIsComplete` and `ReadsAreDated`, and the action properties
`TakedownHolds`, `ContentIsFrozen` and `NothingWrittenAfterDelete`, step by step.
The last of these says what the transaction gives and no more: a first attempt whose
listing was deleted fails on its save and writes no row, while the row of a retry,
whose look at the listing conflicts with nothing, may come after the delete.
`PolicyHolds` takes the steps of the handlers one by one to those of
`ModerationPolicy`, for any number of requests in flight: a request that nothing
overtook since its read writes what the documented state machine allows, and
`Overtaken` names what may have come in between. `HistoryRefinesLedger` is the
refinement of `AuditedStatus`; it assumes `~CommitFaults`, since a transaction
retried after its save commits a row without the move it names. From `PolicyHolds`,
in the last section: with one slot and no retries after a save, the lifecycle
implements `ModerationPolicy` (`SequentialPolicy`); the additional invariant,
`Undisturbed`, is that no request was overtaken.

`SellerVerificationProofs`. The same layers, smaller: `WellFormed`, `Dated`,
`Vouched`, and, without retries, `Noted`, which relates a leftover note to a fork
in the history. Theorems as for listings, with `NoteNeedsOverlap`. `Vouched` speaks of
the present status; `HistoryIsDecided` is about every row that ever verified a
seller, which is what the composition needs.

`MarketplaceProofs`. Nothing is proved twice: the two proof modules are instantiated
over the marketplace's variables, and their theorems are used as they stand. A
behaviour of `Marketplace` is one of `SellerVerification`; so the rows of its history
satisfy `HistoryIsDecided`, and rows stay; so what the listings see of the
verification (`VerifiedNow`, `VerifiedInHistory`) moves as `ListingLifecycle` lets its
environment move it (`ListingsAreServed`); so a behaviour of `Marketplace` is one of
`ListingLifecycle` too. That order matters: the assumption one component makes about
the other is discharged without using the first one's guarantee. `CatalogIsVouched`
then joins the two histories. The assumptions of `Marketplace` are those of its parts.
The three theorems about notes and ledgers keep the hypothesis `~CommitFaults` of the
theorems they come from.

`AccountsProofs`. An invariant about accounts must survive any request between any two
database operations of another. `IInv` has, beside the types, `RequestsFit`: what each
request at each of its steps may rely on, in five parts: `OnRoute` (which routes lead
to the step), `Grounded` (the account a step writes is there: no operation of the code
erases one), `Dated` (a sign-in that passed the check of the status, and finds the
account denied by now, was overtaken), `Proven` (who is about to be made prime has a
proven address, and proofs are never taken back) and `Entitled` (who decides about
somebody passed the checks of the route). `Owned` says that sessions and tokens have
accounts, `Superseded` that between the `updateMany` and the `create` of a token no
token of its purpose works, unless another request came in between; `EarlierSessionsEnd`,
`LiveTokensOnlyByOverlap` and `PrimeOnlyIfProven` are inductive given these. The proof
goes route by route and operation by operation, on lemmas that say what each write of
`Users`, `Sessions` and `AuthTokens` leaves alone. `DenialsAreKept` and
`StaffAnswerToThePrime` are action properties: only a few steps touch the status or the
role of an account to its disadvantage (`Harmless` is the rest), and of these
`Entitled` and `Dated` say who takes them. `BackfillKeepsRole` is about the role
arithmetic alone: the backfill's first matching branch is the highest role the fallback
finds, for every array. The module supposes of the constants that model values are not
themselves records of the model (`ValueAssumption`).

`ListingMediaProofs`. A save replaces the whole array, so the refinement of
`PhotoGallery` depends on how the array a request read relates to the one it
replaces. `IInv` has the layers `WellFormed` (types, and that what a save will
write is what was read without the removed photo, or in another order),
`Sound` (no repetition, the cap), `Current` (on the version a request read, what
it read is a prefix of the present array, up to positions: pushes, which only
add at the end, are all that leaves the version alone), `Dated` (a request in
flight while the listing is frozen read it before) and `Tracked` (a key whose
commit was sent once is on its way in, in the array, or on its way out, never two
of these). They rest on lemmas on arrays of photos: what splicing, permuting,
numbering and appending do to the keys, with the pigeonhole fact that makes the
check of `reorderMedia` a check for permutations (`InjectionIsOnto`).

`SavedListingsProofs`. The cap (`CapIsSoft`) is inductive given the types: only a count
that finds room promises a listing (`PromisesShrink`), it finds fewer rows than the
cap, and beyond the rows there is at most one promise per call (`FewImages`). The
hearts (`HeartsAgree`) need what a call in flight means for the copy, the one there is
or the one on its way (`LookupOrCopy`): `HeardOnce` (the browser waits for at most one
call per listing), `Doubted` (a call nobody waits for, or one a lookup did not see, is
on a listing in doubt), `Outstanding` (outside of doubt the copy already has a call's
outcome and the rows do not) and `Agreed` (and elsewhere they agree). The last section
of the module is about the API's other limit, that of `RateLimit`: `LimitInv` says that
the accepted requests are as many as the pairs of a store and a number up to its count
(`Passed`), so that the budget is the size of a product, and that the instances have
counted nothing before Redis failed. `ServerKeepsTheBudget` states it of a whole
`Server`, every other step of which leaves the counters alone.

`ListingFieldsProofs`. `ChainIsSound` rests on the seed, not on the updates: rows
are never removed and a row is written only after its parent, so a location that
resolved once stays resolved (`SeedsAdvanceAlways`, `LocationsResolvedAlways`), for
any geography that satisfies `GeographyAssumption`, any number of seeders and any
of them dying. `FlagNeedsOverlap` and `PinNeedsRotation` have invariants that date
a request against the document: a request on which a part was not `overtaken` reads
in its copy what is stored (`KindsDatedAlways`, `PinsDatedAlways`), and `Merged` says
which field the save takes from which side. The last section of the module is about
`LocationEditor`, over the same geography: `ChainSentIsNestedBelow` says how far the
chain the form sends can be off, since it is not always nested (section 6). An area
that is sent lies in the upazila sent with it, because the choice of an area fills
that in and every other choice clears the area (`NestedBelow`). An upazila may come to
stand under a district it does not lie in (`Torn`), and it does so in one way: by the
choice of an area on offer whose upazila is not (`Unplaced`, `TearingStep`). It stays
there when the area alone is set back to no place, so that a chain without an area may
fail to be nested as well.

`WebTabProofs`. `TabInv` explains why a sign-out holds: while the user is leaving the
app is shown, where no run of `/complete` is live (`current = 0`), so that what the two
calls tear down nothing brings back before `/login`. `RunsInv` bounds the polls of a
run by where it stands. `CatalogInv` has a part for each
kind of scan. By age (`KeysetInv`): the cursor parts the listings shown from those that
stayed and are still owed; a page keeps that, because its last row is the greatest of
it (`CursorIs`) and what it leaves out comes after (`LeftForLater`), in the strict total
order that creation time and id make (`Order`). By price (`OffsetInv`): every row has a
`Rank`, the number of rows before it, and a page shows the ranks in its window
(`WindowIs`); `Again` are the rows past the offset that were shown, `Missed` those
before it that were not. A listing that enters moves one row at most across the
offset into `Again`, one that leaves moves one at most into `Missed` (`RankMoves`,
`RanksDiffer`), and a page adds to neither. That a finite set of rows has a first and a
last (`FirstRow`, `LastRow`), which a reader would prove by induction, is proved from
the well-foundedness of strict inclusion on finite sets.

A convention of the modules: two fields of one record in a function are updated as
`[f EXCEPT ![x] = [@ EXCEPT !.a = ..., !.b = ...]]`, never as two updates at the same
index, which the SMT backend of this version of tlapm does not translate faithfully.

Only model-checked: `NothingHangs` and `SpinnerEnds`, the liveness properties, whose
fairness is out of the prover's reach. Every invariant and every action property that a
passing run checks is the statement of a theorem.

## 5. Outside the model

- MongoDB and Mongoose, as the code uses them, are taken to be: reads of single
  documents are atomic; a save writes the modified paths filtered by `_id`, and
  fails if the document is gone; a transaction is atomic and conflicts with
  another on the same document; `withTransaction` retries on transient errors; a
  unique index refuses the second of two inserts. A save that set an array is also
  filtered by `__v`, and increments it; a `findOneAndUpdate` does neither. Such
  definitions are marked external in `PROJECT.json`.
- Cloudinary: an upload makes a new asset with a key of its own; a destroy works
  or does not. Signatures, formats and sizes are not modelled.
- Clerk: an identity has one verified primary address, and an account is named by
  it; a change of address is not modelled. Webhooks may be repeated and reordered.
- The verification gate is on: `REQUIRE_SELLER_VERIFICATION=false` opts out of it.
- `ListingLifecycle` and `ListingMedia` suppose that users have the role the route
  asks for; that a role may be lost while a request is served is in `Accounts`.
- Reasons of rejections are not kept apart; their presence is (`hasNote`).
- An update that writes back the values it read changes nothing and is no step.
- The catalog moves only while somebody looks (`Visit`); one tab is modelled, not two
  that share the cookie.
- The window of the rate limit and the lengths of delays and timeouts are not
  followed; that they end is.

## 6. Findings and known consequences

Two statements of the code are refuted by runs of their own:

- `EditorChain`: "the chain sent is always self-consistent"
  (`listing-editor.tsx` 253-255). `handleAreaChange` (line 224) fills in the upazila
  of the chosen area, and its district only if that upazila is on the list at hand.
  With a district and no upazila chosen, the areas of the whole country are offered
  while the upazilas are narrowed to the district; an area of another district then
  leaves the first district in place, and the API answers the save with 400. TLC's
  counterexample is shorter still: the area is chosen before the upazilas are loaded.
  Setting the area back to no place does not mend it.
- `BridgeHangs`: "a hung (not failed) API must still reject — otherwise the user is
  stranded on the spinner with no retry" (`lib/api.ts` 171-173). The `finally` of
  `bridgeClerkSession` (195-198) clears the timer and drops the abort listener once the
  headers have arrived; the body (line 200) is then awaited without a limit. In the
  counterexample the headers come and nothing more.

Six further statements hold only up to an exception. The property of each is the
statement with that exception, named so that it says which; TLC refutes the statement
without it.

| Statement | Where it fails | Property |
|---|---|---|
| the rejection note is "Null unless the last decision was a rejection" (`user.schema.ts` 70-71) | of an approval and a rejection that overlap, the approval commits last and, having read no note, clears none: the note stays on a verified seller | `NoteOutlivesRejectionOnlyByOverlap` |
| "only the most recently emailed link works" (`auth-token.service.ts` 17-19) | two issues overlap: both mark the older tokens used, then both create one | `LiveTokensOnlyByOverlap` |
| `markEmailVerified` "Never downgrades an already-active/suspended/deleted status" (`users.service.ts` 81-82) | it read a pending account, and activates it over a suspension committed since | `DenialsHold` |
| `becomeSeller` "can never DEMOTE staff by overwriting their role" (`me.controller.ts` 16-19) | it trusts the role read when the request was authenticated, and overwrites a role assigned since | `OnlyPrimeActsOnStaff` |
| exact and public point are "minted together (MAP-2) so they can never drift apart", "Set/cleared together", "the public point moves with the pin, never independently" (`listings.service.ts` 563-564, 349-351; `listing.schema.ts` 255) | two updates of the pin overlap and the secret has changed: the public point of a removed or another pin stays | `PinDriftsOnlyByRotation` |
| "a reset always ends other sessions" (`account-flows.service.ts` 109-110) | the reset dies between the new password and the revocation, and its token is spent; a suspension and a link that drops an unproven password likewise | `EarlierSessionsEnd` |

The following are outcomes of the model and the code that the properties are stated
around; where the code describes a rule they go past, the rule is named.

- A withdrawal that read an approved listing may be saved over a takedown committed
  in between; its owner can then restore the listing, which is what the guard at
  `listings.service.ts` 371-374 is there for (`TakedownHoldsForLaterRequests` says that
  only such a request can).
- An approval that read a submission may be committed after the owner withdrew,
  restored, edited and submitted the listing again: what is published was submitted and
  approved, but is not what the staff member saw. No property says otherwise.
- An update that read an editable listing may be saved after it was submitted and
  approved: reviewed content, and likewise its photos, change
  (`ContentFrozenForLaterUpdates`, `PhotosFrozenForLaterRequests`).
- A delete counts history rows and then repeats the status check, not the count: a
  draft that was submitted, withdrawn and restored in between is erased with its
  history, although the rule is "never been submitted" (`listings.service.ts` 428-432;
  `PolicyUnlessOvertaken`).
- A transaction retried after its save commits a history row without the status
  change it names, hence `CommitFaults` in the refinements; and it may do so after the
  draft was deleted with its history, which leaves a row of a listing that is gone
  (`RowsAfterDeleteAreRetries`).
- Two commits of photos that overlap take the same position; a reorder or a remove
  drops a photo whose commit falls between its read and its save
  (`FreshRequestsKeepTheGallery`, `PhotosLostOnlyByStaleSave`).
- A login that verified a password replaced since opens a session after the reset has
  revoked the others. No property says otherwise.
- The loser of two first sign-ins returns the winner as it is: registered by password
  meanwhile, the account is signed in without being linked (`SignInsAreVouchedFor`).
- `setStatus` saves over a deletion mirrored from Clerk since its read (`DenialsHold`).
- A sign-out that the safeguard ends may leave either session live, and its call to the
  API may clear the cookie of a later sign-in; `SignOutHolds` is about the sign-outs of
  which both calls succeeded.
- A bootstrap that fails after the connection leaves a process that serves nothing and
  does not exit (`NothingHangs` counts it as an end of bootstrap).
- A scan by offset may skip one listing for each that left and repeat one for each
  that entered (`OffsetScanDrifts`), and the API refuses cursors it hands out past its
  limit (`phase = "refused"`).
- The soft cap on saved listings may be passed by the number of concurrent saves less
  one (`CapHolds`).

## 7. Not modelled

- Email delivery: one outgoing HTTP call and templates. That it fails is in
  `Accounts` (`MailFails`).
- Request pipeline, configuration: stateless validation and formatting; constants
  read once.
- Admin statistics, the lists of accounts and listings, the lookups of the
  geography, listing facets and the text search: reads without a rule that a second
  reader could break. The regular expressions of the search and the trigonometry of
  the pin are computations on strings and floating-point numbers.
- The city corporation of an area: a flat tag beside the four levels.
- Chat gateway and workers: a health route and a log line in this commit. Deployment,
  build files and tests.
- Of the web: rendering, forms, labels and translations; the caches of the dashboard
  and of the moderation queue, which are refetched after each mutation.

The share of the lines that the modules stand for stays small for this reason: some
6500 lines are the geography's data, which `Geography` takes as constants, and most
of the rest is the markup of the web application.

## 8. Plan

Done: every component of section 2 modelled and model-checked; a proof for each
invariant and each action property that a passing run checks.

What a next step could prove:

1. `Server`: that a process which serves has connected, and that no transient error
   starts a shutdown;
2. lemmas that several modules have in forms of their own (dating a request against a
   history, lists without repetition), in one place.
