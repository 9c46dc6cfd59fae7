# TLA+ models of the Brave blueprint programme

The program (`src/backend`, Go; `src/frontend`, React) lets members of an
alliance ask a corporation for blueprint copies. Members log in with EVE's
single sign-on, look at the corporation's inventory, and post *requisitions*;
workers of the corporation lock a requisition, contract the blueprints in the
game, and mark it completed or rejected. This directory holds TLA+ models of the
parts of the backend where several requests, timers, or statements meet, the TLC
configurations that check them, and theorems proved with TLAPS.

## The system

| Component | Code | State | Operations | Met by |
|---|---|---|---|---|
| requisition API | `api.go`, `requisition.go` | none of its own | lock, unlock, cancel, complete, reject, get, list, post | every HTTP request is a goroutine |
| requisition locks | `syncmap.go`, `main.go:94` | `app.requisitionLocks`, in memory | Get, Set, Delete, each under a mutex | all requisition handlers, reads included |
| requisition storage | `dao.go:336-471` | table `requisition_order` | one INSERT, two SELECTs, three UPDATEs | requisition handlers; survives restarts |
| inventory ticker | `asset_ticker.go` | two timers, the token source, `app.inventoryState` | refresh the token, fetch and swap the inventory, stop | one goroutine; `refreshAdminToken`, `getBlueprints`, shutdown |
| inventory aggregation | `asset_ticker.go:120-563`, `glue/` | an inventory under construction | paging with retries, names, location filter, grouping | the ticker |
| inventory reads | `api.go:97` | `app.inventoryState` under `invStateLock` | getBlueprints | the ticker's swap |
| admin token | `api.go:50`, `utils.go:204` | `adminTokenRefreshChan`, one slot | refreshAdminToken, getAdminToken | the ticker |
| login and sessions | `auth.go`, `utils.go:88` | session files, keyed by a cookie | login, add character, add scope, callback, logout | EVE SSO, account storage |
| account storage | `dao.go:85-334` | tables `user`, `toon`, `token`, `scope` | find and create user, find or create toon, add scopes, get token | callbacks; the ticker reads tokens |
| configuration | `api.go:58`, `dao.go`, `main.go:30` | `app.config` and one row | get, post | login (whitelist, level), ticker (admin character) |
| middleware | `middleware.go`, `middleware_chain.go` | none | level check, logging, append | every request |
| shutdown | `main.go:150-211` | contexts | cancelThreads, server.Shutdown | ticker, requests in flight |
| token verification | `jwk.go` | a library's key cache | verify | login |
| frontend | `src/frontend/src` | page state | select requests, request blueprints, log in | the API |

What is hard about it:

* **Two stores, no transaction across them.** A handler looks at the lock map,
  reads the row, changes the lock map, writes the row with an UPDATE whose WHERE
  clause is the id only, and releases the lock. Another handler, the lock's hour
  or a restart fits between any two of these. The lock map is lost on a restart
  and the table is not.
* **Reads that write.** `getRequisitionLock` deletes an entry it finds expired,
  in a second map call, and GET and list call it.
* **Errors that are not errors.** `setRequisitionLock`'s refusal is ignored by
  both its callers; `cancel` goes on after a failed UPDATE and the other two
  return; an UPDATE may have been applied though it reports an error.
* **A goroutine that signals itself.** The ticker sends on the one-slot channel
  it alone receives from, beside an HTTP handler that sends there too.
* **A login is a program of up to five statements** over four tables, with one
  transaction in it, whose session was loaded before and is saved after, while
  the same browser may begin another login; statements fail half way.
* **Identities change.** A sold character returns with another owner hash.
* **A configuration in two places**, read without a lock. A post writes the row
  and then the pointer `app.config`; a login reads that pointer up to five
  times, the ticker once for every page.
* **The inventory is fetched while it changes**, page by page, with retries that
  step the loop's variables by hand, and then by several goroutines at once.

What makes each component correct: a requisition is closed once, by who may
close it that way, and what a worker was told about a lock is so; a live lock is
not taken from its holder; the inventory keeps being refreshed, the goroutine
stops when told and never waits for itself, and readers see one snapshot and are
always served; nobody ends up in another's account, a scope is backed by a
refresh token of the same toon, and a user that was created can be reached; who
gets past the whitelist is let in by the configuration, and admins come from
where a configuration in force named them; what was in the listing all along is
fetched, and counted once.

## Modules

| Module | What it is |
|---|---|
| `RequisitionLedger` | abstract specification of `requisition_order`: orders are opened, decided upon while open by who is entitled, and decisions are applied later or lost |
| `RequisitionApi` | the handlers, the lock map, the table, expiry, failures, restart; implements `RequisitionLedger` |
| `InventoryTicker` | the ticker goroutine, its channel, timers and lock, with its two kinds of HTTP request, the admin character's token, and the end of `main` |
| `InventoryFetch` | one fetch of the inventory: pages and retries while EVE's listing changes, the count of each quality, the goroutines for names and assets, the tree |
| `Accounts` | logins, sessions, and the four account tables, with EVE's grants and revocations |
| `Configuration` | the configuration's row and its copy in memory, posts, and the logins that read it: whitelist and levels |
| `MCAccounts`, `MCInventoryFetch`, `MCConfiguration` | TLC instances: identities of a sold character; blueprints of a few qualities in nested containers; configurations that hand over from one corporation to another |
| `*Proofs` | theorems about the module of that name |
| `Induction` | induction over a set of naturals, and what it gives for folds and sorted lists; used by `InventoryFetchProofs` |

How they fit together: `Accounts` is where the token comes from that
`InventoryTicker` uses. There `granted` is the set of characters for which
`getTokenForCharacter` finds a token; it may change at any time, which is more
than `Accounts` lets it do. `admin` is the field of `Configuration`'s
`config` that the ticker reads, and changes at any time too. `InventoryFetch` is
what `FetchFails`, `FetchSucceeds` and `Build` do inside. `Configuration` has
the part of a callback that reads `app.config`, `Accounts` the part that uses
the database between the last two of these reads. The level it computes is
the one `RequisitionApi` lets requests arrive with.

Some definitions are marked `mutant`. They are plausible errors of the
definition below them and no specification uses them; every property of a
passing run has one that makes that run fail, so that each is known to notice
something.

### RequisitionApi

A request occupies a slot of `Requests` and is a program with a location: the
call it makes next (`check`, `read`, `set`, `put`, `write`, `release`,
`delete`, `done`). One `syncMap` call or one SQL statement is one step.

| Action | Code |
|---|---|
| `Arrive`, `Respond` | routes and level check (`api.go:17`), return |
| `FindExpired`, `GetRequisitionLock` | `getRequisitionLock` (`api.go:151`): the read, and the Delete of an entry that was found expired |
| `CheckForLock`, `CheckForUnlock`, `CheckForCancel`, `CheckForClosing` | the first look at the lock in `patchRequisitionOrder`, with its refusals 400, 403, 409 |
| `ReadOrder`, `ReadFails` | `dao.getRequisition`, the owner and status checks 401, 409 |
| `SetRequisitionLock`, `PutLock` | `setRequisitionLock`'s two calls |
| `WriteOrder` | the UPDATE, applied or not, reported as failed or not |
| `DeleteRequisitionLock`, `DeleteLock` | `deleteRequisitionLock`; `unlock` has only the second |
| `ReadForGet`, `CheckForGet`, `ListOrders`, `CheckForList` | the two GETs; a list makes one `getRequisitionLock` per row |
| `PostRequisitionOrder` | the INSERT |
| `LockExpires` | the hour of `api.go:158` ends |
| `Restart` | the map and the requests in flight are gone, the table stays |

`disturbed` is auxiliary: it holds the requests for which, since their first
look at the lock, another request changed that lock or row, or the hour ended.
No action reads it. With it one can say what a handler guarantees when nothing
comes in between, and check that under full interleaving.

Abstracted: blueprints of an order, messages and wording. An entry is compared
with the clock in the step that reads it. An id that is no number (400), a PATCH
with an unknown action (200, no effect), a list without rows, and a post without
blueprints change nothing and are left out. Ids are not reused.

### InventoryTicker

The locations of the goroutine are listed at the head of the module. `granted`
are the characters for which the database has a token, `admin` the configured
one; both change at any time. `ctx` is whose token the goroutine got at its last
refresh, if any: `createOauthContext`. `outdated` holds the readers for whom the
pointer `app.inventoryState` changed between their two reads. A goroutine
waiting in `Lock` holds up new readers, as `sync.RWMutex` does. What is fetched
is left out, and so is how long an hour, a minute, or a second is: a running
timer may fire at any time. The module relies on a Ticker that is stopped or
reset delivering no earlier tick, which Go guarantees from 1.23 on.

`CancelThreads` is `main` after its signal: the goroutine's context ends, and
`server.Shutdown` takes no new requests and waits for those in flight, of which
a post of the configuration may still set another admin (`NewAdmin`). `End` is
its return, with none left or after 30 s: the process is gone, and with it
whatever anybody waited for. `asked` is auxiliary: a `refreshAdminToken` request
has sent.

### InventoryFetch

`PageArrives` and `PageFails` are the two ways through the body of the paging
loop, `Group` is the loop over the blueprints and the start of the goroutines,
`NameChunk` and `LabelChunk` are one request for the names of types and of
containers, `AssetsArrive` is the end of `fetchCorpAssets`, and `Return` is what
comes after `wg.Wait`, with `buildAssetTree`. `Offer` and `Withdraw` are the
corporation's listing changing while it is read. `X-Pages` may be missing,
which the code reads as 0. A page beyond the last is refused, like any failing
request. Everything but the listing and the last inventory's tree belongs to the
one fetch, so one fetch stands for all of them. `Group` forgets what the pages
left behind, which nothing reads any more.

Abstracted: the map from types to lists is one sequence, since a quality implies
its type. The location filter looks into the tree of the inventory under
construction, which is nil until the end, so that only the hangar is filtered:
that is how it is modelled. The pages of `fetchCorpAssets` are one step, which
brings one of a set of lists, or nothing if its error was dropped. The names of
the hangars, one request that falls back to "Division n", are left out.

### Accounts

An identity is a pair (character, owner hash). A user is named by the identity
in its `primary_toon_hash`, which is UNIQUE. `DoLogin` hands out a state and
keeps it in the session; `Callback` is EVE sending the browser back; then one
step per statement: `GetUserForCharacter`, `CreateUser`, `FindToon`,
`CreateToon`, `FindScopes`, `StoreToken` (a transaction), and `SaveSession`,
which overwrites what the store has by then. `Revoke` is the owner revoking a
refresh token at EVE. With `Faulty`, a statement may fail before or after it
took effect and `Restart` may happen: the cookie keys are random
(`utils.go:88`), so all sessions are lost and the tables stay.

Two variables are auxiliary, and no action reads them. `used` holds the states
with which a callback has saved its session, `crossed` the toons for which a
callback went to store a token while another was about to, or because it could
not read the scopes that the toon has.

`getTokenForCharacter` is the join with which the ticker finds its token: on
`toon_id`, so that `scope.token_id` plays no part in it.

Abstracted: the whitelist (a refusal changes nothing) and the level of a session
are in `Configuration`; one set of scopes is ever asked for (`auth.go:351`), so a
toon has all or none. A callback whose session has no state fails a type
assertion and panics, which `net/http` recovers: it changes nothing, and is left
out with the other refusals.

### Configuration

A post is two steps, `UpdateConfig` and `AssignConfig`; a login is one step for
each time it reads `app.config`: `HasAllianceWhitelist`,
`HasCorporationWhitelist`, `InAlliance`, `InCorporation`, `GetLevel`, and then
`SaveSession`. `Callback` is what comes before, `VerifyTokenClaims` and the
affiliation from EVE included. `Move` is a member changing corporation, which no
session notices. `Restart` loads what the row holds and loses the sessions.

`app.config` is a pointer, and one step reads one word of it. `during` (what
`app.config` was since a login's first read), `named` (each admin corporation
since the start) and `crossed` (two posts overlapped, or an UPDATE was reported
as failed) are auxiliary; no action reads them. `max_contracts` has no reader
and is left out.

## What is checked

| Run | Result | Question and instance |
|---|---|---|
| `Requisition_two` | holds | One requisition, its owner and two workers, two requests at a time, every action: types, `ClosedByTheRightParty`, `UndisturbedWrite`, `ReplyIsTruthful`, `HolderKeepsLock`, `SettledIsFinal`, and the refinement of the ledger (`LedgerSpec`). 1.1 million states. |
| `Requisition_serial` | holds | Two requisitions, one request at a time, with expiry, errors, restarts: `OnlyOpenIsClosed`, `LockReplyMeansHeld`, `OnlyHolderUnlocks`, that is, what the handlers' messages say. |
| `Requisition_double_close` | violated | `OnlyOpenIsClosed` with two requests |
| `Requisition_double_lock` | violated | `LockReplyMeansHeld` with a worker and an owner, two requests at a time |
| `Ticker_shared` | holds | A refresh request, two readers, two characters, and the end of `main`: types, `OneTimerRuns`, `ReaderSeesOneInventory`, `OwnSendIsFree`, and the liveness properties `InventoryIsRefreshed` and `StopsWhenTold` (unless the goroutine is wedged), `ReadersAreServed`, `RefreshTakesEffect` (a refresh changes over to the configured character's token), and `DrainsUnlessSendIsLost` (Shutdown waits in vain only for a send that nobody will receive). 16 thousand states, nine properties. |
| `Ticker_wedged` | violated | `SignalIsHeeded` with one refresh request |
| `Inventory_fetch` | holds | Every list of three out of four blueprints, two on a page, up to two changes of these or two more: types, `NothingMissed`, `NothingTwice`, `FailsOnlyPersistently`, `TotalsAgree` (the count in place against a sum over what was fetched), `NamesAreComplete`, `ContainersAreNamed` (for the WaitGroup and the last tree), `TreeIsComplete` (the tree against four lists of assets), `QuietFetchIsExact` (a listing that never changed and whose length was known is counted for just what is in it, once, over all pages and retries), and the liveness property `FetchEnds`. 1.1 million states. |
| `Accounts_faults` | holds | Two callbacks at a time in two browsers, an identity before and after its sale, failures and restarts: types, `SessionInOwnAccount`, `ScopeHasItsToken`, `StateUsedOnce`. 740 thousand states. |
| `Accounts_reliable` | holds | Two callbacks at a time in two browsers, a third identity, two grants, no failures: `TokensAreNamed` (the rows the ticker takes its token from are tokens of this character's toons, and just the ones the scopes name unless two callbacks raced to store one), `UserIsReachable`, `SessionHasToon`. 2.5 million states. |
| `Accounts_orphan` | violated | `UserIsReachable` with a failing statement |
| `Accounts_regrant` | violated | `GrantIsUsable` with a revoked token |
| `Configuration_posts` | holds | Two requests in flight in two browsers, three configurations, two corporations: types, `WhitelistHolds`, `ConfigIsStored`, `AdminsWereNamed` |

`RequisitionLedger` needs no run of its own: the refinement is a property of
`Requisition_two`, and its own properties are proved.

Bounds, and why they are enough:

* `Requests = {r1, r2}`: every race in the code is between one request that
  looked and one that changed what it looked at; a third does to either what the
  second does. What holds with two is proved for any number.
* `Ids`: handlers of different requisitions share nothing but the slots; a
  second id matters to lists, whose loop `Requisition_serial` runs through.
* Two workers and an owner: an owner who works, a worker who holds the lock and
  one who does not, an owner who does not work.
* `MaxLogins`, `MaxGrants` (`Accounts`) bound the states doLogin hands out and
  the refresh tokens EVE does. Three logins let a second identity finish between
  the steps of the first and one of them come back, or one identity log in and
  then grant its scopes in two callbacks at once; four in `Accounts_regrant` let
  a grant be revoked and repeated, which needs login, scope, revocation, scope;
  in `Accounts_orphan` the second login is the one that fails. Statements only ever compare a row with the identity at
  hand, so two identities of one character are what can be confused. These runs
  end when the logins are used up, so they do not look for deadlock.
* `MaxChanges = 2` and lists of three, two on a page (`InventoryFetch`): a fetch
  takes up to three pages, the last full or not, and a change falls before,
  between, and after them, on either side of what was fetched; `ChunkSize = 1`
  makes every type and container a chunk. The assets are a chain of containers
  from the outside, from the inside, with an item that comes twice, and without
  the container between; the last tree held none of the containers or one.
  `refusals` stops counting at six, beyond which nothing is asked of it. The run
  ends with the fetch and does not look for deadlock.
* `InventoryTicker`: one refresh request, which may come again and again, fills
  the slot; two would only queue up. Two readers are needed for one to wait
  while another reads, two characters for a token of the wrong one.
* `Configuration`: one character in one of two corporations; a configuration
  that admits the first by its alliance, one that admits it by name, and one
  with empty lists whose admins are the second. Three are enough for two posts
  to cross while a third configuration is in the row, and to hand over and back.

### Fairness

`InventoryFetch` assumes that requests end and the loops go on (weak fairness of
`FetchStep`), while the listing changes a bounded number of times: a listing
that grows for ever can keep a fetch busy for ever. `FairSpec` of
`InventoryTicker` asks for no more than this:
the goroutine is scheduled, and a fetch ends (client timeout 10 s, request
timeout 20 s, a bounded number of retries; weak fairness of its own steps);
`select` picks at random among the ready cases, so that a case that is ready
again and again is taken (strong fairness of each case); a channel serves its
blocked senders in order (strong fairness of `SendRefresh`); `Unlock` admits the
readers that waited (strong fairness of `ReadBpcs`); a reader leaves the lock
(weak fairness). New requests, token changes, the signal that ends `main`, and
the 30 s of Shutdown (`End`) are never forced: a request that comes to an end
while Shutdown waits does so by itself. The other modules state no fairness.

### Disagreements between the code and what it says of itself

1. **An order can be closed twice** (`Requisition_double_close`). Status check
   and UPDATE are separate and the UPDATE compares nothing. `complete` and
   `reject` of one worker in two tabs, or a cancel that ignores that the lock was
   taken, both succeed, and the later status stands. `UndisturbedWrite` and
   `SettledIsFinal` say how far the damage goes: only requests that overlapped.
2. **A worker can be told that he has a lock which another holds**
   (`Requisition_double_lock`). His `lock` and the owner's `cancel` both find no
   lock; the owner's is set first, `setRequisitionLock` refuses the worker's, and
   `lock` ignores that error and answers 200. Two workers can be told so in the
   same way, or because `setRequisitionLock` gets and sets in two calls, of which
   the later Set wins. An overtaken `unlock` deletes whoever's lock is there:
   `OnlyHolderUnlocks` fails with two requests too. `HolderKeepsLock` says how
   far all this goes.
3. **The ticker can wait for itself for ever** (`Ticker_wedged`): a tick comes
   while the goroutine has no token, and a `refreshAdminToken` request fills the
   channel before the goroutine re-sends, either while it is in its `select`,
   which takes the tick though the value is ready too, or between the tick and
   the send. A request that comes before the goroutine's very first send does
   the same (`SignalIsHeeded` is about the loop, and leaves that out). The
   inventory is not fetched any more, later refresh requests block, and the
   goroutine does not notice that the process stops. `Ticker_shared` shows that
   readers are not affected, and that nothing else keeps the goroutine from
   refreshing or from stopping.
4. **A failed INSERT locks an identity out** (`Accounts_orphan`): the user is
   created, its toon is not, and every later login finds no toon and fails to
   create the user again.
5. **Granting the scopes again after a revocation has no effect**
   (`Accounts_regrant`), though it is answered as a success. `src/README.md`
   has this as a known bug. It needs the revocation: `UsableUnlessRevoked` is
   proved.

Read in the code and not checked: `max_contracts` has no reader (`main.go:36`);
a callback undoes what another request of the same browser saved meanwhile;
`addScopes` leaves its transaction open on one error path (`dao.go:273`), and on
another takes scopes that it could not read for scopes that are not there, and
stores a second token (`dao.go:251`); the names of containers that the last tree
knew are collected from an empty map and so are missing from the second fetch on
(`asset_ticker.go:168`); two posts of a configuration that cross, or an UPDATE
reported as failed, leave row and memory different until the next restart
(`api.go:80`); the location filter of `updateBlueprintInventory` looks into a
tree that is still nil (`asset_ticker.go:145`).

## What is proved

For every value of the constants that meets the stated assumptions. These say
no more than that the sentinels (no row, no lock, no call, ...) are not records,
that workers are characters, and that the bounds are naturals: `Constants` and
`NoCallIsNoDecision` (`RequisitionApi`), `LedgerSentinels` (an assumption of the
ledger's theorems, shown to hold where they are used), `TickerIsNoReader`,
`NoneIsNobody`, and `Constants` of `Accounts`, `Configuration` and
`InventoryFetch`. The last also says that a listing holds nothing twice, that
each blueprint has a quality, and that its quantity is the length of a stack, or
-1 or -2 (`glue.go:13`). TLC evaluates them in every run.

| Theorem | Says | Rests on |
|---|---|---|
| `RequisitionLedgerProofs!EntitledCloses`, `SettledStays` | the ledger's two properties | `PendingIsEntitled`: a decision under way came from who is entitled, and owners do not change |
| `RequisitionApiProofs!UndisturbedWritesAreSafe`, `RepliesAreTruthful` | `UndisturbedWrite`, `ReplyIsTruthful` | `IInv`: `Shape` (where each kind of request can be) and `Claim` (what an undisturbed request knows at each location) |
| `RequisitionApiProofs!LocksAreKept` | `HolderKeepsLock`, a property of steps | `IInv`, one lemma per kind of step |
| `RequisitionApiProofs!ImplementsLedger` | `Spec => LedgerSpec` | each handler step is a ledger step or a stutter: passing the status check decides, the UPDATE applies, an error or a restart loses |
| `RequisitionApiProofs!RightPartyCloses`, `SettledStays` | `ClosedByTheRightParty`, `SettledIsFinal` | the ledger's theorems, carried over the refinement |
| `RequisitionApiProofs!SerialClosesOpen`, `SerialLockHolds`, `SerialUnlocksOwn` | `OnlyOpenIsClosed`, `LockReplyMeansHeld`, `OnlyHolderUnlocks`, where `Requests` is a singleton | `IInv` and `Alone`: what the one request found is there until it acts on it, since only the hour and posts come between its steps |
| `InventoryTickerProofs!AlwaysAnAlarm`, `ReadersSeeOneInventory` | `OneTimerRuns`, `ReaderSeesOneInventory` | `IInv`: with the types, which say who holds the lock where, and both timers before the loop |
| `InventoryTickerProofs!OwnSendsAreFree` | `OwnSendIsFree`: no wait for itself before a refresh request has sent | `OwnSendInv`: until then, a value in the channel means that the hour's timer is off or the token is good |
| `AccountsProofs!SessionsAreInOwnAccounts`, `ScopesHaveTheirTokens` | `SessionInOwnAccount`, `ScopeHasItsToken`, with failures and restarts | `IInv`: `CallbackInv` (what a callback knows before each statement) and `GrantInv` (a refresh token is given out once) |
| `AccountsProofs!UsersAreReachable` | `UserIsReachable` while no statement fails, for any number of callbacks at once | the invariant itself, with `CallbackInv` and `ToonsStay` |
| `AccountsProofs!JoinedTokensAreNamed` | `TokensAreNamed`, for any number of callbacks at once, failures and restarts included | `OneToken`: a toon that is not `crossed` has no token or the one its scopes name, and at most one callback is about to store one, which found none; `ScopeHasItsToken` |
| `AccountsProofs!GrantsAreUsableUnlessRevoked` | `UsableUnlessRevoked`: "scope" succeeds only with a token in the table that is not revoked, if the toon had none that was; any number of callbacks, failures included | `IInv`: the token its scopes name, or the one just stored, is the toon's own |
| `AccountsProofs!SessionsHaveToons` | `SessionHasToon` while no statement fails, for any number of callbacks at once | `CallbackHasToon`: who is about to save found or inserted the toon, or lost it to an "add" after creating the user |
| `AccountsProofs!StatesAreUsedOnce` | `StateUsedOnce`, a property of steps, for any number of callbacks, failures and restarts included | `FreshStates`: a state is in one session, or in callbacks of the browser it was given to, and in no session once one of these saved |
| `ConfigurationProofs!WhitelistCorrect` | `WhitelistHolds` | `ChecksFollow`: what was read so far was read from a configuration the callback knows |
| `ConfigurationProofs!ConfigStored` | `ConfigIsStored` | `OnePostAssigns`: without a crossing, one post at most is between its two writes, and the row is its own |
| `ConfigurationProofs!AdminsNamed` | `AdminsWereNamed` | `NoWorkers` (nobody is ever given the level of a worker, so who posts is an admin) and `LevelsWereNamed` |
| `InventoryFetchProofs!NothingIsMissed` | `NothingMissed`, for any page size and length | `NothingSkipped`: what came before the next page and was there all along is fetched; an insertion moves places up, never down |
| `InventoryFetchProofs!NothingIsRepeated` | `NothingTwice` | `NothingReturns`: what is past the pages asked for was not fetched; a removal moves places down, never up |
| `InventoryFetchProofs!FailureIsPersistent` | `FailsOnlyPersistently` | `LoopTypes`: `attempt` is one more than the refusals since a page arrived |
| `InventoryFetchProofs!TotalsAlwaysAgree` | `TotalsAgree`: the code's count in place agrees with a sum over what was fetched, for lists of any length | `Counted`: the books are the count of the blueprints fetched; `CountTotals`, by induction on their number: what was entered before an entry and what is entered by it add up |
| `InventoryFetchProofs!QuietFetchCounts` | `QuietFetchIsExact`, for any number of pages and retries | `QuietPrefix`: while the listing does not change, what is fetched is its first full pages |
| `InventoryFetchProofs!TypesAreNamed`, `ContainersGetNames` | `NamesAreComplete`, `ContainersAreNamed` | `Counted`: until it is asked about, each type and container is on the sorted list of its goroutine; `SortedList` and `ChunkParts`: sorting loses none, and a chunk and the rest are the list |
| `InventoryFetchProofs!TreeHasAll` | `TreeIsComplete`: each asset fetched is in the tree under its location | `TreeContents`, by induction on the list of assets: a node that was made stays |
| `TypeCorrect` in each | the types | |

Why strengthening was needed: `UndisturbedWrite` speaks of one location, and to
be preserved needs the same fact at the locations before it, in the form the
handler has established by then; that is `Claim`. A request's own step can
disturb others but never itself, and what does not disturb a request leaves its
lock and row alone (`UntouchedKeeps`): so each action is considered for the
request that takes it only. `SessionInOwnAccount` needs to know of the callback
what will be true of the session it saves, and that toons never change owner
(`ToonsStay`).

Induction over data. The count, the tree and the sorted lists are folds and
choices over sequences of any length, and the library's induction theorems take
a predicate for a parameter, which no prover here can be given. `Induction` does
without: a *set* of naturals that is not empty has a least element (`WFMin` of
the library, which takes a set), so that a set with 0 and with the successor of
each of its members up to n has all up to n (`UpTo`). With it, the value of a
fold is the last entry of a history of steps (`CountAllSteps`, `TreeSteps`,
`TotalSteps`, `FoundSteps`), one such lemma for each fold since `FoldLeft` takes
an operator too; and what is claimed of the fold is proved along its history.

What the numbers are: quantities and their sums are integers of any size. The
code adds them up in an `int32`, as they come (`asset_ticker.go:202`).

Model-checked only: the liveness properties (`FetchEnds`, and those of the
ticker). They rest on fairness, and so on ENABLED, which is out of the provers'
reach. The properties of the runs that expect a violation are false of the code,
and `UsableUnlessRevoked`, `OnlyOpenIsClosed` and `LockReplyMeansHeld` with one
request, and `UserIsReachable` without failures say what is true instead.
`SessionHasToon` is false when statements fail, for the reason of
`Accounts_orphan`: a login whose toon was not inserted saves its session all the
same.

## What is left

* `SyncMap`: the RWMutex inside, refining the atomic map `RequisitionApi` uses.
  Every method holds it from its first line to its last, so that little is to
  be expected.

## Not modelled

* The middleware chain: `main` builds every chain before it serves, and each
  `Add` appends to a full array, so that no two chains share one.
* Token verification but for its outcome (a library's key cache and parser), and
  the migrations (SQL run once before anything else).
* `fetchStructures` and `buildItemLocationMap`, which have no caller, and the
  names of the hangars.
* The frontend: `RequisitionApi`, `Accounts` and `Configuration` let any client
  send any request at any time, which includes what the pages do.
* The connection pool of the database and the row locks of InnoDB.
* Query-string building, metrics and logging, names and constants of EVE's API.
