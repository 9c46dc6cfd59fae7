--------------------------- MODULE InventoryTicker ---------------------------
(***************************************************************************)
(* The goroutine app.ticker (asset_ticker.go), which keeps the corporation *)
(* inventory fresh, with the goroutines it shares state with: the handlers *)
(* refreshAdminToken (api.go), which send on adminTokenRefreshChan, and    *)
(* getBlueprints, which reads app.inventoryState under invStateLock.       *)
(*                                                                         *)
(* The channel has one slot (main.go:96), and the ticker goroutine is both *)
(* its receiver and one of its senders.  Two timers drive it: ticker asks  *)
(* for an inventory, refreshTicker for a token; a Ticker that is stopped   *)
(* or reset delivers no earlier tick (Go 1.23 and later).  The end of main *)
(* is here too: a signal cancels the goroutine's context and has           *)
(* server.Shutdown wait for the requests in flight (main.go).              *)
(*                                                                         *)
(*   start    sends on the channel, before the loop                        *)
(*   select   waits in the select statement                                *)
(*   resend   sends on the channel, after a tick without a token           *)
(*   fetch    updateBlueprintInventory, up to its RLock                    *)
(*   build    updateBlueprintInventory, holding RLock while it fetches     *)
(*   lock     waits in invStateLock.Lock                                   *)
(*   swap     holds it                                                     *)
(*   exited   returned after ctx.Done()                                    *)
(***************************************************************************)
EXTENDS Naturals

CONSTANTS
    Admins,      \* requests for refreshAdminToken that can be in flight
    Readers,     \* requests for getBlueprints that can be in flight
    Characters,  \* who may be configured as the admin character
    None,        \* no token
    Ticker       \* the goroutine, as a holder of invStateLock

VARIABLES
    pc,          \* where the goroutine is
    signal,      \* adminTokenRefreshChan holds a value
    ticking,     \* ticker runs (a second, then an hour)
    retrying,    \* refreshTicker runs (a minute)
    ctx,         \* esiCtx: whose token it carries; None if Err() != nil
    granted,     \* the characters the database has a token for
    admin,       \* app.config.AdminCharacter
    server,      \* where main is
    holders,     \* who holds RLock
    writer,      \* Lock is held
    sending,     \* refreshAdminToken requests blocked in, or before, their send
    asked,       \* auxiliary: one of them has sent
    waiting,     \* getBlueprints requests before RLock
    outdated     \* auxiliary: those whose bpcs are not of app.inventoryState

vars == <<pc, signal, ticking, retrying, ctx, granted, admin, server,
          holders, writer, sending, asked, waiting, outdated>>

timers == <<ticking, retrying>>
config == <<granted, admin>>
rwlock == <<holders, writer>>
requests == <<sending, asked, waiting, outdated>>

ASSUME TickerIsNoReader == Ticker \notin Readers
ASSUME NoneIsNobody == None \notin Characters

Locations == {"start", "select", "resend", "fetch", "build", "lock", "swap",
              "exited"}

(* Serving; stopping, while Shutdown waits; the process is gone. *)
Servers == {"up", "draining", "down"}

(* The types, and that the goroutine holds the lock only where it should. *)
TypeOK ==
    /\ pc \in Locations
    /\ Ticker \in holders => pc = "build"
    /\ (writer <=> pc = "swap") /\ (writer => holders = {})
    /\ {signal, ticking, retrying, writer, asked} \subseteq BOOLEAN
    /\ ctx \in Characters \cup {None}
    /\ granted \subseteq Characters /\ admin \in Characters
    /\ server \in Servers
    /\ holders \subseteq Readers \cup {Ticker}
    /\ sending \subseteq Admins
    /\ waiting \subseteq Readers
    /\ outdated \subseteq Readers

Init ==
    /\ pc = "start"
    /\ signal = FALSE
    /\ ticking = TRUE /\ retrying = TRUE
    /\ ctx = None
    /\ granted \in SUBSET Characters /\ admin \in Characters
    /\ server = "up"
    /\ holders = {} /\ writer = FALSE
    /\ sending = {} /\ waiting = {} /\ asked = FALSE
    /\ outdated = {}
-----------------------------------------------------------------------------
(* adminTokenRefreshChan <- struct{}{}, and ticker.Stop() *)
Start ==
    /\ pc = "start" /\ ~signal
    /\ signal' = TRUE
    /\ ticking' = FALSE
    /\ pc' = "select"
    /\ UNCHANGED <<retrying, ctx, config, server, rwlock, requests>>

Exit ==
    /\ pc = "select" /\ server # "up"
    /\ pc' = "exited"
    /\ UNCHANGED <<signal, timers, ctx, config, server, rwlock, requests>>

(* refreshToken: the token of the admin character of this moment, or none; *)
(* with one the timers change places.                                      *)
HasToken == admin \in granted
KeepsRetrying ==                         \* mutant: no refreshTicker.Stop()
    IF HasToken THEN ticking' = TRUE /\ UNCHANGED retrying ELSE UNCHANGED timers
SwitchTimers ==
    IF HasToken THEN ticking' = TRUE /\ retrying' = FALSE ELSE UNCHANGED timers

KeepsContext == IF ctx # None THEN ctx       \* mutant: a good context stays
                ELSE IF HasToken THEN admin ELSE None
createOauthContext == IF HasToken THEN admin ELSE None

RefreshToken ==
    /\ ctx' = createOauthContext
    /\ SwitchTimers
    /\ UNCHANGED <<pc, config, server, rwlock, requests>>

RefreshOnTimer ==
    /\ pc = "select" /\ retrying
    /\ RefreshToken
    /\ UNCHANGED signal

RefreshOnSignal ==
    /\ pc = "select" /\ signal
    /\ signal' = FALSE
    /\ RefreshToken

(* A tick of ticker.  Without a token: ticker.Stop, refreshTicker.Reset,   *)
(* and the send of the next step.  With one: ticker.Reset(time.Hour).      *)
TickStopsOnly ==                         \* mutant: no refreshTicker.Reset
    /\ pc = "select" /\ ticking /\ ctx = None
    /\ ticking' = FALSE
    /\ pc' = "resend"
    /\ UNCHANGED <<signal, retrying, ctx, config, server, rwlock, requests>>

TickWithoutToken ==
    /\ pc = "select" /\ ticking /\ ctx = None
    /\ ticking' = FALSE /\ retrying' = TRUE
    /\ pc' = "resend"
    /\ UNCHANGED <<signal, ctx, config, server, rwlock, requests>>

Resend ==
    /\ pc = "resend" /\ ~signal
    /\ signal' = TRUE
    /\ pc' = "select"
    /\ UNCHANGED <<timers, ctx, config, server, rwlock, requests>>

TickWithToken ==
    /\ pc = "select" /\ ticking /\ ctx # None
    /\ pc' = "fetch"
    /\ UNCHANGED <<signal, timers, ctx, config, server, rwlock, requests>>

(* fetchCorpBlueprints fails, or it succeeds and RLock is taken. *)
FetchFails ==
    /\ pc = "fetch"
    /\ pc' = "select"
    /\ UNCHANGED <<signal, timers, ctx, config, server, rwlock, requests>>

FetchSucceeds ==
    /\ pc = "fetch" /\ ~writer
    /\ holders' = holders \cup {Ticker}
    /\ pc' = "build"
    /\ UNCHANGED <<signal, timers, ctx, config, server, writer, requests>>

(* The rest of updateBlueprintInventory has no error to return; its        *)
(* deferred RUnlock runs before the caller asks for Lock.                  *)
BuildKeepsRLock ==                       \* mutant: no deferred RUnlock
    /\ pc = "build"
    /\ pc' = "lock"
    /\ UNCHANGED <<signal, timers, ctx, config, server, rwlock, requests>>

Build ==
    /\ pc = "build"
    /\ holders' = holders \ {Ticker}
    /\ pc' = "lock"
    /\ UNCHANGED <<signal, timers, ctx, config, server, writer, requests>>

LockAtOnce == TRUE                       \* mutant: no Lock
LockIsFree == holders = {}

Lock ==
    /\ pc = "lock" /\ LockIsFree
    /\ writer' = TRUE
    /\ pc' = "swap"
    /\ UNCHANGED <<signal, timers, ctx, config, server, holders, requests>>

(* app.inventoryState = invState, and Unlock *)
SwapKeepsLock ==                         \* mutant: no Unlock
    /\ pc = "swap"
    /\ outdated' = Readers \cap holders
    /\ pc' = "select"
    /\ UNCHANGED <<signal, timers, ctx, config, server, rwlock, sending, asked, waiting>>

Swap ==
    /\ pc = "swap"
    /\ outdated' = Readers \cap holders
    /\ writer' = FALSE
    /\ pc' = "select"
    /\ UNCHANGED <<signal, timers, ctx, config, server, holders, sending, asked, waiting>>
-----------------------------------------------------------------------------
(* Shutdown closes the listeners before it waits for what is in flight. *)
Listening == server = "up"

(* refreshAdminToken: the send blocks while the slot is taken. *)
AskRefresh(a) ==
    /\ Listening /\ a \notin sending
    /\ sending' = sending \cup {a}
    /\ UNCHANGED <<pc, signal, timers, ctx, config, server, rwlock,
                   asked, waiting, outdated>>

SendRefresh(a) ==
    /\ a \in sending /\ ~signal
    /\ signal' = TRUE
    /\ sending' = sending \ {a}
    /\ asked' = TRUE
    /\ UNCHANGED <<pc, timers, ctx, config, server, rwlock, waiting, outdated>>

(* getBlueprints: it takes RLock, which a goroutine waiting in Lock holds  *)
(* up; it reads bpcs, then typeNames of what app.inventoryState points to. *)
AskBlueprints(r) ==
    /\ Listening /\ r \notin waiting \cup holders
    /\ waiting' = waiting \cup {r}
    /\ UNCHANGED <<pc, signal, timers, ctx, config, server, rwlock,
                   sending, asked, outdated>>

ReadBpcs(r) ==
    /\ r \in waiting
    /\ ~writer /\ pc # "lock"
    /\ waiting' = waiting \ {r}
    /\ holders' = holders \cup {r}
    /\ UNCHANGED <<pc, signal, timers, ctx, config, server, writer,
                   sending, asked, outdated>>

ReadTypeNames(r) ==
    /\ r \in holders
    /\ holders' = holders \ {r}
    /\ outdated' = outdated \ {r}
    /\ UNCHANGED <<pc, signal, timers, ctx, config, server, writer,
                   sending, asked, waiting>>

(* Characters grant their scopes, or EVE takes them back; the database     *)
(* fails or comes back.                                                    *)
TokenChanges(x) ==
    /\ granted' = IF x \in granted THEN granted \ {x} ELSE granted \cup {x}
    /\ UNCHANGED <<pc, signal, timers, ctx, admin, server, rwlock, requests>>

(* postConfig, as far as it is about the admin character.  One in flight   *)
(* may still assign while Shutdown waits for it.                           *)
NewAdmin(x) ==
    /\ server # "down"
    /\ admin' = x
    /\ UNCHANGED <<pc, signal, timers, ctx, granted, server, rwlock, requests>>
-----------------------------------------------------------------------------
(* main, after its signal: cancelThreads and at once server.Shutdown, then *)
(* the end of the process when no request is left, or after 30 s; it does  *)
(* not wait for the goroutine.                                             *)
CancelThreads ==
    /\ server = "up"
    /\ server' = "draining"
    /\ UNCHANGED <<pc, signal, timers, ctx, config, rwlock, requests>>

End ==
    /\ server = "draining"
    /\ server' = "down"
    /\ pc' = "exited" /\ signal' = FALSE
    /\ ticking' = FALSE /\ retrying' = FALSE /\ ctx' = None
    /\ holders' = {} /\ writer' = FALSE
    /\ sending' = {} /\ waiting' = {} /\ outdated' = {}
    /\ UNCHANGED <<config, asked>>

TickerStep ==
    \/ Start \/ Exit \/ RefreshOnTimer \/ RefreshOnSignal
    \/ TickWithoutToken \/ Resend \/ TickWithToken
    \/ FetchFails \/ FetchSucceeds \/ Build \/ Lock \/ Swap

Next ==
    \/ TickerStep
    \/ \E a \in Admins : AskRefresh(a) \/ SendRefresh(a)
    \/ \E r \in Readers : AskBlueprints(r) \/ ReadBpcs(r) \/ ReadTypeNames(r)
    \/ \E x \in Characters : TokenChanges(x) \/ NewAdmin(x)
    \/ CancelThreads \/ End

(* The goroutine is scheduled, every fetch ends (10 s client timeout,      *)
(* 20 s esiRequestTimeout, bounded retries), select chooses at random      *)
(* among the ready cases and so passes none over for ever, a channel       *)
(* serves its senders in order, and Unlock admits the readers that waited. *)
Fairness ==
    /\ WF_vars(Start \/ Resend \/ FetchFails \/ FetchSucceeds \/ Build \/ Lock \/ Swap)
    /\ SF_vars(Exit) /\ SF_vars(RefreshOnTimer) /\ SF_vars(RefreshOnSignal)
    /\ SF_vars(TickWithoutToken) /\ SF_vars(TickWithToken)
    /\ \A a \in Admins : SF_vars(SendRefresh(a))
    /\ \A r \in Readers : SF_vars(ReadBpcs(r)) /\ WF_vars(ReadTypeNames(r))

Spec == Init /\ [][Next]_vars
FairSpec == Spec /\ Fairness
-----------------------------------------------------------------------------
(* Whenever the goroutine waits, exactly one of its timers runs, and when  *)
(* it has no token and only waits for the hour, that hour's tick will send *)
(* it back to refreshing: no order of ticks, signals and token changes     *)
(* leaves it without an alarm, or with both (asset_ticker.go:59-87).       *)
OneTimerRuns == pc \in {"select", "resend", "fetch", "build", "lock", "swap"} =>
                    (ticking <=> ~retrying)

(* A reader of getBlueprints takes bpcs and typeNames from one snapshot:   *)
(* while it is between the two reads the pointer does not change.          *)
ReaderSeesOneInventory == outdated = {}

(* The goroutine waits for a slot that only it can empty. *)
Wedged == pc \in {"start", "resend"} /\ signal

(* Until a refreshAdminToken request has sent, the goroutine never waits   *)
(* for itself: its own channel is empty whenever it sends (lines 50, 86).  *)
OwnSendIsFree == Wedged => asked

(* With a token for the admin character from some time on, and until it is *)
(* told to stop, the goroutine fetches the inventory again and again,      *)
(* whatever happened before: the two timers and the channel see to it.     *)
(* The wedge is the only way to end that.                                  *)
InventoryIsRefreshed ==
    (\E x \in Characters : <>[](admin = x /\ x \in granted)) /\ [](server = "up")
       => []<>(pc = "fetch") \/ <>Wedged

(* "change the token which is being used to refresh assets and names. eg.  *)
(* if roles or admin character changes" (api.go:50): once an admin asks    *)
(* for it, the fetches come to use the token of the configured character,  *)
(* even if those of another still work.                                    *)
RefreshTakesEffect ==
    \A x \in Characters :
       (sending # {} /\ admin = x /\ x \in granted) ~>
          (ctx = x \/ admin # x \/ x \notin granted \/ server # "up" \/ Wedged)

(* Once cancelThreads was called the goroutine exits, if it is not wedged: *)
(* no other order of ticks, sends, and locks keeps it from its select.     *)
StopsWhenTold == server # "up" ~> (pc = "exited" \/ Wedged)

(* Every getBlueprints request is served, whatever becomes of the ticker   *)
(* goroutine: it is never stuck while it holds the lock or waits for it.   *)
ReadersAreServed == \A r \in Readers : r \in waiting ~> r \notin waiting

(* Shutdown need not wait for its 30 s: the requests in flight come to an  *)
(* end, but for a refreshAdminToken request whose send no goroutine will   *)
(* ever receive, because the ticker has exited or is wedged (main.go:162). *)
InFlight == sending # {} \/ waiting # {} \/ Readers \cap holders # {}
SendIsLost == sending # {} /\ signal /\ pc \in {"start", "resend", "exited"}

DrainsUnlessSendIsLost == server = "draining" ~> (~InFlight \/ SendIsLost)

(* "manually trigger a token refresh" (asset_ticker.go:50), "change the    *)
(* token which is being used to refresh assets and names" (api.go:50): a   *)
(* value that is in the channel while the goroutine's loop runs is         *)
(* received, and has the token refreshed, unless the process is stopping.  *)
SignalIsHeeded == (signal /\ pc # "start") ~> (~signal \/ server # "up")
=============================================================================
