---------------------------- MODULE RequisitionApi ----------------------------
(***************************************************************************)
(* The requisition handlers of src/backend/api.go over the table           *)
(* requisition_order (dao.go) and the in-memory map app.requisitionLocks   *)
(* (a syncMap).  Each HTTP request runs in a goroutine of its own.  What   *)
(* is atomic is one call of a syncMap method and one SQL statement:        *)
(* between two of them any other request may run, so a handler is a        *)
(* program whose location pc[r] names the call it makes next:              *)
(*                                                                         *)
(*   check    getRequisitionLock, the handler's first look at the lock     *)
(*   read     dao.getRequisition                                           *)
(*   set      setRequisitionLock: its getRequisitionLock                   *)
(*   put      setRequisitionLock: requisitionLocks.Set                     *)
(*   write    dao.cancelRequisition / completeRequisition / rejectRequ...  *)
(*   release  deleteRequisitionLock: its getRequisitionLock                *)
(*   delete   requisitionLocks.Delete                                      *)
(*   done     the handler has returned, its answer is reply[r]             *)
(*                                                                         *)
(* getRequisitionLock deletes an entry it finds expired, which is a second *)
(* syncMap call: a request that has found one, and is about to delete      *)
(* whatever the map holds by then, is in expiring.  The hour a lock lives  *)
(* is the step LockExpires.  (An entry is compared with the clock in the   *)
(* step that reads it.)                                                    *)
(*                                                                         *)
(* disturbed is an auxiliary variable no action reads.  A request is in it *)
(* when, after its first look at the lock, somebody else changed the lock  *)
(* or the row it is about, or the lock's hour ended.                       *)
(***************************************************************************)
EXTENDS Naturals, FiniteSets

CONSTANTS
    Ids,         \* requisition ids
    Characters,  \* logged-in characters
    Workers,     \* those of authLevel_Worker and above
    Requests,    \* slots for requests in flight, reused when answered
    NoRow,       \* no row under this id
    NoLock,      \* no entry for this id in app.requisitionLocks
    NoCall       \* a slot without a request

VARIABLES
    orders,      \* [Ids -> Orders \cup {NoRow}]: requisition_order, durable
    locks,       \* [Ids -> Locks \cup {NoLock}]: app.requisitionLocks
    pc,          \* [Requests -> Locations]
    call,        \* [Requests -> Calls \cup {NoCall}]: what was requested
    todo,        \* [Requests -> SUBSET Ids]: rows a list has still to look at
    expiring,    \* requests about to delete an entry they found expired
    reply,       \* [Requests -> Codes]: status code, 200 unless set
    disturbed    \* auxiliary, see above

vars == <<orders, locks, pc, call, todo, expiring, reply, disturbed>>

Closing == {"cancel", "complete", "reject"}
Patches == {"lock", "unlock"} \cup Closing
Reads == {"get", "list"}
StatusOf ==
    [cancel |-> "canceled", complete |-> "completed", reject |-> "rejected"]
Statuses == {"open", "canceled", "completed", "rejected"}

Orders == [owner : Characters, status : Statuses, updatedBy : Characters]
Locks == [holder : Characters, expired : BOOLEAN]
Calls == [action : Patches \cup Reads, user : Characters, id : Ids]
Locations == {"idle", "check", "read", "set", "put", "write", "release",
              "delete", "done"}
Codes == {200, 400, 401, 403, 409, 500}

ASSUME Constants ==
    /\ Workers \subseteq Characters
    /\ NoRow \notin Orders
    /\ NoLock \notin Locks
    /\ NoCall \notin Calls

TypeOK ==
    /\ orders \in [Ids -> Orders \cup {NoRow}]
    /\ locks \in [Ids -> Locks \cup {NoLock}]
    /\ pc \in [Requests -> Locations]
    /\ call \in [Requests -> Calls \cup {NoCall}]
    /\ todo \in [Requests -> SUBSET Ids]
    /\ expiring \in SUBSET Requests
    /\ reply \in [Requests -> Codes]
    /\ disturbed \in SUBSET Requests
    /\ \A r \in Requests : call[r] = NoCall <=> pc[r] = "idle"

Init ==
    /\ orders = [i \in Ids |-> NoRow]
    /\ locks = [i \in Ids |-> NoLock]
    /\ pc = [r \in Requests |-> "idle"]
    /\ call = [r \in Requests |-> NoCall]
    /\ todo = [r \in Requests |-> {}]
    /\ expiring = {}
    /\ reply = [r \in Requests |-> 200]
    /\ disturbed = {}
-----------------------------------------------------------------------------
Action(r) == call[r].action
User(r) == call[r].user
Id(r) == call[r].id
IsOpen(i) == orders[i] # NoRow /\ orders[i].status = "open"
Settled(i) == orders[i] # NoRow /\ ~IsOpen(i)
Live(lock) == lock # NoLock /\ ~lock.expired

Expired(lock) == lock # NoLock /\ lock.expired

Goto(r, label) == pc' = [pc EXCEPT ![r] = label] /\ UNCHANGED reply

Answer(r, code) ==
    /\ pc' = [pc EXCEPT ![r] = "done"]
    /\ reply' = [reply EXCEPT ![r] = code]

(* The requests that have looked at the lock or the row of i and may still *)
(* act on what they saw.                                                   *)
Observers(i) ==
    {q \in Requests : /\ pc[q] # "idle" /\ Id(q) = i
                      /\ \/ q \in expiring
                         \/ Action(q) \in Patches /\ pc[q] # "check"}

Disturb(i, except) == disturbed' = disturbed \cup (Observers(i) \ except)

(* requisitionLocks.Set and .Delete by request r *)
ReplaceLock(r, lock) ==
    /\ locks' = [locks EXCEPT ![Id(r)] = lock]
    /\ IF lock = locks[Id(r)]
          THEN UNCHANGED disturbed
          ELSE Disturb(Id(r), {r})

(* getRequisitionLock takes one step, or two when the entry has expired:   *)
(* FindExpired and then GetRequisitionLock.  What it returns is Seen(r).   *)
Seen(r) == IF r \in expiring THEN NoLock ELSE locks[Id(r)]

(* lock.CharacterId == user.CharacterId for the lock just read *)
MineIfAny(r) == Seen(r) # NoLock        \* mutant: the holder is not compared
Mine(r) == Seen(r) # NoLock /\ Seen(r).holder = User(r)

FindExpired(r) ==
    /\ pc[r] \in {"check", "set", "release"}
    /\ r \notin expiring
    /\ Expired(locks[Id(r)])
    /\ expiring' = expiring \cup {r}
    /\ disturbed' = IF pc[r] = "check" THEN disturbed \ {r} ELSE disturbed
    /\ UNCHANGED <<orders, locks, pc, call, todo, reply>>

GetRequisitionLock(r) ==
    /\ ~Expired(Seen(r))
    /\ expiring' = expiring \ {r}
    /\ IF r \in expiring
          THEN ReplaceLock(r, NoLock)
          ELSE UNCHANGED <<locks, disturbed>>
-----------------------------------------------------------------------------
(* A request reaches its handler.  The middleware lets only workers lock,  *)
(* unlock, complete and reject.  The id need not name a row.               *)
Arrive(r, action, c, i) ==
    /\ pc[r] = "idle"
    /\ action \in {"cancel", "get"} \/ c \in Workers
    /\ call' = [call EXCEPT ![r] = [action |-> action, user |-> c, id |-> i]]
    /\ Goto(r, IF action = "get" THEN "read" ELSE "check")
    /\ UNCHANGED <<orders, locks, todo, expiring, disturbed>>

CheckForLock(r) ==
    /\ pc[r] = "check" /\ Action(r) = "lock"
    /\ GetRequisitionLock(r)
    /\ \/ Seen(r) # NoLock /\ Answer(r, 400)
       \/ Seen(r) = NoLock /\ Goto(r, "read")
    /\ UNCHANGED <<orders, call, todo>>

CheckForUnlock(r) ==
    /\ pc[r] = "check" /\ Action(r) = "unlock"
    /\ GetRequisitionLock(r)
    /\ \/ Seen(r) = NoLock /\ Answer(r, 400)
       \/ Seen(r) # NoLock /\ ~Mine(r) /\ Answer(r, 403)
       \/ Mine(r) /\ Goto(r, "delete")
    /\ UNCHANGED <<orders, call, todo>>

CheckForCancel(r) ==
    /\ pc[r] = "check" /\ Action(r) = "cancel"
    /\ GetRequisitionLock(r)
    /\ \/ Seen(r) # NoLock /\ Answer(r, 409)
       \/ Seen(r) = NoLock /\ Goto(r, "read")
    /\ UNCHANGED <<orders, call, todo>>

(* "complete" and "reject" differ only in the status they write. *)
CheckForClosing(r) ==
    /\ pc[r] = "check" /\ Action(r) \in {"complete", "reject"}
    /\ GetRequisitionLock(r)
    /\ \/ Seen(r) = NoLock /\ Answer(r, 409)
       \/ Seen(r) # NoLock /\ ~Mine(r) /\ Answer(r, 403)
       \/ Mine(r) /\ Goto(r, "read")
    /\ UNCHANGED <<orders, call, todo>>

(* dao.getRequisition returns no row, or an error. *)
ReadFails(r) ==
    /\ pc[r] = "read"
    /\ \/ Answer(r, 500)
       \/ /\ orders[Id(r)] = NoRow
          /\ Answer(r, IF Action(r) = "get" THEN 500 ELSE 400)
    /\ UNCHANGED <<orders, locks, call, todo, expiring, disturbed>>

AnybodyMayCancel(r) == FALSE            \* mutant: no owner check
NotTheOwner(r) == Action(r) = "cancel" /\ orders[Id(r)].owner # User(r)

AnyStatusWillDo(r) == FALSE             \* mutant: no status check
NotOpen(r) == ~IsOpen(Id(r))

ReadOrder(r) ==
    /\ pc[r] = "read" /\ Action(r) \in Patches
    /\ orders[Id(r)] # NoRow
    /\ \/ NotTheOwner(r) /\ Answer(r, 401)
       \/ ~NotTheOwner(r) /\ NotOpen(r) /\ Answer(r, 409)
       \/ /\ ~NotTheOwner(r) /\ ~NotOpen(r)
          /\ Goto(r, IF Action(r) \in {"lock", "cancel"} THEN "set" ELSE "write")
    /\ UNCHANGED <<orders, locks, call, todo, expiring, disturbed>>

ReadForGet(r) ==
    /\ pc[r] = "read" /\ Action(r) = "get"
    /\ orders[Id(r)] # NoRow
    /\ Goto(r, "check")
    /\ UNCHANGED <<orders, locks, call, todo, expiring, disturbed>>

(* setRequisitionLock.  Both callers ignore the error it returns when a    *)
(* live lock is there already, and go on.                                  *)
AfterSet(r) == IF Action(r) = "lock" THEN "done" ELSE "write"

SetRequisitionLock(r) ==
    /\ pc[r] = "set"
    /\ GetRequisitionLock(r)
    /\ Goto(r, IF Seen(r) = NoLock THEN "put" ELSE AfterSet(r))
    /\ UNCHANGED <<orders, call, todo>>

OwnersLock(r) ==                        \* mutant: locked in the owner's name
    [holder |-> orders[Id(r)].owner, expired |-> FALSE]
NewLock(r) == [holder |-> User(r), expired |-> FALSE]

PutLock(r) ==
    /\ pc[r] = "put"
    /\ ReplaceLock(r, NewLock(r))
    /\ Goto(r, AfterSet(r))
    /\ UNCHANGED <<orders, call, todo, expiring>>

(* The UPDATE has only the id in its WHERE clause.  It may fail, and an    *)
(* error may also be reported after the row was changed (a connection lost *)
(* before the answer).  "cancel" goes on after an error, "complete" and    *)
(* "reject" return and leave the lock.                                     *)
WriteOrder(r, applied, failed) ==
    /\ pc[r] = "write"
    /\ IF applied
          THEN /\ orders' = [orders EXCEPT ![Id(r)].status = StatusOf[Action(r)],
                                           ![Id(r)].updatedBy = User(r)]
               /\ Disturb(Id(r), {r})
          ELSE UNCHANGED <<orders, disturbed>>
    /\ \/ ~failed /\ Goto(r, "release")
       \/ /\ failed /\ Action(r) = "cancel"
          /\ pc' = [pc EXCEPT ![r] = "release"]
          /\ reply' = [reply EXCEPT ![r] = 500]
       \/ failed /\ Action(r) # "cancel" /\ Answer(r, 500)
    /\ UNCHANGED <<locks, call, todo, expiring>>

(* deleteRequisitionLock; its error is ignored too *)
ReleasesOthers(r) ==                    \* mutant: the comparison is inverted
    /\ pc[r] = "release"
    /\ GetRequisitionLock(r)
    /\ Goto(r, IF Mine(r) THEN "done" ELSE "delete")
    /\ UNCHANGED <<orders, call, todo>>

DeleteRequisitionLock(r) ==
    /\ pc[r] = "release"
    /\ GetRequisitionLock(r)
    /\ Goto(r, IF Mine(r) THEN "delete" ELSE "done")
    /\ UNCHANGED <<orders, call, todo>>

DeleteLock(r) ==
    /\ pc[r] = "delete"
    /\ ReplaceLock(r, NoLock)
    /\ Goto(r, "done")
    /\ UNCHANGED <<orders, call, todo, expiring>>
-----------------------------------------------------------------------------
(* getRequisitionOrder, its second half: the row has been read. *)
CheckForGet(r) ==
    /\ pc[r] = "check" /\ Action(r) = "get"
    /\ GetRequisitionLock(r)
    /\ Goto(r, "done")
    /\ UNCHANGED <<orders, call, todo>>

(* listRequisitionOrders: one query, then one getRequisitionLock per row. *)
(* A slot that serves a list has the row it looks at as its id.           *)
ListRow(r, c, i, rest) ==
    /\ call' = [call EXCEPT ![r] = [action |-> "list", user |-> c, id |-> i]]
    /\ todo' = [todo EXCEPT ![r] = rest]
    /\ Goto(r, "check")

(* The rows for the status asked for (open by default; "unknown" selects   *)
(* every status) and for the owners the caller may see: a worker asks for  *)
(* anybody's, another character gets its own.  A list that finds no row    *)
(* ends with its query and changes nothing: it is not modelled.            *)
Listed(status, owners) ==
    {i \in Ids : /\ orders[i] # NoRow
                 /\ status = "unknown" \/ orders[i].status = status
                 /\ orders[i].owner \in owners}

ListOrders(r, c, status, owners) ==
    /\ pc[r] = "idle"
    /\ c \notin Workers => owners = {c}
    /\ \E i \in Listed(status, owners) :
          ListRow(r, c, i, Listed(status, owners) \ {i})
    /\ UNCHANGED <<orders, locks, expiring, disturbed>>

CheckForList(r) ==
    /\ pc[r] = "check" /\ Action(r) = "list"
    /\ GetRequisitionLock(r)
    /\ \/ todo[r] = {} /\ Goto(r, "done") /\ UNCHANGED <<call, todo>>
       \/ \E i \in todo[r] : ListRow(r, User(r), i, todo[r] \ {i})
    /\ UNCHANGED orders
-----------------------------------------------------------------------------
(* The response is on its way and the slot is free for the next request. *)
Respond(r) ==
    /\ pc[r] = "done"
    /\ pc' = [pc EXCEPT ![r] = "idle"]
    /\ call' = [call EXCEPT ![r] = NoCall]
    /\ reply' = [reply EXCEPT ![r] = 200]
    /\ disturbed' = disturbed \ {r}
    /\ UNCHANGED <<orders, locks, todo, expiring>>

(* postRequisitionOrder: a single INSERT, which names no status: "open" is *)
(* the column's default (20251108_requisition_status_default.sql).  (One   *)
(* that fails, and a request without blueprints, change nothing.)          *)
PostsUnknown(c, i) ==                   \* mutant: the default is still 0
    /\ orders[i] = NoRow
    /\ orders' = [orders EXCEPT ![i] =
                    [owner |-> c, status |-> "unknown", updatedBy |-> c]]
    /\ UNCHANGED <<locks, pc, call, todo, expiring, reply, disturbed>>

PostRequisitionOrder(c, i) ==
    /\ orders[i] = NoRow
    /\ orders' = [orders EXCEPT ![i] =
                    [owner |-> c, status |-> "open", updatedBy |-> c]]
    /\ UNCHANGED <<locks, pc, call, todo, expiring, reply, disturbed>>

LockExpires(i) ==
    /\ Live(locks[i])
    /\ locks' = [locks EXCEPT ![i].expired = TRUE]
    /\ Disturb(i, {})
    /\ UNCHANGED <<orders, pc, call, todo, expiring, reply>>

(* The process stops and starts again: the table stays, the locks and the  *)
(* requests in flight are gone.                                            *)
Restart ==
    /\ locks' = [i \in Ids |-> NoLock]
    /\ pc' = [r \in Requests |-> "idle"]
    /\ call' = [r \in Requests |-> NoCall]
    /\ todo' = [r \in Requests |-> {}]
    /\ expiring' = {}
    /\ reply' = [r \in Requests |-> 200]
    /\ disturbed' = {}
    /\ UNCHANGED orders

Handle(r) ==
    \/ FindExpired(r)
    \/ CheckForLock(r) \/ CheckForUnlock(r) \/ CheckForCancel(r)
    \/ CheckForClosing(r) \/ CheckForGet(r) \/ CheckForList(r)
    \/ ReadFails(r) \/ ReadOrder(r) \/ ReadForGet(r)
    \/ SetRequisitionLock(r) \/ PutLock(r)
    \/ \E applied, failed \in BOOLEAN :
          (applied \/ failed) /\ WriteOrder(r, applied, failed)
    \/ DeleteRequisitionLock(r) \/ DeleteLock(r)
    \/ Respond(r)

Next ==
    \/ \E r \in Requests, a \in Patches \cup {"get"}, c \in Characters, i \in Ids :
          Arrive(r, a, c, i)
    \/ \E r \in Requests, c \in Characters, s \in Statuses \cup {"unknown"},
          owners \in {{d} : d \in Characters} \cup {Characters} :
          ListOrders(r, c, s, owners)
    \/ \E r \in Requests : Handle(r)
    \/ \E c \in Characters, i \in Ids : PostRequisitionOrder(c, i)
    \/ \E i \in Ids : LockExpires(i)
    \/ Restart

Spec == Init /\ [][Next]_vars
-----------------------------------------------------------------------------
(* A closed requisition was canceled by its owner, or completed or         *)
(* rejected by a worker, whoever else was closing it at the same time:     *)
(* the owner check of "cancel" (api.go:245) and the middleware's level     *)
(* check survive every interleaving, although the UPDATE repeats neither.  *)
ClosedByTheRightParty ==
    \A i \in Ids : Settled(i) =>
        IF orders[i].status = "canceled"
           THEN orders[i].updatedBy = orders[i].owner
           ELSE orders[i].updatedBy \in Workers

(* A handler that is about to write, and that nobody disturbed since it    *)
(* first looked at the lock, still finds what it checked: the requisition  *)
(* is open and its caller holds the live lock.  So the checks are made on  *)
(* the right things and in the right order, and only a second request or   *)
(* the end of the hour can make the unconditional UPDATE close what should *)
(* not be closed.                                                          *)
UndisturbedWrite ==
    \A r \in Requests : pc[r] = "write" /\ r \notin disturbed =>
        /\ IsOpen(Id(r))
        /\ Live(locks[Id(r)]) /\ locks[Id(r)].holder = User(r)

(* What a successful answer says is true if nobody disturbed the handler:  *)
(* "lock" left the caller's lock on an open requisition, "unlock" left     *)
(* none, and a closing left the status it names and no lock.               *)
ReplyIsTruthful ==
    \A r \in Requests :
        pc[r] = "done" /\ reply[r] = 200 /\ r \notin disturbed =>
        LET i == Id(r) IN
        /\ Action(r) = "lock" =>
              IsOpen(i) /\ Live(locks[i]) /\ locks[i].holder = User(r)
        /\ Action(r) = "unlock" => locks[i] = NoLock
        /\ Action(r) \in Closing =>
              /\ locks[i] = NoLock
              /\ orders[i].status = StatusOf[Action(r)]
              /\ orders[i].updatedBy = User(r)

(* A live lock is replaced or removed only by a request of its holder, by  *)
(* a request that was overtaken after its look at the lock, or by a        *)
(* restart; otherwise it stays until its hour is over.                     *)
Acts(r) == <<pc[r], call[r]>>' # <<pc[r], call[r]>>

HolderKeepsLock ==
    [][\A i \in Ids : Live(locks[i]) /\ locks'[i] # locks[i] =>
         \/ locks'[i] = [locks[i] EXCEPT !.expired = TRUE]
         \/ \A r \in Requests : pc'[r] = "idle"
         \/ \E r \in Requests :
               /\ Acts(r) /\ Id(r) = i
               /\ User(r) = locks[i].holder \/ r \in disturbed]_vars

(* A request that has read an open row and will write its status *)
Committed(r) == pc[r] \in {"set", "put", "write"} /\ Action(r) \in Closing

(* A closed requisition about which no handler is past its status check    *)
(* is closed for good: its row never changes again, and no handler gets    *)
(* past that check, whatever requests, expiries and restarts follow.       *)
AtRest(i) == Settled(i) /\ \A r \in Requests : Committed(r) => Id(r) # i

SettledIsFinal ==
    [][\A i \in Ids : AtRest(i) => AtRest(i)' /\ orders'[i] = orders[i]]_vars

(* The handlers implement RequisitionLedger: a handler past its status     *)
(* check carries a decision, its UPDATE applies it, an error or a restart  *)
(* loses it.                                                               *)
Decision(r) ==
    IF Committed(r)
       THEN [id |-> Id(r), status |-> StatusOf[Action(r)], by |-> User(r)]
       ELSE NoCall

Ledger == INSTANCE RequisitionLedger
    WITH decisions <- [r \in Requests |-> Decision(r)], NoDecision <- NoCall

(* No decision of the ledger is the sentinel. *)
ASSUME NoCallIsNoDecision == NoCall \notin Ledger!Decisions

LedgerSpec == Ledger!Spec
-----------------------------------------------------------------------------
(* What the messages of the handlers say of the program.  With one request *)
(* at a time all three hold; with two in flight none does.                 *)

(* "requisition is not open status=..." (api.go:206, 251, 286, 321): what  *)
(* is not open is not closed again.                                        *)
OnlyOpenIsClosed ==
    [][\A i \in Ids : orders[i] # NoRow /\ orders'[i] # orders[i]
                         => IsOpen(i)]_vars

(* "resource locked" (api.go:191) and "locked by %s at %s" (api.go:127): a *)
(* "lock" that is not refused, by this or by an error, leaves the lock in  *)
(* its caller's name, whoever else locks or cancels at the time.           *)
LockReplyMeansHeld ==
    [][\A r \in Requests :
         /\ pc[r] \in {"set", "put"} /\ pc'[r] = "done" /\ reply[r] = 200
         => locks'[Id(r)] # NoLock /\ locks'[Id(r)].holder = User(r)]_vars

(* "can't unlock requisition, locked by ..." (api.go:221): an "unlock"     *)
(* removes no lock but its caller's.                                       *)
OnlyHolderUnlocks ==
    [][\A r \in Requests :
         /\ pc[r] = "delete" /\ Action(r) = "unlock" /\ pc'[r] = "done"
         /\ locks[Id(r)] # NoLock
         => locks[Id(r)].holder = User(r)]_vars
=============================================================================
