------------------------- MODULE RequisitionApiProofs -------------------------
(***************************************************************************)
(* Theorems about RequisitionApi, for every set of requisitions,           *)
(* characters, workers and request slots.                                  *)
(***************************************************************************)
EXTENDS RequisitionApi, TLAPS

(* Where a request of each kind can be, and what it has established about  *)
(* its row by then.                                                        *)
Shape(r) ==
    /\ pc[r] = "read" => Action(r) \in {"lock", "get"} \cup Closing
    /\ pc[r] \in {"set", "put"} => Action(r) \in {"lock", "cancel"}
    /\ pc[r] \in {"write", "release"} => Action(r) \in Closing
    /\ pc[r] = "delete" => Action(r) \in {"unlock"} \cup Closing
    /\ pc[r] \in {"set", "put", "write"} =>
          /\ orders[Id(r)] # NoRow
          /\ Action(r) = "cancel" => orders[Id(r)].owner = User(r)
    /\ pc[r] # "idle" /\ Action(r) \in {"complete", "reject"} => User(r) \in Workers
    /\ pc[r] # "idle" /\ Action(r) = "list" => Id(r) \notin todo[r]
    /\ r \in expiring => pc[r] \in {"check", "set", "release"}

MineIsLive(r) == Live(locks[Id(r)]) /\ locks[Id(r)].holder = User(r)

Written(r) ==
    /\ orders[Id(r)] # NoRow
    /\ orders[Id(r)].status = StatusOf[Action(r)]
    /\ orders[Id(r)].updatedBy = User(r)

(* What a request that nobody disturbed may rely on, at each location. *)
Claim(r) ==
    r \notin disturbed =>
    /\ r \in expiring => Expired(locks[Id(r)])
    /\ pc[r] = "read" /\ Action(r) \in {"lock", "cancel"} => locks[Id(r)] = NoLock
    /\ pc[r] = "read" /\ Action(r) \in {"complete", "reject"} => MineIsLive(r)
    /\ pc[r] \in {"set", "put"} => IsOpen(Id(r)) /\ locks[Id(r)] = NoLock
    /\ pc[r] = "write" => IsOpen(Id(r)) /\ MineIsLive(r)
    /\ pc[r] \in {"release", "delete"} => MineIsLive(r)
    /\ pc[r] \in {"release", "delete"} /\ Action(r) \in Closing /\ reply[r] = 200
          => Written(r)
    /\ pc[r] = "done" /\ Action(r) = "lock" /\ reply[r] = 200
          => IsOpen(Id(r)) /\ MineIsLive(r)
    /\ pc[r] = "done" /\ Action(r) = "unlock" /\ reply[r] = 200
          => locks[Id(r)] = NoLock
    /\ pc[r] = "done" /\ Action(r) \in Closing /\ reply[r] = 200
          => locks[Id(r)] = NoLock /\ Written(r)

IInv ==
    /\ TypeOK
    /\ \A r \in Requests : Shape(r)
    /\ \A r \in Requests : Claim(r)

(* What a step leaves to the requests that do not take it. *)
Untouched(q) ==
    /\ pc'[q] = pc[q] /\ call'[q] = call[q] /\ reply'[q] = reply[q]
    /\ todo'[q] = todo[q]
    /\ q \in expiring' <=> q \in expiring
    /\ q \in disturbed => q \in disturbed'
    /\ q \in Observers(Id(q)) /\ q \notin disturbed' =>
          locks'[Id(q)] = locks[Id(q)] /\ orders'[Id(q)] = orders[Id(q)]

RowsKeepOwner ==
    \A i \in Ids : orders[i] # NoRow =>
        orders'[i] # NoRow /\ orders'[i].owner = orders[i].owner
-----------------------------------------------------------------------------
LEMMA InitIInv == Init => IInv
BY DEF Init, IInv, TypeOK, Locations, Codes, Shape, Claim

(* The call of a request in flight is well-formed. *)
LEMMA CallType ==
    ASSUME TypeOK, NEW r \in Requests, pc[r] # "idle"
    PROVE  /\ call[r] \in Calls /\ Id(r) \in Ids /\ User(r) \in Characters
           /\ Action(r) \in Patches \cup Reads
BY DEF TypeOK, Calls, Id, User, Action

(* An untouched request keeps its shape and what it may rely on. *)
LEMMA UntouchedKeeps ==
    ASSUME IInv, RowsKeepOwner, NEW q \in Requests, Untouched(q)
    PROVE  Shape(q)' /\ Claim(q)'
<1>1. CASE pc[q] = "idle"
  BY <1>1 DEF IInv, Shape, Claim, Untouched
<1>2. CASE pc[q] # "idle"
  <2>1. Id(q)' = Id(q) /\ User(q)' = User(q) /\ Action(q)' = Action(q)
    BY DEF Untouched, Id, User, Action
  <2>2. Id(q) \in Ids /\ Action(q) \in Patches \cup Reads
    BY <1>2, CallType DEF IInv
  <2>3. Shape(q)'
    BY <2>1, <2>2 DEF IInv, Shape, Untouched, RowsKeepOwner
  <2>4. Claim(q)'
    <3> SUFFICES ASSUME q \notin disturbed' PROVE Claim(q)'
      BY DEF Claim
    <3>1. CASE q \in Observers(Id(q))
      BY <2>1, <3>1 DEF IInv, Claim, Untouched, MineIsLive, Written, IsOpen
    <3>2. CASE q \notin Observers(Id(q))
      <4>1. q \notin expiring /\ (Action(q) \in Reads \/ pc[q] = "check")
        BY <1>2, <2>2, <3>2 DEF Observers
      <4>2. Action(q) \in Reads => pc[q] \in {"read", "check", "done"}
        BY <1>2 DEF IInv, TypeOK, Locations, Shape, Reads, Closing
      <4> QED BY <2>1, <4>1, <4>2 DEF Claim, Untouched, Reads, Closing
    <3> QED BY <3>1, <3>2
  <2> QED BY <2>3, <2>4
<1> QED BY <1>1, <1>2

(* requisitionLocks.Set and .Delete: one entry changes, and whoever        *)
(* observed it is disturbed.                                               *)
LEMMA ReplaceEffect ==
    ASSUME TypeOK, NEW r \in Requests, pc[r] # "idle",
           NEW lock \in Locks \cup {NoLock}, ReplaceLock(r, lock)
    PROVE  /\ locks' \in [Ids -> Locks \cup {NoLock}]
           /\ disturbed' \in SUBSET Requests
           /\ locks'[Id(r)] = lock
           /\ \A j \in Ids \ {Id(r)} : locks'[j] = locks[j]
           /\ disturbed \subseteq disturbed'
           /\ r \in disturbed' <=> r \in disturbed
           /\ \A q \in Requests \ {r} :
                 pc[q] # "idle" /\ q \in Observers(Id(q)) /\ q \notin disturbed'
                    => locks'[Id(q)] = locks[Id(q)]
<1>1. Id(r) \in Ids
  BY CallType
<1>2. /\ locks' \in [Ids -> Locks \cup {NoLock}]
      /\ locks'[Id(r)] = lock
      /\ \A j \in Ids \ {Id(r)} : locks'[j] = locks[j]
  BY <1>1 DEF ReplaceLock, TypeOK
<1>3. disturbed' = disturbed \/ disturbed' = disturbed \cup (Observers(Id(r)) \ {r})
  BY DEF ReplaceLock, Disturb
<1>4. disturbed' \in SUBSET Requests
  BY <1>3 DEF TypeOK, Observers
<1>5. ASSUME NEW q \in Requests \ {r}, pc[q] # "idle", q \in Observers(Id(q)),
             q \notin disturbed'
      PROVE  locks'[Id(q)] = locks[Id(q)]
  <2>1. Id(q) \in Ids
    BY <1>5, CallType
  <2>2. CASE lock = locks[Id(r)]
    BY <1>2, <2>1, <2>2
  <2>3. CASE lock # locks[Id(r)]
    <3>1. q \notin Observers(Id(r))
      BY <1>5, <2>3 DEF ReplaceLock, Disturb
    <3> QED BY <1>2, <1>5, <2>1, <3>1
  <2> QED BY <2>2, <2>3
<1> QED BY <1>2, <1>3, <1>4, <1>5

(* getRequisitionLock returns what the map then holds: nothing or a live   *)
(* lock.                                                                   *)
LEMMA GetLockEffect ==
    ASSUME TypeOK, NEW r \in Requests, pc[r] # "idle", GetRequisitionLock(r)
    PROVE  /\ locks' \in [Ids -> Locks \cup {NoLock}]
           /\ disturbed' \in SUBSET Requests
           /\ expiring' \in SUBSET Requests
           /\ expiring' = expiring \ {r}
           /\ locks'[Id(r)] = Seen(r)
           /\ Seen(r) = NoLock \/ Live(Seen(r))
           /\ \A j \in Ids \ {Id(r)} : locks'[j] = locks[j]
           /\ disturbed \subseteq disturbed'
           /\ r \in disturbed' <=> r \in disturbed
           /\ r \in expiring => Seen(r) = NoLock
           /\ r \notin expiring => locks' = locks
           /\ \A q \in Requests \ {r} :
                 pc[q] # "idle" /\ q \in Observers(Id(q)) /\ q \notin disturbed'
                    => locks'[Id(q)] = locks[Id(q)]
<1>1. Id(r) \in Ids
  BY CallType
<1>2. CASE r \in expiring
  <2>1. ReplaceLock(r, NoLock) /\ Seen(r) = NoLock
    BY <1>2 DEF GetRequisitionLock, Seen
  <2> QED BY <1>2, <2>1, ReplaceEffect DEF GetRequisitionLock, TypeOK
<1>3. CASE r \notin expiring
  <2>1. locks' = locks /\ disturbed' = disturbed /\ Seen(r) = locks[Id(r)]
    BY <1>3 DEF GetRequisitionLock, Seen
  <2>2. Seen(r) = NoLock \/ Live(Seen(r))
    BY <1>1, <2>1 DEF GetRequisitionLock, Live, Expired, TypeOK
  <2> QED BY <1>1, <1>3, <2>1, <2>2 DEF GetRequisitionLock, TypeOK
<1> QED BY <1>2, <1>3

(* It is enough to look at the request that takes the step. *)
LEMMA StepKeepsIInv ==
    ASSUME IInv, TypeOK', RowsKeepOwner, NEW r \in Requests,
           \A q \in Requests \ {r} : Untouched(q),
           Shape(r)', Claim(r)'
    PROVE  IInv'
BY UntouchedKeeps DEF IInv

(* The checks that getRequisitionLock opens a handler with, and those of   *)
(* the two reading handlers.                                               *)
LEMMA CheckKeepsIInv ==
    ASSUME IInv, NEW r \in Requests,
           \/ CheckForLock(r) \/ CheckForUnlock(r) \/ CheckForCancel(r)
           \/ CheckForClosing(r) \/ CheckForGet(r)
    PROVE  IInv'
<1>1. TypeOK
  BY DEF IInv
<1>2. /\ pc[r] = "check" /\ GetRequisitionLock(r)
      /\ orders' = orders /\ call' = call /\ todo' = todo
  BY DEF CheckForLock, CheckForUnlock, CheckForCancel, CheckForClosing, CheckForGet
<1>3. PICK l \in Locations \ {"idle", "set", "put", "write", "release", "check"} :
        \E c \in Codes : /\ pc' = [pc EXCEPT ![r] = l]
                         /\ reply' = [reply EXCEPT ![r] = c]
  <2>1. reply = [reply EXCEPT ![r] = reply[r]] /\ reply[r] \in Codes
    BY <1>1 DEF TypeOK
  <2> QED BY <2>1 DEF CheckForLock, CheckForUnlock, CheckForCancel, CheckForClosing,
                      CheckForGet, Goto, Answer, Locations, Codes
<1>4. TypeOK'
  BY <1>1, <1>2, <1>3, GetLockEffect DEF TypeOK
<1>5. \A q \in Requests \ {r} : Untouched(q)
  BY <1>1, <1>2, <1>3, GetLockEffect DEF Untouched, TypeOK, Observers
<1>6. RowsKeepOwner
  BY <1>2 DEF RowsKeepOwner
<1>7. Id(r)' = Id(r) /\ User(r)' = User(r) /\ Action(r)' = Action(r) /\ Id(r) \in Ids
  BY <1>1, <1>2, CallType DEF Id, User, Action
<1>8. pc'[r] = l
  BY <1>1, <1>3 DEF TypeOK
<1>9. Shape(r)' /\ Claim(r)'
  <2>1. r \notin expiring'
    BY <1>1, <1>2, GetLockEffect
  <2>2. CASE pc'[r] = "done" /\ (Action(r) = "get" \/ reply'[r] # 200)
    BY <1>2, <1>7, <2>1, <2>2 DEF IInv, Shape, Claim, Closing
  <2>3. CASE pc'[r] = "read" /\ Action(r) \in {"lock", "cancel"} /\ Seen(r) = NoLock
    BY <1>1, <1>2, <1>7, <2>1, <2>3, GetLockEffect DEF IInv, Shape, Claim, Closing
  <2>4. CASE pc'[r] = "delete" /\ Action(r) = "unlock" /\ Mine(r)
    BY <1>1, <1>2, <1>7, <2>1, <2>4, GetLockEffect
       DEF IInv, Shape, Claim, Closing, Mine, MineIsLive
  <2>5. CASE pc'[r] = "read" /\ Action(r) \in {"complete", "reject"} /\ Mine(r)
    BY <1>1, <1>2, <1>7, <2>1, <2>5, GetLockEffect
       DEF IInv, Shape, Claim, Closing, Mine, MineIsLive
  <2>6. /\ reply'[r] = reply[r] \/ reply'[r] # 200
        /\ \/ pc'[r] = "done" /\ (Action(r) = "get" \/ reply'[r] # 200)
           \/ pc'[r] = "read" /\ Action(r) \in {"lock", "cancel"} /\ Seen(r) = NoLock
           \/ pc'[r] = "delete" /\ Action(r) = "unlock" /\ Mine(r)
           \/ pc'[r] = "read" /\ Action(r) \in {"complete", "reject"} /\ Mine(r)
    <3> USE <1>1 DEF TypeOK, Goto, Answer
    <3>1. CASE CheckForLock(r)
      BY <3>1 DEF CheckForLock
    <3>2. CASE CheckForUnlock(r)
      BY <3>2 DEF CheckForUnlock
    <3>3. CASE CheckForCancel(r)
      BY <3>3 DEF CheckForCancel
    <3>4. CASE CheckForClosing(r)
      BY <3>4 DEF CheckForClosing
    <3>5. CASE CheckForGet(r)
      BY <3>5 DEF CheckForGet
    <3> QED BY <3>1, <3>2, <3>3, <3>4, <3>5
  <2> QED BY <2>2, <2>3, <2>4, <2>5, <2>6
<1> QED BY <1>4, <1>5, <1>6, <1>9, StepKeepsIInv

LEMMA CheckForListKeepsIInv ==
    ASSUME IInv, NEW r \in Requests, CheckForList(r)
    PROVE  IInv'
<1>1. TypeOK
  BY DEF IInv
<1>2. /\ pc[r] = "check" /\ GetRequisitionLock(r) /\ Action(r) = "list"
      /\ orders' = orders /\ reply' = reply
      /\ User(r) \in Characters
  BY <1>1, CallType DEF CheckForList, Goto, ListRow
<1>3. PICK l \in {"check", "done"} : pc' = [pc EXCEPT ![r] = l]
  BY DEF CheckForList, Goto, ListRow
<1>4. PICK i \in Ids, rest \in SUBSET Ids :
        /\ call' = [call EXCEPT ![r] = [action |-> "list", user |-> User(r), id |-> i]]
        /\ todo' = [todo EXCEPT ![r] = rest]
        /\ i \notin rest
  <2>1. CASE todo[r] = {} /\ UNCHANGED <<call, todo>>
    <3>1. call[r] = [action |-> "list", user |-> User(r), id |-> Id(r)]
      BY <1>1, <1>2, CallType DEF Calls, Action, User, Id
    <3> QED BY <1>1, <1>2, <2>1, <3>1, CallType DEF TypeOK
  <2>2. CASE \E i \in todo[r] : ListRow(r, User(r), i, todo[r] \ {i})
    <3>1. PICK j \in todo[r] : ListRow(r, User(r), j, todo[r] \ {j})
      BY <2>2
    <3>2. j \in Ids /\ todo[r] \ {j} \in SUBSET Ids /\ j \notin todo[r] \ {j}
      BY <1>1 DEF TypeOK
    <3> QED BY <3>1, <3>2 DEF ListRow
  <2> QED BY <2>1, <2>2 DEF CheckForList
<1>5. TypeOK'
  <2>1. [action |-> "list", user |-> User(r), id |-> i] \in Calls
    BY <1>2 DEF Calls, Reads
  <2>2. [action |-> "list", user |-> User(r), id |-> i] # NoCall
    BY <2>1, Constants
  <2> QED BY <1>1, <1>2, <1>3, <1>4, <2>1, <2>2, GetLockEffect DEF TypeOK, Locations
<1>6. \A q \in Requests \ {r} : Untouched(q)
  BY <1>1, <1>2, <1>3, <1>4, GetLockEffect DEF Untouched, TypeOK, Observers
<1>7. RowsKeepOwner
  BY <1>2 DEF RowsKeepOwner
<1>8. Shape(r)' /\ Claim(r)'
  <2>1. Action(r)' = "list" /\ Id(r)' = i /\ todo'[r] = rest /\ pc'[r] = l
    BY <1>1, <1>3, <1>4 DEF TypeOK, Action, Id
  <2>2. r \notin expiring'
    BY <1>1, <1>2, GetLockEffect
  <2> QED BY <1>4, <2>1, <2>2 DEF Shape, Claim, Closing
<1> QED BY <1>5, <1>6, <1>7, <1>8, StepKeepsIInv

LEMMA FindExpiredKeepsIInv ==
    ASSUME IInv, NEW r \in Requests, FindExpired(r)
    PROVE  IInv'
<1> USE DEF FindExpired
<1>1. TypeOK /\ Id(r)' = Id(r) /\ User(r)' = User(r) /\ Action(r)' = Action(r)
  BY DEF IInv, Id, User, Action
<1>2. TypeOK'
  BY <1>1 DEF TypeOK
<1>3. \A q \in Requests \ {r} : Untouched(q)
  BY DEF Untouched
<1>4. RowsKeepOwner
  BY DEF RowsKeepOwner
<1>5. Shape(r)'
  BY <1>1 DEF IInv, Shape
<1>6. Claim(r)'
  BY <1>1 DEF IInv, Claim, Expired, MineIsLive, Live, IsOpen
<1> QED BY <1>2, <1>3, <1>4, <1>5, <1>6, StepKeepsIInv

LEMMA ReadKeepsIInv ==
    ASSUME IInv, NEW r \in Requests, ReadFails(r) \/ ReadOrder(r) \/ ReadForGet(r)
    PROVE  IInv'
<1>1. /\ pc[r] = "read"
      /\ UNCHANGED <<orders, locks, call, todo, expiring, disturbed>>
  BY DEF ReadFails, ReadOrder, ReadForGet
<1>2. TypeOK /\ Id(r)' = Id(r) /\ User(r)' = User(r) /\ Action(r)' = Action(r)
        /\ IsOpen(Id(r))' = IsOpen(Id(r))
  BY <1>1 DEF IInv, Id, User, Action, IsOpen
<1>3. Id(r) \in Ids /\ Action(r) \in Patches \cup Reads
  BY <1>1, <1>2, CallType
<1>4. PICK l \in {"done", "set", "write", "check"} :
        \E c \in Codes : /\ pc' = [pc EXCEPT ![r] = l]
                         /\ reply' = [reply EXCEPT ![r] = c]
  <2>1. reply = [reply EXCEPT ![r] = reply[r]] /\ reply[r] \in Codes
    BY <1>2 DEF TypeOK
  <2> QED BY <2>1 DEF ReadFails, ReadOrder, ReadForGet, Goto, Answer, Codes
<1>5. TypeOK'
  BY <1>1, <1>2, <1>4 DEF TypeOK, Locations
<1>6. \A q \in Requests \ {r} : Untouched(q)
  BY <1>1, <1>2, <1>4 DEF Untouched, TypeOK
<1>7. RowsKeepOwner
  BY <1>1 DEF RowsKeepOwner
<1>8. Shape(r)' /\ Claim(r)'
  <2>1. r \notin expiring
    BY <1>1 DEF IInv, Shape
  <2>2. CASE pc'[r] = "done" /\ reply'[r] # 200
    BY <1>1, <1>2, <2>1, <2>2 DEF IInv, Shape, Claim
  <2>3. CASE pc'[r] = "check" /\ Action(r) = "get"
    BY <1>1, <1>2, <2>1, <2>3 DEF IInv, Shape, Claim
  <2>4. CASE /\ pc'[r] = IF Action(r) \in {"lock", "cancel"} THEN "set" ELSE "write"
             /\ Action(r) \in Patches /\ IsOpen(Id(r)) /\ ~NotTheOwner(r)
    <3>1. Action(r) \in {"lock"} \cup Closing
      BY <1>1, <2>4 DEF IInv, Shape, Patches, Closing
    <3>2. orders[Id(r)] # NoRow /\ (Action(r) = "cancel" => orders[Id(r)].owner = User(r))
      BY <2>4 DEF IsOpen, NotTheOwner
    <3>3. orders' = orders /\ locks' = locks /\ expiring' = expiring
            /\ disturbed' = disturbed /\ todo' = todo
      BY <1>1
    <3>4. Shape(r)'
      BY <1>1, <1>2, <2>1, <2>4, <3>1, <3>2, <3>3 DEF IInv, Shape, Closing
    <3>5. MineIsLive(r)' = MineIsLive(r)
      BY <1>2, <3>3 DEF MineIsLive
    <3>6. Claim(r)'
      BY <1>1, <1>2, <2>1, <2>4, <3>1, <3>3, <3>5 DEF IInv, Claim, Closing
    <3> QED BY <3>4, <3>6
  <2>5. \/ pc'[r] = "done" /\ reply'[r] # 200
        \/ pc'[r] = "check" /\ Action(r) = "get"
        \/ /\ pc'[r] = IF Action(r) \in {"lock", "cancel"} THEN "set" ELSE "write"
           /\ Action(r) \in Patches /\ IsOpen(Id(r)) /\ ~NotTheOwner(r)
    <3> USE <1>2 DEF TypeOK, Goto, Answer
    <3>1. CASE ReadFails(r)
      BY <3>1 DEF ReadFails
    <3>2. CASE ReadOrder(r)
      BY <3>2 DEF ReadOrder, NotOpen
    <3>3. CASE ReadForGet(r)
      BY <3>3 DEF ReadForGet
    <3> QED BY <3>1, <3>2, <3>3
  <2> QED BY <2>2, <2>3, <2>4, <2>5
<1> QED BY <1>5, <1>6, <1>7, <1>8, StepKeepsIInv

LEMMA SetLockKeepsIInv ==
    ASSUME IInv, NEW r \in Requests, SetRequisitionLock(r)
    PROVE  IInv'
<1>1. /\ TypeOK /\ pc[r] = "set" /\ GetRequisitionLock(r)
      /\ orders' = orders /\ call' = call /\ todo' = todo /\ reply' = reply
      /\ pc' = [pc EXCEPT ![r] = IF Seen(r) = NoLock THEN "put" ELSE AfterSet(r)]
  BY DEF IInv, SetRequisitionLock, Goto
<1>2. Id(r)' = Id(r) /\ User(r)' = User(r) /\ Action(r)' = Action(r) /\ Id(r) \in Ids
        /\ IsOpen(Id(r))' = IsOpen(Id(r)) /\ Action(r) \in {"lock", "cancel"}
  BY <1>1, CallType DEF IInv, Shape, Id, User, Action, IsOpen
<1>3. pc'[r] = (IF Seen(r) = NoLock THEN "put" ELSE AfterSet(r))
        /\ pc'[r] \in {"put", "write", "done"}
  BY <1>1 DEF TypeOK, AfterSet
<1>4. TypeOK'
  BY <1>1, <1>3, GetLockEffect DEF TypeOK, Locations, AfterSet
<1>5. \A q \in Requests \ {r} : Untouched(q)
  BY <1>1, GetLockEffect DEF Untouched, TypeOK, Observers
<1>6. RowsKeepOwner
  BY <1>1 DEF RowsKeepOwner
<1>7. r \notin expiring' /\ (r \in disturbed' <=> r \in disturbed)
        /\ locks'[Id(r)] = Seen(r)
  BY <1>1, GetLockEffect
<1>8. Shape(r)'
  BY <1>1, <1>2, <1>3, <1>7 DEF IInv, Shape, AfterSet, Closing
<1>9. Claim(r)'
  <2> SUFFICES ASSUME r \notin disturbed PROVE Claim(r)'
    BY <1>7 DEF Claim
  <2>1. IsOpen(Id(r)) /\ Seen(r) = NoLock
    BY <1>1 DEF IInv, Claim, Seen
  <2> QED BY <1>2, <1>3, <1>7, <2>1 DEF Claim
<1> QED BY <1>4, <1>5, <1>6, <1>8, <1>9, StepKeepsIInv

LEMMA PutLockKeepsIInv ==
    ASSUME IInv, NEW r \in Requests, PutLock(r)
    PROVE  IInv'
<1>1. /\ TypeOK /\ pc[r] = "put" /\ ReplaceLock(r, NewLock(r))
      /\ orders' = orders /\ call' = call /\ todo' = todo /\ reply' = reply
      /\ expiring' = expiring /\ pc' = [pc EXCEPT ![r] = AfterSet(r)]
  BY DEF IInv, PutLock, Goto
<1>2. Id(r)' = Id(r) /\ User(r)' = User(r) /\ Action(r)' = Action(r) /\ Id(r) \in Ids
        /\ IsOpen(Id(r))' = IsOpen(Id(r)) /\ Action(r) \in {"lock", "cancel"}
        /\ User(r) \in Characters
  BY <1>1, CallType DEF IInv, Shape, Id, User, Action, IsOpen
<1>3. pc'[r] = IF Action(r) = "lock" THEN "done" ELSE "write"
  BY <1>1 DEF TypeOK, AfterSet
<1>4. NewLock(r) \in Locks /\ NewLock(r) # NoLock
        /\ NewLock(r).holder = User(r) /\ ~NewLock(r).expired
  <2>1. NewLock(r) \in Locks
    BY <1>2 DEF NewLock, Locks
  <2>2. NewLock(r).holder = User(r) /\ ~NewLock(r).expired
    BY DEF NewLock
  <2> QED BY <2>1, <2>2, Constants
<1>5. TypeOK'
  BY <1>1, <1>4, ReplaceEffect DEF TypeOK, Locations, AfterSet
<1>6. \A q \in Requests \ {r} : Untouched(q)
  BY <1>1, <1>4, ReplaceEffect DEF Untouched, TypeOK, Observers
<1>7. RowsKeepOwner
  BY <1>1 DEF RowsKeepOwner
<1>8. r \notin expiring' /\ (r \in disturbed' <=> r \in disturbed)
        /\ locks'[Id(r)] = NewLock(r)
  BY <1>1, <1>4, ReplaceEffect DEF IInv, Shape
<1>9. Shape(r)'
  BY <1>1, <1>2, <1>3, <1>8 DEF IInv, Shape, Closing
<1>10. Claim(r)'
  <2> SUFFICES ASSUME r \notin disturbed PROVE Claim(r)'
    BY <1>8 DEF Claim
  <2>1. IsOpen(Id(r))'
    BY <1>1, <1>2 DEF IInv, Claim
  <2>2. MineIsLive(r)'
    BY <1>2, <1>4, <1>8 DEF MineIsLive, Live
  <2> QED BY <1>2, <1>3, <1>8, <2>1, <2>2 DEF Claim, Closing
<1> QED BY <1>5, <1>6, <1>7, <1>9, <1>10, StepKeepsIInv

(* The UPDATE, when it is applied: one row changes, keeping its owner. *)
LEMMA WriteEffect ==
    ASSUME IInv, NEW r \in Requests, pc[r] = "write",
           orders' = [orders EXCEPT ![Id(r)].status = StatusOf[Action(r)],
                                    ![Id(r)].updatedBy = User(r)]
    PROVE  /\ orders' \in [Ids -> Orders \cup {NoRow}]
           /\ orders'[Id(r)] # NoRow
           /\ orders'[Id(r)].owner = orders[Id(r)].owner
           /\ orders'[Id(r)].status = StatusOf[Action(r)]
           /\ orders'[Id(r)].updatedBy = User(r)
           /\ \A j \in Ids \ {Id(r)} : orders'[j] = orders[j]
<1>1. Id(r) \in Ids /\ User(r) \in Characters /\ StatusOf[Action(r)] \in Statuses
  BY CallType DEF IInv, Shape, Closing, StatusOf, Statuses
<1>2. orders[Id(r)] \in Orders
  BY <1>1 DEF IInv, TypeOK, Shape
<1>3. orders' = [orders EXCEPT ![Id(r)] =
                   [orders[Id(r)] EXCEPT !.status = StatusOf[Action(r)],
                                         !.updatedBy = User(r)]]
  BY <1>1, <1>2 DEF IInv, TypeOK, Orders
<1>4. \A j \in Ids \ {Id(r)} : orders'[j] = orders[j]
  BY <1>3 DEF IInv, TypeOK
<1>5. orders'[Id(r)] = [orders[Id(r)] EXCEPT !.status = StatusOf[Action(r)],
                                             !.updatedBy = User(r)]
  BY <1>1, <1>3 DEF IInv, TypeOK
<1>6. /\ orders'[Id(r)] \in Orders
      /\ orders'[Id(r)].owner = orders[Id(r)].owner
      /\ orders'[Id(r)].status = StatusOf[Action(r)]
      /\ orders'[Id(r)].updatedBy = User(r)
  BY <1>1, <1>2, <1>5 DEF Orders
<1>7. orders' \in [Ids -> Orders \cup {NoRow}]
  BY <1>1, <1>3, <1>5, <1>6 DEF IInv, TypeOK
<1> QED BY <1>4, <1>6, <1>7, Constants

LEMMA WriteKeepsIInv ==
    ASSUME IInv, NEW r \in Requests, NEW applied \in BOOLEAN, NEW failed \in BOOLEAN,
           applied \/ failed, WriteOrder(r, applied, failed)
    PROVE  IInv'
<1>1. /\ TypeOK /\ pc[r] = "write" /\ Action(r) \in Closing
      /\ locks' = locks /\ call' = call /\ todo' = todo /\ expiring' = expiring
  BY DEF IInv, WriteOrder, Shape
<1>2. Id(r)' = Id(r) /\ User(r)' = User(r) /\ Action(r)' = Action(r) /\ Id(r) \in Ids
  BY <1>1, CallType DEF Id, User, Action
<1>3. PICK l \in {"release", "done"}, c \in Codes :
        /\ pc' = [pc EXCEPT ![r] = l]
        /\ reply' = [reply EXCEPT ![r] = c]
        /\ failed => c # 200
        /\ l = "done" => failed
  <2>1. reply = [reply EXCEPT ![r] = reply[r]] /\ reply[r] \in Codes
    BY <1>1 DEF TypeOK
  <2>2. CASE failed
    BY <2>2 DEF WriteOrder, Answer, Codes
  <2>3. CASE ~failed
    BY <2>1, <2>3 DEF WriteOrder, Goto
  <2> QED BY <2>2, <2>3
<1>4. pc'[r] = l /\ reply'[r] = c
  BY <1>1, <1>3 DEF TypeOK
<1>5. /\ orders' \in [Ids -> Orders \cup {NoRow}]
      /\ RowsKeepOwner
      /\ \A j \in Ids \ {Id(r)} : orders'[j] = orders[j]
      /\ applied => Written(r)'
  <2>1. CASE applied
    BY <1>1, <1>2, <2>1, WriteEffect DEF WriteOrder, RowsKeepOwner, Written
  <2>2. CASE ~applied
    BY <1>1, <2>2 DEF WriteOrder, RowsKeepOwner, TypeOK
  <2> QED BY <2>1, <2>2
<1>6. /\ disturbed' \in SUBSET Requests /\ disturbed \subseteq disturbed'
      /\ r \in disturbed' <=> r \in disturbed
      /\ orders' = orders \/ disturbed' = disturbed \cup (Observers(Id(r)) \ {r})
  BY <1>1 DEF WriteOrder, Disturb, Observers, TypeOK
<1>7. TypeOK'
  BY <1>1, <1>3, <1>5, <1>6 DEF TypeOK, Locations
<1>8. ASSUME NEW q \in Requests \ {r} PROVE Untouched(q)
  <2>1. CASE pc[q] = "idle"
    BY <1>1, <1>3, <1>6, <2>1 DEF Untouched, TypeOK, Observers
  <2>2. CASE pc[q] # "idle"
    <3>1. Id(q) \in Ids
      BY <1>1, <2>2, CallType
    <3> QED BY <1>1, <1>3, <1>5, <1>6, <3>1 DEF Untouched, TypeOK
  <2> QED BY <2>1, <2>2
<1>9. Shape(r)'
  BY <1>1, <1>2, <1>4 DEF IInv, Shape, Closing
<1>10. Claim(r)'
  <2> SUFFICES ASSUME r \notin disturbed PROVE Claim(r)'
    BY <1>6 DEF Claim
  <2>1. MineIsLive(r)' /\ r \notin expiring'
    BY <1>1, <1>2 DEF IInv, Claim, MineIsLive, Shape
  <2>2. c = 200 => Written(r)'
    BY <1>3, <1>5
  <2>3. l = "done" => c # 200
    BY <1>3
  <2> QED BY <1>2, <1>4, <2>1, <2>2, <2>3 DEF Claim
<1> QED BY <1>5, <1>7, <1>8, <1>9, <1>10, StepKeepsIInv

LEMMA ReleaseKeepsIInv ==
    ASSUME IInv, NEW r \in Requests, DeleteRequisitionLock(r)
    PROVE  IInv'
<1>1. /\ TypeOK /\ pc[r] = "release" /\ GetRequisitionLock(r) /\ Action(r) \in Closing
      /\ orders' = orders /\ call' = call /\ todo' = todo /\ reply' = reply
      /\ pc' = [pc EXCEPT ![r] = IF Mine(r) THEN "delete" ELSE "done"]
  BY DEF IInv, DeleteRequisitionLock, Goto, Shape
<1>2. Id(r)' = Id(r) /\ User(r)' = User(r) /\ Action(r)' = Action(r) /\ Id(r) \in Ids
        /\ Written(r)' = Written(r)
  BY <1>1, CallType DEF Id, User, Action, Written
<1>3. pc'[r] = IF Mine(r) THEN "delete" ELSE "done"
  BY <1>1 DEF TypeOK
<1>4. TypeOK'
  BY <1>1, GetLockEffect DEF TypeOK, Locations
<1>5. \A q \in Requests \ {r} : Untouched(q)
  BY <1>1, GetLockEffect DEF Untouched, TypeOK, Observers
<1>6. RowsKeepOwner
  BY <1>1 DEF RowsKeepOwner
<1>7. r \notin expiring' /\ (r \in disturbed' <=> r \in disturbed)
        /\ locks'[Id(r)] = Seen(r) /\ (Seen(r) = NoLock \/ Live(Seen(r)))
  BY <1>1, GetLockEffect
<1>8. Shape(r)'
  BY <1>1, <1>2, <1>3, <1>7 DEF IInv, Shape, Closing
<1>9. Claim(r)'
  <2> SUFFICES ASSUME r \notin disturbed PROVE Claim(r)'
    BY <1>7 DEF Claim
  <2>1. MineIsLive(r) /\ (reply[r] = 200 => Written(r)) /\ r \notin expiring
    BY <1>1 DEF IInv, Claim, MineIsLive, Live, Expired
  <2>2. Mine(r) /\ MineIsLive(r)'
    BY <1>2, <1>7, <2>1 DEF Mine, MineIsLive, Seen, Live
  <2> QED BY <1>1, <1>2, <1>3, <1>7, <2>1, <2>2 DEF Claim
<1> QED BY <1>4, <1>5, <1>6, <1>8, <1>9, StepKeepsIInv

LEMMA DeleteLockKeepsIInv ==
    ASSUME IInv, NEW r \in Requests, DeleteLock(r)
    PROVE  IInv'
<1>1. /\ TypeOK /\ pc[r] = "delete" /\ ReplaceLock(r, NoLock)
      /\ Action(r) \in {"unlock"} \cup Closing
      /\ orders' = orders /\ call' = call /\ todo' = todo /\ reply' = reply
      /\ expiring' = expiring /\ pc' = [pc EXCEPT ![r] = "done"]
  BY DEF IInv, DeleteLock, Goto, Shape
<1>2. Id(r)' = Id(r) /\ User(r)' = User(r) /\ Action(r)' = Action(r) /\ Id(r) \in Ids
        /\ Written(r)' = Written(r)
  BY <1>1, CallType DEF Id, User, Action, Written
<1>3. pc'[r] = "done"
  BY <1>1 DEF TypeOK
<1>4. TypeOK'
  BY <1>1, ReplaceEffect DEF TypeOK, Locations
<1>5. \A q \in Requests \ {r} : Untouched(q)
  BY <1>1, ReplaceEffect DEF Untouched, TypeOK, Observers
<1>6. RowsKeepOwner
  BY <1>1 DEF RowsKeepOwner
<1>7. r \notin expiring' /\ (r \in disturbed' <=> r \in disturbed)
        /\ locks'[Id(r)] = NoLock
  BY <1>1, ReplaceEffect DEF IInv, Shape
<1>8. Shape(r)'
  BY <1>1, <1>2, <1>3, <1>7 DEF IInv, Shape, Closing
<1>9. Claim(r)'
  BY <1>1, <1>2, <1>3, <1>7 DEF IInv, Claim, Closing
<1> QED BY <1>4, <1>5, <1>6, <1>8, <1>9, StepKeepsIInv

LEMMA RespondKeepsIInv ==
    ASSUME IInv, NEW r \in Requests, Respond(r)
    PROVE  IInv'
<1> USE DEF Respond
<1>1. TypeOK
  BY DEF IInv
<1>2. TypeOK'
  BY <1>1 DEF TypeOK, Locations, Codes
<1>3. pc'[r] = "idle" /\ r \notin expiring'
  BY <1>1 DEF TypeOK, IInv, Shape
<1>4. \A q \in Requests \ {r} : Untouched(q)
  BY <1>1 DEF Untouched, TypeOK
<1>5. RowsKeepOwner
  BY DEF RowsKeepOwner
<1>6. Shape(r)' /\ Claim(r)'
  BY <1>3 DEF Shape, Claim
<1> QED BY <1>2, <1>4, <1>5, <1>6, StepKeepsIInv

(* A slot that starts to serve a request *)
LEMMA StartKeepsIInv ==
    ASSUME IInv, NEW r \in Requests, NEW a \in Patches \cup Reads, NEW c \in Characters,
           NEW i \in Ids, NEW rest \in SUBSET Ids, NEW l \in {"read", "check"},
           pc[r] = "idle",
           call' = [call EXCEPT ![r] = [action |-> a, user |-> c, id |-> i]],
           todo' = [todo EXCEPT ![r] = rest],
           pc' = [pc EXCEPT ![r] = l],
           l = "read" => a = "get",
           a \in {"complete", "reject"} => c \in Workers,
           i \notin rest \/ a # "list",
           UNCHANGED <<orders, locks, expiring, reply, disturbed>>
    PROVE  IInv'
<1>1. TypeOK
  BY DEF IInv
<1>2. [action |-> a, user |-> c, id |-> i] \in Calls
  BY DEF Calls
<1>3. [action |-> a, user |-> c, id |-> i] # NoCall
  BY <1>2, Constants
<1>4. TypeOK'
  BY <1>1, <1>2, <1>3 DEF TypeOK, Locations
<1>5. \A q \in Requests \ {r} : Untouched(q)
  BY <1>1 DEF Untouched, TypeOK
<1>6. RowsKeepOwner
  BY DEF RowsKeepOwner
<1>7. /\ Action(r)' = a /\ User(r)' = c /\ Id(r)' = i /\ pc'[r] = l
      /\ todo'[r] = rest /\ r \notin expiring'
  BY <1>1 DEF TypeOK, IInv, Shape, Action, User, Id
<1>8. Shape(r)'
  BY <1>7 DEF Shape
<1>9. Claim(r)'
  BY <1>7 DEF Claim
<1> QED BY <1>4, <1>5, <1>6, <1>8, <1>9, StepKeepsIInv

LEMMA ArriveKeepsIInv ==
    ASSUME IInv, NEW r \in Requests, NEW a \in Patches \cup {"get"},
           NEW c \in Characters, NEW i \in Ids, Arrive(r, a, c, i)
    PROVE  IInv'
<1> DEFINE l == IF a = "get" THEN "read" ELSE "check"
<1>1. todo' = [todo EXCEPT ![r] = todo[r]] /\ todo[r] \in SUBSET Ids
  BY DEF Arrive, IInv, TypeOK
<1>2. a \in Patches \cup Reads /\ a # "list" /\ l \in {"read", "check"}
        /\ (l = "read" => a = "get") /\ (a \in {"complete", "reject"} => c \in Workers)
  BY DEF Arrive, Patches, Reads, Closing
<1>3. /\ pc[r] = "idle" /\ pc' = [pc EXCEPT ![r] = l]
      /\ call' = [call EXCEPT ![r] = [action |-> a, user |-> c, id |-> i]]
      /\ UNCHANGED <<orders, locks, expiring, reply, disturbed>>
  BY DEF Arrive, Goto
<1> HIDE DEF l
<1> QED BY <1>1, <1>2, <1>3, StartKeepsIInv

LEMMA ListKeepsIInv ==
    ASSUME IInv, NEW r \in Requests, NEW c \in Characters, NEW s, NEW owners,
           ListOrders(r, c, s, owners)
    PROVE  IInv'
<1>1. PICK i \in Listed(s, owners) : ListRow(r, c, i, Listed(s, owners) \ {i})
  BY DEF ListOrders
<1>2. Listed(s, owners) \subseteq Ids
  BY DEF Listed
<1> DEFINE rest == Listed(s, owners) \ {i}
<1>3. rest \in SUBSET Ids /\ i \notin rest /\ i \in Ids
  BY <1>2
<1>4. /\ pc[r] = "idle" /\ pc' = [pc EXCEPT ![r] = "check"]
      /\ call' = [call EXCEPT ![r] = [action |-> "list", user |-> c, id |-> i]]
      /\ todo' = [todo EXCEPT ![r] = rest]
      /\ UNCHANGED <<orders, locks, expiring, reply, disturbed>>
  BY <1>1 DEF ListOrders, ListRow, Goto
<1> HIDE DEF rest
<1>5. "list" \in Patches \cup Reads
  BY DEF Reads
<1> QED BY <1>3, <1>4, <1>5, StartKeepsIInv

(* Steps of no request *)
LEMMA PostKeepsIInv ==
    ASSUME IInv, NEW c \in Characters, NEW i \in Ids, PostRequisitionOrder(c, i)
    PROVE  IInv'
<1> USE DEF PostRequisitionOrder
<1>1. TypeOK /\ orders[i] = NoRow
  BY DEF IInv
<1>2. [owner |-> c, status |-> "open", updatedBy |-> c] \in Orders
  BY DEF Orders, Statuses
<1>3. TypeOK'
  BY <1>1, <1>2 DEF TypeOK
<1>4. \A j \in Ids : orders[j] # NoRow => orders'[j] = orders[j]
  BY <1>1 DEF TypeOK
<1>5. ASSUME NEW q \in Requests PROVE Shape(q)' /\ Claim(q)'
  <2>1. Id(q)' = Id(q) /\ User(q)' = User(q) /\ Action(q)' = Action(q)
    BY DEF Id, User, Action
  <2>2. pc[q] # "idle" => Id(q) \in Ids
    BY <1>1, CallType
  <2>3. Shape(q)'
    BY <1>4, <2>1, <2>2 DEF IInv, Shape
  <2>4. pc[q] # "idle" => (IsOpen(Id(q)) => IsOpen(Id(q))') /\ (Written(q) => Written(q)')
          /\ (MineIsLive(q) => MineIsLive(q)')
    BY <1>4, <2>1, <2>2 DEF IsOpen, Written, MineIsLive
  <2>5. Claim(q)'
    BY <2>1, <2>4 DEF IInv, Claim, Shape
  <2> QED BY <2>3, <2>5
<1> QED BY <1>3, <1>5 DEF IInv

LEMMA ExpiryKeepsIInv ==
    ASSUME IInv, NEW i \in Ids, LockExpires(i)
    PROVE  IInv'
<1>1. /\ TypeOK /\ Live(locks[i]) /\ locks[i] \in Locks
      /\ UNCHANGED <<orders, pc, call, todo, expiring, reply>>
      /\ locks' = [locks EXCEPT ![i].expired = TRUE]
      /\ disturbed' = disturbed \cup Observers(i)
  BY DEF IInv, TypeOK, LockExpires, Live, Disturb
<1>2. locks' = [locks EXCEPT ![i] = [locks[i] EXCEPT !.expired = TRUE]]
        /\ [locks[i] EXCEPT !.expired = TRUE] \in Locks
  BY <1>1 DEF TypeOK, Locks
<1>3. TypeOK'
  <2>1. disturbed' \in SUBSET Requests
    BY <1>1 DEF TypeOK, Observers
  <2> QED BY <1>1, <1>2, <2>1 DEF TypeOK
<1>4. RowsKeepOwner
  BY <1>1 DEF RowsKeepOwner
<1>5. ASSUME NEW q \in Requests PROVE Untouched(q)
  <2>1. CASE pc[q] = "idle"
    BY <1>1, <2>1 DEF Untouched, Observers
  <2>2. CASE pc[q] # "idle"
    <3>1. Id(q) \in Ids
      BY <1>1, <2>2, CallType
    <3> QED BY <1>1, <1>2, <3>1 DEF Untouched, TypeOK
  <2> QED BY <2>1, <2>2
<1> QED BY <1>3, <1>4, <1>5, UntouchedKeeps DEF IInv

LEMMA RestartKeepsIInv ==
    ASSUME IInv, Restart
    PROVE  IInv'
BY DEF IInv, Restart, TypeOK, Locations, Codes, Shape, Claim

LEMMA HandleKeepsIInv ==
    ASSUME IInv, NEW r \in Requests, Handle(r)
    PROVE  IInv'
<1>1. CASE FindExpired(r)
  BY <1>1, FindExpiredKeepsIInv
<1>2. CASE \/ CheckForLock(r) \/ CheckForUnlock(r) \/ CheckForCancel(r)
           \/ CheckForClosing(r) \/ CheckForGet(r)
  BY <1>2, CheckKeepsIInv
<1>3. CASE CheckForList(r)
  BY <1>3, CheckForListKeepsIInv
<1>4. CASE ReadFails(r) \/ ReadOrder(r) \/ ReadForGet(r)
  BY <1>4, ReadKeepsIInv
<1>5. CASE SetRequisitionLock(r)
  BY <1>5, SetLockKeepsIInv
<1>6. CASE PutLock(r)
  BY <1>6, PutLockKeepsIInv
<1>7. CASE \E applied, failed \in BOOLEAN :
             (applied \/ failed) /\ WriteOrder(r, applied, failed)
  BY <1>7, WriteKeepsIInv
<1>8. CASE DeleteRequisitionLock(r)
  BY <1>8, ReleaseKeepsIInv
<1>9. CASE DeleteLock(r)
  BY <1>9, DeleteLockKeepsIInv
<1>10. CASE Respond(r)
  BY <1>10, RespondKeepsIInv
<1> QED BY <1>1, <1>2, <1>3, <1>4, <1>5, <1>6, <1>7, <1>8, <1>9, <1>10 DEF Handle

LEMMA NextIInv == IInv /\ [Next]_vars => IInv'
<1> SUFFICES ASSUME IInv, [Next]_vars PROVE IInv'
  OBVIOUS
<1>1. CASE UNCHANGED vars
  BY <1>1 DEF vars, IInv, TypeOK, Shape, Claim, MineIsLive, Written, IsOpen, Id, User,
              Action
<1>2. ASSUME NEW r \in Requests, NEW a \in Patches \cup {"get"}, NEW c \in Characters,
             NEW i \in Ids, Arrive(r, a, c, i)
      PROVE  IInv'
  BY <1>2, ArriveKeepsIInv
<1>3. ASSUME NEW r \in Requests, NEW c \in Characters, NEW s, NEW owners,
             ListOrders(r, c, s, owners)
      PROVE  IInv'
  BY <1>3, ListKeepsIInv
<1>4. ASSUME NEW r \in Requests, Handle(r) PROVE IInv'
  BY <1>4, HandleKeepsIInv
<1>5. ASSUME NEW c \in Characters, NEW i \in Ids, PostRequisitionOrder(c, i) PROVE IInv'
  BY <1>5, PostKeepsIInv
<1>6. ASSUME NEW i \in Ids, LockExpires(i) PROVE IInv'
  BY <1>6, ExpiryKeepsIInv
<1>7. CASE Restart
  BY <1>7, RestartKeepsIInv
<1> QED BY <1>1, <1>2, <1>3, <1>4, <1>5, <1>6, <1>7 DEF Next

LEMMA Inductive == Spec => []IInv
BY InitIInv, NextIInv, PTL DEF Spec
-----------------------------------------------------------------------------
(* Every variable keeps its type, whatever interleaving, expiry or restart. *)
THEOREM TypeCorrect == Spec => []TypeOK
<1>1. IInv => TypeOK
  BY DEF IInv
<1> QED BY <1>1, Inductive, PTL

(* Without a second request or the end of the hour in between, a handler   *)
(* writes only to an open requisition its caller has locked.               *)
THEOREM UndisturbedWritesAreSafe == Spec => []UndisturbedWrite
<1>1. IInv => UndisturbedWrite
  BY DEF IInv, Claim, UndisturbedWrite, MineIsLive
<1> QED BY <1>1, Inductive, PTL

(* Successful answers of undisturbed handlers are true. *)
THEOREM RepliesAreTruthful == Spec => []ReplyIsTruthful
<1>1. IInv => ReplyIsTruthful
  <2> SUFFICES ASSUME IInv, NEW r \in Requests,
                      pc[r] = "done", reply[r] = 200, r \notin disturbed
               PROVE  /\ Action(r) = "lock" => IsOpen(Id(r)) /\ MineIsLive(r)
                      /\ Action(r) = "unlock" => locks[Id(r)] = NoLock
                      /\ Action(r) \in Closing =>
                            locks[Id(r)] = NoLock /\ Written(r)
    BY DEF ReplyIsTruthful, MineIsLive, Written
  <2> QED BY DEF IInv, Claim
<1> QED BY <1>1, Inductive, PTL

(* Who can take a live lock away *)
LEMMA LockStep ==
    ASSUME IInv, Next, NEW i \in Ids, Live(locks[i]), locks'[i] # locks[i]
    PROVE  \/ locks'[i] = [locks[i] EXCEPT !.expired = TRUE]
           \/ \A r \in Requests : pc'[r] = "idle"
           \/ \E r \in Requests :
                 /\ Acts(r) /\ Id(r) = i
                 /\ User(r) = locks[i].holder \/ r \in disturbed
<1> DEFINE Goal == \E r \in Requests :
                     /\ Acts(r) /\ Id(r) = i
                     /\ User(r) = locks[i].holder \/ r \in disturbed
<1>0. TypeOK
  BY DEF IInv
<1>1. ASSUME NEW r \in Requests, pc[r] # "idle", GetRequisitionLock(r), Acts(r)
      PROVE  Goal
  <2>1. Id(r) = i /\ r \in expiring
    BY <1>0, <1>1, GetLockEffect
  <2>2. r \in disturbed
    BY <2>1 DEF IInv, Claim, Expired, Live
  <2> QED BY <1>1, <2>1, <2>2
<1>2. ASSUME NEW r \in Requests, NEW lock \in Locks \cup {NoLock}, ReplaceLock(r, lock),
             pc[r] \in {"put", "delete"}, Acts(r)
      PROVE  Goal
  <2>1. Id(r) = i
    BY <1>0, <1>2, ReplaceEffect
  <2>2. r \in disturbed \/ User(r) = locks[i].holder
    BY <1>2, <2>1 DEF IInv, Claim, MineIsLive, Live
  <2> QED BY <1>2, <2>1, <2>2
<1>3. ASSUME NEW r \in Requests, Handle(r) PROVE Goal
  <2>1. CASE pc'[r] # pc[r] /\ pc[r] # "idle" /\ GetRequisitionLock(r)
    BY <1>1, <2>1 DEF Acts
  <2>2. CASE CheckForList(r)
    <3>1. pc[r] = "check" /\ GetRequisitionLock(r) /\ Action(r) = "list"
      BY <2>2 DEF CheckForList
    <3>2. Id(r) \notin todo[r]
      BY <3>1 DEF IInv, Shape
    <3>3. Acts(r)
      <4>1. CASE todo[r] = {} /\ Goto(r, "done")
        BY <1>0, <3>1, <4>1 DEF Goto, Acts, TypeOK
      <4>2. CASE \E j \in todo[r] : ListRow(r, User(r), j, todo[r] \ {j})
        <5>1. PICK j \in todo[r] :
                call' = [call EXCEPT ![r] = [action |-> "list", user |-> User(r),
                                             id |-> j]]
          BY <4>2 DEF ListRow
        <5>2. call'[r].id = j /\ j # call[r].id
          BY <1>0, <3>2, <5>1 DEF TypeOK, Id
        <5> QED BY <5>2 DEF Acts
      <4> QED BY <2>2, <4>1, <4>2 DEF CheckForList
    <3> QED BY <1>1, <3>1, <3>3
  <2>3. CASE PutLock(r)
    <3>1. NewLock(r) \in Locks \cup {NoLock}
      BY <1>0, <2>3, CallType DEF PutLock, NewLock, Locks
    <3>2. Acts(r)
      BY <1>0, <2>3 DEF PutLock, Goto, AfterSet, Acts, TypeOK
    <3> QED BY <1>2, <2>3, <3>1, <3>2 DEF PutLock
  <2>4. CASE DeleteLock(r)
    <3>1. Acts(r)
      BY <1>0, <2>4 DEF DeleteLock, Goto, Acts, TypeOK
    <3> QED BY <1>2, <2>4, <3>1 DEF DeleteLock
  <2>5. CASE \/ CheckForLock(r) \/ CheckForUnlock(r) \/ CheckForCancel(r)
             \/ CheckForClosing(r) \/ CheckForGet(r) \/ SetRequisitionLock(r)
             \/ DeleteRequisitionLock(r)
    <3> USE <1>0 DEF TypeOK, Goto, Answer
    <3>1. CASE CheckForLock(r)
      BY <2>1, <3>1 DEF CheckForLock
    <3>2. CASE CheckForUnlock(r)
      BY <2>1, <3>2 DEF CheckForUnlock
    <3>3. CASE CheckForCancel(r)
      BY <2>1, <3>3 DEF CheckForCancel
    <3>4. CASE CheckForClosing(r)
      BY <2>1, <3>4 DEF CheckForClosing
    <3>5. CASE CheckForGet(r)
      BY <2>1, <3>5 DEF CheckForGet
    <3>6. CASE SetRequisitionLock(r)
      BY <2>1, <3>6 DEF SetRequisitionLock, AfterSet
    <3>7. CASE DeleteRequisitionLock(r)
      BY <2>1, <3>7 DEF DeleteRequisitionLock
    <3> QED BY <2>5, <3>1, <3>2, <3>3, <3>4, <3>5, <3>6, <3>7
  <2>6. CASE \/ FindExpired(r) \/ ReadFails(r) \/ ReadOrder(r) \/ ReadForGet(r)
             \/ Respond(r)
             \/ \E applied, failed \in BOOLEAN :
                   (applied \/ failed) /\ WriteOrder(r, applied, failed)
    BY <2>6 DEF FindExpired, ReadFails, ReadOrder, ReadForGet, Respond, WriteOrder
  <2> QED BY <1>3, <2>2, <2>3, <2>4, <2>5, <2>6 DEF Handle
<1>4. ASSUME NEW j \in Ids, LockExpires(j)
      PROVE  locks'[i] = [locks[i] EXCEPT !.expired = TRUE]
  BY <1>0, <1>4 DEF LockExpires, TypeOK
<1>5. CASE \/ \E r \in Requests, a \in Patches \cup {"get"}, c \in Characters, j \in Ids :
                 Arrive(r, a, c, j)
           \/ \E r \in Requests, c \in Characters, s \in Statuses \cup {"unknown"},
                 owners \in {{d} : d \in Characters} \cup {Characters} :
                 ListOrders(r, c, s, owners)
           \/ \E c \in Characters, j \in Ids : PostRequisitionOrder(c, j)
  BY <1>5 DEF Arrive, ListOrders, PostRequisitionOrder
<1> QED BY <1>3, <1>4, <1>5 DEF Next, Restart

(* A live lock is lost only to its holder, to a request that was overtaken, *)
(* to the clock or to a restart.                                           *)
THEOREM LocksAreKept == Spec => HolderKeepsLock
<1> DEFINE Kept == \A i \in Ids : Live(locks[i]) /\ locks'[i] # locks[i] =>
         \/ locks'[i] = [locks[i] EXCEPT !.expired = TRUE]
         \/ \A r \in Requests : pc'[r] = "idle"
         \/ \E r \in Requests :
               /\ Acts(r) /\ Id(r) = i
               /\ User(r) = locks[i].holder \/ r \in disturbed
<1>1. IInv /\ [Next]_vars => [Kept]_vars
  BY LockStep
<1> QED BY <1>1, Inductive, PTL DEF Spec, HolderKeepsLock
-----------------------------------------------------------------------------
(* The refinement of RequisitionLedger *)
Pending == [r \in Requests |-> Decision(r)]

LEMMA DecisionType ==
    ASSUME IInv, NEW r \in Requests
    PROVE  /\ Committed(r) <=> Decision(r) # NoCall
           /\ Committed(r) => Decision(r) \in Ledger!Decisions
           /\ Committed(r) => Id(r) \in Ids /\ User(r) \in Characters
<1>1. CASE Committed(r)
  <2>1. Id(r) \in Ids /\ User(r) \in Characters /\ Action(r) \in Closing
    BY <1>1, CallType DEF IInv, Committed
  <2>2. StatusOf[Action(r)] \in Ledger!Closings
    BY <2>1 DEF Closing, StatusOf, Ledger!Closings
  <2>3. [id |-> Id(r), status |-> StatusOf[Action(r)], by |-> User(r)]
          \in Ledger!Decisions
    BY <2>1, <2>2 DEF Ledger!Decisions
  <2> QED BY <1>1, <2>1, <2>3, NoCallIsNoDecision DEF Decision
<1>2. CASE ~Committed(r)
  BY <1>2 DEF Decision
<1> QED BY <1>1, <1>2

(* A step that changes neither the table nor a decision is a stutter. *)
LEMMA Stutter ==
    ASSUME orders' = orders, \A r \in Requests : Decision(r)' = Decision(r)
    PROVE  UNCHANGED Ledger!vars
BY DEF Ledger!vars

(* A step of r leaves the decisions of the others. *)
LEMMA OthersDecide ==
    ASSUME NEW r \in Requests, NEW q \in Requests \ {r},
           pc'[q] = pc[q], call'[q] = call[q]
    PROVE  Decision(q)' = Decision(q)
BY DEF Decision, Committed, Id, User, Action

LEMMA HandleRefines ==
    ASSUME IInv, NEW r \in Requests, Handle(r)
    PROVE  [Ledger!Next]_(Ledger!vars)
<1>0. TypeOK
  BY DEF IInv
<1>1. \A q \in Requests \ {r} : pc'[q] = pc[q] /\ call'[q] = call[q]
  BY <1>0 DEF Handle, FindExpired, CheckForLock, CheckForUnlock, CheckForCancel,
     CheckForClosing, CheckForGet, CheckForList, ListRow, ReadFails, ReadOrder,
     ReadForGet, SetRequisitionLock, PutLock, WriteOrder, DeleteRequisitionLock,
     DeleteLock, Respond, Goto, Answer, TypeOK
<1>2. \A q \in Requests \ {r} : Decision(q)' = Decision(q)
  BY <1>1, OthersDecide
<1>3. ASSUME orders' = orders, Decision(r)' = Decision(r)
      PROVE  [Ledger!Next]_(Ledger!vars)
  BY <1>2, <1>3, Stutter
<1>4. CASE \/ CheckForLock(r) \/ CheckForUnlock(r) \/ CheckForCancel(r)
           \/ CheckForClosing(r) \/ CheckForGet(r) \/ CheckForList(r)
           \/ ReadForGet(r) \/ DeleteRequisitionLock(r) \/ DeleteLock(r) \/ Respond(r)
  <2>1. /\ pc[r] \in {"check", "read", "release", "delete", "done"}
        /\ pc'[r] \in {"idle", "read", "delete", "done", "check"}
        /\ pc[r] = "read" => pc'[r] = "check"
        /\ orders' = orders
    BY <1>0, <1>4 DEF CheckForLock, CheckForUnlock, CheckForCancel, CheckForClosing,
       CheckForGet, CheckForList, ListRow, ReadForGet, DeleteRequisitionLock,
       DeleteLock, Respond, Goto, Answer, TypeOK
  <2>2. ~Committed(r) /\ ~Committed(r)'
    BY <2>1 DEF Committed
  <2> QED BY <1>3, <2>1, <2>2 DEF Decision
<1>5. CASE FindExpired(r)
  BY <1>3, <1>5 DEF FindExpired, Decision, Committed, Id, User, Action
<1>6. CASE SetRequisitionLock(r) \/ PutLock(r)
  <2>1. /\ orders' = orders /\ call' = call
        /\ pc[r] \in {"set", "put"} /\ pc'[r] \in {"put", AfterSet(r)}
        /\ Action(r) \in {"lock", "cancel"}
    BY <1>0, <1>6 DEF SetRequisitionLock, PutLock, Goto, TypeOK, IInv, Shape
  <2>2. Id(r)' = Id(r) /\ User(r)' = User(r) /\ Action(r)' = Action(r)
    BY <2>1 DEF Id, User, Action
  <2>3. Committed(r)' = Committed(r)
    BY <2>1, <2>2 DEF Committed, AfterSet, Closing
  <2> QED BY <1>3, <2>1, <2>2, <2>3 DEF Decision
<1>7. CASE ReadFails(r) \/ (ReadOrder(r) /\ pc'[r] \in {"done", "set"} /\ Action(r) \notin Closing)
        \/ (ReadOrder(r) /\ pc'[r] = "done")
  <2>1. /\ orders' = orders /\ call' = call
        /\ pc[r] = "read" /\ (pc'[r] = "done" \/ Action(r) \notin Closing)
    BY <1>0, <1>7 DEF ReadFails, ReadOrder, Answer, TypeOK
  <2>2. ~Committed(r) /\ ~Committed(r)'
    BY <2>1 DEF Committed, Action
  <2> QED BY <1>3, <2>1, <2>2 DEF Decision
<1>8. CASE ReadOrder(r) /\ pc'[r] # "done" /\ Action(r) \in Closing
  <2>1. /\ orders' = orders /\ call' = call /\ pc[r] = "read"
        /\ pc'[r] \in {"set", "write"}
        /\ IsOpen(Id(r)) /\ ~NotTheOwner(r)
    BY <1>0, <1>8 DEF ReadOrder, Answer, Goto, NotOpen, TypeOK
  <2>2. ~Committed(r) /\ Committed(r)' /\ Id(r)' = Id(r) /\ User(r)' = User(r)
          /\ Action(r)' = Action(r)
    BY <1>8, <2>1 DEF Committed, Id, User, Action
  <2>3. Id(r) \in Ids /\ User(r) \in Characters /\ StatusOf[Action(r)] \in Ledger!Closings
    BY <1>0, <1>8, <2>1, CallType DEF Closing, StatusOf, Ledger!Closings
  <2>4. Pending' = [Pending EXCEPT ![r] =
                      [id |-> Id(r), status |-> StatusOf[Action(r)], by |-> User(r)]]
    BY <1>2, <2>2 DEF Pending, Decision
  <2>5. Ledger!Entitled(User(r), Id(r), StatusOf[Action(r)])
    BY <1>8, <2>1 DEF Ledger!Entitled, NotTheOwner, Closing, StatusOf, IInv, Shape
  <2>6. Ledger!Decide(r, Id(r), User(r), StatusOf[Action(r)])
    BY <2>1, <2>2, <2>4, <2>5 DEF Ledger!Decide, Pending, Decision, IsOpen
  <2> QED BY <2>3, <2>6 DEF Ledger!Next
<1>9. ASSUME NEW applied \in BOOLEAN, NEW failed \in BOOLEAN, applied \/ failed,
             WriteOrder(r, applied, failed)
      PROVE  [Ledger!Next]_(Ledger!vars)
  <2>1. /\ pc[r] = "write" /\ call' = call /\ pc'[r] \in {"release", "done"}
        /\ Action(r) \in Closing
    BY <1>0, <1>9 DEF WriteOrder, Goto, Answer, TypeOK, IInv, Shape
  <2>2. Committed(r) /\ ~Committed(r)'
    BY <2>1 DEF Committed
  <2>3. Pending' = [Pending EXCEPT ![r] = NoCall]
    BY <1>2, <2>2 DEF Pending, Decision
  <2>4. Pending[r] # NoCall
    BY <2>2, DecisionType DEF Pending
  <2>5. CASE applied
    <3>1. orders' = [orders EXCEPT ![Pending[r].id].status = Pending[r].status,
                                   ![Pending[r].id].updatedBy = Pending[r].by]
      BY <1>9, <2>2, <2>5 DEF WriteOrder, Pending, Decision
    <3>2. Ledger!Apply(r)
      BY <2>3, <2>4, <3>1 DEF Ledger!Apply, Pending
    <3> QED BY <3>2 DEF Ledger!Next
  <2>6. CASE ~applied
    <3>1. orders' = orders
      BY <1>9, <2>6 DEF WriteOrder
    <3>2. Pending' = [q \in Requests |-> IF q \in {r} THEN NoCall ELSE Pending[q]]
      BY <2>3 DEF Pending
    <3>3. Ledger!Lose({r})
      BY <2>4, <3>1, <3>2 DEF Ledger!Lose, Pending
    <3> QED BY <3>3 DEF Ledger!Next
  <2> QED BY <2>5, <2>6
<1>10. CASE ReadOrder(r)
  <2>1. pc'[r] \in {"done", "set", "write"}
        /\ (Action(r) \notin Closing => pc'[r] \in {"done", "set"})
    BY <1>0, <1>10 DEF ReadOrder, Answer, Goto, TypeOK, IInv, Shape, Closing, Patches
  <2> QED BY <1>7, <1>8, <1>10, <2>1
<1> QED BY <1>4, <1>5, <1>6, <1>7, <1>9, <1>10 DEF Handle

LEMMA StepRefines ==
    ASSUME IInv, [Next]_vars
    PROVE  [Ledger!Next]_(Ledger!vars)
<1>0. TypeOK
  BY DEF IInv
<1>1. CASE UNCHANGED vars
  BY <1>1, Stutter DEF vars, Decision, Committed, Id, User, Action
<1>2. ASSUME NEW r \in Requests, pc[r] = "idle", pc'[r] \in {"read", "check"},
             \A q \in Requests \ {r} : pc'[q] = pc[q] /\ call'[q] = call[q],
             orders' = orders
      PROVE  [Ledger!Next]_(Ledger!vars)
  <2>1. Decision(r)' = Decision(r)
    BY <1>2 DEF Decision, Committed
  <2> QED BY <1>2, <2>1, OthersDecide, Stutter
<1>3. ASSUME NEW r \in Requests, NEW a \in Patches \cup {"get"}, NEW c \in Characters,
             NEW i \in Ids, Arrive(r, a, c, i)
      PROVE  [Ledger!Next]_(Ledger!vars)
  BY <1>0, <1>2, <1>3 DEF Arrive, Goto, TypeOK
<1>4. ASSUME NEW r \in Requests, NEW c \in Characters, NEW s, NEW owners,
             ListOrders(r, c, s, owners)
      PROVE  [Ledger!Next]_(Ledger!vars)
  BY <1>0, <1>2, <1>4 DEF ListOrders, ListRow, Goto, TypeOK
<1>5. ASSUME NEW c \in Characters, NEW i \in Ids, PostRequisitionOrder(c, i)
      PROVE  [Ledger!Next]_(Ledger!vars)
  <2>1. \A r \in Requests : Decision(r)' = Decision(r)
    BY <1>5 DEF PostRequisitionOrder, Decision, Committed, Id, User, Action
  <2>2. Ledger!Open(i, c)
    BY <1>5, <2>1 DEF PostRequisitionOrder, Ledger!Open
  <2> QED BY <2>2 DEF Ledger!Next
<1>6. ASSUME NEW i \in Ids, LockExpires(i)
      PROVE  [Ledger!Next]_(Ledger!vars)
  BY <1>6, Stutter DEF LockExpires, Decision, Committed, Id, User, Action
<1>7. CASE Restart
  <2>1. orders' = orders /\ \A r \in Requests : Decision(r)' = NoCall
    BY <1>7 DEF Restart, Decision, Committed
  <2>2. CASE \E r \in Requests : Decision(r) # NoCall
    <3>1. Pending' = [q \in Requests |-> IF q \in Requests THEN NoCall ELSE Pending[q]]
      BY <2>1 DEF Pending
    <3>2. Ledger!Lose(Requests)
      BY <2>1, <2>2, <3>1 DEF Ledger!Lose, Pending
    <3> QED BY <3>2 DEF Ledger!Next
  <2>3. CASE \A r \in Requests : Decision(r) = NoCall
    BY <2>1, <2>3, Stutter
  <2> QED BY <2>2, <2>3
<1>8. ASSUME NEW r \in Requests, Handle(r)
      PROVE  [Ledger!Next]_(Ledger!vars)
  BY <1>8, HandleRefines
<1> QED BY <1>1, <1>3, <1>4, <1>5, <1>6, <1>7, <1>8 DEF Next

(* The handlers implement the ledger: each status change applies a decision *)
(* that one request took while the requisition was open, in the name of a  *)
(* character entitled to it.                                               *)
THEOREM ImplementsLedger == Spec => LedgerSpec
<1>1. Init => Ledger!Init
  BY DEF Init, Ledger!Init, Decision, Committed
<1>2. IInv /\ [Next]_vars => [Ledger!Next]_(Ledger!vars)
  BY StepRefines
<1> QED BY <1>1, <1>2, Inductive, PTL DEF Spec, LedgerSpec, Ledger!Spec

Proved == INSTANCE RequisitionLedgerProofs
    WITH decisions <- [r \in Requests |-> Decision(r)], NoDecision <- NoCall

(* The theorems of the ledger hold of what it is implemented by. *)
LEMMA LedgerTheoremsApply ==
    /\ Spec => []Proved!ClosedByTheEntitled
    /\ Spec => Proved!SettledIsFinal
<1>1. Proved!LedgerSentinels
  BY Constants, NoCallIsNoDecision DEF Proved!LedgerSentinels, Ledger!Decisions,
     Proved!Decisions, Orders, Proved!Orders, Statuses, Proved!Closings, Ledger!Closings
<1>2. Ledger!Init => Proved!Init
  BY DEF Ledger!Init, Proved!Init
<1>3. [Ledger!Next]_(Ledger!vars) => [Proved!Next]_(Proved!vars)
  BY DEF Ledger!Next, Ledger!vars, Ledger!Open, Ledger!Decide, Ledger!Entitled,
     Ledger!Apply, Ledger!Lose, Ledger!Closings, Proved!Next, Proved!vars, Proved!Open,
     Proved!Decide, Proved!Entitled, Proved!Apply, Proved!Lose, Proved!Closings
<1>4. Ledger!Spec => Proved!Spec
  BY <1>2, <1>3, PTL DEF Ledger!Spec, Proved!Spec
<1>5. Spec => Proved!Spec
  BY <1>4, ImplementsLedger DEF LedgerSpec
<1> QED BY <1>1, <1>5, Proved!EntitledCloses, Proved!SettledStays

(* Whoever closed a requisition was entitled to: it follows from the ledger, *)
(* whose decisions are taken while the requisition is open.                *)
THEOREM RightPartyCloses == Spec => []ClosedByTheRightParty
<1>1. Proved!ClosedByTheEntitled => ClosedByTheRightParty
  BY DEF Proved!ClosedByTheEntitled, Proved!Settled, Proved!Entitled,
     ClosedByTheRightParty, Settled, IsOpen
<1> QED BY <1>1, LedgerTheoremsApply, PTL

(* A closed requisition that no handler is about to write stays as it is. *)
THEOREM SettledStays == Spec => SettledIsFinal
<1>1. IInv => \A i \in Ids : AtRest(i) => Proved!AtRest(i)
  <2> SUFFICES ASSUME IInv, NEW i \in Ids, AtRest(i), NEW r \in Requests,
                      Decision(r) # NoCall
               PROVE  Decision(r).id # i
    BY DEF AtRest, Proved!AtRest, Proved!Settled, Settled, IsOpen
  <2>1. Committed(r)
    BY DecisionType
  <2> QED BY <2>1 DEF AtRest, Decision
<1>2. IInv => \A i \in Ids : Proved!AtRest(i) => AtRest(i)
  <2> SUFFICES ASSUME IInv, NEW i \in Ids, Proved!AtRest(i), NEW r \in Requests,
                      Committed(r)
               PROVE  Id(r) # i
    BY DEF AtRest, Proved!AtRest, Proved!Settled, Settled, IsOpen
  <2>1. Decision(r) # NoCall /\ Decision(r).id = Id(r)
    BY DecisionType DEF Decision
  <2> QED BY <2>1 DEF Proved!AtRest
<1>3. (IInv => \A i \in Ids : Proved!AtRest(i) => AtRest(i))'
  BY <1>2, PTL
<1>4. ASSUME IInv, IInv',
             [\A i \in Ids : Proved!AtRest(i) => Proved!AtRest(i)' /\ orders'[i] = orders[i]]_(Proved!vars)
      PROVE  [\A i \in Ids : AtRest(i) => AtRest(i)' /\ orders'[i] = orders[i]]_vars
  <2> SUFFICES ASSUME NEW i \in Ids, AtRest(i)
               PROVE  AtRest(i)' /\ orders'[i] = orders[i]
    OBVIOUS
  <2>1. Proved!AtRest(i)
    BY <1>1, <1>4
  <2>2. Proved!AtRest(i)' /\ orders'[i] = orders[i]
    <3>1. CASE UNCHANGED Proved!vars
      BY <2>1, <3>1 DEF Proved!vars, Proved!AtRest, Proved!Settled
    <3> QED BY <1>4, <2>1, <3>1
  <2> QED BY <1>4, <1>3, <2>2
<1> QED BY <1>4, Inductive, LedgerTheoremsApply, PTL
        DEF SettledIsFinal, Proved!SettledIsFinal
-----------------------------------------------------------------------------
(* One request at a time: only the hour and posts come between its steps,  *)
(* so that what it found is there until it acts on it, but for the lock's  *)
(* age.                                                                    *)
Alone(r) ==
    /\ pc[r] = "read" /\ Action(r) \in {"lock", "cancel"} => locks[Id(r)] = NoLock
    /\ pc[r] \in {"set", "put"} => IsOpen(Id(r)) /\ locks[Id(r)] = NoLock
    /\ pc[r] = "write" => IsOpen(Id(r))
    /\ pc[r] = "delete" /\ Action(r) = "unlock" =>
          locks[Id(r)] # NoLock /\ locks[Id(r)].holder = User(r)

LEMMA HandleKeepsAlone ==
    ASSUME IInv, NEW r \in Requests, Alone(r), Handle(r)
    PROVE  Alone(r)'
<1>0. /\ TypeOK /\ Shape(r) /\ r \in DOMAIN pc /\ r \in DOMAIN call
  BY DEF IInv, TypeOK
<1>1. pc[r] # "idle" /\ Id(r) \in Ids
  BY <1>0, CallType DEF Handle, FindExpired, CheckForLock, CheckForUnlock,
     CheckForCancel, CheckForClosing, CheckForGet, CheckForList, ReadFails, ReadOrder,
     ReadForGet, SetRequisitionLock, PutLock, WriteOrder, DeleteRequisitionLock,
     DeleteLock, Respond
<1> DEFINE Looked == /\ locks'[Id(r)] = Seen(r)
                     /\ Id(r)' = Id(r) /\ User(r)' = User(r) /\ Action(r)' = Action(r)
<1>2. GetRequisitionLock(r) /\ call' = call => Looked
  BY <1>0, <1>1, GetLockEffect DEF Id, User, Action
<1>3. CASE FindExpired(r)
  BY <1>3 DEF FindExpired, Alone, IsOpen, Id, User, Action
<1>4. CASE CheckForLock(r) \/ CheckForCancel(r)
  <2>1. Looked /\ (pc'[r] = "done" \/ (pc'[r] = "read" /\ Seen(r) = NoLock))
    BY <1>0, <1>2, <1>4 DEF CheckForLock, CheckForCancel, Answer, Goto
  <2> QED BY <2>1 DEF Alone
<1>5. CASE CheckForUnlock(r)
  <2>1. Looked /\ (pc'[r] = "done" \/ (pc'[r] = "delete" /\ Mine(r)))
    BY <1>0, <1>2, <1>5 DEF CheckForUnlock, Answer, Goto
  <2> QED BY <2>1 DEF Alone, Mine
<1>6. CASE CheckForClosing(r)
  <2>1. Looked /\ pc'[r] \in {"done", "read"} /\ Action(r) \in {"complete", "reject"}
    BY <1>0, <1>2, <1>6 DEF CheckForClosing, Answer, Goto
  <2> QED BY <2>1 DEF Alone
<1>7. CASE CheckForGet(r) \/ CheckForList(r) \/ ReadFails(r) \/ ReadForGet(r)
  <2>1. pc'[r] \in {"done", "check"}
    BY <1>0, <1>7 DEF CheckForGet, CheckForList, ReadFails, ReadForGet, ListRow, Goto,
       Answer
  <2> QED BY <2>1 DEF Alone
<1>8. CASE ReadOrder(r)
  <2>1. /\ pc[r] = "read" /\ UNCHANGED <<orders, locks, call>>
        /\ \/ pc'[r] = "done"
           \/ IsOpen(Id(r)) /\ pc'[r] = IF Action(r) \in {"lock", "cancel"}
                                           THEN "set" ELSE "write"
    BY <1>0, <1>8 DEF ReadOrder, NotOpen, Answer, Goto
  <2>2. Id(r)' = Id(r) /\ (IsOpen(Id(r)) => IsOpen(Id(r))')
    BY <2>1 DEF Id, IsOpen
  <2> QED BY <2>1, <2>2 DEF Alone
<1>9. CASE SetRequisitionLock(r)
  <2>1. Looked /\ orders' = orders /\ pc'[r] = "put" /\ Seen(r) = NoLock /\ IsOpen(Id(r))
    BY <1>0, <1>2, <1>9 DEF SetRequisitionLock, Goto, Seen, Alone
  <2> QED BY <2>1 DEF Alone, IsOpen
<1>10. CASE PutLock(r)
  <2>1. /\ UNCHANGED <<orders, call>> /\ IsOpen(Id(r)) /\ pc'[r] \in {"done", "write"}
    BY <1>0, <1>10 DEF PutLock, Goto, AfterSet, Alone
  <2> QED BY <2>1 DEF Alone, IsOpen, Id
<1>11. CASE \E applied, failed \in BOOLEAN : WriteOrder(r, applied, failed)
  <2>1. pc'[r] \in {"release", "done"}
    BY <1>0, <1>11 DEF WriteOrder, Goto, Answer
  <2> QED BY <2>1 DEF Alone
<1>12. CASE DeleteRequisitionLock(r)
  <2>1. pc'[r] \in {"delete", "done"} /\ Action(r)' \in Closing
    BY <1>0, <1>12 DEF DeleteRequisitionLock, Goto, Shape, Action
  <2> QED BY <2>1 DEF Alone, Closing
<1>13. CASE DeleteLock(r) \/ Respond(r)
  <2>1. pc'[r] \in {"done", "idle"}
    BY <1>0, <1>13 DEF DeleteLock, Respond, Goto
  <2> QED BY <2>1 DEF Alone
<1> QED BY <1>3, <1>4, <1>5, <1>6, <1>7, <1>8, <1>9, <1>10, <1>11, <1>12, <1>13
        DEF Handle

LEMMA NextAlone ==
    ASSUME NEW r, Requests = {r}, IInv, Alone(r), [Next]_vars
    PROVE  Alone(r)'
<1>0. TypeOK /\ r \in Requests /\ r \in DOMAIN pc /\ r \in DOMAIN call
  BY DEF IInv, TypeOK
<1>1. CASE Handle(r)
  BY <1>0, <1>1, HandleKeepsAlone
<1>2. ASSUME NEW a \in Patches \cup {"get"}, NEW c \in Characters, NEW i \in Ids,
             Arrive(r, a, c, i)
      PROVE  Alone(r)'
  <2>1. /\ pc'[r] = IF a = "get" THEN "read" ELSE "check"
        /\ Action(r)' = a
    BY <1>0, <1>2 DEF Arrive, Goto, Action
  <2> QED BY <2>1 DEF Alone
<1>3. ASSUME NEW c \in Characters, NEW s, NEW owners, ListOrders(r, c, s, owners)
      PROVE  Alone(r)'
  <2>1. pc'[r] = "check"
    BY <1>0, <1>3 DEF ListOrders, ListRow, Goto
  <2> QED BY <2>1 DEF Alone
<1>4. ASSUME NEW c \in Characters, NEW i \in Ids, PostRequisitionOrder(c, i)
      PROVE  Alone(r)'
  <2>1. UNCHANGED <<locks, pc, call>> /\ (IsOpen(Id(r)) => orders'[Id(r)] = orders[Id(r)])
    BY <1>0, <1>4 DEF PostRequisitionOrder, IsOpen, TypeOK
  <2>2. IsOpen(Id(r)) => IsOpen(Id(r))'
    BY <2>1 DEF IsOpen, Id
  <2> QED BY <2>1, <2>2 DEF Alone, Id, User, Action
<1>5. ASSUME NEW i \in Ids, LockExpires(i) PROVE Alone(r)'
  <2>1. UNCHANGED <<orders, pc, call>>
    BY <1>5 DEF LockExpires
  <2>2. CASE pc[r] = "idle"
    BY <2>1, <2>2 DEF Alone
  <2>3. CASE pc[r] # "idle"
    <3>1. Id(r) \in Ids
      BY <1>0, <2>3, CallType
    <3>2. /\ locks[Id(r)] = NoLock => locks'[Id(r)] = NoLock
          /\ locks[Id(r)] # NoLock => /\ locks'[Id(r)] # NoLock
                                      /\ locks'[Id(r)].holder = locks[Id(r)].holder
      <4>1. locks[Id(r)] = NoLock => Id(r) # i
        BY <1>5 DEF LockExpires, Live
      <4>2. CASE Id(r) # i
        BY <1>0, <1>5, <3>1, <4>2 DEF LockExpires, TypeOK
      <4>3. CASE Id(r) = i
        <5>1. locks[i] \in Locks /\ locks'[i] = [locks[i] EXCEPT !.expired = TRUE]
          BY <1>0, <1>5 DEF LockExpires, Live, TypeOK
        <5>2. locks'[i] \in Locks /\ locks'[i].holder = locks[i].holder
          BY <5>1 DEF Locks
        <5> QED BY <4>1, <4>3, <5>2, Constants
      <4> QED BY <4>2, <4>3
    <3> QED BY <2>1, <3>2 DEF Alone, IsOpen, Id, User, Action
  <2> QED BY <2>2, <2>3
<1>6. CASE Restart
  BY <1>0, <1>6 DEF Restart, Alone
<1>7. CASE UNCHANGED vars
  BY <1>7 DEF vars, Alone, IsOpen, Id, User, Action
<1> QED BY <1>0, <1>1, <1>2, <1>3, <1>4, <1>5, <1>6, <1>7 DEF Next

LEMMA AloneAtFirst == \A r \in Requests : Init => Alone(r)
  BY DEF Init, Alone

(* One request at a time, with posts, the hour, errors and restarts: what  *)
(* is not open is not closed again (api.go:206, 251, 286, 321).            *)
THEOREM SerialClosesOpen ==
    ASSUME NEW r, Requests = {r} PROVE Spec => OnlyOpenIsClosed
<1> DEFINE Step == \A i \in Ids : orders[i] # NoRow /\ orders'[i] # orders[i] => IsOpen(i)
<1>1. ASSUME IInv, Alone(r), [Next]_vars PROVE [Step]_vars
  <2>1. ASSUME NEW applied \in BOOLEAN, NEW failed \in BOOLEAN,
               WriteOrder(r, applied, failed)
        PROVE  Step
    <3>1. IsOpen(Id(r)) /\ orders \in [Ids -> Orders \cup {NoRow}]
      BY <1>1, <2>1 DEF IInv, TypeOK, Alone, WriteOrder
    <3>2. \A i \in Ids : i # Id(r) => orders'[i] = orders[i]
      BY <2>1, <3>1 DEF WriteOrder
    <3> QED BY <3>1, <3>2
  <2>2. ASSUME NEW c \in Characters, NEW i \in Ids, PostRequisitionOrder(c, i)
        PROVE  Step
    BY <1>1, <2>2 DEF IInv, TypeOK, PostRequisitionOrder
  <2>3. CASE orders' = orders
    BY <2>3
  <2> QED BY <1>1, <2>1, <2>2, <2>3
          DEF Next, Handle, Arrive, ListOrders, LockExpires, Restart, vars, FindExpired,
              CheckForLock, CheckForUnlock, CheckForCancel, CheckForClosing,
              CheckForGet, CheckForList, ReadFails, ReadOrder, ReadForGet,
              SetRequisitionLock, PutLock, DeleteRequisitionLock, DeleteLock, Respond
<1>2. Init => Alone(r)
  BY AloneAtFirst
<1>3. IInv /\ Alone(r) /\ [Next]_vars => Alone(r)'
  BY NextAlone
<1> QED BY <1>1, <1>2, <1>3, Inductive, PTL DEF Spec, OnlyOpenIsClosed

(* One request at a time: a "lock" that is answered 200 has left the lock  *)
(* in its caller's name (api.go:127, 191).                                 *)
THEOREM SerialLockHolds ==
    ASSUME NEW s, Requests = {s} PROVE Spec => LockReplyMeansHeld
<1> DEFINE Held(r) == /\ pc[r] \in {"set", "put"} /\ pc'[r] = "done" /\ reply[r] = 200
                      => locks'[Id(r)] # NoLock /\ locks'[Id(r)].holder = User(r)
           Step == \A r \in Requests : Held(r)
<1>1. ASSUME IInv, Alone(s), [Next]_vars PROVE [Step]_vars
  <2> SUFFICES ASSUME pc[s] \in {"set", "put"}, pc'[s] = "done"
               PROVE  locks'[Id(s)] # NoLock /\ locks'[Id(s)].holder = User(s)
    OBVIOUS
  <2>0. TypeOK /\ s \in Requests /\ s \in DOMAIN pc
    BY <1>1 DEF IInv, TypeOK
  <2>1. CASE PutLock(s)
    <3>1. /\ Id(s) \in Ids /\ User(s) \in Characters
      BY <2>0, CallType
    <3>2. locks'[Id(s)] = NewLock(s)
      BY <2>0, <2>1, <3>1 DEF PutLock, ReplaceLock, TypeOK
    <3>3. NewLock(s) \in Locks /\ NewLock(s).holder = User(s)
      BY <3>1 DEF NewLock, Locks
    <3> QED BY <3>2, <3>3, Constants
  <2>2. CASE SetRequisitionLock(s)
    <3>1. Seen(s) = NoLock
      BY <1>1, <2>2 DEF SetRequisitionLock, Seen, Alone
    <3> QED BY <2>0, <2>2, <3>1 DEF SetRequisitionLock, Goto
  <2> QED BY <1>1, <2>0, <2>1, <2>2
          DEF Next, Handle, Arrive, ListOrders, LockExpires, Restart, vars, FindExpired,
              CheckForLock, CheckForUnlock, CheckForCancel, CheckForClosing,
              CheckForGet, CheckForList, ReadFails, ReadOrder, ReadForGet, WriteOrder,
              PostRequisitionOrder, DeleteRequisitionLock, DeleteLock, Respond
<1>2. Init => Alone(s)
  BY AloneAtFirst
<1>3. IInv /\ Alone(s) /\ [Next]_vars => Alone(s)'
  BY NextAlone
<1> QED BY <1>1, <1>2, <1>3, Inductive, PTL DEF Spec, LockReplyMeansHeld

(* One request at a time: "unlock" removes no lock but its caller's, even  *)
(* one whose hour has ended meanwhile (api.go:221).                        *)
THEOREM SerialUnlocksOwn ==
    ASSUME NEW s, Requests = {s} PROVE Spec => OnlyHolderUnlocks
<1> DEFINE Step == \A r \in Requests :
                      /\ pc[r] = "delete" /\ Action(r) = "unlock" /\ pc'[r] = "done"
                      /\ locks[Id(r)] # NoLock
                      => locks[Id(r)].holder = User(r)
<1>1. Alone(s) => [Step]_vars
  BY DEF Alone
<1>2. Init => Alone(s)
  BY AloneAtFirst
<1>3. IInv /\ Alone(s) /\ [Next]_vars => Alone(s)'
  BY NextAlone
<1> QED BY <1>1, <1>2, <1>3, Inductive, PTL DEF Spec, OnlyHolderUnlocks
=============================================================================
