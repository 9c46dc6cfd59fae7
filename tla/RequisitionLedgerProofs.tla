----------------------- MODULE RequisitionLedgerProofs -----------------------
(***************************************************************************)
(* Theorems about RequisitionLedger, for every set of ids, characters,     *)
(* workers and requests, provided that rows and decisions can be told from *)
(* their absence.                                                          *)
(***************************************************************************)
EXTENDS RequisitionLedger, TLAPS

(* What makes ClosedByTheEntitled inductive: a decision under way is about *)
(* a row that exists and comes from a character entitled to it.            *)
PendingIsEntitled ==
    \A r \in Requests : decisions[r] # NoDecision =>
        /\ orders[decisions[r].id] # NoRow
        /\ Entitled(decisions[r].by, decisions[r].id, decisions[r].status)

IInv == TypeOK /\ PendingIsEntitled /\ ClosedByTheEntitled

LEMMA InitIInv == Init => IInv
BY DEF Init, IInv, TypeOK, PendingIsEntitled, ClosedByTheEntitled, Settled

(* Applying a decision keeps the owner and leaves the other rows alone. *)
LEMMA ApplyEffect ==
    ASSUME IInv, NEW r \in Requests, Apply(r)
    PROVE  /\ decisions[r] \in Decisions
           /\ orders[decisions[r].id] \in Orders
           /\ orders'[decisions[r].id] \in Orders
           /\ orders'[decisions[r].id].owner = orders[decisions[r].id].owner
           /\ orders'[decisions[r].id].status = decisions[r].status
           /\ orders'[decisions[r].id].updatedBy = decisions[r].by
           /\ \A j \in Ids \ {decisions[r].id} : orders'[j] = orders[j]
           /\ orders' \in [Ids -> Orders \cup {NoRow}]
<1>1. decisions[r] # NoDecision /\ decisions[r] \in Decisions
  BY DEF Apply, IInv, TypeOK
<1>2. decisions[r].id \in Ids /\ decisions[r].status \in Closings
        /\ decisions[r].by \in Characters
  BY <1>1 DEF Decisions
<1>3. orders[decisions[r].id] \in Orders
  BY <1>1, <1>2 DEF IInv, TypeOK, PendingIsEntitled
<1>4. orders' = [orders EXCEPT ![decisions[r].id] =
                   [orders[decisions[r].id] EXCEPT !.status = decisions[r].status,
                                                   !.updatedBy = decisions[r].by]]
  BY <1>2, <1>3 DEF Apply, IInv, TypeOK, Orders
<1>5. \A j \in Ids \ {decisions[r].id} : orders'[j] = orders[j]
  BY <1>4 DEF IInv, TypeOK
<1>6. orders'[decisions[r].id] =
        [orders[decisions[r].id] EXCEPT !.status = decisions[r].status,
                                        !.updatedBy = decisions[r].by]
  BY <1>2, <1>4 DEF IInv, TypeOK
<1>7. /\ orders'[decisions[r].id] \in Orders
      /\ orders'[decisions[r].id].owner = orders[decisions[r].id].owner
      /\ orders'[decisions[r].id].status = decisions[r].status
      /\ orders'[decisions[r].id].updatedBy = decisions[r].by
  BY <1>2, <1>3, <1>6 DEF Orders
<1>8. orders' \in [Ids -> Orders \cup {NoRow}]
  BY <1>2, <1>4, <1>6, <1>7 DEF IInv, TypeOK
<1> QED BY <1>1, <1>3, <1>5, <1>7, <1>8

LEMMA NextIInv ==
    ASSUME LedgerSentinels
    PROVE  IInv /\ [Next]_vars => IInv'
<1> SUFFICES ASSUME IInv, [Next]_vars PROVE IInv'
  OBVIOUS
<1> USE DEF LedgerSentinels, IInv, TypeOK, PendingIsEntitled, ClosedByTheEntitled,
            Settled, Entitled
<1>1. ASSUME NEW i \in Ids, NEW c \in Characters, Open(i, c) PROVE IInv'
  <2>1. orders' = [orders EXCEPT ![i] =
                     [owner |-> c, status |-> "open", updatedBy |-> c]]
          /\ decisions' = decisions
    BY <1>1 DEF Open
  <2>2. TypeOK'
    BY <2>1 DEF Orders
  <2>3. ClosedByTheEntitled'
    BY <2>1
  <2>4. PendingIsEntitled'
    <3> SUFFICES ASSUME NEW r \in Requests, decisions[r] # NoDecision
                 PROVE  /\ orders'[decisions[r].id] # NoRow
                        /\ Entitled(decisions[r].by, decisions[r].id,
                                    decisions[r].status)'
      BY <2>1
    <3>1. decisions[r].id # i /\ decisions[r].id \in Ids
      BY <1>1 DEF Open, Decisions
    <3> QED BY <2>1, <3>1
  <2> QED BY <2>2, <2>3, <2>4
<1>2. ASSUME NEW r \in Requests, NEW i \in Ids, NEW c \in Characters,
             NEW status \in Closings, Decide(r, i, c, status)
      PROVE IInv'
  BY <1>2 DEF Decide, Decisions
<1>3. ASSUME NEW r \in Requests, Apply(r) PROVE IInv'
  <2>1. TypeOK'
    BY <1>3, ApplyEffect DEF Apply
  <2>2. \A j \in Ids : orders'[j] # NoRow <=> orders[j] # NoRow
    BY <1>3, ApplyEffect
  <2>3. \A j \in Ids : orders[j] # NoRow => orders'[j].owner = orders[j].owner
    BY <1>3, ApplyEffect
  <2>4. PendingIsEntitled'
    <3> SUFFICES ASSUME NEW q \in Requests, decisions'[q] # NoDecision
                 PROVE  /\ orders'[decisions'[q].id] # NoRow
                        /\ Entitled(decisions[q].by, decisions[q].id,
                                    decisions[q].status)'
      OBVIOUS
    <3>1. q # r /\ decisions'[q] = decisions[q] /\ decisions[q].id \in Ids
      BY <1>3 DEF Apply, Decisions
    <3> QED BY <2>2, <2>3, <3>1
  <2>5. ClosedByTheEntitled'
    <3> SUFFICES ASSUME NEW j \in Ids, Settled(j)'
                 PROVE  Entitled(orders[j].updatedBy, j, orders[j].status)'
      OBVIOUS
    <3>1. CASE j = decisions[r].id
      BY <1>3, <3>1, ApplyEffect DEF Apply
    <3>2. CASE j # decisions[r].id
      BY <1>3, <3>2, ApplyEffect
    <3> QED BY <3>1, <3>2
  <2> QED BY <2>1, <2>4, <2>5
<1>4. ASSUME NEW S \in SUBSET Requests, Lose(S) PROVE IInv'
  BY <1>4 DEF Lose
<1>5. CASE UNCHANGED vars
  BY <1>5 DEF vars
<1> QED BY <1>1, <1>2, <1>3, <1>4, <1>5 DEF Next

LEMMA Inductive ==
    ASSUME LedgerSentinels
    PROVE  Spec => []IInv
BY InitIInv, NextIInv, PTL DEF Spec

(* The table and the decisions keep their types. *)
THEOREM TypeCorrect ==
    ASSUME LedgerSentinels
    PROVE  Spec => []TypeOK
<1>1. IInv => TypeOK
  BY DEF IInv
<1> QED BY <1>1, Inductive, PTL

(* Whoever closed an order was entitled to, in every behaviour. *)
THEOREM EntitledCloses ==
    ASSUME LedgerSentinels
    PROVE  Spec => []ClosedByTheEntitled
<1>1. IInv => ClosedByTheEntitled
  BY DEF IInv
<1> QED BY <1>1, Inductive, PTL

(* A closed order without a pending decision never changes again. *)
THEOREM SettledStays ==
    ASSUME LedgerSentinels
    PROVE  Spec => SettledIsFinal
<1>1. IInv /\ [Next]_vars =>
        [\A i \in Ids : AtRest(i) => AtRest(i)' /\ orders'[i] = orders[i]]_vars
  <2> SUFFICES ASSUME IInv, Next, NEW i \in Ids, AtRest(i)
               PROVE  AtRest(i)' /\ orders'[i] = orders[i]
    OBVIOUS
  <2> USE DEF IInv, TypeOK, AtRest, Settled
  <2>1. ASSUME NEW j \in Ids, NEW c \in Characters, Open(j, c)
        PROVE  AtRest(i)' /\ orders'[i] = orders[i]
    BY <2>1 DEF Open
  <2>2. ASSUME NEW r \in Requests, NEW j \in Ids, NEW c \in Characters,
               NEW status \in Closings, Decide(r, j, c, status)
        PROVE  AtRest(i)' /\ orders'[i] = orders[i]
    <3>1. j # i
      BY <2>2 DEF Decide
    <3> QED BY <2>2, <3>1 DEF Decide, Decisions
  <2>3. ASSUME NEW r \in Requests, Apply(r)
        PROVE  AtRest(i)' /\ orders'[i] = orders[i]
    <3>1. decisions[r].id # i
      BY <2>3 DEF Apply
    <3>2. orders'[i] = orders[i]
      BY <2>3, <3>1, ApplyEffect
    <3> QED BY <2>3, <3>2 DEF Apply
  <2>4. ASSUME NEW S \in SUBSET Requests, Lose(S)
        PROVE  AtRest(i)' /\ orders'[i] = orders[i]
    BY <2>4 DEF Lose
  <2> QED BY <2>1, <2>2, <2>3, <2>4 DEF Next
<1> QED BY <1>1, Inductive, PTL DEF Spec, SettledIsFinal
=============================================================================
