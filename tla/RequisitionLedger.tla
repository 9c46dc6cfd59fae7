-------------------------- MODULE RequisitionLedger --------------------------
(***************************************************************************)
(* What the requisition API promises about the requisition_order table,    *)
(* with handlers, locks and database round trips left out: an order is     *)
(* opened by its owner, and its status changes only by applying a decision *)
(* that one request took WHILE THE ORDER WAS OPEN and in the name of a     *)
(* character entitled to it.  The table itself does not serialise          *)
(* decisions: two of them may be pending for one order, and then the later *)
(* application wins.  RequisitionApi implements this specification.        *)
(***************************************************************************)
CONSTANTS
    Ids,         \* keys of requisition_order
    Characters,  \* who may own an order or decide about one
    Workers,     \* the characters of authLevel_Worker and above
    Requests,    \* who can be carrying a decision: the requests in flight
    NoRow,       \* an id that has no row yet
    NoDecision   \* a request that carries none

VARIABLES
    orders,      \* [Ids -> Orders \cup {NoRow}]: the table
    decisions    \* [Requests -> Decisions \cup {NoDecision}]: taken, not applied

vars == <<orders, decisions>>

Closings == {"canceled", "completed", "rejected"}
Orders == [owner : Characters, status : {"open"} \cup Closings,
           updatedBy : Characters]
Decisions == [id : Ids, status : Closings, by : Characters]

(* A decision and a row can be told from the absence of one. *)
LedgerSentinels == NoRow \notin Orders /\ NoDecision \notin Decisions

TypeOK ==
    /\ orders \in [Ids -> Orders \cup {NoRow}]
    /\ decisions \in [Requests -> Decisions \cup {NoDecision}]

Settled(i) == orders[i] # NoRow /\ orders[i].status # "open"

(* Who may close an order, and how: its owner cancels, a worker completes  *)
(* or rejects.                                                             *)
Entitled(c, i, status) ==
    IF status = "canceled" THEN c = orders[i].owner ELSE c \in Workers

Init ==
    /\ orders = [i \in Ids |-> NoRow]
    /\ decisions = [r \in Requests |-> NoDecision]

Open(i, c) ==
    /\ orders[i] = NoRow
    /\ orders' = [orders EXCEPT ![i] =
                    [owner |-> c, status |-> "open", updatedBy |-> c]]
    /\ UNCHANGED decisions

Decide(r, i, c, status) ==
    /\ decisions[r] = NoDecision
    /\ orders[i] # NoRow /\ orders[i].status = "open"
    /\ Entitled(c, i, status)
    /\ decisions' = [decisions EXCEPT ![r] =
                       [id |-> i, status |-> status, by |-> c]]
    /\ UNCHANGED orders

(* The decision reaches the table, whatever the row says by then. *)
Apply(r) ==
    /\ decisions[r] # NoDecision
    /\ orders' = [orders EXCEPT
                    ![decisions[r].id].status = decisions[r].status,
                    ![decisions[r].id].updatedBy = decisions[r].by]
    /\ decisions' = [decisions EXCEPT ![r] = NoDecision]

(* Decisions are lost: a database error loses one, a crash all of them. *)
Lose(S) ==
    /\ \E r \in S : decisions[r] # NoDecision
    /\ decisions' = [r \in Requests |->
                       IF r \in S THEN NoDecision ELSE decisions[r]]
    /\ UNCHANGED orders

Next ==
    \/ \E i \in Ids, c \in Characters : Open(i, c)
    \/ \E r \in Requests, i \in Ids, c \in Characters, status \in Closings :
          Decide(r, i, c, status)
    \/ \E r \in Requests : Apply(r)
    \/ \E S \in SUBSET Requests : Lose(S)

Spec == Init /\ [][Next]_vars
-----------------------------------------------------------------------------
(* A closed order was closed by a character entitled to close it that way, *)
(* and its owner never changed hands: the canceler is the owner, whoever   *)
(* completed or rejected is a worker.  It holds although the decision is   *)
(* taken in one step and applied in another, possibly over the decision of *)
(* somebody else.                                                          *)
ClosedByTheEntitled ==
    \A i \in Ids : Settled(i) =>
        Entitled(orders[i].updatedBy, i, orders[i].status)

(* An order that is closed, and about which no decision is pending, is     *)
(* closed for good: its row never changes and nothing is decided about it. *)
AtRest(i) ==
    /\ Settled(i)
    /\ \A r \in Requests : decisions[r] # NoDecision => decisions[r].id # i

SettledIsFinal ==
    [][\A i \in Ids : AtRest(i) => AtRest(i)' /\ orders'[i] = orders[i]]_vars
=============================================================================
