------------------------ MODULE InventoryTickerProofs ------------------------
(***************************************************************************)
(* Theorems about InventoryTicker, for every set of refresh requests and   *)
(* readers.                                                                *)
(***************************************************************************)
EXTENDS InventoryTicker, TLAPS

(* The goroutine starts with both timers running; its first act stops one. *)
BothRunAtStart == pc = "start" => ticking /\ retrying

IInv == TypeOK /\ OneTimerRuns /\ ReaderSeesOneInventory /\ BothRunAtStart

LEMMA InitIInv == Init => IInv
BY DEF Init, IInv, TypeOK, Locations, Servers, OneTimerRuns, ReaderSeesOneInventory,
   BothRunAtStart

LEMMA NextIInv == IInv /\ [Next]_vars => IInv'
<1> SUFFICES ASSUME IInv, [Next]_vars PROVE IInv'
  OBVIOUS
<1> USE TickerIsNoReader, NoneIsNobody DEF IInv, TypeOK, Locations, Servers, OneTimerRuns,
        ReaderSeesOneInventory, BothRunAtStart, timers, config, rwlock, requests
<1>1. CASE Start
  BY <1>1 DEF Start
<1>2. CASE Exit
  BY <1>2 DEF Exit
<1>3. CASE RefreshOnTimer
  BY <1>3 DEF RefreshOnTimer, RefreshToken, SwitchTimers, HasToken, createOauthContext
<1>4. CASE RefreshOnSignal
  BY <1>4 DEF RefreshOnSignal, RefreshToken, SwitchTimers, HasToken, createOauthContext
<1>5. CASE TickWithoutToken
  BY <1>5 DEF TickWithoutToken
<1>6. CASE Resend
  BY <1>6 DEF Resend
<1>7. CASE TickWithToken
  BY <1>7 DEF TickWithToken
<1>8. CASE FetchFails
  BY <1>8 DEF FetchFails
<1>9. CASE FetchSucceeds
  BY <1>9 DEF FetchSucceeds
<1>10. CASE Build
  BY <1>10 DEF Build
<1>11. CASE Lock
  BY <1>11 DEF Lock, LockIsFree
<1>12. CASE Swap
  <2>1. pc = "swap" /\ holders = {} /\ holders' = {} /\ outdated' = {}
    BY <1>12 DEF Swap
  <2>2. TypeOK'
    BY <1>12, <2>1 DEF Swap
  <2>3. OneTimerRuns' /\ BothRunAtStart' /\ ReaderSeesOneInventory'
    BY <1>12, <2>1 DEF Swap
  <2> QED BY <2>2, <2>3
<1>13. ASSUME NEW a \in Admins, AskRefresh(a) PROVE IInv'
  BY <1>13 DEF AskRefresh
<1>14. ASSUME NEW a \in Admins, SendRefresh(a) PROVE IInv'
  BY <1>14 DEF SendRefresh
<1>15. ASSUME NEW r \in Readers, AskBlueprints(r) PROVE IInv'
  BY <1>15 DEF AskBlueprints
<1>16. ASSUME NEW r \in Readers, ReadBpcs(r) PROVE IInv'
  BY <1>16 DEF ReadBpcs
<1>17. ASSUME NEW r \in Readers, ReadTypeNames(r) PROVE IInv'
  BY <1>17 DEF ReadTypeNames
<1>18. ASSUME NEW x \in Characters, TokenChanges(x) \/ NewAdmin(x) PROVE IInv'
  BY <1>18 DEF TokenChanges, NewAdmin
<1>19. CASE CancelThreads
  BY <1>19 DEF CancelThreads
<1>20. CASE End
  BY <1>20 DEF End
<1>21. CASE UNCHANGED vars
  BY <1>21 DEF vars
<1> QED BY <1>1, <1>2, <1>3, <1>4, <1>5, <1>6, <1>7, <1>8, <1>9, <1>10, <1>11, <1>12,
           <1>13, <1>14, <1>15, <1>16, <1>17, <1>18, <1>19, <1>20, <1>21
        DEF Next, TickerStep

LEMMA Inductive == Spec => []IInv
BY InitIInv, NextIInv, PTL DEF Spec

(* The types, and that the goroutine holds invStateLock only where the     *)
(* code takes it: RLock in updateBlueprintInventory, Lock for the swap.    *)
THEOREM TypeCorrect == Spec => []TypeOK
BY Inductive, PTL DEF IInv

(* One of the two timers runs whenever the goroutine is in its loop, and   *)
(* never both: asset_ticker.go:59-87 cannot leave it without an alarm.     *)
THEOREM AlwaysAnAlarm == Spec => []OneTimerRuns
BY Inductive, PTL DEF IInv

(* However many readers there are, getBlueprints takes both halves of its  *)
(* answer from one snapshot.                                               *)
THEOREM ReadersSeeOneInventory == Spec => []ReaderSeesOneInventory
BY Inductive, PTL DEF IInv
-----------------------------------------------------------------------------
(* With no refreshAdminToken requests the goroutine is the only sender.    *)
(* What has it find its own channel empty when it re-sends: a tick without *)
(* a token needs the ticker, which a value in the channel finds stopped    *)
(* (after the first send), and only a refresh, which empties the channel   *)
(* or runs on the other timer and so with this one stopped, starts it.     *)
OwnSendInv ==
    asked \/ /\ pc = "start" => ~signal
             /\ pc # "start" /\ signal /\ ticking => ctx # None
             /\ pc = "resend" => ~signal /\ ~ticking

(* Until a request to refresh the token has sent, no send of the goroutine *)
(* finds the channel full: the wedge of SignalIsHeeded needs a second      *)
(* sender.                                                                 *)
THEOREM OwnSendsAreFree == Spec => []OwnSendIsFree
<1>1. Init => OwnSendInv
  BY DEF Init, OwnSendInv
<1>2. TypeOK /\ OneTimerRuns /\ OwnSendInv /\ [Next]_vars => OwnSendInv'
  <2> SUFFICES ASSUME TypeOK, OneTimerRuns, OwnSendInv, [Next]_vars
               PROVE  OwnSendInv'
    OBVIOUS
  <2> USE NoneIsNobody DEF OwnSendInv, timers, requests
  <2>1. CASE Start
    BY <2>1 DEF Start
  <2>2. CASE RefreshOnTimer \/ RefreshOnSignal
    BY <2>2 DEF RefreshOnTimer, RefreshOnSignal, RefreshToken, SwitchTimers, HasToken,
                createOauthContext, TypeOK, OneTimerRuns
  <2>3. CASE TickWithoutToken
    BY <2>3 DEF TickWithoutToken
  <2>4. CASE Resend
    BY <2>4 DEF Resend
  <2>5. CASE Exit \/ TickWithToken \/ FetchFails \/ FetchSucceeds
    BY <2>5 DEF Exit, TickWithToken, FetchFails, FetchSucceeds
  <2>6. CASE Build \/ Lock \/ Swap
    BY <2>6 DEF Build, Lock, Swap
  <2>7. ASSUME NEW a \in Admins, AskRefresh(a) \/ SendRefresh(a)
        PROVE  OwnSendInv'
    BY <2>7 DEF AskRefresh, SendRefresh
  <2>8. ASSUME NEW r \in Readers,
               AskBlueprints(r) \/ ReadBpcs(r) \/ ReadTypeNames(r)
        PROVE  OwnSendInv'
    BY <2>8 DEF AskBlueprints, ReadBpcs, ReadTypeNames
  <2>9. CASE CancelThreads \/ End \/ \E x \in Characters : TokenChanges(x) \/ NewAdmin(x)
    BY <2>9 DEF CancelThreads, End, TokenChanges, NewAdmin
  <2>10. CASE UNCHANGED vars
    BY <2>10 DEF vars
  <2> QED BY <2>1, <2>2, <2>3, <2>4, <2>5, <2>6, <2>7, <2>8, <2>9, <2>10
          DEF Next, TickerStep
<1>3. OwnSendInv => OwnSendIsFree
  BY DEF OwnSendInv, OwnSendIsFree, Wedged
<1> QED BY <1>1, <1>2, <1>3, TypeCorrect, AlwaysAnAlarm, PTL DEF Spec
=============================================================================
