-------------------------- MODULE TradeQueueProofs --------------------------
(***************************************************************************)
(* Theorems about TradeQueue, for any number of rows and requests and with *)
(* no bound on time, orders or faults.                                     *)
(*                                                                         *)
(* The inductive invariant says what the row locks mean: a request holds   *)
(* the lock of its row exactly while its UPDATE is flushed (LockedByStep), *)
(* and a locked row is still PENDING unless the flush replaced a decided   *)
(* status (LockedIsPending).  With that, each commit is known to start     *)
(* from PENDING, which is what the status and the Trade records need.      *)
(***************************************************************************)
EXTENDS TradeQueue, TLAPS, FiniteSetTheorems

\* A request names a row exactly while it is in progress.
RequestHasRow == \A r \in Requests : req[r].step = "idle" <=> req[r].trade = None

LockedByStep ==
  \A t \in Trades, r \in Requests :
    lock[t] = r <=> req[r].trade = t /\ req[r].step \in Holding

LockedIsPending ==
  \A t \in Trades :
    /\ lock[t] # None /\ ~overwritten[t] => row[t].status = "PENDING"
    /\ lock[t] = Sweep => row[t].status = "PENDING"

Undecided(t) == row[t].status \in {"PENDING", "NEW"}

OneUndecidedPerKey ==
  \A t, u \in Trades :
    t # u /\ row[t].key = row[u].key /\ Undecided(t) /\ Undecided(u)
    => overwritten[t] \/ overwritten[u]

IInv ==
  /\ TypeOK
  /\ RequestHasRow
  /\ LockedByStep
  /\ LockedIsPending
  /\ BookedExactlyOnce
  /\ OneUndecidedPerKey

-----------------------------------------------------------------------------
LEMMA InitIInv == Init => IInv
<1> SUFFICES ASSUME Init PROVE IInv
  OBVIOUS
<1> USE SessionsAreDistinct DEF Init
<1>1. TypeOK
  BY DEF TypeOK, Statuses, Steps
<1>2. RequestHasRow
  BY DEF RequestHasRow
<1>3. LockedByStep
  BY DEF LockedByStep, Holding
<1>4. LockedIsPending
  BY DEF LockedIsPending
<1>5. BookedExactlyOnce
  BY DEF BookedExactlyOnce
<1>6. OneUndecidedPerKey
  BY DEF OneUndecidedPerKey, Undecided
<1> QED
  BY <1>1, <1>2, <1>3, <1>4, <1>5, <1>6 DEF IInv

\* A row with another status is still a row.
LEMMA SetStatus ==
  ASSUME NEW t \in Trades, NEW s \in Statuses,
         row \in [Trades -> [status : Statuses, key : Keys, expires : Nat]]
  PROVE  [row EXCEPT ![t].status = s]
           \in [Trades -> [status : Statuses, key : Keys, expires : Nat]]
<1> DEFINE R == [row EXCEPT ![t].status = s]
<1>1. ASSUME NEW u \in Trades
      PROVE  R[u] \in [status : Statuses, key : Keys, expires : Nat]
  BY <1>1
<1> QED
  BY <1>1

(***************************************************************************)
(* Every step keeps the types of the variables.                            *)
(***************************************************************************)
LEMMA TypeStep == TypeOK /\ RequestHasRow /\ [Next]_vars => TypeOK'
<1> SUFFICES ASSUME TypeOK, RequestHasRow, [Next]_vars PROVE TypeOK'
  OBVIOUS
<1> USE SessionsAreDistinct, BoundsAreNat DEF TypeOK, Statuses, Steps
<1>1. CASE UNCHANGED vars
  BY <1>1 DEF vars
<1>2. ASSUME NEW t \in Trades, QueueTrade(t) \/ SweepRow(t) PROVE TypeOK'
  <2>1. CASE QueueTrade(t)
    <3> DEFINE R == [row EXCEPT ![t].status = "NEW"]
    <3>1. R \in [Trades -> [status : Statuses, key : Keys, expires : Nat]]
      BY SetStatus
    <3>2. row' = [R EXCEPT ![t].expires = now + Ttl]
      BY <2>1 DEF QueueTrade
    <3>3. now + Ttl \in Nat
      OBVIOUS
    <3> HIDE DEF R
    <3>4. row' \in [Trades -> [status : Statuses, key : Keys, expires : Nat]]
      <4>1. ASSUME NEW u \in Trades
            PROVE  row'[u] \in [status : Statuses, key : Keys, expires : Nat]
        BY <3>1, <3>2, <3>3, <4>1
      <4> QED
        BY <3>1, <3>2, <4>1
    <3> QED
      BY <2>1, <3>4 DEF QueueTrade
  <2>2. CASE SweepRow(t)
    BY <2>2 DEF SweepRow
  <2> QED
    BY <1>2, <2>1, <2>2
<1>3. CASE CommitCycle
  BY <1>3 DEF CommitCycle, EndCycle, Added
<1>4. CASE RollBackCycle
  BY <1>4 DEF RollBackCycle, EndCycle, Added
<1>5. ASSUME NEW r \in Requests, RequestStep(r) PROVE TypeOK'
  <2> DEFINE RowType == [Trades -> [status : Statuses, key : Keys, expires : Nat]]
  <2>c. ASSUME req[r].step # "idle", NEW s \in Statuses, CommitStatus(r, s), Release(r)
        PROVE  row' \in RowType /\ lock' \in [Trades -> Requests \union {Sweep, None}]
               /\ req' \in [Requests -> [step : Steps, trade : Trades \union {None}]]
    <3>1. req[r].trade \in Trades
      BY <2>c DEF RequestHasRow
    <3>2. row' \in RowType
      BY <2>c, <3>1, SetStatus DEF CommitStatus
    <3> QED
      BY <2>c, <3>2 DEF Release
  <2>1. ASSUME NEW t \in Trades, BeginApprove(r, t) \/ BeginReject(r, t)
        PROVE TypeOK'
    <3>1. PICK a \in {"approving", "rejecting"} : Begin(r, t, a)
      BY <2>1 DEF BeginApprove, BeginReject
    <3> QED
      BY <3>1 DEF Begin
  <2>2. CASE Flush(r)
    BY <2>2 DEF Flush, RequestHasRow
  <2>3. CASE PlaceOrder(r)
    BY <2>3 DEF PlaceOrder, RequestHasRow
  <2>4. CASE OrderCanceled(r)
    BY <2>4 DEF OrderCanceled
  <2>5. CASE CommitExecuted(r)
    BY <2>c, <2>5 DEF CommitExecuted, RequestHasRow
  <2>6. CASE CommitReverted(r)
    BY <2>c, <2>6 DEF CommitReverted, RequestHasRow
  <2>7. CASE CommitRejected(r)
    BY <2>c, <2>7 DEF CommitRejected, RequestHasRow
  <2>8. CASE OrderFailed(r)
    BY <2>8 DEF OrderFailed, Release
  <2>9. CASE Crash(r)
    BY <2>9 DEF Crash, Release
  <2> QED
    BY <1>5, <2>1, <2>2, <2>3, <2>4, <2>5, <2>6, <2>7, <2>8, <2>9 DEF RequestStep
<1>6. CASE BeginSweep
  BY <1>6 DEF BeginSweep
<1>7. CASE CommitSweep
  BY <1>7, SMTT(20) DEF CommitSweep, EndSweep, Swept
<1>8. CASE CrashSweep
  BY <1>8 DEF CrashSweep, EndSweep, Swept
<1>9. CASE Tick
  BY <1>9 DEF Tick
<1> QED
  BY <1>1, <1>2, <1>3, <1>4, <1>5, <1>6, <1>7, <1>8, <1>9 DEF Next

-----------------------------------------------------------------------------
(***************************************************************************)
(* Every step keeps the meaning of the locks and what it protects.         *)
(***************************************************************************)
LEMMA IInvStep == IInv /\ [Next]_vars => IInv'
<1> SUFFICES ASSUME IInv, [Next]_vars PROVE IInv'
  OBVIOUS
<1> USE SessionsAreDistinct
<1>t. TypeOK /\ TypeOK'
  BY TypeStep DEF IInv
<1> DEFINE Protected == /\ RequestHasRow /\ LockedByStep /\ LockedIsPending
                        /\ BookedExactlyOnce /\ OneUndecidedPerKey
<1>i. Protected
  BY DEF IInv
<1>1. CASE UNCHANGED vars
  BY <1>t, <1>i, <1>1 DEF TypeOK, Undecided, Holding, vars,
     RequestHasRow, LockedByStep, LockedIsPending, BookedExactlyOnce,
     OneUndecidedPerKey, IInv
<1>2. ASSUME NEW t \in Trades, QueueTrade(t) PROVE Protected'
  <2>1. RequestHasRow'
    BY <1>t, <1>i, <1>2 DEF TypeOK, RequestHasRow, QueueTrade
  <2>2. LockedByStep'
    BY <1>t, <1>i, <1>2 DEF TypeOK, LockedByStep, QueueTrade, Holding
  <2>3. LockedIsPending'
    BY <1>t, <1>i, <1>2 DEF TypeOK, LockedIsPending, QueueTrade
  <2>4. BookedExactlyOnce'
    BY <1>t, <1>i, <1>2 DEF TypeOK, BookedExactlyOnce, QueueTrade
  <2>5. OneUndecidedPerKey'
    BY <1>t, <1>i, <1>2 DEF TypeOK, OneUndecidedPerKey, QueueTrade, Undecided, HasPendingDuplicate
  <2> QED
    BY <2>1, <2>2, <2>3, <2>4, <2>5
<1>3. ASSUME NEW t \in Trades, SweepRow(t) PROVE Protected'
  <2>1. RequestHasRow'
    BY <1>t, <1>i, <1>3 DEF TypeOK, RequestHasRow, SweepRow
  <2>2. LockedByStep'
    BY <1>t, <1>i, <1>3 DEF TypeOK, LockedByStep, SweepRow, Holding
  <2>3. LockedIsPending'
    BY <1>t, <1>i, <1>3 DEF TypeOK, LockedIsPending, SweepRow, Stale
  <2>4. BookedExactlyOnce'
    BY <1>t, <1>i, <1>3 DEF TypeOK, BookedExactlyOnce, SweepRow
  <2>5. OneUndecidedPerKey'
    BY <1>t, <1>i, <1>3 DEF TypeOK, OneUndecidedPerKey, SweepRow, Undecided
  <2> QED
    BY <2>1, <2>2, <2>3, <2>4, <2>5
<1>4. ASSUME NEW s \in {"PENDING", "NONE"}, EndCycle(s) PROVE Protected'
  BY <1>t, <1>i, <1>4 DEF TypeOK, Undecided, Holding, EndCycle, Added,
     RequestHasRow, LockedByStep, LockedIsPending, BookedExactlyOnce,
     OneUndecidedPerKey
<1>5. ASSUME NEW r \in Requests, RequestStep(r) PROVE Protected'
  <2>1. ASSUME NEW t \in Trades, NEW a \in {"approving", "rejecting"}, Begin(r, t, a)
        PROVE Protected'
    <3>1. RequestHasRow'
      BY <1>t, <1>i, <2>1 DEF TypeOK, RequestHasRow, Begin
    <3>2. LockedByStep'
      BY <1>t, <1>i, <2>1 DEF TypeOK, LockedByStep, Begin, Holding
    <3>3. LockedIsPending'
      BY <1>t, <1>i, <2>1 DEF TypeOK, LockedIsPending, Begin
    <3>4. BookedExactlyOnce'
      BY <1>t, <1>i, <2>1 DEF TypeOK, BookedExactlyOnce, Begin
    <3>5. OneUndecidedPerKey'
      BY <1>t, <1>i, <2>1 DEF TypeOK, OneUndecidedPerKey, Begin, Undecided
    <3> QED
      BY <3>1, <3>2, <3>3, <3>4, <3>5
  <2>2. CASE Flush(r)
    <3>1. RequestHasRow'
      BY <1>t, <1>i, <2>2 DEF TypeOK, RequestHasRow, Flush
    <3>2. LockedByStep'
      BY <1>t, <1>i, <2>2 DEF TypeOK, LockedByStep, Flush, Holding
    <3>3. LockedIsPending'
      BY <1>t, <1>i, <2>2 DEF TypeOK, LockedIsPending, Flush, RequestHasRow
    <3>4. BookedExactlyOnce'
      BY <1>t, <1>i, <2>2 DEF TypeOK, BookedExactlyOnce, Flush, RequestHasRow
    <3>5. OneUndecidedPerKey'
      BY <1>t, <1>i, <2>2 DEF TypeOK, OneUndecidedPerKey, Flush, Undecided, RequestHasRow
    <3> QED
      BY <3>1, <3>2, <3>3, <3>4, <3>5
  <2>3. CASE PlaceOrder(r)
    BY <1>t, <1>i, <2>3 DEF TypeOK, Undecided, Holding, PlaceOrder,
       RequestHasRow, LockedByStep, LockedIsPending, BookedExactlyOnce,
       OneUndecidedPerKey
  <2>4. CASE OrderCanceled(r)
    BY <1>t, <1>i, <2>4 DEF TypeOK, Undecided, Holding, OrderCanceled,
       RequestHasRow, LockedByStep, LockedIsPending, BookedExactlyOnce,
       OneUndecidedPerKey
  <2>5. CASE CommitExecuted(r)
    <3>1. RequestHasRow'
      BY <1>t, <1>i, <2>5 DEF TypeOK, RequestHasRow, CommitExecuted, Release, CommitStatus
    <3>2. LockedByStep'
      BY <1>t, <1>i, <2>5 DEF TypeOK, LockedByStep, CommitExecuted, Release, CommitStatus, Holding, RequestHasRow
    <3>3. LockedIsPending'
      BY <1>t, <1>i, <2>5 DEF TypeOK, LockedIsPending, CommitExecuted, Release, CommitStatus, LockedByStep, Holding, RequestHasRow
    <3>4. BookedExactlyOnce'
      BY <1>t, <1>i, <2>5 DEF TypeOK, BookedExactlyOnce, CommitExecuted, Release, CommitStatus, LockedByStep, Holding, LockedIsPending, RequestHasRow
    <3>5. OneUndecidedPerKey'
      BY <1>t, <1>i, <2>5 DEF TypeOK, OneUndecidedPerKey, CommitExecuted, Release, CommitStatus, Undecided, LockedByStep, Holding, LockedIsPending, RequestHasRow
    <3> QED
      BY <3>1, <3>2, <3>3, <3>4, <3>5
  <2>6. CASE CommitReverted(r)
    <3>1. RequestHasRow'
      BY <1>t, <1>i, <2>6 DEF TypeOK, RequestHasRow, CommitReverted, Release, CommitStatus
    <3>2. LockedByStep'
      BY <1>t, <1>i, <2>6 DEF TypeOK, LockedByStep, CommitReverted, Release, CommitStatus, Holding, RequestHasRow
    <3>3. LockedIsPending'
      BY <1>t, <1>i, <2>6 DEF TypeOK, LockedIsPending, CommitReverted, Release, CommitStatus, LockedByStep, Holding, RequestHasRow
    <3>4. BookedExactlyOnce'
      BY <1>t, <1>i, <2>6 DEF TypeOK, BookedExactlyOnce, CommitReverted, Release, CommitStatus, LockedByStep, Holding, LockedIsPending, RequestHasRow
    <3>5. OneUndecidedPerKey'
      BY <1>t, <1>i, <2>6 DEF TypeOK, OneUndecidedPerKey, CommitReverted, Release, CommitStatus, Undecided, LockedByStep, Holding, LockedIsPending, RequestHasRow
    <3> QED
      BY <3>1, <3>2, <3>3, <3>4, <3>5
  <2>7. CASE CommitRejected(r)
    <3>1. RequestHasRow'
      BY <1>t, <1>i, <2>7 DEF TypeOK, RequestHasRow, CommitRejected, Release, CommitStatus
    <3>2. LockedByStep'
      BY <1>t, <1>i, <2>7 DEF TypeOK, LockedByStep, CommitRejected, Release, CommitStatus, Holding, RequestHasRow
    <3>3. LockedIsPending'
      BY <1>t, <1>i, <2>7 DEF TypeOK, LockedIsPending, CommitRejected, Release, CommitStatus, LockedByStep, Holding, RequestHasRow
    <3>4. BookedExactlyOnce'
      BY <1>t, <1>i, <2>7 DEF TypeOK, BookedExactlyOnce, CommitRejected, Release, CommitStatus, LockedByStep, Holding, LockedIsPending, RequestHasRow
    <3>5. OneUndecidedPerKey'
      BY <1>t, <1>i, <2>7 DEF TypeOK, OneUndecidedPerKey, CommitRejected, Release, CommitStatus, Undecided, LockedByStep, Holding, LockedIsPending, RequestHasRow
    <3> QED
      BY <3>1, <3>2, <3>3, <3>4, <3>5
  <2>8. CASE OrderFailed(r)
    BY <1>t, <1>i, <2>8 DEF TypeOK, Undecided, Holding, OrderFailed, Release,
       RequestHasRow, LockedByStep, LockedIsPending, BookedExactlyOnce,
       OneUndecidedPerKey
  <2>9. CASE Crash(r)
    BY <1>t, <1>i, <2>9 DEF TypeOK, Undecided, Holding, Crash, Release,
       RequestHasRow, LockedByStep, LockedIsPending, BookedExactlyOnce,
       OneUndecidedPerKey
  <2> QED
    BY <1>5, <2>1, <2>2, <2>3, <2>4, <2>5, <2>6, <2>7, <2>8, <2>9
       DEF RequestStep, BeginApprove, BeginReject
<1>6. CASE BeginSweep
  BY <1>t, <1>i, <1>6 DEF TypeOK, Undecided, Holding, BeginSweep,
     RequestHasRow, LockedByStep, LockedIsPending, BookedExactlyOnce,
     OneUndecidedPerKey, IInv
<1>7. CASE CommitSweep
  <2>1. RequestHasRow'
    BY <1>t, <1>i, <1>7 DEF TypeOK, RequestHasRow, CommitSweep, EndSweep, Swept
  <2>2. LockedByStep'
    BY <1>t, <1>i, <1>7 DEF TypeOK, LockedByStep, CommitSweep, EndSweep, Swept, Holding
  <2>3. LockedIsPending'
    BY <1>t, <1>i, <1>7 DEF TypeOK, LockedIsPending, CommitSweep, EndSweep, Swept
  <2>4. BookedExactlyOnce'
    BY <1>t, <1>i, <1>7 DEF TypeOK, BookedExactlyOnce, CommitSweep, EndSweep, Swept, LockedIsPending
  <2>5. OneUndecidedPerKey'
    BY <1>t, <1>i, <1>7 DEF TypeOK, OneUndecidedPerKey, CommitSweep, EndSweep, Swept, Undecided
  <2> QED
    BY <1>t, <2>1, <2>2, <2>3, <2>4, <2>5 DEF IInv
<1>8. CASE CrashSweep
  BY <1>t, <1>i, <1>8 DEF TypeOK, Undecided, Holding, CrashSweep, EndSweep, Swept,
     RequestHasRow, LockedByStep, LockedIsPending, BookedExactlyOnce,
     OneUndecidedPerKey, IInv
<1>9. CASE Tick
  BY <1>t, <1>i, <1>9 DEF TypeOK, Undecided, Holding, Tick,
     RequestHasRow, LockedByStep, LockedIsPending, BookedExactlyOnce,
     OneUndecidedPerKey, IInv
<1> QED
  BY <1>t, <1>1, <1>2, <1>3, <1>4, <1>5, <1>6, <1>7, <1>8, <1>9
     DEF Next, CommitCycle, RollBackCycle, IInv

LEMMA Invariance == Spec => []IInv
  BY InitIInv, IInvStep, PTL DEF Spec

-----------------------------------------------------------------------------
(***************************************************************************)
(* The variables always have their types: in particular APPROVED is never  *)
(* a committed status.                                                     *)
(***************************************************************************)
THEOREM TypeCorrect == Spec => []TypeOK
<1>1. IInv => TypeOK
  BY DEF IInv
<1> QED
  BY <1>1, Invariance, PTL

(***************************************************************************)
(* Two approvals of one trade never talk to Kalshi at the same time: both  *)
(* would hold the lock of its row.                                         *)
(***************************************************************************)
THEOREM InFlightIsExclusive == Spec => []OneOrderInFlight
<1>1. IInv => OneOrderInFlight
  <2> SUFFICES ASSUME IInv, NEW t \in Trades PROVE Cardinality(InFlight(t)) <= 1
    BY DEF OneOrderInFlight
  <2>1. \A r, p \in InFlight(t) : r = p
    BY DEF IInv, LockedByStep, InFlight, Holding
  <2>2. CASE InFlight(t) = {}
    BY <2>2, FS_EmptySet
  <2>3. CASE InFlight(t) # {}
    <3>1. PICK r : InFlight(t) = {r}
      BY <2>1, <2>3
    <3>2. Cardinality(InFlight(t)) = 1
      BY <3>1, FS_Singleton
    <3> QED
      BY <3>2
  <2> QED
    BY <2>2, <2>3
<1> QED
  BY <1>1, Invariance, PTL

(***************************************************************************)
(* EXECUTED and the Trade records agree, and a trade is booked at most     *)
(* once, unless a decision was overwritten.                                *)
(***************************************************************************)
THEOREM BookingIsExact == Spec => []BookedExactlyOnce
<1>1. IInv => BookedExactlyOnce
  BY DEF IInv
<1> QED
  BY <1>1, Invariance, PTL

(***************************************************************************)
(* No two rows of one bracket and side are PENDING together, unless a      *)
(* decision was overwritten.                                               *)
(***************************************************************************)
THEOREM PendingIsUnique == Spec => []OnePendingPerKey
<1>1. IInv => OnePendingPerKey
  BY DEF IInv, OneUndecidedPerKey, OnePendingPerKey, Undecided
<1> QED
  BY <1>1, Invariance, PTL

-----------------------------------------------------------------------------
(***************************************************************************)
(* Without a fault, an order that has no Trade record yet belongs to the   *)
(* one request that is about to commit it.                                 *)
(***************************************************************************)
Placed(t) == {r \in InFlight(t) : req[r].step = "placed"}

OrdersAccounted ==
  faults = 0 =>
    \A t \in Trades : orders[t] = booked[t] + IF Placed(t) = {} THEN 0 ELSE 1

LEMMA OrdersStep ==
  IInv /\ IInv' /\ OrdersAccounted /\ [Next]_vars => OrdersAccounted'
<1> SUFFICES ASSUME IInv, IInv', OrdersAccounted, [Next]_vars, faults' = 0
             PROVE  \A t \in Trades :
                      orders'[t] = booked'[t] + IF Placed(t)' = {} THEN 0 ELSE 1
  BY DEF OrdersAccounted
<1> USE SessionsAreDistinct
<1>t. TypeOK /\ TypeOK' /\ RequestHasRow /\ LockedByStep
  BY DEF IInv
<1> DEFINE Accounted == \A t \in Trades :
                          orders[t] = booked[t] + IF Placed(t) = {} THEN 0 ELSE 1
<1>f. faults = 0 /\ Accounted
  <2>1. faults' = faults \/ faults' = faults + 1
    BY DEF Next, RequestStep, Crash, CrashSweep, vars, QueueTrade, SweepRow,
       CommitCycle, RollBackCycle, EndCycle, BeginApprove, BeginReject, Begin,
       Flush, PlaceOrder, OrderCanceled, CommitExecuted, CommitReverted,
       CommitRejected, OrderFailed, BeginSweep, CommitSweep, Tick
  <2>2. faults \in Nat
    BY <1>t DEF TypeOK
  <2>3. faults = 0
    BY <2>1, <2>2
  <2> QED
    BY <2>3 DEF OrdersAccounted
<1>1. ASSUME UNCHANGED <<req, orders, booked>> PROVE Accounted'
  BY <1>f, <1>1 DEF Placed, InFlight
<1>2. ASSUME NEW r \in Requests, RequestStep(r) PROVE Accounted'
  <2>1. ASSUME UNCHANGED <<orders, booked>>,
               \A p \in Requests :
                  /\ p # r => req'[p] = req[p]
                  /\ req[r].step # "placed" /\ req'[r].step # "placed"
        PROVE  Accounted'
    BY <1>f, <2>1 DEF Placed, InFlight
  <2>2. ASSUME NEW t \in Trades, NEW a \in {"approving", "rejecting"}, Begin(r, t, a)
        PROVE  Accounted'
    BY <2>1, <2>2, <1>t DEF Begin, TypeOK
  <2>3. CASE Flush(r)
    BY <2>1, <2>3, <1>t DEF Flush, TypeOK
  <2>4. CASE PlaceOrder(r)
    <3> DEFINE t == req[r].trade
    <3>1. t \in Trades /\ Placed(t) = {}
      BY <1>t, <2>4 DEF PlaceOrder, Placed, InFlight, LockedByStep, Holding,
         RequestHasRow, TypeOK
    <3>2. Placed(t)' # {}
      BY <1>t, <2>4 DEF PlaceOrder, Placed, InFlight, TypeOK
    <3>3. ASSUME NEW u \in Trades, u # t PROVE Placed(u)' = Placed(u)
      BY <1>t, <2>4, <3>3 DEF PlaceOrder, Placed, InFlight, TypeOK
    <3> HIDE DEF t
    <3> QED
      BY <1>f, <1>t, <2>4, <3>1, <3>2, <3>3 DEF PlaceOrder, TypeOK, t
  <2>5. CASE OrderCanceled(r)
    BY <2>1, <2>5, <1>t DEF OrderCanceled, TypeOK
  <2>6. CASE CommitExecuted(r)
    <3> PICK t \in Trades : t = req[r].trade
      BY <1>t, <2>6 DEF CommitExecuted, RequestHasRow, TypeOK
    <3>1. Placed(t) = {r}
      BY <1>t, <2>6 DEF CommitExecuted, Placed, InFlight, LockedByStep, Holding,
         RequestHasRow, TypeOK
    <3>2. Placed(t)' = {}
      BY <1>t, <2>6, <3>1 DEF CommitExecuted, Release, Placed, InFlight, TypeOK
    <3>3. ASSUME NEW u \in Trades, u # t PROVE Placed(u)' = Placed(u)
      BY <1>t, <2>6, <3>3 DEF CommitExecuted, Release, Placed, InFlight, TypeOK
    <3>4. /\ orders' = orders /\ booked' = [booked EXCEPT ![t] = @ + 1]
          /\ booked \in [Trades -> Nat]
      BY <1>t, <2>6 DEF CommitExecuted, TypeOK
    <3>5. ASSUME NEW u \in Trades
          PROVE  orders'[u] = booked'[u] + IF Placed(u)' = {} THEN 0 ELSE 1
      <4>1. CASE u = t
        BY <1>f, <3>1, <3>2, <3>4, <4>1
      <4>2. CASE u # t
        BY <1>f, <3>3, <3>4, <4>2
      <4> QED
        BY <4>1, <4>2
    <3> QED
      BY <3>5
  <2>7. CASE CommitReverted(r)
    BY <2>1, <2>7, <1>t DEF CommitReverted, Release, TypeOK
  <2>8. CASE CommitRejected(r)
    BY <2>1, <2>8, <1>t DEF CommitRejected, Release, TypeOK
  <2>9. CASE OrderFailed(r)
    BY <2>1, <2>9, <1>t DEF OrderFailed, Release, TypeOK
  <2>10. CASE Crash(r)
    BY <1>f, <2>10 DEF Crash
  <2> QED
    BY <1>2, <2>2, <2>3, <2>4, <2>5, <2>6, <2>7, <2>8, <2>9, <2>10
       DEF RequestStep, BeginApprove, BeginReject
<1>3. CASE UNCHANGED vars
  BY <1>1, <1>3 DEF vars
<1>4. ASSUME NEW t \in Trades, QueueTrade(t) \/ SweepRow(t) PROVE Accounted'
  BY <1>1, <1>4 DEF QueueTrade, SweepRow
<1>5. CASE CommitCycle \/ RollBackCycle
  BY <1>1, <1>5 DEF CommitCycle, RollBackCycle, EndCycle
<1>6. CASE BeginSweep \/ CommitSweep \/ CrashSweep \/ Tick
  BY <1>1, <1>6 DEF BeginSweep, CommitSweep, CrashSweep, Tick
<1> QED
  BY <1>2, <1>3, <1>4, <1>5, <1>6 DEF Next

(***************************************************************************)
(* Without a crash or a lost answer every order on Kalshi has, or is about *)
(* to get, its Trade record.                                               *)
(***************************************************************************)
THEOREM OrdersGetBooked == Spec => []OrdersAreBooked
<1>1. Init => OrdersAccounted
  BY DEF Init, OrdersAccounted, Placed, InFlight
<1>2. IInv /\ OrdersAccounted => OrdersAreBooked
  <2> SUFFICES ASSUME IInv, OrdersAccounted, faults = 0, NEW t \in Trades
               PROVE  orders[t] = booked[t] + Cardinality(Placed(t))
    BY DEF OrdersAreBooked, Placed
  <2>1. CASE Placed(t) = {}
    BY <2>1, FS_EmptySet DEF OrdersAccounted
  <2>2. CASE Placed(t) # {}
    <3>1. PICK r : Placed(t) = {r}
      BY <2>2, SMTT(20) DEF IInv, LockedByStep, Placed, InFlight, Holding
    <3> QED
      BY <2>2, <3>1, FS_Singleton DEF OrdersAccounted
  <2> QED
    BY <2>1, <2>2
<1> QED
  BY <1>1, <1>2, OrdersStep, Invariance, PTL DEF Spec

-----------------------------------------------------------------------------
(***************************************************************************)
(* Every step of the queue is a step of the abstract lifecycle or leaves   *)
(* what it shows unchanged.                                                *)
(***************************************************************************)
LEMMA LifecycleStep == IInv /\ [Next]_vars => [Lifecycle!Next]_Lifecycle!vars
<1> SUFFICES ASSUME IInv, [Next]_vars PROVE [Lifecycle!Next]_Lifecycle!vars
  OBVIOUS
<1> USE SessionsAreDistinct
<1>t. TypeOK /\ RequestHasRow /\ LockedByStep /\ LockedIsPending
  BY DEF IInv
<1> DEFINE status == [t \in Trades |-> Visible(t)]
           open == [t \in Trades |-> {r \in Requests : req[r].trade = t}]
           Shown == [Lifecycle!Next]_Lifecycle!vars
<1>1. ASSUME status' = status, open' = open PROVE Shown
  BY <1>1 DEF Lifecycle!vars
<1>2. ASSUME UNCHANGED <<row, req>> PROVE Shown
  BY <1>1, <1>2 DEF Visible
<1>3. ASSUME NEW t \in Trades, QueueTrade(t) PROVE Shown
  <2>1. status' = status
    BY <1>t, <1>3 DEF QueueTrade, Visible, TypeOK
  <2> QED
    BY <1>1, <1>3, <2>1 DEF QueueTrade
<1>4. CASE CommitCycle
  <2>1. Added \in SUBSET Trades /\ \A t \in Added : status[t] = "NONE"
    BY DEF Added, Visible
  <2>2. status' = [t \in Trades |-> IF t \in Added THEN "PENDING" ELSE status[t]]
    BY <1>t, <1>4 DEF CommitCycle, EndCycle, Added, Visible, TypeOK
  <2>3. Lifecycle!Offer(Added)
    BY <1>4, <2>1, <2>2 DEF CommitCycle, EndCycle, Lifecycle!Offer
  <2> QED
    BY <2>1, <2>3 DEF Lifecycle!Next
<1>5. CASE RollBackCycle
  <2>1. status' = status
    BY <1>t, <1>5 DEF RollBackCycle, EndCycle, Added, Visible, TypeOK
  <2> QED
    BY <1>1, <1>5, <2>1 DEF RollBackCycle, EndCycle
<1>6. ASSUME NEW r \in Requests, RequestStep(r) PROVE Shown
  <2>1. ASSUME NEW t \in Trades, NEW a \in {"approving", "rejecting"}, Begin(r, t, a)
        PROVE  Shown
    <3>1. status[t] = "PENDING"
      BY <2>1 DEF Begin, Visible
    <3>2. open' = [open EXCEPT ![t] = @ \union {r}]
      <4>1. ASSUME NEW u \in Trades, NEW p \in Requests
            PROVE  req'[p].trade = u <=> req[p].trade = u \/ (u = t /\ p = r)
        BY <1>t, <2>1 DEF Begin, RequestHasRow, TypeOK
      <4>2. ASSUME NEW u \in Trades
            PROVE  open'[u] = IF u = t THEN open[u] \union {r} ELSE open[u]
        BY <4>1, <4>2
      <4> QED
        BY <4>2, Zenon
    <3>3. Lifecycle!Open(t, r)
      BY <2>1, <3>1, <3>2 DEF Begin, Lifecycle!Open, Visible
    <3> QED
      BY <3>3 DEF Lifecycle!Next
  <2>2. ASSUME req'[r].trade = req[r].trade, \A p \in Requests \ {r} : req'[p] = req[p],
               UNCHANGED row
        PROVE  Shown
    <3>1. open' = open
      BY <2>2
    <3> QED
      BY <1>1, <2>2, <3>1 DEF Visible
  <2>3. ASSUME NEW s \in {"EXECUTED", "REJECTED", "PENDING"}, req[r].step # "idle",
               Release(r), UNCHANGED row \/ CommitStatus(r, s)
        PROVE  Shown
    <3> PICK t \in Trades : t = req[r].trade
      BY <1>t, <2>3 DEF RequestHasRow, TypeOK
    <3>1. r \in open[t]
      OBVIOUS
    <3>2. open' = [open EXCEPT ![t] = @ \ {r}]
      <4>1. None \notin Trades
        BY SessionsAreDistinct
      <4>2. ASSUME NEW u \in Trades, NEW p \in Requests
            PROVE  req'[p].trade = u <=> req[p].trade = u /\ ~(u = t /\ p = r)
        BY <1>t, <2>3, <4>1 DEF Release, TypeOK
      <4>3. ASSUME NEW u \in Trades
            PROVE  open'[u] = IF u = t THEN open[u] \ {r} ELSE open[u]
        BY <4>2
      <4> QED
        BY <4>3, Zenon
    <3>3. status' = status \/ status' = [status EXCEPT ![t] = s]
      <4>1. CASE UNCHANGED row
        BY <4>1 DEF Visible
      <4>2. CASE CommitStatus(r, s)
        <5>1. ASSUME NEW u \in Trades
              PROVE  status'[u] = IF u = t THEN s ELSE status[u]
          BY <1>t, <4>2, <5>1 DEF CommitStatus, Visible, TypeOK
        <5> QED
          BY <5>1, Zenon
      <4> QED
        BY <2>3, <4>1, <4>2
    <3>4. Lifecycle!Close(t, r)
      <4>1. \E v \in {status[t], "EXECUTED", "REJECTED", "PENDING"} :
              status' = [status EXCEPT ![t] = v]
        <5>1. status = [status EXCEPT ![t] = status[t]]
          OBVIOUS
        <5> QED
          BY <3>3, <5>1
      <4> QED
        BY <3>1, <3>2, <4>1 DEF Lifecycle!Close
    <3> QED
      BY <3>1, <3>4 DEF Lifecycle!Next
  <2>4. CASE Flush(r) \/ PlaceOrder(r) \/ OrderCanceled(r)
    BY <1>t, <2>2, <2>4 DEF Flush, PlaceOrder, OrderCanceled, TypeOK
  <2>5. CASE CommitExecuted(r) \/ CommitReverted(r) \/ CommitRejected(r)
    BY <2>3, <2>5 DEF CommitExecuted, CommitReverted, CommitRejected
  <2>6. CASE OrderFailed(r) \/ Crash(r)
    BY <2>3, <2>6 DEF OrderFailed, Crash
  <2> QED
    BY <1>6, <2>1, <2>4, <2>5, <2>6 DEF RequestStep, BeginApprove, BeginReject
<1>7. CASE CommitSweep
  <2>1. Swept \in SUBSET Trades /\ \A t \in Swept : status[t] = "PENDING"
    BY <1>t DEF Swept, LockedIsPending, Visible
  <2>2. status' = [t \in Trades |-> IF t \in Swept THEN "EXPIRED" ELSE status[t]]
    BY <1>t, <1>7 DEF CommitSweep, Visible, TypeOK
  <2>3. Lifecycle!Expire(Swept)
    BY <1>7, <2>1, <2>2 DEF CommitSweep, Lifecycle!Expire
  <2> QED
    BY <2>1, <2>3 DEF Lifecycle!Next
<1>8. ASSUME NEW t \in Trades, SweepRow(t) PROVE Shown
  BY <1>2, <1>8 DEF SweepRow
<1>9. CASE BeginSweep \/ CrashSweep \/ Tick
  BY <1>2, <1>9 DEF BeginSweep, CrashSweep, Tick
<1> QED
  BY <1>2, <1>3, <1>4, <1>5, <1>6, <1>7, <1>8, <1>9 DEF Next, vars

(***************************************************************************)
(* The queue implements the lifecycle: outside of the requests opened on a *)
(* PENDING row and of the sweep, nothing ever changes a decision.          *)
(***************************************************************************)
THEOREM QueueRefinesLifecycle == Spec => RefinesLifecycle
<1>1. Init => Lifecycle!Init
  BY SessionsAreDistinct DEF Init, Lifecycle!Init, Visible
<1> QED
  BY <1>1, LifecycleStep, Invariance, PTL DEF Spec, RefinesLifecycle, Lifecycle!Spec
=============================================================================
