-------------------------- MODULE OrderLedgerProofs --------------------------
(***************************************************************************)
(* Theorems about OrderLedger, for any number of brackets, orders, lots,   *)
(* faults, and any limits.                                                 *)
(*                                                                         *)
(* The inductive invariant relates what a session remembers of Kalshi to   *)
(* Kalshi itself: fills only grow, executed and canceled orders never      *)
(* change, so a listing is never ahead (SnapIsBehind), and whatever a      *)
(* session has written from one (DraftIsSound) stays true until it is      *)
(* committed, however late that is and whatever happens in between.        *)
(***************************************************************************)
EXTENDS OrderLedger, FiniteSetTheorems, TLAPS

OrderIsSane ==
  \A o \in Orders :
    /\ exch[o].state = "none" => exch[o].filled = 0
    /\ exch[o].state = "resting" => exch[o].filled < exch[o].size
    /\ o \in partial => exch[o].state # "none"

SnapIsBehind ==
  \A s \in Sessions : \A o \in DOMAIN snap[s] :
    /\ snap[s][o].filled <= exch[o].filled
    /\ snap[s][o].state = "canceled" => exch[o].state = "canceled"
    /\ snap[s][o].state = "executed" => exch[o] = snap[s][o]
    /\ step[s] = "adopt" => snap[s][o].state = "executed"

\* What a booked row may say of its order.
Sound(r, order, wasPartial) ==
  r.status \in {"OPEN", "SETTLED"} =>
    /\ r.qty <= order.filled
    /\ wasPartial \/ (order.state = "executed" /\ r.qty = order.filled)

BookedSoundly(r, o) == Sound(r, exch[o], o \in partial)

RowIsSound == \A k \in Trades : BookedSoundly(db[k], OrderOf(k))

DraftIsSound ==
  \A s \in Sessions, k \in Trades :
    /\ BookedSoundly(draft[s][k], OrderOf(k))
    /\ draft[s][k].status = "NONE" =>
         exch[OrderOf(k)].state = "canceled" \/ (s = "cycle" /\ Unlisted(k))

TodoIsResolved == todo # {} => step["cycle"] = "resolve"

IInv ==
  /\ TypeOK
  /\ OrderIsSane
  /\ TodoIsResolved
  /\ SnapIsBehind
  /\ RowIsSound
  /\ DraftIsSound

-----------------------------------------------------------------------------
(***************************************************************************)
(* What Kalshi does to an order between two states: nothing recorded of it *)
(* can become wrong.                                                       *)
(***************************************************************************)
OrderAdvances ==
  \A o \in Orders :
    /\ exch[o].filled <= exch'[o].filled
    /\ exch[o].state \in {"executed", "canceled"} => exch'[o] = exch[o]
    /\ exch[o].state # "none" => exch'[o].state # "none"
    /\ o \in partial => o \in partial'
    /\ o \in partial' /\ o \notin partial => exch[o].state = "none"

LEMMA ListingType ==
  ASSUME NEW L \in SUBSET Orders, NEW f, f \in [L -> Order]
  PROVE  f \in Listings
BY DEF Listings

LEMMA ListingDomain ==
  ASSUME NEW f \in Listings
  PROVE  DOMAIN f \in SUBSET Orders /\ f \in [DOMAIN f -> Order]
BY DEF Listings

LEMMA NoListingType == NoListing \in Listings /\ DOMAIN NoListing = {}
BY DEF NoListing, Listings

LEMMA InitIInv == Init => IInv
<1> SUFFICES ASSUME Init PROVE IInv
  OBVIOUS
<1> USE LimitsAreNat, NoListingType DEF Init
<1>1. TypeOK
  <2>1. PICK b \in Brackets :
          exch = [o \in Orders |->
                    [state |-> "none", size |-> 0, filled |-> 0, bracket |-> b]]
    OBVIOUS
  <2>2. exch \in [Orders -> Order]
    BY <2>1 DEF Order
  <2>3. db \in [Trades -> Row] /\ draft \in [Sessions -> [Trades -> Row \union {Keep}]]
    BY DEF Row, Absent, NoChange
  <2>4. snap \in [Sessions -> Listings]
    BY Zenon
  <2> QED
    BY <2>2, <2>3, <2>4 DEF TypeOK, Steps
<1>2. OrderIsSane
  BY DEF OrderIsSane
<1>3. SnapIsBehind /\ TodoIsResolved
  BY DEF SnapIsBehind, TodoIsResolved
<1>4. RowIsSound
  BY DEF RowIsSound, BookedSoundly, Sound, Absent
<1>5. DraftIsSound
  BY DEF DraftIsSound, BookedSoundly, Sound, NoChange, Keep
<1> QED
  BY <1>1, <1>2, <1>3, <1>4, <1>5 DEF IInv

(***************************************************************************)
(* The orders on Kalshi keep their type, stay sane and only advance.       *)
(***************************************************************************)
LEMMA ExchangeStep ==
  IInv /\ [Next]_vars =>
    /\ exch' \in [Orders -> Order] /\ partial' \subseteq Orders
    /\ OrderIsSane'
    /\ OrderAdvances
<1> SUFFICES ASSUME IInv, [Next]_vars
             PROVE  /\ exch' \in [Orders -> Order] /\ partial' \subseteq Orders
                    /\ OrderIsSane'
                    /\ OrderAdvances
  OBVIOUS
<1> USE LimitsAreNat
<1> DEFINE Goal == /\ exch' \in [Orders -> Order] /\ partial' \subseteq Orders
                   /\ OrderIsSane'
                   /\ OrderAdvances
<1>t. exch \in [Orders -> Order] /\ partial \subseteq Orders /\ OrderIsSane
  BY DEF IInv, TypeOK
<1>1. ASSUME UNCHANGED <<exch, partial>> PROVE Goal
  BY <1>t, <1>1 DEF OrderIsSane, OrderAdvances, Order
<1>2. ASSUME NEW o \in Orders, NEW b \in Brackets, NEW q \in 1..Lots, NEW f \in 0..q,
             exch[o].state = "none", exch' = [exch EXCEPT ![o] = Placed(q, f, b)],
             partial' \in {partial, partial \union {o}}
      PROVE  Goal
  <2>1. Placed(q, f, b) \in Order
    BY DEF Placed, Order
  <2>2. Placed(q, f, b).state # "none"
        /\ (Placed(q, f, b).state = "resting" => f < q)
        /\ Placed(q, f, b).filled = f /\ Placed(q, f, b).size = q
    BY DEF Placed
  <2> QED
    BY <1>t, <1>2, <2>1, <2>2 DEF OrderIsSane, OrderAdvances, Order
<1>3. ASSUME NEW o \in Orders, exch[o].state = "resting", partial' = partial,
             NEW d \in Order, exch' = [exch EXCEPT ![o] = d],
             d.state # "none", exch[o].filled <= d.filled,
             d.state = "resting" => d.filled < d.size
      PROVE  Goal
  BY <1>t, <1>3 DEF OrderIsSane, OrderAdvances, Order
<1> DEFINE Canceled(o) == [exch[o] EXCEPT !.state = "canceled"]
<1>c. ASSUME NEW o \in Orders
      PROVE  /\ Canceled(o) \in Order
             /\ Canceled(o).state = "canceled" /\ exch[o].filled <= Canceled(o).filled
  BY <1>t DEF Order
<1>4. ASSUME NEW k \in Trades, CancelAged(k) PROVE Goal
  <2>1. OrderOf(k) \in Orders
    BY DEF OrderOf, Trades
  <2>2. exch' = [exch EXCEPT ![OrderOf(k)] = Canceled(OrderOf(k))]
    BY <1>t, <1>4, <2>1 DEF CancelAged, Order
  <2> QED
    BY <1>3, <1>4, <1>c, <2>1, <2>2 DEF CancelAged, Resolve
<1>5. ASSUME NEW o \in Orders, Fill(o) PROVE Goal
  <2> DEFINE d == Placed(exch[o].size, exch[o].filled + 1, exch[o].bracket)
  <2>1. exch[o].state = "resting" /\ exch[o].filled < exch[o].size
    BY <1>5, <1>t DEF Fill, Kalshi, OrderIsSane
  <2>2. d \in Order /\ d.state # "none" /\ exch[o].filled <= d.filled
        /\ (d.state = "resting" => d.filled < d.size)
    BY <1>t, <2>1 DEF Placed, Order
  <2> QED
    BY <1>3, <1>5, <2>1, <2>2 DEF Fill, Kalshi
<1>6. ASSUME NEW o \in Orders, CancelResting(o) PROVE Goal
  BY <1>3, <1>6, <1>c DEF CancelResting, Kalshi
<1>7. ASSUME NEW b \in Brackets, CloseMarket(b) PROVE Goal
  <2>1. ASSUME NEW o \in Orders
        PROVE  /\ exch'[o] \in Order
               /\ exch'[o] = exch[o] \/
                    (/\ exch[o].state = "resting" /\ exch'[o].state = "canceled"
                     /\ exch'[o].filled = exch[o].filled)
    BY <1>t, <1>7, <2>1 DEF CloseMarket, Order
  <2>2. exch' \in [Orders -> Order]
    BY <1>7, <2>1 DEF CloseMarket
  <2> QED
    BY <1>7, <1>t, <2>1, <2>2 DEF CloseMarket, OrderIsSane, OrderAdvances, Order
<1>8. CASE NewOrder
  BY <1>2, <1>8 DEF NewOrder, AutoTrade, AutoTradeUnanswered, ApproveTrade,
     ExecuteTrade, NextOrder
<1>9. CASE CycleStep
  BY <1>1, <1>4, <1>9 DEF CycleStep, StartCycle, Start, ListExecuted, Adopt,
     CommitAdopted, ListOrders, SkipResting, RestingMissing, RestingFilled,
     RestingGone, RestingYoung, CancelAgedFails, Resolve, CommitResolved, EndCycle
<1>10. CASE \/ StartSync \/ SyncStep \/ StartApprove \/ CommitApproved \/ SettleTrades
            \/ \E s \in Sessions : Crash(s) \/ ListExecutedFails(s)
            \/ UNCHANGED vars
  BY <1>1, <1>10 DEF StartSync, SyncStep, ListExecuted, Adopt, CommitAdopted,
     StartApprove, Start, CommitApproved, SettleTrades, Crash, ListExecutedFails, vars
<1> QED
  BY <1>5, <1>6, <1>7, <1>8, <1>9, <1>10 DEF Next

-----------------------------------------------------------------------------
(* Small facts about rows, drafts and views.                               *)

LEMMA RowTypes ==
  /\ Absent \in Row
  /\ \A n \in 0..Lots : [status |-> "OPEN", qty |-> n] \in Row
  /\ \A q \in 1..Lots : \A f \in 0..q : Recorded(q, f) \in Row
  /\ \A r \in Row : r # Keep /\ [r EXCEPT !.status = "SETTLED"] \in Row
BY LimitsAreNat DEF Absent, Row, Recorded, Keep

LEMMA ViewType ==
  ASSUME TypeOK, NEW s \in Sessions, NEW k \in Trades
  PROVE  View(s, k) \in Row
BY DEF TypeOK, View

LEMMA DraftType ==
  ASSUME TypeOK, NEW s \in Sessions, NEW k \in Trades, NEW r \in Row \union {Keep}
  PROVE  [draft EXCEPT ![s][k] = r] \in [Sessions -> [Trades -> Row \union {Keep}]]
<1>1. [draft[s] EXCEPT ![k] = r] \in [Trades -> Row \union {Keep}]
  BY DEF TypeOK
<1> QED
  BY <1>1 DEF TypeOK

LEMMA NoChangeType == NoChange \in [Trades -> Row \union {Keep}]
BY DEF NoChange

LEMMA CommitType ==
  ASSUME TypeOK, NEW s \in Sessions, Commit(s)
  PROVE  /\ db' \in [Trades -> Row]
         /\ draft' \in [Sessions -> [Trades -> Row \union {Keep}]]
BY ViewType, NoChangeType DEF Commit, TypeOK

(***************************************************************************)
(* Every step keeps the types of the variables.                            *)
(***************************************************************************)
LEMMA TypeStep == IInv /\ [Next]_vars => TypeOK'
<1> SUFFICES ASSUME IInv, [Next]_vars PROVE TypeOK'
  OBVIOUS
<1> USE LimitsAreNat
<1>t. TypeOK /\ exch' \in [Orders -> Order] /\ partial' \subseteq Orders
  BY ExchangeStep DEF IInv
<1>s. "cycle" \in Sessions /\ "api" \in Sessions
  BY DEF Sessions
<1>1. CASE UNCHANGED vars
  BY <1>t, <1>1 DEF vars, TypeOK
<1>2. ASSUME NEW s \in Sessions, NEW first \in {"list", "place"}, Start(s, first)
      PROVE  TypeOK'
  BY <1>t, <1>2 DEF Start, Goto, TypeOK, Steps
<1>3. ASSUME NEW s \in Sessions, Crash(s) PROVE TypeOK'
  BY <1>t, <1>3, NoChangeType, NoListingType DEF Crash, Fault, Goto, TypeOK, Steps
<1>a. ASSUME NEW s \in Sessions, NEW L \in SUBSET Orders, Answered(s, L)
      PROVE  snap' \in [Sessions -> Listings] /\ faults' \in Nat
  <2>1. PICK listed \in SUBSET L : snap' = [snap EXCEPT ![s] = [o \in listed |-> exch[o]]]
    BY <1>a DEF Answered
  <2>2. [o \in listed |-> exch[o]] \in Listings
    BY <1>t, ListingType DEF TypeOK
  <2> QED
    BY <1>t, <1>a, <2>1, <2>2 DEF Answered, Fault, TypeOK
<1>4. ASSUME NEW s \in Sessions, ListExecuted(s) PROVE TypeOK'
  <2> DEFINE L == {o \in Orders : exch[o].state = "executed"}
  <2>1. L \in SUBSET Orders
    OBVIOUS
  <2> HIDE DEF L
  <2>2. Answered(s, L)
    BY <1>4 DEF ListExecuted, L
  <2> QED
    BY <1>t, <1>4, <1>a, <2>1, <2>2 DEF ListExecuted, Goto, TypeOK, Steps
<1>5. ASSUME NEW s \in Sessions, ListExecutedFails(s) PROVE TypeOK'
  BY <1>t, <1>5 DEF ListExecutedFails, Fault, AfterSync, Goto, TypeOK, Steps
<1>6. ASSUME NEW s \in Sessions, Adopt(s) PROVE TypeOK'
  <2>1. ASSUME NEW o \in Untracked(s)
        PROVE  [status |-> "OPEN", qty |-> snap[s][o].filled] \in Row
    <3>1. snap[s][o] \in Order
      BY <1>t, <2>1, ListingDomain DEF Untracked, TypeOK
    <3> QED
      BY <3>1, RowTypes DEF Order
  <2>2. draft' \in [Sessions -> [Trades -> Row \union {Keep}]]
    BY <1>t, <1>6, <2>1 DEF Adopt, TypeOK
  <2> QED
    BY <1>t, <1>6, <2>2, NoListingType DEF Adopt, Goto, TypeOK, Steps
<1>7. ASSUME NEW s \in Sessions, CommitAdopted(s) PROVE TypeOK'
  BY <1>t, <1>7, CommitType DEF CommitAdopted, AfterSync, Goto, TypeOK, Steps
<1>8. CASE ListOrders
  <2> DEFINE L == {OrderOf(k) : k \in RestingTrades}
  <2>1. L \in SUBSET Orders
    BY DEF RestingTrades, Trades, OrderOf
  <2> HIDE DEF L
  <2>2. Answered("cycle", L)
    BY <1>8 DEF ListOrders, L
  <2> QED
    BY <1>t, <1>8, <1>a, <1>s, <2>1, <2>2 DEF ListOrders, Goto, TypeOK, Steps, RestingTrades
<1>9. CASE SkipResting
  <2>1. faults' \in Nat
    BY <1>t, <1>9 DEF SkipResting, Fault, TypeOK
  <2>2. step' \in [Sessions -> Steps]
    BY <1>t, <1>9 DEF SkipResting, Goto, TypeOK, Steps
  <2> QED
    BY <1>t, <1>9, <2>1, <2>2 DEF SkipResting, TypeOK
<1>10. ASSUME NEW k \in Trades, NEW r \in Row \union {Keep}, Resolve(k, r),
              faults' \in Nat
       PROVE  TypeOK'
  BY <1>t, <1>s, <1>10, DraftType DEF Resolve, TypeOK
<1>11. ASSUME NEW k \in Trades,
              \/ RestingMissing(k) \/ RestingFilled(k) \/ RestingGone(k)
              \/ RestingYoung(k) \/ CancelAged(k) \/ CancelAgedFails(k)
       PROVE  TypeOK'
  <2>1. CASE RestingFilled(k)
    <3> DEFINE d == snap["cycle"][OrderOf(k)]
    <3>1. d \in Order
      BY <1>t, <1>s, <2>1, ListingDomain DEF RestingFilled, ListedAs, TypeOK
    <3>2. [status |-> "OPEN", qty |-> d.filled] \in Row
      BY <3>1, RowTypes DEF Order
    <3>3. faults' \in Nat
      BY <1>t, <2>1 DEF RestingFilled, TypeOK
    <3> QED
      BY <1>10, <2>1, <3>2, <3>3 DEF RestingFilled
  <2>2. faults' \in Nat
    BY <1>t, <1>11 DEF RestingMissing, RestingFilled, RestingGone, RestingYoung,
       CancelAged, CancelAgedFails, Fault, TypeOK
  <2>3. \E r \in {Absent, Keep} : Resolve(k, r) \/ RestingFilled(k)
    BY <1>11 DEF RestingMissing, RestingGone, RestingYoung, CancelAged, CancelAgedFails
  <2> QED
    BY <1>10, <2>1, <2>2, <2>3, RowTypes
<1>12. CASE CommitResolved
  BY <1>t, <1>12, <1>s, CommitType, NoListingType
     DEF CommitResolved, Goto, TypeOK, Steps
<1>13. CASE EndCycle
  BY <1>t, <1>13, <1>s, CommitType DEF EndCycle, Goto, TypeOK, Steps
<1>14. CASE NewOrder
  <2> PICK o \in Orders, b \in Brackets, q \in 1..Lots : \E f \in 0..q :
         AutoTrade(o, b, q, f) \/ AutoTradeUnanswered(o, b, q, f)
         \/ ApproveTrade(o, b, q, f)
    BY <1>14 DEF NewOrder
  <2> PICK f \in 0..q :
         AutoTrade(o, b, q, f) \/ AutoTradeUnanswered(o, b, q, f)
         \/ ApproveTrade(o, b, q, f)
    OBVIOUS
  <2>1. ASSUME NEW s \in Sessions
        PROVE  <<o, s>> \in Trades /\ Recorded(q, f) \in Row \union {Keep}
    BY RowTypes DEF Trades
  <2>2. CASE AutoTrade(o, b, q, f)
    BY <1>t, <1>s, <2>1, <2>2, DraftType DEF AutoTrade, Signal, ExecuteTrade, TypeOK
  <2>3. CASE AutoTradeUnanswered(o, b, q, f)
    BY <1>t, <2>3 DEF AutoTradeUnanswered, Signal, Fault, TypeOK
  <2>4. CASE ApproveTrade(o, b, q, f)
    BY <1>t, <1>s, <2>1, <2>4, DraftType
       DEF ApproveTrade, ExecuteTrade, Goto, TypeOK, Steps
  <2> QED
    BY <2>2, <2>3, <2>4
<1>15. CASE CommitApproved
  BY <1>t, <1>15, <1>s, CommitType DEF CommitApproved, Goto, TypeOK, Steps
<1>16. CASE SettleTrades
  <2>1. db' \in [Trades -> Row]
    BY <1>t, <1>16, RowTypes DEF SettleTrades, TypeOK
  <2> QED
    BY <1>t, <1>16, <2>1 DEF SettleTrades, TypeOK
<1>17. ASSUME NEW o \in Orders, CancelResting(o) \/ Fill(o) PROVE TypeOK'
  BY <1>t, <1>17 DEF CancelResting, Fill, Kalshi, TypeOK
<1>18. ASSUME NEW b \in Brackets, CloseMarket(b) PROVE TypeOK'
  BY <1>t, <1>18 DEF CloseMarket, TypeOK
<1> QED
  BY <1>s, <1>1, <1>2, <1>3, <1>4, <1>5, <1>6, <1>7, <1>8, <1>9, <1>11, <1>12, <1>13,
     <1>14, <1>15, <1>16, <1>17, <1>18
     DEF Next, CycleStep, SyncStep, StartCycle, StartSync, StartApprove

-----------------------------------------------------------------------------
(***************************************************************************)
(* Every step keeps the listings behind Kalshi.                            *)
(***************************************************************************)
LEMMA SnapStep == IInv /\ [Next]_vars => SnapIsBehind' /\ TodoIsResolved'
<1> SUFFICES ASSUME IInv, [Next]_vars PROVE SnapIsBehind' /\ TodoIsResolved'
  OBVIOUS
<1> USE LimitsAreNat
<1> DEFINE Goal == SnapIsBehind' /\ TodoIsResolved'
           Behind(s) == \A o \in DOMAIN snap[s] :
             /\ snap[s][o].filled <= exch[o].filled
             /\ snap[s][o].state = "canceled" => exch[o].state = "canceled"
             /\ snap[s][o].state = "executed" => exch[o] = snap[s][o]
             /\ step[s] = "adopt" => snap[s][o].state = "executed"
<1>t. /\ TypeOK /\ TypeOK' /\ OrderAdvances /\ SnapIsBehind /\ TodoIsResolved
      /\ "cycle" \in Sessions
  BY TypeStep, ExchangeStep DEF IInv, Sessions
<1>d. ASSUME NEW s \in Sessions
      PROVE  /\ DOMAIN snap[s] \in SUBSET Orders
             /\ snap[s] \in [DOMAIN snap[s] -> Order]
  BY <1>t, ListingDomain DEF TypeOK
<1>b. ASSUME NEW s \in Sessions, snap'[s] = snap[s],
             step'[s] = "adopt" => step[s] = "adopt"
      PROVE  Behind(s)'
  <2> SUFFICES ASSUME NEW o \in DOMAIN snap[s]
               PROVE  /\ snap[s][o].filled <= exch'[o].filled
                      /\ snap[s][o].state = "canceled" => exch'[o].state = "canceled"
                      /\ snap[s][o].state = "executed" => exch'[o] = snap[s][o]
                      /\ step'[s] = "adopt" => snap[s][o].state = "executed"
    BY <1>b
  <2>1. o \in Orders /\ snap[s][o] \in Order /\ exch[o] \in Order /\ exch'[o] \in Order
    BY <1>t, <1>d DEF TypeOK
  <2> QED
    BY <1>t, <1>b, <2>1 DEF OrderAdvances, SnapIsBehind, Order
<1>e. ASSUME NEW s \in Sessions, snap'[s] = NoListing PROVE Behind(s)'
  BY <1>e, NoListingType
<1>1. ASSUME snap' = snap, todo' = todo,
             \A s \in Sessions : step'[s] = "adopt" => step[s] = "adopt",
             todo = {} \/ step'["cycle"] = step["cycle"]
      PROVE  Goal
  BY <1>t, <1>1, <1>b DEF SnapIsBehind, TodoIsResolved
<1>2. ASSUME NEW s \in Sessions, Start(s, "list") \/ Start(s, "place") PROVE Goal
  BY <1>t, <1>1, <1>2 DEF Start, Goto, TypeOK, TodoIsResolved
<1>3. ASSUME NEW s \in Sessions, Crash(s) PROVE Goal
  BY <1>t, <1>3, <1>b, <1>e DEF Crash, Goto, TypeOK, SnapIsBehind, TodoIsResolved
<1>4. ASSUME NEW s \in Sessions, ListExecuted(s) PROVE Goal
  <2>1. Behind(s)'
    BY <1>t, <1>4 DEF ListExecuted, Answered, Goto, TypeOK, Order
  <2>2. ASSUME NEW r \in Sessions, r # s PROVE Behind(r)'
    BY <1>t, <1>4, <1>b, <2>2 DEF ListExecuted, Answered, Goto, TypeOK
  <2>3. SnapIsBehind'
    BY <2>1, <2>2 DEF SnapIsBehind
  <2>4. TodoIsResolved'
    BY <1>t, <1>4 DEF ListExecuted, Goto, TypeOK, TodoIsResolved
  <2> QED
    BY <2>3, <2>4
<1>5. ASSUME NEW s \in Sessions, ListExecutedFails(s) PROVE Goal
  BY <1>t, <1>1, <1>5 DEF ListExecutedFails, AfterSync, Goto, TypeOK, TodoIsResolved
<1>6. ASSUME NEW s \in Sessions, Adopt(s) PROVE Goal
  BY <1>t, <1>6, <1>b, <1>e DEF Adopt, Goto, TypeOK, SnapIsBehind, TodoIsResolved
<1>7. ASSUME NEW s \in Sessions, CommitAdopted(s) PROVE Goal
  BY <1>t, <1>1, <1>7 DEF CommitAdopted, AfterSync, Goto, TypeOK, TodoIsResolved
<1>8. CASE ListOrders
  <2>1. \A k \in RestingTrades : OrderOf(k) \in Orders
    BY DEF RestingTrades, Trades, OrderOf
  <2>2. Behind("cycle")'
    BY <1>t, <1>8, <2>1 DEF ListOrders, Answered, Goto, TypeOK, Order
  <2>3. ASSUME NEW r \in Sessions, r # "cycle" PROVE Behind(r)'
    BY <1>t, <1>8, <1>b, <2>3 DEF ListOrders, Answered, Goto, TypeOK
  <2>4. SnapIsBehind'
    BY <2>2, <2>3 DEF SnapIsBehind
  <2>5. TodoIsResolved'
    BY <1>t, <1>8 DEF ListOrders, Goto, TypeOK, TodoIsResolved
  <2> QED
    BY <2>4, <2>5
<1>9. CASE SkipResting
  BY <1>t, <1>1, <1>9 DEF SkipResting, Goto, TypeOK, TodoIsResolved
<1>10. ASSUME NEW k \in Trades, NEW r, Resolve(k, r) PROVE Goal
  BY <1>t, <1>10, <1>b DEF Resolve, SnapIsBehind, TodoIsResolved
<1>11. CASE CommitResolved
  BY <1>t, <1>11, <1>b, <1>e DEF CommitResolved, Goto, TypeOK, SnapIsBehind, TodoIsResolved
<1>12. CASE EndCycle \/ CommitApproved
  BY <1>t, <1>1, <1>12 DEF EndCycle, CommitApproved, Goto, TypeOK, TodoIsResolved
<1>13. CASE NewOrder
  BY <1>t, <1>1, <1>13 DEF NewOrder, AutoTrade, AutoTradeUnanswered, ApproveTrade,
     Signal, ExecuteTrade, Goto, TypeOK, TodoIsResolved, Sessions
<1>14. ASSUME UNCHANGED <<snap, todo, step>> PROVE Goal
  BY <1>1, <1>14
<1> QED
  BY <1>t, <1>2, <1>3, <1>4, <1>5, <1>6, <1>7, <1>8, <1>9, <1>10, <1>11, <1>12, <1>13,
     <1>14 DEF Next, CycleStep, SyncStep, StartCycle, StartSync, StartApprove,
     RestingMissing, RestingFilled, RestingGone, RestingYoung, CancelAged,
     CancelAgedFails, SettleTrades, CancelResting, Fill, Kalshi, CloseMarket, vars, Sessions

-----------------------------------------------------------------------------
(***************************************************************************)
(* A sound row stays sound while Kalshi advances.                          *)
(***************************************************************************)
SoundNext(r, o) == Sound(r, exch'[o], o \in partial')

LEMMA SoundStays ==
  ASSUME IInv, OrderAdvances, exch' \in [Orders -> Order],
         NEW o \in Orders, NEW r \in Row \union {Keep}, BookedSoundly(r, o)
  PROVE  SoundNext(r, o)
<1>1. exch[o] \in Order /\ exch'[o] \in Order
  BY DEF IInv, TypeOK
<1>2. CASE r.status \in {"OPEN", "SETTLED"}
  <2>1. r.qty \in 0..Lots
    BY <1>2 DEF Row, Keep
  <2> QED
    BY LimitsAreNat, <1>1, <1>2, <2>1 DEF BookedSoundly, SoundNext, Sound, OrderAdvances, Order
<1>3. CASE r.status \notin {"OPEN", "SETTLED"}
  BY <1>3 DEF BookedSoundly, SoundNext, Sound
<1> QED
  BY <1>2, <1>3

(***************************************************************************)
(* A row read from an executed order of a listing is sound.                *)
(***************************************************************************)
LEMMA ListedIsSound ==
  ASSUME IInv, OrderAdvances, exch' \in [Orders -> Order],
         NEW s \in Sessions, NEW o \in DOMAIN snap[s],
         snap[s][o].state = "executed"
  PROVE  SoundNext([status |-> "OPEN", qty |-> snap[s][o].filled], o)
<1>1. o \in Orders /\ exch[o] = snap[s][o] /\ exch[o] \in Order
  BY ListingDomain DEF IInv, TypeOK, SnapIsBehind
<1>2. exch'[o] = exch[o]
  BY <1>1 DEF OrderAdvances
<1> QED
  BY LimitsAreNat, <1>1, <1>2 DEF BookedSoundly, SoundNext, Sound, Order

LEMMA TradeHasOrder == \A k \in Trades : OrderOf(k) \in Orders
BY DEF Trades, OrderOf

(***************************************************************************)
(* What a cycle's listing does not have stays unlisted until the cycle     *)
(* commits what it resolved, or loses it.                                  *)
(***************************************************************************)
LEMMA UnlistedStays ==
  ASSUME TypeOK, [Next]_vars, NEW k \in Trades, Unlisted(k)
  PROVE  Unlisted(k)' \/ draft'["cycle"] = NoChange
<1> USE DEF Unlisted
<1>t. "cycle" \in Sessions /\ "api" \in Sessions /\ Sessions = {"cycle", "api"}
  BY DEF Sessions
<1>1. ASSUME step'["cycle"] = step["cycle"], snap'["cycle"] = snap["cycle"] PROVE Unlisted(k)'
  BY <1>1
<1>2. ASSUME NEW s \in Sessions, Crash(s) PROVE Unlisted(k)' \/ draft'["cycle"] = NoChange
  BY <1>t, <1>1, <1>2 DEF Crash, Goto, TypeOK
<1>3. CASE CommitResolved
  BY <1>t, <1>3 DEF CommitResolved, Commit, TypeOK
<1>4. ASSUME NEW s \in Sessions, ListExecuted(s) \/ ListExecutedFails(s) \/ Adopt(s) \/ CommitAdopted(s)
      PROVE  Unlisted(k)'
  BY <1>t, <1>1, <1>4 DEF ListExecuted, Answered, ListExecutedFails, Adopt, CommitAdopted, Goto, TypeOK
<1>5. ASSUME NEW s \in Sessions, NEW first, Start(s, first) PROVE Unlisted(k)'
  BY <1>t, <1>1, <1>5 DEF Start, Goto, TypeOK
<1>6. CASE ListOrders \/ SkipResting \/ EndCycle
  BY <1>6 DEF ListOrders, SkipResting, EndCycle
<1>7. CASE NewOrder
  BY <1>t, <1>1, <1>7 DEF NewOrder, AutoTrade, AutoTradeUnanswered, ApproveTrade, Signal, Goto, TypeOK
<1>8. CASE CommitApproved
  BY <1>t, <1>1, <1>8 DEF CommitApproved, Goto, TypeOK
<1>9. ASSUME UNCHANGED <<step, snap>> PROVE Unlisted(k)'
  BY <1>9
<1> QED
  BY <1>t, <1>2, <1>3, <1>4, <1>5, <1>6, <1>7, <1>8, <1>9
     DEF Next, CycleStep, SyncStep, StartCycle, StartSync, StartApprove, RestingMissing,
         RestingFilled, RestingGone, RestingYoung, CancelAged, CancelAgedFails, Resolve,
         SettleTrades, CancelResting, Fill, Kalshi, CloseMarket, vars

(***************************************************************************)
(* Every step keeps the rows and the drafts sound.                         *)
(***************************************************************************)
LEMMA SoundStep == IInv /\ [Next]_vars => RowIsSound' /\ DraftIsSound'
<1> SUFFICES ASSUME IInv, [Next]_vars PROVE RowIsSound' /\ DraftIsSound'
  OBVIOUS
<1> USE LimitsAreNat
<1>t. /\ TypeOK /\ TypeOK' /\ OrderAdvances /\ RowIsSound /\ DraftIsSound
      /\ "cycle" \in Sessions /\ "api" \in Sessions
      /\ exch' \in [Orders -> Order]
  BY TypeStep, ExchangeStep DEF IInv, Sessions, TypeOK
<1> DEFINE Dead(k) == exch[OrderOf(k)].state = "canceled"
           GoodDraft(s, k) == /\ BookedSoundly(draft[s][k], OrderOf(k))
                              /\ draft[s][k].status = "NONE" =>
                                   Dead(k) \/ (s = "cycle" /\ Unlisted(k))
           GoodRow(k) == BookedSoundly(db[k], OrderOf(k))
           Goal == RowIsSound' /\ DraftIsSound'
<1>d. ASSUME NEW k \in Trades, Dead(k) PROVE Dead(k)'
  BY <1>t, <1>d, TradeHasOrder DEF OrderAdvances
<1>2. ASSUME NEW s \in Sessions, NEW k \in Trades, draft'[s][k] = Keep
      PROVE  GoodDraft(s, k)'
  BY <1>2 DEF BookedSoundly, SoundNext, Sound, Keep
<1>1. ASSUME NEW s \in Sessions, NEW k \in Trades, draft'[s][k] = draft[s][k]
      PROVE  GoodDraft(s, k)'
  <2>1. draft[s][k] \in Row \union {Keep}
    BY <1>t DEF TypeOK
  <2>2. SoundNext(draft[s][k], OrderOf(k))
    BY <1>t, <2>1, SoundStays, TradeHasOrder DEF DraftIsSound
  <2>3. CASE draft'[s] = NoChange
    BY <1>2, <2>3 DEF NoChange
  <2>4. CASE draft'[s] # NoChange
    <3>1. s = "cycle" /\ Unlisted(k) => Unlisted(k)'
      BY <1>t, <2>4, UnlistedStays
    <3> QED
      BY <1>t, <1>1, <1>d, <2>2, <3>1 DEF DraftIsSound, BookedSoundly, SoundNext, Sound
  <2> QED
    BY <2>3, <2>4
<1>3. ASSUME NEW k \in Trades, db'[k] = db[k] PROVE GoodRow(k)'
  <2>1. db[k] \in Row \union {Keep}
    BY <1>t DEF TypeOK
  <2>2. SoundNext(db[k], OrderOf(k))
    BY <1>t, <2>1, SoundStays, TradeHasOrder DEF RowIsSound
  <2> QED
    BY <1>3, <2>2 DEF BookedSoundly, SoundNext, Sound
<1>4. ASSUME UNCHANGED <<db, draft>> PROVE Goal
  BY <1>1, <1>3, <1>4 DEF RowIsSound, DraftIsSound
<1>5. ASSUME NEW s \in Sessions, Commit(s) PROVE Goal
  <2>1. ASSUME NEW k \in Trades PROVE GoodRow(k)'
    <3>1. draft[s][k] \in Row \union {Keep}
      BY <1>t DEF TypeOK
    <3>2. CASE draft[s][k] = Keep
      BY <1>3, <1>5, <3>2 DEF Commit, View
    <3>3. CASE draft[s][k] # Keep
      <4>1. SoundNext(draft[s][k], OrderOf(k))
        BY <1>t, <3>1, SoundStays, TradeHasOrder DEF DraftIsSound
      <4>2. db'[k] = draft[s][k]
        BY <1>5, <3>3 DEF Commit, View
      <4> QED
        BY <4>1, <4>2 DEF BookedSoundly, SoundNext, Sound
    <3> QED
      BY <3>2, <3>3
  <2>2. ASSUME NEW r \in Sessions, NEW k \in Trades PROVE GoodDraft(r, k)'
    BY <1>t, <1>1, <1>2, <1>5 DEF Commit, TypeOK, NoChange
  <2> QED
    BY <2>1, <2>2 DEF RowIsSound, DraftIsSound
<1>6. ASSUME NEW s \in Sessions, Crash(s) PROVE Goal
  <2>1. ASSUME NEW r \in Sessions, NEW k \in Trades PROVE GoodDraft(r, k)'
    BY <1>t, <1>1, <1>2, <1>6 DEF Crash, TypeOK, NoChange
  <2> QED
    BY <1>3, <1>6, <2>1 DEF Crash, RowIsSound, DraftIsSound
<1>7. ASSUME NEW s \in Sessions, Adopt(s) PROVE Goal
  <2>1. ASSUME NEW k \in Trades, k[2] = s, OrderOf(k) \in Untracked(s)
        PROVE  GoodDraft(s, k)'
    <3>1. OrderOf(k) \in DOMAIN snap[s] /\ snap[s][OrderOf(k)].state = "executed"
      BY <1>7, <2>1 DEF Adopt, Untracked, IInv, SnapIsBehind
    <3>2. draft'[s][k] = [status |-> "OPEN", qty |-> snap[s][OrderOf(k)].filled]
      BY <1>t, <1>7, <2>1 DEF Adopt, TypeOK
    <3>3. SoundNext([status |-> "OPEN", qty |-> snap[s][OrderOf(k)].filled],
                        OrderOf(k))
      BY <1>t, <3>1, ListedIsSound
    <3> QED
      BY <3>2, <3>3 DEF BookedSoundly, SoundNext, Sound
  <2>2. ASSUME NEW r \in Sessions, NEW k \in Trades PROVE GoodDraft(r, k)'
    BY <1>t, <1>1, <1>7, <2>1 DEF Adopt, TypeOK
  <2> QED
    BY <1>3, <1>7, <2>2 DEF Adopt, RowIsSound, DraftIsSound
<1>8. ASSUME NEW s \in Sessions, NEW k \in Trades, NEW r \in Row \union {Keep},
             draft' = [draft EXCEPT ![s][k] = r], db' = db,
             SoundNext(r, OrderOf(k)),
             r.status = "NONE" => (Dead(k) \/ (s = "cycle" /\ Unlisted(k)))'
      PROVE  Goal
  <2>1. draft'[s][k] = r
    BY <1>t, <1>8 DEF TypeOK
  <2>2. GoodDraft(s, k)'
    BY <1>8, <2>1 DEF BookedSoundly, SoundNext, Sound
  <2>3. ASSUME NEW p \in Sessions, NEW u \in Trades PROVE GoodDraft(p, u)'
    BY <1>t, <1>1, <1>8, <2>2 DEF TypeOK
  <2> QED
    BY <1>3, <1>8, <2>3 DEF RowIsSound, DraftIsSound
<1>9. ASSUME NEW k \in Trades, RestingFilled(k) PROVE Goal
  <2> DEFINE d == snap["cycle"][OrderOf(k)]
             r == [status |-> "OPEN", qty |-> d.filled]
  <2>1. k \in todo /\ d.state = "executed" /\ OrderOf(k) \in DOMAIN snap["cycle"]
    BY <1>9 DEF RestingFilled, ListedAs
  <2>2. d \in Order
    BY <1>t, <2>1, ListingDomain DEF TypeOK
  <2>3. r \in Row
    BY <2>2, RowTypes DEF Order
  <2>4. SoundNext([status |-> "OPEN", qty |-> snap["cycle"][OrderOf(k)].filled],
                      OrderOf(k))
    BY <1>t, <2>1, ListedIsSound
  <2>5. draft' = [draft EXCEPT !["cycle"][k] = r] /\ db' = db
    BY <1>9 DEF RestingFilled, Resolve
  <2> QED
    BY <1>t, <1>8, <2>3, <2>4, <2>5 DEF BookedSoundly, SoundNext, Sound
<1>10. ASSUME NEW k \in Trades, RestingMissing(k) \/ RestingGone(k) \/ CancelAged(k)
       PROVE  Goal
  <2>1. OrderOf(k) \in Orders
    BY TradeHasOrder
  <2>2. Dead(k)' \/ Unlisted(k)'
    <3>0. CASE RestingMissing(k)
      BY <3>0 DEF RestingMissing, Resolve, Unlisted
    <3>1. CASE RestingGone(k)
      <4>1. Dead(k)
        BY <1>t, <3>1 DEF RestingGone, ListedAs, IInv, SnapIsBehind
      <4> QED
        BY <1>d, <4>1
    <3>2. CASE CancelAged(k)
      BY <1>t, <2>1, <3>2 DEF CancelAged, TypeOK, Order
    <3> QED
      BY <1>10, <3>0, <3>1, <3>2
  <2>3. draft' = [draft EXCEPT !["cycle"][k] = Absent] /\ db' = db
    BY <1>10 DEF RestingMissing, RestingGone, CancelAged, Resolve
  <2>4. SoundNext(Absent, OrderOf(k))
    BY DEF BookedSoundly, SoundNext, Sound, Absent
  <2> QED
    BY <1>t, <1>8, <2>2, <2>3, <2>4, RowTypes
<1>11. ASSUME NEW k \in Trades, RestingYoung(k) \/ CancelAgedFails(k) PROVE Goal
  <2>1. draft' = [draft EXCEPT !["cycle"][k] = Keep] /\ db' = db
    BY <1>11 DEF RestingYoung, CancelAgedFails, Resolve
  <2> QED
    BY <1>t, <1>8, <2>1 DEF BookedSoundly, SoundNext, Sound, Keep
<1>12. ASSUME NEW s \in Sessions, NEW o \in Orders, NEW b \in Brackets,
              NEW q \in 1..Lots, NEW f \in 0..q, ExecuteTrade(s, o, b, q, f), db' = db
       PROVE  Goal
  <2> DEFINE r == Recorded(q, f)
  <2>1. <<o, s>> \in Trades /\ OrderOf(<<o, s>>) = o
    BY DEF Trades, OrderOf
  <2>2. r \in Row /\ r.status # "NONE"
    BY RowTypes DEF Recorded
  <2>3. exch'[o] = Placed(q, f, b) /\ (0 < f /\ f < q => o \in partial')
    BY <1>t, <1>12 DEF ExecuteTrade, TypeOK
  <2>4. SoundNext(r, o)
    BY <2>3 DEF BookedSoundly, SoundNext, Sound, Recorded, Placed
  <2>5. draft' = [draft EXCEPT ![s][<<o, s>>] = r]
    BY <1>12 DEF ExecuteTrade
  <2> HIDE DEF r
  <2>6. SoundNext(r, OrderOf(<<o, s>>))
    BY <2>1, <2>4
  <2> QED
    BY <1>8, <1>12, <2>1, <2>2, <2>5, <2>6
<1>13. CASE NewOrder
  <2>1. PICK o \in Orders, b \in Brackets, q \in 1..Lots : \E f \in 0..q :
          AutoTrade(o, b, q, f) \/ AutoTradeUnanswered(o, b, q, f)
          \/ ApproveTrade(o, b, q, f)
    BY <1>13 DEF NewOrder
  <2> QED
    BY <1>t, <1>4, <1>12, <2>1 DEF AutoTrade, AutoTradeUnanswered, ApproveTrade, Signal
<1>14. CASE SettleTrades
  <2>1. ASSUME NEW k \in Trades PROVE GoodRow(k)'
    <3>1. CASE k \in Settleable
      <4>1. SoundNext(db[k], OrderOf(k))
        BY <1>t, SoundStays, TradeHasOrder DEF RowIsSound, TypeOK
      <4>2. db'[k].status = "SETTLED" /\ db'[k].qty = db[k].qty /\ db[k].status = "OPEN"
        BY <1>t, <1>14, <3>1 DEF SettleTrades, Settleable, TypeOK, Row
      <4> QED
        BY <4>1, <4>2 DEF BookedSoundly, SoundNext, Sound
    <3>2. CASE k \notin Settleable
      BY <1>3, <1>14, <3>2 DEF SettleTrades
    <3> QED
      BY <3>1, <3>2
  <2> QED
    BY <1>1, <1>14, <2>1 DEF SettleTrades, RowIsSound, DraftIsSound
<1> QED
  BY <1>t, <1>4, <1>5, <1>6, <1>7, <1>9, <1>10, <1>11, <1>13, <1>14
     DEF Next, CycleStep, SyncStep, StartCycle, StartSync, StartApprove, Start,
     ListExecuted, ListExecutedFails, CommitAdopted, ListOrders, SkipResting,
     CommitResolved, EndCycle, CommitApproved, CancelResting, Fill, Kalshi,
     CloseMarket, vars

LEMMA Invariance == Spec => []IInv
<1>1. IInv /\ [Next]_vars => IInv'
  BY TypeStep, ExchangeStep, SnapStep, SoundStep DEF IInv
<1> QED
  BY InitIInv, <1>1, PTL DEF Spec

-----------------------------------------------------------------------------
(***************************************************************************)
(* The variables always have their types.                                  *)
(***************************************************************************)
THEOREM TypeCorrect == Spec => []TypeOK
<1>1. IInv => TypeOK
  BY DEF IInv
<1> QED
  BY <1>1, Invariance, PTL

(***************************************************************************)
(* No trade, committed or flushed, books more than Kalshi has filled.      *)
(***************************************************************************)
THEOREM NothingIsOverbooked == Spec => []BookedWithinFill
<1>1. IInv => BookedWithinFill
  BY DEF IInv, BookedWithinFill, HeldBy, RowIsSound, DraftIsSound, BookedSoundly, SoundNext, Sound
<1> QED
  BY <1>1, Invariance, PTL

(***************************************************************************)
(* A recorded, executed order is recorded in full unless it was placed     *)
(* with a partial fill.                                                    *)
(***************************************************************************)
THEOREM FillsAreComplete == Spec => []RecordedInFull
<1>1. IInv => RecordedInFull
  BY DEF IInv, RecordedInFull, RowIsSound, BookedSoundly, Sound
<1> QED
  BY <1>1, Invariance, PTL

(***************************************************************************)
(* A trade that leaves the table leaves it after its order died on Kalshi, *)
(* or because the listing that the cycle resolved by did not have it.      *)
(***************************************************************************)
THEOREM ForgottenIsDead == Spec => ForgottenIsDeadOrUnlisted
<1> DEFINE Gone(k) == exch[OrderOf(k)].state = "canceled" \/ Unlisted(k)
           Forgets == \A k \in Trades :
             db[k].status # "NONE" /\ db'[k].status = "NONE" => Gone(k)
<1>1. IInv /\ [Next]_vars => [Forgets]_vars
  <2> SUFFICES ASSUME IInv, [Next]_vars, NEW k \in Trades,
                      db[k].status # "NONE", db'[k].status = "NONE"
               PROVE  Gone(k)
    OBVIOUS
  <2>1. ASSUME NEW s \in Sessions, Commit(s) PROVE Gone(k)
    BY <2>1 DEF Commit, View, IInv, DraftIsSound
  <2>2. CASE SettleTrades
    BY <2>2 DEF SettleTrades, Settleable, IInv, TypeOK, Row
  <2>3. CASE UNCHANGED db
    BY <2>3
  <2> QED
    BY <2>1, <2>2, <2>3
       DEF Next, CycleStep, SyncStep, NewOrder, StartCycle, StartSync, StartApprove,
       Start, Crash, ListExecuted, ListExecutedFails, Adopt, CommitAdopted, ListOrders,
       SkipResting, RestingMissing, RestingFilled, RestingGone, RestingYoung, CancelAged,
       CancelAgedFails, Resolve, CommitResolved, AutoTrade, AutoTradeUnanswered,
       ApproveTrade, Signal, EndCycle, CommitApproved, CancelResting, Fill, Kalshi,
       CloseMarket, vars, Sessions
<1> QED
  BY <1>1, Invariance, PTL DEF Spec, ForgottenIsDeadOrUnlisted

-----------------------------------------------------------------------------
(***************************************************************************)
(* One trade per order, as long as no two sessions were active at once.    *)
(* The session that is active sees, in its own changes over the committed  *)
(* rows, at most one trade of an order (SoleViews), because it writes a    *)
(* new one only where it sees none: an order it has just placed is new to  *)
(* everyone (RecordedIsPlaced), one that it adopts is untracked, and a     *)
(* trade that it resolves is already there (TodoIsKept).  An idle session  *)
(* has no changes (CleanDraft), so the committed rows are what it sees.    *)
(***************************************************************************)
CleanDraft ==
  \A s \in Sessions :
    step[s] \in {"idle", "list", "adopt", "resting", "place"} => draft[s] = NoChange

RecordedIsPlaced ==
  \A k \in Trades :
    exch[OrderOf(k)].state = "none" =>
      /\ db[k].status = "NONE" /\ k \notin todo
      /\ \A s \in Sessions : draft[s][k] = Keep

OneActive == \A s, r \in Sessions : s # r => step[s] = "idle" \/ step[r] = "idle"

Has(s, k) == View(s, k).status # "NONE"

SoleViews == \A s \in Sessions, k, l \in Trades :
  Has(s, k) /\ Has(s, l) /\ OrderOf(k) = OrderOf(l) => k = l

TodoIsKept == \A k \in todo : Has("cycle", k)

Alone == ~overlap => OneActive /\ SoleViews /\ TodoIsKept

PInv == CleanDraft /\ RecordedIsPlaced /\ Alone

LEMMA InitPInv == Init => PInv
<1> SUFFICES ASSUME Init PROVE PInv
  OBVIOUS
<1>1. CleanDraft /\ RecordedIsPlaced
  BY DEF Init, CleanDraft, RecordedIsPlaced, NoChange, Absent
<1>2. \A s \in Sessions, k \in Trades : ~Has(s, k)
  BY DEF Init, Has, View, NoChange, Absent
<1>3. OneActive /\ SoleViews /\ TodoIsKept
  BY <1>2 DEF Init, OneActive, SoleViews, TodoIsKept
<1> QED
  BY <1>1, <1>3 DEF PInv, Alone

(***************************************************************************)
(* A session at its start, or before its first write, has written nothing. *)
(***************************************************************************)
LEMMA CleanStep == TypeOK /\ CleanDraft /\ [Next]_vars => CleanDraft'
<1> SUFFICES ASSUME TypeOK, CleanDraft, [Next]_vars, NEW s \in Sessions,
                    step'[s] \in {"idle", "list", "adopt", "resting", "place"}
             PROVE  draft'[s] = NoChange
  BY DEF CleanDraft
<1> USE DEF CleanDraft
<1>t. "cycle" \in Sessions /\ "api" \in Sessions /\ \A r \in Sessions : r \in {"cycle", "api"}
  BY DEF Sessions
<1>1. CASE UNCHANGED <<step, draft>>
  BY <1>1
<1>2. ASSUME NEW r \in Sessions, NEW first \in {"list", "place"}, Start(r, first)
      PROVE  draft'[s] = NoChange
  BY <1>2 DEF Start, Goto, TypeOK
<1>3. ASSUME NEW r \in Sessions, Crash(r) PROVE draft'[s] = NoChange
  BY <1>3 DEF Crash, Goto, TypeOK
<1>4. ASSUME NEW r \in Sessions, ListExecuted(r) \/ ListExecutedFails(r) PROVE draft'[s] = NoChange
  BY <1>4 DEF ListExecuted, ListExecutedFails, Goto, TypeOK
<1>5. ASSUME NEW r \in Sessions, Adopt(r) PROVE draft'[s] = NoChange
  BY <1>5 DEF Adopt, Goto, TypeOK
<1>6. ASSUME NEW r \in Sessions, Commit(r), \A q \in Sessions \ {r} : step'[q] = step[q]
      PROVE  draft'[s] = NoChange
  BY <1>6 DEF Commit, TypeOK
<1>7. CASE ListOrders \/ SkipResting
  BY <1>7 DEF ListOrders, SkipResting, Goto, TypeOK
<1>8. ASSUME NEW k \in Trades, NEW row, Resolve(k, row), step["cycle"] = "resolve"
      PROVE  draft'[s] = NoChange
  BY <1>8 DEF Resolve, TypeOK
<1>9. ASSUME NEW o \in Orders, NEW b \in Brackets, NEW q \in 1..Lots, NEW f \in 0..q,
             AutoTrade(o, b, q, f) \/ AutoTradeUnanswered(o, b, q, f)
      PROVE  draft'[s] = NoChange
  BY <1>t, <1>9 DEF AutoTrade, AutoTradeUnanswered, Signal, ExecuteTrade, TypeOK
<1>10. ASSUME NEW o \in Orders, NEW b \in Brackets, NEW q \in 1..Lots, NEW f \in 0..q,
              ApproveTrade(o, b, q, f)
       PROVE  draft'[s] = NoChange
  BY <1>t, <1>10 DEF ApproveTrade, ExecuteTrade, Goto, TypeOK
<1>11. ASSUME NEW r \in Sessions, CommitAdopted(r) PROVE draft'[s] = NoChange
  BY <1>6, <1>11 DEF CommitAdopted, Goto, TypeOK
<1>12. CASE CommitResolved \/ EndCycle \/ CommitApproved
  BY <1>t, <1>6, <1>12 DEF CommitResolved, EndCycle, CommitApproved, Goto, TypeOK
<1>13. CASE NewOrder
  BY <1>9, <1>10, <1>13 DEF NewOrder
<1>14. ASSUME NEW k \in Trades,
              \/ RestingMissing(k) \/ RestingFilled(k) \/ RestingGone(k)
              \/ RestingYoung(k) \/ CancelAged(k) \/ CancelAgedFails(k)
       PROVE  draft'[s] = NoChange
  BY <1>8, <1>14 DEF RestingMissing, RestingFilled, RestingGone, RestingYoung, CancelAged,
                     CancelAgedFails, ListedAs, Unlisted
<1> QED
  BY <1>t, <1>1, <1>2, <1>3, <1>4, <1>5, <1>7, <1>11, <1>12, <1>13, <1>14
     DEF Next, CycleStep, SyncStep, StartCycle, StartSync, StartApprove, SettleTrades, CancelResting,
         Fill, Kalshi, CloseMarket, vars

(***************************************************************************)
(* No row, committed or not, is of an order that was never placed.         *)
(***************************************************************************)
LEMMA PlacedStep == IInv /\ RecordedIsPlaced /\ [Next]_vars => RecordedIsPlaced'
<1> SUFFICES ASSUME IInv, RecordedIsPlaced, [Next]_vars, NEW k \in Trades,
                    exch'[OrderOf(k)].state = "none"
             PROVE  /\ db'[k].status = "NONE" /\ k \notin todo'
                    /\ \A s \in Sessions : draft'[s][k] = Keep
  BY DEF RecordedIsPlaced
<1> DEFINE Goal == /\ db'[k].status = "NONE"
                   /\ \A s \in Sessions : draft'[s][k] = Keep
<1>t. /\ TypeOK /\ OrderOf(k) \in Orders /\ exch[OrderOf(k)].state = "none"
      /\ "cycle" \in Sessions /\ "api" \in Sessions
  BY ExchangeStep, TradeHasOrder DEF IInv, OrderAdvances, Sessions
<1>k. /\ db[k].status = "NONE" /\ k \notin todo
      /\ \A s \in Sessions : draft[s][k] = Keep
  BY <1>t DEF RecordedIsPlaced
<1>l. k \notin todo'
  <2>1. todo' \subseteq todo \/ todo' = RestingTrades
    BY DEF Next, CycleStep, SyncStep, NewOrder, StartCycle, StartSync, StartApprove, Start,
       Crash, ListExecuted, ListExecutedFails, Adopt, CommitAdopted, ListOrders, SkipResting,
       RestingMissing, RestingFilled, RestingGone, RestingYoung, CancelAged, CancelAgedFails,
       Resolve, CommitResolved, AutoTrade, AutoTradeUnanswered, ApproveTrade, Signal, EndCycle,
       CommitApproved, SettleTrades, CancelResting, Fill, Kalshi, CloseMarket, vars
  <2> QED
    BY <1>k, <2>1 DEF RestingTrades
<1>1. ASSUME UNCHANGED <<db, draft>> PROVE Goal
  BY <1>1, <1>k
<1>2. ASSUME NEW s \in Sessions, Commit(s) PROVE Goal
  BY <1>t, <1>k, <1>2 DEF Commit, View, NoChange, TypeOK
<1>3. ASSUME NEW s \in Sessions, Crash(s) PROVE Goal
  BY <1>t, <1>k, <1>3 DEF Crash, NoChange, TypeOK
<1>4. ASSUME NEW s \in Sessions, Adopt(s) PROVE Goal
  <2>1. OrderOf(k) \notin Untracked(s)
    BY <1>t, <1>4 DEF Adopt, Untracked, IInv, SnapIsBehind
  <2> QED
    BY <1>t, <1>k, <1>4, <2>1 DEF Adopt, TypeOK
<1>5. ASSUME NEW l \in Trades, NEW row, Resolve(l, row), l # k \/ row = Keep PROVE Goal
  BY <1>t, <1>k, <1>5 DEF Resolve, TypeOK
<1>6. ASSUME NEW l \in Trades,
             \/ RestingMissing(l) \/ RestingFilled(l) \/ RestingGone(l)
             \/ RestingYoung(l) \/ CancelAged(l) \/ CancelAgedFails(l)
      PROVE  Goal
  <2>1. l # k
    BY <1>6, <1>k DEF RestingMissing, RestingFilled, RestingGone, RestingYoung, CancelAged,
                      CancelAgedFails, ListedAs
  <2>2. CASE RestingMissing(l) \/ RestingFilled(l) \/ RestingGone(l) \/ CancelAged(l)
    BY <1>5, <2>1, <2>2 DEF RestingMissing, RestingFilled, RestingGone, CancelAged
  <2> QED
    BY <1>5, <1>6, <2>2 DEF RestingYoung, CancelAgedFails
<1>7. ASSUME NEW s \in Sessions, NEW o \in Orders, NEW b \in Brackets,
             NEW q \in 1..Lots, NEW f \in 0..q, ExecuteTrade(s, o, b, q, f), db' = db
      PROVE  Goal
  <2>1. exch'[o].state # "none"
    BY <1>t, <1>7 DEF ExecuteTrade, Placed, TypeOK
  <2>2. OrderOf(<<o, s>>) = o /\ <<o, s>> \in Trades
    BY DEF OrderOf, Trades
  <2>3. k # <<o, s>>
    BY <2>1, <2>2
  <2> QED
    BY <1>t, <1>k, <1>7, <2>2, <2>3 DEF ExecuteTrade, TypeOK
<1>8. ASSUME NewOrder PROVE Goal
  BY <1>t, <1>1, <1>7, <1>8 DEF NewOrder, AutoTrade, AutoTradeUnanswered, ApproveTrade, Signal
<1>9. ASSUME SettleTrades PROVE Goal
  BY <1>t, <1>k, <1>9 DEF SettleTrades, Settleable, TypeOK
<1> QED
  BY <1>t, <1>l, <1>1, <1>2, <1>3, <1>4, <1>6, <1>8, <1>9
     DEF Next, CycleStep, SyncStep, StartCycle, StartSync, StartApprove, Start,
     ListExecuted, ListExecutedFails, CommitAdopted, ListOrders, SkipResting,
     CommitResolved, EndCycle, CommitApproved, CancelResting, Fill, Kalshi,
     CloseMarket, vars

LEMMA ActiveStep == TypeOK /\ (~overlap => OneActive) /\ [Next]_vars => (~overlap' => ~overlap /\ OneActive')
<1> SUFFICES ASSUME TypeOK, ~overlap => OneActive, [Next]_vars, ~overlap'
             PROVE  ~overlap /\ OneActive'
  OBVIOUS
<1> USE DEF OneActive
<1>1. ASSUME ~overlap, NEW s \in Sessions, step[s] # "idle", \A r \in Sessions \ {s} : step'[r] = step[r]
      PROVE  ~overlap /\ OneActive'
  BY <1>1
<1>2. ASSUME NEW s \in Sessions, NEW first, Start(s, first) PROVE ~overlap /\ OneActive'
  BY <1>2 DEF Start, Goto, TypeOK
<1>3. ASSUME ~overlap, UNCHANGED step PROVE ~overlap /\ OneActive'
  BY <1>3
<1>4. ASSUME NEW s \in Sessions, ~overlap,
             \/ Crash(s) \/ ListExecuted(s) \/ ListExecutedFails(s) \/ Adopt(s) \/ CommitAdopted(s)
      PROVE  ~overlap /\ OneActive'
  BY <1>1, <1>4 DEF Crash, ListExecuted, ListExecutedFails, Adopt, CommitAdopted, Goto, TypeOK
<1>5. CASE ~overlap /\ (ListOrders \/ SkipResting \/ CommitResolved \/ EndCycle)
  BY <1>1, <1>5 DEF ListOrders, SkipResting, CommitResolved, EndCycle, Goto, TypeOK, Sessions
<1>6. CASE ~overlap /\ CommitApproved
  BY <1>1, <1>6 DEF CommitApproved, Goto, TypeOK, Sessions
<1>7. CASE ~overlap /\ NewOrder
  BY <1>1, <1>3, <1>7 DEF NewOrder, AutoTrade, AutoTradeUnanswered, ApproveTrade, Signal, Goto,
                          TypeOK, Sessions
<1>8. CASE overlap' = overlap
  BY <1>2, <1>3, <1>4, <1>5, <1>6, <1>7, <1>8
     DEF Next, CycleStep, SyncStep, StartCycle, StartSync, StartApprove, RestingFilled,
         RestingMissing, RestingGone, RestingYoung, CancelAged, CancelAgedFails, Resolve,
         SettleTrades, CancelResting, Fill, Kalshi, CloseMarket, vars, Sessions
<1>9. \/ overlap' = overlap
      \/ Start("cycle", "list") \/ Start("api", "list") \/ Start("api", "place")
  BY DEF Next, CycleStep, SyncStep, StartCycle, StartSync, StartApprove, RestingFilled,
         RestingMissing, RestingGone, RestingYoung, CancelAged, CancelAgedFails, Resolve,
         SettleTrades, CancelResting, Fill, Kalshi, CloseMarket, vars, Crash, ListExecuted, ListExecutedFails,
         Adopt, CommitAdopted, ListOrders, SkipResting, CommitResolved, EndCycle, CommitApproved,
         NewOrder, AutoTrade, AutoTradeUnanswered, ApproveTrade, Signal
<1> QED
  BY <1>2, <1>8, <1>9 DEF Sessions

LEMMA SoleStep == IInv /\ PInv /\ [Next]_vars => (~overlap' => SoleViews' /\ TodoIsKept')
<1> SUFFICES ASSUME IInv, PInv, [Next]_vars, ~overlap' PROVE SoleViews' /\ TodoIsKept'
  OBVIOUS
<1> DEFINE Goal == SoleViews' /\ TodoIsKept'
<1>t. /\ TypeOK /\ "cycle" \in Sessions /\ "api" \in Sessions
      /\ CleanDraft /\ RecordedIsPlaced /\ OneActive /\ SoleViews /\ TodoIsKept
      /\ TodoIsResolved
  BY ActiveStep DEF IInv, PInv, Alone, Sessions
<1>1. ASSUME UNCHANGED todo, \A s \in Sessions, k \in Trades : Has(s, k)' = Has(s, k) PROVE Goal
  BY <1>t, <1>1 DEF SoleViews, TodoIsKept, TypeOK
<1>2. CASE UNCHANGED <<db, draft, todo>>
  BY <1>1, <1>2 DEF Has, View
<1>3. ASSUME NEW s \in Sessions, step[s] # "idle", Commit(s), todo' = {} PROVE Goal
  <2>1. \A r \in Sessions, k \in Trades : Has(r, k)' = Has(s, k)
    <3> SUFFICES ASSUME NEW r \in Sessions, NEW k \in Trades PROVE View(r, k)' = View(s, k)
      BY DEF Has
    <3>1. draft'[r] = NoChange
      BY <1>t, <1>3 DEF Commit, OneActive, CleanDraft, TypeOK
    <3> QED
      BY <1>3, <3>1 DEF Commit, View, NoChange
  <2> QED
    BY <1>t, <1>3, <2>1 DEF SoleViews, TodoIsKept
<1>4. ASSUME NEW s \in Sessions, step[s] # "idle", step[s] # "resolve" PROVE todo = {}
  BY <1>t, <1>4 DEF TodoIsResolved, OneActive
<1>5. ASSUME NEW s \in Sessions, CommitAdopted(s) PROVE Goal
  BY <1>3, <1>4, <1>5 DEF CommitAdopted
<1>6. CASE CommitResolved \/ EndCycle \/ CommitApproved
  BY <1>t, <1>3, <1>4, <1>6 DEF CommitResolved, EndCycle, CommitApproved
<1>7. ASSUME NEW s \in Sessions, Crash(s) PROVE Goal
  <2>1. PICK r \in Sessions : step[r] = "idle"
    BY <1>t DEF OneActive, Sessions
  <2>2. draft[r] = NoChange
    BY <1>t, <2>1 DEF CleanDraft
  <2>3. \A k \in Trades : Has(r, k) <=> db[k].status # "NONE"
    BY <2>2 DEF Has, View, NoChange
  <2>4. \A q \in Sessions : draft'[q] = NoChange
    BY <1>t, <1>7 DEF Crash, OneActive, CleanDraft, TypeOK
  <2>5. \A q \in Sessions, k \in Trades : Has(q, k)' <=> db[k].status # "NONE"
    BY <1>7, <2>4 DEF Crash, Has, View, NoChange
  <2>6. todo' = {}
    BY <1>t, <1>7 DEF Crash, TodoIsResolved, OneActive, Sessions
  <2> QED
    BY <1>t, <2>3, <2>5, <2>6 DEF SoleViews, TodoIsKept
<1>8. ASSUME NEW s \in Sessions, Adopt(s) PROVE Goal
  <2>1. todo' = {}
    BY <1>4, <1>8 DEF Adopt
  <2>2. ASSUME NEW r \in Sessions, NEW k \in Trades, Has(r, k)'
        PROVE  Has(r, k) \/ (r = s /\ k[2] = s /\ OrderOf(k) \in Untracked(s))
    BY <1>t, <1>8, <2>2 DEF Adopt, Has, View, TypeOK
  <2>3. ASSUME NEW k \in Trades, OrderOf(k) \in Untracked(s) PROVE ~Has(s, k)
    <3>1. k = <<OrderOf(k), k[2]>> /\ k[2] \in Sessions
      BY DEF Trades, OrderOf
    <3> QED
      BY <2>3, <3>1 DEF Untracked, Tracked, Has
  <2>4. ASSUME NEW k \in Trades, NEW l \in Trades, OrderOf(k) = OrderOf(l), k[2] = l[2] PROVE k = l
    BY <2>4 DEF Trades, OrderOf
  <2> QED
    BY <1>t, <2>1, <2>2, <2>3, <2>4 DEF SoleViews, TodoIsKept
<1>9. ASSUME NEW k \in todo, NEW row \in Row \union {Keep}, Resolve(k, row) PROVE Goal
  <2>1. k \in Trades /\ Has("cycle", k)
    BY <1>t DEF TypeOK, TodoIsKept
  <2>2. \A r \in Sessions, l \in Trades : r # "cycle" \/ l # k => (Has(r, l)' <=> Has(r, l))
    BY <1>t, <1>9, <2>1 DEF Resolve, Has, View, TypeOK
  <2>3. SoleViews'
    BY <1>t, <2>1, <2>2 DEF SoleViews
  <2>4. TodoIsKept'
    BY <1>t, <1>9, <2>2 DEF TodoIsKept, Resolve, TypeOK
  <2> QED
    BY <2>3, <2>4
<1>10. ASSUME NEW k \in Trades,
              \/ RestingMissing(k) \/ RestingFilled(k) \/ RestingGone(k)
              \/ RestingYoung(k) \/ CancelAged(k) \/ CancelAgedFails(k)
       PROVE  Goal
  <2>1. k \in todo /\ snap["cycle"] \in Listings
    BY <1>t, <1>10 DEF RestingMissing, RestingFilled, RestingGone, RestingYoung, CancelAged,
                       CancelAgedFails, ListedAs, TypeOK
  <2>2. OrderOf(k) \in DOMAIN snap["cycle"] =>
          [status |-> "OPEN", qty |-> snap["cycle"][OrderOf(k)].filled] \in Row
    BY <2>1, ListingDomain, RowTypes DEF Order
  <2>3. PICK row \in Row \union {Keep} : Resolve(k, row)
    BY <1>10, <2>2, RowTypes DEF RestingMissing, RestingFilled, RestingGone, RestingYoung, CancelAged,
                                 CancelAgedFails, ListedAs
  <2> QED
    BY <1>9, <2>1, <2>3
<1>11. ASSUME NEW s \in Sessions, step[s] \in {"trade", "place"}, NEW o \in Orders, NEW b \in Brackets,
              NEW q \in 1..Lots, NEW f \in 0..q, ExecuteTrade(s, o, b, q, f), UNCHANGED <<db, todo>>
       PROVE  Goal
  <2>1. todo' = {}
    BY <1>4, <1>11
  <2>2. <<o, s>> \in Trades /\ OrderOf(<<o, s>>) = o
    BY DEF Trades, OrderOf
  <2>3. \A r \in Sessions, k \in Trades : OrderOf(k) = o => ~Has(r, k)
    BY <1>t, <1>11 DEF ExecuteTrade, NextOrder, RecordedIsPlaced, Has, View
  <2>4. \A r \in Sessions, k \in Trades : r # s \/ k # <<o, s>> => (Has(r, k)' <=> Has(r, k))
    BY <1>t, <1>11, <2>2 DEF ExecuteTrade, Has, View, TypeOK
  <2>5. SoleViews'
    BY <1>t, <2>2, <2>3, <2>4 DEF SoleViews
  <2> QED
    BY <2>1, <2>5 DEF TodoIsKept
<1>12. CASE NewOrder
  BY <1>t, <1>2, <1>11, <1>12 DEF NewOrder, AutoTrade, AutoTradeUnanswered, ApproveTrade, Signal
<1>13. CASE SettleTrades
  <2>1. \A k \in Trades : (db'[k].status # "NONE") <=> (db[k].status # "NONE")
    BY <1>t, <1>13 DEF SettleTrades, Settleable, TypeOK, Row
  <2>2. \A s \in Sessions, k \in Trades : Has(s, k)' <=> Has(s, k)
    BY <1>13, <2>1 DEF SettleTrades, Has, View
  <2> QED
    BY <1>1, <1>13, <2>2 DEF SettleTrades, Has
<1>14. CASE ListOrders
  <2>1. draft["cycle"] = NoChange /\ UNCHANGED <<db, draft>> /\ todo' = RestingTrades
    BY <1>t, <1>14 DEF ListOrders, CleanDraft
  <2>2. \A k \in RestingTrades : Has("cycle", k)'
    BY <2>1 DEF RestingTrades, Has, View, NoChange
  <2>3. \A s \in Sessions, k \in Trades : Has(s, k)' <=> Has(s, k)
    BY <2>1 DEF Has, View
  <2> QED
    BY <1>t, <2>1, <2>2, <2>3 DEF SoleViews, TodoIsKept
<1> QED
  BY <1>t, <1>2, <1>5, <1>6, <1>7, <1>8, <1>10, <1>12, <1>13, <1>14
     DEF Next, CycleStep, SyncStep, StartCycle, StartSync, StartApprove, Start,
     ListExecuted, ListExecutedFails, SkipResting, CancelResting, Fill, Kalshi,
     CloseMarket, vars

LEMMA Solitude == Spec => [](IInv /\ PInv)
<1>1. IInv /\ PInv /\ [Next]_vars => PInv'
  BY CleanStep, PlacedStep, ActiveStep, SoleStep DEF PInv, Alone, IInv
<1> QED
  BY InitPInv, <1>1, Invariance, PTL DEF Spec

(***************************************************************************)
(* One committed trade per order as long as no two sessions were active at *)
(* once (_order_already_tracked), for any crashes and lost answers.        *)
(***************************************************************************)
THEOREM OrdersAreTradedOnce == Spec => []OneTradePerOrder
<1>1. ASSUME IInv, PInv PROVE OneTradePerOrder
  <2> SUFFICES ASSUME ~overlap, NEW o \in Orders
               PROVE  Cardinality({s \in Sessions : db[<<o, s>>].status # "NONE"}) <= 1
    BY DEF OneTradePerOrder
  <2> DEFINE S == {s \in Sessions : db[<<o, s>>].status # "NONE"}
  <2>1. PICK r \in Sessions : step[r] = "idle"
    BY <1>1 DEF PInv, Alone, OneActive, Sessions
  <2>2. \A k \in Trades : Has(r, k) <=> db[k].status # "NONE"
    BY <1>1, <2>1 DEF PInv, CleanDraft, Has, View, NoChange
  <2>3. \A s, p \in S : s = p
    <3>1. \A s \in Sessions : <<o, s>> \in Trades /\ OrderOf(<<o, s>>) = o
      BY DEF Trades, OrderOf
    <3>2. \A s, p \in S : <<o, s>> = <<o, p>>
      BY <1>1, <2>2, <3>1 DEF PInv, Alone, SoleViews
    <3> QED
      BY <3>2
  <2>4. S = {} \/ \E s : S = {s}
    BY <2>3
  <2> HIDE DEF S
  <2>5. Cardinality(S) <= 1
    <3>1. CASE S = {}
      <4>1. Cardinality(S) = 0
        BY <3>1, FS_EmptySet
      <4> QED
        BY <4>1
    <3>2. ASSUME NEW s, S = {s} PROVE Cardinality(S) <= 1
      <4>1. Cardinality(S) = 1
        BY <3>2, FS_Singleton
      <4> QED
        BY <4>1
    <3> QED
      BY <2>4, <3>1, <3>2
  <2> QED
    BY <2>5 DEF S
<1>2. IInv /\ PInv => OneTradePerOrder
  BY <1>1
<1> QED
  BY <1>2, Solitude, PTL
=============================================================================
