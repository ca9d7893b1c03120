----------------------------- MODULE OrderLedger -----------------------------
(***************************************************************************)
(* The trades table against the orders that are live on Kalshi.            *)
(*                                                                         *)
(* Two sessions create trades at once: the trading cycle (scheduler.py:    *)
(* portfolio sync, resting-order sync, then new orders, with a commit      *)
(* after each) and one API request, which is POST /api/trades/sync or the  *)
(* approval of a queued trade (executor.py called from api/queue.py).  The *)
(* settlement task closes OPEN trades.  Kalshi fills, cancels and settles  *)
(* on its own.                                                             *)
(*                                                                         *)
(* A trade is identified by its order and the session that created it:     *)
(* nothing in the schema makes kalshi_order_id unique.                     *)
(***************************************************************************)
EXTENDS Naturals, FiniteSets, FiniteSetsExt

CONSTANTS
  Brackets,    \* market tickers
  MaxOrders,   \* bound: orders placed in a behaviour
  Lots,        \* bound: contracts asked for by one signal
  Cap,         \* max_contracts_per_bracket
  MaxExposure, \* max_daily_exposure, in contracts (every price is one)
  MaxFaults    \* bound: crashes and failed, unanswered or incomplete calls to Kalshi

ASSUME LimitsAreNat ==
  /\ MaxOrders \in Nat /\ Lots \in Nat /\ Cap \in Nat
  /\ MaxExposure \in Nat /\ MaxFaults \in Nat

VARIABLES
  exch,      \* orders on Kalshi
  closed,    \* brackets whose market Kalshi has settled
  db,        \* committed trades
  draft,     \* each session's flushed and uncommitted changes
  step,      \* where each session is
  snap,      \* the orders a session has listed and not yet dealt with
  todo,      \* the cycle: RESTING trades still to be resolved
  signalled, \* the cycle: brackets already acted on
  partial,   \* history: orders answered with a partial fill
  overlap,   \* history: two sessions were active at once
  faults

vars == <<exch, closed, db, draft, step, snap, todo, signalled, partial,
          overlap, faults>>

Orders == 1..MaxOrders
Sessions == {"cycle", "api"}
Trades == Orders \X Sessions
OrderOf(k) == k[1]

Steps == {"idle", "list", "adopt", "adopted", "resting", "resolve", "trade",
          "place", "placed"}
Order == [state : {"none", "resting", "executed", "canceled"},
          size : 0..Lots, filled : 0..Lots, bracket : Brackets]
Row == [status : {"NONE", "RESTING", "OPEN", "SETTLED"}, qty : 0..Lots]

Absent == [status |-> "NONE", qty |-> 0]
Keep == [status |-> "KEEP", qty |-> 0]   \* no uncommitted change
NoChange == [k \in Trades |-> Keep]

\* What a session has listed: some orders and their state at that time.
Listings == UNION {[L -> Order] : L \in SUBSET Orders}
NoListing == [o \in {} |-> o]

TypeOK ==
  /\ exch \in [Orders -> Order]
  /\ closed \subseteq Brackets
  /\ db \in [Trades -> Row]
  /\ draft \in [Sessions -> [Trades -> Row \union {Keep}]]
  /\ step \in [Sessions -> Steps]
  /\ snap \in [Sessions -> Listings]
  /\ todo \subseteq Trades
  /\ signalled \subseteq Brackets
  /\ partial \subseteq Orders
  /\ overlap \in BOOLEAN
  /\ faults \in Nat

Init ==
  /\ \E b \in Brackets :
       exch = [o \in Orders |->
                 [state |-> "none", size |-> 0, filled |-> 0, bracket |-> b]]
  /\ snap = [s \in Sessions |-> NoListing]
  /\ closed = {}
  /\ db = [k \in Trades |-> Absent]
  /\ draft = [s \in Sessions |-> NoChange]
  /\ step = [s \in Sessions |-> "idle"]
  /\ todo = {}
  /\ signalled = {}
  /\ partial = {}
  /\ overlap = FALSE
  /\ faults = 0

-----------------------------------------------------------------------------
(* Sessions: READ COMMITTED, plus what the session has flushed itself.     *)

View(s, k) == IF draft[s][k] = Keep THEN db[k] ELSE draft[s][k]

Goto(s, next) == step' = [step EXCEPT ![s] = next]

Commit(s) ==
  /\ db' = [k \in Trades |-> View(s, k)]
  /\ draft' = [draft EXCEPT ![s] = NoChange]

Start(s, first) ==
  /\ step[s] = "idle"
  /\ Goto(s, first)
  /\ overlap' = (overlap \/ \E r \in Sessions \ {s} : step[r] # "idle")
  /\ UNCHANGED <<exch, closed, db, draft, snap, todo, signalled, partial,
                 faults>>

StartSync == Start("api", "list")
StartApprove == Start("api", "place")
StartCycle == Start("cycle", "list")

Fault == faults < MaxFaults /\ faults' = faults + 1

\* The process dies, the time limit fires or the commit fails: rollback.
Crash(s) ==
  /\ step[s] # "idle"
  /\ Fault
  /\ Goto(s, "idle")
  /\ draft' = [draft EXCEPT ![s] = NoChange]
  /\ snap' = [snap EXCEPT ![s] = NoListing]
  /\ todo' = IF s = "cycle" THEN {} ELSE todo
  /\ signalled' = IF s = "cycle" THEN {} ELSE signalled
  /\ UNCHANGED <<exch, closed, db, partial, overlap>>

-----------------------------------------------------------------------------
(* sync_portfolio, in the cycle and behind POST /api/trades/sync.          *)

AfterSync(s) == IF s = "cycle" THEN "resting" ELSE "idle"

\* get_orders: every page with its cursor, and yet an order that moves between two
\* pages, or follows a page that came short, is not in the answer.
Answered(s, orders) ==
  \E listed \in SUBSET orders :
    /\ IF listed = orders THEN UNCHANGED faults ELSE Fault
    /\ snap' = [snap EXCEPT ![s] = [o \in listed |-> exch[o]]]

\* Mutant: orders that are still resting are listed too.
ListAll(s) ==
  /\ step[s] = "list"
  /\ Answered(s, {o \in Orders : exch[o].state # "none"})
  /\ Goto(s, "adopt")
  /\ UNCHANGED <<exch, closed, db, draft, todo, signalled, partial, overlap>>

ListExecuted(s) ==
  /\ step[s] = "list"
  /\ Answered(s, {o \in Orders : exch[o].state = "executed"})
  /\ Goto(s, "adopt")
  /\ UNCHANGED <<exch, closed, db, draft, todo, signalled, partial, overlap>>

ListExecutedFails(s) ==
  /\ step[s] = "list"
  /\ Fault
  /\ Goto(s, AfterSync(s))
  /\ UNCHANGED <<exch, closed, db, draft, snap, todo, signalled, partial,
                 overlap>>

\* Mutant: settled trades are no longer looked up.
TrackedLive(s, o) ==
  \E c \in Sessions : View(s, <<o, c>>).status \in {"OPEN", "RESTING"}

Tracked(s, o) == \E c \in Sessions : View(s, <<o, c>>).status # "NONE"

\* Executed orders with contracts that no trade of any status refers to.
Untracked(s) == {o \in DOMAIN snap[s] : snap[s][o].filled > 0 /\ ~Tracked(s, o)}

Adopt(s) ==
  /\ step[s] = "adopt"
  /\ draft' = [draft EXCEPT ![s] =
       [k \in Trades |->
          IF k[2] = s /\ OrderOf(k) \in Untracked(s)
          THEN [status |-> "OPEN", qty |-> snap[s][OrderOf(k)].filled]
          ELSE draft[s][k]]]
  /\ snap' = [snap EXCEPT ![s] = NoListing]
  /\ Goto(s, "adopted")
  /\ UNCHANGED <<exch, closed, db, todo, signalled, partial,
                 overlap, faults>>

CommitAdopted(s) ==
  /\ step[s] = "adopted"
  /\ Commit(s)
  /\ Goto(s, AfterSync(s))
  /\ UNCHANGED <<exch, closed, snap, todo, signalled, partial, overlap,
                 faults>>

-----------------------------------------------------------------------------
(* _sync_resting_orders, in the cycle.                                     *)

RestingTrades == {k \in Trades : db[k].status = "RESTING"}

ListOrders ==
  /\ step["cycle"] = "resting"
  /\ RestingTrades # {}
  /\ todo' = RestingTrades
  /\ Answered("cycle", {OrderOf(k) : k \in RestingTrades})
  /\ Goto("cycle", "resolve")
  /\ UNCHANGED <<exch, closed, db, draft, signalled, partial, overlap>>

SkipResting ==
  /\ step["cycle"] = "resting"
  /\ IF RestingTrades = {} THEN UNCHANGED faults ELSE Fault
  /\ Goto("cycle", "trade")
  /\ UNCHANGED <<exch, closed, db, draft, snap, todo, signalled, partial,
                 overlap>>

Resolve(k, row) ==
  /\ todo' = todo \ {k}
  /\ draft' = [draft EXCEPT !["cycle"][k] = row]
  /\ UNCHANGED <<closed, db, step, snap, signalled, partial, overlap>>

\* What the listing says of a trade that is still to be resolved, if anything.
Unlisted(k) == step["cycle"] = "resolve" /\ OrderOf(k) \notin DOMAIN snap["cycle"]

ListedAs(k, state) ==
  /\ step["cycle"] = "resolve" /\ k \in todo
  /\ OrderOf(k) \in DOMAIN snap["cycle"]
  /\ snap["cycle"][OrderOf(k)].state = state

\* Not in the answer: taken for expired, and the trade is deleted unasked.
RestingMissing(k) ==
  /\ Unlisted(k) /\ k \in todo
  /\ Resolve(k, Absent)
  /\ UNCHANGED <<exch, faults>>

RestingFilled(k) ==
  /\ ListedAs(k, "executed")
  /\ Resolve(k, [status |-> "OPEN", qty |-> snap["cycle"][OrderOf(k)].filled])
  /\ UNCHANGED <<exch, faults>>

\* Mutant: a canceled order keeps its trade.
RestingKept(k) ==
  /\ ListedAs(k, "canceled")
  /\ Resolve(k, Keep)
  /\ UNCHANGED <<exch, faults>>

\* Canceled: the trade is deleted, whatever was filled.
RestingGone(k) ==
  /\ ListedAs(k, "canceled")
  /\ Resolve(k, Absent)
  /\ UNCHANGED <<exch, faults>>

\* Younger than RESTING_MAX_AGE_SECONDS, by the cycle's clock: left alone.
RestingYoung(k) ==
  /\ ListedAs(k, "resting")
  /\ Resolve(k, Keep)
  /\ UNCHANGED <<exch, faults>>

\* Kalshi refuses to cancel what is no longer resting.
CancelAged(k) ==
  /\ ListedAs(k, "resting")
  /\ exch[OrderOf(k)].state = "resting"
  /\ Resolve(k, Absent)
  /\ exch' = [exch EXCEPT ![OrderOf(k)].state = "canceled"]
  /\ UNCHANGED faults

\* Mutant: the trade is deleted whether or not the cancel succeeded.
CancelAgedForgets(k) ==
  /\ ListedAs(k, "resting")
  /\ IF exch[OrderOf(k)].state = "resting" THEN Fault ELSE UNCHANGED faults
  /\ Resolve(k, Absent)
  /\ UNCHANGED exch

CancelAgedFails(k) ==
  /\ ListedAs(k, "resting")
  /\ IF exch[OrderOf(k)].state = "resting" THEN Fault ELSE UNCHANGED faults
  /\ Resolve(k, Keep)
  /\ UNCHANGED exch

CommitResolved ==
  /\ step["cycle"] = "resolve" /\ todo = {}
  /\ Commit("cycle")
  /\ snap' = [snap EXCEPT !["cycle"] = NoListing]
  /\ Goto("cycle", "trade")
  /\ UNCHANGED <<exch, closed, todo, signalled, partial, overlap,
                 faults>>

-----------------------------------------------------------------------------
(* New orders: the cycle's signal loop, the approval, and execute_trade.   *)

OpenTrades(s, B) ==
  {k \in Trades : View(s, k).status = "OPEN" /\ exch[OrderOf(k)].bracket \in B}

OpenQty(s, B) == MapThenSumSet(LAMBDA k : View(s, k).qty, OpenTrades(s, B))

\* place_order's answer: v2 reports any fill as "executed", none as "resting".
Placed(q, f, b) ==
  [state |-> IF f = q THEN "executed" ELSE "resting",
   size |-> q, filled |-> f, bracket |-> b]

\* Mutants: the requested count is booked; requested and filled are added.
RecordedAsAsked(q, f) ==
  [status |-> IF f = 0 THEN "RESTING" ELSE "OPEN", qty |-> q]
RecordedTwice(q, f) ==
  [status |-> IF f = 0 THEN "RESTING" ELSE "OPEN", qty |-> q + f]

Recorded(q, f) ==
  IF f = 0 THEN [status |-> "RESTING", qty |-> q] ELSE [status |-> "OPEN", qty |-> f]

NextOrder(o) == exch[o].state = "none" /\ \A p \in 1..(o - 1) : exch[p].state # "none"

ExecuteTrade(s, o, b, q, f) ==
  /\ NextOrder(o) /\ b \notin closed
  /\ exch' = [exch EXCEPT ![o] = Placed(q, f, b)]
  /\ partial' = IF 0 < f /\ f < q THEN partial \union {o} ELSE partial
  /\ draft' = [draft EXCEPT ![s][<<o, s>>] = Recorded(q, f)]

\* A signal for Lots contracts, one per bracket and cycle, is clamped to the
\* room under the cap and checked against the exposure.  RESTING trades count
\* for neither.
Clamped(b) ==
  LET open == OpenQty("cycle", {b})
  IN  IF open + Lots <= Cap THEN Lots ELSE IF open < Cap THEN Cap - open ELSE 0

Signal(b, q) ==
  /\ step["cycle"] = "trade"
  /\ b \notin signalled
  /\ q = Clamped(b) /\ q > 0
  /\ OpenQty("cycle", Brackets) + q <= MaxExposure
  /\ signalled' = signalled \union {b}
  /\ UNCHANGED <<closed, db, step, snap, todo, overlap>>

AutoTrade(o, b, q, f) ==
  /\ Signal(b, q)
  /\ ExecuteTrade("cycle", o, b, q, f)
  /\ UNCHANGED faults

\* The order is live but the answer is lost: logged and skipped, no trade.
AutoTradeUnanswered(o, b, q, f) ==
  /\ Signal(b, q)
  /\ NextOrder(o) /\ b \notin closed
  /\ Fault
  /\ exch' = [exch EXCEPT ![o] = Placed(q, f, b)]
  /\ UNCHANGED <<draft, partial>>

EndCycle ==
  /\ step["cycle"] = "trade"
  /\ Commit("cycle")
  /\ Goto("cycle", "idle")
  /\ signalled' = {}
  /\ UNCHANGED <<exch, closed, snap, todo, partial, overlap, faults>>

\* No cap and no risk check on approval.
ApproveTrade(o, b, q, f) ==
  /\ step["api"] = "place" /\ q = Lots
  /\ ExecuteTrade("api", o, b, q, f)
  /\ Goto("api", "placed")
  /\ UNCHANGED <<closed, db, snap, todo, signalled, overlap, faults>>

CommitApproved ==
  /\ step["api"] = "placed"
  /\ Commit("api")
  /\ Goto("api", "idle")
  /\ UNCHANGED <<exch, closed, snap, todo, signalled, partial, overlap,
                 faults>>

-----------------------------------------------------------------------------
(* Settlement, and Kalshi's own steps.                                     *)

Settleable == {k \in Trades : db[k].status = "OPEN"
                              /\ exch[OrderOf(k)].bracket \in closed}

SettleTrades ==
  /\ Settleable # {}
  /\ db' = [k \in Trades |-> IF k \in Settleable
                             THEN [db[k] EXCEPT !.status = "SETTLED"] ELSE db[k]]
  /\ UNCHANGED <<exch, closed, draft, step, snap, todo, signalled,
                 partial, overlap, faults>>

Kalshi(o, order) ==
  /\ exch[o].state = "resting"
  /\ exch' = [exch EXCEPT ![o] = order]
  /\ UNCHANGED <<db, draft, step, snap, todo, signalled, partial,
                 overlap, faults>>

\* One contract at a time.
Fill(o) == Kalshi(o, Placed(exch[o].size, exch[o].filled + 1, exch[o].bracket))
           /\ UNCHANGED closed

\* POST /api/queue/cancel-resting, or the user on kalshi.com.
CancelResting(o) == Kalshi(o, [exch[o] EXCEPT !.state = "canceled"])
                    /\ UNCHANGED closed

CloseMarket(b) ==
  /\ b \notin closed
  /\ closed' = closed \union {b}
  /\ exch' = [o \in Orders |-> IF exch[o].state = "resting" /\ exch[o].bracket = b
                               THEN [exch[o] EXCEPT !.state = "canceled"] ELSE exch[o]]
  /\ UNCHANGED <<db, draft, step, snap, todo, signalled, partial,
                 overlap, faults>>

-----------------------------------------------------------------------------
CycleStep ==
  \/ StartCycle
  \/ ListExecuted("cycle")
  \/ Adopt("cycle")
  \/ CommitAdopted("cycle")
  \/ ListOrders
  \/ SkipResting
  \/ \E k \in Trades : RestingMissing(k) \/ RestingFilled(k) \/ RestingGone(k)
                       \/ RestingYoung(k) \/ CancelAged(k) \/ CancelAgedFails(k)
  \/ CommitResolved
  \/ EndCycle

NewOrder ==
  \E o \in Orders, b \in Brackets, q \in 1..Lots : \E f \in 0..q :
    \/ AutoTrade(o, b, q, f)
    \/ AutoTradeUnanswered(o, b, q, f)
    \/ ApproveTrade(o, b, q, f)

SyncStep == ListExecuted("api") \/ Adopt("api") \/ CommitAdopted("api")

Next ==
  \/ CycleStep
  \/ NewOrder
  \/ StartSync \/ SyncStep
  \/ StartApprove \/ CommitApproved
  \/ \E s \in Sessions : Crash(s) \/ ListExecutedFails(s)
  \/ SettleTrades
  \/ \E o \in Orders : CancelResting(o) \/ Fill(o)
  \/ \E b \in Brackets : CloseMarket(b)

Spec == Init /\ [][Next]_vars

(***************************************************************************)
(* Beat starts a cycle every fifteen minutes and the worker runs it, and   *)
(* an order that rests long enough is one day too old, so a sync cannot    *)
(* find it young for ever.  Fills, cancellations, users and market closes  *)
(* need not happen; faults are finitely many.                              *)
(***************************************************************************)
Fairness ==
  /\ WF_vars(CycleStep)
  /\ \A k \in Trades : SF_vars(CancelAged(k))

FairSpec == Spec /\ Fairness

-----------------------------------------------------------------------------
HeldBy(k) == {db[k]} \union {draft[s][k] : s \in Sessions}

(***************************************************************************)
(* No trade, committed or flushed, books more contracts than its order has *)
(* filled on Kalshi, whichever session wrote it and from however old a     *)
(* listing.                                                                *)
(***************************************************************************)
BookedWithinFill ==
  \A k \in Trades : \A r \in HeldBy(k) :
    r.status \in {"OPEN", "SETTLED"} => r.qty <= exch[OrderOf(k)].filled

(***************************************************************************)
(* One trade per order as long as no two sessions were ever active at      *)
(* once, even after crashes and unanswered orders: _order_already_tracked  *)
(* sees every committed trade, whatever its status.                        *)
(***************************************************************************)
OneTradePerOrder ==
  ~overlap =>
    \A o \in Orders :
      Cardinality({s \in Sessions : db[<<o, s>>].status # "NONE"}) <= 1

(***************************************************************************)
(* An order that is executed and recorded is recorded in full, unless it   *)
(* was filled in part when it was placed.                                  *)
(***************************************************************************)
RecordedInFull ==
  \A k \in Trades :
    /\ db[k].status \in {"OPEN", "SETTLED"}
    /\ exch[OrderOf(k)].state = "executed"
    /\ OrderOf(k) \notin partial
    => db[k].qty = exch[OrderOf(k)].filled

(***************************************************************************)
(* A trade leaves the table in the commit of a resting sync whose listing  *)
(* said that its order is canceled, or whose cancel succeeded: then the    *)
(* order is dead on Kalshi, however old the listing is.  The exception is  *)
(* what the code cannot tell apart, an order its listing does not have     *)
(* (scheduler.py, "likely expired"), which may be alive.                   *)
(***************************************************************************)
ForgottenIsDeadOrUnlisted ==
  [][\A k \in Trades :
       db[k].status # "NONE" /\ db'[k].status = "NONE"
       => exch[OrderOf(k)].state = "canceled" \/ Unlisted(k)]_vars

(***************************************************************************)
(* The table catches up with Kalshi: again and again every executed order  *)
(* is recorded (what a crash rolled back or a lost answer hid is adopted   *)
(* by a later portfolio sync) and no trade is RESTING (it was filled,      *)
(* found cancelled, or cancelled for its age, also after a failed cancel). *)
(***************************************************************************)
Reconciled ==
  /\ \A o \in Orders : exch[o].state = "executed" =>
       \E s \in Sessions : db[<<o, s>>].status # "NONE"
  /\ RestingTrades = {}

LedgerCatchesUp == []<>Reconciled

(***************************************************************************)
(* kalshi/models.py on a partial fill: "the resting remainder will be      *)
(* cancelled by _sync_resting_orders on the next cycle".  (Violated.)      *)
(***************************************************************************)
RemainderIsCancelled ==
  \A o \in Orders :
    (o \in partial /\ exch[o].state = "resting") ~> exch[o].state # "resting"

(***************************************************************************)
(* scheduler.py on _get_open_bracket_qty: it is "used to prevent           *)
(* re-buying the same bracket for the same market beyond the configured    *)
(* limit": the orders that only cycles have traded in a bracket hold at    *)
(* most max_contracts_per_bracket OPEN contracts.  (Violated.)             *)
(***************************************************************************)
ByCyclesOnly ==
  {k \in Trades : k[2] = "cycle" /\ View("api", <<OrderOf(k), "api">>) = Absent}

BracketCapHolds ==
  \A b \in Brackets :
    MapThenSumSet(LAMBDA k : db[k].qty,
                  {k \in ByCyclesOnly : /\ db[k].status = "OPEN"
                                        /\ exch[OrderOf(k)].bracket = b}) <= Cap
=============================================================================
