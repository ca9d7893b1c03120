-------------------------------- MODULE Paper --------------------------------
(***************************************************************************)
(* Live paper trading of one forward-only strategy (strategy/paper.py):    *)
(* overlapping cycles that make the due decisions, the hourly settlement,  *)
(* and the kill switch (strategy/monitor.py).  A decision is made for an   *)
(* event: a city and a day.  Money is in cents.                            *)
(***************************************************************************)
EXTENDS Integers, FiniteSetsExt, SequencesExt

CONSTANTS
  PaperEvents,   \* the events, numbered in the order of their days
  PaperTickers,  \* the markets of an event, one to a bracket
  PaperCycles,   \* the runs of paper_cycle that may overlap
  OrderLists,    \* what strategy.decide may answer: sequences of orders, with their quotes
  Budget,        \* BUDGET_CENTS
  Alarm          \* CUSUM_ALARM_CENTS

Sides == {"yes", "no"}

\* An order, with the quotes of its market, if there are any.
Orders == [ticker : PaperTickers, side : Sides, bid : Int, ask : Int, count : Nat \ {0}]

ASSUME PaperAssumption ==
  /\ PaperEvents \subseteq Nat
  /\ OrderLists \subseteq Seq(Orders)
  /\ Budget \in Nat /\ Alarm \in Nat \ {0}

VARIABLES
  state,      \* PaperStrategyState.status
  window,     \* where the decision window of each event is
  result,     \* the market of each event that Kalshi settled as "yes"
  listing,    \* where Kalshi lists the event
  decision,   \* PaperDecision.n_orders by event, or None
  trades,     \* the PaperTrade rows of each event
  deciding,   \* the events each run of paper_cycle has still to decide
  settler     \* the run of paper_settle

paperVars == <<state, window, result, listing, decision, trades, deciding, settler>>

None == -1

PaperResults == PaperTickers \union {"none", "void"}

\* kalshi_fee_cents (taker), and fill_cost_cents: n contracts at price p with it.
Fee(p, n) == (28 * n * p * (100 - p) + 39999) \div 40000
Cost(p, n) == IF n = 0 THEN 0 ELSE p * n + Fee(p, n)

\* side_price_cents: the ask buys "yes", the bid's complement "no"; outside 1..99 there is no
\* quote.
SidePrice(order) == IF order.side = "yes" THEN order.ask ELSE 100 - order.bid

PaperTrades ==
  [ticker : PaperTickers, side : Sides, price : 1..99, count : Nat \ {0},
   status : {"open", "settled", "void"}]

PaperTypeOK ==
  /\ state \in {"none", "active", "stopped"}
  /\ window \in [PaperEvents -> {"before", "open", "after"}]
  /\ result \in [PaperEvents -> PaperResults]
  /\ listing \in [PaperEvents -> {"live", "historical"}]
  /\ decision \in [PaperEvents -> Nat \union {None}]
  /\ trades \in [PaperEvents -> Seq(PaperTrades)]
  /\ deciding \in [PaperCycles -> SUBSET PaperEvents]
  /\ settler \in {"idle", "monitors"}

PaperInit ==
  /\ state = "none"
  /\ window = [e \in PaperEvents |-> "before"]
  /\ result = [e \in PaperEvents |-> "none"]
  /\ listing = [e \in PaperEvents |-> "live"]
  /\ decision = [e \in PaperEvents |-> None]
  /\ trades = [e \in PaperEvents |-> <<>>]
  /\ deciding = [c \in PaperCycles |-> {}]
  /\ settler = "idle"

-----------------------------------------------------------------------------
(* Time and Kalshi.  Windows open in the order of the days.                *)

MoveWindow(e) ==
  /\ \/ /\ window[e] = "before" /\ \A d \in PaperEvents : d < e => window[d] # "before"
        /\ window' = [window EXCEPT ![e] = "open"]
     \/ window[e] = "open" /\ window' = [window EXCEPT ![e] = "after"]
  /\ UNCHANGED <<state, result, listing, decision, trades, deciding, settler>>

SettleMarkets(e) ==
  /\ window[e] = "after" /\ result[e] = "none"
  /\ \E r \in PaperResults \ {"none"} : result' = [result EXCEPT ![e] = r]
  /\ UNCHANGED <<state, window, listing, decision, trades, deciding, settler>>

\* A settled event leaves the live listing in the end.
MoveToHistory(e) ==
  /\ result[e] # "none" /\ listing[e] = "live"
  /\ listing' = [listing EXCEPT ![e] = "historical"]
  /\ UNCHANGED <<state, window, result, decision, trades, deciding, settler>>

-----------------------------------------------------------------------------
(* A run of paper_cycle.                                                   *)

\* _get_state: a new strategy is active.
GetState == IF state = "none" THEN "active" ELSE state

\* due_event_date: the decision time is in the window.
Due(e) == window[e] = "open"

BeginCycle(c) ==
  /\ deciding[c] = {}
  /\ state' = GetState /\ GetState = "active"
  /\ deciding' = [deciding EXCEPT ![c] = {e \in PaperEvents : Due(e) /\ decision[e] = None}]
  /\ deciding'[c] # {}
  /\ UNCHANGED <<window, result, listing, decision, trades, settler>>

\* fill_order: as many contracts as the budget left allows.
Filled(order, left) ==
  IF SidePrice(order) \notin 1..99 THEN 0
  ELSE Max({n \in 0..order.count : Cost(SidePrice(order), n) <= left})

\* There are no orders when build_live_snapshot finds a bracket that is not active or
\* brackets that do not tile, or when the model's inputs are missing.
Decisions == OrderLists \union {<<>>}

\* One round of _decide_one's loop: a fill within the budget that the fills before it left.
FillOne(acc, order) ==
  LET n == Filled(order, acc.left) IN
  IF n = 0 THEN acc
  ELSE [left |-> acc.left - Cost(SidePrice(order), n),
        rows |-> Append(acc.rows, [ticker |-> order.ticker, side |-> order.side,
                                   price |-> SidePrice(order), count |-> n, status |-> "open"])]

FillAll(orders) ==
  LET filled[i \in 0..Len(orders)] ==
        IF i = 0 THEN [left |-> Budget, rows |-> <<>>] ELSE FillOne(filled[i - 1], orders[i])
  IN filled[Len(orders)]

\* The fills of a list of orders.
Fills == [orders \in Decisions |-> FillAll(orders).rows]

Done(c, e) == [deciding EXCEPT ![c] = @ \ {e}]

\* Mutant: the decision is upserted, as other tables are, and its trades inserted.
DecideAnyway(c, e, orders) ==
  /\ e \in deciding[c]
  /\ decision' = [decision EXCEPT ![e] = Len(Fills[orders])]
  /\ trades' = [trades EXCEPT ![e] = @ \o Fills[orders]]
  /\ deciding' = Done(c, e)
  /\ UNCHANGED <<state, window, result, listing, settler>>

\* _decide_one and the commit: decision and trades, or neither.  The decision's primary
\* key is the event: the second to insert it fails, which ends the run.
DecideOne(c, e, orders) ==
  /\ e \in deciding[c]
  /\ IF decision[e] = None
     THEN /\ decision' = [decision EXCEPT ![e] = Len(Fills[orders])]
          /\ trades' = [trades EXCEPT ![e] = @ \o Fills[orders]]
          /\ deciding' = Done(c, e)
     ELSE deciding' = [deciding EXCEPT ![c] = {}] /\ UNCHANGED <<decision, trades>>
  /\ UNCHANGED <<state, window, result, listing, settler>>

\* An error or a kill: what was not committed is undone, the other events are left.
CycleFails(c) ==
  /\ deciding[c] # {}
  /\ deciding' = [deciding EXCEPT ![c] = {}]
  /\ UNCHANGED <<state, window, result, listing, decision, trades, settler>>

-----------------------------------------------------------------------------
(* A run of paper_settle.                                                  *)

\* get_event_markets, of the live listing and then of the historical one.
Listed(historical) == {e \in PaperEvents : historical = (listing[e] = "historical")}

\* What the settlement makes of a trade, given its market's result.
Closed(trade, r) ==
  IF trade.status # "open" \/ r = "none" THEN trade
  ELSE [trade EXCEPT !.status = IF r = "void" THEN "void" ELSE "settled"]

SettledRows(known) ==
  [e \in PaperEvents |->
     [i \in DOMAIN trades[e] |-> IF e \in known THEN Closed(trades[e][i], result[e])
                                 ELSE trades[e][i]]]

\* Mutant: no second look, in the historical listing.
SettleLiveOnly ==
  /\ settler = "idle"
  /\ trades' = SettledRows(Listed(FALSE))
  /\ settler' = "monitors"
  /\ UNCHANGED <<state, window, result, listing, decision, deciding>>

\* All open trades of past days, in one transaction.  When one request fails, so does all.
SettlePaperTrades ==
  /\ settler = "idle"
  /\ trades' = SettledRows(Listed(FALSE) \union Listed(TRUE))
  /\ settler' = "monitors"
  /\ UNCHANGED <<state, window, result, listing, decision, deciding>>

Total(rows, Value(_)) ==
  LET sum[n \in 0..Len(rows)] == IF n = 0 THEN 0 ELSE sum[n - 1] + Value(rows[n])
  IN sum[Len(rows)]

\* What trades cost, with their fees.
Spent(rows) == Total(rows, LAMBDA trade : Cost(trade.price, trade.count))

\* settle_pnl_cents of an event's trades, once its markets have result r.
Payout(trade, r) ==
  (IF (trade.side = "yes") = (trade.ticker = r) THEN 100 * trade.count ELSE 0) - Cost(trade.price, trade.count)

Profit(e, rows) == Total(rows, LAMBDA trade : Payout(trade, result[e]))

InOrder == SetToSortSeq(PaperEvents, <)

\* The CUSUM of evaluate_monitor over the days' profits, of the trades with one of these
\* statuses: has it ever reached the alarm?
Alarms(statuses) ==
  LET cusum[i \in 0..Len(InOrder)] ==
        IF i = 0 THEN 0
        ELSE LET loss == cusum[i - 1]
                         - Profit(InOrder[i], SelectSeq(trades[InOrder[i]],
                                                        LAMBDA trade : trade.status \in statuses))
             IN IF loss < 0 THEN 0 ELSE loss
  IN \E i \in DOMAIN InOrder : cusum[i] >= Alarm

\* What the SPRT of a strategy with a model may say: it needs a settled trade to stop one.
SprtStops ==
  {FALSE} \union
  {TRUE : e \in {e \in PaperEvents : \E i \in DOMAIN trades[e] : trades[e][i].status = "settled"}}

\* The kill switch.
EvaluateMonitor ==
  /\ settler = "monitors"
  /\ \E sprt \in SprtStops :
       state' = IF state = "active" /\ (sprt \/ Alarms({"settled"})) THEN "stopped" ELSE state
  /\ settler' = "idle"
  /\ UNCHANGED <<window, result, listing, decision, trades, deciding>>

\* Killed between its two commits.
SettlerDies ==
  /\ settler = "monitors"
  /\ settler' = "idle"
  /\ UNCHANGED <<state, window, result, listing, decision, trades, deciding>>

-----------------------------------------------------------------------------
PaperNext ==
  \/ \E e \in PaperEvents : MoveWindow(e) \/ SettleMarkets(e) \/ MoveToHistory(e)
  \/ \E c \in PaperCycles :
       \/ BeginCycle(c)
       \/ \E e \in PaperEvents, orders \in Decisions : DecideOne(c, e, orders)
       \/ CycleFails(c)
  \/ SettlePaperTrades
  \/ EvaluateMonitor
  \/ SettlerDies

PaperSpec == PaperInit /\ [][PaperNext]_paperVars

\* The settlement runs every hour; its requests succeed and it is not killed, now and then.
PaperFairness == WF_paperVars(SettlePaperTrades) /\ SF_paperVars(EvaluateMonitor)

-----------------------------------------------------------------------------
(***************************************************************************)
(* "Per strategy x city x event day it acts at most once": the trades of   *)
(* an event are those of its one decision, and cost no more than the       *)
(* budget with their fees, however many runs overlap, fail and are         *)
(* repeated.                                                               *)
(***************************************************************************)
PaperActsOnce ==
  \A e \in PaperEvents :
    /\ Len(trades[e]) = IF decision[e] = None THEN 0 ELSE decision[e]
    /\ Spent(trades[e]) <= Budget

(***************************************************************************)
(* The kill switch: when the trades lose the alarm's amount by Kalshi's    *)
(* results, the strategy is stopped in the end, through lost runs, events  *)
(* that left the live listing, and a run killed between its commits.       *)
(***************************************************************************)
LossesStopPaper ==
  LET known == \A e \in PaperEvents : trades[e] = <<>> \/ result[e] \in PaperTickers
  IN PaperFairness => []<>(known /\ Alarms({"open", "settled"}) => state = "stopped")
==============================================================================
