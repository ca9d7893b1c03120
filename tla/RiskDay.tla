------------------------------ MODULE RiskDay ------------------------------
(***************************************************************************)
(* The daily risk state: settlement counts losses and starts cooldowns     *)
(* (trading/cooldown.py, scheduler._settle_and_postmortem), the trading    *)
(* cycle obeys them and the exposure and loss limits (risk_manager.py).    *)
(*                                                                         *)
(* Settlement runs at the start of each trading cycle and as a beat task   *)
(* at 9:00, which is also a cycle minute: two workers may settle at once.  *)
(* Each runs one READ COMMITTED transaction: it lists the OPEN trades that *)
(* Kalshi has settled, updates them one after the other (by primary key,   *)
(* without looking at the status again) and after each reads today's       *)
(* DailyRiskState row, computes in Python and updates the changed columns. *)
(* An UPDATE takes the row lock and keeps it until commit or rollback; an  *)
(* INSERT blocks other INSERTs of the same day until then.                 *)
(*                                                                         *)
(* Money is counted in trades: each costs, and pays, one unit.             *)
(***************************************************************************)
EXTENDS Integers, FiniteSets, Sequences

CONSTANTS
  Trades,       \* trades that may be bought
  Settlers,     \* the sessions that settle
  Trader,       \* the session of the cycle's trading part
  None,         \* no session, no trade
  DayLength,    \* ticks in a trading day
  Evening,      \* ticks at the end of the ET day that are tomorrow in UTC
  Days,         \* bound: the trading days of a behaviour, 0..n
  PerLoss,      \* cooldown_per_loss_minutes, as _load_user_settings reads it
  Limit,        \* consecutive_loss_limit, as _load_user_settings reads it
  MaxExposure,  \* max_daily_exposure
  LossLimit,    \* daily_loss_limit
  MaxFaults     \* bound: sessions killed or failing, and changes of the toggle

ASSUME SessionsAreDistinct ==
  None \notin Settlers \union {Trader} /\ Trader \notin Settlers /\ None \notin Trades
ASSUME TradesAreFinite == IsFiniteSet(Trades)
ASSUME LimitsArePositive ==
  /\ DayLength \in Nat \ {0} /\ Evening \in 0..(DayLength - 1) /\ Days \in Nat
  /\ MaxFaults \in Nat
  /\ PerLoss \in Nat \ {0} /\ Limit \in Nat \ {0}
  /\ MaxExposure \in Nat /\ LossLimit \in Nat \ {0}

VARIABLES
  now,        \* the wall clock, Eastern Time
  limitOn,    \* enable_consecutive_loss_limit
  result,     \* what Kalshi says of each trade's market
  trade,      \* committed trades
  risk,       \* committed DailyRiskState rows
  tradeLock,  \* who has an uncommitted UPDATE of a trade
  dayLock,    \* who has an uncommitted INSERT or UPDATE of a day's row
  settler,    \* the settlement sessions
  trader,     \* the trading session
  hist,       \* history: the outcomes each day's row was told of, in order of commit
  settledOn,  \* history: the day of the first commit of each trade's outcome
  overlap,    \* history: two settlements were under way at once
  tied,       \* history: the settlements under way that have met another, or a midnight
  crowded,    \* history: a tied one met another, or a midnight
  toggled,    \* history: the consecutive-loss toggle was changed
  faults

history == <<hist, settledOn, overlap, tied, crowded>>
vars == <<now, limitOn, result, trade, risk, tradeLock, dayLock, settler, trader,
          history, toggled, faults>>

DaySet == 0..Days
Horizon == (Days + 1) * DayLength
Day(tick) == tick \div DayLength
Today == Day(now)
UtcDay(tick) == (tick + Evening) \div DayLength
EndOfDay == (Today + 1) * DayLength   \* 23:59:59, the last thing of the day

Outcomes == {"WON", "LOST"}
Cooldown == 0..(Horizon + PerLoss)    \* cooldown_until; 0 is NULL
Row == [losses : Nat, until : Cooldown]
NoRow == [losses |-> -1, until |-> -1]
FreshRow == [losses |-> 0, until |-> 0]

NoDay == -1

Idle == [step |-> "idle", todo |-> {}, next |-> None, day |-> 0, seen |-> NoRow, new |-> NoRow,
         draft |-> [d \in DaySet |-> NoRow], done |-> [t \in Trades |-> NoDay],
         told |-> [d \in DaySet |-> <<>>]]
Resting == [active |-> FALSE, limitOn |-> FALSE, draft |-> [d \in DaySet |-> NoRow],
            cleared |-> None, placed |-> {}]

Settlement ==
  [step : {"idle", "settle", "load", "write"}, todo : SUBSET Trades, next : Trades \union {None},
   day : DaySet, seen : Row \union {NoRow}, new : Row \union {NoRow},
   draft : [DaySet -> Row \union {NoRow}], done : [Trades -> DaySet \union {NoDay}],
   told : [DaySet -> Seq(Outcomes)]]
Trading ==
  [active : BOOLEAN, limitOn : BOOLEAN, draft : [DaySet -> Row \union {NoRow}],
   cleared : Trades \union {None}, placed : SUBSET Trades]

TypeOK ==
  /\ now \in 0..(Horizon - 1)
  /\ limitOn \in BOOLEAN
  /\ result \in [Trades -> Outcomes \union {"OPEN"}]
  /\ trade \in [Trades -> [status : Outcomes \union {"NONE", "OPEN"}, at : 0..(Horizon - 1)]]
  /\ risk \in [DaySet -> Row \union {NoRow}]
  /\ tradeLock \in [Trades -> Settlers \union {None}]
  /\ dayLock \in [DaySet -> Settlers \union {Trader, None}]
  /\ settler \in [Settlers -> Settlement]
  /\ trader \in Trading
  /\ hist \in [DaySet -> Seq(Outcomes)] /\ settledOn \in [Trades -> DaySet \union {NoDay}]
  /\ overlap \in BOOLEAN /\ tied \subseteq Settlers /\ crowded \in BOOLEAN
  /\ toggled \in BOOLEAN /\ faults \in 0..MaxFaults

Init ==
  /\ now = 0
  /\ limitOn = TRUE        \* the column's default
  /\ result = [t \in Trades |-> "OPEN"]
  /\ trade = [t \in Trades |-> [status |-> "NONE", at |-> 0]]
  /\ risk = [d \in DaySet |-> NoRow]
  /\ tradeLock = [t \in Trades |-> None]
  /\ dayLock = [d \in DaySet |-> None]
  /\ settler = [s \in Settlers |-> Idle]
  /\ trader = Resting
  /\ hist = [d \in DaySet |-> <<>>]
  /\ settledOn = [t \in Trades |-> NoDay]
  /\ overlap = FALSE /\ tied = {} /\ crowded = FALSE
  /\ toggled = FALSE
  /\ faults = 0

Released(lock, s) == [x \in DOMAIN lock |-> IF lock[x] = s THEN None ELSE lock[x]]
Fault == faults < MaxFaults /\ faults' = faults + 1

-----------------------------------------------------------------------------
(* Settlement: _settle_and_postmortem and CooldownManager.                 *)

\* The lock a session's next statement needs.
Asks(s) == (settler[s].step = "settle" /\ settler[s].todo # {})
           \/ (settler[s].step = "write" /\ settler[s].new # settler[s].seen)
Holder(s) == IF settler[s].step = "settle" THEN tradeLock[settler[s].next]
             ELSE dayLock[settler[s].day]
Waits(s, r) == Asks(s) /\ Holder(s) = r

\* Mutant: only the trades dated yesterday are looked at.
SettleableYesterday ==
  {t \in Trades : /\ trade[t].status = "OPEN" /\ result[t] # "OPEN"
                  /\ UtcDay(trade[t].at) = Today - 1}

Settleable == {t \in Trades : trade[t].status = "OPEN" /\ result[t] # "OPEN"}

UnderWay == {s \in Settlers : settler[s].step # "idle"}

\* The SELECT has no ORDER BY: the next trade may be any.  A cycle settles before it trades.
\* The SELECT sees nothing uncommitted, so it may as well come after the statements that can
\* run now: a released row goes to the session that waits for it.
BeginSettlement(s) ==
  /\ settler[s].step = "idle"
  /\ ~(s = "cycle" /\ trader.active)
  /\ \A r \in Settlers : ~Waits(r, None)
  /\ \E t \in Settleable :
       settler' = [settler EXCEPT ![s] =
                     [Idle EXCEPT !.step = "settle", !.todo = Settleable, !.next = t]]
  /\ overlap' = (overlap \/ UnderWay # {})
  /\ tied' = IF UnderWay = {} THEN tied ELSE tied \union UnderWay \union {s}
  /\ crowded' = (crowded \/ UnderWay \intersect tied # {})
  /\ UNCHANGED <<now, limitOn, result, trade, risk, tradeLock, dayLock, trader, hist,
                 settledOn, toggled, faults>>

\* Mutant: the trade is kept for one UPDATE at the end, no row is locked on the way.
SettleTradeUnlocked(s) ==
  /\ settler[s].step = "settle" /\ settler[s].todo # {}
  /\ tradeLock' = [tradeLock EXCEPT ![settler[s].next] = s]
  /\ settler' = [settler EXCEPT ![s].step = "load"]
  /\ UNCHANGED <<now, limitOn, result, trade, risk, dayLock, trader, history, toggled, faults>>

\* settle_from_kalshi: the UPDATE of the trade.
SettleTrade(s) ==
  /\ settler[s].step = "settle" /\ settler[s].todo # {}
  /\ tradeLock[settler[s].next] \in {None, s}
  /\ tradeLock' = [tradeLock EXCEPT ![settler[s].next] = s]
  /\ settler' = [settler EXCEPT ![s].step = "load"]
  /\ UNCHANGED <<now, limitOn, result, trade, risk, dayLock, trader, history, toggled, faults>>

\* Mutants: a win takes one loss off; the limit bites one loss late.
AfterOutcomeDecrements(row, outcome) ==
  IF outcome = "WON" THEN [row EXCEPT !.losses = @ - 1]
  ELSE [losses |-> row.losses + 1,
        until |-> IF limitOn /\ row.losses + 1 >= Limit THEN EndOfDay ELSE now + PerLoss]
AfterOutcomeKeepsStreak(row, outcome) ==
  IF outcome = "WON" THEN row
  ELSE [losses |-> row.losses + 1,
        until |-> IF limitOn /\ row.losses + 1 >= Limit THEN EndOfDay ELSE now + PerLoss]
AfterOutcomeLate(row, outcome) ==
  IF outcome = "WON" THEN [row EXCEPT !.losses = 0]
  ELSE [losses |-> row.losses + 1,
        until |-> IF limitOn /\ row.losses + 1 > Limit THEN EndOfDay ELSE now + PerLoss]

\* on_trade_win keeps the timer; on_trade_loss starts one and counts.
AfterOutcome(row, outcome) ==
  IF outcome = "WON" THEN [row EXCEPT !.losses = 0]
  ELSE [losses |-> row.losses + 1,
        until |-> IF limitOn /\ row.losses + 1 >= Limit THEN EndOfDay ELSE now + PerLoss]

\* What a session reads of a day: its own uncommitted row, else the committed one.
RowSeenBy(s, d) == IF dayLock[d] = s THEN settler[s].draft[d] ELSE risk[d]

\* The SELECTs of the settings and of today's row, and what follows in Python.
LoadDay(s) ==
  LET seen == RowSeenBy(s, Today)
      base == IF seen = NoRow THEN FreshRow ELSE seen
  IN
  /\ settler[s].step = "load"
  /\ settler' = [settler EXCEPT
       ![s].step = "write", ![s].day = Today, ![s].seen = seen,
       ![s].new = AfterOutcome(base, result[settler[s].next])]
  /\ UNCHANGED <<now, limitOn, result, trade, risk, tradeLock, dayLock, trader, history,
                 toggled, faults>>

\* An UPDATE sets the changed columns of whatever the row has become.
Update(current, seen, new) ==
  [losses |-> IF new.losses = seen.losses THEN current.losses ELSE new.losses,
   until |-> IF new.until = seen.until THEN current.until ELSE new.until]

\* The row is told of the trade; the loop goes on to another, if there is one.
Counted(s, holder, row) ==
  LET this == settler[s]
      left == this.todo \ {this.next}
  IN
  /\ dayLock' = [dayLock EXCEPT ![this.day] = holder]
  /\ \E t \in IF left = {} THEN {None} ELSE left :
       settler' = [settler EXCEPT ![s] =
         [this EXCEPT !.step = "settle", !.todo = left, !.next = t, !.seen = NoRow, !.new = NoRow,
                      !.draft[this.day] = row, !.done[this.next] = this.day,
                      !.told[this.day] = Append(@, result[this.next])]]
  /\ UNCHANGED <<now, limitOn, result, trade, risk, tradeLock, trader, history, toggled, faults>>

\* No column changed (a win, no losses to forget): nothing is sent.
CountNothing(s) ==
  LET d == settler[s].day IN
  /\ settler[s].step = "write"
  /\ settler[s].new = settler[s].seen
  /\ Counted(s, dayLock[d], settler[s].draft[d])

\* The INSERT or UPDATE, once the row is free.
CountOutcome(s) ==
  LET d == settler[s].day
      seen == settler[s].seen
      new == settler[s].new
  IN
  /\ settler[s].step = "write"
  /\ new # seen
  /\ dayLock[d] \in {None, s}
  /\ seen = NoRow => risk[d] = NoRow
  /\ Counted(s, s, IF seen = NoRow THEN new ELSE Update(RowSeenBy(s, d), seen, new))

Abandon(s) ==
  /\ settler' = [settler EXCEPT ![s] = Idle]
  /\ tradeLock' = Released(tradeLock, s)
  /\ dayLock' = Released(dayLock, s)
  /\ tied' = tied \ {s}
  /\ UNCHANGED <<now, limitOn, result, trade, risk, trader, hist, settledOn, overlap, crowded,
                 toggled>>

\* Someone else created today's row meanwhile: IntegrityError, rollback.
DuplicateDay(s) ==
  /\ settler[s].step = "write" /\ settler[s].seen = NoRow
  /\ dayLock[settler[s].day] = None /\ risk[settler[s].day] # NoRow
  /\ Abandon(s)
  /\ UNCHANGED faults

\* PostgreSQL's deadlock detector.
DeadlockVictim(s) ==
  /\ \E r \in Settlers \ {s} : Waits(s, r) /\ Waits(r, s)
  /\ Abandon(s)
  /\ UNCHANGED faults

CrashSettlement(s) ==
  /\ settler[s].step # "idle"
  /\ Fault
  /\ Abandon(s)

CommitSettlement(s) ==
  /\ settler[s].step = "settle" /\ settler[s].todo = {}
  /\ trade' = [t \in Trades |-> IF tradeLock[t] = s
                                THEN [trade[t] EXCEPT !.status = result[t]] ELSE trade[t]]
  /\ risk' = [d \in DaySet |-> IF dayLock[d] = s THEN settler[s].draft[d] ELSE risk[d]]
  /\ hist' = [d \in DaySet |-> hist[d] \o settler[s].told[d]]
  /\ settledOn' = [t \in Trades |-> IF settledOn[t] = NoDay THEN settler[s].done[t]
                                    ELSE settledOn[t]]
  /\ tradeLock' = Released(tradeLock, s)
  /\ dayLock' = Released(dayLock, s)
  /\ settler' = [settler EXCEPT ![s] = Idle]
  /\ tied' = tied \ {s}
  /\ UNCHANGED <<now, limitOn, result, trader, overlap, crowded, toggled, faults>>

-----------------------------------------------------------------------------
(* The cycle's trading part: handle_daily_reset, check_trade, execution.   *)

\* The cycle reads the settings once; handle_daily_reset inserts the day's row
\* (a cycle that loses this race to a settlement fails, having done nothing).
StartTrading ==
  /\ ~trader.active
  /\ "cycle" \in Settlers => settler["cycle"].step = "idle"
  /\ risk[Today] = NoRow => dayLock[Today] = None
  /\ trader' = [Resting EXCEPT !.active = TRUE, !.limitOn = limitOn,
                  !.draft[Today] = IF risk[Today] = NoRow THEN FreshRow ELSE NoRow]
  /\ dayLock' = IF risk[Today] = NoRow THEN [dayLock EXCEPT ![Today] = Trader] ELSE dayLock
  /\ UNCHANGED <<now, limitOn, result, trade, risk, tradeLock, settler, history, toggled, faults>>

\* _get_daily_state: the row as the trading session sees it now.
TodaysRow == IF dayLock[Today] = Trader THEN trader.draft[Today] ELSE risk[Today]

Running == TodaysRow # NoRow /\ now < TodaysRow.until
RestOfDay == TodaysRow.until = EndOfDay /\ TodaysRow.losses >= Limit

\* is_cooldown_active clears a rest-of-day cooldown once its toggle is off.  (The
\* per-loss toggle is always on: _load_user_settings does not read it.)
ClearStaleCooldown ==
  /\ trader.active /\ trader.cleared = None
  /\ Running /\ RestOfDay /\ ~trader.limitOn
  /\ dayLock[Today] \in {None, Trader}
  /\ dayLock' = [dayLock EXCEPT ![Today] = Trader]
  /\ trader' = [trader EXCEPT !.draft[Today] = [TodaysRow EXCEPT !.until = 0]]
  /\ UNCHANGED <<now, limitOn, result, trade, risk, tradeLock, settler, history, toggled, faults>>

\* get_daily_pnl_cents compares the UTC date of purchase with the ET trading day.
StampedOn(d, status) ==
  Cardinality({t \in Trades : UtcDay(trade[t].at) = d /\ trade[t].status = status})
DailyPnl == StampedOn(Today, "WON") - StampedOn(Today, "LOST")

\* get_open_exposure_cents, this session's own flushed trades included.
OpenTrades == {t \in Trades : trade[t].status = "OPEN"} \union trader.placed

\* check_trade, in its order.
CheckTrade(t) ==
  /\ trader.active /\ trader.cleared = None
  /\ trade[t].status = "NONE" /\ t \notin trader.placed
  /\ ~Running
  /\ Cardinality(OpenTrades) + 1 <= MaxExposure
  /\ DailyPnl > -LossLimit
  /\ trader' = [trader EXCEPT !.cleared = t]
  /\ UNCHANGED <<now, limitOn, result, trade, risk, tradeLock, dayLock, settler, history,
                 toggled, faults>>

\* The order fills; the Trade is flushed.
PlaceTrade ==
  /\ trader.active /\ trader.cleared # None
  /\ trader' = [trader EXCEPT !.placed = @ \union {trader.cleared}, !.cleared = None]
  /\ trade' = [trade EXCEPT ![trader.cleared].at = now]
  /\ UNCHANGED <<now, limitOn, result, risk, tradeLock, dayLock, settler, history, toggled, faults>>

\* The order is refused, or nothing filled: no trade to count.
SkipTrade ==
  /\ trader.active /\ trader.cleared # None
  /\ trader' = [trader EXCEPT !.cleared = None]
  /\ UNCHANGED <<now, limitOn, result, trade, risk, tradeLock, dayLock, settler, history,
                 toggled, faults>>

EndTrading(commit) ==
  /\ trader.active
  /\ trader' = Resting
  /\ trade' = [t \in Trades |-> IF commit /\ t \in trader.placed
                                THEN [trade[t] EXCEPT !.status = "OPEN"] ELSE trade[t]]
  /\ risk' = [d \in DaySet |-> IF commit /\ dayLock[d] = Trader
                               THEN trader.draft[d] ELSE risk[d]]
  /\ dayLock' = Released(dayLock, Trader)
  /\ UNCHANGED <<now, limitOn, result, tradeLock, settler, history, toggled>>

CommitTrading == trader.cleared = None /\ EndTrading(TRUE) /\ UNCHANGED faults

\* An early return (cooldown, no predictions): closed without a commit.
ReturnEarly ==
  /\ trader.cleared = None /\ trader.placed = {}
  /\ EndTrading(FALSE)
  /\ UNCHANGED faults

CrashTrading == EndTrading(FALSE) /\ Fault

-----------------------------------------------------------------------------
\* Kalshi settles a market once its day, at the earliest that of the purchase,
\* is over.
Announce(t, outcome) ==
  /\ result[t] = "OPEN" /\ trade[t].status = "OPEN" /\ Today > Day(trade[t].at)
  /\ result' = [result EXCEPT ![t] = outcome]
  /\ UNCHANGED <<now, limitOn, trade, risk, tradeLock, dayLock, settler, trader, history,
                 toggled, faults>>

\* The settings page.
ToggleLimit ==
  /\ Fault
  /\ toggled' = TRUE
  /\ limitOn' = ~limitOn
  /\ UNCHANGED <<now, result, trade, risk, tradeLock, dayLock, settler, trader, history>>

Tick ==
  /\ now < Horizon - 1
  /\ now' = now + 1
  /\ IF Day(now + 1) = Today THEN UNCHANGED <<tied, crowded>>
     ELSE tied' = UnderWay /\ crowded' = (crowded \/ tied # {})
  /\ UNCHANGED <<limitOn, result, trade, risk, tradeLock, dayLock, settler, trader, hist,
                 settledOn, overlap, toggled, faults>>

SettlementStep(s) ==
  \/ BeginSettlement(s)
  \/ SettleTrade(s)
  \/ LoadDay(s)
  \/ CountNothing(s)
  \/ CountOutcome(s)
  \/ DuplicateDay(s)
  \/ DeadlockVictim(s)
  \/ CommitSettlement(s)

TradingStep ==
  \/ StartTrading
  \/ ClearStaleCooldown
  \/ PlaceTrade
  \/ SkipTrade
  \/ CommitTrading
  \/ ReturnEarly

Next ==
  \/ \E s \in Settlers : SettlementStep(s) \/ CrashSettlement(s)
  \/ TradingStep
  \/ CrashTrading
  \/ \E t \in Trades : CheckTrade(t) \/ \E o \in Outcomes : Announce(t, o)
  \/ ToggleLimit
  \/ Tick

Spec == Init /\ [][Next]_vars

\* Every cycle settles before it trades, the beat task settles every day, and
\* PostgreSQL queues those who wait for a row: a step that keeps becoming possible
\* is taken.  A cycle scans finitely many signals and ends.  Nobody has to trade, and
\* time need not pass.
Fairness ==
  /\ \A s \in Settlers : SF_vars(SettlementStep(s))
  /\ WF_vars(PlaceTrade \/ SkipTrade)
  /\ SF_vars(CommitTrading \/ ReturnEarly)

FairSpec == Spec /\ Fairness

-----------------------------------------------------------------------------
(* Properties.                                                             *)

Count(seq, outcome) == Cardinality({i \in DOMAIN seq : seq[i] = outcome})
Losses(d) == IF risk[d] = NoRow THEN 0 ELSE risk[d].losses

\* The number of losses at the end of a day's outcomes.
Streak(seq) ==
  CHOOSE n \in 0..Len(seq) :
    /\ \A i \in (Len(seq) - n + 1)..Len(seq) : seq[i] = "LOST"
    /\ n < Len(seq) => seq[Len(seq) - n] = "WON"

\* consecutive_losses is the day's current losing streak, whatever crashes,
\* rollbacks, midnights and daily resets happened on the way, as long as no two
\* settlements ran at once (on_trade_loss, on_trade_win, handle_daily_reset).
StreakIsCounted == ~overlap => \A d \in DaySet : Losses(d) = Streak(hist[d])

SettledOn(d, outcome) == {t \in Trades : settledOn[t] = d /\ trade[t].status = outcome}

\* Even when two settlements overlap, as at 9:00, no loss is lost: on a day without a win
\* every settled loss is in the counter, however stale the row it was added to.  The row
\* locks of the trades force the slower one to count the faster one's losses again, though the
\* counter is read without FOR UPDATE (settle_from_kalshi, on_trade_loss).  Three in a
\* chain, or two around a midnight, can lose one.
NoLossForgotten ==
  ~crowded => \A d \in DaySet : SettledOn(d, "WON") = {} =>
                Losses(d) >= Cardinality(SettledOn(d, "LOST"))

EndsInStreak(seq) ==
  /\ Len(seq) >= Limit
  /\ \A i \in (Len(seq) - Limit + 1)..Len(seq) : seq[i] = "LOST"

\* While the day's last outcomes are consecutive_loss_limit losses no trade passes
\* check_trade, however the settlement and the cycle interleave.
PausedAfterStreak ==
  [][ trader'.cleared # None /\ trader'.cleared # trader.cleared
      /\ ~toggled /\ ~overlap => ~EndsInStreak(hist[Today]) ]_vars

\* A trade whose market Kalshi has settled is settled, in spite of crashes,
\* rollbacks and deadlocks.
ResultIsSettled ==
  \A t \in Trades : result[t] # "OPEN" ~> trade[t].status \in Outcomes

\* DailyRiskState "Uses SELECT FOR UPDATE for concurrency safety"
\* (common/models.py:297) and on_trade_loss increments consecutive_losses "when a
\* trade settles as a loss": a loss is counted once.
CountsEachLossOnce == \A d \in DaySet : Losses(d) <= Cardinality(SettledOn(d, "LOST"))

\* "daily loss hit -> no more trades" (PRD.md:766); get_daily_pnl_cents: "Net P&L
\* in cents for the current trading day".
DailyLossStops ==
  [][ trader'.cleared # None /\ trader'.cleared # trader.cleared
      => Count(hist[Today], "LOST") - Count(hist[Today], "WON") < LossLimit ]_vars
=============================================================================
