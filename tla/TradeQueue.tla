----------------------------- MODULE TradeQueue -----------------------------
(***************************************************************************)
(* The manual-approval queue: backend/trading/trade_queue.py driven by the *)
(* trading cycle (which queues), the approve and reject endpoints of       *)
(* backend/api/queue.py, and the beat task that expires stale rows.        *)
(*                                                                         *)
(* Every actor runs in its own SQLAlchemy session on PostgreSQL (READ      *)
(* COMMITTED).  The handlers read a row without FOR UPDATE, decide on what *)
(* they read, and flush an UPDATE ... WHERE id = :id: the flush takes the  *)
(* row lock (or waits for it) and holds it until commit or rollback, but   *)
(* does not look at the status again.  The sweep is one UPDATE ... WHERE   *)
(* status = 'PENDING' AND expires_at < :now, which PostgreSQL re-evaluates *)
(* on each row once it has the lock.                                       *)
(*                                                                         *)
(* "row" holds what is committed.  APPROVED is only ever flushed, never    *)
(* committed, so it appears as the lock holder's pc, not as a status.      *)
(***************************************************************************)
EXTENDS Naturals, FiniteSets

CONSTANTS
  Trades,      \* identities of pending_trades rows
  Keys,        \* (city, bracket, side, ticker): what a duplicate is
  Requests,    \* approve / reject requests the API serves at once
  Sweep,       \* the session of the expiry task
  None,        \* no session (of a row lock), no row (of an idle request)
  Ttl,         \* PENDING_TRADE_TTL_MINUTES
  MaxTime,     \* bound: the clock stops here
  MaxOrders,   \* bound: orders sent to Kalshi for one row
  MaxFaults    \* bound: crashes, and answers lost after an order was placed

ASSUME SessionsAreDistinct ==
  Sweep \notin Requests /\ None \notin Requests \union Trades /\ Sweep # None
ASSUME BoundsAreNat ==
  Ttl \in Nat /\ MaxTime \in Nat /\ MaxOrders \in Nat /\ MaxFaults \in Nat

VARIABLES
  row,         \* committed rows; NEW is inserted but not committed
  lock,        \* the session with an uncommitted UPDATE of the row
  req,         \* the requests in progress
  sweep,       \* the expiry task: its cutoff and the rows it has yet to visit
  orders,      \* orders live on Kalshi for each row
  booked,      \* committed Trade records of those orders
  overwritten, \* history: a request's UPDATE replaced a decided status
  now, faults

vars == <<row, lock, req, sweep, orders, booked, overwritten, now, faults>>

Statuses == {"NONE", "NEW", "PENDING", "EXECUTED", "REJECTED", "EXPIRED"}
Steps == {"idle", "approving", "approved", "placed", "reverting",
          "rejecting", "rejected"}
\* The steps of a request at which its UPDATE is flushed and holds the lock.
Holding == {"approved", "placed", "reverting", "rejected"}

TypeOK ==
  /\ row \in [Trades -> [status : Statuses, key : Keys, expires : Nat]]
  /\ lock \in [Trades -> Requests \union {Sweep, None}]
  /\ req \in [Requests -> [step : Steps, trade : Trades \union {None}]]
  /\ sweep \in [running : BOOLEAN, cutoff : Nat, todo : SUBSET Trades]
  /\ orders \in [Trades -> Nat]
  /\ booked \in [Trades -> Nat]
  /\ overwritten \in [Trades -> BOOLEAN]
  /\ now \in Nat
  /\ faults \in Nat

Init ==
  /\ row \in [Trades -> [status : {"NONE"}, key : Keys, expires : {0}]]
  /\ lock = [t \in Trades |-> None]
  /\ req = [r \in Requests |-> [step |-> "idle", trade |-> None]]
  /\ sweep = [running |-> FALSE, cutoff |-> 0, todo |-> {}]
  /\ orders = [t \in Trades |-> 0]
  /\ booked = [t \in Trades |-> 0]
  /\ overwritten = [t \in Trades |-> FALSE]
  /\ now = 0
  /\ faults = 0

-----------------------------------------------------------------------------
(***************************************************************************)
(* The trading cycle: one at a time, one transaction per cycle.  It sees   *)
(* the committed rows and the ones it has added itself.                    *)
(***************************************************************************)
\* Mutant: the query misses the rows the cycle itself has added.
DuplicateIfCommitted(k) ==
  \E u \in Trades : row[u].key = k /\ row[u].status = "PENDING"

HasPendingDuplicate(k) ==
  \E u \in Trades : row[u].key = k /\ row[u].status \in {"PENDING", "NEW"}

QueueTrade(t) ==
  /\ row[t].status = "NONE"
  /\ ~HasPendingDuplicate(row[t].key)
  /\ now + Ttl < MaxTime       \* bound: leave room for the row to expire
  /\ row' = [row EXCEPT ![t].status = "NEW", ![t].expires = now + Ttl]
  /\ UNCHANGED <<lock, req, sweep, orders, booked, overwritten, now, faults>>

Added == {t \in Trades : row[t].status = "NEW"}

EndCycle(outcome) ==
  /\ Added # {}
  /\ row' = [t \in Trades |-> IF t \in Added
                              THEN [row[t] EXCEPT !.status = outcome]
                              ELSE row[t]]
  /\ UNCHANGED <<lock, req, sweep, orders, booked, overwritten, now, faults>>

CommitCycle == EndCycle("PENDING")
RollBackCycle == EndCycle("NONE")

-----------------------------------------------------------------------------
(***************************************************************************)
(* POST /api/queue/{id}/approve.  The SELECT and the checks; approve_trade *)
(* also writes EXPIRED to a row past its TTL, but raises at once and the   *)
(* endpoint closes the session without a commit: no change.                *)
(***************************************************************************)
Begin(r, t, step) ==
  /\ req[r].step = "idle"
  /\ row[t].status = "PENDING"
  /\ req' = [req EXCEPT ![r] = [step |-> step, trade |-> t]]
  /\ UNCHANGED <<row, lock, sweep, orders, booked, overwritten, now, faults>>

BeginApprove(r, t) == now <= row[t].expires /\ Begin(r, t, "approving")

BeginReject(r, t) == Begin(r, t, "rejecting")

\* Mutant: the UPDATE is deferred, and the lock with it, until the commit.
FlushUnlocked(r) ==
  LET t == req[r].trade IN
  /\ req[r].step \in {"approving", "rejecting"}
  /\ lock' = [lock EXCEPT ![t] = r]
  /\ req' = [req EXCEPT ![r].step =
               IF @ = "approving" THEN "approved" ELSE "rejected"]
  /\ overwritten' = [overwritten EXCEPT ![t] = @ \/ row[t].status # "PENDING"]
  /\ UNCHANGED <<row, sweep, orders, booked, now, faults>>

\* The flush of APPROVED or REJECTED: UPDATE ... WHERE id, once the lock is free.
Flush(r) ==
  LET t == req[r].trade IN
  /\ req[r].step \in {"approving", "rejecting"}
  /\ lock[t] = None
  /\ lock' = [lock EXCEPT ![t] = r]
  /\ req' = [req EXCEPT ![r].step =
               IF @ = "approving" THEN "approved" ELSE "rejected"]
  /\ overwritten' = [overwritten EXCEPT ![t] = @ \/ row[t].status # "PENDING"]
  /\ UNCHANGED <<row, sweep, orders, booked, now, faults>>

\* execute_trade: Kalshi accepts the order (filled or resting).
PlaceOrder(r) ==
  LET t == req[r].trade IN
  /\ req[r].step = "approved"
  /\ orders[t] < MaxOrders
  /\ orders' = [orders EXCEPT ![t] = @ + 1]
  /\ req' = [req EXCEPT ![r].step = "placed"]
  /\ UNCHANGED <<row, lock, sweep, booked, overwritten, now, faults>>

\* Mutant: an order that Kalshi accepted is taken for a canceled one.
OrderCanceledLate(r) ==
  /\ req[r].step \in {"approved", "placed"}
  /\ req' = [req EXCEPT ![r].step = "reverting"]
  /\ UNCHANGED <<row, lock, sweep, orders, booked, overwritten, now, faults>>

\* execute_trade: Kalshi answers "canceled"; InvalidOrderError.  (Today's
\* OrderResponse.from_v2_place_response has no such answer; any client may.)
OrderCanceled(r) ==
  /\ req[r].step = "approved"
  /\ req' = [req EXCEPT ![r].step = "reverting"]
  /\ UNCHANGED <<row, lock, sweep, orders, booked, overwritten, now, faults>>

\* A request's transaction ends: the row lock is released, the request is over.
Release(r) ==
  /\ lock' = [t \in Trades |-> IF lock[t] = r THEN None ELSE lock[t]]
  /\ req' = [req EXCEPT ![r] = [step |-> "idle", trade |-> None]]

CommitStatus(r, s) == row' = [row EXCEPT ![req[r].trade].status = s]

\* Mutant: the Trade is committed and the row keeps its status.
CommitBookedOnly(r) ==
  /\ req[r].step = "placed"
  /\ booked' = [booked EXCEPT ![req[r].trade] = @ + 1]
  /\ Release(r)
  /\ UNCHANGED <<row, sweep, orders, overwritten, now, faults>>

CommitExecuted(r) ==
  /\ req[r].step = "placed"
  /\ CommitStatus(r, "EXECUTED")
  /\ booked' = [booked EXCEPT ![req[r].trade] = @ + 1]
  /\ Release(r)
  /\ UNCHANGED <<sweep, orders, overwritten, now, faults>>

\* Mutant: the failed approval is committed as it was flushed.
CommitApproved(r) ==
  /\ req[r].step = "reverting"
  /\ CommitStatus(r, "APPROVED")
  /\ Release(r)
  /\ UNCHANGED <<sweep, orders, booked, overwritten, now, faults>>

CommitReverted(r) ==
  /\ req[r].step = "reverting"
  /\ CommitStatus(r, "PENDING")
  /\ Release(r)
  /\ UNCHANGED <<sweep, orders, booked, overwritten, now, faults>>

CommitRejected(r) ==
  /\ req[r].step = "rejected"
  /\ CommitStatus(r, "REJECTED")
  /\ Release(r)
  /\ UNCHANGED <<sweep, orders, booked, overwritten, now, faults>>

\* Any other exception of the order call (rejected, unauthorised, no
\* connection): the session closes and the transaction rolls back.
OrderFailed(r) ==
  /\ req[r].step = "approved"
  /\ Release(r)
  /\ UNCHANGED <<row, sweep, orders, booked, overwritten, now, faults>>

\* The process dies or the database or Kalshi connection drops; if the order
\* was placed, it stays placed.
Crash(r) ==
  /\ req[r].step # "idle"
  /\ faults < MaxFaults
  /\ faults' = faults + 1
  /\ Release(r)
  /\ UNCHANGED <<row, sweep, orders, booked, overwritten, now>>

-----------------------------------------------------------------------------
(***************************************************************************)
(* check_pending_trades, every five minutes: one UPDATE that visits the    *)
(* rows matching its snapshot, waiting for the locks it meets.             *)
(***************************************************************************)
\* Mutants: the comparison the wrong way round; no check of the status.
StaleReversed(t, cutoff) == row[t].status = "PENDING" /\ row[t].expires > cutoff
StaleAnyStatus(t, cutoff) == row[t].status # "NONE" /\ row[t].expires < cutoff

Stale(t, cutoff) == row[t].status = "PENDING" /\ row[t].expires < cutoff

BeginSweep ==
  /\ ~sweep.running
  /\ sweep' = [running |-> TRUE, cutoff |-> now,
               todo |-> {t \in Trades : Stale(t, now)}]
  /\ UNCHANGED <<row, lock, req, orders, booked, overwritten, now, faults>>

SweepRow(t) ==
  /\ t \in sweep.todo
  /\ lock[t] = None
  /\ lock' = [lock EXCEPT ![t] = IF Stale(t, sweep.cutoff) THEN Sweep ELSE None]
  /\ sweep' = [sweep EXCEPT !.todo = @ \ {t}]
  /\ UNCHANGED <<row, req, orders, booked, overwritten, now, faults>>

Swept == {t \in Trades : lock[t] = Sweep}

EndSweep ==
  /\ sweep' = [running |-> FALSE, cutoff |-> 0, todo |-> {}]
  /\ lock' = [t \in Trades |-> IF t \in Swept THEN None ELSE lock[t]]

CommitSweep ==
  /\ sweep.running /\ sweep.todo = {}
  /\ row' = [t \in Trades |-> IF t \in Swept
                              THEN [row[t] EXCEPT !.status = "EXPIRED"]
                              ELSE row[t]]
  /\ EndSweep
  /\ UNCHANGED <<req, orders, booked, overwritten, now, faults>>

CrashSweep ==
  /\ sweep.running
  /\ faults < MaxFaults
  /\ faults' = faults + 1
  /\ EndSweep
  /\ UNCHANGED <<row, req, orders, booked, overwritten, now>>

Tick ==
  /\ now < MaxTime
  /\ now' = now + 1
  /\ UNCHANGED <<row, lock, req, sweep, orders, booked, overwritten, faults>>

-----------------------------------------------------------------------------
RequestStep(r) ==
  \/ \E t \in Trades : BeginApprove(r, t) \/ BeginReject(r, t)
  \/ Flush(r)
  \/ PlaceOrder(r)
  \/ OrderCanceled(r)
  \/ CommitExecuted(r)
  \/ CommitReverted(r)
  \/ CommitRejected(r)
  \/ OrderFailed(r)
  \/ Crash(r)

Next ==
  \/ \E t \in Trades : QueueTrade(t) \/ SweepRow(t)
  \/ CommitCycle
  \/ RollBackCycle
  \/ \E r \in Requests : RequestStep(r)
  \/ BeginSweep
  \/ CommitSweep
  \/ CrashSweep
  \/ Tick

Spec == Init /\ [][Next]_vars

(***************************************************************************)
(* The clock advances; beat keeps starting the sweep and the worker runs   *)
(* it; a request that holds a row lock ends, since execute_trade's HTTP    *)
(* call has a timeout.  Users need not act.                                *)
(***************************************************************************)
EndsRequest(r) ==
  \/ OrderFailed(r)
  \/ CommitExecuted(r)
  \/ CommitReverted(r)
  \/ CommitRejected(r)

Fairness ==
  /\ WF_vars(Tick)
  /\ WF_vars(BeginSweep)
  /\ \A t \in Trades : WF_vars(SweepRow(t))
  /\ WF_vars(CommitSweep)
  /\ \A r \in Requests : WF_vars(EndsRequest(r))

FairSpec == Spec /\ Fairness

-----------------------------------------------------------------------------
InFlight(t) ==
  {r \in Requests : req[r].trade = t /\ req[r].step \in {"approved", "placed"}}

(***************************************************************************)
(* approve_trade flushes APPROVED before the endpoint calls execute_trade, *)
(* so the row lock keeps two approvals of one trade from talking to Kalshi *)
(* at the same time: the second order can only follow the first's commit.  *)
(***************************************************************************)
OneOrderInFlight == \A t \in Trades : Cardinality(InFlight(t)) <= 1

(***************************************************************************)
(* A pending trade becomes at most one Trade record, and has one exactly   *)
(* when its row says EXECUTED -- unless a request's UPDATE overwrote a     *)
(* decision it had not seen (api/queue.py commits the Trade and the status *)
(* in one transaction, but nothing re-checks the status).                  *)
(***************************************************************************)
BookedExactlyOnce ==
  \A t \in Trades : ~overwritten[t] =>
    booked[t] = IF row[t].status = "EXECUTED" THEN 1 ELSE 0

(***************************************************************************)
(* has_pending_duplicate: the user never sees two PENDING trades for the   *)
(* same bracket and side, again unless a decision was overwritten (a       *)
(* "canceled" order puts a row back to PENDING).                           *)
(***************************************************************************)
OnePendingPerKey ==
  \A t, u \in Trades :
    /\ t # u /\ row[t].key = row[u].key
    /\ row[t].status = "PENDING" /\ row[u].status = "PENDING"
    => overwritten[t] \/ overwritten[u]

(***************************************************************************)
(* Without a crash or a lost answer, every order on Kalshi has its Trade   *)
(* record, or the request that placed it is about to commit it.            *)
(***************************************************************************)
OrdersAreBooked ==
  faults = 0 =>
    \A t \in Trades :
      orders[t] = booked[t] + Cardinality({r \in InFlight(t) : req[r].step = "placed"})

(***************************************************************************)
(* The queue drains: a PENDING trade is decided or expired.  It needs the  *)
(* sweep: the EXPIRED that approve_trade writes is never committed.        *)
(***************************************************************************)
PendingIsResolved ==
  \A t \in Trades : (row[t].status = "PENDING") ~> (row[t].status # "PENDING")

(***************************************************************************)
(* The queue implements the abstract lifecycle: a row's committed status   *)
(* changes only at the end of a request opened while it was PENDING, or    *)
(* when the sweep expires it.                                              *)
(***************************************************************************)
Visible(t) == IF row[t].status = "NEW" THEN "NONE" ELSE row[t].status

Lifecycle == INSTANCE PendingTradeLifecycle WITH
  status <- [t \in Trades |-> Visible(t)],
  open <- [t \in Trades |-> {r \in Requests : req[r].trade = t}]

RefinesLifecycle == Lifecycle!Spec

(***************************************************************************)
(* api/queue.py on the reject endpoint: "Marks the trade as REJECTED so it *)
(* will not be executed."  (Violated: see the findings in README.md.)      *)
(***************************************************************************)
RejectedIsNotExecuted ==
  [][\A t \in Trades : row[t].status = "REJECTED" => orders'[t] = orders[t]]_vars
=============================================================================
