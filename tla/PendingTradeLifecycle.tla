----------------------- MODULE PendingTradeLifecycle -----------------------
(***************************************************************************)
(* What the approval queue promises about one pending trade, without       *)
(* sessions, locks, orders or time: a trade is offered once; only a        *)
(* request that was opened while the trade was PENDING may decide it; and  *)
(* only the sweep may expire it, and only while it is PENDING.             *)
(*                                                                         *)
(* The promise is deliberately weaker than the state diagram of            *)
(* trade_queue.py: two requests opened on the same PENDING trade both take *)
(* effect, one after the other (TradeQueue says why).                      *)
(***************************************************************************)
CONSTANTS Trades,    \* identities of pending trades
          Requests   \* the API requests that can be in progress at once

VARIABLES status,    \* what other sessions see of each trade
          open       \* the requests opened on each trade and not yet closed

vars == <<status, open>>

Decided == {"EXECUTED", "REJECTED", "EXPIRED"}

Init ==
  /\ status = [t \in Trades |-> "NONE"]
  /\ open = [t \in Trades |-> {}]

Offer(T) ==
  /\ \A t \in T : status[t] = "NONE"
  /\ status' = [t \in Trades |-> IF t \in T THEN "PENDING" ELSE status[t]]
  /\ UNCHANGED open

Open(t, r) ==
  /\ status[t] = "PENDING"
  /\ open' = [open EXCEPT ![t] = @ \union {r}]
  /\ UNCHANGED status

\* A request ends: it decides the trade, puts it back, or changes nothing.
Close(t, r) ==
  /\ r \in open[t]
  /\ open' = [open EXCEPT ![t] = @ \ {r}]
  /\ \E s \in {status[t], "EXECUTED", "REJECTED", "PENDING"} :
       status' = [status EXCEPT ![t] = s]

Expire(T) ==
  /\ \A t \in T : status[t] = "PENDING"
  /\ status' = [t \in Trades |-> IF t \in T THEN "EXPIRED" ELSE status[t]]
  /\ UNCHANGED open

Next ==
  \/ \E T \in SUBSET Trades : Offer(T) \/ Expire(T)
  \/ \E t \in Trades, r \in Requests : Open(t, r) \/ Close(t, r)

Spec == Init /\ [][Next]_vars
=============================================================================
