---------------------------- MODULE MCTradeQueue ----------------------------
(* TradeQueue on two rows and two requests at once; see the two cfg files. *)
EXTENDS TradeQueue, TLC

Symmetric == Permutations(Trades) \union Permutations(Requests)
=============================================================================
