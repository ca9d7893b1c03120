------------------------------ MODULE MCRiskDay ------------------------------
(* RiskDay over a few trades and two short days; see the cfg files. *)
EXTENDS RiskDay, TLC

Symmetric == Permutations(Trades)
=============================================================================
