---------------------------- MODULE MCComponents ----------------------------
(***************************************************************************)
(* The components that share none of the state that is modelled, checked   *)
(* side by side: a behaviour is one of a single component, and the others  *)
(* keep their initial state.                                               *)
(***************************************************************************)
EXTENDS MarketFeed, PriceCache, EventPush, RateLimiters, KalshiArchive, ForecastArchive,
        Forecasting, ModelCache, Settlements, Paper, Signals

VARIABLE running   \* the component that runs

connections == <<feedVars, cacheVars, eventVars, limiterVars>>
archives == <<archiveVars, mosVars>>
pipeline == <<forecastVars, modelVars, signalVars>>
books == <<settlementVars, paperVars>>
vars == <<running, connections, archives, pipeline, books>>

-----------------------------------------------------------------------------
(* Values for the constants.                                               *)

\* A row too short to be used, and one with another source than the default.
MCSourceChoices == {{"GFS"}, Nws \union {"GFS"}}
MCDefaultSources == {"NWS:gridpoint", "GFS"}

\* Orders that fit the budget together, in part, with a side that loses and one not quoted.
MCOrderLists ==
  {<<[ticker |-> "t1", side |-> "no", bid |-> 3, ask |-> 6, count |-> 3],
     [ticker |-> "t2", side |-> "yes", bid |-> 0, ask |-> 40, count |-> 9],
     [ticker |-> "t2", side |-> "no", bid |-> 0, ask |-> 40, count |-> 1]>>}

MCProbabilities == {500 * i : i \in 0..20}
MCQuotes == 0..100

\* The defaults of the schema; Kelly sizing with no guardrail and no threshold; and a bold one.
DefaultRow ==
  [weight |-> 4, divergence |-> 2500, marketFloor |-> 1500, minEvYes |-> 1500, minEvNo |-> 500,
   kelly |-> FALSE, fraction |-> 25, bankrollPct |-> 5, maxContracts |-> 10,
   tradeSize |-> 0, exposure |-> 0, feeMode |-> "realistic"]

KellyRow ==
  [DefaultRow EXCEPT !.kelly = TRUE, !.weight = 10, !.divergence = 5000,
                     !.marketFloor = 0, !.minEvYes = 0, !.minEvNo = 0]

BoldRow ==
  [KellyRow EXCEPT !.marketFloor = 1500, !.minEvYes = 100, !.minEvNo = 100, !.fraction = 100,
                   !.bankrollPct = 25, !.tradeSize = 500, !.feeMode = "conservative"]

MCSettingRows == {DefaultRow, KellyRow, BoldRow}

-----------------------------------------------------------------------------
\* A component that does not run has one initial state.
Init ==
  /\ running \in {"feed", "cache", "push", "limiters", "archive", "mos", "forecasts", "models",
                  "settlements", "paper", "signals"}
  /\ FeedInit /\ CacheInit /\ EventInit /\ LimiterInit
  /\ MosInit /\ SettlementInit /\ PaperInit
  /\ IF running = "models" THEN ModelInit ELSE ModelInit /\ artifact = Ensemble
  /\ IF running = "archive" THEN ArchiveInit
     ELSE ArchiveInit /\ crooked = {} /\ truth = [d \in Days |-> "empty"]
  /\ IF running = "forecasts" THEN ForecastInit
     ELSE ForecastInit /\ enabled = {"GFS"}
  /\ IF running = "signals" THEN SignalInit ELSE SignalInit /\ saved = DefaultRow

Next ==
  \/ /\ running = "feed" /\ FeedNext
     /\ UNCHANGED <<running, cacheVars, eventVars, limiterVars, archives, pipeline, books>>
  \/ /\ running = "cache" /\ CacheNext
     /\ UNCHANGED <<running, feedVars, eventVars, limiterVars, archives, pipeline, books>>
  \/ /\ running = "push" /\ EventNext
     /\ UNCHANGED <<running, feedVars, cacheVars, limiterVars, archives, pipeline, books>>
  \/ /\ running = "limiters" /\ LimiterNext
     /\ UNCHANGED <<running, feedVars, cacheVars, eventVars, archives, pipeline, books>>
  \/ /\ running = "archive" /\ ArchiveNext
     /\ UNCHANGED <<running, connections, mosVars, pipeline, books>>
  \/ /\ running = "mos" /\ MosNext
     /\ UNCHANGED <<running, connections, archiveVars, pipeline, books>>
  \/ /\ running = "forecasts" /\ ForecastNext
     /\ UNCHANGED <<running, connections, archives, modelVars, signalVars, books>>
  \/ /\ running = "models" /\ ModelNext
     /\ UNCHANGED <<running, connections, archives, forecastVars, signalVars, books>>
  \/ /\ running = "signals" /\ SignalNext
     /\ UNCHANGED <<running, connections, archives, forecastVars, modelVars, books>>
  \/ /\ running = "settlements" /\ SettlementNext
     /\ UNCHANGED <<running, connections, archives, pipeline, paperVars>>
  \/ /\ running = "paper" /\ PaperNext
     /\ UNCHANGED <<running, connections, archives, pipeline, settlementVars>>

\* The fairness each liveness property needs is part of that property.
Spec == Init /\ [][Next]_vars

-----------------------------------------------------------------------------
\* Every variable of every component stays within the values it is meant to have.
TypesOK ==
  /\ FeedTypeOK /\ CacheTypeOK /\ EventTypeOK /\ LimiterTypeOK /\ ArchiveTypeOK /\ MosTypeOK
  /\ ForecastTypeOK /\ ModelTypeOK /\ SignalTypeOK /\ SettlementTypeOK /\ PaperTypeOK
=============================================================================
