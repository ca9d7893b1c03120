-------------------------- MODULE ComponentsProofs --------------------------
(***************************************************************************)
(* Theorems about the components side by side (MCComponents), for any      *)
(* values of the constants: a behaviour of the whole is one of every       *)
(* component, which takes its own steps and stutters in those of the       *)
(* others, so that what holds of each holds of all.                        *)
(***************************************************************************)
EXTENDS MCComponents, ConnectionProofs, RecordProofs, PipelineProofs, TLAPS

\* The whole begins where every component does.
LEMMA InitsHold ==
  Init => /\ FeedInit /\ CacheInit /\ EventInit /\ LimiterInit /\ ArchiveInit /\ MosInit
          /\ ForecastInit /\ ModelInit /\ SignalInit /\ SettlementInit /\ PaperInit
BY Zenon DEF Init

\* Each step is one of a component, or leaves it alone.
LEMMA StepsAreSteps ==
  [Next]_vars => /\ [FeedNext]_feedVars /\ [CacheNext]_cacheVars /\ [EventNext]_eventVars
                 /\ [LimiterNext]_limiterVars /\ [ArchiveNext]_archiveVars /\ [MosNext]_mosVars
                 /\ [ForecastNext]_forecastVars /\ [ModelNext]_modelVars
                 /\ [SignalNext]_signalVars /\ [SettlementNext]_settlementVars
                 /\ [PaperNext]_paperVars
BY Zenon DEF Next, vars, connections, archives, pipeline, books

-----------------------------------------------------------------------------
\* The components side by side implement each of them.
THEOREM EveryComponentRuns ==
  Spec => /\ FeedSpec /\ CacheSpec /\ EventSpec /\ LimiterSpec /\ ArchiveSpec /\ MosSpec
          /\ ForecastSpec /\ ModelSpec /\ SignalSpec /\ SettlementSpec /\ PaperSpec
BY InitsHold, StepsAreSteps, PTL
DEF Spec, FeedSpec, CacheSpec, EventSpec, LimiterSpec, ArchiveSpec, MosSpec, ForecastSpec,
    ModelSpec, SignalSpec, SettlementSpec, PaperSpec

\* Every variable of every component keeps its type.
THEOREM TypesAreCorrect == Spec => []TypesOK
<1>1. /\ FeedTypeOK /\ CacheTypeOK /\ EventTypeOK /\ LimiterTypeOK /\ ArchiveTypeOK /\ MosTypeOK
      /\ ForecastTypeOK /\ ModelTypeOK /\ SignalTypeOK /\ SettlementTypeOK /\ PaperTypeOK
      => TypesOK
  BY DEF TypesOK
<1> QED
  BY <1>1, EveryComponentRuns, FeedTypeCorrect, CacheTypeCorrect, EventTypeCorrect,
     LimiterTypeCorrect, ArchiveTypeCorrect, MosTypeCorrect, ForecastTypeCorrect,
     ModelTypeCorrect, SignalTypeCorrect, SettlementTypeCorrect, PaperTypeCorrect, PTL

\* Every safety property of the components holds of them side by side.
THEOREM ComponentsAreSafe ==
  Spec => /\ []ReconnectResubscribes /\ []ServedIsAlive /\ []OneSocket /\ []BroadcastReachesAll
          /\ [](TwiceTheRate => RateIsSustained) /\ CallsAreSpaced /\ []SettledIsArchived /\ SettledStays
          /\ []OldMonthsAreKept /\ []TradedIsSound /\ []CachedIsCurrent /\ []EdgeIsTraded
          /\ []BetsAreKalshis /\ []PaperActsOnce /\ DecisionsStand
BY EveryComponentRuns, ReconnectLosesNothing, ServedPricesAreAlive, TabHasOneSocket,
   NobodyIsMissed, BurstIsBounded, CallsKeepApart, SettledDaysAreArchived, SettledMarketsStay,
   CompleteIsArchived, TradesOnSoundPredictions, RetrainIsPickedUp, EdgesAreTraded,
   SettledByKalshi, PaperDecidesOnce, PaperDecisionsStand, PTL
==============================================================================
