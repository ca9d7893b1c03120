---------------------------- MODULE Forecasting ----------------------------
(***************************************************************************)
(* From the weather services to the predictions a trading cycle reads      *)
(* (weather/scheduler.py, weather/nws.py, weather/openmeteo.py,            *)
(* prediction/scheduler.py, trading/scheduler.py).                         *)
(*                                                                         *)
(* Every half hour one task fetches each source and stores what came of it *)
(* in one transaction; another makes a prediction for each event (a city   *)
(* and a day) that enough sources cover, all of them in one transaction.   *)
(* A temperature is known by the fetch it stems from, a prediction by      *)
(* whether it is Sound (below) and how old it is.                          *)
(***************************************************************************)
EXTENDS Integers, Sequences, FiniteSets, FiniteSetsExt

CONSTANTS
  NumEvents,    \* the cities and days to predict, one after the other
  OmModels,     \* Open-Meteo's models, each a source
  SourceChoices, \* what enabled_weather_sources may hold
  DefaultSources, \* DEFAULT_ENABLED_WEATHER_SOURCES
  FetchRetries, \* of one request
  MaxAge,       \* half hours: the two of validate_predictions
  MaxFetches    \* bound: fetch cycles

Nws == {"NWS", "NWS:gridpoint"}
Sources == Nws \union OmModels

ASSUME ForecastAssumption ==
  /\ NumEvents \in Nat /\ FetchRetries \in Nat /\ MaxAge \in Nat /\ MaxFetches \in Nat
  /\ IsFiniteSet(OmModels) /\ DefaultSources \subseteq Sources

VARIABLES
  fetch,    \* the fetch task: its number, the request it is at, what it has collected
  rows,     \* weather_forecasts: the fetches stored of each source
  enabled,  \* enabled_weather_sources
  cycle,    \* the prediction task: the event it is at, and its open transaction
  newest    \* predictions: the newest of each event

forecastVars == <<fetch, rows, enabled, cycle, newest>>

Events == 1..NumEvents
Steps == <<"NWS", "NWS:gridpoint", "Open-Meteo", "store">>
Prediction == [age : 0..(MaxAge + 2), sound : BOOLEAN]
NoPrediction == [age |-> MaxAge + 2, sound |-> TRUE]

ForecastTypeOK ==
  /\ fetch \in [number : 0..MaxFetches, left : 0..4, got : SUBSET Sources]
  /\ enabled \in SourceChoices
  /\ rows \in [Sources -> SUBSET (1..MaxFetches)]
  /\ cycle \in [at : {"idle", "runs", "aborted"}, event : 1..(NumEvents + 1), allowed : SUBSET Sources,
                before : [Sources -> 0..MaxFetches], open : [Events -> Prediction]]
  /\ newest \in [Events -> Prediction]

NewestRow(s) == IF rows[s] = {} THEN 0 ELSE Max(rows[s])

\* parse_enabled_weather_sources: unknown names are dropped, and fewer than two mean the default.
Allowed(choice) ==
  IF Cardinality(choice \intersect Sources) < 2 THEN DefaultSources ELSE choice \intersect Sources

Idling(allowed) == [at |-> "idle", event |-> 1, allowed |-> allowed,
                    before |-> [s \in Sources |-> 0], open |-> [e \in Events |-> NoPrediction]]

ForecastInit ==
  /\ fetch = [number |-> 0, left |-> 0, got |-> {}]
  /\ rows = [s \in Sources |-> {}]
  /\ enabled \in SourceChoices /\ cycle = Idling(DefaultSources)
  /\ newest = [e \in Events |-> NoPrediction]

-----------------------------------------------------------------------------
\* fetch_with_retry: a server or network error is tried again, a refusal is not.
Answers == [0..FetchRetries -> {"answer", "error", "refused"}]
Answered(answers) ==
  \E i \in 0..FetchRetries : /\ answers[i] = "answer"
                             /\ \A j \in 0..(i - 1) : answers[j] = "error"

\* fetch_all_forecasts, by the beat.
BeginFetch ==
  /\ fetch.left = 0 /\ fetch.number < MaxFetches
  /\ fetch' = [number |-> fetch.number + 1, left |-> Len(Steps), got |-> {}]
  /\ UNCHANGED <<rows, enabled, cycle, newest>>

\* Its next request, or the store at the end.
Step == Steps[Len(Steps) + 1 - fetch.left]

\* get_grid_coordinates: remembered by the process or answered (TRUE), or an error.
GridKnown == BOOLEAN

\* normalize_nws_forecast: the daytime periods' highs.
PeriodForecast(body) == IF body = "legible" THEN {"NWS"} ELSE {}

\* normalize_nws_gridpoint: the highest temperature of each day.
GridForecast(body) == IF body = "legible" THEN {"NWS:gridpoint"} ELSE {}

\* A request ends: what it brought is added.
Collect(found) == fetch' = [fetch EXCEPT !.left = @ - 1, !.got = @ \union found]

\* fetch_nws_forecast: an error, or a response that cannot be parsed, and the next source's
\* turn comes.
FetchNwsForecast ==
  /\ fetch.left > 0 /\ Step = "NWS"
  /\ \E known \in GridKnown, answers \in Answers, body \in {"legible", "garbled"} :
       Collect(IF known /\ Answered(answers) THEN PeriodForecast(body) ELSE {})
  /\ UNCHANGED <<rows, enabled, cycle, newest>>

FetchNwsGridpoint ==
  /\ fetch.left > 0 /\ Step = "NWS:gridpoint"
  /\ \E known \in GridKnown, answers \in Answers, body \in {"legible", "garbled"} :
       Collect(IF known /\ Answered(answers) THEN GridForecast(body) ELSE {})
  /\ UNCHANGED <<rows, enabled, cycle, newest>>

\* _extract_model_daily and normalize_openmeteo: the models of a response that have values.
ModelForecasts == SUBSET OmModels

\* _fetch_openmeteo_with_retry: the same retries.
OpenMeteoAnswered(answers) == Answered(answers)

\* fetch_openmeteo_forecast: one request for all models.
FetchOpenMeteo ==
  /\ fetch.left > 0 /\ Step = "Open-Meteo"
  /\ \E answers \in Answers, models \in ModelForecasts :
       Collect(IF OpenMeteoAnswered(answers) THEN models ELSE {})
  /\ UNCHANGED <<rows, enabled, cycle, newest>>

\* _store_weather_data: one insert for each forecast, one commit.  Its failure is logged, and
\* so the task never retries.
StoreForecasts ==
  /\ fetch.left > 0 /\ Step = "store"
  /\ fetch' = [fetch EXCEPT !.left = 0, !.got = {}]
  /\ \/ rows' = [s \in Sources |-> rows[s] \union {n \in {fetch.number} : s \in fetch.got}]
     \/ UNCHANGED rows
  /\ UNCHANGED <<enabled, cycle, newest>>

\* The child is killed among its requests, by its time limit or otherwise.
KillFetch ==
  /\ fetch.left > 0
  /\ fetch' = [fetch EXCEPT !.left = 0, !.got = {}]
  /\ UNCHANGED <<rows, enabled, cycle, newest>>

-----------------------------------------------------------------------------
UpdateSources ==
  /\ \E choice \in SourceChoices \ {enabled} : enabled' = choice
  /\ UNCHANGED <<fetch, rows, cycle, newest>>

\* generate_predictions: the enabled sources are read once for all events.
BeginPredictions ==
  /\ cycle.at = "idle"
  /\ cycle' = [Idling(Allowed(enabled)) EXCEPT !.at = "runs", !.before = [s \in Sources |-> NewestRow(s)]]
  /\ UNCHANGED <<fetch, rows, enabled, newest>>

\* Mutant: the newest row is sought after the disabled sources are dropped, not per source.
DedupeByFetch(covering, allowed) ==
  {row \in [source : covering \intersect allowed, fetch : 1..MaxFetches] : row.fetch \in rows[row.source]}

\* _dedupe_and_filter_sources: the newest row of each source, then the enabled ones.
DedupeAndFilter(covering, allowed) ==
  {row \in [source : covering \intersect allowed, fetch : 1..MaxFetches] :
     rows[row.source] # {} /\ row.fetch = NewestRow(row.source)}

\* calculate_ensemble_forecast: the sources of the weighted mean.
Contributors(blend) == {row.source : row \in blend}

\* What a prediction should rest on: two sources or more that the user allowed when the cycle
\* began, none by a forecast older than it was then.
Sound(blend) ==
  /\ Cardinality(Contributors(blend)) >= 2
  /\ \A row \in blend : row.source \in cycle.allowed /\ row.fetch >= cycle.before[row.source]

\* generate_prediction.
GeneratePrediction(blend) == [age |-> 0, sound |-> Sound(blend)]

\* _store_prediction, for the event the cycle is at.
StorePrediction(prediction) ==
  cycle' = [cycle EXCEPT !.event = @ + 1, !.open[cycle.event] = prediction]

\* One event: its rows (a source may not cover the day), the brackets from Kalshi or made up,
\* the prediction and its insert.  With fewer than two forecasts it is skipped.
PredictEvent ==
  /\ cycle.at = "runs" /\ cycle.event <= NumEvents
  /\ \E covering \in SUBSET Sources :
       LET blend == DedupeAndFilter(covering, cycle.allowed) IN
       IF Cardinality(blend) < 2 THEN cycle' = [cycle EXCEPT !.event = @ + 1]
       ELSE StorePrediction(GeneratePrediction(blend))
  /\ UNCHANGED <<fetch, rows, enabled, newest>>

\* An error in one event is logged and the next one follows; but when the database raised it,
\* the transaction is aborted.
PredictionFails ==
  /\ cycle.at # "idle" /\ cycle.event <= NumEvents
  /\ \E at \in {cycle.at, "aborted"} : cycle' = [cycle EXCEPT !.event = @ + 1, !.at = at]
  /\ UNCHANGED <<fetch, rows, enabled, newest>>

\* The commit at the end: of an aborted transaction nothing is left.
CommitPredictions ==
  /\ cycle.at # "idle" /\ cycle.event > NumEvents
  /\ newest' = [e \in Events |-> IF cycle.at = "runs" /\ cycle.open[e] # NoPrediction
                                 THEN cycle.open[e] ELSE newest[e]]
  /\ cycle' = Idling(DefaultSources)
  /\ UNCHANGED <<fetch, rows, enabled>>

KillPredictions ==
  /\ cycle.at # "idle" /\ cycle' = Idling(DefaultSources)
  /\ UNCHANGED <<fetch, rows, enabled, newest>>

\* Half an hour passes.
ForecastTick ==
  /\ newest' = [e \in Events |-> [newest[e] EXCEPT !.age = IF @ > MaxAge THEN @ ELSE @ + 1]]
  /\ UNCHANGED <<fetch, rows, enabled, cycle>>

\* validate_predictions: a stale prediction halts trading for all.
Valid(read) == \A e \in read : newest[e].age <= MaxAge

\* _fetch_latest_predictions and the validation: what a trading cycle may trade on, having
\* read of each city the prediction made last.
Traded(read) == IF Valid(read) THEN {newest[e] : e \in read} ELSE {}

ForecastNext ==
  \/ BeginFetch \/ FetchNwsForecast \/ FetchNwsGridpoint \/ FetchOpenMeteo \/ StoreForecasts \/ KillFetch
  \/ UpdateSources
  \/ BeginPredictions \/ PredictEvent \/ PredictionFails \/ CommitPredictions \/ KillPredictions
  \/ ForecastTick

ForecastSpec == ForecastInit /\ [][ForecastNext]_forecastVars

-----------------------------------------------------------------------------
(***************************************************************************)
(* What a trading cycle trades on is a blend of two enabled sources or     *)
(* more, by no forecast older than the newest stored when the prediction   *)
(* cycle began, and made within two hours: whatever fetches, predictions,  *)
(* settings and failures overlapped (prediction/scheduler.py,              *)
(* _generate_predictions_async; ev_calculator.py, validate_predictions).   *)
(***************************************************************************)
TradedIsSound ==
  \A read \in SUBSET {e \in Events : newest[e] # NoPrediction} :
    \A prediction \in Traded(read) : prediction.sound /\ prediction.age <= MaxAge
=============================================================================
