--------------------------- MODULE PipelineProofs ---------------------------
(***************************************************************************)
(* Theorems about the way from forecasts to decisions: Forecasting,        *)
(* ModelCache, Signals and Paper, for any events, models, settings and     *)
(* ages, any files and processes, any brackets, probabilities, quotes and  *)
(* rows of settings, and any orders and budgets.                           *)
(*                                                                         *)
(* A prediction cycle reads row after row while fetches commit.  What it   *)
(* blends stays sound because the newest row of a source never becomes an  *)
(* older one (BeforeIsBehind), and because the rows of one source count    *)
(* once: two rows of a blend are two sources (BlendIsSound).               *)
(*                                                                         *)
(* A child that read while a training wrote holds other files than the     *)
(* disk as long as the training goes on (OldHasWriter), which ends with    *)
(* the key file (KeyIsLast) and so with a later modification time than     *)
(* any that was seen (SeenIsPast).                                         *)
(*                                                                         *)
(* The expected values of the two sides of a market are opposite but for   *)
(* the fees (ExpectedValues), so at most one of them meets a threshold     *)
(* and comparing them first loses none; Kelly sizes a side if and only if  *)
(* its chance is worth its cost when the whole fee is taken from a win     *)
(* (KellySizeIsBounded), whatever the rounding.                            *)
(*                                                                         *)
(* A paper decision is inserted when its event has none, and then it has   *)
(* no trades either (PaperActsOnce is inductive); what the orders so far   *)
(* have spent and what they left make up the budget (FillOneKeeps).        *)
(***************************************************************************)
EXTENDS Forecasting, ModelCache, Signals, Paper, FiniteSetTheorems, WellFoundedInduction,
        TLAPS

-----------------------------------------------------------------------------
(* Induction over the naturals: on a set, so as to name no predicate.      *)

LEMMA Below == \A m, n \in Nat : <<m, n>> \in OpToRel(<, Nat) <=> m < n
BY DEF OpToRel

LEMMA LeastExists ==
  ASSUME NEW T, T \subseteq Nat, T # {}
  PROVE  \E m \in T : \A n \in T : m <= n
<1> DEFINE R == OpToRel(<, Nat)
<1>1. IsWellFoundedOn(R, Nat)
  BY NatLessThanWellFounded
<1>2. \A m, n \in Nat : <<m, n>> \in R <=> m < n
  BY Below
<1> HIDE DEF R
<1>3. PICK x \in T : \A y \in T : ~(<<y, x>> \in R)
  BY WFMin, <1>1
<1>4. ASSUME NEW y \in T PROVE x <= y
  <2>1. x \in Nat /\ y \in Nat /\ ~(<<y, x>> \in R)
    BY <1>3
  <2>2. ~(y < x)
    BY <2>1, <1>2, Zenon
  <2> QED
    BY <2>1, <2>2
<1> QED
  BY <1>3, <1>4

LEMMA SetInduction ==
  ASSUME NEW T, 0 \in T, \A n \in Nat : n \in T => n + 1 \in T
  PROVE  Nat \subseteq T
<1> DEFINE Bad == Nat \ T
<1> SUFFICES ASSUME Bad # {} PROVE FALSE
  OBVIOUS
<1>1. PICK m \in Bad : \A n \in Bad : m <= n
  BY LeastExists
<1>2. m # 0 /\ m \in Nat /\ m \notin T
  BY <1>1
<1>3. m - 1 \in T
  <2>1. m - 1 \in Nat
    BY <1>2
  <2>2. SUFFICES ASSUME m - 1 \in Bad PROVE FALSE
    BY <2>1
  <2> HIDE DEF Bad
  <2>3. m <= m - 1
    BY <2>2, <1>1
  <2> QED
    BY <2>3, <1>2
<1>4. (m - 1) + 1 \in T
  BY <1>2, <1>3
<1> QED
  BY <1>2, <1>4

\* A set of numbers that are not above a bound has a largest one.
LEMMA LargestExists ==
  ASSUME NEW n \in Nat, NEW S \in SUBSET (0..n), S # {}
  PROVE  \E m \in S : \A k \in S : k <= m
<1> DEFINE T == {n - k : k \in S}
<1>1. T \subseteq Nat /\ T # {}
  <2>1. \A k \in S : n - k \in Nat
    OBVIOUS
  <2> QED
    BY <2>1, Zenon
<1>2. PICK x \in T : \A y \in T : x <= y
  BY <1>1, LeastExists
<1>3. PICK m \in S : x = n - m
  OBVIOUS
<1>4. ASSUME NEW k \in S PROVE k <= m
  <2>1. n - m <= n - k
    BY <1>2, <1>3
  <2> QED
    BY <2>1
<1> QED
  BY <1>4

Recursive(f, N, base, step) == f = [n \in 0..N |-> IF n = 0 THEN base ELSE step[n][f[n - 1]]]

\* A function defined by recursion on the numbers up to a bound exists, and is of its type.
LEMMA RecursionExists ==
  ASSUME NEW N \in Nat, NEW S, NEW base \in S, NEW step \in [1..N -> [S -> S]]
  PROVE  \E f \in [0..N -> S] : Recursive(f, N, base, step)
<1> DEFINE Good(f, k) == /\ f \in [0..k -> S] /\ f[0] = base
                         /\ \A n \in 1..k : f[n] = step[n][f[n - 1]]
           T == {k \in Nat : k <= N => \E f \in [0..k -> S] : Good(f, k)}
<1>1. 0 \in T
  <2> DEFINE f == [n \in 0..0 |-> base]
  <2>1. Good(f, 0)
    OBVIOUS
  <2> QED
    BY <2>1
<1>2. ASSUME NEW k \in Nat, k \in T PROVE k + 1 \in T
  <2> SUFFICES ASSUME k + 1 <= N PROVE \E f \in [0..(k + 1) -> S] : Good(f, k + 1)
    OBVIOUS
  <2>1. k <= N /\ k + 1 \in 1..N
    OBVIOUS
  <2>2. PICK f \in [0..k -> S] : Good(f, k)
    BY <1>2, <2>1
  <2> DEFINE last == step[k + 1][f[k]]
             g == [n \in 0..(k + 1) |-> IF n = k + 1 THEN last ELSE f[n]]
  <2>3. last \in S
    BY <2>1
  <2>4. g \in [0..(k + 1) -> S]
    BY <2>3
  <2>5. g[0] = base
    BY <2>2
  <2>6. ASSUME NEW n \in 1..(k + 1) PROVE g[n] = step[n][g[n - 1]]
    <3>1. CASE n = k + 1
      BY <3>1
    <3>2. CASE n # k + 1
      <4>1. n \in 1..k /\ n - 1 \in 0..k /\ n - 1 # k + 1 /\ n - 1 \in 0..(k + 1)
        BY <3>2
      <4>2. g[n] = f[n] /\ g[n - 1] = f[n - 1]
        BY <3>2, <4>1
      <4> QED
        BY <2>2, <4>1, <4>2
    <3> QED
      BY <3>1, <3>2
  <2> QED
    BY <2>4, <2>5, <2>6
<1> HIDE DEF T
<1>3. N \in T
  BY <1>1, <1>2, SetInduction
<1> USE DEF T
<1>4. PICK f \in [0..N -> S] : Good(f, N)
  BY <1>3
<1>5. Recursive(f, N, base, step)
  BY <1>4 DEF Recursive
<1> QED
  BY <1>5

-----------------------------------------------------------------------------
(* Forecasts and predictions.                                              *)

\* Rows stem from fetches that were begun.
RowsAreFetched ==
  /\ fetch.left > 0 => fetch.number >= 1
  /\ \A s \in Sources : rows[s] \subseteq 1..fetch.number

RowsHaveNewest ==
  \A s \in Sources : rows[s] # {} => \E m \in rows[s] : \A k \in rows[s] : m >= k

BeforeIsBehind == cycle.at # "idle" => \A s \in Sources : cycle.before[s] <= NewestRow(s)

\* What is stored or about to be, is sound.
PredictionsAreSound == \A e \in Events : newest[e].sound /\ cycle.open[e].sound

ForecastIInv ==
  /\ ForecastTypeOK
  /\ RowsAreFetched
  /\ RowsHaveNewest
  /\ BeforeIsBehind
  /\ PredictionsAreSound

-----------------------------------------------------------------------------
LEMMA MaxIsLast ==
  ASSUME NEW S, NEW m \in S, \A k \in S : m >= k
  PROVE  Max(S) \in S /\ \A k \in S : Max(S) >= k
BY DEF Max

\* The newest row of a source is one of its rows, and none is newer.
LEMMA NewestIsLast ==
  ASSUME RowsHaveNewest, NEW s \in Sources, rows[s] # {}
  PROVE  NewestRow(s) \in rows[s] /\ \A k \in rows[s] : NewestRow(s) >= k
BY DEF RowsHaveNewest, NewestRow, Max

LEMMA NewestType ==
  ASSUME ForecastTypeOK, RowsHaveNewest, NEW s \in Sources
  PROVE  NewestRow(s) \in 0..MaxFetches
<1>1. CASE rows[s] = {}
  BY <1>1, ForecastAssumption DEF NewestRow
<1>2. CASE rows[s] # {}
  BY <1>2, NewestIsLast, ForecastAssumption DEF ForecastTypeOK
<1> QED
  BY <1>1, <1>2

LEMMA NewestTypePrimed ==
  ASSUME ForecastTypeOK', RowsHaveNewest', NEW s \in Sources
  PROVE  NewestRow(s)' \in 0..MaxFetches
<1>1. CASE rows'[s] = {}
  BY <1>1, ForecastAssumption DEF NewestRow
<1>2. CASE rows'[s] # {}
  <2>1. PICK m \in rows'[s] : \A k \in rows'[s] : m >= k
    BY <1>2 DEF RowsHaveNewest
  <2>2. Max(rows'[s]) \in rows'[s]
    BY <2>1, MaxIsLast
  <2> QED
    BY <1>2, <2>2, ForecastAssumption DEF NewestRow, ForecastTypeOK
<1> QED
  BY <1>1, <1>2

LEMMA AllowedType ==
  ASSUME NEW choice
  PROVE  Allowed(choice) \subseteq Sources
BY ForecastAssumption DEF Allowed

LEMMA SourcesAreFinite == IsFiniteSet(Sources)
<1>1. IsFiniteSet({"NWS"} \union {"NWS:gridpoint"})
  BY FS_Singleton, FS_AddElement
<1>2. IsFiniteSet((OmModels \union {"NWS"}) \union {"NWS:gridpoint"})
  BY ForecastAssumption, FS_AddElement
<1>3. Sources = (OmModels \union {"NWS"}) \union {"NWS:gridpoint"}
  BY DEF Sources, Nws
<1> QED
  BY <1>2, <1>3

LEMMA BlendIsFinite ==
  ASSUME ForecastTypeOK, NEW covering \in SUBSET Sources
  PROVE  IsFiniteSet(DedupeAndFilter(covering, cycle.allowed))
<1> DEFINE blend == DedupeAndFilter(covering, cycle.allowed)
           sourceOf == [row \in blend |-> row.source]
<1>1. \A row \in blend : row.source \in Sources /\ row = [source |-> row.source, fetch |-> NewestRow(row.source)]
  BY DEF DedupeAndFilter
<1>2. sourceOf \in Injection(blend, Sources)
  <2>1. sourceOf \in [blend -> Sources]
    BY <1>1
  <2>2. \A a, b \in blend : sourceOf[a] = sourceOf[b] => a = b
    BY <1>1
  <2> QED
    BY <2>1, <2>2 DEF Injection, IsInjective
<1> QED
  BY <1>2, SourcesAreFinite, FS_Injection

\* A set counted to two has two members.
LEMMA TwoMembers ==
  ASSUME NEW S, Cardinality(S) >= 2
  PROVE  \E a, b \in S : a # b
<1> SUFFICES ASSUME \A a, b \in S : a = b PROVE FALSE
  OBVIOUS
<1>1. CASE S = {}
  <2>1. Cardinality(S) = 0
    BY <1>1, FS_EmptySet
  <2> QED
    BY <2>1
<1>2. CASE S # {}
  <2>1. PICK a : S = {a}
    <3>1. PICK a \in S : TRUE
      BY <1>2
    <3>2. S = {a}
      BY <3>1
    <3> QED
      BY <3>2
  <2>2. Cardinality(S) = 1
    BY <2>1, FS_Singleton
  <2> QED
    BY <2>2
<1> QED
  BY <1>1, <1>2

\* What DedupeAndFilter leaves of the newest rows is a sound blend, if it is two rows.
LEMMA BlendIsSound ==
  ASSUME ForecastIInv, cycle.at = "runs", NEW covering \in SUBSET Sources,
         Cardinality(DedupeAndFilter(covering, cycle.allowed)) >= 2
  PROVE  Sound(DedupeAndFilter(covering, cycle.allowed))
<1> DEFINE blend == DedupeAndFilter(covering, cycle.allowed)
<1>1. \A row \in blend : /\ row.source \in Sources /\ row.source \in cycle.allowed
                         /\ row.fetch = NewestRow(row.source)
  BY DEF DedupeAndFilter
<1>2. PICK a, b \in blend : a # b
  BY TwoMembers
<1>3. a.source # b.source
  <2>1. \A row \in blend : row = [source |-> row.source, fetch |-> row.fetch]
    BY DEF DedupeAndFilter
  <2> QED
    BY <1>1, <1>2, <2>1
<1>4. Cardinality(Contributors(blend)) >= 2
  <2>1. Contributors(blend) \subseteq Sources /\ {a.source, b.source} \subseteq Contributors(blend)
    BY <1>1, <1>2 DEF Contributors
  <2>2. IsFiniteSet(Contributors(blend))
    BY <2>1, SourcesAreFinite, FS_Subset
  <2>3. Cardinality({a.source, b.source}) = 2
    <3>1. IsFiniteSet({a.source}) /\ Cardinality({a.source}) = 1
      BY FS_Singleton
    <3>2. b.source \notin {a.source}
      BY <1>3
    <3>3. Cardinality({a.source} \union {b.source}) = Cardinality({a.source}) + 1
      BY <3>1, <3>2, FS_AddElement
    <3>4. Cardinality({a.source} \union {b.source}) = 2
      BY <3>1, <3>3
    <3>5. {a.source} \union {b.source} = {a.source, b.source}
      OBVIOUS
    <3> QED
      BY <3>4, <3>5
  <2>4. Cardinality({a.source, b.source}) <= Cardinality(Contributors(blend))
    BY <2>1, <2>2, FS_Subset
  <2>5. Cardinality(Contributors(blend)) \in Nat
    BY <2>2, FS_CardinalityType
  <2> QED
    BY <2>3, <2>4, <2>5
<1>5. \A row \in blend : row.fetch >= cycle.before[row.source]
  <2> SUFFICES ASSUME NEW row \in blend PROVE row.fetch >= cycle.before[row.source]
    OBVIOUS
  <2>1. row.source \in Sources /\ row.fetch = NewestRow(row.source)
    BY <1>1
  <2>2. cycle.before[row.source] \in Nat /\ NewestRow(row.source) \in Nat
    BY <2>1, NewestType, ForecastAssumption DEF ForecastIInv, ForecastTypeOK
  <2>3. cycle.before[row.source] <= NewestRow(row.source)
    BY <2>1 DEF ForecastIInv, BeforeIsBehind
  <2> QED
    BY <2>1, <2>2, <2>3
<1> QED
  BY <1>1, <1>4, <1>5 DEF Sound

-----------------------------------------------------------------------------
LEMMA IdlingType ==
  ASSUME NEW allowed \in SUBSET Sources
  PROVE  /\ Idling(allowed) \in [at : {"idle", "runs", "aborted"}, event : 1..(NumEvents + 1),
                                 allowed : SUBSET Sources, before : [Sources -> 0..MaxFetches],
                                 open : [Events -> Prediction]]
         /\ \A e \in Events : Idling(allowed).open[e].sound
         /\ Idling(allowed).at = "idle"
<1>1. NoPrediction \in Prediction /\ NoPrediction.sound
  BY ForecastAssumption DEF NoPrediction, Prediction
<1>2. [e \in Events |-> NoPrediction] \in [Events -> Prediction]
  BY <1>1
<1>3. [s \in Sources |-> 0] \in [Sources -> 0..MaxFetches]
  BY ForecastAssumption
<1> QED
  BY <1>1, <1>2, <1>3, ForecastAssumption DEF Idling

LEMMA ForecastInitIInv == ForecastInit => ForecastIInv
<1> SUFFICES ASSUME ForecastInit PROVE ForecastIInv
  OBVIOUS
<1>1. fetch \in [number : 0..MaxFetches, left : 0..4, got : SUBSET Sources]
  BY ForecastAssumption DEF ForecastInit
<1>2. rows \in [Sources -> SUBSET (1..MaxFetches)]
  BY DEF ForecastInit
<1>3. cycle = Idling(DefaultSources) /\ DefaultSources \in SUBSET Sources
  BY ForecastAssumption DEF ForecastInit
<1>4. newest \in [Events -> Prediction] /\ \A e \in Events : newest[e].sound
  BY ForecastAssumption DEF ForecastInit, NoPrediction, Prediction
<1>5. ForecastTypeOK
  BY <1>1, <1>2, <1>3, <1>4, IdlingType DEF ForecastTypeOK, ForecastInit
<1>6. RowsAreFetched /\ RowsHaveNewest
  BY DEF RowsAreFetched, RowsHaveNewest, ForecastInit
<1>7. BeforeIsBehind /\ PredictionsAreSound
  BY <1>3, <1>4, IdlingType DEF BeforeIsBehind, PredictionsAreSound
<1> QED
  BY <1>5, <1>6, <1>7 DEF ForecastIInv

\* A step of the fetch task among its requests.
LEMMA FetchStep ==
  ASSUME ForecastIInv, UNCHANGED <<rows, enabled, cycle, newest>>,
         fetch' \in [number : 0..MaxFetches, left : 0..4, got : SUBSET Sources],
         fetch'.number >= fetch.number, fetch'.left > 0 => fetch'.number >= 1
  PROVE  ForecastIInv'
<1>1. ForecastTypeOK'
  BY DEF ForecastIInv, ForecastTypeOK
<1>2. RowsAreFetched'
  BY DEF ForecastIInv, ForecastTypeOK, RowsAreFetched
<1>3. RowsHaveNewest' /\ PredictionsAreSound'
  BY DEF ForecastIInv, RowsHaveNewest, PredictionsAreSound
<1>4. BeforeIsBehind'
  BY DEF ForecastIInv, BeforeIsBehind, NewestRow
<1> QED
  BY <1>1, <1>2, <1>3, <1>4 DEF ForecastIInv

LEMMA CollectIInv ==
  ASSUME ForecastIInv, UNCHANGED <<rows, enabled, cycle, newest>>, fetch.left > 0,
         NEW found \in SUBSET Sources, Collect(found)
  PROVE  ForecastIInv'
<1>1. fetch' = [number |-> fetch.number, left |-> fetch.left - 1, got |-> fetch.got \union found]
  BY DEF Collect, ForecastIInv, ForecastTypeOK
<1> QED
  BY <1>1, FetchStep DEF ForecastIInv, ForecastTypeOK, RowsAreFetched

\* What a fetch stores is newer than all rows there are, so no newest row becomes older.
LEMMA StoreIInv ==
  ASSUME ForecastIInv, StoreForecasts
  PROVE  ForecastIInv'
<1>1. fetch' = [number |-> fetch.number, left |-> 0, got |-> {}]
  BY DEF StoreForecasts, ForecastIInv, ForecastTypeOK
<1>2. CASE UNCHANGED rows
  BY <1>1, <1>2, FetchStep DEF StoreForecasts, ForecastIInv, ForecastTypeOK
<1>3. CASE rows' = [s \in Sources |-> rows[s] \union {n \in {fetch.number} : s \in fetch.got}]
  <2>1. fetch.number \in 1..MaxFetches
    BY DEF StoreForecasts, ForecastIInv, RowsAreFetched, ForecastTypeOK
  <2>2. \A s \in Sources : rows[s] \subseteq 1..fetch.number
    BY DEF ForecastIInv, RowsAreFetched
  <2>3. \A s \in Sources : rows'[s] = rows[s] \/ rows'[s] = rows[s] \union {fetch.number}
    BY <1>3
  <2>4. ForecastTypeOK'
    <3>1. rows' \in [Sources -> SUBSET (1..MaxFetches)]
      BY <1>3, <2>1 DEF ForecastIInv, ForecastTypeOK
    <3>2. fetch' \in [number : 0..MaxFetches, left : 0..4, got : SUBSET Sources]
      BY <1>1 DEF ForecastIInv, ForecastTypeOK
    <3> QED
      BY <3>1, <3>2 DEF StoreForecasts, ForecastIInv, ForecastTypeOK
  <2>5. RowsAreFetched'
    BY <1>1, <2>1, <2>2, <2>3 DEF RowsAreFetched
  <2>6. RowsHaveNewest'
    <3> SUFFICES ASSUME NEW s \in Sources, rows'[s] # {}
                 PROVE  \E m \in rows'[s] : \A k \in rows'[s] : m >= k
      BY DEF RowsHaveNewest
    <3>1. CASE rows'[s] = rows[s]
      BY <3>1 DEF ForecastIInv, RowsHaveNewest
    <3>2. CASE rows'[s] = rows[s] \union {fetch.number}
      BY <3>2, <2>1, <2>2
    <3> QED
      BY <2>3, <3>1, <3>2
  <2>7. \A s \in Sources : NewestRow(s) <= NewestRow(s)'
    <3> SUFFICES ASSUME NEW s \in Sources PROVE NewestRow(s) <= NewestRow(s)'
      OBVIOUS
    <3>1. NewestRow(s) \in 0..MaxFetches /\ NewestRow(s)' \in 0..MaxFetches
      BY <2>4, <2>6, NewestType, NewestTypePrimed DEF ForecastIInv
    <3>2. CASE rows[s] = {}
      BY <3>1, <3>2, ForecastAssumption DEF NewestRow
    <3>3. CASE rows[s] # {}
      <4>1. NewestRow(s) \in rows[s]
        BY <3>3, NewestIsLast DEF ForecastIInv
      <4>2. NewestRow(s) \in rows'[s] /\ rows'[s] # {}
        BY <4>1, <2>3
      <4>3. PICK m \in rows'[s] : \A k \in rows'[s] : m >= k
        BY <2>6, <4>2 DEF RowsHaveNewest
      <4>4. \A k \in rows'[s] : Max(rows'[s]) >= k
        BY <4>3, MaxIsLast
      <4>5. NewestRow(s)' = Max(rows'[s])
        BY <4>2 DEF NewestRow
      <4> QED
        BY <3>1, <4>2, <4>4, <4>5
    <3> QED
      BY <3>2, <3>3
  <2>8. BeforeIsBehind'
    <3> SUFFICES ASSUME cycle.at # "idle", NEW s \in Sources
                 PROVE  cycle.before[s] <= NewestRow(s)'
      BY DEF BeforeIsBehind, StoreForecasts
    <3>1. cycle.before[s] <= NewestRow(s)
      BY DEF ForecastIInv, BeforeIsBehind
    <3>2. cycle.before[s] \in Nat /\ NewestRow(s) \in Nat /\ NewestRow(s)' \in Nat
      BY <2>4, <2>6, NewestType, NewestTypePrimed, ForecastAssumption DEF ForecastIInv, ForecastTypeOK
    <3> QED
      BY <3>1, <3>2, <2>7
  <2>9. PredictionsAreSound'
    BY DEF StoreForecasts, ForecastIInv, PredictionsAreSound
  <2> QED
    BY <2>4, <2>5, <2>6, <2>8, <2>9 DEF ForecastIInv
<1> QED
  BY <1>2, <1>3 DEF StoreForecasts

-----------------------------------------------------------------------------
CycleType == [at : {"idle", "runs", "aborted"}, event : 1..(NumEvents + 1), allowed : SUBSET Sources,
              before : [Sources -> 0..MaxFetches], open : [Events -> Prediction]]

\* A step of the prediction task: what it owes.
LEMMA CycleStep ==
  ASSUME ForecastIInv, UNCHANGED <<fetch, rows, enabled>>,
         cycle' \in CycleType, newest' \in [Events -> Prediction],
         \A e \in Events : newest'[e].sound /\ cycle'.open[e].sound,
         cycle'.at # "idle" => \A s \in Sources : cycle'.before[s] <= NewestRow(s)
  PROVE  ForecastIInv'
<1>1. ForecastTypeOK'
  BY DEF ForecastIInv, ForecastTypeOK, CycleType
<1>2. RowsAreFetched' /\ RowsHaveNewest' /\ PredictionsAreSound'
  BY DEF ForecastIInv, RowsAreFetched, RowsHaveNewest, PredictionsAreSound
<1>3. BeforeIsBehind'
  BY DEF BeforeIsBehind, NewestRow
<1> QED
  BY <1>1, <1>2, <1>3 DEF ForecastIInv

LEMMA BeginPredictionsIInv ==
  ASSUME ForecastIInv, BeginPredictions
  PROVE  ForecastIInv'
<1> DEFINE idling == Idling(Allowed(enabled))
           before == [s \in Sources |-> NewestRow(s)]
<1>1. idling \in CycleType /\ \A e \in Events : idling.open[e].sound
  BY AllowedType, IdlingType DEF CycleType
<1>2. before \in [Sources -> 0..MaxFetches]
  BY NewestType DEF ForecastIInv
<1>3. cycle' = [idling EXCEPT !.at = "runs", !.before = before]
  BY DEF BeginPredictions
<1> HIDE DEF idling, before
<1>4. cycle' \in CycleType /\ cycle'.before = before /\ cycle'.open = idling.open
  BY <1>1, <1>2, <1>3 DEF CycleType
<1>5. \A s \in Sources : cycle'.before[s] = NewestRow(s) /\ NewestRow(s) \in Nat
  BY <1>4, NewestType, ForecastAssumption DEF before, ForecastIInv
<1>6. newest' = newest /\ UNCHANGED <<fetch, rows, enabled>>
  BY DEF BeginPredictions
<1>7. newest' \in [Events -> Prediction] /\ \A e \in Events : newest'[e].sound
  BY <1>6 DEF ForecastIInv, ForecastTypeOK, PredictionsAreSound
<1>8. \A e \in Events : cycle'.open[e].sound
  BY <1>1, <1>4
<1> QED
  BY <1>4, <1>5, <1>6, <1>7, <1>8, CycleStep

\* An event the cycle passes over: skipped, or failed.
LEMMA PassOver ==
  ASSUME ForecastIInv, cycle.at # "idle", cycle.event <= NumEvents, NEW at \in {cycle.at, "aborted"},
         cycle' = [cycle EXCEPT !.event = @ + 1, !.at = at], UNCHANGED <<fetch, rows, enabled, newest>>
  PROVE  ForecastIInv'
<1>1. cycle \in CycleType
  BY DEF ForecastIInv, ForecastTypeOK, CycleType
<1>2. /\ cycle.event + 1 \in 1..(NumEvents + 1)
      /\ cycle' = [at |-> at, event |-> cycle.event + 1, allowed |-> cycle.allowed,
                   before |-> cycle.before, open |-> cycle.open]
  <2>1. cycle.event + 1 \in 1..(NumEvents + 1)
    BY <1>1, ForecastAssumption DEF CycleType
  <2>2. cycle = [at |-> cycle.at, event |-> cycle.event, allowed |-> cycle.allowed,
                 before |-> cycle.before, open |-> cycle.open]
    BY <1>1 DEF CycleType
  <2> QED
    BY <2>1, <2>2
<1>3. cycle' \in CycleType /\ cycle'.open = cycle.open /\ cycle'.before = cycle.before
  BY <1>1, <1>2 DEF CycleType
<1>4. newest' \in [Events -> Prediction] /\ \A e \in Events : newest'[e].sound /\ cycle'.open[e].sound
  BY <1>3 DEF ForecastIInv, ForecastTypeOK, PredictionsAreSound
<1> QED
  BY <1>3, <1>4, CycleStep DEF ForecastIInv, BeforeIsBehind

LEMMA StorePredictionIInv ==
  ASSUME ForecastIInv, cycle.at = "runs", cycle.event <= NumEvents, NEW blend, Sound(blend),
         StorePrediction(GeneratePrediction(blend)), UNCHANGED <<fetch, rows, enabled, newest>>
  PROVE  ForecastIInv'
<1> DEFINE prediction == GeneratePrediction(blend)
<1>1. cycle \in CycleType /\ cycle.event \in Events
  BY ForecastAssumption DEF ForecastIInv, ForecastTypeOK, CycleType, Events
<1>2. Sound(blend) = TRUE
  <2>1. Sound(blend) \in BOOLEAN
    BY DEF Sound
  <2> QED
    BY <2>1
<1>3. prediction = [age |-> 0, sound |-> TRUE] /\ prediction \in Prediction
  BY <1>2, ForecastAssumption DEF GeneratePrediction, Prediction
<1>4. cycle' = [cycle EXCEPT !.event = @ + 1, !.open[cycle.event] = prediction]
  BY DEF StorePrediction
<1> HIDE DEF prediction
<1>5. cycle' \in CycleType
  <2> DEFINE open == [cycle.open EXCEPT ![cycle.event] = prediction]
  <2>1. open \in [Events -> Prediction]
    BY <1>1, <1>3 DEF CycleType
  <2>2. cycle' = [at |-> cycle.at, event |-> cycle.event + 1, allowed |-> cycle.allowed,
                  before |-> cycle.before, open |-> open]
    BY <1>1, <1>4 DEF CycleType
  <2>3. cycle.event + 1 \in 1..(NumEvents + 1)
    BY <1>1, ForecastAssumption DEF CycleType
  <2> HIDE DEF open
  <2> QED
    BY <1>1, <2>1, <2>2, <2>3 DEF CycleType
<1>6. cycle'.before = cycle.before
  BY <1>1, <1>4 DEF CycleType
<1>7. \A e \in Events : cycle'.open[e] = IF e = cycle.event THEN prediction ELSE cycle.open[e]
  BY <1>1, <1>4 DEF CycleType
<1>8. newest' \in [Events -> Prediction] /\ \A e \in Events : newest'[e].sound /\ cycle'.open[e].sound
  BY <1>3, <1>7 DEF ForecastIInv, ForecastTypeOK, PredictionsAreSound
<1> QED
  BY <1>5, <1>6, <1>8, CycleStep DEF ForecastIInv, BeforeIsBehind

LEMMA PredictEventIInv ==
  ASSUME ForecastIInv, PredictEvent
  PROVE  ForecastIInv'
<1>1. PICK covering \in SUBSET Sources :
        IF Cardinality(DedupeAndFilter(covering, cycle.allowed)) < 2
        THEN cycle' = [cycle EXCEPT !.event = @ + 1]
        ELSE StorePrediction(GeneratePrediction(DedupeAndFilter(covering, cycle.allowed)))
  BY DEF PredictEvent
<1> DEFINE blend == DedupeAndFilter(covering, cycle.allowed)
<1>2. cycle.at = "runs" /\ cycle.event <= NumEvents /\ UNCHANGED <<fetch, rows, enabled, newest>>
  BY DEF PredictEvent
<1>3. CASE Cardinality(blend) < 2
  <2>1. cycle' = [cycle EXCEPT !.event = @ + 1, !.at = cycle.at]
    BY <1>1, <1>3 DEF ForecastIInv, ForecastTypeOK
  <2> QED
    BY <1>2, <2>1, PassOver
<1>4. CASE ~(Cardinality(blend) < 2)
  <2>1. Cardinality(blend) >= 2
    <3>1. IsFiniteSet(blend)
      BY BlendIsFinite DEF ForecastIInv, ForecastTypeOK
    <3>2. Cardinality(blend) \in Nat
      BY <3>1, FS_CardinalityType
    <3> QED
      BY <1>4, <3>2
  <2>2. Sound(blend)
    BY <1>2, <2>1, BlendIsSound
  <2>3. StorePrediction(GeneratePrediction(blend))
    BY <1>1, <1>4
  <2> QED
    BY <1>2, <2>2, <2>3, StorePredictionIInv
<1> QED
  BY <1>3, <1>4

LEMMA PredictionFailsIInv ==
  ASSUME ForecastIInv, PredictionFails
  PROVE  ForecastIInv'
BY PassOver DEF PredictionFails

LEMMA EndIInv ==
  ASSUME ForecastIInv, CommitPredictions \/ KillPredictions
  PROVE  ForecastIInv'
<1>1. cycle' = Idling(DefaultSources) /\ UNCHANGED <<fetch, rows, enabled>>
  BY DEF CommitPredictions, KillPredictions
<1>2. cycle' \in CycleType /\ cycle'.at = "idle" /\ \A e \in Events : cycle'.open[e].sound
  BY <1>1, IdlingType, ForecastAssumption DEF CycleType
<1>3. newest' \in [Events -> Prediction] /\ \A e \in Events : newest'[e].sound
  <2>1. \A e \in Events : /\ newest[e] \in Prediction /\ cycle.open[e] \in Prediction
                          /\ newest[e].sound /\ cycle.open[e].sound
    BY DEF ForecastIInv, ForecastTypeOK, PredictionsAreSound
  <2>2. newest' = newest \/ newest' = [e \in Events |-> IF cycle.at = "runs" /\ cycle.open[e] # NoPrediction
                                                      THEN cycle.open[e] ELSE newest[e]]
    BY DEF CommitPredictions, KillPredictions
  <2> QED
    BY <2>1, <2>2 DEF ForecastIInv, ForecastTypeOK
<1> QED
  BY <1>1, <1>2, <1>3, CycleStep

LEMMA ForecastTickIInv ==
  ASSUME ForecastIInv, ForecastTick
  PROVE  ForecastIInv'
<1>1. \A e \in Events : newest[e] \in Prediction /\ newest[e].sound
  BY DEF ForecastIInv, ForecastTypeOK, PredictionsAreSound
<1>2. \A e \in Events : newest'[e] = [age |-> IF newest[e].age > MaxAge THEN newest[e].age ELSE newest[e].age + 1,
                                     sound |-> newest[e].sound]
  BY <1>1 DEF ForecastTick, Prediction
<1>3. \A e \in Events : newest'[e] \in Prediction /\ newest'[e].sound
  <2> SUFFICES ASSUME NEW e \in Events PROVE newest'[e] \in Prediction /\ newest'[e].sound
    OBVIOUS
  <2>1. /\ newest[e].age \in 0..(MaxAge + 2) /\ newest[e].sound \in BOOLEAN /\ newest[e].sound
    BY <1>1 DEF Prediction
  <2> DEFINE age == IF newest[e].age > MaxAge THEN newest[e].age ELSE newest[e].age + 1
  <2>2. age \in 0..(MaxAge + 2)
    BY <2>1, ForecastAssumption
  <2>3. newest'[e] = [age |-> age, sound |-> newest[e].sound]
    BY <1>2
  <2> HIDE DEF age
  <2> QED
    BY <2>1, <2>2, <2>3 DEF Prediction
<1>4. newest' \in [Events -> Prediction]
  BY <1>3 DEF ForecastTick
<1>5. cycle' = cycle /\ UNCHANGED <<fetch, rows, enabled>>
  BY DEF ForecastTick
<1>6. cycle' \in CycleType /\ \A e \in Events : cycle'.open[e].sound
  BY <1>5 DEF ForecastIInv, ForecastTypeOK, CycleType, PredictionsAreSound
<1> QED
  BY <1>3, <1>4, <1>5, <1>6, CycleStep DEF ForecastIInv, BeforeIsBehind

LEMMA UpdateSourcesIInv ==
  ASSUME ForecastIInv, UpdateSources
  PROVE  ForecastIInv'
<1>1. enabled' \in SourceChoices /\ UNCHANGED <<fetch, rows, cycle, newest>>
  BY DEF UpdateSources
<1>2. ForecastTypeOK'
  BY <1>1 DEF ForecastIInv, ForecastTypeOK
<1>3. RowsAreFetched' /\ RowsHaveNewest' /\ PredictionsAreSound' /\ BeforeIsBehind'
  BY <1>1 DEF ForecastIInv, RowsAreFetched, RowsHaveNewest, PredictionsAreSound, BeforeIsBehind, NewestRow
<1> QED
  BY <1>2, <1>3 DEF ForecastIInv

-----------------------------------------------------------------------------
LEMMA ForecastNextIInv == ForecastIInv /\ [ForecastNext]_forecastVars => ForecastIInv'
<1> SUFFICES ASSUME ForecastIInv, [ForecastNext]_forecastVars PROVE ForecastIInv'
  OBVIOUS
<1>1. CASE BeginFetch
  <2>1. fetch' = [number |-> fetch.number + 1, left |-> 4, got |-> {}] /\ fetch.number < MaxFetches
    BY <1>1 DEF BeginFetch, Steps
  <2>2. /\ fetch' \in [number : 0..MaxFetches, left : 0..4, got : SUBSET Sources]
        /\ fetch'.number >= fetch.number /\ fetch'.number >= 1
    BY <2>1, ForecastAssumption DEF ForecastIInv, ForecastTypeOK
  <2> QED
    BY <1>1, <2>2, FetchStep DEF BeginFetch
<1>2. CASE FetchNwsForecast
  <2>1. PICK found \in SUBSET Sources : Collect(found)
    BY <1>2 DEF FetchNwsForecast, PeriodForecast, Sources, Nws
  <2> QED
    BY <1>2, <2>1, CollectIInv DEF FetchNwsForecast
<1>3. CASE FetchNwsGridpoint
  <2>1. PICK found \in SUBSET Sources : Collect(found)
    BY <1>3 DEF FetchNwsGridpoint, GridForecast, Sources, Nws
  <2> QED
    BY <1>3, <2>1, CollectIInv DEF FetchNwsGridpoint
<1>4. CASE FetchOpenMeteo
  <2>1. PICK found \in SUBSET Sources : Collect(found)
    BY <1>4 DEF FetchOpenMeteo, ModelForecasts, Sources
  <2> QED
    BY <1>4, <2>1, CollectIInv DEF FetchOpenMeteo
<1>5. CASE KillFetch
  <2>1. fetch' = [number |-> fetch.number, left |-> 0, got |-> {}] /\ fetch.number \in 0..MaxFetches
    BY <1>5 DEF KillFetch, ForecastIInv, ForecastTypeOK
  <2>2. /\ fetch' \in [number : 0..MaxFetches, left : 0..4, got : SUBSET Sources]
        /\ fetch'.number >= fetch.number /\ fetch'.left = 0
    BY <2>1
  <2> QED
    BY <1>5, <2>2, FetchStep DEF KillFetch
<1>6. CASE UNCHANGED forecastVars
  <2>1. ForecastTypeOK'
    BY <1>6 DEF forecastVars, ForecastIInv, ForecastTypeOK
  <2>2. RowsAreFetched' /\ RowsHaveNewest' /\ PredictionsAreSound' /\ BeforeIsBehind'
    BY <1>6 DEF forecastVars, ForecastIInv, RowsAreFetched, RowsHaveNewest, PredictionsAreSound,
                BeforeIsBehind, NewestRow
  <2> QED
    BY <2>1, <2>2 DEF ForecastIInv
<1> QED
  BY <1>1, <1>2, <1>3, <1>4, <1>5, <1>6, StoreIInv, UpdateSourcesIInv, BeginPredictionsIInv,
     PredictEventIInv, PredictionFailsIInv, EndIInv, ForecastTickIInv DEF ForecastNext

(***************************************************************************)
(* The state of fetches, rows and predictions is of its type.              *)
(***************************************************************************)
THEOREM ForecastTypeCorrect == ForecastSpec => []ForecastTypeOK
<1>1. ForecastIInv => ForecastTypeOK
  BY DEF ForecastIInv
<1> QED
  BY <1>1, ForecastInitIInv, ForecastNextIInv, PTL DEF ForecastSpec

(***************************************************************************)
(* What a trading cycle trades on is a blend of two allowed sources or     *)
(* more, by forecasts not older than the newest of when the cycle began,   *)
(* and fresh (validate_predictions).                                       *)
(***************************************************************************)
THEOREM TradesOnSoundPredictions == ForecastSpec => []TradedIsSound
<1>1. ForecastIInv => TradedIsSound
  BY DEF ForecastIInv, PredictionsAreSound, TradedIsSound, Traded, Valid
<1> QED
  BY <1>1, ForecastInitIInv, ForecastNextIInv, PTL DEF ForecastSpec

-----------------------------------------------------------------------------
(* The model caches.                                                       *)

\* A training has its key file before it, and a load something to read.
KeyIsLast ==
  \A p \in Procs : /\ Saving(p) => KeyFile \in proc[p].todo
                   /\ proc[p].at = "loads" => proc[p].todo # {}

SeenIsPast == \A p \in Procs : cache[p].seen <= mtime

\* What a child has read under the present time and the disk no longer holds is being
\* written, or a training was cut short.
OldHasWriter ==
  \A p \in Procs : cache[p].seen = mtime =>
    \A f \in DOMAIN cache[p].files :
      cache[p].files[f] = disk[f] \/ broken \/ \E q \in Procs : Saving(q)

ModelIInv == ModelTypeOK /\ KeyIsLast /\ SeenIsPast /\ OldHasWriter

LEMMA TornType == Torn \in Nat /\ 0 \in 0..Torn /\ Torn \in 0..Torn /\ 0..MaxTrain \subseteq 0..Torn
  BY ModelAssumption DEF Torn

LEMMA KeyIsAlone == KeyFile \in Files /\ KeyFile \notin ModelFiles
  BY ModelAssumption DEF KeyFile, Files, ModelFiles

LEMMA UnreadType ==
  /\ Unread \in [seen : Nat \union {-1}, files : ReadSoFar] /\ Unread.seen = -1
  /\ DOMAIN Unread.files = {}
<1> DEFINE nothing == [f \in {} |-> 0]
<1>1. nothing \in [{} -> 0..Torn] /\ DOMAIN nothing = {}
  OBVIOUS
<1>2. nothing \in ReadSoFar
  BY <1>1 DEF ReadSoFar
<1> HIDE DEF nothing
<1>3. Unread = [seen |-> -1, files |-> nothing]
  BY DEF Unread, nothing
<1> QED
  BY <1>1, <1>2, <1>3

LEMMA ReadFiles ==
  ASSUME NEW files \in ReadSoFar, NEW f \in Files, NEW content \in 0..Torn
  PROVE  Extended(files, f, content) \in ReadSoFar
<1>1. PICK some \in SUBSET Files : files \in [some -> 0..Torn]
  BY DEF ReadSoFar
<1>2. DOMAIN files = some /\ \A g \in some : files[g] \in 0..Torn
  BY <1>1
<1>3. Extended(files, f, content) \in [some \union {f} -> 0..Torn]
  BY <1>2 DEF Extended
<1>4. some \union {f} \in SUBSET Files
  OBVIOUS
<1> QED
  BY <1>3, <1>4 DEF ReadSoFar

LEMMA ModelInitIInv == ModelInit => ModelIInv
<1> SUFFICES ASSUME ModelInit PROVE ModelIInv
  OBVIOUS
<1>1. Resting \in [at : {"idle", "loads", "saves"}, todo : SUBSET Files, gen : 0..MaxTrain]
  BY ModelAssumption DEF Resting
<1>2. ModelTypeOK
  <2>1. /\ proc \in [Procs -> [at : {"idle", "loads", "saves"}, todo : SUBSET Files, gen : 0..MaxTrain]]
        /\ cache \in [Procs -> [seen : Nat \union {-1}, files : ReadSoFar]]
    BY <1>1, UnreadType DEF ModelInit
  <2>2. artifact \in Artifacts /\ mtime = 0 /\ trained = 0 /\ broken = FALSE
    BY DEF ModelInit
  <2>3. disk \in [Files -> 0..Torn]
    <3>1. disk = [f \in Files |-> 0]
      BY DEF ModelInit
    <3> QED
      BY <3>1, TornType
  <2> QED
    <3>1. mtime \in Nat /\ trained \in 0..MaxTrain
      BY <2>2, ModelAssumption
    <3>2. broken \in BOOLEAN
      BY <2>2
    <3> QED
      BY <2>1, <2>2, <2>3, <3>1, <3>2 DEF ModelTypeOK
<1>3. \A p \in Procs : proc[p] = Resting /\ cache[p] = Unread
  BY DEF ModelInit
<1>4. KeyIsLast
  BY <1>3 DEF KeyIsLast, Saving, Resting
<1>5. SeenIsPast /\ OldHasWriter
  BY <1>3, UnreadType DEF ModelInit, SeenIsPast, OldHasWriter
<1> QED
  BY <1>2, <1>4, <1>5 DEF ModelIInv
-----------------------------------------------------------------------------

\* No step takes up another artifact.
LEMMA SameFiles ==
  ASSUME artifact' = artifact
  PROVE  Files' = Files /\ KeyFile' = KeyFile /\ ReadSoFar' = ReadSoFar
<1>1. Files' = Files /\ KeyFile' = KeyFile
  BY DEF Files, KeyFile
<1> QED
  BY <1>1 DEF ReadSoFar

Job == [at : {"idle", "loads", "saves"}, todo : SUBSET Files, gen : 0..MaxTrain]
Copy == [seen : Nat \union {-1}, files : ReadSoFar]

LEMMA RestingType == ModelTypeOK => Resting \in Job /\ Resting.at = "idle"
  BY ModelAssumption DEF Resting, Job

\* What is left to show for a step of one process.
LEMMA ProcStep ==
  ASSUME ModelIInv, NEW p \in Procs, NEW job \in Job, NEW copy \in Copy,
         artifact' = artifact, disk' \in [Files -> 0..Torn], mtime' \in Nat, mtime' >= mtime,
         trained' \in 0..MaxTrain, broken' \in BOOLEAN,
         proc' = [proc EXCEPT ![p] = job], cache' = [cache EXCEPT ![p] = copy],
         job.at = "saves" => KeyFile \in job.todo,
         job.at = "loads" => job.todo # {},
         copy.seen <= mtime',
         mtime' = mtime => \A r \in Procs \ {p} : cache[r].seen = mtime =>
           \A f \in DOMAIN cache[r].files :
             cache[r].files[f] = disk'[f] \/ broken' \/ \E q \in Procs : Saving(q)',
         copy.seen = mtime' => \A f \in DOMAIN copy.files :
           copy.files[f] = disk'[f] \/ broken' \/ \E q \in Procs : Saving(q)'
  PROVE  ModelIInv'
<1> USE SameFiles
<1>1. /\ proc \in [Procs -> Job] /\ cache \in [Procs -> Copy] /\ mtime \in Nat
      /\ artifact \in Artifacts
  BY DEF ModelIInv, ModelTypeOK, Job, Copy
<1>2. proc'[p] = job /\ cache'[p] = copy
  BY <1>1
<1>3. \A r \in Procs : r # p => proc'[r] = proc[r] /\ cache'[r] = cache[r]
  BY <1>1
<1>4. ModelTypeOK'
  <2>1. proc' \in [Procs -> Job] /\ cache' \in [Procs -> Copy]
    BY <1>1
  <2>2. Job' = Job /\ Copy' = Copy
    BY DEF Job, Copy
  <2> QED
    BY <1>1, <2>1, <2>2 DEF ModelTypeOK, Job, Copy
<1>5. KeyIsLast'
  BY <1>2, <1>3 DEF ModelIInv, KeyIsLast, Saving
<1>6. SeenIsPast'
  <2>1. \A r \in Procs : r # p => cache[r].seen <= mtime /\ cache[r].seen \in Int
    BY <1>1 DEF ModelIInv, SeenIsPast, Copy
  <2>2. \A r \in Procs : cache'[r].seen <= mtime'
    BY <1>1, <1>2, <1>3, <2>1
  <2> QED
    BY <2>2 DEF SeenIsPast
<1>7. OldHasWriter'
  <2>1. ASSUME NEW r \in Procs, cache'[r].seen = mtime', NEW f \in DOMAIN cache'[r].files
        PROVE  cache'[r].files[f] = disk'[f] \/ broken' \/ \E q \in Procs : Saving(q)'
    <3>1. CASE r = p
      BY <1>2, <2>1, <3>1
    <3>2. CASE r # p
      <4>1. cache'[r] = cache[r]
        BY <1>3, <3>2
      <4>2. cache[r].seen <= mtime /\ cache[r].seen \in Int
        BY <1>1 DEF ModelIInv, SeenIsPast, Copy
      <4>3. mtime' = mtime
        BY <1>1, <2>1, <4>1, <4>2
      <4> QED
        BY <2>1, <3>2, <4>1, <4>3
    <3> QED
      BY <3>1, <3>2
  <2> QED
    BY <2>1 DEF OldHasWriter
<1> QED
  BY <1>4, <1>5, <1>6, <1>7 DEF ModelIInv
LEMMA BeginLoadModelIInv ==
  ASSUME ModelIInv, NEW p \in Procs, BeginLoad(p)
  PROVE  ModelIInv'
<1> DEFINE job == [Resting EXCEPT !.at = "loads", !.todo = Files]
           copy == [Unread EXCEPT !.seen = mtime]
<1>1. job \in Job /\ job.at = "loads" /\ job.todo # {}
  BY RestingType, KeyIsAlone, ModelAssumption DEF Job, Resting, ModelIInv
<1>2. mtime \in Nat /\ copy \in Copy /\ copy.seen = mtime /\ DOMAIN copy.files = {}
  BY UnreadType DEF Copy, ModelIInv, ModelTypeOK
<1>3. proc' = [proc EXCEPT ![p] = job] /\ cache' = [cache EXCEPT ![p] = copy]
      /\ UNCHANGED <<artifact, disk, mtime, trained, broken>> /\ ~Saving(p)
  BY DEF BeginLoad, Saving
<1> HIDE DEF job, copy
<1>4. \A q \in Procs : Saving(q) => Saving(q)'
  BY <1>3 DEF Saving, ModelIInv, ModelTypeOK
<1>5. /\ artifact' = artifact /\ disk' \in [Files -> 0..Torn] /\ mtime' \in Nat /\ mtime' >= mtime
      /\ trained' \in 0..MaxTrain /\ broken' \in BOOLEAN
  BY <1>3 DEF ModelIInv, ModelTypeOK
<1>6. mtime' = mtime => \A r \in Procs \ {p} : cache[r].seen = mtime =>
        \A f \in DOMAIN cache[r].files :
          cache[r].files[f] = disk'[f] \/ broken' \/ \E q \in Procs : Saving(q)'
  BY <1>3, <1>4 DEF ModelIInv, OldHasWriter
<1> QED
  BY <1>1, <1>2, <1>3, <1>5, <1>6, ProcStep

LEMMA LoadFileModelIInv ==
  ASSUME ModelIInv, NEW p \in Procs, LoadFile(p)
  PROVE  ModelIInv'
<1>0. PICK f \in Turn(proc[p].todo) :
        /\ LoadDone(p, f)
        /\ \E content \in Readings(f) : cache' = [cache EXCEPT ![p].files = Extended(@, f, content)]
  BY DEF LoadFile
<1>1. PICK content \in Readings(f) :
        /\ cache' = [cache EXCEPT ![p].files = Extended(@, f, content)]
        /\ proc[p].at = "loads" /\ UNCHANGED <<artifact, disk, mtime, trained, broken>>
  BY <1>0 DEF LoadFile
<1> DEFINE rest == proc[p].todo \ {f}
           job == IF rest = {} THEN Resting ELSE [proc[p] EXCEPT !.todo = rest]
           copy == [cache[p] EXCEPT !.files = Extended(@, f, content)]
<1>2. /\ proc[p] \in Job /\ cache[p] \in Copy /\ proc \in [Procs -> Job] /\ cache \in [Procs -> Copy]
      /\ mtime \in Nat /\ disk \in [Files -> 0..Torn]
  BY DEF ModelIInv, ModelTypeOK, Job, Copy
<1>3. f \in proc[p].todo /\ f \in Files
  BY <1>0, <1>2 DEF Turn, Job
<1>4. /\ content \in 0..Torn
      /\ content = disk[f] \/ \E q \in Procs : Saving(q)
  BY <1>1, <1>2, <1>3, TornType DEF Readings
<1>5. job \in Job /\ job.at # "saves" /\ (job.at = "loads" => job.todo # {})
  BY <1>1, <1>2, RestingType DEF ModelIInv, Job
<1>6. /\ copy \in Copy /\ copy.seen = cache[p].seen /\ copy.files = Extended(cache[p].files, f, content)
      /\ cache[p].files \in ReadSoFar
  BY <1>2, <1>3, <1>4, ReadFiles DEF Copy
<1>7. proc' = [proc EXCEPT ![p] = job] /\ cache' = [cache EXCEPT ![p] = copy]
  BY <1>0, <1>1 DEF LoadDone
<1> HIDE DEF job, copy
<1>8. \A q \in Procs : Saving(q) => Saving(q)'
  BY <1>1, <1>2, <1>7 DEF Saving
<1>9. ASSUME copy.seen = mtime, NEW g \in DOMAIN copy.files
      PROVE  copy.files[g] = disk[g] \/ broken \/ \E q \in Procs : Saving(q)
  <2> DEFINE had == cache[p].files
  <2>1. had \in ReadSoFar /\ copy.files = Extended(had, f, content)
    BY <1>6
  <2> HIDE DEF had
  <2>2. g \in DOMAIN had \union {f}
        /\ copy.files[g] = IF g = f THEN content ELSE had[g]
    <3>1. /\ DOMAIN Extended(had, f, content) = DOMAIN had \union {f}
          /\ \A h \in DOMAIN had \union {f} :
               Extended(had, f, content)[h] = IF h = f THEN content ELSE had[h]
      BY DEF Extended
    <3> QED
      BY <1>9, <2>1, <3>1
  <2> QED
    BY <2>2, <1>4, <1>6, <1>9 DEF ModelIInv, OldHasWriter, had
<1>10. /\ artifact' = artifact /\ disk' \in [Files -> 0..Torn] /\ mtime' \in Nat /\ mtime' >= mtime
      /\ trained' \in 0..MaxTrain /\ broken' \in BOOLEAN
  BY <1>1 DEF ModelIInv, ModelTypeOK
<1>11. mtime' = mtime => \A r \in Procs \ {p} : cache[r].seen = mtime =>
        \A g \in DOMAIN cache[r].files :
          cache[r].files[g] = disk'[g] \/ broken' \/ \E q \in Procs : Saving(q)'
  BY <1>1, <1>8 DEF ModelIInv, OldHasWriter
<1>12. copy.seen <= mtime' /\ (copy.seen = mtime' => \A g \in DOMAIN copy.files :
         copy.files[g] = disk'[g] \/ broken' \/ \E q \in Procs : Saving(q)')
  BY <1>1, <1>6, <1>8, <1>9 DEF ModelIInv, SeenIsPast
<1> QED
  BY <1>5, <1>6, <1>7, <1>10, <1>11, <1>12, ProcStep

LEMMA StartTrainingModelIInv ==
  ASSUME ModelIInv, NEW p \in Procs, StartTraining(p)
  PROVE  ModelIInv'
<1>1. PICK acc \in Accepted :
        proc' = [proc EXCEPT ![p] = [at |-> "saves", gen |-> trained + 1, todo |-> FilesSaved(acc)]]
  BY DEF StartTraining
<1> DEFINE job == [at |-> "saves", gen |-> trained + 1, todo |-> FilesSaved(acc)]
<1>2. FilesSaved(acc) \subseteq Files /\ KeyFile \in FilesSaved(acc)
  BY <1>1 DEF FilesSaved, Files, ModelFiles, Accepted
<1>3. trained + 1 \in 0..MaxTrain /\ trained \in 0..MaxTrain
  BY ModelAssumption DEF StartTraining, ModelIInv, ModelTypeOK
<1>4. job \in Job /\ job.at = "saves" /\ KeyFile \in job.todo
  BY <1>2, <1>3 DEF Job
<1>5. cache[p] \in Copy /\ cache' = [cache EXCEPT ![p] = cache[p]] /\ proc \in [Procs -> Job]
      /\ UNCHANGED <<artifact, disk, mtime, broken>> /\ trained' \in 0..MaxTrain
  BY <1>3 DEF StartTraining, ModelIInv, ModelTypeOK, Copy, Job
<1> HIDE DEF job
<1>6. Saving(p)'
  BY <1>1, <1>4, <1>5 DEF Saving, job
<1>7. /\ artifact' = artifact /\ disk' \in [Files -> 0..Torn] /\ mtime' \in Nat /\ mtime' >= mtime
      /\ trained' \in 0..MaxTrain /\ broken' \in BOOLEAN
  BY <1>5 DEF ModelIInv, ModelTypeOK
<1>8. proc' = [proc EXCEPT ![p] = job] /\ cache[p].seen <= mtime'
  BY <1>1, <1>5 DEF job, ModelIInv, SeenIsPast
<1> QED
  BY <1>4, <1>5, <1>6, <1>7, <1>8, ProcStep

LEMMA WriteModelFileIInv ==
  ASSUME ModelIInv, NEW p \in Procs, WriteModelFile(p)
  PROVE  ModelIInv'
<1>1. PICK f \in Turn(proc[p].todo) \ {KeyFile} :
        \/ Overwrite(f, proc[p].gen) /\ SaveDone(p, proc[p].todo \ {f})
        \/ Overwrite(f, Torn) /\ SaveDone(p, WithoutModel(proc[p].todo, f))
  BY DEF WriteModelFile
<1>2. /\ proc[p] \in Job /\ cache[p] \in Copy /\ proc \in [Procs -> Job] /\ cache \in [Procs -> Copy]
      /\ Saving(p) /\ KeyFile \in proc[p].todo /\ disk \in [Files -> 0..Torn]
  BY DEF ModelIInv, ModelTypeOK, Job, Copy, WriteModelFile, KeyIsLast
<1>3. PICK content \in 0..Torn, rest \in SUBSET proc[p].todo :
        Overwrite(f, content) /\ SaveDone(p, rest) /\ KeyFile \in rest
  <2>1. proc[p].gen \in 0..Torn /\ Torn \in 0..Torn
    BY <1>2, TornType DEF Job
  <2>2. KeyFile \in proc[p].todo \ {f} /\ KeyFile \in WithoutModel(proc[p].todo, f)
        /\ proc[p].todo \ {f} \subseteq proc[p].todo
        /\ WithoutModel(proc[p].todo, f) \subseteq proc[p].todo
    BY <1>1, <1>2 DEF WithoutModel
  <2> QED
    BY <1>1, <2>1, <2>2
<1> DEFINE job == [proc[p] EXCEPT !.todo = rest]
<1>4. job \in Job /\ job.at = "saves" /\ job.todo = rest
  BY <1>2, <1>3 DEF Job, Saving
<1>5. /\ proc' = [proc EXCEPT ![p] = job] /\ cache' = [cache EXCEPT ![p] = cache[p]]
      /\ UNCHANGED <<artifact, trained, mtime>> /\ broken' \in BOOLEAN
      /\ disk' \in [Files -> 0..Torn]
  BY <1>1, <1>2, <1>3 DEF SaveDone, Overwrite
<1> HIDE DEF job
<1>6. Saving(p)'
  BY <1>2, <1>4, <1>5 DEF Saving
<1>7. /\ artifact' = artifact /\ disk' \in [Files -> 0..Torn] /\ mtime' \in Nat /\ mtime' >= mtime
      /\ trained' \in 0..MaxTrain /\ broken' \in BOOLEAN
  BY <1>5 DEF ModelIInv, ModelTypeOK
<1>8. cache[p].seen <= mtime'
  BY <1>5 DEF ModelIInv, SeenIsPast
<1> QED
  BY <1>2, <1>3, <1>4, <1>5, <1>6, <1>7, <1>8, ProcStep

LEMMA WriteKeyFileIInv ==
  ASSUME ModelIInv, NEW p \in Procs, WriteKeyFile(p)
  PROVE  ModelIInv'
<1>1. /\ proc[p] \in Job /\ proc \in [Procs -> Job] /\ disk \in [Files -> 0..Torn]
      /\ mtime \in Nat /\ proc[p].gen \in 0..Torn /\ cache \in [Procs -> Copy]
  BY TornType DEF ModelIInv, ModelTypeOK, Job, Copy
<1>2. /\ proc' = [proc EXCEPT ![p] = Resting] /\ cache' = [cache EXCEPT ![p] = Unread]
      /\ UNCHANGED <<artifact, trained>> /\ broken' \in BOOLEAN /\ mtime' = mtime + 1
      /\ disk' \in [Files -> 0..Torn]
  BY <1>1 DEF WriteKeyFile, SaveDone, Overwrite
<1>3. Resting \in Job /\ Resting.at = "idle" /\ Unread \in Copy /\ Unread.seen = -1
      /\ DOMAIN Unread.files = {}
  BY RestingType, UnreadType DEF ModelIInv, Copy
<1>4. /\ artifact' = artifact /\ disk' \in [Files -> 0..Torn] /\ mtime' \in Nat /\ mtime' >= mtime
      /\ trained' \in 0..MaxTrain /\ broken' \in BOOLEAN
  BY <1>1, <1>2 DEF ModelIInv, ModelTypeOK
<1>5. mtime' # mtime /\ Unread.seen <= mtime' /\ Unread.seen # mtime'
  BY <1>1, <1>2, <1>3
<1> QED
  BY <1>2, <1>3, <1>4, <1>5, ProcStep

LEMMA CutShortIInv ==
  ASSUME ModelIInv, NEW p \in Procs, CutShort(p)
  PROVE  ModelIInv'
<1>1. /\ proc[p] \in Job /\ proc \in [Procs -> Job] /\ disk \in [Files -> 0..Torn]
      /\ mtime \in Nat /\ cache \in [Procs -> Copy] /\ cache[p] \in Copy /\ Torn \in 0..Torn
      /\ cache[p].seen <= mtime /\ cache[p].seen \in Int
  BY TornType DEF ModelIInv, ModelTypeOK, Job, Copy, SeenIsPast
<1>2. Resting \in Job /\ Resting.at = "idle" /\ Unread \in Copy /\ Unread.seen = -1
      /\ DOMAIN Unread.files = {}
  BY RestingType, UnreadType DEF ModelIInv, Copy
<1>3. PICK copy \in {Unread, cache[p]} :
        cache' = [cache EXCEPT ![p] = copy] /\ (~Saving(p) => copy = Unread)
  BY <1>1 DEF CutShort
<1>4. /\ proc' = [proc EXCEPT ![p] = Resting] /\ UNCHANGED <<artifact, trained>>
      /\ broken' = (broken \/ Saving(p))
  BY DEF CutShort
<1>5. /\ disk' \in [Files -> 0..Torn] /\ mtime' \in Nat /\ mtime' >= mtime
      /\ ~Saving(p) => disk' = disk /\ mtime' = mtime
  BY <1>1 DEF CutShort, Overwrite
<1>6. ASSUME ~Saving(p), NEW q \in Procs, Saving(q) PROVE Saving(q)'
  BY <1>1, <1>4, <1>6 DEF Saving
<1>7. copy \in Copy /\ copy.seen <= mtime'
  BY <1>1, <1>2, <1>3, <1>5
<1>8. broken' \in BOOLEAN
  BY <1>4 DEF ModelIInv, ModelTypeOK
<1>9. /\ artifact' = artifact /\ disk' \in [Files -> 0..Torn] /\ mtime' \in Nat /\ mtime' >= mtime
      /\ trained' \in 0..MaxTrain /\ broken' \in BOOLEAN
  BY <1>4, <1>5, <1>8 DEF ModelIInv, ModelTypeOK
<1>10. CASE Saving(p)
  <2>1. broken'
    BY <1>4, <1>10
  <2> QED
    BY <1>2, <1>3, <1>4, <1>7, <1>9, <2>1, ProcStep
<1>11. CASE ~Saving(p)
  <2>1. copy = Unread /\ disk' = disk /\ mtime' = mtime /\ (broken' <=> broken)
    BY <1>3, <1>4, <1>5, <1>11
  <2>2. mtime' = mtime => \A r \in Procs \ {p} : cache[r].seen = mtime =>
          \A f \in DOMAIN cache[r].files :
            cache[r].files[f] = disk'[f] \/ broken' \/ \E q \in Procs : Saving(q)'
    BY <1>6, <1>11, <2>1 DEF ModelIInv, OldHasWriter
  <2>3. copy.seen # mtime'
    BY <1>1, <1>2, <2>1
  <2> QED
    BY <1>2, <1>3, <1>4, <1>7, <1>9, <2>2, <2>3, ProcStep
<1> QED
  BY <1>10, <1>11

LEMMA ModelNextIInv == ModelIInv /\ [ModelNext]_modelVars => ModelIInv'
<1> SUFFICES ASSUME ModelIInv, [ModelNext]_modelVars PROVE ModelIInv'
  OBVIOUS
<1>1. CASE UNCHANGED modelVars
  BY <1>1, SameFiles DEF modelVars, ModelIInv, ModelTypeOK, KeyIsLast, SeenIsPast, OldHasWriter, Saving
<1>2. CASE ModelNext
  BY <1>2, BeginLoadModelIInv, LoadFileModelIInv, StartTrainingModelIInv, WriteModelFileIInv,
     WriteKeyFileIInv, CutShortIInv DEF ModelNext, LoadEnsemble, LoadSingle
<1> QED
  BY <1>1, <1>2

LEMMA ModelInvariance == ModelSpec => []ModelIInv
  BY ModelInitIInv, ModelNextIInv, PTL DEF ModelSpec

(***************************************************************************)
(* Files, processes and caches keep their types, for any models, parts,    *)
(* single artifacts and trainings.                                         *)
(***************************************************************************)
THEOREM ModelTypeCorrect == ModelSpec => []ModelTypeOK
<1>1. ModelIInv => ModelTypeOK
  BY DEF ModelIInv
<1> QED
  BY <1>1, ModelInvariance, PTL

(***************************************************************************)
(* A retrain is picked up by all children: with no training under way, and *)
(* none cut short, what a child has read under the present modification    *)
(* time is what the disk holds (_get_ml_ensemble and the other caches).    *)
(***************************************************************************)
THEOREM RetrainIsPickedUp == ModelSpec => []CachedIsCurrent
<1>1. ModelIInv => CachedIsCurrent
  BY DEF ModelIInv, OldHasWriter, CachedIsCurrent
<1> QED
  BY <1>1, ModelInvariance, PTL

-----------------------------------------------------------------------------
(* Arithmetic.                                                             *)

LEMMA MaxOfTwo ==
  ASSUME NEW a \in Int, NEW b \in Int
  PROVE  Max({a, b}) = IF a >= b THEN a ELSE b
<1> DEFINE m == IF a >= b THEN a ELSE b
<1>1. m \in {a, b} /\ \A y \in {a, b} : m >= y
  OBVIOUS
<1>2. Max({a, b}) \in {a, b} /\ \A y \in {a, b} : Max({a, b}) >= y
  BY <1>1 DEF Max
<1> QED
  BY <1>2

LEMMA MinOfTwo ==
  ASSUME NEW a \in Int, NEW b \in Int
  PROVE  Min({a, b}) = IF a <= b THEN a ELSE b
<1> DEFINE m == IF a <= b THEN a ELSE b
<1>1. m \in {a, b} /\ \A y \in {a, b} : m <= y
  OBVIOUS
<1>2. Min({a, b}) \in {a, b} /\ \A y \in {a, b} : Min({a, b}) <= y
  BY <1>1 DEF Min
<1> QED
  BY <1>2

LEMMA MinOfFour ==
  ASSUME NEW a \in Int, NEW b \in Int, NEW c \in Int, NEW d \in Int
  PROVE  /\ Min({a, b, c, d}) \in Int
         /\ Min({a, b, c, d}) <= a /\ Min({a, b, c, d}) <= b
         /\ Min({a, b, c, d}) <= c /\ Min({a, b, c, d}) <= d
<1>1. \E m \in {a, b, c, d} : \A y \in {a, b, c, d} : m <= y
  <2>1. CASE a <= b /\ a <= c /\ a <= d
    BY <2>1
  <2>2. CASE b <= a /\ b <= c /\ b <= d
    BY <2>2
  <2>3. CASE c <= a /\ c <= b /\ c <= d
    BY <2>3
  <2>4. CASE d <= a /\ d <= b /\ d <= c
    BY <2>4
  <2> QED
    BY <2>1, <2>2, <2>3, <2>4
<1>2. Min({a, b, c, d}) \in {a, b, c, d} /\ \A y \in {a, b, c, d} : Min({a, b, c, d}) <= y
  BY <1>1 DEF Min
<1> QED
  BY <1>2

\* The fee of a contract is one cent or two, and its realistic estimate is one.
LEMMA FeeIsSmall ==
  ASSUME NEW price \in 1..99
  PROVE  TakerFee(price) \in {1, 2} /\ EstimatedFee(price, "realistic") = 1
<1> DEFINE raw == 7 * price * (100 - price) + 10000 - 1
           fee == raw \div 10000
<1>1. price * (100 - price) \in 99..2500
  <2>1. price * (100 - price) = 2500 - (50 - price) * (50 - price)
    OBVIOUS
  <2>2. (50 - price) * (50 - price) \in 0..2401
    OBVIOUS
  <2> QED
    BY <2>1, <2>2
<1>2. 7 * price * (100 - price) = 7 * (price * (100 - price))
  OBVIOUS
<1>3. raw \in Int /\ raw >= 10000 /\ raw < 30000
  BY <1>1, <1>2
<1> HIDE DEF raw
<1>4. fee \in {1, 2}
  BY <1>3
<1>5. TakerFee(price) = Max({1, fee})
  BY DEF TakerFee, CeilDiv, raw
<1> HIDE DEF fee
<1>6. TakerFee(price) \in {1, 2}
  BY <1>4, <1>5, MaxOfTwo
<1>7. (3 * TakerFee(price) + 10 - 1) \div 10 = 1
  BY <1>6
<1> QED
  BY <1>6, <1>7, MaxOfTwo DEF EstimatedFee, CeilDiv

LEMMA CostIsCents ==
  ASSUME NEW price \in 1..99, NEW side \in TradeSides
  PROVE  CostOf(price, side) \in 1..99
BY DEF CostOf, TradeSides

LEMMA UnitIsNat == Unit \in Nat /\ HalfUnit \in Nat
BY DEF Unit, HalfUnit

\* Probabilities that are neither 0 nor 1.
Chances == {n \in Int : 10 <= n /\ n <= 9990}

LEMMA ClampIsBetween ==
  ASSUME NEW x \in Int
  PROVE  Clamp(x, 10, 9990) \in Chances
<1> DEFINE low == Min({x, 9990})
<1>1. 9990 \in Int /\ 10 \in Int
  OBVIOUS
<1>2. low = IF x <= 9990 THEN x ELSE 9990
  BY MinOfTwo
<1>3. Clamp(x, 10, 9990) = Max({10, low})
  BY DEF Clamp
<1> HIDE DEF low
<1>4. low \in Int /\ low <= 9990
  BY <1>2
<1>5. Max({10, low}) = IF 10 >= low THEN 10 ELSE low
  BY <1>4, MaxOfTwo
<1> DEFINE high == Max({10, low})
<1>6. high = IF 10 >= low THEN 10 ELSE low
  BY <1>5
<1> HIDE DEF high
<1>7. high \in Int /\ high >= 10 /\ high <= 9990
  BY <1>4, <1>6
<1>8. high \in Chances
  BY <1>7 DEF Chances
<1> QED
  BY <1>3, <1>8 DEF high

\* The guardrails leave a probability that is neither 0 nor 1.
LEMMA BlendedIsChance ==
  ASSUME NEW probability \in 0..Unit, NEW price \in 1..99, NEW s \in SettingRecords
  PROVE  Blended(probability, price, s) \in Chances
<1> DEFINE market == 100 * price
           near == Max({market - s.divergence, Min({probability, market + s.divergence})})
           capped == Clamp(near, 10, 9990)
           mixed == (s.weight * capped + (10 - s.weight) * market) \div 10
<1>1. s.weight \in Int /\ s.divergence \in Int /\ market \in Int /\ probability \in Int
  BY UnitIsNat DEF SettingRecords
<1>2. near \in Int
  <2> DEFINE a == market - s.divergence
             b == market + s.divergence
             m == Min({probability, b})
  <2>1. a \in Int /\ b \in Int /\ probability \in Int
    BY <1>1
  <2> HIDE DEF a, b
  <2>2. m = IF probability <= b THEN probability ELSE b
    BY <2>1, MinOfTwo
  <2> HIDE DEF m
  <2>3. m \in Int
    BY <2>1, <2>2
  <2>4. Max({a, m}) = IF a >= m THEN a ELSE m
    BY <2>1, <2>3, MaxOfTwo
  <2>5. Max({a, m}) \in Int
    BY <2>1, <2>3, <2>4
  <2> QED
    BY <2>5 DEF a, b, m
<1> HIDE DEF near
<1>3. capped \in Int
  <2>1. capped \in Chances
    BY <1>2, ClampIsBetween
  <2> HIDE DEF capped
  <2> QED
    BY <2>1 DEF Chances
<1>4. Blended(probability, price, s) = Clamp(mixed, 10, 9990)
  BY DEF Blended, near
<1> HIDE DEF capped
<1>5. mixed \in Int
  <2>1. s.weight * capped \in Int /\ (10 - s.weight) * market \in Int
    BY <1>1, <1>3
  <2> QED
    BY <2>1
<1> HIDE DEF mixed
<1>6. Clamp(mixed, 10, 9990) \in Chances
  BY <1>5, ClampIsBetween
<1> QED
  BY <1>4, <1>6

LEMMA ChanceIsChance ==
  ASSUME NEW q \in Chances, NEW side \in TradeSides
  PROVE  ChanceOf(q, side) \in Chances
<1>1. q \in Int /\ q >= 10 /\ q <= 9990
  BY DEF Chances
<1>2. ChanceOf(q, side) = q \/ ChanceOf(q, side) = 10000 - q
  BY DEF ChanceOf, Unit
<1> DEFINE r == ChanceOf(q, side)
<1> HIDE DEF r
<1>3. r \in Int /\ r >= 10 /\ r <= 9990
  BY <1>1, <1>2 DEF r
<1>4. r \in Chances
  BY <1>3 DEF Chances
<1> QED
  BY <1>4 DEF r

-----------------------------------------------------------------------------
(* Sizing.                                                                 *)

\* What Kelly asks: the chance is worth the cost when the fee is taken from a win.
WorthCost(chance, price, side) == chance * (100 - TakerFee(price)) > Unit * CostOf(price, side)

LEMMA KellyEdgeIsWorth ==
  ASSUME NEW chance \in Chances, NEW price \in 1..99, NEW side \in TradeSides
  PROVE  /\ KellyEdge(chance, price, side) \in Int
         /\ NetProfit(price, side) \in Int
         /\ KellyEdge(chance, price, side) > 0 <=> WorthCost(chance, price, side)
         /\ KellyEdge(chance, price, side) > 0 => NetProfit(price, side) > 0
<1> DEFINE cost == CostOf(price, side)
           fee == TakerFee(price)
<1>1. cost \in 1..99 /\ fee \in {1, 2}
  BY CostIsCents, FeeIsSmall
<1>2. KellyEdge(chance, price, side) = chance * (100 - cost - fee) - (10000 - chance) * cost
  BY DEF KellyEdge, NetProfit, Unit
<1>3. NetProfit(price, side) = 100 - cost - fee
  BY DEF NetProfit
<1>4. WorthCost(chance, price, side) <=> chance * (100 - fee) > 10000 * cost
  BY DEF WorthCost, Unit
<1>0. chance \in Int /\ chance >= 10 /\ chance <= 9990
  BY DEF Chances
<1> HIDE DEF cost, fee
<1>5. chance * (100 - cost - fee) - (10000 - chance) * cost = chance * (100 - fee) - 10000 * cost
  BY <1>0, <1>1
<1>6. chance * (100 - fee) \in Int
  BY <1>0, <1>1
<1>7. ASSUME 100 - cost - fee <= 0 PROVE chance * (100 - cost - fee) - (10000 - chance) * cost <= 0
  <2>1. chance * (100 - cost - fee) <= 0
    BY <1>0, <1>1, <1>7
  <2>2. (10000 - chance) * cost >= 0
    BY <1>0, <1>1
  <2> QED
    BY <2>1, <2>2, <1>0, <1>1
<1> QED
  BY <1>1, <1>2, <1>3, <1>4, <1>5, <1>6, <1>7

\* A product within a quotient.
LEMMA QuotientBounds ==
  ASSUME NEW n \in Int, NEW d \in Nat \ {0}, NEW k \in Nat, k <= n \div d
  PROVE  k * d <= n
OBVIOUS

LEMMA KellySizeIsBounded ==
  ASSUME NEW chance \in Chances, NEW price \in 1..99, NEW side \in TradeSides,
         NEW bankroll \in Nat \ {0}, NEW s \in SettingRecords
  PROVE  LET n == KellySize(chance, price, side, bankroll, s)
         IN /\ n \in Nat
            /\ n > 0 <=> WorthCost(chance, price, side)
            /\ n > 1 => /\ n * CostOf(price, side) <= s.tradeSize
                        /\ n * (100 * CostOf(price, side)) <= bankroll * s.bankrollPct
                        /\ n <= s.maxContracts
<1> DEFINE n == KellySize(chance, price, side, bankroll, s)
           net == NetProfit(price, side)
           edge == KellyEdge(chance, price, side)
           cost == CostOf(price, side)
           optimal == (edge * s.fraction * (bankroll \div 100)) \div (Unit * net * cost)
           fromBankroll == (bankroll * s.bankrollPct) \div (100 * cost)
           fromRisk == s.tradeSize \div cost
           least == Min({optimal, s.maxContracts, fromBankroll, fromRisk})
<1> SUFFICES /\ n \in Nat
             /\ n > 0 <=> WorthCost(chance, price, side)
             /\ n > 1 => n * cost <= s.tradeSize /\ n * (100 * cost) <= bankroll * s.bankrollPct /\ n <= s.maxContracts
  OBVIOUS
<1>1. /\ edge \in Int /\ net \in Int /\ cost \in 1..99
      /\ edge > 0 <=> WorthCost(chance, price, side)
      /\ edge > 0 => net > 0
  BY KellyEdgeIsWorth, CostIsCents, Zenon
<1>2. /\ s.fraction \in 1..100 /\ s.bankrollPct \in 1..25 /\ s.maxContracts \in 1..100
      /\ s.tradeSize \in Int
  BY DEF SettingRecords
<1>3. n = IF net <= 0 \/ edge <= 0 THEN 0 ELSE Max({1, least})
  BY DEF KellySize
<1>4. CASE net <= 0 \/ edge <= 0
  <2>1. n = 0
    BY <1>3, <1>4
  <2> HIDE DEF n, net, edge, cost
  <2>2. ~ WorthCost(chance, price, side)
    BY <1>1, <1>4
  <2> QED
    BY <2>1, <2>2
<1>5. CASE net > 0 /\ edge > 0
  <2>1. n = Max({1, least})
    <3> HIDE DEF n, net, edge, least
    <3> QED
      BY <1>1, <1>3, <1>5
  <2>2. optimal \in Int /\ fromBankroll \in Int /\ fromRisk \in Int
    <3> HIDE DEF net, edge, cost
    <3>1. edge * s.fraction * (bankroll \div 100) \in Int
      BY <1>1, <1>2
    <3>2. Unit * net * cost \in Nat \ {0}
      BY <1>1, <1>5 DEF Unit
    <3>3. optimal \in Int
      BY <3>1, <3>2
    <3>4. bankroll * s.bankrollPct \in Int /\ 100 * cost \in Nat \ {0}
      BY <1>1, <1>2
    <3> QED
      BY <1>1, <1>2, <3>3, <3>4
  <2>3. least \in Int /\ least <= s.maxContracts /\ least <= fromBankroll /\ least <= fromRisk
    <3>1. s.maxContracts \in Int
      BY <1>2
    <3> HIDE DEF optimal, fromBankroll, fromRisk
    <3> QED
      BY <2>2, <3>1, MinOfFour, Zenon
  <2>4. n = IF 1 >= least THEN 1 ELSE least
    <3>1. 1 \in Int
      OBVIOUS
    <3> HIDE DEF n, least
    <3> QED
      BY <2>1, <2>3, <3>1, MaxOfTwo, Zenon
  <2>5. n \in Nat /\ n > 0 /\ (n > 1 => n = least)
    BY <2>3, <2>4
  <2> HIDE DEF n, least, net, edge
  <2>6. ASSUME n > 1
        PROVE  n * cost <= s.tradeSize /\ n * (100 * cost) <= bankroll * s.bankrollPct /\ n <= s.maxContracts
    <3>1. n <= fromRisk /\ n <= fromBankroll /\ n <= s.maxContracts
      BY <1>2, <2>2, <2>3, <2>5, <2>6
    <3>0. cost \in Nat \ {0}
      BY <1>1
    <3>2. n * cost <= s.tradeSize
      BY <3>0, <1>2, <2>5, <3>1, QuotientBounds, Zenon
    <3>3. bankroll * s.bankrollPct \in Int /\ 100 * cost \in Nat \ {0}
      BY <1>1, <1>2
    <3>4. n * (100 * cost) <= bankroll * s.bankrollPct
      BY <2>5, <3>1, <3>3, QuotientBounds, Zenon
    <3> QED
      BY <3>1, <3>2, <3>4
  <2>7. WorthCost(chance, price, side)
    BY <1>1, <1>5
  <2> HIDE DEF cost
  <2> QED
    BY <2>5, <2>6, <2>7
<1> QED
  <2> HIDE DEF n, net, edge, cost
  <2> QED
    BY <1>1, <1>4, <1>5

-----------------------------------------------------------------------------
(* Scanning.                                                               *)

\* A side of a market worth buying.
Worth(probability, price, side, s) ==
  LET chance == ChanceOf(Blended(probability, price, s), side) IN
  /\ ~Blocked(price, side, s)
  /\ ExpectedValue(chance, price, side, "realistic") >= Threshold(side, s)
  /\ s.kelly => WorthCost(chance, price, side)

Caps(x, price, bankroll, s) ==
  x.quantity > 1 =>
    /\ x.quantity * CostOf(price, x.side) <= s.tradeSize
    /\ x.quantity * (100 * CostOf(price, x.side)) <= bankroll * s.bankrollPct
    /\ x.quantity <= s.maxContracts

\* The scan of a bracket chooses this side of it.
Chosen(b, probability, price, bankroll, s, side) ==
  \E x \in ScanBracket(b, probability, price, bankroll, s) : x.side = side

\* With the fee of one cent, the expected values of the two sides are opposite but for it.
LEMMA ExpectedValues ==
  ASSUME NEW q \in Chances, NEW price \in 1..99
  PROVE  /\ ExpectedValue(ChanceOf(q, "yes"), price, "yes", "realistic") = q - 100 * price - 100
         /\ ExpectedValue(ChanceOf(q, "no"), price, "no", "realistic") = 100 * price - q - 100
<1>1. EstimatedFee(price, "realistic") = 1 /\ q \in Int /\ price \in Int
  BY FeeIsSmall DEF Chances
<1>2. ChanceOf(q, "yes") = q /\ ChanceOf(q, "no") = 10000 - q
  BY DEF ChanceOf, Unit
<1>3. CostOf(price, "yes") = price /\ CostOf(price, "no") = 100 - price
  BY DEF CostOf
<1>4. ExpectedValue(ChanceOf(q, "yes"), price, "yes", "realistic") = q - 100 * price - 100 * 1
  BY <1>1, <1>2, <1>3 DEF ExpectedValue
<1>5. ExpectedValue(ChanceOf(q, "no"), price, "no", "realistic") = (10000 - q) - 100 * (100 - price) - 100 * 1
  BY <1>1, <1>2, <1>3 DEF ExpectedValue
<1> QED
  BY <1>1, <1>4, <1>5

LEMMA ScanBracketIsWorth ==
  ASSUME NEW b, NEW probability \in 0..Unit, NEW price \in 1..99, NEW bankroll \in Nat \ {0},
         NEW s \in SettingRecords, s.feeMode = "realistic"
  PROVE  /\ \A x \in ScanBracket(b, probability, price, bankroll, s) :
              /\ x \in [bracket : {b}, side : TradeSides, ev : Int, quantity : Nat \ {0}]
              /\ Caps(x, price, bankroll, s)
         /\ \A side \in TradeSides :
              Worth(probability, price, side, s) <=> Chosen(b, probability, price, bankroll, s, side)
         /\ \A x, y \in ScanBracket(b, probability, price, bankroll, s) : x = y
<1> DEFINE q == Blended(probability, price, s)
           value(side) == ExpectedValue(ChanceOf(q, side), price, side, "realistic")
           ev == [side \in TradeSides |->
                    IF Blocked(price, side, s) THEN -999 * Unit ELSE value(side)]
           best == IF ev["yes"] >= ev["no"] THEN "yes" ELSE "no"
           quantity == IF s.kelly THEN KellySize(ChanceOf(q, best), price, best, bankroll, s) ELSE 1
           signal == [bracket |-> b, side |-> best, ev |-> ev[best], quantity |-> quantity]
           scanned == ScanBracket(b, probability, price, bankroll, s)
<1>1. scanned = IF ev[best] >= Threshold(best, s) /\ quantity > 0 THEN {signal} ELSE {}
  BY DEF ScanBracket
<1>2. best \in TradeSides
  BY DEF TradeSides
<1>3. q \in Chances
  BY BlendedIsChance
<1>4. \A side \in TradeSides : ChanceOf(q, side) \in Chances
  BY <1>3, ChanceIsChance
<1>5. value("yes") = q - 100 * price - 100 /\ value("no") = 100 * price - q - 100
  BY <1>3, ExpectedValues
<1>6. quantity \in Nat /\ (quantity > 0 <=> (s.kelly => WorthCost(ChanceOf(q, best), price, best)))
  <2> DEFINE n == KellySize(ChanceOf(q, best), price, best, bankroll, s)
  <2>1. n \in Nat /\ (n > 0 <=> WorthCost(ChanceOf(q, best), price, best))
    <3> HIDE DEF q, best
    <3> QED
      BY <1>2, <1>4, KellySizeIsBounded
  <2> HIDE DEF n
  <2>2. quantity = IF s.kelly THEN n ELSE 1
    BY DEF n
  <2> HIDE DEF quantity
  <2> QED
    BY <2>1, <2>2
<1>7. Caps(signal, price, bankroll, s)
  <2> DEFINE n == KellySize(ChanceOf(q, best), price, best, bankroll, s)
  <2>1. n > 1 => /\ n * CostOf(price, best) <= s.tradeSize
                /\ n * (100 * CostOf(price, best)) <= bankroll * s.bankrollPct
                /\ n <= s.maxContracts
    <3> HIDE DEF q, best
    <3> QED
      BY <1>2, <1>4, KellySizeIsBounded
  <2> HIDE DEF n
  <2>2. quantity = IF s.kelly THEN n ELSE 1
    BY DEF n
  <2>3. signal.quantity = quantity /\ signal.side = best
    OBVIOUS
  <2> HIDE DEF quantity, signal, best
  <2>4. signal.quantity > 1 => quantity = n
    BY <2>2, <2>3
  <2> QED
    BY <2>1, <2>3, <2>4 DEF Caps
<1>8. Threshold("yes", s) \in Nat /\ Threshold("no", s) \in Nat
  BY UnitIsNat DEF Threshold, SettingRecords
<1>9. ev["yes"] = (IF Blocked(price, "yes", s) THEN -9990000 ELSE value("yes")) /\ ev["no"] = value("no")
  BY DEF TradeSides, Blocked, Unit
<1>10. \A side \in TradeSides :
         Worth(probability, price, side, s) <=>
           /\ ~Blocked(price, side, s) /\ value(side) >= Threshold(side, s)
           /\ s.kelly => WorthCost(ChanceOf(q, side), price, side)
  BY DEF Worth
<1>11. q \in Int /\ price \in Int
  <2> HIDE DEF q
  <2> QED
    BY <1>3 DEF Chances
<1>12. ~Blocked(price, "no", s)
  BY DEF Blocked
<1>13. best = IF ev["yes"] >= ev["no"] THEN "yes" ELSE "no"
  OBVIOUS
<1>14. signal.side = best /\ signal.ev = ev[best] /\ signal.quantity = quantity /\ signal.bracket = b
  OBVIOUS
<1>15. signal = [bracket |-> b, side |-> best, ev |-> ev[best], quantity |-> quantity]
  OBVIOUS
<1> HIDE DEF q, value, ev, best, quantity, signal, scanned
<1>16. ev["yes"] \in Int /\ ev["no"] \in Int
  BY <1>5, <1>9, <1>11
<1>17. ASSUME NEW side \in TradeSides, ~Blocked(price, side, s), value(side) >= Threshold(side, s)
       PROVE  best = side /\ ev[side] = value(side)
  <2>1. CASE side = "yes"
    BY <1>5, <1>8, <1>9, <1>11, <1>13, <1>17, <2>1
  <2>2. CASE side = "no"
    BY <1>5, <1>8, <1>9, <1>11, <1>13, <1>17, <2>2
  <2> QED
    BY <2>1, <2>2 DEF TradeSides
<1>18. ASSUME ev[best] >= Threshold(best, s)
       PROVE  ~Blocked(price, best, s) /\ value(best) >= Threshold(best, s)
  <2>1. CASE best = "yes"
    BY <1>8, <1>9, <1>18, <2>1
  <2>2. CASE best = "no"
    BY <1>9, <1>12, <1>18, <2>2
  <2> QED
    BY <1>2, <2>1, <2>2 DEF TradeSides
<1>19. ASSUME NEW x \in scanned
       PROVE  /\ x \in [bracket : {b}, side : TradeSides, ev : Int, quantity : Nat \ {0}]
              /\ Caps(x, price, bankroll, s)
  <2>1. x = signal /\ quantity > 0
    BY <1>1
  <2>2. ev[best] \in Int
    BY <1>2, <1>16 DEF TradeSides
  <2>3. quantity \in Nat \ {0}
    BY <1>6, <2>1
  <2> QED
    BY <1>2, <1>7, <1>15, <2>1, <2>2, <2>3
<1>20. ASSUME NEW side \in TradeSides
       PROVE  Worth(probability, price, side, s) <=> \E x \in scanned : x.side = side
  <2>1. ASSUME Worth(probability, price, side, s) PROVE signal \in scanned /\ signal.side = side
    <3>1. /\ ~Blocked(price, side, s) /\ value(side) >= Threshold(side, s)
          /\ s.kelly => WorthCost(ChanceOf(q, side), price, side)
      BY <1>10, <2>1
    <3>2. best = side /\ ev[side] = value(side)
      BY <1>17, <3>1
    <3>3. quantity > 0
      BY <1>6, <3>1, <3>2
    <3> QED
      BY <1>1, <1>14, <3>1, <3>2, <3>3
  <2>2. ASSUME NEW x \in scanned, x.side = side PROVE Worth(probability, price, side, s)
    <3>1. x = signal /\ ev[best] >= Threshold(best, s) /\ quantity > 0
      BY <1>1, <2>2
    <3>2. best = side
      BY <1>14, <2>2, <3>1
    <3>3. ~Blocked(price, best, s) /\ value(best) >= Threshold(best, s)
      BY <1>18, <3>1
    <3>4. s.kelly => WorthCost(ChanceOf(q, best), price, best)
      BY <1>6, <3>1
    <3> QED
      BY <1>10, <3>2, <3>3, <3>4
  <2> QED
    BY <2>1, <2>2
<1>21. \A side \in TradeSides :
         Chosen(b, probability, price, bankroll, s, side) <=> \E x \in scanned : x.side = side
  BY Zenon DEF Chosen, scanned
<1>22. \A x, y \in scanned : x = y
  BY <1>1
<1> QED
  BY <1>19, <1>20, <1>21, <1>22 DEF scanned

-----------------------------------------------------------------------------
(* The settings, the scan and its signals.                                 *)

Signal == [bracket : BracketSet, side : TradeSides, ev : Int, quantity : Nat \ {0}]

Scans == [probability : [BracketSet -> Probabilities], price : [BracketSet -> Quotes],
          bankroll : Nat \ {0}]

\* The signals are those of the last scan, under the settings it had.
SignalsAreFound ==
  scan # NoScan => Range(signals) = Found(scan.probability, scan.price, scan.bankroll)

SignalIInv == SignalTypeOK /\ SignalsAreFound

LEMMA SettingsType ==
  ASSUME saved \in SettingRecords
  PROVE  Settings \in SettingRecords /\ Settings.feeMode = "realistic"
<1>1. saved.tradeSize \in Int /\ saved.exposure \in Int
  BY DEF SettingRecords
<1> DEFINE size == IF saved.tradeSize = 0 THEN 100 ELSE saved.tradeSize
           exposure == IF saved.exposure = 0 THEN 2500 ELSE saved.exposure
<1>2. size \in Int /\ exposure \in Int
  BY <1>1
<1>3. Settings = [saved EXCEPT !.tradeSize = size, !.exposure = exposure, !.feeMode = "realistic"]
  BY Zenon DEF Settings
<1> HIDE DEF size, exposure
<1> QED
  BY <1>2, <1>3, ZenonT(30) DEF SettingRecords

\* The fields that the endpoint keeps are those of a row too.
LEMMA EditedType ==
  ASSUME saved \in SettingRecords, NEW row \in SettingRecords
  PROVE  Edited(row) \in SettingRecords
BY ZenonT(30) DEF Edited, SettingRecords

\* Every signal is one of a bracket with a valid price.
LEMMA FoundType ==
  ASSUME SignalAssumption, saved \in SettingRecords, NEW x \in Scans,
         NEW y \in Found(x.probability, x.price, x.bankroll)
  PROVE  y \in Signal /\ \E b \in BracketSet : /\ ValidPrice(x.price[b]) /\ y.bracket = b
                          /\ y \in ScanBracket(b, x.probability[b], x.price[b], x.bankroll, Settings)
<1>1. PICK b \in BracketSet :
        ValidPrice(x.price[b]) /\ y \in ScanBracket(b, x.probability[b], x.price[b], x.bankroll, Settings)
  BY Zenon DEF Found
<1>2. x.probability[b] \in 0..Unit /\ x.bankroll \in Nat \ {0} /\ x.price[b] \in 1..99
  BY <1>1 DEF Scans, SignalAssumption, ValidPrice
<1>3. Settings \in SettingRecords /\ Settings.feeMode = "realistic"
  BY SettingsType
<1>4. y \in [bracket : {b}, side : TradeSides, ev : Int, quantity : Nat \ {0}]
  BY <1>1, <1>2, <1>3, ScanBracketIsWorth, Zenon
<1>5. y \in Signal /\ y.bracket = b
  BY <1>4 DEF Signal
<1> QED
  BY <1>1, <1>5

LEMMA BankrollType ==
  ASSUME saved \in SettingRecords, NEW pnl \in Int
  PROVE  Bankroll(pnl) \in Nat \ {0}
<1> DEFINE money == Settings.exposure + pnl
<1>1. money \in Int
  <2>1. Settings.exposure \in Int
    BY SettingsType DEF SettingRecords
  <2> QED
    BY <2>1
<1>2. Bankroll(pnl) = Max({money, 100}) /\ 100 \in Int
  BY DEF Bankroll
<1> HIDE DEF money
<1>3. Max({money, 100}) = IF money >= 100 THEN money ELSE 100
  BY <1>1, <1>2, MaxOfTwo
<1> QED
  BY <1>1, <1>2, <1>3

LEMMA SignalInitIInv == SignalInit => SignalIInv
<1> SUFFICES ASSUME SignalInit PROVE SignalIInv
  OBVIOUS
<1>1. Range(signals) = {}
  BY DEF SignalInit, Range
<1> QED
  BY <1>1, SignalAssumption DEF SignalInit, SignalIInv, SignalTypeOK, SignalsAreFound, SignalAssumption

LEMMA ScanCityIInv ==
  ASSUME SignalIInv, NEW probability \in [BracketSet -> Probabilities],
         NEW price \in [BracketSet -> Quotes], NEW pnl \in Pnls,
         ScanCity(probability, price, pnl)
  PROVE  SignalIInv'
<1> DEFINE x == [probability |-> probability, price |-> price, bankroll |-> Bankroll(pnl)]
           found == Found(probability, price, Bankroll(pnl))
<1>1. saved \in SettingRecords /\ saved' = saved /\ scan' = x
  BY DEF SignalIInv, SignalTypeOK, ScanCity
<1>2. Settings' = Settings
  BY <1>1 DEF Settings
<1>3. x \in Scans
  <2>1. Bankroll(pnl) \in Nat \ {0}
    BY <1>1, SignalAssumption, BankrollType DEF SignalAssumption
  <2> QED
    BY <2>1 DEF Scans
<1>4. Range(signals') = found
  BY DEF ScanCity, ScanAllBrackets, Sorted
<1>5. found \subseteq Signal
  <2>1. found = Found(x.probability, x.price, x.bankroll)
    OBVIOUS
  <2> HIDE DEF x, found
  <2> QED
    BY <1>1, <1>3, <2>1, FoundType, SignalAssumption
<1>6. SignalTypeOK'
  <2> HIDE DEF x, found
  <2> QED
    BY <1>1, <1>3, <1>4, <1>5 DEF SignalTypeOK, Signal, Scans
<1>7. SignalsAreFound'
  <2>1. Found(probability, price, Bankroll(pnl))' = found
    BY <1>1, <1>2 DEF Found, Bankroll, ScanBracket
  <2>2. Found(scan.probability, scan.price, scan.bankroll)' = found
    BY <1>1, <1>2 DEF Found
  <2> QED
    BY <1>4, <2>2 DEF SignalsAreFound
<1> QED
  BY <1>6, <1>7 DEF SignalIInv

LEMMA SignalNextIInv == SignalIInv /\ [SignalNext]_signalVars => SignalIInv'
<1> SUFFICES ASSUME SignalIInv, [SignalNext]_signalVars PROVE SignalIInv'
  OBVIOUS
<1>1. ASSUME NEW probability \in [BracketSet -> Probabilities], NEW price \in [BracketSet -> Quotes],
             NEW pnl \in Pnls, ScanCity(probability, price, pnl)
      PROVE  SignalIInv'
  BY <1>1, ScanCityIInv
<1>2. ASSUME NEW row \in SettingRows, UpdateSettings(row)
      PROVE  SignalIInv'
  <2>1. saved' = Edited(row) /\ scan' = NoScan /\ Range(signals') = {}
    BY <1>2 DEF UpdateSettings, Range
  <2>2. saved' \in SettingRecords
    BY <2>1, EditedType, SignalAssumption DEF SignalIInv, SignalTypeOK, SignalAssumption
  <2>3. NoScan' = NoScan
    BY DEF NoScan
  <2> QED
    BY <2>1, <2>2, <2>3 DEF SignalIInv, SignalTypeOK, SignalsAreFound
<1>3. CASE UNCHANGED signalVars
  <2>1. UNCHANGED <<saved, scan, signals>> /\ Settings' = Settings
    BY <1>3 DEF signalVars, Settings
  <2> QED
    BY <2>1 DEF SignalIInv, SignalTypeOK, SignalsAreFound, Found
<1> QED
  BY <1>1, <1>2, <1>3 DEF SignalNext

\* What the signals of a bracket say of its sides.
LEMMA WorthIsWorthBuying ==
  ASSUME NEW b, NEW side
  PROVE  WorthBuying(b, side) <=> Worth(scan.probability[b], scan.price[b], side, Settings)
BY Zenon DEF WorthBuying, Worth, WorthCost, Chance

LEMMA SignalIInvTrades == SignalIInv => EdgeIsTraded
<1> SUFFICES ASSUME SignalIInv, scan # NoScan PROVE EdgeIsTraded
  BY DEF EdgeIsTraded
<1> DEFINE p(b) == scan.probability[b]
           c(b) == scan.price[b]
           k == scan.bankroll
           scanned(b) == ScanBracket(b, p(b), c(b), k, Settings)
<1>1. scan \in Scans /\ saved \in SettingRecords
  BY DEF SignalIInv, SignalTypeOK, Scans
<1>2. Settings \in SettingRecords /\ Settings.feeMode = "realistic"
  BY <1>1, SettingsType
<1>3. Range(signals) = Found(scan.probability, scan.price, k)
  BY DEF SignalIInv, SignalsAreFound
<1>4. ASSUME NEW b \in BracketSet, ValidPrice(c(b))
      PROVE  p(b) \in 0..Unit /\ c(b) \in 1..99 /\ k \in Nat \ {0}
  BY <1>1, <1>4, SignalAssumption DEF Scans, ValidPrice, SignalAssumption
<1>5. \A i \in DOMAIN signals : signals[i] \in Range(signals)
  BY DEF Range
<1>6. \A y \in Range(signals) : \E i \in DOMAIN signals : signals[i] = y
  BY DEF Range
<1>7. ASSUME NEW y \in Range(signals)
      PROVE  \E b \in BracketSet : ValidPrice(c(b)) /\ y.bracket = b /\ y \in scanned(b)
  <2>1. y \in Found(scan.probability, scan.price, scan.bankroll)
    BY <1>3
  <2> QED
    BY <1>1, <2>1, FoundType, SignalAssumption
<1>8. ASSUME NEW b \in BracketSet, ValidPrice(c(b)) PROVE scanned(b) \subseteq Range(signals)
  BY <1>3, <1>8, Zenon DEF Found
<1>9. ASSUME NEW b \in BracketSet, NEW side \in TradeSides, ValidPrice(c(b))
      PROVE  WorthBuying(b, side) <=> \E i \in DOMAIN signals : signals[i].bracket = b /\ signals[i].side = side
  <2>0. p(b) \in 0..Unit /\ c(b) \in 1..99 /\ k \in Nat \ {0}
    BY <1>4, <1>9
  <2>1. /\ \A x \in scanned(b) : x \in [bracket : {b}, side : TradeSides, ev : Int, quantity : Nat \ {0}]
        /\ Worth(p(b), c(b), side, Settings) <=> \E x \in scanned(b) : x.side = side
    <3> HIDE DEF p, c, k
    <3>1. \A x \in ScanBracket(b, p(b), c(b), k, Settings) :
            x \in [bracket : {b}, side : TradeSides, ev : Int, quantity : Nat \ {0}]
      BY <1>2, <2>0, ScanBracketIsWorth, Zenon
    <3>2. Worth(p(b), c(b), side, Settings) <=> Chosen(b, p(b), c(b), k, Settings, side)
      BY <1>2, <2>0, ScanBracketIsWorth, Zenon
    <3> QED
      BY <3>1, <3>2 DEF Chosen
  <2>2. \A x \in scanned(b) : x.bracket = b
    <3> HIDE DEF scanned
    <3> QED
      BY <2>1
  <2>3. WorthBuying(b, side) <=> Worth(p(b), c(b), side, Settings)
    BY WorthIsWorthBuying
  <2> HIDE DEF scanned
  <2>4. ASSUME NEW x \in scanned(b), x.side = side
        PROVE  \E i \in DOMAIN signals : signals[i].bracket = b /\ signals[i].side = side
    BY <1>6, <1>8, <1>9, <2>2, <2>4
  <2>5. ASSUME NEW i \in DOMAIN signals, signals[i].bracket = b, signals[i].side = side
        PROVE  \E x \in scanned(b) : x.side = side
    BY <1>5, <1>7, <2>5
  <2> QED
    BY <2>1, <2>3, <2>4, <2>5
<1>10. ASSUME NEW i \in DOMAIN signals, signals[i].quantity > 1
       PROVE  LET cost == signals[i].quantity * CostOf(scan.price[signals[i].bracket], signals[i].side)
              IN /\ cost <= Settings.tradeSize
                 /\ 100 * cost <= k * Settings.bankrollPct
                 /\ signals[i].quantity <= Settings.maxContracts
  <2>1. PICK b \in BracketSet : ValidPrice(c(b)) /\ signals[i].bracket = b /\ signals[i] \in scanned(b)
    BY <1>5, <1>7
  <2>2. p(b) \in 0..Unit /\ c(b) \in 1..99 /\ k \in Nat \ {0}
    BY <1>4, <2>1
  <2>3. /\ signals[i] \in [bracket : {b}, side : TradeSides, ev : Int, quantity : Nat \ {0}]
        /\ Caps(signals[i], c(b), k, Settings)
    <3> HIDE DEF p, c, k
    <3> QED
      BY <1>2, <2>1, <2>2, ScanBracketIsWorth
  <2> DEFINE n == signals[i].quantity
             unit == CostOf(c(b), signals[i].side)
  <2>4. n \in Nat /\ signals[i].side \in TradeSides
    BY <2>3
  <2>5. unit \in 1..99
    BY <2>2, <2>4, CostIsCents
  <2>6. n * unit <= Settings.tradeSize /\ n * (100 * unit) <= k * Settings.bankrollPct
        /\ n <= Settings.maxContracts
    BY <1>10, <2>3, Zenon DEF Caps
  <2>7. n * (100 * unit) = 100 * (n * unit)
    <3> HIDE DEF n, unit
    <3> QED
      BY <2>4, <2>5
  <2> QED
    BY <2>1, <2>6, <2>7
<1> QED
  BY <1>9, <1>10 DEF EdgeIsTraded

\* The settings, the scan and its signals keep their types.
THEOREM SignalTypeCorrect == SignalSpec => []SignalTypeOK
<1>1. SignalIInv => SignalTypeOK
  BY DEF SignalIInv
<1> QED
  BY <1>1, SignalInitIInv, SignalNextIInv, PTL DEF SignalSpec

\* Under all settings, a side worth buying gets its signal, another gets none, and the sizes stay
\* within the caps.
THEOREM EdgesAreTraded == SignalSpec => []EdgeIsTraded
BY SignalIInvTrades, SignalInitIInv, SignalNextIInv, PTL DEF SignalSpec

-----------------------------------------------------------------------------
(* Sorting signals of which no two are of one bracket.                     *)

OnePerBracket(S) == S \subseteq Signal /\ \A x, y \in S : x.bracket = y.bracket => x = y

LEMMA PrecedesOrders ==
  ASSUME NEW S, OnePerBracket(S), NEW x \in S, NEW y \in S
  PROVE  /\ ~Precedes(x, x)
         /\ x # y => Precedes(x, y) \/ Precedes(y, x)
         /\ \A z \in S : Precedes(x, y) /\ Precedes(y, z) => Precedes(x, z)
<1>1. \A z \in S : z.ev \in Int /\ z.bracket \in Int
  BY DEF OnePerBracket, Signal, BracketSet
<1> QED
  BY <1>1 DEF OnePerBracket, Precedes

LEMMA LastExists ==
  ASSUME NEW S, OnePerBracket(S), IsFiniteSet(S), S # {}
  PROVE  \E m \in S : \A x \in S \ {m} : Precedes(x, m)
<1> DEFINE LastOf(F, m) == \A x \in F \ {m} : Precedes(x, m)
           T == {n \in Nat : \A F \in SUBSET S : Cardinality(F) = n + 1 => \E m \in F : LastOf(F, m)}
<1>1. 0 \in T
  <2> SUFFICES ASSUME NEW F \in SUBSET S, Cardinality(F) = 1 PROVE \E m \in F : LastOf(F, m)
    OBVIOUS
  <2>1. IsFiniteSet(F)
    BY FS_Subset
  <2>2. PICK m : F = {m}
    BY <2>1, FS_Singleton
  <2> QED
    BY <2>2
<1>2. ASSUME NEW n \in Nat, n \in T PROVE n + 1 \in T
  <2> SUFFICES ASSUME NEW F \in SUBSET S, Cardinality(F) = (n + 1) + 1
               PROVE  \E m \in F : LastOf(F, m)
    OBVIOUS
  <2>1. IsFiniteSet(F)
    BY FS_Subset
  <2>2. PICK x \in F : TRUE
    <3>1. F # {}
      BY FS_EmptySet
    <3> QED
      BY <3>1
  <2>3. F \ {x} \in SUBSET S /\ Cardinality(F \ {x}) = n + 1
    BY <2>1, FS_RemoveElement
  <2>4. PICK m \in F \ {x} : LastOf(F \ {x}, m)
    BY <1>2, <2>3
  <2>5. CASE Precedes(x, m)
    BY <2>4, <2>5
  <2>6. CASE ~Precedes(x, m)
    <3>1. Precedes(m, x)
      BY <2>4, <2>6, PrecedesOrders
    <3>2. ASSUME NEW y \in F \ {x} PROVE Precedes(y, x)
      BY <2>4, <3>1, PrecedesOrders
    <3> QED
      BY <3>2
  <2> QED
    BY <2>5, <2>6
<1> HIDE DEF T
<1>3. Cardinality(S) \in Nat \ {0}
  BY FS_CardinalityType, FS_EmptySet
<1>4. Cardinality(S) - 1 \in T
  BY <1>1, <1>2, <1>3, SetInduction
<1> QED
  BY <1>3, <1>4 DEF T

LEMMA SortedExists ==
  ASSUME NEW S, OnePerBracket(S), IsFiniteSet(S)
  PROVE  Sorted(S) # {}
<1> DEFINE T == {n \in Nat : \A F \in SUBSET S : Cardinality(F) = n => Sorted(F) # {}}
<1>1. 0 \in T
  <2> SUFFICES ASSUME NEW F \in SUBSET S, Cardinality(F) = 0 PROVE Sorted(F) # {}
    OBVIOUS
  <2>1. F = {}
    BY FS_Subset, FS_EmptySet
  <2> DEFINE empty == [i \in 1..0 |-> 0]
  <2>2. empty \in [1..0 -> F] /\ Range(empty) = F /\ DOMAIN empty = {}
    BY <2>1 DEF Range
  <2> HIDE DEF empty
  <2>3. empty \in Sorted(F)
    BY <2>2 DEF Sorted
  <2> QED
    BY <2>3
<1>2. ASSUME NEW n \in Nat, n \in T PROVE n + 1 \in T
  <2> SUFFICES ASSUME NEW F \in SUBSET S, Cardinality(F) = n + 1 PROVE Sorted(F) # {}
    OBVIOUS
  <2>1. IsFiniteSet(F) /\ F # {} /\ OnePerBracket(F)
    BY FS_Subset, FS_EmptySet DEF OnePerBracket
  <2>2. PICK m \in F : \A x \in F \ {m} : Precedes(x, m)
    BY <2>1, LastExists
  <2>3. F \ {m} \in SUBSET S /\ Cardinality(F \ {m}) = n
    <3>1. Cardinality(F \ {m}) = Cardinality(F) - 1
      BY <2>1, FS_RemoveElement
    <3> QED
      BY <3>1
  <2>4. PICK front \in Sorted(F \ {m}) : TRUE
    BY <1>2, <2>3
  <2>5. /\ front \in [1..n -> F \ {m}] /\ Range(front) = F \ {m}
        /\ \A i, j \in 1..n : i < j => Precedes(front[i], front[j])
    BY <2>3, <2>4 DEF Sorted
  <2> DEFINE all == [i \in 1..(n + 1) |-> IF i = n + 1 THEN m ELSE front[i]]
  <2>6. all \in [1..(n + 1) -> F]
    BY <2>5
  <2>7. Range(all) = F
    <3>1. Range(all) \subseteq F
      BY <2>6 DEF Range
    <3>2. ASSUME NEW x \in F PROVE x \in Range(all)
      <4>1. CASE x = m
        <5>1. all[n + 1] = x /\ n + 1 \in 1..(n + 1)
          BY <4>1
        <5> QED
          BY <5>1 DEF Range
      <4>2. CASE x # m
        <5>1. PICK i \in 1..n : front[i] = x
          BY <2>5, <4>2 DEF Range
        <5>2. all[i] = x /\ i \in 1..(n + 1)
          BY <5>1
        <5> QED
          BY <5>2 DEF Range
      <4> QED
        BY <4>1, <4>2
    <3> QED
      BY <3>1, <3>2
  <2>8. ASSUME NEW i \in 1..(n + 1), NEW j \in 1..(n + 1), i < j PROVE Precedes(all[i], all[j])
    <3>1. i \in 1..n /\ all[i] = front[i] /\ front[i] \in F \ {m}
      BY <2>5, <2>8
    <3>2. CASE j = n + 1
      BY <2>2, <3>1, <3>2
    <3>3. CASE j # n + 1
      BY <2>5, <2>8, <3>1, <3>3
    <3> QED
      BY <3>2, <3>3
  <2> HIDE DEF all
  <2>9. all \in Sorted(F)
    BY <2>6, <2>7, <2>8 DEF Sorted
  <2> QED
    BY <2>9
<1> HIDE DEF T
<1>3. Cardinality(S) \in T
  BY <1>1, <1>2, FS_CardinalityType, SetInduction
<1> QED
  BY <1>3 DEF T

LEMMA SortedIsUnique ==
  ASSUME NEW S, OnePerBracket(S), IsFiniteSet(S), NEW k \in Sorted(S), NEW l \in Sorted(S)
  PROVE  k = l
<1> DEFINE N == Cardinality(S)
           T == {n \in Nat : n <= N => \A i \in 1..n : k[i] = l[i]}
<1>1. N \in Nat
  BY FS_CardinalityType
<1>2. ASSUME NEW f \in Sorted(S)
      PROVE  /\ f \in [1..N -> S] /\ \A x \in S : \E i \in 1..N : f[i] = x
             /\ \A i, j \in 1..N : i < j => Precedes(f[i], f[j])
  BY DEF Sorted, Range
<1> HIDE DEF N
\* Where the lists agree up to here, the next of the one does not come after that of the other.
<1>3. ASSUME NEW f \in Sorted(S), NEW g \in Sorted(S), NEW n \in Nat, n + 1 <= N,
             \A i \in 1..n : f[i] = g[i], f[n + 1] # g[n + 1]
      PROVE  Precedes(g[n + 1], f[n + 1])
  <2>0. n + 1 \in 1..N
    BY <1>1, <1>3
  <2>1. n + 1 \in 1..N /\ f[n + 1] \in S
    BY <1>2, <2>0
  <2>2. PICK j \in 1..N : g[j] = f[n + 1]
    BY <1>2, <2>1
  <2>3. j \notin 1..n
    <3> SUFFICES ASSUME j \in 1..n PROVE FALSE
      OBVIOUS
    <3>1. f[j] = f[n + 1] /\ j < n + 1
      BY <1>3, <2>2
    <3>2. Precedes(f[n + 1], f[n + 1])
      BY <1>2, <2>1, <3>1
    <3> QED
      BY <2>1, <3>2, PrecedesOrders
  <2>4. n + 1 < j
    BY <1>3, <2>2, <2>3
  <2> QED
    BY <1>2, <2>1, <2>2, <2>4
<1>4. 0 \in T
  OBVIOUS
<1>5. ASSUME NEW n \in Nat, n \in T PROVE n + 1 \in T
  <2> SUFFICES ASSUME n + 1 <= N PROVE \A i \in 1..(n + 1) : k[i] = l[i]
    OBVIOUS
  <2>1. \A i \in 1..n : k[i] = l[i]
    BY <1>1, <1>5
  <2>2. n + 1 \in 1..N /\ k[n + 1] \in S /\ l[n + 1] \in S
    BY <1>1, <1>2
  <2>3. k[n + 1] = l[n + 1]
    <3> SUFFICES ASSUME k[n + 1] # l[n + 1] PROVE FALSE
      OBVIOUS
    <3>1. Precedes(k[n + 1], l[n + 1]) /\ Precedes(l[n + 1], k[n + 1])
      BY <1>3, <2>1
    <3> QED
      BY <2>2, <3>1, PrecedesOrders
  <2> QED
    BY <2>1, <2>3
<1> HIDE DEF T
<1>6. N \in T
  BY <1>1, <1>4, <1>5, SetInduction
<1> QED
  BY <1>1, <1>2, <1>6 DEF T

\* A bracket has one signal at most.
LEMMA FoundIsOnePerBracket ==
  ASSUME SignalAssumption, saved \in SettingRecords, NEW x \in Scans
  PROVE  LET found == Found(x.probability, x.price, x.bankroll)
         IN OnePerBracket(found) /\ IsFiniteSet(found)
<1> DEFINE found == Found(x.probability, x.price, x.bankroll)
<1>1. \A y \in found :
        y \in Signal /\ \E b \in BracketSet : /\ ValidPrice(x.price[b]) /\ y.bracket = b
                         /\ y \in ScanBracket(b, x.probability[b], x.price[b], x.bankroll, Settings)
  BY FoundType
<1>2. ASSUME NEW b \in BracketSet, ValidPrice(x.price[b])
      PROVE  \A y, z \in ScanBracket(b, x.probability[b], x.price[b], x.bankroll, Settings) : y = z
  <2>1. x.probability[b] \in 0..Unit /\ x.bankroll \in Nat \ {0} /\ x.price[b] \in 1..99
    BY <1>2 DEF Scans, SignalAssumption, ValidPrice
  <2>2. Settings \in SettingRecords /\ Settings.feeMode = "realistic"
    BY SettingsType
  <2> QED
    BY <2>1, <2>2, ScanBracketIsWorth, Zenon
<1> HIDE DEF found
<1>3. OnePerBracket(found)
  BY <1>1, <1>2 DEF OnePerBracket
<1> DEFINE bracketOf == [y \in found |-> y.bracket]
<1>4. bracketOf \in [found -> BracketSet]
  BY <1>1
<1>5. bracketOf \in Injection(found, BracketSet)
  <2>1. \A y, z \in found : bracketOf[y] = bracketOf[z] => y = z
    BY <1>3 DEF OnePerBracket
  <2> HIDE DEF bracketOf
  <2> QED
    BY <1>4, <2>1 DEF Injection, IsInjective
<1>6. IsFiniteSet(BracketSet)
  BY FS_Interval, SignalAssumption DEF BracketSet, SignalAssumption
<1>7. IsFiniteSet(found)
  BY <1>5, <1>6, FS_Injection
<1> QED
  BY <1>3, <1>7 DEF found

\* scan_all_brackets is a function: under all settings a scan has one answer, so ScanCity never
\* waits and never chooses.
THEOREM ScanHasOneAnswer ==
  ASSUME saved \in SettingRecords, NEW x \in Scans
  PROVE  \E answer : ScanAllBrackets(x.probability, x.price, x.bankroll) = {answer}
<1> DEFINE found == Found(x.probability, x.price, x.bankroll)
<1>1. OnePerBracket(found) /\ IsFiniteSet(found)
  BY FoundIsOnePerBracket, SignalAssumption
<1>2. ScanAllBrackets(x.probability, x.price, x.bankroll) = Sorted(found)
  BY DEF ScanAllBrackets
<1> HIDE DEF found
<1>3. Sorted(found) # {} /\ \A k, l \in Sorted(found) : k = l
  BY <1>1, SortedExists, SortedIsUnique
<1> QED
  BY <1>2, <1>3

-----------------------------------------------------------------------------
(* What trades cost.                                                       *)

TradeCost(trade) == Cost(trade.price, trade.count)

\* The totals of the first trades of a list.
IsTally(f, list) ==
  /\ f \in [0..Len(list) -> Int] /\ f[0] = 0
  /\ \A n \in 1..Len(list) : f[n] = f[n - 1] + TradeCost(list[n])

LEMMA CostType ==
  ASSUME NEW p \in Int, NEW n \in Int
  PROVE  Cost(p, n) \in Int
<1>1. 28 * n * p * (100 - p) + 39999 \in Int
  OBVIOUS
<1>2. Fee(p, n) \in Int
  BY <1>1 DEF Fee
<1> QED
  BY <1>2 DEF Cost

LEMMA TradeCostType ==
  ASSUME NEW trade \in PaperTrades
  PROVE  TradeCost(trade) \in Int
<1>1. trade.price \in Int /\ trade.count \in Int
  BY DEF PaperTrades
<1> QED
  BY <1>1, CostType DEF TradeCost

LEMMA SpentIsTally ==
  ASSUME NEW list \in Seq(PaperTrades)
  PROVE  \E f : IsTally(f, list) /\ Spent(list) = f[Len(list)]
<1> DEFINE N == Len(list)
           cost == [n \in 1..N |-> TradeCost(list[n])]
           step == [n \in 1..N |-> [total \in Int |-> total + cost[n]]]
           Sum(f) == f = [n \in 0..N |-> IF n = 0 THEN 0 ELSE f[n - 1] + TradeCost(list[n])]
           sum == CHOOSE f : Sum(f)
<1>1. N \in Nat /\ \A n \in 1..N : list[n] \in PaperTrades
  OBVIOUS
<1>2. cost \in [1..N -> Int]
  BY <1>1, TradeCostType
<1>3. step \in [1..N -> [Int -> Int]]
  BY <1>2
<1>4. PICK g \in [0..N -> Int] : Recursive(g, N, 0, step)
  <2>1. 0 \in Int
    OBVIOUS
  <2> HIDE DEF N, step
  <2> QED
    BY <1>1, <1>3, <2>1, RecursionExists, Zenon
<1>5. \A n \in 1..N : step[n][g[n - 1]] = g[n - 1] + TradeCost(list[n])
  OBVIOUS
<1>6. Sum(g)
  <2>1. [n \in 0..N |-> IF n = 0 THEN 0 ELSE step[n][g[n - 1]]]
        = [n \in 0..N |-> IF n = 0 THEN 0 ELSE g[n - 1] + TradeCost(list[n])]
    <3>1. \A n \in 0..N : n # 0 => n \in 1..N
      BY <1>1
    <3> HIDE DEF N, step
    <3> QED
      BY <1>5, <3>1
  <2> QED
    BY <1>4, <2>1 DEF Recursive
<1>7. Spent(list) = sum[N]
  BY Zenon DEF Spent, Total, TradeCost
<1>8. Sum(sum)
  BY <1>6, Zenon
<1> HIDE DEF sum
<1>9. sum = [n \in 0..N |-> IF n = 0 THEN 0 ELSE sum[n - 1] + TradeCost(list[n])]
  BY <1>8
<1>10. sum[0] = 0 /\ \A n \in 1..N : sum[n] = sum[n - 1] + TradeCost(list[n])
  BY <1>1, <1>9
<1> DEFINE T == {n \in Nat : n <= N => sum[n] \in Int}
<1>11. Nat \subseteq T
  <2>1. 0 \in T
    BY <1>10
  <2>2. ASSUME NEW n \in Nat, n \in T PROVE n + 1 \in T
    <3> SUFFICES ASSUME n + 1 <= N PROVE sum[n + 1] \in Int
      OBVIOUS
    <3>1. n + 1 \in 1..N /\ (n + 1) - 1 = n /\ sum[n] \in Int
      BY <1>1, <2>2
    <3>2. TradeCost(list[n + 1]) \in Int
      BY <1>1, <3>1, TradeCostType
    <3> QED
      BY <1>10, <3>1, <3>2
  <2> HIDE DEF T
  <2> QED
    BY <2>1, <2>2, SetInduction
<1>12. sum \in [0..N -> Int]
  <2>1. \A n \in 0..N : sum[n] \in Int
    BY <1>1, <1>11
  <2> QED
    BY <1>9, <2>1
<1> QED
  BY <1>7, <1>10, <1>12 DEF IsTally

\* There is one tally of a list of trades.
LEMMA TallyIsSpent ==
  ASSUME NEW list \in Seq(PaperTrades), NEW g, IsTally(g, list)
  PROVE  Spent(list) = g[Len(list)]
<1>1. PICK f : IsTally(f, list) /\ Spent(list) = f[Len(list)]
  BY SpentIsTally
<1> DEFINE N == Len(list)
           T == {n \in Nat : n <= N => f[n] = g[n]}
<1>2. N \in Nat
  OBVIOUS
<1>3. 0 \in T
  BY <1>1 DEF IsTally
<1>4. ASSUME NEW n \in Nat, n \in T PROVE n + 1 \in T
  <2> SUFFICES ASSUME n + 1 <= N PROVE f[n + 1] = g[n + 1]
    OBVIOUS
  <2>1. n + 1 \in 1..N /\ (n + 1) - 1 = n /\ f[n] = g[n]
    BY <1>2, <1>4
  <2> QED
    BY <1>1, <2>1 DEF IsTally
<1> HIDE DEF T
<1>5. N \in T
  BY <1>2, <1>3, <1>4, SetInduction
<1> QED
  BY <1>1, <1>2, <1>5 DEF T

LEMMA SpentType ==
  ASSUME NEW list \in Seq(PaperTrades)
  PROVE  Spent(list) \in Int
<1>1. PICK f : IsTally(f, list) /\ Spent(list) = f[Len(list)]
  BY SpentIsTally
<1> QED
  BY <1>1 DEF IsTally

LEMMA SpentOnNothing == Spent(<<>>) = 0
<1> DEFINE f == [n \in 0..0 |-> 0]
<1>1. IsTally(f, <<>>)
  BY DEF IsTally
<1> QED
  BY <1>1, TallyIsSpent

LEMMA SpentOnOneMore ==
  ASSUME NEW list \in Seq(PaperTrades), NEW trade \in PaperTrades
  PROVE  Spent(Append(list, trade)) = Spent(list) + TradeCost(trade)
<1>1. PICK f : IsTally(f, list) /\ Spent(list) = f[Len(list)]
  BY SpentIsTally
<1> DEFINE N == Len(list)
           more == Append(list, trade)
           total == f[N] + TradeCost(trade)
           g == [n \in 0..(N + 1) |-> IF n = N + 1 THEN total ELSE f[n]]
<1>2. /\ N \in Nat /\ more \in Seq(PaperTrades) /\ Len(more) = N + 1 /\ more[N + 1] = trade
      /\ \A n \in 1..N : more[n] = list[n]
  OBVIOUS
<1>3. f \in [0..N -> Int] /\ f[0] = 0 /\ \A n \in 1..N : f[n] = f[n - 1] + TradeCost(list[n])
  BY <1>1 DEF IsTally
<1>4. total \in Int
  BY <1>2, <1>3, TradeCostType
<1> HIDE DEF more, N, total
<1>5. g \in [0..(N + 1) -> Int] /\ g[0] = 0 /\ g[N + 1] = total
  BY <1>2, <1>3, <1>4
<1>6. ASSUME NEW n \in 1..(N + 1) PROVE g[n] = g[n - 1] + TradeCost(more[n])
  <2>1. CASE n = N + 1
    BY <1>2, <2>1 DEF total
  <2>2. CASE n # N + 1
    <3>1. n \in 1..N /\ n - 1 \in 0..N /\ n - 1 # N + 1 /\ n \in 0..(N + 1) /\ n - 1 \in 0..(N + 1)
      BY <1>2, <2>2
    <3> QED
      BY <1>2, <1>3, <2>2, <3>1
  <2> QED
    BY <2>1, <2>2
<1>7. IsTally(g, more)
  BY <1>2, <1>5, <1>6 DEF IsTally
<1>8. Spent(more) = g[N + 1]
  BY <1>2, <1>7, TallyIsSpent
<1> QED
  BY <1>1, <1>5, <1>8 DEF more, total, N

\* A settlement changes the status of trades, and not what they cost.
LEMMA SpentOnTheSame ==
  ASSUME NEW list \in Seq(PaperTrades), NEW others \in Seq(PaperTrades), Len(others) = Len(list),
         \A n \in 1..Len(list) : others[n].price = list[n].price /\ others[n].count = list[n].count
  PROVE  Spent(others) = Spent(list)
<1>1. PICK f : IsTally(f, list) /\ Spent(list) = f[Len(list)]
  BY SpentIsTally
<1>2. \A n \in 1..Len(list) : TradeCost(others[n]) = TradeCost(list[n])
  BY DEF TradeCost
<1>3. IsTally(f, others)
  BY <1>1, <1>2 DEF IsTally
<1> QED
  BY <1>1, <1>3, TallyIsSpent

-----------------------------------------------------------------------------
(* Filling the orders of a decision.                                       *)

\* What is left, and what has been bought with the rest of the budget.
Purses ==
  {acc \in [left : Nat, rows : Seq(PaperTrades)] : Spent(acc.rows) + acc.left = Budget}

LEMMA FilledFits ==
  ASSUME NEW order \in Orders, NEW left \in Nat
  PROVE  /\ Filled(order, left) \in Nat
         /\ Filled(order, left) # 0 => /\ SidePrice(order) \in 1..99
                                       /\ Cost(SidePrice(order), Filled(order, left)) <= left
<1> DEFINE p == SidePrice(order)
           S == {n \in 0..order.count : Cost(p, n) <= left}
<1>1. CASE p \notin 1..99
  BY <1>1 DEF Filled
<1>2. CASE p \in 1..99
  <2>1. order.count \in Nat
    BY DEF Orders
  <2>2. Cost(p, 0) = 0
    BY DEF Cost
  <2> HIDE DEF p
  <2>3. S \in SUBSET (0..order.count) /\ S # {}
    BY <2>1, <2>2
  <2>4. \E m \in S : \A k \in S : k <= m
    <3> HIDE DEF S
    <3> QED
      BY <2>1, <2>3, LargestExists
  <2>5. Max(S) \in S
    <3> HIDE DEF S
    <3>1. \E m \in S : \A k \in S : m >= k
      <4>1. \A m, k \in S : m \in Int /\ k \in Int
        BY <2>3
      <4> QED
        BY <2>4, <4>1
    <3> QED
      BY <3>1, Zenon DEF Max
  <2>6. Filled(order, left) = Max(S)
    BY <1>2 DEF Filled, p
  <2> DEFINE m == Max(S)
  <2>7. m \in 0..order.count /\ Cost(p, m) <= left
    <3> HIDE DEF m
    <3>1. m \in S
      BY <2>5 DEF m
    <3> QED
      BY <3>1
  <2> HIDE DEF m
  <2> QED
    BY <1>2, <2>1, <2>6, <2>7 DEF m, p
<1> QED
  BY <1>1, <1>2

\* An order moves its cost from what is left to the trades.
LEMMA FillOneKeeps ==
  ASSUME NEW acc \in Purses, NEW order \in Orders
  PROVE  FillOne(acc, order) \in Purses
<1> DEFINE n == Filled(order, acc.left)
           p == SidePrice(order)
           trade == [ticker |-> order.ticker, side |-> order.side, price |-> p, count |-> n,
                     status |-> "open"]
<1>1. acc.left \in Nat /\ acc.rows \in Seq(PaperTrades) /\ Spent(acc.rows) + acc.left = Budget
  BY DEF Purses
<1>2. n \in Nat /\ (n # 0 => p \in 1..99 /\ Cost(p, n) <= acc.left)
  BY <1>1, FilledFits
<1>3. FillOne(acc, order) =
        IF n = 0 THEN acc ELSE [left |-> acc.left - Cost(p, n), rows |-> Append(acc.rows, trade)]
  BY Zenon DEF FillOne
<1>4. order.ticker \in PaperTickers /\ order.side \in Sides
  BY DEF Orders
<1> HIDE DEF n, p
<1>5. CASE n = 0
  BY <1>3, <1>5
<1>6. CASE n # 0
  <2> DEFINE new == [left |-> acc.left - Cost(p, n), rows |-> Append(acc.rows, trade)]
  <2>1. trade \in PaperTrades
    BY <1>2, <1>4, <1>6 DEF PaperTrades, Sides
  <2>2. TradeCost(trade) = Cost(p, n)
    BY DEF TradeCost
  <2>3. Cost(p, n) \in Int
    <3>1. p \in Int /\ n \in Int
      BY <1>2, <1>6
    <3> QED
      BY <3>1, CostType
  <2> HIDE DEF trade
  <2>4. new.rows \in Seq(PaperTrades) /\ new.left \in Nat
    BY <1>1, <1>2, <1>6, <2>1, <2>3
  <2>5. Spent(new.rows) = Spent(acc.rows) + Cost(p, n)
    BY <1>1, <2>1, <2>2, SpentOnOneMore
  <2>6. Spent(new.rows) + new.left = Budget
    <3>1. Spent(acc.rows) \in Int /\ new.left = acc.left - Cost(p, n)
      BY <1>1, SpentType
    <3> QED
      BY <1>1, <2>3, <2>5, <3>1
  <2>7. new \in [left : Nat, rows : Seq(PaperTrades)]
    BY <2>4
  <2> HIDE DEF new
  <2>8. new \in Purses
    BY <2>6, <2>7 DEF Purses
  <2> QED
    BY <1>3, <1>6, <2>8 DEF new
<1> QED
  BY <1>5, <1>6

LEMMA FillAllKeeps ==
  ASSUME NEW orders \in Seq(Orders)
  PROVE  FillAll(orders) \in Purses
<1> DEFINE N == Len(orders)
           base == [left |-> Budget, rows |-> <<>>]
           step == [n \in 1..N |-> [acc \in Purses |-> FillOne(acc, orders[n])]]
           Filling(f) == f = [i \in 0..N |-> IF i = 0 THEN base ELSE FillOne(f[i - 1], orders[i])]
           filled == CHOOSE f : Filling(f)
<1>1. N \in Nat /\ \A n \in 1..N : orders[n] \in Orders
  OBVIOUS
<1>2. base \in Purses
  <2>1. Spent(<<>>) + Budget = Budget
    BY SpentOnNothing, PaperAssumption DEF PaperAssumption
  <2> QED
    BY <2>1, PaperAssumption DEF PaperAssumption, Purses
<1>3. step \in [1..N -> [Purses -> Purses]]
  BY <1>1, FillOneKeeps
<1>4. PICK g \in [0..N -> Purses] : Recursive(g, N, base, step)
  <2> HIDE DEF N, base, step
  <2> QED
    BY <1>1, <1>2, <1>3, RecursionExists, Zenon
<1>5. Filling(g)
  <2>1. \A n \in 0..N : n # 0 => n \in 1..N /\ n - 1 \in 0..N
    BY <1>1
  <2>2. \A n \in 1..N : step[n][g[n - 1]] = FillOne(g[n - 1], orders[n])
    OBVIOUS
  <2>3. [n \in 0..N |-> IF n = 0 THEN base ELSE step[n][g[n - 1]]]
        = [n \in 0..N |-> IF n = 0 THEN base ELSE FillOne(g[n - 1], orders[n])]
    <3> HIDE DEF N, base, step
    <3> QED
      BY <2>1, <2>2
  <2> QED
    BY <1>4, <2>3, Zenon DEF Recursive
<1>6. FillAll(orders) = filled[N]
  BY Zenon DEF FillAll
<1>7. Filling(filled)
  BY <1>5, Zenon
<1> HIDE DEF filled, base, step
<1>8. filled[0] = base /\ \A n \in 1..N : filled[n] = FillOne(filled[n - 1], orders[n])
  <2>1. filled = [i \in 0..N |-> IF i = 0 THEN base ELSE FillOne(filled[i - 1], orders[i])]
    BY <1>7
  <2> QED
    BY <1>1, <2>1
<1> DEFINE T == {n \in Nat : n <= N => filled[n] \in Purses}
<1>9. 0 \in T
  BY <1>2, <1>8
<1>10. ASSUME NEW n \in Nat, n \in T PROVE n + 1 \in T
  <2> SUFFICES ASSUME n + 1 <= N PROVE filled[n + 1] \in Purses
    OBVIOUS
  <2>1. n + 1 \in 1..N /\ (n + 1) - 1 = n /\ filled[n] \in Purses
    BY <1>1, <1>10
  <2>2. filled[n + 1] = FillOne(filled[n], orders[n + 1]) /\ orders[n + 1] \in Orders
    BY <1>1, <1>8, <2>1
  <2> QED
    BY <2>1, <2>2, FillOneKeeps
<1> HIDE DEF T
<1>11. N \in T
  BY <1>1, <1>9, <1>10, SetInduction
<1> QED
  BY <1>1, <1>6, <1>11 DEF T

\* The fills of a decision are trades that the budget pays for.
LEMMA FillsFit ==
  ASSUME NEW orders \in Decisions
  PROVE  Fills[orders] \in Seq(PaperTrades) /\ Spent(Fills[orders]) <= Budget
<1>1. orders \in Seq(Orders)
  <2>1. orders \in OrderLists \/ orders = <<>>
    BY DEF Decisions
  <2>2. OrderLists \subseteq Seq(Orders)
    BY PaperAssumption DEF PaperAssumption
  <2>3. <<>> \in Seq(Orders)
    OBVIOUS
  <2> QED
    BY <2>1, <2>2, <2>3
<1>2. FillAll(orders) \in Purses
  BY <1>1, FillAllKeeps
<1>3. Fills[orders] = FillAll(orders).rows
  BY Zenon DEF Fills
<1>4. /\ FillAll(orders).rows \in Seq(PaperTrades) /\ FillAll(orders).left \in Nat
      /\ Spent(FillAll(orders).rows) + FillAll(orders).left = Budget
  BY <1>2 DEF Purses
<1>5. Spent(FillAll(orders).rows) \in Int
  BY <1>4, SpentType
<1> QED
  BY <1>3, <1>4, <1>5, PaperAssumption DEF PaperAssumption

-----------------------------------------------------------------------------
(* The steps.                                                              *)

PaperIInv == PaperTypeOK /\ PaperActsOnce

LEMMA PaperInitIInv == PaperInit => PaperIInv
<1> SUFFICES ASSUME PaperInit PROVE PaperIInv
  OBVIOUS
<1>1. <<>> \in Seq(PaperTrades) /\ Len(<<>>) = 0 /\ Spent(<<>>) <= Budget
  BY SpentOnNothing, PaperAssumption DEF PaperAssumption
<1>2. PaperTypeOK
  BY <1>1 DEF PaperInit, PaperTypeOK, PaperResults
<1>3. PaperActsOnce
  BY <1>1 DEF PaperInit, PaperActsOnce, None
<1> QED
  BY <1>2, <1>3 DEF PaperIInv

\* A step that leaves decisions and trades alone.
LEMMA BooksStay ==
  ASSUME PaperIInv, UNCHANGED <<decision, trades>>, PaperTypeOK'
  PROVE  PaperIInv'
BY DEF PaperIInv, PaperActsOnce, None

\* A decision, the first of its event, makes trades that the budget pays for.
LEMMA DecideOneIInv ==
  ASSUME PaperIInv, NEW c \in PaperCycles, NEW e \in PaperEvents, NEW orders \in Decisions,
         DecideOne(c, e, orders)
  PROVE  PaperIInv'
<1> DEFINE fills == Fills[orders]
<1>1. PaperTypeOK
  BY DEF PaperIInv
<1>2. Done(c, e) \in [PaperCycles -> SUBSET PaperEvents]
      /\ [deciding EXCEPT ![c] = {}] \in [PaperCycles -> SUBSET PaperEvents]
  BY <1>1 DEF PaperTypeOK, Done
<1>3. fills \in Seq(PaperTrades) /\ Len(fills) \in Nat /\ Spent(fills) <= Budget
  BY FillsFit
<1> HIDE DEF fills
<1>4. CASE decision[e] = None
  <2>1. trades[e] = <<>>
    <3>1. trades[e] \in Seq(PaperTrades) /\ Len(trades[e]) = 0
      BY <1>1, <1>4 DEF PaperIInv, PaperActsOnce, PaperTypeOK
    <3> QED
      BY <3>1
  <2>2. trades[e] \o fills = fills
    BY <1>3, <2>1
  <2>3. /\ decision' = [decision EXCEPT ![e] = Len(fills)]
        /\ trades' = [trades EXCEPT ![e] = fills]
        /\ deciding' = Done(c, e)
        /\ UNCHANGED <<state, window, result, listing, settler>>
    BY <1>4, <2>2 DEF DecideOne, fills
  <2>4. PaperTypeOK'
    BY <1>1, <1>2, <1>3, <2>3 DEF PaperTypeOK
  <2>5. Len(fills) # None
    BY <1>3 DEF None
  <2>6. ASSUME NEW d \in PaperEvents
        PROVE  /\ Len(trades'[d]) = IF decision'[d] = None THEN 0 ELSE decision'[d]
               /\ Spent(trades'[d]) <= Budget
    <3>1. CASE d = e
      BY <1>1, <1>3, <2>3, <2>5, <3>1 DEF PaperTypeOK
    <3>2. CASE d # e
      BY <1>1, <2>3, <3>2 DEF PaperIInv, PaperActsOnce, PaperTypeOK
    <3> QED
      BY <3>1, <3>2
  <2>7. PaperActsOnce'
    BY <2>6 DEF PaperActsOnce, None
  <2> QED
    BY <2>4, <2>7 DEF PaperIInv
<1>5. CASE decision[e] # None
  <2>1. UNCHANGED <<decision, trades>> /\ PaperTypeOK'
    BY <1>1, <1>2, <1>5 DEF DecideOne, PaperTypeOK
  <2> QED
    BY <2>1, BooksStay
<1> QED
  BY <1>4, <1>5

\* A settlement keeps the trades, but for their status.
LEMMA SettlePaperTradesIInv ==
  ASSUME PaperIInv, SettlePaperTrades
  PROVE  PaperIInv'
<1> DEFINE known == Listed(FALSE) \union Listed(TRUE)
           settled == SettledRows(known)
<1>1. PaperTypeOK
  BY DEF PaperIInv
<1>2. ASSUME NEW trade \in PaperTrades, NEW r
      PROVE  /\ Closed(trade, r) \in PaperTrades
             /\ Closed(trade, r).price = trade.price /\ Closed(trade, r).count = trade.count
  BY DEF Closed, PaperTrades
<1>3. ASSUME NEW e \in PaperEvents
      PROVE  /\ settled[e] \in Seq(PaperTrades) /\ Len(settled[e]) = Len(trades[e])
             /\ Spent(settled[e]) = Spent(trades[e])
  <2> DEFINE list == trades[e]
             N == Len(list)
             row(i) == IF e \in known THEN Closed(list[i], result[e]) ELSE list[i]
             others == [i \in 1..N |-> row(i)]
  <2>1. list \in Seq(PaperTrades) /\ N \in Nat /\ DOMAIN list = 1..N
        /\ \A i \in 1..N : list[i] \in PaperTrades
    BY <1>1 DEF PaperTypeOK
  <2>2. settled[e] = others
    BY <2>1 DEF SettledRows
  <2> HIDE DEF list, known
  <2>3. \A i \in 1..N : row(i) \in PaperTrades /\ row(i).price = list[i].price
                        /\ row(i).count = list[i].count
    BY <1>2, <2>1
  <2> HIDE DEF row, N
  <2>4. others \in Seq(PaperTrades) /\ Len(others) = N
    BY <2>1, <2>3
  <2>5. \A i \in 1..N : others[i].price = list[i].price /\ others[i].count = list[i].count
    BY <2>3
  <2> HIDE DEF others
  <2>6. Spent(others) = Spent(list)
    BY <2>1, <2>4, <2>5, SpentOnTheSame DEF N
  <2> HIDE DEF settled
  <2> QED
    BY <2>2, <2>4, <2>6 DEF list, N
<1>4. /\ trades' = settled /\ settler' = "monitors"
      /\ UNCHANGED <<state, window, result, listing, decision, deciding>>
  BY DEF SettlePaperTrades
<1>5. settled \in [PaperEvents -> Seq(PaperTrades)]
  <2>1. settled = [e \in PaperEvents |-> settled[e]]
    BY DEF SettledRows
  <2> HIDE DEF settled
  <2> QED
    BY <1>3, <2>1
<1> HIDE DEF settled
<1>6. PaperTypeOK'
  BY <1>1, <1>4, <1>5 DEF PaperTypeOK
<1>7. PaperActsOnce'
  BY <1>3, <1>4 DEF PaperIInv, PaperActsOnce, None
<1> QED
  BY <1>6, <1>7 DEF PaperIInv

LEMMA PaperNextIInv == PaperIInv /\ [PaperNext]_paperVars => PaperIInv'
<1> SUFFICES ASSUME PaperIInv, [PaperNext]_paperVars PROVE PaperIInv'
  OBVIOUS
<1>0. PaperTypeOK
  BY DEF PaperIInv
<1>1. ASSUME NEW e \in PaperEvents, MoveWindow(e) PROVE PaperIInv'
  <2>1. UNCHANGED <<decision, trades>> /\ PaperTypeOK'
    BY <1>0, <1>1 DEF MoveWindow, PaperTypeOK
  <2> QED
    BY <2>1, BooksStay
<1>2. ASSUME NEW e \in PaperEvents, SettleMarkets(e) PROVE PaperIInv'
  <2>1. UNCHANGED <<decision, trades>> /\ PaperTypeOK'
    BY <1>0, <1>2 DEF SettleMarkets, PaperTypeOK
  <2> QED
    BY <2>1, BooksStay
<1>3. ASSUME NEW e \in PaperEvents, MoveToHistory(e) PROVE PaperIInv'
  <2>1. UNCHANGED <<decision, trades>> /\ PaperTypeOK'
    BY <1>0, <1>3 DEF MoveToHistory, PaperTypeOK
  <2> QED
    BY <2>1, BooksStay
<1>4. ASSUME NEW c \in PaperCycles, BeginCycle(c) PROVE PaperIInv'
  <2>1. state' \in {"none", "active", "stopped"}
    BY <1>4 DEF BeginCycle
  <2>2. deciding' \in [PaperCycles -> SUBSET PaperEvents]
    BY <1>0, <1>4 DEF BeginCycle, PaperTypeOK
  <2>3. UNCHANGED <<decision, trades>> /\ PaperTypeOK'
    BY <1>0, <1>4, <2>1, <2>2 DEF BeginCycle, PaperTypeOK
  <2> QED
    BY <2>3, BooksStay
<1>5. ASSUME NEW c \in PaperCycles, NEW e \in PaperEvents, NEW orders \in Decisions,
             DecideOne(c, e, orders)
      PROVE  PaperIInv'
  BY <1>5, DecideOneIInv
<1>6. ASSUME NEW c \in PaperCycles, CycleFails(c) PROVE PaperIInv'
  <2>1. UNCHANGED <<decision, trades>> /\ PaperTypeOK'
    BY <1>0, <1>6 DEF CycleFails, PaperTypeOK
  <2> QED
    BY <2>1, BooksStay
<1>7. CASE SettlePaperTrades
  BY <1>7, SettlePaperTradesIInv
<1>8. CASE EvaluateMonitor
  <2>1. state' \in {"none", "active", "stopped"}
    <3>1. \E sprt \in SprtStops : state' = IF state = "active" /\ (sprt \/ Alarms({"settled"})) THEN "stopped" ELSE state
      BY <1>8, Zenon DEF EvaluateMonitor
    <3> QED
      BY <1>0, <3>1 DEF PaperTypeOK
  <2>2. settler' = "idle" /\ UNCHANGED <<window, result, listing, decision, trades, deciding>>
    BY <1>8 DEF EvaluateMonitor
  <2>3. UNCHANGED <<decision, trades>> /\ PaperTypeOK'
    BY <1>0, <2>1, <2>2 DEF PaperTypeOK
  <2> QED
    BY <2>3, BooksStay
<1>9. CASE SettlerDies
  <2>1. UNCHANGED <<decision, trades>> /\ PaperTypeOK'
    BY <1>0, <1>9 DEF SettlerDies, PaperTypeOK
  <2> QED
    BY <2>1, BooksStay
<1>10. CASE UNCHANGED paperVars
  <2>1. UNCHANGED <<decision, trades>> /\ PaperTypeOK'
    BY <1>0, <1>10 DEF paperVars, PaperTypeOK
  <2> QED
    BY <2>1, BooksStay
<1> QED
  BY <1>1, <1>2, <1>3, <1>4, <1>5, <1>6, <1>7, <1>8, <1>9, <1>10, Zenon DEF PaperNext

\* The books of paper trading keep their types.
THEOREM PaperTypeCorrect == PaperSpec => []PaperTypeOK
<1>1. PaperIInv => PaperTypeOK
  BY DEF PaperIInv
<1> QED
  BY <1>1, PaperInitIInv, PaperNextIInv, PTL DEF PaperSpec

\* Runs that overlap, fail and are repeated act at most once on an event, within the budget.
THEOREM PaperDecidesOnce == PaperSpec => []PaperActsOnce
<1>1. PaperIInv => PaperActsOnce
  BY DEF PaperIInv
<1> QED
  BY <1>1, PaperInitIInv, PaperNextIInv, PTL DEF PaperSpec

\* What a step does to the decision of an event and to its trades.
BooksStand(e) ==
  /\ decision[e] # None => decision'[e] = decision[e]
  /\ \A i \in DOMAIN trades[e] :
       /\ i \in DOMAIN trades'[e]
       /\ trades'[e][i].price = trades[e][i].price /\ trades'[e][i].count = trades[e][i].count
       /\ trades[e][i].status # "open" => trades'[e][i] = trades[e][i]

\* A decision stands, and so do its trades once they are settled.
DecisionsStand == [][\A e \in PaperEvents : BooksStand(e)]_paperVars

LEMMA DecideOneStands ==
  ASSUME PaperIInv, NEW c \in PaperCycles, NEW d \in PaperEvents, NEW orders \in Decisions,
         DecideOne(c, d, orders), NEW e \in PaperEvents
  PROVE  BooksStand(e)
<1>1. PaperTypeOK /\ PaperActsOnce
  BY DEF PaperIInv
<1>2. CASE decision[d] = None /\ e = d
  <2>1. trades[e] \in Seq(PaperTrades) /\ Len(trades[e]) = 0
    BY <1>1, <1>2 DEF PaperActsOnce, PaperTypeOK
  <2>2. DOMAIN trades[e] = {}
    BY <2>1
  <2> QED
    BY <1>2, <2>2 DEF BooksStand
<1>3. CASE decision[d] = None /\ e # d
  <2>1. decision'[e] = decision[e] /\ trades'[e] = trades[e]
    BY <1>1, <1>3 DEF DecideOne, PaperTypeOK
  <2> QED
    BY <2>1 DEF BooksStand
<1>4. CASE decision[d] # None
  BY <1>4 DEF DecideOne, BooksStand
<1> QED
  BY <1>2, <1>3, <1>4

LEMMA SettlePaperTradesStands ==
  ASSUME PaperIInv, SettlePaperTrades, NEW e \in PaperEvents
  PROVE  BooksStand(e)
<1>1. trades[e] \in Seq(PaperTrades)
  BY DEF PaperIInv, PaperTypeOK
<1> DEFINE known == Listed(FALSE) \union Listed(TRUE)
<1>2. /\ DOMAIN trades'[e] = DOMAIN trades[e] /\ decision' = decision
      /\ \A i \in DOMAIN trades[e] :
           trades'[e][i] = IF e \in known THEN Closed(trades[e][i], result[e]) ELSE trades[e][i]
  BY DEF SettlePaperTrades, SettledRows
<1>3. \A i \in DOMAIN trades[e] : trades[e][i] \in PaperTrades
  BY <1>1
<1>4. ASSUME NEW trade \in PaperTrades, NEW r
      PROVE  /\ Closed(trade, r).price = trade.price /\ Closed(trade, r).count = trade.count
             /\ trade.status # "open" => Closed(trade, r) = trade
  BY DEF Closed, PaperTrades
<1> HIDE DEF known
<1> QED
  BY <1>2, <1>3, <1>4 DEF BooksStand

\* No step of any run takes a decision back, changes what a trade cost or settles it twice.
THEOREM PaperDecisionsStand == PaperSpec => DecisionsStand
<1>1. ASSUME PaperIInv, [PaperNext]_paperVars PROVE [\A e \in PaperEvents : BooksStand(e)]_paperVars
  <2> SUFFICES ASSUME PaperNext, NEW e \in PaperEvents PROVE BooksStand(e)
    BY <1>1
  <2>1. ASSUME NEW d \in PaperEvents, MoveWindow(d) \/ SettleMarkets(d) \/ MoveToHistory(d)
        PROVE  BooksStand(e)
    BY <2>1 DEF MoveWindow, SettleMarkets, MoveToHistory, BooksStand
  <2>2. ASSUME NEW c \in PaperCycles, BeginCycle(c) \/ CycleFails(c)
        PROVE  BooksStand(e)
    BY <2>2 DEF BeginCycle, CycleFails, BooksStand
  <2>3. ASSUME NEW c \in PaperCycles, NEW d \in PaperEvents, NEW orders \in Decisions,
               DecideOne(c, d, orders)
        PROVE  BooksStand(e)
    BY <1>1, <2>3, DecideOneStands
  <2>4. CASE SettlePaperTrades
    BY <1>1, <2>4, SettlePaperTradesStands
  <2>5. CASE EvaluateMonitor
    <3>1. UNCHANGED <<decision, trades>>
      BY <2>5 DEF EvaluateMonitor
    <3> QED
      BY <3>1 DEF BooksStand
  <2>6. CASE SettlerDies
    BY <2>6 DEF SettlerDies, BooksStand
  <2> QED
    BY <2>1, <2>2, <2>3, <2>4, <2>5, <2>6, Zenon DEF PaperNext
<1>2. PaperSpec => []PaperIInv
  BY PaperInitIInv, PaperNextIInv, PTL DEF PaperSpec
<1> QED
  BY <1>1, <1>2, PTL DEF PaperSpec, DecisionsStand
=============================================================================
