---------------------------- MODULE RiskDayProofs ----------------------------
(***************************************************************************)
(* Theorems about RiskDay, for any trades, settlers, days and limits.      *)
(*                                                                         *)
(* Each has an invariant of its own on top of IInv, which says what the    *)
(* locks and the state of a session mean.                                  *)
(*   StreakInv: a session that is alone makes of a day's counter the       *)
(*   streak of what the day was told and what it will have been told.      *)
(*   PauseInv: a row at the limit pauses for the rest of its day; the      *)
(*   trading session only ever inserts fresh rows.                         *)
(*   MeetInv and EnoughInv: of two settlements that overlap within a day,  *)
(*   the one's list is part of the other's.  What the first commits, the   *)
(*   second still has to count once more, since it waits for the trades'   *)
(*   row locks, so that a stale counter is made up for.                    *)
(***************************************************************************)
EXTENDS RiskDay, FiniteSetTheorems, SequenceTheorems, TLAPS

LossOf(row) == IF row = NoRow THEN 0 ELSE row.losses

\* A session at no work has no state, one at work has a next trade, and holds the locks of
\* the trades it has settled.
ListIsSound(s) ==
  /\ settler[s].step = "idle" => settler[s] = Idle
  /\ settler[s].todo # {} => settler[s].next \in settler[s].todo
  /\ settler[s].step \in {"load", "write"} => settler[s].todo # {}

LocksAreDone(s) ==
  \A t \in Trades :
    tradeLock[t] = s <=> \/ settler[s].done[t] # NoDay
                         \/ settler[s].step \in {"load", "write"} /\ settler[s].next = t

DoneIsSettled(s) ==
  \A t \in Trades :
    /\ settler[s].done[t] # NoDay => t \notin settler[s].todo
    /\ settler[s].done[t] # NoDay \/ t \in settler[s].todo => result[t] # "OPEN"

\* A row that was told of a loss is locked; one that is locked was told of something.
RowsAreLocked(s) ==
  \A d \in DaySet :
    /\ dayLock[d] = s => settler[s].draft[d] \in Row /\ \E t \in Trades : settler[s].done[t] = d
    /\ \A t \in Trades : settler[s].done[t] = d /\ result[t] = "LOST" => dayLock[d] = s

WriteIsSound(s) ==
  settler[s].step = "write" =>
    /\ settler[s].new \in Row
    /\ settler[s].seen # NoRow => RowSeenBy(s, settler[s].day) # NoRow
    /\ result[settler[s].next] = "WON" => settler[s].new.losses = 0
    /\ result[settler[s].next] = "LOST" => settler[s].new.losses = LossOf(settler[s].seen) + 1

SettlerIsSound(s) ==
  ListIsSound(s) /\ LocksAreDone(s) /\ DoneIsSettled(s) /\ RowsAreLocked(s) /\ WriteIsSound(s)

\* The trading session forgets no losses.
TraderIsSound ==
  \A d \in DaySet : dayLock[d] = Trader =>
    trader.active /\ trader.draft[d] \in Row /\ trader.draft[d].losses = LossOf(risk[d])

TradesAreSound ==
  \A t \in Trades :
    /\ trade[t].status \in Outcomes <=> settledOn[t] # NoDay
    /\ trade[t].status \in Outcomes => trade[t].status = result[t]
    /\ trade[t].status = "NONE" => result[t] = "OPEN"
    /\ t \in trader.placed \/ t = trader.cleared => trade[t].status = "NONE"

IInv ==
  /\ TypeOK
  /\ \A s \in Settlers : SettlerIsSound(s)
  /\ TraderIsSound
  /\ TradesAreSound

-----------------------------------------------------------------------------
(* Numbers and days.                                                       *)

LEMMA TimesMono ==
  ASSUME NEW a \in Int, NEW b \in Int, NEW c \in Nat, a <= b
  PROVE  a * c <= b * c
<1>1. b * c - a * c = (b - a) * c
  OBVIOUS
<1>2. (b - a) * c >= 0
  OBVIOUS
<1> QED
  BY <1>1, <1>2

LEMMA DayOf ==
  ASSUME NEW L \in Nat \ {0}, NEW n \in Nat, NEW D \in Nat, n < (D + 1) * L
  PROVE  n \div L \in 0..D /\ n < (n \div L + 1) * L /\ (n \div L + 1) * L \in 0..((D + 1) * L)
<1> DEFINE q == n \div L
<1>1. q \in Int /\ q * L <= n /\ n < (q + 1) * L
  <2>1. q \in Int
    OBVIOUS
  <2>2. q * L <= n
    OBVIOUS
  <2>3. n < (q + 1) * L
    OBVIOUS
  <2> QED
    BY <2>1, <2>2, <2>3
<1> HIDE DEF q
<1>2. q <= D
  <2> SUFFICES ASSUME D + 1 <= q PROVE FALSE
    BY <1>1
  <2>1. (D + 1) * L <= q * L
    BY <1>1, TimesMono
  <2> QED
    BY <2>1, <1>1
<1>3. q >= 0
  <2> SUFFICES ASSUME q + 1 <= 0 PROVE FALSE
    BY <1>1
  <2>1. (q + 1) * L <= 0 * L
    BY <1>1, TimesMono
  <2> QED
    BY <2>1, <1>1
<1>4. (q + 1) * L <= (D + 1) * L /\ (q + 1) * L \in Int /\ (D + 1) * L \in Int
  BY <1>1, <1>2, TimesMono
<1> QED
  BY <1>1, <1>2, <1>3, <1>4 DEF q

LEMMA TodayType ==
  ASSUME now \in 0..(Horizon - 1)
  PROVE  /\ Today \in DaySet /\ now < EndOfDay
         /\ EndOfDay \in Cooldown /\ now + PerLoss \in Cooldown
<1>1. Horizon \in Nat /\ DayLength \in Nat \ {0} /\ Days \in Nat /\ PerLoss \in Nat
  <2>1. DayLength \in Nat \ {0} /\ Days \in Nat /\ PerLoss \in Nat
    BY LimitsArePositive
  <2> QED
    BY <2>1 DEF Horizon
<1>2. now \in Nat /\ now < (Days + 1) * DayLength
  BY <1>1 DEF Horizon
<1>3. Today \in 0..Days /\ now < EndOfDay /\ EndOfDay \in 0..((Days + 1) * DayLength)
  BY <1>1, <1>2, DayOf DEF Today, Day, EndOfDay
<1> QED
  BY <1>1, <1>2, <1>3 DEF DaySet, Cooldown, Horizon


LEMMA Rows == NoRow \notin Row /\ FreshRow \in Row /\ NoRow # FreshRow /\ NoDay \notin DaySet
<1>1. 0 \in Cooldown
  BY LimitsArePositive, DayOf DEF Cooldown, Horizon
<1>2. NoRow.losses \notin Nat
  BY DEF NoRow
<1>3. \A row \in Row : row.losses \in Nat
  BY DEF Row
<1>4. FreshRow \in Row
  BY <1>1 DEF FreshRow, Row
<1> QED
  BY <1>2, <1>3, <1>4, LimitsArePositive DEF NoDay, DaySet

LEMMA IdleType ==
  /\ Idle \in Settlement /\ Idle.step = "idle" /\ Idle.todo = {}
  /\ \A t \in Trades : Idle.done[t] = NoDay
  /\ \A d \in DaySet : Idle.told[d] = <<>>
<1>1. 0 \in DaySet
  BY LimitsArePositive DEF DaySet
<1> QED
  BY <1>1 DEF Idle, Settlement

LEMMA RestingType == Resting \in Trading /\ ~Resting.active
BY DEF Resting, Trading

\* A step changes one session.
LEMMA OneChanges ==
  ASSUME settler \in [Settlers -> Settlement], NEW s \in Settlers, NEW w \in Settlement,
         settler' = [settler EXCEPT ![s] = w]
  PROVE  /\ settler' \in [Settlers -> Settlement] /\ settler'[s] = w
         /\ \A r \in Settlers : r # s => settler'[r] = settler[r]
OBVIOUS

LEMMA BeginFields ==
  ASSUME TypeOK, NEW s \in Settlers, BeginSettlement(s)
  PROVE  /\ settler' \in [Settlers -> Settlement]
         /\ settler'[s].step = "settle" /\ settler'[s].todo = Settleable
         /\ settler'[s].next \in Settleable
         /\ settler'[s].done = Idle.done /\ settler'[s].told = Idle.told
         /\ \A r \in Settlers : r # s => settler'[r] = settler[r]
<1>1. PICK t \in Settleable :
        settler' = [settler EXCEPT ![s] = [Idle EXCEPT !.step = "settle", !.todo = Settleable, !.next = t]]
  BY DEF BeginSettlement
<1> DEFINE w == [Idle EXCEPT !.step = "settle", !.todo = Settleable, !.next = t]
<1>2. /\ w \in Settlement /\ w.step = "settle" /\ w.todo = Settleable /\ w.next = t
      /\ w.done = Idle.done /\ w.told = Idle.told
  <2>1. Settleable \subseteq Trades
    BY DEF Settleable
  <2> QED
    BY <2>1, IdleType DEF Settlement
<1>3. settler \in [Settlers -> Settlement]
  BY DEF TypeOK
<1> HIDE DEF w
<1> QED
  BY <1>1, <1>2, <1>3, OneChanges DEF w

LEMMA SettleFields ==
  ASSUME TypeOK, NEW s \in Settlers, SettleTrade(s)
  PROVE  /\ settler' \in [Settlers -> Settlement]
         /\ settler'[s].step = "load"
         /\ settler'[s].todo = settler[s].todo /\ settler'[s].next = settler[s].next
         /\ settler'[s].done = settler[s].done /\ settler'[s].told = settler[s].told
         /\ settler'[s].draft = settler[s].draft
         /\ \A r \in Settlers : r # s => settler'[r] = settler[r]
<1> DEFINE w == [settler[s] EXCEPT !.step = "load"]
<1>1. settler' = [settler EXCEPT ![s] = w]
  BY DEF SettleTrade
<1>2. /\ w \in Settlement /\ w.step = "load" /\ w.todo = settler[s].todo /\ w.next = settler[s].next
      /\ w.done = settler[s].done /\ w.told = settler[s].told /\ w.draft = settler[s].draft
  BY ZenonT(40) DEF TypeOK, Settlement
<1>3. settler \in [Settlers -> Settlement]
  BY DEF TypeOK
<1> HIDE DEF w
<1> QED
  BY <1>1, <1>2, <1>3, OneChanges

Base(row) == IF row = NoRow THEN FreshRow ELSE row

LEMMA OutcomeType ==
  ASSUME TypeOK, NEW row \in Row \union {NoRow}, NEW outcome \in Outcomes
  PROVE  /\ AfterOutcome(Base(row), outcome) \in Row
         /\ outcome = "WON" => AfterOutcome(Base(row), outcome).losses = 0
         /\ outcome = "LOST" => AfterOutcome(Base(row), outcome).losses = LossOf(row) + 1
         /\ LossOf(row) \in Nat
<1>1. Base(row) \in Row /\ LossOf(row) = Base(row).losses /\ LossOf(row) \in Nat
  BY Rows DEF Base, LossOf, FreshRow, Row
<1>2. EndOfDay \in Cooldown /\ now + PerLoss \in Cooldown
  BY TodayType DEF TypeOK
<1> HIDE DEF Base
<1> QED
  BY <1>1, <1>2 DEF AfterOutcome, Row, Outcomes

LEMMA SeenType ==
  ASSUME TypeOK, NEW s \in Settlers, NEW d \in DaySet
  PROVE  RowSeenBy(s, d) \in Row \union {NoRow}
BY DEF TypeOK, RowSeenBy, Settlement

LEMMA LoadFields ==
  ASSUME TypeOK, NEW s \in Settlers, LoadDay(s), settler[s].next \in Trades, result[settler[s].next] # "OPEN"
  PROVE  /\ settler' \in [Settlers -> Settlement]
         /\ settler'[s].step = "write" /\ settler'[s].day = Today
         /\ settler'[s].seen = RowSeenBy(s, Today)
         /\ settler'[s].new = AfterOutcome(Base(RowSeenBy(s, Today)), result[settler[s].next])
         /\ settler'[s].todo = settler[s].todo /\ settler'[s].next = settler[s].next
         /\ settler'[s].done = settler[s].done /\ settler'[s].told = settler[s].told
         /\ settler'[s].draft = settler[s].draft
         /\ \A r \in Settlers : r # s => settler'[r] = settler[r]
<1> DEFINE seen == RowSeenBy(s, Today)
           new == AfterOutcome(Base(seen), result[settler[s].next])
           w == [settler[s] EXCEPT !.step = "write", !.day = Today, !.seen = seen, !.new = new]
<1>1. settler' = [settler EXCEPT ![s] = w]
  BY DEF LoadDay, Base
<1>2. Today \in DaySet /\ seen \in Row \union {NoRow} /\ new \in Row
  <2>1. Today \in DaySet
    BY TodayType DEF TypeOK
  <2>2. seen \in Row \union {NoRow}
    BY <2>1, SeenType
  <2>3. result[settler[s].next] \in Outcomes
    BY DEF TypeOK
  <2> QED
    BY <2>1, <2>2, <2>3, OutcomeType
<1> HIDE DEF seen, new
<1>3. /\ w \in Settlement /\ w.step = "write" /\ w.day = Today /\ w.seen = seen /\ w.new = new
      /\ w.todo = settler[s].todo /\ w.next = settler[s].next
      /\ w.done = settler[s].done /\ w.told = settler[s].told /\ w.draft = settler[s].draft
  <2>1. settler[s] \in Settlement
    BY DEF TypeOK
  <2> QED
    BY <1>2, <2>1 DEF Settlement
<1>4. settler \in [Settlers -> Settlement]
  BY DEF TypeOK
<1> HIDE DEF w
<1> QED
  BY <1>1, <1>3, <1>4, OneChanges DEF seen, new

LEMMA CountedFields ==
  ASSUME TypeOK, NEW s \in Settlers, NEW holder, NEW row \in Row \union {NoRow}, Counted(s, holder, row),
         settler[s].next \in Trades, result[settler[s].next] # "OPEN"
  PROVE  LET w == settler[s] IN
         /\ settler' \in [Settlers -> Settlement]
         /\ settler'[s].step = "settle" /\ settler'[s].todo = w.todo \ {w.next}
         /\ settler'[s].todo # {} => settler'[s].next \in settler'[s].todo
         /\ settler'[s].draft = [w.draft EXCEPT ![w.day] = row]
         /\ settler'[s].done = [w.done EXCEPT ![w.next] = w.day]
         /\ settler'[s].told = [w.told EXCEPT ![w.day] = Append(@, result[w.next])]
         /\ \A r \in Settlers : r # s => settler'[r] = settler[r]
<1> DEFINE w == settler[s]
           left == w.todo \ {w.next}
           d == w.day
           draft == [w.draft EXCEPT ![d] = row]
           done == [w.done EXCEPT ![w.next] = d]
           told == [w.told EXCEPT ![d] = Append(@, result[w.next])]
<1>1. PICK t \in IF left = {} THEN {None} ELSE left :
        settler' = [settler EXCEPT ![s] =
          [w EXCEPT !.step = "settle", !.todo = left, !.next = t, !.seen = NoRow, !.new = NoRow,
                    !.draft[d] = row, !.done[w.next] = d, !.told[d] = Append(@, result[w.next])]]
  BY DEF Counted
<1>2. w \in Settlement /\ settler \in [Settlers -> Settlement] /\ result[w.next] \in Outcomes
  BY DEF TypeOK
<1>3. /\ draft \in [DaySet -> Row \union {NoRow}] /\ done \in [Trades -> DaySet \union {NoDay}]
      /\ left \in SUBSET Trades /\ t \in Trades \union {None} /\ w.day \in DaySet
  BY <1>1, <1>2 DEF Settlement
<1>4. told \in [DaySet -> Seq(Outcomes)]
  <2>1. w.told \in [DaySet -> Seq(Outcomes)]
    BY <1>2 DEF Settlement
  <2>2. Append(w.told[d], result[w.next]) \in Seq(Outcomes)
    BY <1>2, <1>3, <2>1
  <2> QED
    BY <2>1, <2>2
<1> DEFINE v == [w EXCEPT !.step = "settle", !.todo = left, !.next = t, !.seen = NoRow, !.new = NoRow,
                          !.draft = draft, !.done = done, !.told = told]
<1>5. settler' = [settler EXCEPT ![s] = v]
  BY <1>1, <1>2 DEF Settlement
<1> HIDE DEF draft, done, told, left
<1>6. /\ v \in Settlement /\ v.step = "settle" /\ v.todo = left /\ v.next = t
      /\ v.draft = draft /\ v.done = done /\ v.told = told
  BY <1>2, <1>3, <1>4 DEF Settlement
<1> HIDE DEF v
<1>7. /\ settler' \in [Settlers -> Settlement] /\ settler'[s] = v
      /\ \A r \in Settlers : r # s => settler'[r] = settler[r]
  BY <1>2, <1>5, <1>6, OneChanges
<1>8. left # {} => t \in left
  BY <1>1
<1> HIDE DEF w
<1> QED
  BY <1>6, <1>7, <1>8 DEF left, draft, done, told, d, w

LEMMA ReleasedLocks ==
  ASSUME TypeOK, NEW s \in Settlers \union {Trader}
  PROVE  /\ Released(tradeLock, s) \in [Trades -> Settlers \union {None}]
         /\ Released(dayLock, s) \in [DaySet -> Settlers \union {Trader, None}]
         /\ \A t \in Trades, r \in Settlers \union {Trader} :
              Released(tradeLock, s)[t] = r <=> tradeLock[t] = r /\ r # s
         /\ \A d \in DaySet, r \in Settlers \union {Trader} :
              Released(dayLock, s)[d] = r <=> dayLock[d] = r /\ r # s
BY SessionsAreDistinct DEF TypeOK, Released

-----------------------------------------------------------------------------
(* IInv is inductive.                                                      *)

\* What a step does not touch stays sound.
LEMMA OthersStaySound ==
  ASSUME TypeOK, NEW r \in Settlers, SettlerIsSound(r),
         settler'[r] = settler[r], result' = result,
         \A t \in Trades : tradeLock'[t] = r <=> tradeLock[t] = r,
         \A d \in DaySet : dayLock'[d] = r <=> dayLock[d] = r,
         \A d \in DaySet : risk'[d] = NoRow => risk[d] = NoRow
  PROVE  SettlerIsSound(r)'
<1>1. ListIsSound(r)' /\ DoneIsSettled(r)'
  BY DEF SettlerIsSound, ListIsSound, DoneIsSettled
<1>2. LocksAreDone(r)'
  BY DEF SettlerIsSound, LocksAreDone
<1>3. RowsAreLocked(r)'
  BY DEF SettlerIsSound, RowsAreLocked
<1>4. settler[r].day \in DaySet
  BY DEF TypeOK, Settlement
<1>5. WriteIsSound(r)'
  BY <1>4 DEF SettlerIsSound, WriteIsSound, RowSeenBy
<1> QED
  BY <1>1, <1>2, <1>3, <1>5 DEF SettlerIsSound

LEMMA NextTrade ==
  ASSUME TypeOK, NEW s \in Settlers, SettlerIsSound(s), settler[s].todo # {}
  PROVE  /\ settler[s].next \in settler[s].todo /\ settler[s].next \in Trades
         /\ result[settler[s].next] \in Outcomes /\ settler[s].done[settler[s].next] = NoDay
<1>1. settler[s].next \in settler[s].todo
  BY DEF SettlerIsSound, ListIsSound
<1>2. settler[s].next \in Trades
  BY <1>1 DEF TypeOK, Settlement
<1>3. result[settler[s].next] # "OPEN" /\ settler[s].done[settler[s].next] = NoDay
  BY <1>1, <1>2 DEF SettlerIsSound, DoneIsSettled
<1> QED
  BY <1>1, <1>2, <1>3 DEF TypeOK

\* A step of a session that settles leaves the trading session alone.
LEMMA TraderStaysSound ==
  ASSUME IInv, trader' = trader, result' = result, trade' = trade, settledOn' = settledOn,
         risk' = risk, \A d \in DaySet : dayLock'[d] = Trader => dayLock[d] = Trader
  PROVE  TraderIsSound' /\ TradesAreSound'
BY DEF IInv, TraderIsSound, TradesAreSound, LossOf

LEMMA BeginInv ==
  ASSUME IInv, NEW s \in Settlers, BeginSettlement(s)
  PROVE  IInv'
<1>1. TypeOK /\ SettlerIsSound(s) /\ \A r \in Settlers : SettlerIsSound(r)
  BY DEF IInv
<1>2. /\ settler' \in [Settlers -> Settlement]
      /\ settler'[s].step = "settle" /\ settler'[s].todo = Settleable /\ settler'[s].next \in Settleable
      /\ \A t \in Trades : settler'[s].done[t] = NoDay
      /\ \A r \in Settlers : r # s => settler'[r] = settler[r]
  BY <1>1, BeginFields, IdleType
<1>3. /\ UNCHANGED <<now, limitOn, result, trade, risk, tradeLock, dayLock, trader, hist, settledOn, toggled, faults>>
      /\ settler[s].step = "idle" /\ overlap' = (overlap \/ UnderWay # {})
      /\ tied' \in {tied, tied \union UnderWay \union {s}}
      /\ crowded' = (crowded \/ UnderWay \intersect tied # {})
  BY DEF BeginSettlement
<1>4. TypeOK'
  <2>1. tied' \subseteq Settlers
    BY <1>1, <1>3 DEF TypeOK, UnderWay
  <2>2. overlap' \in BOOLEAN /\ crowded' \in BOOLEAN
    BY <1>1, <1>3 DEF TypeOK
  <2> QED
    BY <1>1, <1>2, <1>3, <2>1, <2>2 DEF TypeOK
<1>5. ASSUME NEW r \in Settlers, r # s PROVE SettlerIsSound(r)'
  BY <1>1, <1>2, <1>3, <1>5, OthersStaySound
<1>6. SettlerIsSound(s)'
  <2>1. settler[s] = Idle
    BY <1>1, <1>3 DEF SettlerIsSound, ListIsSound
  <2>2. ListIsSound(s)'
    BY <1>2 DEF ListIsSound
  <2>3. LocksAreDone(s)'
    <3>1. \A t \in Trades : tradeLock[t] # s
      BY <1>1, <2>1, IdleType DEF SettlerIsSound, LocksAreDone
    <3> QED
      BY <1>2, <1>3, <3>1 DEF LocksAreDone
  <2>4. DoneIsSettled(s)'
    BY <1>2, <1>3 DEF DoneIsSettled, Settleable
  <2>5. RowsAreLocked(s)'
    <3>1. \A d \in DaySet : dayLock[d] # s
      BY <1>1, <2>1, IdleType, Rows DEF SettlerIsSound, RowsAreLocked
    <3> QED
      BY <1>2, <1>3, <3>1, Rows DEF RowsAreLocked
  <2>6. WriteIsSound(s)'
    BY <1>2 DEF WriteIsSound
  <2> QED
    BY <2>2, <2>3, <2>4, <2>5, <2>6 DEF SettlerIsSound
<1>7. TraderIsSound' /\ TradesAreSound'
  BY <1>3, TraderStaysSound
<1> QED
  BY <1>4, <1>5, <1>6, <1>7 DEF IInv

LEMMA SettleInv ==
  ASSUME IInv, NEW s \in Settlers, SettleTrade(s)
  PROVE  IInv'
<1>1. TypeOK /\ SettlerIsSound(s) /\ \A r \in Settlers : SettlerIsSound(r)
  BY DEF IInv
<1> DEFINE n == settler[s].next
<1>2. n \in Trades /\ settler[s].todo # {} /\ settler[s].step = "settle" /\ tradeLock[n] \in {None, s}
  BY <1>1, NextTrade DEF SettleTrade
<1>3. /\ tradeLock' = [tradeLock EXCEPT ![n] = s]
      /\ UNCHANGED <<now, limitOn, result, trade, risk, dayLock, trader, history, toggled, faults>>
  BY DEF SettleTrade
<1>4. /\ settler' \in [Settlers -> Settlement]
      /\ settler'[s].step = "load" /\ settler'[s].todo = settler[s].todo /\ settler'[s].next = n
      /\ settler'[s].done = settler[s].done /\ settler'[s].draft = settler[s].draft
      /\ \A r \in Settlers : r # s => settler'[r] = settler[r]
  BY <1>1, SettleFields
<1> HIDE DEF n
<1>5. /\ \A t \in Trades : tradeLock'[t] = IF t = n THEN s ELSE tradeLock[t]
      /\ tradeLock' \in [Trades -> Settlers \union {None}]
  BY <1>1, <1>2, <1>3 DEF TypeOK
<1>6. TypeOK'
  BY <1>1, <1>3, <1>4, <1>5 DEF TypeOK, history
<1>7. ASSUME NEW r \in Settlers, r # s PROVE SettlerIsSound(r)'
  <2>1. \A t \in Trades : tradeLock'[t] = r <=> tradeLock[t] = r
    BY <1>2, <1>5, <1>7, SessionsAreDistinct
  <2> QED
    BY <1>1, <1>3, <1>4, <1>7, <2>1, OthersStaySound
<1>8. SettlerIsSound(s)'
  <2>2. ListIsSound(s)'
    BY <1>1, <1>2, <1>4 DEF ListIsSound, SettlerIsSound, n
  <2>3. LocksAreDone(s)'
    BY <1>1, <1>2, <1>4, <1>5 DEF SettlerIsSound, LocksAreDone
  <2>4. DoneIsSettled(s)'
    BY <1>1, <1>3, <1>4 DEF SettlerIsSound, DoneIsSettled
  <2>5. RowsAreLocked(s)'
    BY <1>1, <1>3, <1>4 DEF SettlerIsSound, RowsAreLocked
  <2>6. WriteIsSound(s)'
    BY <1>4 DEF WriteIsSound
  <2> QED
    BY <2>2, <2>3, <2>4, <2>5, <2>6 DEF SettlerIsSound
<1>9. TraderIsSound' /\ TradesAreSound'
  BY <1>3, TraderStaysSound DEF history
<1> QED
  BY <1>6, <1>7, <1>8, <1>9 DEF IInv

LEMMA LoadInv ==
  ASSUME IInv, NEW s \in Settlers, LoadDay(s)
  PROVE  IInv'
<1>1. TypeOK /\ SettlerIsSound(s) /\ \A r \in Settlers : SettlerIsSound(r)
  BY DEF IInv
<1> DEFINE n == settler[s].next
           seen == RowSeenBy(s, Today)
           new == AfterOutcome(Base(seen), result[n])
<1>2. n \in Trades /\ result[n] \in Outcomes /\ settler[s].todo # {} /\ settler[s].step = "load"
  <2>1. settler[s].step = "load" /\ settler[s].todo # {}
    BY <1>1 DEF LoadDay, SettlerIsSound, ListIsSound
  <2> QED
    BY <1>1, <2>1, NextTrade
<1>3. UNCHANGED <<now, limitOn, result, trade, risk, tradeLock, dayLock, trader, history, toggled, faults>>
  BY DEF LoadDay
<1>4. /\ settler' \in [Settlers -> Settlement]
      /\ settler'[s].step = "write" /\ settler'[s].day = Today
      /\ settler'[s].seen = seen /\ settler'[s].new = new
      /\ settler'[s].todo = settler[s].todo /\ settler'[s].next = n
      /\ settler'[s].done = settler[s].done /\ settler'[s].draft = settler[s].draft
      /\ \A r \in Settlers : r # s => settler'[r] = settler[r]
  BY <1>1, <1>2, LoadFields DEF Outcomes
<1>5. /\ seen \in Row \union {NoRow} /\ new \in Row
      /\ result[n] = "WON" => new.losses = 0
      /\ result[n] = "LOST" => new.losses = LossOf(seen) + 1
  <2>1. Today \in DaySet
    BY <1>1, TodayType DEF TypeOK
  <2>2. seen \in Row \union {NoRow}
    BY <1>1, <2>1, SeenType
  <2> QED
    BY <1>1, <1>2, <2>2, OutcomeType
<1>6. seen = IF dayLock[Today] = s THEN settler[s].draft[Today] ELSE risk[Today]
  BY DEF RowSeenBy
<1> HIDE DEF n, seen, new
<1>7. TypeOK'
  BY <1>1, <1>3, <1>4 DEF TypeOK, history
<1>8. ASSUME NEW r \in Settlers, r # s PROVE SettlerIsSound(r)'
  BY <1>1, <1>3, <1>4, <1>8, OthersStaySound
<1>9. SettlerIsSound(s)'
  <2>2. ListIsSound(s)'
    BY <1>1, <1>2, <1>4 DEF ListIsSound, SettlerIsSound, n
  <2>3. LocksAreDone(s)'
    BY <1>1, <1>2, <1>3, <1>4 DEF SettlerIsSound, LocksAreDone, n
  <2>4. DoneIsSettled(s)'
    BY <1>1, <1>3, <1>4 DEF SettlerIsSound, DoneIsSettled
  <2>5. RowsAreLocked(s)'
    BY <1>1, <1>3, <1>4 DEF SettlerIsSound, RowsAreLocked
  <2>6. WriteIsSound(s)'
    <3>1. RowSeenBy(s, settler[s].day)' = seen
      BY <1>3, <1>4, <1>6 DEF RowSeenBy
    <3> QED
      BY <1>3, <1>4, <1>5, <3>1 DEF WriteIsSound
  <2> QED
    BY <2>2, <2>3, <2>4, <2>5, <2>6 DEF SettlerIsSound
<1>10. TraderIsSound' /\ TradesAreSound'
  BY <1>3, TraderStaysSound DEF history
<1> QED
  BY <1>7, <1>8, <1>9, <1>10 DEF IInv

\* Both branches of the write: the row is written, or a win leaves it alone.
Written(s, holder, row) ==
  LET d == settler[s].day IN
  \/ holder = s /\ row \in Row /\ dayLock[d] \in {None, s}
  \/ holder = dayLock[d] /\ row = settler[s].draft[d] /\ result[settler[s].next] = "WON"

LEMMA CountNothingWritten ==
  ASSUME IInv, NEW s \in Settlers, CountNothing(s)
  PROVE  LET d == settler[s].day IN
         /\ settler[s].step = "write" /\ d \in DaySet
         /\ Counted(s, dayLock[d], settler[s].draft[d])
         /\ Written(s, dayLock[d], settler[s].draft[d])
         /\ settler[s].new = settler[s].seen /\ settler[s].seen \in Row /\ settler[s].seen.losses = 0
         /\ result[settler[s].next] = "WON"
<1>1. TypeOK /\ SettlerIsSound(s)
  BY DEF IInv
<1> DEFINE w == settler[s]
<1>2. w.step = "write" /\ w.new = w.seen /\ Counted(s, dayLock[w.day], w.draft[w.day])
  BY DEF CountNothing
<1>3. w \in Settlement
  BY <1>1 DEF TypeOK
<1>4. w.todo # {} /\ w.new \in Row
  BY <1>1, <1>2 DEF SettlerIsSound, ListIsSound, WriteIsSound
<1>5. result[w.next] \in Outcomes
  BY <1>1, <1>4, NextTrade
<1>6. LossOf(w.seen) = w.seen.losses /\ w.seen.losses \in Nat
  BY <1>2, <1>4, Rows DEF LossOf, Row
<1>7. result[w.next] = "WON"
  <2> SUFFICES ASSUME result[w.next] = "LOST" PROVE FALSE
    BY <1>5 DEF Outcomes
  <2>1. w.new.losses = LossOf(w.seen) + 1
    BY <1>1, <1>2 DEF SettlerIsSound, WriteIsSound
  <2> QED
    BY <1>2, <1>6, <2>1
<1>8. w.new.losses = 0
  BY <1>1, <1>2, <1>7 DEF SettlerIsSound, WriteIsSound
<1>9. w.day \in DaySet
  BY <1>3 DEF Settlement
<1> QED
  BY <1>2, <1>4, <1>7, <1>8, <1>9 DEF Written

\* The losses of the row a session writes are those it computed.
RowWritten(s) ==
  LET w == settler[s] IN
  IF w.seen = NoRow THEN w.new ELSE Update(RowSeenBy(s, w.day), w.seen, w.new)

LEMMA CountOutcomeWritten ==
  ASSUME IInv, NEW s \in Settlers, CountOutcome(s)
  PROVE  LET d == settler[s].day IN
         /\ settler[s].step = "write" /\ d \in DaySet
         /\ Counted(s, s, RowWritten(s)) /\ RowWritten(s) \in Row
         /\ Written(s, s, RowWritten(s))
         /\ settler[s].new \in Row
         /\ result[settler[s].next] = "LOST" =>
              RowWritten(s).losses = settler[s].new.losses /\ settler[s].new.losses = LossOf(settler[s].seen) + 1
         /\ result[settler[s].next] = "WON" => settler[s].new.losses = 0
<1>1. TypeOK /\ SettlerIsSound(s)
  BY DEF IInv
<1> DEFINE w == settler[s]
           current == RowSeenBy(s, w.day)
<1>2. /\ w.step = "write" /\ w.new # w.seen /\ dayLock[w.day] \in {None, s}
      /\ Counted(s, s, RowWritten(s))
  BY DEF CountOutcome, RowWritten
<1>3. w \in Settlement
  BY <1>1 DEF TypeOK
<1>4. w.day \in DaySet /\ w.seen \in Row \union {NoRow}
  BY <1>3 DEF Settlement
<1>5. /\ w.new \in Row
      /\ w.seen # NoRow => current # NoRow
      /\ result[w.next] = "LOST" => w.new.losses = LossOf(w.seen) + 1
      /\ result[w.next] = "WON" => w.new.losses = 0
  BY <1>1, <1>2 DEF SettlerIsSound, WriteIsSound
<1>6. current \in Row \union {NoRow}
  BY <1>1, <1>4, SeenType
<1> HIDE DEF w, current
<1>7. CASE w.seen = NoRow
  <2>1. RowWritten(s) = w.new
    BY <1>7 DEF RowWritten, w
  <2> QED
    BY <1>2, <1>4, <1>5, <2>1 DEF w, Written
<1>8. CASE w.seen # NoRow
  <2>1. RowWritten(s) = Update(current, w.seen, w.new)
    BY <1>8 DEF RowWritten, w, current
  <2>2. current \in Row /\ w.seen \in Row
    BY <1>4, <1>5, <1>6, <1>8
  <2>3. Update(current, w.seen, w.new) \in Row
    BY <1>5, <2>2 DEF Update, Row
  <2>4. result[w.next] = "LOST" => Update(current, w.seen, w.new).losses = w.new.losses
    <3>1. LossOf(w.seen) = w.seen.losses /\ w.seen.losses \in Nat
      BY <1>8, <2>2 DEF LossOf, Row
    <3> QED
      BY <1>5, <3>1 DEF Update
  <2> QED
    BY <1>2, <1>4, <1>5, <2>1, <2>3, <2>4 DEF w, Written
<1> QED
  BY <1>7, <1>8

LEMMA CountInv ==
  ASSUME IInv, NEW s \in Settlers, NEW holder, NEW row, settler[s].step = "write",
         Written(s, holder, row), Counted(s, holder, row)
  PROVE  IInv'
<1>1. TypeOK /\ SettlerIsSound(s) /\ \A r \in Settlers : SettlerIsSound(r)
  BY DEF IInv
<1> DEFINE w == settler[s]
           n == w.next
           d == w.day
<1>2. w.todo # {}
  BY <1>1 DEF SettlerIsSound, ListIsSound
<1>3. n \in w.todo /\ n \in Trades /\ result[n] \in Outcomes /\ w.done[n] = NoDay
  BY <1>1, <1>2, NextTrade
<1>4. w \in Settlement
  BY <1>1 DEF TypeOK
<1>5. d \in DaySet /\ w.draft[d] \in Row \union {NoRow} /\ w.draft \in [DaySet -> Row \union {NoRow}]
      /\ w.done \in [Trades -> DaySet \union {NoDay}]
  BY <1>4 DEF Settlement
<1>6. row \in Row \union {NoRow} /\ holder \in {s, dayLock[d]}
  BY <1>5 DEF Written
<1>7. /\ settler' \in [Settlers -> Settlement]
      /\ settler'[s].step = "settle" /\ settler'[s].todo = w.todo \ {n}
      /\ settler'[s].todo # {} => settler'[s].next \in settler'[s].todo
      /\ settler'[s].draft = [w.draft EXCEPT ![d] = row]
      /\ settler'[s].done = [w.done EXCEPT ![n] = d]
      /\ \A r \in Settlers : r # s => settler'[r] = settler[r]
  BY <1>1, <1>3, <1>6, CountedFields DEF Outcomes
<1>8. /\ dayLock' = [dayLock EXCEPT ![d] = holder]
      /\ UNCHANGED <<now, limitOn, result, trade, risk, tradeLock, trader, history, toggled, faults>>
  BY DEF Counted
<1>9. /\ \A e \in DaySet : dayLock'[e] = IF e = d THEN holder ELSE dayLock[e]
      /\ dayLock' \in [DaySet -> Settlers \union {Trader, None}]
  BY <1>1, <1>5, <1>6, <1>8 DEF TypeOK
<1>10. \/ holder = s /\ row \in Row /\ dayLock[d] \in {None, s}
       \/ holder = dayLock[d] /\ row = w.draft[d] /\ result[n] = "WON"
  BY DEF Written
<1>11. w.step = "write"
  OBVIOUS
<1> HIDE DEF w, n, d
<1>12. TypeOK'
  BY <1>1, <1>7, <1>8, <1>9 DEF TypeOK, history
<1>13. \A e \in DaySet, r \in Settlers \union {Trader} : r # s => (dayLock'[e] = r <=> dayLock[e] = r)
  BY <1>9, <1>10, SessionsAreDistinct
<1>14. ASSUME NEW r \in Settlers, r # s PROVE SettlerIsSound(r)'
  BY <1>1, <1>7, <1>8, <1>13, <1>14, OthersStaySound
<1>15. SettlerIsSound(s)'
  <2>1. \A t \in Trades : settler'[s].done[t] = IF t = n THEN d ELSE w.done[t]
    BY <1>3, <1>5, <1>7
  <2>2. ListIsSound(s)'
    BY <1>7 DEF ListIsSound
  <2>3. LocksAreDone(s)'
    <3>1. \A t \in Trades : tradeLock[t] = s <=> w.done[t] # NoDay \/ n = t
      BY <1>1, <1>11 DEF SettlerIsSound, LocksAreDone, w, n
    <3> QED
      BY <1>5, <1>7, <1>8, <2>1, <3>1, Rows DEF LocksAreDone
  <2>4. DoneIsSettled(s)'
    <3>1. \A t \in Trades : /\ w.done[t] # NoDay => t \notin w.todo
                            /\ w.done[t] # NoDay \/ t \in w.todo => result[t] # "OPEN"
      BY <1>1 DEF SettlerIsSound, DoneIsSettled, w
    <3> QED
      BY <1>3, <1>7, <1>8, <2>1, <3>1 DEF DoneIsSettled
  <2>5. RowsAreLocked(s)'
    <3>1. \A e \in DaySet :
            /\ dayLock[e] = s => w.draft[e] \in Row /\ \E t \in Trades : w.done[t] = e
            /\ \A t \in Trades : w.done[t] = e /\ result[t] = "LOST" => dayLock[e] = s
      BY <1>1 DEF SettlerIsSound, RowsAreLocked, w
    <3>2. \A e \in DaySet : settler'[s].draft[e] = IF e = d THEN row ELSE w.draft[e]
      BY <1>5, <1>7
    <3> SUFFICES ASSUME NEW e \in DaySet
                 PROVE  /\ dayLock'[e] = s => settler'[s].draft[e] \in Row /\ \E t \in Trades : settler'[s].done[t] = e
                        /\ \A t \in Trades : settler'[s].done[t] = e /\ result'[t] = "LOST" => dayLock'[e] = s
      BY DEF RowsAreLocked
    <3>3. dayLock'[e] = s => settler'[s].draft[e] \in Row
      BY <1>9, <1>10, <3>1, <3>2
    <3>4. dayLock'[e] = s => \E t \in Trades : settler'[s].done[t] = e
      <4>1. CASE e = d
        BY <1>3, <2>1, <4>1
      <4>2. CASE e # d
        BY <1>3, <1>9, <2>1, <3>1, <4>2, Rows
      <4> QED
        BY <4>1, <4>2
    <3>5. ASSUME NEW t \in Trades, settler'[s].done[t] = e, result'[t] = "LOST" PROVE dayLock'[e] = s
      <4>1. CASE t = n
        BY <1>8, <1>9, <1>10, <2>1, <3>5, <4>1
      <4>2. CASE t # n
        BY <1>8, <1>9, <1>10, <2>1, <3>1, <3>5, <4>2
      <4> QED
        BY <4>1, <4>2
    <3> QED
      BY <3>3, <3>4, <3>5
  <2>6. WriteIsSound(s)'
    BY <1>7 DEF WriteIsSound
  <2> QED
    BY <2>2, <2>3, <2>4, <2>5, <2>6 DEF SettlerIsSound
<1>16. TraderIsSound' /\ TradesAreSound'
  BY <1>8, <1>13, TraderStaysSound, SessionsAreDistinct DEF history
<1> QED
  BY <1>12, <1>14, <1>15, <1>16 DEF IInv

LEMMA IdleIsSound ==
  ASSUME TypeOK, NEW s \in Settlers, settler'[s] = Idle,
         \A t \in Trades : tradeLock'[t] # s, \A d \in DaySet : dayLock'[d] # s
  PROVE  SettlerIsSound(s)'
<1>1. ListIsSound(s)'
  BY IdleType DEF ListIsSound
<1>2. LocksAreDone(s)'
  BY IdleType DEF LocksAreDone
<1>3. DoneIsSettled(s)'
  BY IdleType DEF DoneIsSettled
<1>4. RowsAreLocked(s)'
  BY IdleType, Rows DEF RowsAreLocked
<1>5. WriteIsSound(s)'
  BY IdleType DEF WriteIsSound
<1> QED
  BY <1>1, <1>2, <1>3, <1>4, <1>5 DEF SettlerIsSound

LEMMA AbandonInv ==
  ASSUME IInv, NEW s \in Settlers, Abandon(s), faults' \in 0..MaxFaults
  PROVE  IInv'
<1>1. TypeOK /\ \A r \in Settlers : SettlerIsSound(r)
  BY DEF IInv
<1>2. /\ tradeLock' \in [Trades -> Settlers \union {None}]
      /\ dayLock' \in [DaySet -> Settlers \union {Trader, None}]
      /\ \A t \in Trades, r \in Settlers \union {Trader} : tradeLock'[t] = r <=> tradeLock[t] = r /\ r # s
      /\ \A d \in DaySet, r \in Settlers \union {Trader} : dayLock'[d] = r <=> dayLock[d] = r /\ r # s
  <2>1. tradeLock' = Released(tradeLock, s) /\ dayLock' = Released(dayLock, s)
    BY DEF Abandon
  <2> QED
    BY <1>1, <2>1, ReleasedLocks
<1>3. settler' = [settler EXCEPT ![s] = Idle] /\ tied' = tied \ {s}
      /\ UNCHANGED <<now, limitOn, result, trade, risk, trader, hist, settledOn, overlap, crowded, toggled>>
  BY DEF Abandon
<1>4. settler' \in [Settlers -> Settlement] /\ settler'[s] = Idle
      /\ \A r \in Settlers : r # s => settler'[r] = settler[r]
  BY <1>1, <1>3, IdleType DEF TypeOK
<1>5. TypeOK'
  BY <1>1, <1>2, <1>3, <1>4 DEF TypeOK
<1>6. ASSUME NEW r \in Settlers, r # s PROVE SettlerIsSound(r)'
  BY <1>1, <1>2, <1>3, <1>4, <1>6, OthersStaySound
<1>7. SettlerIsSound(s)'
  BY <1>1, <1>2, <1>4, IdleIsSound
<1>8. TraderIsSound' /\ TradesAreSound'
  BY <1>2, <1>3, TraderStaysSound
<1> QED
  BY <1>5, <1>6, <1>7, <1>8 DEF IInv

LEMMA CommitInv ==
  ASSUME IInv, NEW s \in Settlers, CommitSettlement(s)
  PROVE  IInv'
<1>1. TypeOK /\ SettlerIsSound(s) /\ \A r \in Settlers : SettlerIsSound(r)
  BY DEF IInv
<1>2. /\ tradeLock' \in [Trades -> Settlers \union {None}]
      /\ dayLock' \in [DaySet -> Settlers \union {Trader, None}]
      /\ \A t \in Trades, r \in Settlers \union {Trader} : tradeLock'[t] = r <=> tradeLock[t] = r /\ r # s
      /\ \A d \in DaySet, r \in Settlers \union {Trader} : dayLock'[d] = r <=> dayLock[d] = r /\ r # s
  <2>1. tradeLock' = Released(tradeLock, s) /\ dayLock' = Released(dayLock, s)
    BY DEF CommitSettlement
  <2> QED
    BY <1>1, <2>1, ReleasedLocks
<1>3. /\ settler[s].step = "settle"
      /\ settler' = [settler EXCEPT ![s] = Idle] /\ tied' = tied \ {s}
      /\ trade' = [t \in Trades |-> IF tradeLock[t] = s THEN [trade[t] EXCEPT !.status = result[t]] ELSE trade[t]]
      /\ risk' = [d \in DaySet |-> IF dayLock[d] = s THEN settler[s].draft[d] ELSE risk[d]]
      /\ hist' = [d \in DaySet |-> hist[d] \o settler[s].told[d]]
      /\ settledOn' = [t \in Trades |-> IF settledOn[t] = NoDay THEN settler[s].done[t] ELSE settledOn[t]]
      /\ UNCHANGED <<now, limitOn, result, trader, overlap, crowded, toggled, faults>>
  BY DEF CommitSettlement
<1>4. settler' \in [Settlers -> Settlement] /\ settler'[s] = Idle
      /\ \A r \in Settlers : r # s => settler'[r] = settler[r]
  BY <1>1, <1>3, IdleType DEF TypeOK
<1>5. settler[s] \in Settlement
  BY <1>1 DEF TypeOK
<1>6. \A t \in Trades : /\ tradeLock[t] = s <=> settler[s].done[t] # NoDay
                        /\ tradeLock[t] = s => result[t] \in Outcomes
  <2>1. \A t \in Trades : tradeLock[t] = s <=> settler[s].done[t] # NoDay
    BY <1>1, <1>3 DEF SettlerIsSound, LocksAreDone
  <2>2. \A t \in Trades : settler[s].done[t] # NoDay => result[t] # "OPEN"
    BY <1>1 DEF SettlerIsSound, DoneIsSettled
  <2> QED
    BY <1>1, <2>1, <2>2 DEF TypeOK
<1>7. \A d \in DaySet : dayLock[d] = s => settler[s].draft[d] \in Row
  BY <1>1 DEF SettlerIsSound, RowsAreLocked
<1>8. TypeOK'
  <2>1. risk' \in [DaySet -> Row \union {NoRow}]
    BY <1>1, <1>3, <1>7 DEF TypeOK
  <2>2. settledOn' \in [Trades -> DaySet \union {NoDay}]
    BY <1>1, <1>3, <1>5 DEF TypeOK, Settlement
  <2>3. hist' \in [DaySet -> Seq(Outcomes)]
    BY <1>1, <1>3, <1>5 DEF TypeOK, Settlement
  <2>4. trade' \in [Trades -> [status : Outcomes \union {"NONE", "OPEN"}, at : 0..(Horizon - 1)]]
    BY <1>1, <1>3, <1>6, ZenonT(40) DEF TypeOK
  <2> QED
    BY <1>1, <1>2, <1>3, <1>4, <2>1, <2>2, <2>3, <2>4 DEF TypeOK
<1>9. ASSUME NEW r \in Settlers, r # s PROVE SettlerIsSound(r)'
  <2>1. \A d \in DaySet : risk'[d] = NoRow => risk[d] = NoRow
    BY <1>3, <1>7, Rows
  <2> QED
    BY <1>1, <1>2, <1>3, <1>4, <1>9, <2>1, OthersStaySound
<1>10. SettlerIsSound(s)'
  BY <1>1, <1>2, <1>4, IdleIsSound
<1>11. TraderIsSound'
  <2>1. \A d \in DaySet : dayLock'[d] = Trader => dayLock[d] = Trader /\ risk'[d] = risk[d]
    BY <1>2, <1>3, SessionsAreDistinct
  <2> QED
    BY <1>3, <2>1 DEF IInv, TraderIsSound, LossOf
<1>12. TradesAreSound'
  <2>1. \A t \in Trades :
          /\ tradeLock[t] = s => trade'[t].status = result[t] /\ settledOn'[t] # NoDay
          /\ tradeLock[t] # s => trade'[t] = trade[t] /\ settledOn'[t] = settledOn[t]
    <3>1. \A t \in Trades : trade[t] \in [status : Outcomes \union {"NONE", "OPEN"}, at : 0..(Horizon - 1)]
      BY <1>1 DEF TypeOK
    <3> QED
      BY <1>3, <1>6, <3>1
  <2> SUFFICES ASSUME NEW t \in Trades
               PROVE /\ trade'[t].status \in Outcomes <=> settledOn'[t] # NoDay
                     /\ trade'[t].status \in Outcomes => trade'[t].status = result[t]
                     /\ trade'[t].status = "NONE" => result[t] = "OPEN"
                     /\ t \in trader.placed \/ t = trader.cleared => trade'[t].status = "NONE"
    BY <1>3 DEF TradesAreSound
  <2>2. CASE tradeLock[t] = s
    BY <1>6, <2>1, <2>2 DEF IInv, TradesAreSound, Outcomes
  <2>3. CASE tradeLock[t] # s
    BY <2>1, <2>3 DEF IInv, TradesAreSound
  <2> QED
    BY <2>2, <2>3
<1> QED
  BY <1>8, <1>9, <1>10, <1>11, <1>12 DEF IInv

\* A step of the trading session leaves those that settle alone.
LEMMA SettlersStaySound ==
  ASSUME IInv, settler' = settler, result' = result, tradeLock' = tradeLock,
         \A r \in Settlers, d \in DaySet : dayLock'[d] = r <=> dayLock[d] = r,
         \A d \in DaySet : risk'[d] = NoRow => risk[d] = NoRow
  PROVE  \A r \in Settlers : SettlerIsSound(r)'
BY OthersStaySound DEF IInv

LEMMA StartInv ==
  ASSUME IInv, StartTrading
  PROVE  IInv'
<1>1. TypeOK
  BY DEF IInv
<1>2. /\ ~trader.active /\ (risk[Today] = NoRow => dayLock[Today] = None)
      /\ trader' = [Resting EXCEPT !.active = TRUE, !.limitOn = limitOn,
                      !.draft[Today] = IF risk[Today] = NoRow THEN FreshRow ELSE NoRow]
      /\ dayLock' = IF risk[Today] = NoRow THEN [dayLock EXCEPT ![Today] = Trader] ELSE dayLock
      /\ UNCHANGED <<now, limitOn, result, trade, risk, tradeLock, settler, history, toggled, faults>>
  BY DEF StartTrading
<1>3. Today \in DaySet
  BY <1>1, TodayType DEF TypeOK
<1>4. \A d \in DaySet : dayLock[d] # Trader
  BY <1>2 DEF IInv, TraderIsSound
<1>5. /\ trader'.active /\ trader'.placed = {} /\ trader'.cleared = None
      /\ trader'.draft[Today] = IF risk[Today] = NoRow THEN FreshRow ELSE NoRow
      /\ trader' \in Trading
  <2>1. Resting.draft \in [DaySet -> Row \union {NoRow}]
    BY DEF Resting
  <2>2. [Resting.draft EXCEPT ![Today] = IF risk[Today] = NoRow THEN FreshRow ELSE NoRow]
          \in [DaySet -> Row \union {NoRow}]
    BY <2>1, Rows
  <2> QED
    BY <1>1, <1>2, <1>3, <2>1, <2>2 DEF Resting, Trading, TypeOK
<1>6. \A d \in DaySet : dayLock'[d] = IF d = Today /\ risk[Today] = NoRow THEN Trader ELSE dayLock[d]
  BY <1>1, <1>2, <1>3 DEF TypeOK
<1>7. dayLock' \in [DaySet -> Settlers \union {Trader, None}]
  BY <1>1, <1>2, <1>3 DEF TypeOK
<1>8. TypeOK'
  BY <1>1, <1>2, <1>5, <1>7 DEF TypeOK, history
<1>9. \A r \in Settlers : SettlerIsSound(r)'
  <2>1. \A r \in Settlers, d \in DaySet : dayLock'[d] = r <=> dayLock[d] = r
    BY <1>2, <1>6, SessionsAreDistinct
  <2> QED
    BY <1>2, <2>1, SettlersStaySound
<1>10. TraderIsSound'
  BY <1>2, <1>4, <1>5, <1>6, Rows DEF TraderIsSound, LossOf, FreshRow
<1>11. TradesAreSound'
  BY <1>2, <1>5, SessionsAreDistinct DEF IInv, TradesAreSound, history
<1> QED
  BY <1>8, <1>9, <1>10, <1>11 DEF IInv

LEMMA ClearInv ==
  ASSUME IInv, ClearStaleCooldown
  PROVE  IInv'
<1>1. TypeOK
  BY DEF IInv
<1> DEFINE row == [TodaysRow EXCEPT !.until = 0]
<1>2. /\ trader.active /\ TodaysRow # NoRow /\ dayLock[Today] \in {None, Trader}
      /\ dayLock' = [dayLock EXCEPT ![Today] = Trader]
      /\ trader' = [trader EXCEPT !.draft[Today] = row]
      /\ UNCHANGED <<now, limitOn, result, trade, risk, tradeLock, settler, history, toggled, faults>>
  BY DEF ClearStaleCooldown, Running
<1>3. Today \in DaySet
  BY <1>1, TodayType DEF TypeOK
<1>4. TodaysRow \in Row /\ TodaysRow.losses = LossOf(risk[Today])
  <2>1. trader.draft[Today] \in Row \union {NoRow} /\ risk[Today] \in Row \union {NoRow}
    BY <1>1, <1>3 DEF TypeOK, Trading
  <2>2. CASE dayLock[Today] = Trader
    BY <1>3, <2>2 DEF IInv, TraderIsSound, TodaysRow
  <2>3. CASE dayLock[Today] # Trader
    BY <1>2, <2>1, <2>3 DEF TodaysRow, LossOf
  <2> QED
    BY <2>2, <2>3
<1>5. row \in Row /\ row.losses = LossOf(risk[Today])
  <2>1. 0 \in Cooldown
    BY LimitsArePositive, DayOf DEF Cooldown, Horizon
  <2> QED
    BY <1>4, <2>1 DEF Row
<1> HIDE DEF row
<1>6. /\ trader' \in Trading /\ trader'.active
      /\ trader'.placed = trader.placed /\ trader'.cleared = trader.cleared
      /\ \A d \in DaySet : trader'.draft[d] = IF d = Today THEN row ELSE trader.draft[d]
  <2>1. trader \in Trading
    BY <1>1 DEF TypeOK
  <2>2. [trader.draft EXCEPT ![Today] = row] \in [DaySet -> Row \union {NoRow}]
    BY <1>3, <1>5, <2>1 DEF Trading
  <2> QED
    BY <1>2, <1>3, <1>5, <2>1, <2>2 DEF Trading
<1>7. /\ dayLock' \in [DaySet -> Settlers \union {Trader, None}]
      /\ \A d \in DaySet : dayLock'[d] = IF d = Today THEN Trader ELSE dayLock[d]
  BY <1>1, <1>2, <1>3 DEF TypeOK
<1>8. TypeOK'
  BY <1>1, <1>2, <1>6, <1>7 DEF TypeOK, history
<1>9. \A r \in Settlers : SettlerIsSound(r)'
  <2>1. \A r \in Settlers, d \in DaySet : dayLock'[d] = r <=> dayLock[d] = r
    BY <1>2, <1>7, SessionsAreDistinct
  <2> QED
    BY <1>2, <2>1, SettlersStaySound
<1>10. TraderIsSound'
  BY <1>2, <1>5, <1>6, <1>7 DEF IInv, TraderIsSound, LossOf
<1>11. TradesAreSound'
  BY <1>2, <1>6 DEF IInv, TradesAreSound, history
<1> QED
  BY <1>8, <1>9, <1>10, <1>11 DEF IInv

\* The steps between: no row and no lock changes.
LEMMA TradingInv ==
  ASSUME IInv, trader'.draft = trader.draft, trader'.active = trader.active, trader' \in Trading,
         UNCHANGED <<now, limitOn, result, risk, tradeLock, dayLock, settler, history, toggled, faults>>,
         trade' \in [Trades -> [status : Outcomes \union {"NONE", "OPEN"}, at : 0..(Horizon - 1)]],
         \A t \in Trades : trade'[t].status = trade[t].status,
         \A t \in Trades : t \in trader'.placed \/ t = trader'.cleared => trade[t].status = "NONE"
  PROVE  IInv'
<1>1. TypeOK'
  BY DEF IInv, TypeOK, history
<1>2. \A r \in Settlers : SettlerIsSound(r)'
  BY SettlersStaySound
<1>3. TraderIsSound'
  BY DEF IInv, TraderIsSound, LossOf
<1>4. TradesAreSound'
  BY DEF IInv, TradesAreSound, history
<1> QED
  BY <1>1, <1>2, <1>3, <1>4 DEF IInv

LEMMA CheckInv ==
  ASSUME IInv, NEW t \in Trades, CheckTrade(t)
  PROVE  IInv'
<1>1. TypeOK /\ TradesAreSound
  BY DEF IInv
<1>2. /\ trade[t].status = "NONE" /\ trader' = [trader EXCEPT !.cleared = t]
      /\ UNCHANGED <<now, limitOn, result, trade, risk, tradeLock, dayLock, settler, history, toggled, faults>>
  BY DEF CheckTrade
<1>3. trader' \in Trading /\ trader'.cleared = t /\ trader'.placed = trader.placed
      /\ trader'.draft = trader.draft /\ trader'.active = trader.active
  BY <1>1, <1>2 DEF TypeOK, Trading
<1> QED
  BY <1>1, <1>2, <1>3, TradingInv DEF TradesAreSound, TypeOK

LEMMA PlaceInv ==
  ASSUME IInv, PlaceTrade
  PROVE  IInv'
<1>1. TypeOK /\ TradesAreSound
  BY DEF IInv
<1> DEFINE t == trader.cleared
<1>2. /\ t # None
      /\ trader' = [trader EXCEPT !.placed = @ \union {trader.cleared}, !.cleared = None]
      /\ trade' = [trade EXCEPT ![t].at = now]
      /\ UNCHANGED <<now, limitOn, result, risk, tradeLock, dayLock, settler, history, toggled, faults>>
  BY DEF PlaceTrade
<1>3. t \in Trades /\ trader \in Trading
  BY <1>1, <1>2 DEF TypeOK, Trading
<1>4. trader' \in Trading /\ trader'.cleared = None /\ trader'.placed = trader.placed \union {t}
      /\ trader'.draft = trader.draft /\ trader'.active = trader.active
  BY <1>2, <1>3 DEF Trading
<1> HIDE DEF t
<1>5. /\ trade' \in [Trades -> [status : Outcomes \union {"NONE", "OPEN"}, at : 0..(Horizon - 1)]]
      /\ \A x \in Trades : trade'[x].status = trade[x].status
  BY <1>1, <1>2, <1>3 DEF TypeOK
<1>6. \A x \in Trades : x \in trader'.placed \/ x = trader'.cleared => trade[x].status = "NONE"
  BY <1>1, <1>4, SessionsAreDistinct DEF TradesAreSound, t
<1> QED
  BY <1>2, <1>4, <1>5, <1>6, TradingInv

LEMMA SkipInv ==
  ASSUME IInv, SkipTrade
  PROVE  IInv'
<1>1. TypeOK /\ TradesAreSound
  BY DEF IInv
<1>2. /\ trader' = [trader EXCEPT !.cleared = None]
      /\ UNCHANGED <<now, limitOn, result, trade, risk, tradeLock, dayLock, settler, history, toggled, faults>>
  BY DEF SkipTrade
<1>3. trader' \in Trading /\ trader'.cleared = None /\ trader'.placed = trader.placed
      /\ trader'.draft = trader.draft /\ trader'.active = trader.active
  BY <1>1, <1>2 DEF TypeOK, Trading
<1> QED
  BY <1>1, <1>2, <1>3, TradingInv, SessionsAreDistinct DEF TradesAreSound, TypeOK

LEMMA EndFields ==
  ASSUME IInv, NEW commit \in BOOLEAN, EndTrading(commit)
  PROVE  /\ trader' = Resting
         /\ \A d \in DaySet, r \in Settlers \union {Trader} : dayLock'[d] = r <=> dayLock[d] = r /\ r # Trader
         /\ dayLock' \in [DaySet -> Settlers \union {Trader, None}]
         /\ risk' \in [DaySet -> Row \union {NoRow}]
         /\ \A d \in DaySet : risk'[d] = risk[d] \/ (dayLock[d] = Trader /\ risk'[d] = trader.draft[d])
         /\ \A d \in DaySet : risk'[d] = NoRow => risk[d] = NoRow
         /\ \A d \in DaySet : LossOf(risk'[d]) = LossOf(risk[d])
<1>1. TypeOK /\ TraderIsSound
  BY DEF IInv
<1>2. /\ trader' = Resting /\ dayLock' = Released(dayLock, Trader)
      /\ risk' = [d \in DaySet |-> IF commit /\ dayLock[d] = Trader THEN trader.draft[d] ELSE risk[d]]
  BY DEF EndTrading
<1>3. /\ dayLock' \in [DaySet -> Settlers \union {Trader, None}]
      /\ \A d \in DaySet, r \in Settlers \union {Trader} : dayLock'[d] = r <=> dayLock[d] = r /\ r # Trader
  <2>1. /\ Released(dayLock, Trader) \in [DaySet -> Settlers \union {Trader, None}]
        /\ \A d \in DaySet, r \in Settlers \union {Trader} :
             Released(dayLock, Trader)[d] = r <=> dayLock[d] = r /\ r # Trader
    BY <1>1, SessionsAreDistinct DEF TypeOK, Released
  <2> QED
    BY <1>2, <2>1
<1>4. \A d \in DaySet : dayLock[d] = Trader =>
        trader.draft[d] \in Row /\ LossOf(trader.draft[d]) = LossOf(risk[d])
  BY <1>1, Rows DEF TraderIsSound, LossOf
<1>5. \A d \in DaySet : risk[d] \in Row \union {NoRow}
  BY <1>1 DEF TypeOK
<1>6. \A d \in DaySet : risk'[d] = risk[d] \/ (dayLock[d] = Trader /\ risk'[d] = trader.draft[d])
  BY <1>2
<1>7. risk' \in [DaySet -> Row \union {NoRow}]
  BY <1>2, <1>4, <1>5
<1>8. \A d \in DaySet : (risk'[d] = NoRow => risk[d] = NoRow) /\ LossOf(risk'[d]) = LossOf(risk[d])
  BY <1>4, <1>6, Rows
<1> QED
  BY <1>2, <1>3, <1>6, <1>7, <1>8

LEMMA EndInv ==
  ASSUME IInv, NEW commit \in BOOLEAN, EndTrading(commit), faults' \in 0..MaxFaults
  PROVE  IInv'
<1>1. TypeOK /\ TradesAreSound
  BY DEF IInv
<1>2. /\ trade' = [t \in Trades |-> IF commit /\ t \in trader.placed
                                    THEN [trade[t] EXCEPT !.status = "OPEN"] ELSE trade[t]]
      /\ UNCHANGED <<now, limitOn, result, tradeLock, settler, history, toggled>>
  BY DEF EndTrading
<1>3. Resting \in Trading /\ Resting.placed = {} /\ Resting.cleared = None
  BY RestingType DEF Resting
<1>4. /\ trade' \in [Trades -> [status : Outcomes \union {"NONE", "OPEN"}, at : 0..(Horizon - 1)]]
      /\ \A t \in Trades : \/ trade'[t].status = trade[t].status
                           \/ trade[t].status = "NONE" /\ trade'[t].status = "OPEN"
  <2>1. \A t \in Trades : trade[t] \in [status : Outcomes \union {"NONE", "OPEN"}, at : 0..(Horizon - 1)]
    BY <1>1 DEF TypeOK
  <2>2. \A t \in Trades : t \in trader.placed => trade[t].status = "NONE"
    BY <1>1 DEF TradesAreSound
  <2> QED
    BY <1>2, <2>1, <2>2
<1>5. TypeOK'
  BY <1>1, <1>2, <1>3, <1>4, EndFields DEF TypeOK, history
<1>6. \A r \in Settlers : SettlerIsSound(r)'
  <2>1. \A r \in Settlers, d \in DaySet : dayLock'[d] = r <=> dayLock[d] = r
    BY EndFields, SessionsAreDistinct
  <2> QED
    BY <1>2, <2>1, EndFields, SettlersStaySound
<1>7. TraderIsSound'
  BY EndFields DEF TraderIsSound
<1>8. TradesAreSound'
  BY <1>1, <1>2, <1>3, <1>4, EndFields, SessionsAreDistinct DEF TradesAreSound, history, Outcomes
<1> QED
  BY <1>5, <1>6, <1>7, <1>8 DEF IInv

LEMMA AnnounceInv ==
  ASSUME IInv, NEW t \in Trades, NEW o \in Outcomes, Announce(t, o)
  PROVE  IInv'
<1>1. TypeOK /\ TradesAreSound /\ TraderIsSound /\ \A r \in Settlers : SettlerIsSound(r)
  BY DEF IInv
<1>2. /\ result[t] = "OPEN" /\ trade[t].status = "OPEN" /\ result' = [result EXCEPT ![t] = o]
      /\ UNCHANGED <<now, limitOn, trade, risk, tradeLock, dayLock, settler, trader, history, toggled, faults>>
  BY DEF Announce
<1>3. /\ result' \in [Trades -> Outcomes \union {"OPEN"}]
      /\ \A x \in Trades : x # t => result'[x] = result[x]
      /\ result'[t] # "OPEN"
  BY <1>1, <1>2 DEF TypeOK, Outcomes
<1>4. TypeOK'
  BY <1>1, <1>2, <1>3 DEF TypeOK, history
<1>5. ASSUME NEW r \in Settlers PROVE SettlerIsSound(r)'
  <2>1. SettlerIsSound(r) /\ settler[r].done[t] = NoDay /\ t \notin settler[r].todo
    BY <1>1, <1>2 DEF SettlerIsSound, DoneIsSettled
  <2>2. ListIsSound(r)' /\ LocksAreDone(r)'
    BY <1>2, <2>1 DEF SettlerIsSound, ListIsSound, LocksAreDone
  <2>3. DoneIsSettled(r)'
    BY <1>2, <1>3, <2>1 DEF SettlerIsSound, DoneIsSettled
  <2>4. RowsAreLocked(r)'
    BY <1>2, <1>3, <2>1, Rows DEF SettlerIsSound, RowsAreLocked
  <2>5. WriteIsSound(r)'
    <3>1. settler[r].step = "write" => settler[r].next \in Trades /\ settler[r].next # t
      BY <1>1, <2>1, NextTrade DEF SettlerIsSound, ListIsSound
    <3> QED
      BY <1>2, <1>3, <2>1, <3>1 DEF SettlerIsSound, WriteIsSound, RowSeenBy
  <2> QED
    BY <2>2, <2>3, <2>4, <2>5 DEF SettlerIsSound
<1>6. TraderIsSound'
  BY <1>1, <1>2 DEF TraderIsSound, LossOf
<1>7. TradesAreSound'
  BY <1>1, <1>2, <1>3 DEF TradesAreSound, history, Outcomes
<1> QED
  BY <1>4, <1>5, <1>6, <1>7 DEF IInv

LEMMA ClockInv ==
  ASSUME IInv, ToggleLimit \/ Tick
  PROVE  IInv'
<1>1. TypeOK
  BY DEF IInv
<1>2. UNCHANGED <<result, trade, risk, tradeLock, dayLock, settler, trader, hist, settledOn, overlap>>
  BY DEF ToggleLimit, Tick, history
<1>3. TypeOK'
  <2>1. now' \in 0..(Horizon - 1)
    <3>1. Horizon \in Int
      BY LimitsArePositive DEF Horizon
    <3> QED
      BY <1>1, <3>1 DEF ToggleLimit, Tick, TypeOK
  <2>2. tied' \subseteq Settlers /\ crowded' \in BOOLEAN
    BY <1>1 DEF ToggleLimit, Tick, TypeOK, history, UnderWay
  <2>3. limitOn' \in BOOLEAN /\ toggled' \in BOOLEAN
    BY <1>1 DEF ToggleLimit, Tick, TypeOK
  <2>4. faults' \in 0..MaxFaults
    BY <1>1, LimitsArePositive DEF ToggleLimit, Tick, TypeOK, Fault
  <2> QED
    BY <1>1, <1>2, <2>1, <2>2, <2>3, <2>4 DEF TypeOK
<1>4. \A r \in Settlers : SettlerIsSound(r)'
  BY <1>2, SettlersStaySound
<1>5. TraderIsSound' /\ TradesAreSound'
  BY <1>2, TraderStaysSound
<1> QED
  BY <1>3, <1>4, <1>5 DEF IInv

LEMMA FaultCounts ==
  ASSUME TypeOK, UNCHANGED faults \/ Fault
  PROVE  faults' \in 0..MaxFaults
BY LimitsArePositive DEF TypeOK, Fault

LEMMA InitInv ==
  ASSUME Init
  PROVE  IInv
<1>1. 0 \in 0..(Horizon - 1) /\ 0 \in 0..MaxFaults
  BY LimitsArePositive, DayOf DEF Horizon
<1>2. TypeOK
  <2>1. Resting \in Trading /\ Idle \in Settlement
    BY RestingType, IdleType
  <2>2. settler \in [Settlers -> Settlement] /\ trader \in Trading
    BY <2>1 DEF Init
  <2>3. trade \in [Trades -> [status : Outcomes \union {"NONE", "OPEN"}, at : 0..(Horizon - 1)]]
    BY <1>1 DEF Init
  <2>4. hist \in [DaySet -> Seq(Outcomes)] /\ settledOn \in [Trades -> DaySet \union {NoDay}]
    BY DEF Init
  <2>5. limitOn \in BOOLEAN /\ overlap \in BOOLEAN /\ crowded \in BOOLEAN /\ toggled \in BOOLEAN
    BY DEF Init
  <2>6. now \in 0..(Horizon - 1) /\ faults \in 0..MaxFaults /\ tied \subseteq Settlers
    BY <1>1 DEF Init
  <2>7. /\ tradeLock \in [Trades -> Settlers \union {None}]
        /\ dayLock \in [DaySet -> Settlers \union {Trader, None}]
        /\ risk \in [DaySet -> Row \union {NoRow}] /\ result \in [Trades -> Outcomes \union {"OPEN"}]
    BY DEF Init
  <2> QED
    BY <2>2, <2>3, <2>4, <2>5, <2>6, <2>7 DEF TypeOK
<1>3. ASSUME NEW s \in Settlers PROVE SettlerIsSound(s)
  <2>1. settler[s] = Idle /\ (\A t \in Trades : tradeLock[t] # s) /\ (\A d \in DaySet : dayLock[d] # s)
    BY SessionsAreDistinct DEF Init
  <2>2. ListIsSound(s)
    BY <2>1, IdleType DEF ListIsSound
  <2>3. LocksAreDone(s)
    BY <2>1, IdleType DEF LocksAreDone
  <2>4. DoneIsSettled(s)
    BY <2>1, IdleType DEF DoneIsSettled
  <2>5. RowsAreLocked(s)
    BY <2>1, IdleType, Rows DEF RowsAreLocked
  <2>6. WriteIsSound(s)
    BY <2>1, IdleType DEF WriteIsSound
  <2> QED
    BY <2>2, <2>3, <2>4, <2>5, <2>6 DEF SettlerIsSound
<1>4. TraderIsSound
  BY SessionsAreDistinct DEF Init, TraderIsSound
<1>5. TradesAreSound
  BY SessionsAreDistinct DEF Init, TradesAreSound, Resting, Outcomes
<1> QED
  BY <1>2, <1>3, <1>4, <1>5 DEF IInv

LEMMA NextInv ==
  ASSUME IInv, [Next]_vars
  PROVE  IInv'
<1>1. TypeOK
  BY DEF IInv
<1>2. ASSUME NEW s \in Settlers, SettlementStep(s) PROVE IInv'
  <2>1. ASSUME Abandon(s), UNCHANGED faults PROVE IInv'
    BY <1>1, <2>1, FaultCounts, AbandonInv
  <2> QED
    BY <1>2, <2>1, BeginInv, SettleInv, LoadInv, CountNothingWritten, CountOutcomeWritten, CountInv,
       CommitInv DEF SettlementStep, DuplicateDay, DeadlockVictim
<1>3. ASSUME NEW s \in Settlers, CrashSettlement(s) PROVE IInv'
  BY <1>1, <1>3, FaultCounts, AbandonInv DEF CrashSettlement
<1>4. ASSUME TradingStep PROVE IInv'
  <2>1. ASSUME CommitTrading \/ ReturnEarly PROVE IInv'
    BY <1>1, <2>1, FaultCounts, EndInv DEF CommitTrading, ReturnEarly
  <2> QED
    BY <1>4, <2>1, StartInv, ClearInv, PlaceInv, SkipInv DEF TradingStep
<1>5. ASSUME CrashTrading PROVE IInv'
  BY <1>1, <1>5, FaultCounts, EndInv DEF CrashTrading
<1>6. ASSUME UNCHANGED vars PROVE IInv'
  <2>1. UNCHANGED <<now, limitOn, result, trade, risk, tradeLock, dayLock, settler, trader, history, toggled, faults>>
    BY <1>6 DEF vars
  <2> QED
    BY <1>1, <2>1, TradingInv DEF IInv, TypeOK, TradesAreSound
<1> QED
  BY <1>2, <1>3, <1>4, <1>5, <1>6, CheckInv, AnnounceInv, ClockInv DEF Next

\* The types, and what IInv says of rows, locks and lists, hold in every reachable state, for
\* any number of trades, settling sessions and days.
THEOREM TypeCorrect == Spec => []TypeOK
<1>1. Init => IInv
  BY InitInv
<1>2. IInv /\ [Next]_vars => IInv'
  BY NextInv
<1>3. IInv => TypeOK
  BY DEF IInv
<1> QED
  BY <1>1, <1>2, <1>3, PTL DEF Spec

-----------------------------------------------------------------------------
(* StreakIsCounted.                                                        *)

IsStreak(seq, n) ==
  /\ n \in 0..Len(seq)
  /\ \A i \in (Len(seq) - n + 1)..Len(seq) : seq[i] = "LOST"
  /\ n < Len(seq) => seq[Len(seq) - n] = "WON"

Working(s) == settler[s].step # "idle"

\* What a session makes of a day's counter is the streak of what it will have told it.
CounterIsRight(s) ==
  /\ \A d \in DaySet : IsStreak(hist[d] \o settler[s].told[d], LossOf(RowSeenBy(s, d)))
  /\ settler[s].step = "write" =>
       LossOf(settler[s].seen) = LossOf(RowSeenBy(s, settler[s].day))

Alone == \A s, r \in Settlers : Working(s) /\ Working(r) => s = r

StreakInv ==
  ~overlap =>
    /\ Alone
    /\ \A d \in DaySet : IsStreak(hist[d], LossOf(risk[d]))
    /\ \A s \in Settlers : Working(s) => CounterIsRight(s)

LEMMA EmptyStreak == IsStreak(<<>>, 0)
BY DEF IsStreak

LEMMA LongerStreak ==
  ASSUME NEW seq \in Seq(Outcomes), NEW n \in Nat, IsStreak(seq, n)
  PROVE  IsStreak(Append(seq, "LOST"), n + 1) /\ IsStreak(Append(seq, "WON"), 0)
<1>1. /\ Len(seq) \in Nat /\ n \in 0..Len(seq)
      /\ \A i \in (Len(seq) - n + 1)..Len(seq) : seq[i] = "LOST"
      /\ n < Len(seq) => seq[Len(seq) - n] = "WON"
  BY DEF IsStreak
<1>2. ASSUME NEW o \in Outcomes
      PROVE  /\ Len(Append(seq, o)) = Len(seq) + 1 /\ Append(seq, o)[Len(seq) + 1] = o
             /\ \A i \in 1..Len(seq) : Append(seq, o)[i] = seq[i]
  OBVIOUS
<1>3. IsStreak(Append(seq, "LOST"), n + 1)
  <2> DEFINE more == Append(seq, "LOST")
  <2>1. /\ Len(more) = Len(seq) + 1 /\ more[Len(seq) + 1] = "LOST"
        /\ \A i \in 1..Len(seq) : more[i] = seq[i]
    BY <1>2 DEF Outcomes
  <2> HIDE DEF more
  <2> QED
    BY <1>1, <2>1 DEF IsStreak, more
<1>4. IsStreak(Append(seq, "WON"), 0)
  <2> DEFINE more == Append(seq, "WON")
  <2>1. Len(more) = Len(seq) + 1 /\ more[Len(seq) + 1] = "WON"
    BY <1>2 DEF Outcomes
  <2> HIDE DEF more
  <2> QED
    BY <1>1, <2>1 DEF IsStreak, more
<1> QED
  BY <1>3, <1>4

LEMMA StreakIs ==
  ASSUME NEW seq \in Seq(Outcomes), NEW n \in Nat, IsStreak(seq, n)
  PROVE  Streak(seq) = n
<1>1. ASSUME NEW k \in Nat, NEW m \in Nat, IsStreak(seq, k), IsStreak(seq, m), k < m PROVE FALSE
  BY <1>1 DEF IsStreak
<1>2. IsStreak(seq, Streak(seq)) /\ Streak(seq) \in 0..Len(seq)
  BY DEF IsStreak, Streak
<1> QED
  BY <1>1, <1>2

LEMMA ConcatAppend ==
  ASSUME NEW a \in Seq(Outcomes), NEW b \in Seq(Outcomes), NEW o \in Outcomes
  PROVE  a \o Append(b, o) = Append(a \o b, o) /\ a \o b \in Seq(Outcomes)
OBVIOUS

LEMMA ConcatNothing ==
  ASSUME NEW a \in Seq(Outcomes)
  PROVE  a \o <<>> = a
OBVIOUS

LEMMA StreakKept ==
  ASSUME StreakInv, TypeOK, settler' = settler, hist' = hist, overlap' = overlap,
         \A d \in DaySet : LossOf(risk'[d]) = LossOf(risk[d]),
         \A d \in DaySet, s \in Settlers : dayLock'[d] = s <=> dayLock[d] = s
  PROVE  StreakInv'
<1> SUFFICES ASSUME ~overlap
             PROVE  /\ Alone'
                    /\ \A d \in DaySet : IsStreak(hist[d], LossOf(risk'[d]))
                    /\ \A s \in Settlers : Working(s) => CounterIsRight(s)'
  BY DEF StreakInv, Working
<1>1. /\ Alone /\ \A d \in DaySet : IsStreak(hist[d], LossOf(risk[d]))
      /\ \A s \in Settlers : Working(s) => CounterIsRight(s)
  BY DEF StreakInv
<1>2. ASSUME NEW s \in Settlers, Working(s) PROVE CounterIsRight(s)'
  <2>1. \A d \in DaySet : LossOf(RowSeenBy(s, d))' = LossOf(RowSeenBy(s, d))
    BY DEF RowSeenBy, LossOf
  <2>2. settler[s].day \in DaySet
    BY DEF TypeOK, Settlement
  <2>3. settler[s].step = "write" => LossOf(RowSeenBy(s, settler[s].day))' = LossOf(RowSeenBy(s, settler[s].day))
    BY <2>2 DEF RowSeenBy, LossOf
  <2>4. CounterIsRight(s)
    BY <1>1, <1>2
  <2> QED
    BY <2>1, <2>3, <2>4 DEF CounterIsRight, LossOf
<1> QED
  BY <1>1, <1>2 DEF Alone, Working

LEMMA StreakAfterWork ==
  ASSUME NEW s \in Settlers, StreakInv, TypeOK, settler' \in [Settlers -> Settlement], Working(s),
         \A r \in Settlers : r # s => settler'[r] = settler[r],
         overlap' = overlap, hist' = hist, risk' = risk, ~overlap => CounterIsRight(s)'
  PROVE  StreakInv'
<1> SUFFICES ASSUME ~overlap
             PROVE  /\ Alone'
                    /\ \A d \in DaySet : IsStreak(hist[d], LossOf(risk[d]))
                    /\ \A r \in Settlers : Working(r)' => CounterIsRight(r)'
  BY DEF StreakInv, LossOf
<1>1. Alone /\ \A d \in DaySet : IsStreak(hist[d], LossOf(risk[d]))
  BY DEF StreakInv
<1>2. \A r \in Settlers : r # s => ~Working(r)'
  BY <1>1 DEF Alone, Working
<1> QED
  BY <1>1, <1>2 DEF Alone

LEMMA StreakBegin ==
  ASSUME IInv, StreakInv, NEW s \in Settlers, BeginSettlement(s)
  PROVE  StreakInv'
<1>1. TypeOK /\ SettlerIsSound(s)
  BY DEF IInv
<1>2. /\ settler'[s].step = "settle" /\ settler'[s].told = Idle.told
      /\ \A r \in Settlers : r # s => settler'[r] = settler[r]
  BY <1>1, BeginFields
<1>3. /\ UNCHANGED <<risk, dayLock, hist>> /\ settler[s].step = "idle"
      /\ overlap' = (overlap \/ UnderWay # {})
  BY DEF BeginSettlement
<1> SUFFICES ASSUME ~overlap, UnderWay = {}
             PROVE  /\ Alone'
                    /\ \A d \in DaySet : IsStreak(hist[d], LossOf(risk[d]))
                    /\ \A r \in Settlers : Working(r)' => CounterIsRight(r)'
  BY <1>3 DEF StreakInv, LossOf
<1>4. \A d \in DaySet : IsStreak(hist[d], LossOf(risk[d]))
  BY DEF StreakInv
<1>5. \A r \in Settlers : r # s => ~Working(r)'
  BY <1>2 DEF UnderWay, Working
<1>6. CounterIsRight(s)'
  <2>1. settler[s] = Idle
    BY <1>1, <1>3 DEF SettlerIsSound, ListIsSound
  <2>2. \A d \in DaySet : dayLock[d] # s
    BY <1>1, <2>1, IdleType, Rows DEF SettlerIsSound, RowsAreLocked
  <2>3. \A d \in DaySet : RowSeenBy(s, d)' = risk[d]
    BY <1>3, <2>2 DEF RowSeenBy
  <2>4. \A d \in DaySet : hist'[d] \o settler'[s].told[d] = hist[d]
    <3>1. \A d \in DaySet : hist[d] \in Seq(Outcomes) /\ settler'[s].told[d] = <<>>
      BY <1>1, <1>2, IdleType DEF TypeOK
    <3> QED
      BY <1>3, <3>1, ConcatNothing
  <2> QED
    BY <1>2, <1>4, <2>3, <2>4 DEF CounterIsRight, LossOf
<1> QED
  BY <1>4, <1>5, <1>6 DEF Alone

LEMMA StreakSettle ==
  ASSUME IInv, StreakInv, NEW s \in Settlers, SettleTrade(s)
  PROVE  StreakInv'
<1>1. TypeOK
  BY DEF IInv
<1>2. /\ settler' \in [Settlers -> Settlement] /\ settler'[s].step = "load"
      /\ settler'[s].told = settler[s].told /\ settler'[s].draft = settler[s].draft
      /\ \A r \in Settlers : r # s => settler'[r] = settler[r]
  BY <1>1, SettleFields
<1>3. UNCHANGED <<risk, dayLock, hist, overlap>> /\ Working(s)
  BY DEF SettleTrade, Working, history
<1>4. ASSUME ~overlap PROVE CounterIsRight(s)'
  BY <1>2, <1>3, <1>4 DEF StreakInv, CounterIsRight, RowSeenBy, LossOf
<1> QED
  BY <1>1, <1>2, <1>3, <1>4, StreakAfterWork

LEMMA StreakLoad ==
  ASSUME IInv, StreakInv, NEW s \in Settlers, LoadDay(s)
  PROVE  StreakInv'
<1>1. TypeOK /\ SettlerIsSound(s)
  BY DEF IInv
<1>2. settler[s].step = "load" /\ UNCHANGED <<risk, dayLock, hist, overlap>> /\ Working(s)
  BY DEF LoadDay, Working, history
<1>3. settler[s].next \in Trades /\ result[settler[s].next] # "OPEN"
  BY <1>1, <1>2, NextTrade DEF SettlerIsSound, ListIsSound, Outcomes
<1>4. /\ settler' \in [Settlers -> Settlement]
      /\ settler'[s].day = Today /\ settler'[s].seen = RowSeenBy(s, Today)
      /\ settler'[s].told = settler[s].told /\ settler'[s].draft = settler[s].draft
      /\ \A r \in Settlers : r # s => settler'[r] = settler[r]
  BY <1>1, <1>3, LoadFields
<1>5. ASSUME ~overlap PROVE CounterIsRight(s)'
  <2>1. \A d \in DaySet : RowSeenBy(s, d)' = RowSeenBy(s, d)
    BY <1>2, <1>4 DEF RowSeenBy
  <2>2. settler'[s].seen = RowSeenBy(s, settler[s].day)'
    BY <1>2, <1>4 DEF RowSeenBy
  <2>3. CounterIsRight(s)
    BY <1>2, <1>5 DEF StreakInv
  <2> QED
    BY <1>2, <1>4, <2>1, <2>2, <2>3 DEF CounterIsRight, LossOf
<1> QED
  BY <1>1, <1>2, <1>4, <1>5, StreakAfterWork

\* A row written, or left alone by a win, is right about the outcome it was told of.
LEMMA StreakCount ==
  ASSUME IInv, StreakInv, NEW s \in Settlers, NEW holder, NEW row, settler[s].step = "write",
         Written(s, holder, row), Counted(s, holder, row),
         LET d == settler[s].day
             after == IF holder = s THEN row ELSE risk[d]
         IN ~overlap =>
              LossOf(after) = IF result[settler[s].next] = "WON" THEN 0 ELSE LossOf(RowSeenBy(s, d)) + 1
  PROVE  StreakInv'
<1>1. TypeOK /\ SettlerIsSound(s)
  BY DEF IInv
<1> DEFINE w == settler[s]
           n == w.next
           d == w.day
<1>2. n \in Trades /\ result[n] \in Outcomes
  BY <1>1, NextTrade DEF SettlerIsSound, ListIsSound
<1>3. w \in Settlement
  BY <1>1 DEF TypeOK
<1>4. d \in DaySet /\ w.draft \in [DaySet -> Row \union {NoRow}] /\ w.told \in [DaySet -> Seq(Outcomes)]
  BY <1>3 DEF Settlement
<1>5. row \in Row \union {NoRow} /\ holder \in {s, dayLock[d]}
  BY <1>4 DEF Written
<1>6. /\ settler' \in [Settlers -> Settlement] /\ settler'[s].step = "settle"
      /\ settler'[s].draft = [w.draft EXCEPT ![d] = row]
      /\ settler'[s].told = [w.told EXCEPT ![d] = Append(@, result[n])]
      /\ \A r \in Settlers : r # s => settler'[r] = settler[r]
  BY <1>1, <1>2, <1>5, CountedFields, ZenonT(40) DEF Outcomes
<1>7. dayLock' = [dayLock EXCEPT ![d] = holder] /\ UNCHANGED <<risk, hist, overlap>> /\ Working(s)
  BY DEF Counted, history, Working
<1>8. \A e \in DaySet : dayLock'[e] = IF e = d THEN holder ELSE dayLock[e]
  BY <1>1, <1>4, <1>7 DEF TypeOK
<1> DEFINE after == IF holder = s THEN row ELSE risk[d]
<1>9. ~overlap => LossOf(after) = IF result[n] = "WON" THEN 0 ELSE LossOf(RowSeenBy(s, d)) + 1
  OBVIOUS
<1>10. ~overlap => CounterIsRight(s)
  BY <1>7 DEF StreakInv
<1> HIDE DEF w, n, d
<1>11. ASSUME ~overlap PROVE CounterIsRight(s)'
  <2>1. \A e \in DaySet : IsStreak(hist[e] \o w.told[e], LossOf(RowSeenBy(s, e)))
    BY <1>10, <1>11 DEF CounterIsRight, w
  <2>2. \A e \in DaySet : e # d => RowSeenBy(s, e)' = RowSeenBy(s, e)
    BY <1>4, <1>6, <1>7, <1>8 DEF RowSeenBy, w
  <2>3. \A e \in DaySet : e = d => RowSeenBy(s, e)' = after
    BY <1>4, <1>6, <1>7, <1>8 DEF RowSeenBy, w
  <2>4. \A e \in DaySet : e # d => settler'[s].told[e] = w.told[e]
    BY <1>6
  <2>5. hist[d] \o settler'[s].told[d] = Append(hist[d] \o w.told[d], result[n])
    BY <1>1, <1>2, <1>4, <1>6, ConcatAppend, SMTT(20) DEF TypeOK
  <2>6. IsStreak(hist[d] \o settler'[s].told[d], LossOf(after))
    <3>1. hist[d] \o w.told[d] \in Seq(Outcomes) /\ LossOf(RowSeenBy(s, d)) \in Nat
      <4>1. LossOf(RowSeenBy(s, d)) \in Nat
        BY <1>1, <1>4, SeenType, Rows DEF LossOf, Row
      <4> QED
        BY <1>1, <1>4, <4>1, ConcatAppend DEF TypeOK
    <3>2. /\ IsStreak(Append(hist[d] \o w.told[d], "LOST"), LossOf(RowSeenBy(s, d)) + 1)
          /\ IsStreak(Append(hist[d] \o w.told[d], "WON"), 0)
      BY <1>4, <2>1, <3>1, LongerStreak
    <3> HIDE DEF after
    <3> QED
      BY <1>2, <1>9, <1>11, <2>5, <3>2 DEF Outcomes
  <2> HIDE DEF after
  <2>7. \A e \in DaySet : IsStreak(hist[e] \o settler'[s].told[e], LossOf(RowSeenBy(s, e))')
    <3> TAKE e \in DaySet
    <3>1. CASE e = d
      <4>1. LossOf(RowSeenBy(s, e))' = LossOf(after)
        BY <2>3, <3>1 DEF LossOf
      <4> QED
        BY <2>6, <3>1, <4>1
    <3>2. CASE e # d
      <4>1. LossOf(RowSeenBy(s, e))' = LossOf(RowSeenBy(s, e))
        BY <2>2, <3>2 DEF LossOf
      <4> QED
        BY <2>1, <2>4, <3>2, <4>1
    <3> QED
      BY <3>1, <3>2
  <2> QED
    BY <1>6, <1>7, <2>7 DEF CounterIsRight
<1> QED
  BY <1>1, <1>6, <1>7, <1>11, StreakAfterWork

LEMMA StreakCountOutcome ==
  ASSUME IInv, StreakInv, NEW s \in Settlers, CountNothing(s) \/ CountOutcome(s)
  PROVE  StreakInv'
<1>1. TypeOK
  BY DEF IInv
<1> DEFINE d == settler[s].day
           seen == settler[s].seen
           current == RowSeenBy(s, d)
<1>2. settler[s].step = "write"
  BY DEF CountNothing, CountOutcome
<1>3. ~overlap => LossOf(seen) = LossOf(current)
  BY <1>2 DEF StreakInv, CounterIsRight, Working
<1>4. CASE CountNothing(s)
  <2>1. /\ d \in DaySet /\ Counted(s, dayLock[d], settler[s].draft[d])
        /\ Written(s, dayLock[d], settler[s].draft[d])
        /\ seen \in Row /\ seen.losses = 0 /\ result[settler[s].next] = "WON"
    BY <1>4, CountNothingWritten
  <2>2. LossOf(seen) = 0
    BY <2>1, Rows DEF LossOf
  <2>3. current = IF dayLock[d] = s THEN settler[s].draft[d] ELSE risk[d]
    BY DEF RowSeenBy
  <2>4. ~overlap => LossOf(IF dayLock[d] = s THEN settler[s].draft[d] ELSE risk[d]) = 0
    BY <1>3, <2>2, <2>3
  <2> HIDE DEF seen, current
  <2> QED
    BY <1>2, <2>1, <2>4, StreakCount
<1>5. CASE CountOutcome(s)
  <2>1. /\ d \in DaySet /\ Counted(s, s, RowWritten(s)) /\ Written(s, s, RowWritten(s))
        /\ RowWritten(s) \in Row /\ settler[s].new \in Row
        /\ result[settler[s].next] = "LOST" =>
             RowWritten(s).losses = settler[s].new.losses /\ settler[s].new.losses = LossOf(seen) + 1
        /\ result[settler[s].next] = "WON" => settler[s].new.losses = 0
    BY <1>5, CountOutcomeWritten
  <2>2. result[settler[s].next] \in Outcomes
    BY <1>1, <1>2, NextTrade DEF IInv, SettlerIsSound, ListIsSound
  <2>3. ASSUME ~overlap, result[settler[s].next] = "WON" PROVE RowWritten(s).losses = 0
    <3>1. CASE seen = NoRow
      BY <2>1, <2>3, <3>1 DEF RowWritten
    <3>2. CASE seen # NoRow
      <4>1. RowWritten(s).losses = IF settler[s].new.losses = seen.losses THEN current.losses
                                   ELSE settler[s].new.losses
        BY <3>2 DEF RowWritten, Update
      <4>2. current # NoRow
        BY <1>2, <3>2 DEF IInv, SettlerIsSound, WriteIsSound
      <4>3. seen.losses = current.losses
        BY <1>3, <2>3, <3>2, <4>2 DEF LossOf
      <4> QED
        BY <2>1, <2>3, <4>1, <4>3
    <3> QED
      BY <3>1, <3>2
  <2>4. LossOf(RowWritten(s)) = RowWritten(s).losses
    BY <2>1, Rows DEF LossOf
  <2>5. ~overlap => LossOf(RowWritten(s)) = IF result[settler[s].next] = "WON" THEN 0 ELSE LossOf(current) + 1
    BY <1>3, <2>1, <2>2, <2>3, <2>4 DEF Outcomes
  <2> HIDE DEF seen
  <2> QED
    BY <1>2, <2>1, <2>5, StreakCount
<1> QED
  BY <1>4, <1>5

LEMMA StreakAbandon ==
  ASSUME IInv, StreakInv, NEW s \in Settlers, Abandon(s), Working(s)
  PROVE  StreakInv'
<1>1. TypeOK
  BY DEF IInv
<1>2. settler' = [settler EXCEPT ![s] = Idle] /\ UNCHANGED <<risk, hist, overlap>>
  BY DEF Abandon
<1>3. /\ settler' \in [Settlers -> Settlement] /\ settler'[s].step = "idle"
      /\ \A r \in Settlers : r # s => settler'[r] = settler[r]
  BY <1>1, <1>2, IdleType DEF TypeOK
<1> SUFFICES ASSUME ~overlap
             PROVE  /\ Alone'
                    /\ \A d \in DaySet : IsStreak(hist[d], LossOf(risk[d]))
                    /\ \A r \in Settlers : ~Working(r)'
  BY <1>2 DEF StreakInv, LossOf
<1>4. \A r \in Settlers : ~Working(r)'
  BY <1>3 DEF StreakInv, Alone, Working
<1> QED
  BY <1>4 DEF StreakInv, Alone

LEMMA StreakCommit ==
  ASSUME IInv, StreakInv, NEW s \in Settlers, CommitSettlement(s)
  PROVE  StreakInv'
<1>1. TypeOK
  BY DEF IInv
<1>2. /\ settler' = [settler EXCEPT ![s] = Idle] /\ overlap' = overlap /\ Working(s)
      /\ \A d \in DaySet : hist'[d] = hist[d] \o settler[s].told[d]
      /\ \A d \in DaySet : risk'[d] = RowSeenBy(s, d)
  BY DEF CommitSettlement, RowSeenBy, Working
<1>3. /\ settler' \in [Settlers -> Settlement] /\ settler'[s].step = "idle"
      /\ \A r \in Settlers : r # s => settler'[r] = settler[r]
  BY <1>1, <1>2, IdleType DEF TypeOK
<1> SUFFICES ASSUME ~overlap
             PROVE  /\ Alone'
                    /\ \A d \in DaySet : IsStreak(hist'[d], LossOf(risk'[d]))
                    /\ \A r \in Settlers : ~Working(r)'
  BY <1>2 DEF StreakInv, LossOf
<1>4. \A r \in Settlers : ~Working(r)'
  BY <1>2, <1>3 DEF StreakInv, Alone, Working
<1>5. \A d \in DaySet : IsStreak(hist'[d], LossOf(risk'[d]))
  BY <1>2 DEF StreakInv, CounterIsRight
<1> QED
  BY <1>4, <1>5 DEF Alone

\* What leaves settlements and rows alone, or changes no counter.
LEMMA StreakElsewhere ==
  ASSUME IInv, StreakInv,
         \/ TradingStep \/ CrashTrading \/ ToggleLimit \/ Tick \/ UNCHANGED vars
         \/ \E t \in Trades : CheckTrade(t) \/ \E o \in Outcomes : Announce(t, o)
  PROVE  StreakInv'
<1>1. TypeOK
  BY DEF IInv
<1>2. ASSUME NEW commit \in BOOLEAN, EndTrading(commit) PROVE StreakInv'
  <2>1. UNCHANGED <<settler, hist, overlap>>
    BY <1>2 DEF EndTrading, history
  <2>2. \A d \in DaySet, s \in Settlers : dayLock'[d] = s <=> dayLock[d] = s
    BY <1>2, EndFields, SessionsAreDistinct
  <2>3. \A d \in DaySet : LossOf(risk'[d]) = LossOf(risk[d])
    BY <1>2, EndFields
  <2> QED
    BY <1>1, <2>1, <2>2, <2>3, StreakKept
<1>3. ASSUME UNCHANGED <<settler, hist, overlap, risk>>,
             \A d \in DaySet, s \in Settlers : dayLock'[d] = s <=> dayLock[d] = s
      PROVE  StreakInv'
  BY <1>1, <1>3, StreakKept DEF LossOf
<1>4. ASSUME StartTrading PROVE StreakInv'
  <2>1. UNCHANGED <<settler, hist, overlap, risk>>
    BY <1>4 DEF StartTrading, history
  <2>2. /\ risk[Today] = NoRow => dayLock[Today] = None
        /\ dayLock' = IF risk[Today] = NoRow THEN [dayLock EXCEPT ![Today] = Trader] ELSE dayLock
    BY <1>4 DEF StartTrading
  <2>3. \A d \in DaySet, s \in Settlers : dayLock'[d] = s <=> dayLock[d] = s
    BY <1>1, <2>2, SessionsAreDistinct DEF TypeOK
  <2> QED
    BY <1>3, <2>1, <2>3
<1>5. ASSUME ClearStaleCooldown PROVE StreakInv'
  <2>1. UNCHANGED <<settler, hist, overlap, risk>>
    BY <1>5 DEF ClearStaleCooldown, history
  <2>2. dayLock[Today] \in {None, Trader} /\ dayLock' = [dayLock EXCEPT ![Today] = Trader]
    BY <1>5 DEF ClearStaleCooldown
  <2>3. \A d \in DaySet, s \in Settlers : dayLock'[d] = s <=> dayLock[d] = s
    BY <1>1, <2>2, SessionsAreDistinct DEF TypeOK
  <2> QED
    BY <1>3, <2>1, <2>3
<1>6. ASSUME \/ PlaceTrade \/ SkipTrade \/ ToggleLimit \/ Tick \/ UNCHANGED vars
             \/ \E t \in Trades : CheckTrade(t) \/ \E o \in Outcomes : Announce(t, o)
      PROVE  StreakInv'
  <2>1. UNCHANGED <<settler, hist, overlap, risk, dayLock>>
    BY <1>6 DEF PlaceTrade, SkipTrade, ToggleLimit, Tick, vars, CheckTrade, Announce, history
  <2> QED
    BY <1>3, <2>1
<1> QED
  BY <1>2, <1>4, <1>5, <1>6 DEF TradingStep, CommitTrading, ReturnEarly, CrashTrading

LEMMA StreakNext ==
  ASSUME IInv, StreakInv, [Next]_vars
  PROVE  StreakInv'
<1>1. ASSUME NEW s \in Settlers, SettlementStep(s) \/ CrashSettlement(s) PROVE StreakInv'
  <2>1. ASSUME DuplicateDay(s) \/ DeadlockVictim(s) \/ CrashSettlement(s) PROVE StreakInv'
    <3>1. Working(s) /\ Abandon(s)
      BY <2>1 DEF DuplicateDay, DeadlockVictim, CrashSettlement, Waits, Asks, Working
    <3> QED
      BY <3>1, StreakAbandon
  <2> QED
    BY <1>1, <2>1, StreakBegin, StreakSettle, StreakLoad, StreakCountOutcome, StreakCommit
       DEF SettlementStep
<1> QED
  BY <1>1, StreakElsewhere DEF Next

LEMMA StreakInit == Init => StreakInv
<1> SUFFICES ASSUME Init PROVE StreakInv
  OBVIOUS
<1>1. \A s \in Settlers : ~Working(s)
  BY IdleType DEF Init, Working
<1>2. \A d \in DaySet : IsStreak(hist[d], LossOf(risk[d]))
  BY EmptyStreak DEF Init, LossOf
<1> QED
  BY <1>1, <1>2 DEF StreakInv, Alone

\* The committed counter of every day is its current losing streak, as long as no two
\* settlements ran at once: no crash, rollback, midnight, daily reset or cleared cooldown loses
\* or doubles a loss, or keeps one a win should have forgotten.
THEOREM StreakCorrect == Spec => []StreakIsCounted
<1>1. IInv /\ StreakInv => StreakIsCounted
  <2> SUFFICES ASSUME IInv, StreakInv, ~overlap, NEW d \in DaySet PROVE Losses(d) = Streak(hist[d])
    BY DEF StreakIsCounted
  <2>1. hist[d] \in Seq(Outcomes) /\ risk[d] \in Row \union {NoRow}
    BY DEF IInv, TypeOK
  <2>2. IsStreak(hist[d], Losses(d)) /\ Losses(d) \in Nat
    BY <2>1, Rows DEF StreakInv, Losses, LossOf, Row
  <2> QED
    BY <2>1, <2>2, StreakIs
<1>2. Init => IInv /\ StreakInv
  BY InitInv, StreakInit
<1>3. IInv /\ StreakInv /\ [Next]_vars => (IInv /\ StreakInv)'
  BY NextInv, StreakNext
<1> QED
  BY <1>1, <1>2, <1>3, PTL DEF Spec

-----------------------------------------------------------------------------
(* PausedAfterStreak.                                                      *)

HeldUntil(d, row) == row # NoRow /\ row.losses >= Limit => row.until = (d + 1) * DayLength

\* A session sees, and writes, only rows that pause for the rest of the day from the limit on;
\* nobody else changes the row it has read.
SessionHolds(s) ==
  /\ \A d \in DaySet : HeldUntil(d, RowSeenBy(s, d))
  /\ settler[s].step = "write" =>
       /\ HeldUntil(settler[s].day, settler[s].new)
       /\ settler[s].seen # NoRow => RowSeenBy(s, settler[s].day) = settler[s].seen

\* The trading session only ever inserts a fresh row.
TraderHolds ==
  /\ limitOn
  /\ trader.active => trader.limitOn
  /\ \A d \in DaySet : dayLock[d] = Trader => risk[d] = NoRow /\ trader.draft[d] = FreshRow

PauseInv ==
  ~toggled /\ ~overlap =>
    /\ TraderHolds
    /\ \A d \in DaySet : HeldUntil(d, risk[d])
    /\ \A s \in Settlers : Working(s) => SessionHolds(s)

LEMMA FreshHolds == \A d \in DaySet : HeldUntil(d, FreshRow)
BY LimitsArePositive DEF HeldUntil, FreshRow

LEMMA PauseKept ==
  ASSUME PauseInv, TypeOK, settler' = settler, overlap' = overlap, toggled' = toggled,
         \A d \in DaySet : risk'[d] = risk[d] \/ (risk[d] = NoRow /\ risk'[d] = FreshRow),
         \A d \in DaySet, s \in Settlers : dayLock'[d] = s <=> dayLock[d] = s,
         ~toggled /\ ~overlap => TraderHolds'
  PROVE  PauseInv'
<1> SUFFICES ASSUME ~toggled, ~overlap
             PROVE  /\ \A d \in DaySet : HeldUntil(d, risk'[d])
                    /\ \A s \in Settlers : Working(s) => SessionHolds(s)'
  BY DEF PauseInv, Working, HeldUntil
<1>1. /\ \A d \in DaySet : HeldUntil(d, risk[d])
      /\ \A s \in Settlers : Working(s) => SessionHolds(s)
  BY DEF PauseInv
<1>2. \A d \in DaySet : HeldUntil(d, risk'[d])
  BY <1>1, FreshHolds
<1>3. ASSUME NEW s \in Settlers, Working(s) PROVE SessionHolds(s)'
  <2>1. SessionHolds(s)
    BY <1>1, <1>3
  <2>2. settler[s].day \in DaySet
    BY DEF TypeOK, Settlement
  <2>3. \A d \in DaySet : HeldUntil(d, RowSeenBy(s, d)')
    BY <1>2, <2>1 DEF SessionHolds, RowSeenBy
  <2>4. \A d \in DaySet : RowSeenBy(s, d) # NoRow => RowSeenBy(s, d)' = RowSeenBy(s, d)
    BY DEF RowSeenBy
  <2>5. RowSeenBy(s, settler[s].day) # NoRow => RowSeenBy(s, settler[s].day)' = RowSeenBy(s, settler[s].day)
    BY <2>2 DEF RowSeenBy
  <2> QED
    BY <2>1, <2>3, <2>5 DEF SessionHolds, HeldUntil
<1> QED
  BY <1>2, <1>3

LEMMA PauseElsewhere ==
  ASSUME IInv, PauseInv,
         \/ TradingStep \/ CrashTrading \/ ToggleLimit \/ Tick \/ UNCHANGED vars
         \/ \E t \in Trades : CheckTrade(t) \/ \E o \in Outcomes : Announce(t, o)
  PROVE  PauseInv'
<1>1. TypeOK
  BY DEF IInv
<1>2. ASSUME NEW commit \in BOOLEAN, EndTrading(commit) PROVE PauseInv'
  <2>1. UNCHANGED <<settler, overlap, toggled, limitOn>>
    BY <1>2 DEF EndTrading, history
  <2>2. \A d \in DaySet, s \in Settlers : dayLock'[d] = s <=> dayLock[d] = s
    BY <1>2, EndFields, SessionsAreDistinct
  <2>3. ~trader'.active /\ \A d \in DaySet : dayLock'[d] # Trader
    BY <1>2, EndFields, RestingType
  <2> SUFFICES ASSUME ~toggled, ~overlap PROVE PauseInv'
    BY <2>1 DEF PauseInv
  <2>4. TraderHolds
    BY DEF PauseInv
  <2>5. \A d \in DaySet : risk'[d] = risk[d] \/ (risk[d] = NoRow /\ risk'[d] = FreshRow)
    BY <1>2, <2>4, EndFields DEF TraderHolds
  <2>6. TraderHolds'
    BY <2>1, <2>3, <2>4 DEF TraderHolds
  <2> QED
    BY <1>1, <2>1, <2>2, <2>5, <2>6, PauseKept
<1>3. ASSUME UNCHANGED <<settler, overlap, toggled, risk>>,
             \A d \in DaySet, s \in Settlers : dayLock'[d] = s <=> dayLock[d] = s,
             ~toggled /\ ~overlap => TraderHolds'
      PROVE  PauseInv'
  BY <1>1, <1>3, PauseKept
<1>4. ASSUME StartTrading PROVE PauseInv'
  <2>1. UNCHANGED <<settler, overlap, toggled, risk, limitOn>>
    BY <1>4 DEF StartTrading, history
  <2>2. /\ risk[Today] = NoRow => dayLock[Today] = None
        /\ dayLock' = IF risk[Today] = NoRow THEN [dayLock EXCEPT ![Today] = Trader] ELSE dayLock
        /\ ~trader.active
        /\ trader' = [Resting EXCEPT !.active = TRUE, !.limitOn = limitOn,
                        !.draft[Today] = IF risk[Today] = NoRow THEN FreshRow ELSE NoRow]
    BY <1>4 DEF StartTrading
  <2>3. \A d \in DaySet, s \in Settlers : dayLock'[d] = s <=> dayLock[d] = s
    BY <1>1, <2>2, SessionsAreDistinct DEF TypeOK
  <2>4. Today \in DaySet
    BY <1>1, TodayType DEF TypeOK
  <2>5. trader'.limitOn = limitOn /\ trader'.draft[Today] = IF risk[Today] = NoRow THEN FreshRow ELSE NoRow
    BY <2>2, <2>4 DEF Resting
  <2>6. \A d \in DaySet : dayLock'[d] = Trader => d = Today /\ risk[Today] = NoRow
    BY <1>1, <2>2, <2>4 DEF TypeOK, IInv, TraderIsSound
  <2>7. ~toggled /\ ~overlap => TraderHolds'
    BY <2>1, <2>5, <2>6 DEF PauseInv, TraderHolds
  <2> QED
    BY <1>3, <2>1, <2>3, <2>7
<1>5. ASSUME ClearStaleCooldown PROVE PauseInv'
  <2>1. UNCHANGED <<settler, overlap, toggled, risk>> /\ trader.active /\ ~trader.limitOn
    BY <1>5 DEF ClearStaleCooldown, history
  <2>2. ~(~toggled /\ ~overlap)
    BY <2>1 DEF PauseInv, TraderHolds
  <2> QED
    BY <2>1, <2>2 DEF PauseInv
<1>6. ASSUME UNCHANGED <<settler, overlap, toggled, risk, dayLock, limitOn>>,
             trader'.active = trader.active, trader'.limitOn = trader.limitOn, trader'.draft = trader.draft
      PROVE  PauseInv'
  <2>1. ~toggled /\ ~overlap => TraderHolds'
    BY <1>6 DEF PauseInv, TraderHolds
  <2> QED
    BY <1>3, <1>6, <2>1
<1>7. ASSUME \/ PlaceTrade \/ SkipTrade \/ Tick \/ UNCHANGED vars
             \/ \E t \in Trades : CheckTrade(t) \/ \E o \in Outcomes : Announce(t, o)
      PROVE  PauseInv'
  <2>1. UNCHANGED <<settler, overlap, toggled, risk, dayLock, limitOn>>
    BY <1>7 DEF PlaceTrade, SkipTrade, Tick, vars, CheckTrade, Announce, history
  <2>2. trader \in Trading
    BY <1>1 DEF TypeOK
  <2>3. trader'.active = trader.active /\ trader'.limitOn = trader.limitOn /\ trader'.draft = trader.draft
    BY <1>7, <2>2 DEF PlaceTrade, SkipTrade, Tick, vars, CheckTrade, Announce, history, Trading
  <2> QED
    BY <1>6, <2>1, <2>3
<1>8. ASSUME ToggleLimit PROVE PauseInv'
  BY <1>8 DEF ToggleLimit, PauseInv
<1> QED
  BY <1>2, <1>4, <1>5, <1>7, <1>8 DEF TradingStep, CommitTrading, ReturnEarly, CrashTrading

LEMMA PauseAfterWork ==
  ASSUME NEW s \in Settlers, PauseInv, StreakInv, TypeOK, settler' \in [Settlers -> Settlement], Working(s),
         \A r \in Settlers : r # s => settler'[r] = settler[r],
         UNCHANGED <<overlap, toggled, limitOn, trader>>,
         \A d \in DaySet : dayLock'[d] = Trader => dayLock[d] = Trader /\ risk'[d] = risk[d],
         ~toggled /\ ~overlap =>
           /\ \A d \in DaySet : HeldUntil(d, risk'[d])
           /\ Working(s)' => SessionHolds(s)'
  PROVE  PauseInv'
<1> SUFFICES ASSUME ~toggled, ~overlap
             PROVE  TraderHolds' /\ \A r \in Settlers : Working(r)' => SessionHolds(r)'
  BY DEF PauseInv, HeldUntil
<1>1. TraderHolds'
  BY DEF PauseInv, TraderHolds
<1>2. \A r \in Settlers : r # s => ~Working(r)'
  BY DEF StreakInv, Alone, Working
<1> QED
  BY <1>1, <1>2

LEMMA PauseBegin ==
  ASSUME IInv, PauseInv, NEW s \in Settlers, BeginSettlement(s)
  PROVE  PauseInv'
<1>1. TypeOK /\ SettlerIsSound(s)
  BY DEF IInv
<1>2. /\ settler'[s].step = "settle" /\ \A r \in Settlers : r # s => settler'[r] = settler[r]
  BY <1>1, BeginFields
<1>3. /\ UNCHANGED <<risk, dayLock, toggled, limitOn, trader>> /\ settler[s].step = "idle"
      /\ overlap' = (overlap \/ UnderWay # {})
  BY DEF BeginSettlement
<1> SUFFICES ASSUME ~toggled, ~overlap, UnderWay = {}
             PROVE  /\ TraderHolds'
                    /\ \A d \in DaySet : HeldUntil(d, risk[d])
                    /\ \A r \in Settlers : Working(r)' => SessionHolds(r)'
  BY <1>3 DEF PauseInv, HeldUntil
<1>4. TraderHolds /\ \A d \in DaySet : HeldUntil(d, risk[d])
  BY DEF PauseInv
<1>5. \A r \in Settlers : r # s => ~Working(r)'
  BY <1>2 DEF UnderWay, Working
<1>6. SessionHolds(s)'
  <2>1. settler[s] = Idle
    BY <1>1, <1>3 DEF SettlerIsSound, ListIsSound
  <2>2. \A d \in DaySet : dayLock[d] # s
    BY <1>1, <2>1, IdleType, Rows DEF SettlerIsSound, RowsAreLocked
  <2>3. \A d \in DaySet : RowSeenBy(s, d)' = risk[d]
    BY <1>3, <2>2 DEF RowSeenBy
  <2> QED
    BY <1>2, <1>4, <2>3 DEF SessionHolds, HeldUntil
<1> QED
  BY <1>3, <1>4, <1>5, <1>6 DEF TraderHolds

LEMMA PauseSettle ==
  ASSUME IInv, StreakInv, PauseInv, NEW s \in Settlers, SettleTrade(s)
  PROVE  PauseInv'
<1>1. TypeOK
  BY DEF IInv
<1>2. /\ settler' \in [Settlers -> Settlement] /\ settler'[s].step = "load"
      /\ settler'[s].draft = settler[s].draft
      /\ \A r \in Settlers : r # s => settler'[r] = settler[r]
  BY <1>1, SettleFields
<1>3. UNCHANGED <<risk, dayLock, overlap, toggled, limitOn, trader>> /\ Working(s)
  BY DEF SettleTrade, Working, history
<1>4. ASSUME ~toggled, ~overlap
      PROVE  (\A d \in DaySet : HeldUntil(d, risk[d])) /\ SessionHolds(s)'
  <2>1. (\A d \in DaySet : HeldUntil(d, risk[d])) /\ SessionHolds(s)
    BY <1>3, <1>4 DEF PauseInv
  <2>2. \A d \in DaySet : RowSeenBy(s, d)' = RowSeenBy(s, d)
    BY <1>2, <1>3 DEF RowSeenBy
  <2> QED
    BY <1>2, <2>1, <2>2 DEF SessionHolds, HeldUntil
<1> QED
  BY <1>1, <1>2, <1>3, <1>4, PauseAfterWork

LEMMA OutcomeHolds ==
  ASSUME TypeOK, limitOn, NEW row \in Row \union {NoRow}, NEW o \in Outcomes
  PROVE  HeldUntil(Today, AfterOutcome(Base(row), o))
<1>1. Base(row) \in Row
  BY Rows DEF Base
<1> HIDE DEF Base
<1> QED
  BY <1>1, LimitsArePositive DEF HeldUntil, AfterOutcome, EndOfDay, Row, Outcomes

LEMMA PauseLoad ==
  ASSUME IInv, StreakInv, PauseInv, NEW s \in Settlers, LoadDay(s)
  PROVE  PauseInv'
<1>1. TypeOK /\ SettlerIsSound(s)
  BY DEF IInv
<1>2. /\ settler[s].step = "load" /\ Working(s)
      /\ UNCHANGED <<now, risk, dayLock, overlap, toggled, limitOn, trader>>
  BY DEF LoadDay, Working, history
<1>3. settler[s].next \in Trades /\ result[settler[s].next] \in Outcomes
  BY <1>1, <1>2, NextTrade DEF SettlerIsSound, ListIsSound
<1> DEFINE seen == RowSeenBy(s, Today)
<1>4. /\ settler' \in [Settlers -> Settlement]
      /\ settler'[s].day = Today /\ settler'[s].seen = seen
      /\ settler'[s].new = AfterOutcome(Base(seen), result[settler[s].next])
      /\ settler'[s].draft = settler[s].draft
      /\ \A r \in Settlers : r # s => settler'[r] = settler[r]
  BY <1>1, <1>3, LoadFields DEF Outcomes
<1>5. Today \in DaySet
  BY <1>1, TodayType DEF TypeOK
<1>6. seen \in Row \union {NoRow}
  BY <1>1, <1>5, SeenType
<1>7. ASSUME ~toggled, ~overlap
      PROVE  (\A d \in DaySet : HeldUntil(d, risk[d])) /\ SessionHolds(s)'
  <2>1. (\A d \in DaySet : HeldUntil(d, risk[d])) /\ SessionHolds(s) /\ limitOn
    BY <1>2, <1>7 DEF PauseInv, TraderHolds
  <2>2. \A d \in DaySet : HeldUntil(d, RowSeenBy(s, d)')
    <3>1. \A d \in DaySet : RowSeenBy(s, d)' = RowSeenBy(s, d)
      BY <1>2, <1>4 DEF RowSeenBy
    <3> QED
      BY <2>1, <3>1 DEF SessionHolds
  <2>3. RowSeenBy(s, settler[s].day)' = settler'[s].seen
    BY <1>2, <1>4 DEF RowSeenBy
  <2>4. HeldUntil(settler'[s].day, settler'[s].new)
    BY <1>1, <1>3, <1>4, <1>6, <2>1, OutcomeHolds
  <2> HIDE DEF seen
  <2>5. HeldUntil(settler[s].day, settler[s].new)'
    BY <2>4 DEF HeldUntil
  <2>6. \A d \in DaySet : HeldUntil(d, RowSeenBy(s, d))'
    BY <2>2 DEF HeldUntil
  <2>7. SessionHolds(s)'
    BY <2>3, <2>5, <2>6 DEF SessionHolds
  <2> QED
    BY <2>1, <2>7
<1> QED
  BY <1>1, <1>2, <1>4, <1>7, PauseAfterWork

LEMMA PauseCount ==
  ASSUME IInv, StreakInv, PauseInv, NEW s \in Settlers, NEW holder, NEW row, settler[s].step = "write",
         Written(s, holder, row), Counted(s, holder, row),
         ~toggled /\ ~overlap /\ holder = s => HeldUntil(settler[s].day, row)
  PROVE  PauseInv'
<1>1. TypeOK /\ SettlerIsSound(s)
  BY DEF IInv
<1> DEFINE w == settler[s]
           n == w.next
           d == w.day
<1>2. n \in Trades /\ result[n] \in Outcomes
  BY <1>1, NextTrade DEF SettlerIsSound, ListIsSound
<1>3. w \in Settlement
  BY <1>1 DEF TypeOK
<1>4. d \in DaySet /\ w.draft \in [DaySet -> Row \union {NoRow}]
  BY <1>3 DEF Settlement
<1>5. row \in Row \union {NoRow} /\ holder \in {s, dayLock[d]} /\ (holder = s \/ holder = dayLock[d])
  BY <1>4 DEF Written
<1>6. /\ settler' \in [Settlers -> Settlement] /\ settler'[s].step = "settle"
      /\ settler'[s].draft = [w.draft EXCEPT ![d] = row]
      /\ \A r \in Settlers : r # s => settler'[r] = settler[r]
  BY <1>1, <1>2, <1>5, CountedFields, ZenonT(40) DEF Outcomes
<1>7. dayLock' = [dayLock EXCEPT ![d] = holder] /\ Working(s)
      /\ UNCHANGED <<risk, overlap, toggled, limitOn, trader>>
  BY DEF Counted, history, Working
<1>8. \A e \in DaySet : dayLock'[e] = IF e = d THEN holder ELSE dayLock[e]
  BY <1>1, <1>4, <1>7 DEF TypeOK
<1>9. ~toggled /\ ~overlap /\ holder = s => HeldUntil(d, row)
  OBVIOUS
<1> HIDE DEF w, n, d
<1>10. ASSUME ~toggled, ~overlap
       PROVE  (\A e \in DaySet : HeldUntil(e, risk[e])) /\ SessionHolds(s)'
  <2>1. /\ \A e \in DaySet : HeldUntil(e, risk[e])
        /\ \A e \in DaySet : HeldUntil(e, RowSeenBy(s, e))
    BY <1>7, <1>10 DEF PauseInv, SessionHolds
  <2>2. \A e \in DaySet : RowSeenBy(s, e)' = IF e = d /\ holder = s THEN row
                                             ELSE IF e = d THEN risk[e] ELSE RowSeenBy(s, e)
    BY <1>4, <1>6, <1>7, <1>8 DEF RowSeenBy, w
  <2>3. \A e \in DaySet : HeldUntil(e, RowSeenBy(s, e)')
    BY <1>9, <1>10, <2>1, <2>2
  <2>4. \A e \in DaySet : HeldUntil(e, RowSeenBy(s, e))'
    BY <2>3 DEF HeldUntil
  <2> QED
    BY <1>6, <2>1, <2>4 DEF SessionHolds
<1>11. \A e \in DaySet : dayLock'[e] = Trader => dayLock[e] = Trader
  BY <1>5, <1>8, SessionsAreDistinct
<1> QED
  BY <1>1, <1>6, <1>7, <1>10, <1>11, PauseAfterWork

LEMMA PauseCountOutcome ==
  ASSUME IInv, StreakInv, PauseInv, NEW s \in Settlers, CountNothing(s) \/ CountOutcome(s)
  PROVE  PauseInv'
<1>1. TypeOK /\ SettlerIsSound(s)
  BY DEF IInv
<1> DEFINE w == settler[s]
           d == w.day
<1>2. w.step = "write" /\ Working(s)
  BY DEF CountNothing, CountOutcome, Working
<1>3. d \in DaySet
  BY <1>1 DEF TypeOK, Settlement
<1>4. ~toggled /\ ~overlap => SessionHolds(s)
  BY <1>2 DEF PauseInv
<1>5. CASE CountNothing(s)
  <2>1. Counted(s, dayLock[d], w.draft[d]) /\ Written(s, dayLock[d], w.draft[d])
    BY <1>5, CountNothingWritten
  <2>2. dayLock[d] = s => w.draft[d] = RowSeenBy(s, d)
    BY DEF RowSeenBy
  <2>3. ~toggled /\ ~overlap /\ dayLock[d] = s => HeldUntil(d, w.draft[d])
    BY <1>3, <1>4, <2>2 DEF SessionHolds
  <2> QED
    BY <1>2, <2>1, <2>3, PauseCount
<1>6. CASE CountOutcome(s)
  <2>1. Counted(s, s, RowWritten(s)) /\ Written(s, s, RowWritten(s)) /\ w.new \in Row
    BY <1>6, CountOutcomeWritten
  <2>2. ASSUME ~toggled, ~overlap PROVE HeldUntil(d, RowWritten(s))
    <3>1. /\ HeldUntil(d, w.new)
          /\ w.seen # NoRow => RowSeenBy(s, d) = w.seen
      BY <1>2, <1>4, <2>2 DEF SessionHolds
    <3>2. RowWritten(s).losses = w.new.losses /\ RowWritten(s).until = w.new.until
      BY <3>1 DEF RowWritten, Update
    <3>3. w.new # NoRow
      BY <2>1, Rows
    <3> HIDE DEF w, d
    <3> QED
      BY <3>1, <3>2, <3>3 DEF HeldUntil
  <2> QED
    BY <1>2, <2>1, <2>2, PauseCount
<1> QED
  BY <1>5, <1>6

LEMMA PauseAbandon ==
  ASSUME IInv, StreakInv, PauseInv, NEW s \in Settlers, Abandon(s), Working(s)
  PROVE  PauseInv'
<1>1. TypeOK
  BY DEF IInv
<1>2. /\ settler' = [settler EXCEPT ![s] = Idle] /\ dayLock' = Released(dayLock, s)
      /\ UNCHANGED <<risk, overlap, toggled, limitOn, trader>>
  BY DEF Abandon
<1>3. /\ settler' \in [Settlers -> Settlement] /\ settler'[s].step = "idle"
      /\ \A r \in Settlers : r # s => settler'[r] = settler[r]
  BY <1>1, <1>2, IdleType DEF TypeOK
<1>4. \A d \in DaySet : dayLock'[d] = Trader => dayLock[d] = Trader
  BY <1>1, <1>2, SessionsAreDistinct DEF TypeOK, Released
<1>5. ~toggled /\ ~overlap => \A d \in DaySet : HeldUntil(d, risk[d])
  BY DEF PauseInv
<1>6. ~Working(s)'
  BY <1>3 DEF Working
<1> QED
  BY <1>1, <1>2, <1>3, <1>4, <1>5, <1>6, PauseAfterWork

LEMMA PauseCommit ==
  ASSUME IInv, StreakInv, PauseInv, NEW s \in Settlers, CommitSettlement(s)
  PROVE  PauseInv'
<1>1. TypeOK
  BY DEF IInv
<1>2. /\ settler' = [settler EXCEPT ![s] = Idle] /\ dayLock' = Released(dayLock, s) /\ Working(s)
      /\ UNCHANGED <<overlap, toggled, limitOn, trader>>
      /\ \A d \in DaySet : risk'[d] = RowSeenBy(s, d)
  BY DEF CommitSettlement, RowSeenBy, Working
<1>3. /\ settler' \in [Settlers -> Settlement] /\ settler'[s].step = "idle"
      /\ \A r \in Settlers : r # s => settler'[r] = settler[r]
  BY <1>1, <1>2, IdleType DEF TypeOK
<1>4. \A d \in DaySet : dayLock'[d] = Trader => dayLock[d] = Trader /\ risk'[d] = risk[d]
  BY <1>1, <1>2, SessionsAreDistinct DEF TypeOK, Released, RowSeenBy
<1>5. ~toggled /\ ~overlap => \A d \in DaySet : HeldUntil(d, risk'[d])
  BY <1>2 DEF PauseInv, SessionHolds
<1>6. ~Working(s)'
  BY <1>3 DEF Working
<1> QED
  BY <1>1, <1>2, <1>3, <1>4, <1>5, <1>6, PauseAfterWork

LEMMA PauseNext ==
  ASSUME IInv, StreakInv, PauseInv, [Next]_vars
  PROVE  PauseInv'
<1>1. ASSUME NEW s \in Settlers, SettlementStep(s) \/ CrashSettlement(s) PROVE PauseInv'
  <2>1. ASSUME DuplicateDay(s) \/ DeadlockVictim(s) \/ CrashSettlement(s) PROVE PauseInv'
    <3>1. Working(s) /\ Abandon(s)
      BY <2>1 DEF DuplicateDay, DeadlockVictim, CrashSettlement, Waits, Asks, Working
    <3> QED
      BY <3>1, PauseAbandon
  <2> QED
    BY <1>1, <2>1, PauseBegin, PauseSettle, PauseLoad, PauseCountOutcome, PauseCommit DEF SettlementStep
<1> QED
  BY <1>1, PauseElsewhere DEF Next

LEMMA PauseInit == Init => PauseInv
<1> SUFFICES ASSUME Init PROVE PauseInv
  OBVIOUS
<1>1. \A s \in Settlers : ~Working(s)
  BY IdleType DEF Init, Working
<1>2. TraderHolds
  BY SessionsAreDistinct DEF Init, TraderHolds, Resting
<1>3. \A d \in DaySet : HeldUntil(d, risk[d])
  BY DEF Init, HeldUntil
<1> QED
  BY <1>1, <1>2, <1>3 DEF PauseInv

\* A counter at the limit holds the trading session, whichever row it sees.
LEMMA PauseStops ==
  ASSUME IInv, StreakInv, PauseInv, ~toggled, ~overlap, EndsInStreak(hist[Today])
  PROVE  Running
<1>1. Today \in DaySet /\ now < EndOfDay
  BY TodayType DEF IInv, TypeOK
<1> DEFINE d == Today
           n == LossOf(risk[d])
           seq == hist[d]
<1> HIDE DEF d
<1>2. IsStreak(seq, n)
  BY <1>1 DEF StreakInv, d
<1>3. seq \in Seq(Outcomes) /\ risk[d] \in Row \union {NoRow}
  BY <1>1 DEF IInv, TypeOK, d
<1>4. Len(seq) >= Limit /\ \A i \in (Len(seq) - Limit + 1)..Len(seq) : seq[i] = "LOST"
  BY DEF EndsInStreak, d
<1>5. n >= Limit
  <2>1. n \in 0..Len(seq) /\ (n < Len(seq) => seq[Len(seq) - n] = "WON")
    BY <1>2 DEF IsStreak
  <2>2. Len(seq) \in Nat /\ Limit \in Nat \ {0}
    BY <1>3, LimitsArePositive
  <2> HIDE DEF seq, n
  <2> SUFFICES ASSUME n < Limit PROVE FALSE
    BY <2>1, <2>2
  <2>3. n < Len(seq) /\ Len(seq) - n \in (Len(seq) - Limit + 1)..Len(seq)
    BY <1>4, <2>1, <2>2
  <2> QED
    BY <1>4, <2>1, <2>3
<1>6. risk[d] # NoRow /\ risk[d].losses >= Limit
  BY <1>5, LimitsArePositive DEF LossOf
<1>7. TodaysRow = risk[d]
  BY <1>1, <1>6 DEF PauseInv, TraderHolds, TodaysRow, d
<1>8. risk[d].until = EndOfDay
  BY <1>1, <1>6 DEF PauseInv, HeldUntil, EndOfDay, d
<1> QED
  BY <1>1, <1>6, <1>7, <1>8 DEF Running

\* While a day's last outcomes are consecutive_loss_limit losses no trade passes check_trade,
\* unless the toggle was changed or two settlements have overlapped.
THEOREM PauseCorrect == Spec => PausedAfterStreak
<1>1. Init => IInv /\ StreakInv /\ PauseInv
  BY InitInv, StreakInit, PauseInit
<1>2. IInv /\ StreakInv /\ PauseInv /\ [Next]_vars => (IInv /\ StreakInv /\ PauseInv)'
  BY NextInv, StreakNext, PauseNext
<1> DEFINE P == trader'.cleared # None /\ trader'.cleared # trader.cleared
                /\ ~toggled /\ ~overlap => ~EndsInStreak(hist[Today])
<1>3. IInv /\ StreakInv /\ PauseInv /\ [Next]_vars => [P]_vars
  <2> SUFFICES ASSUME IInv, StreakInv, PauseInv, Next,
                      trader'.cleared # None, trader'.cleared # trader.cleared, ~toggled, ~overlap
               PROVE  ~EndsInStreak(hist[Today])
    OBVIOUS
  <2>1. Resting.cleared = None /\ trader \in Trading
    BY DEF Resting, IInv, TypeOK
  <2>2. \/ ~Running
        \/ trader' = trader \/ trader'.cleared = None \/ trader'.cleared = trader.cleared
    BY <2>1, ZenonT(40) DEF Next, SettlementStep, TradingStep, BeginSettlement, SettleTrade, LoadDay, CountNothing,
       CountOutcome, Counted, DuplicateDay, DeadlockVictim, CrashSettlement, Abandon, CommitSettlement,
       StartTrading, ClearStaleCooldown, CheckTrade, PlaceTrade, SkipTrade, EndTrading, CommitTrading,
       ReturnEarly, CrashTrading, Announce, ToggleLimit, Tick, Trading, Resting
  <2> QED
    BY <2>2, PauseStops
<1> QED
  BY <1>1, <1>2, <1>3, PTL DEF Spec, PausedAfterStreak

-----------------------------------------------------------------------------
(* NoLossForgotten: who may be under way with whom.                        *)

DoneBy(s) == {t \in Trades : settler[s].done[t] # NoDay}
Listed(s) == settler[s].todo \union DoneBy(s)

\* The listed trades another settlement has settled meanwhile.
Stale(s) == {t \in Listed(s) : settledOn[t] # NoDay}

\* No midnight has passed since the session began to count.
TodayOnly(s) ==
  /\ \A t \in DoneBy(s) : settler[s].done[t] = Today
  /\ settler[s].step = "write" => settler[s].day = Today

\* Two settlements overlap within a day, and the one's list is part of the other's; the one
\* that is left ends before it meets a third or a midnight.
MeetInv ==
  ~crowded =>
    /\ \A s \in tied : Working(s)
    /\ \A s \in Settlers : Working(s) /\ s \notin tied => TodayOnly(s) /\ Stale(s) = {}
    /\ \A s \in Settlers : Working(s) => \A t \in Stale(s) : TodayOnly(s) /\ settledOn[t] = Today
    /\ \A s, r \in Settlers : Working(s) /\ Working(r) /\ s # r =>
         /\ s \in tied /\ TodayOnly(s) /\ Stale(s) = {}
         /\ Listed(s) \subseteq Listed(r) \/ Listed(r) \subseteq Listed(s)
    /\ \A s, r, q \in Settlers : Working(s) /\ Working(r) /\ Working(q) => s = r \/ s = q \/ r = q

\* A step of one session that keeps its list, or ends it.
LEMMA MeetKept ==
  ASSUME MeetInv, settledOn' = settledOn, crowded' = crowded, now' = now,
         \A r \in Settlers : Working(r)' => Working(r) /\ (r \in tied' <=> r \in tied),
         ~crowded => \A r \in tied' : r \in tied /\ Working(r)',
         \A r \in Settlers : Working(r)' /\ ~crowded => Listed(r)' = Listed(r) /\ (TodayOnly(r) => TodayOnly(r)')
  PROVE  MeetInv'
<1> SUFFICES ASSUME ~crowded PROVE MeetInv'
  BY DEF MeetInv
<1>1. \A r \in Settlers : Working(r)' => Working(r) /\ Listed(r)' = Listed(r) /\ (TodayOnly(r) => TodayOnly(r)')
                                         /\ (r \in tied' <=> r \in tied)
  OBVIOUS
<1>2. \A r \in Settlers : Working(r)' => Stale(r)' = Stale(r)
  BY <1>1 DEF Stale
<1>3. Today' = Today
  BY DEF Today, Day
<1>4. \A s \in Settlers : Working(s)' /\ s \notin tied' => TodayOnly(s)' /\ Stale(s)' = {}
  BY <1>1, <1>2 DEF MeetInv
<1>5. \A s \in Settlers : Working(s)' => \A t \in Stale(s)' : TodayOnly(s)' /\ settledOn'[t] = Today'
  BY <1>1, <1>2, <1>3 DEF MeetInv
<1>6. \A s, r \in Settlers : Working(s)' /\ Working(r)' /\ s # r =>
         /\ s \in tied' /\ TodayOnly(s)' /\ Stale(s)' = {}
         /\ Listed(s)' \subseteq Listed(r)' \/ Listed(r)' \subseteq Listed(s)'
  BY <1>1, <1>2 DEF MeetInv
<1>7. \A s, r, q \in Settlers : Working(s)' /\ Working(r)' /\ Working(q)' => s = r \/ s = q \/ r = q
  BY <1>1 DEF MeetInv
<1> QED
  BY <1>4, <1>5, <1>6, <1>7 DEF MeetInv

\* What a step of another session does not change.
LEMMA SameList ==
  ASSUME NEW r \in Settlers, settler'[r] = settler[r]
  PROVE  /\ Working(r)' <=> Working(r)
         /\ Listed(r)' = Listed(r) /\ DoneBy(r)' = DoneBy(r)
         /\ Day(now)' = Day(now) => (TodayOnly(r)' <=> TodayOnly(r))
<1>1. DoneBy(r)' = DoneBy(r)
  BY DEF DoneBy
<1> QED
  BY <1>1 DEF Working, Listed, TodayOnly, Today

LEMMA MeetElsewhere ==
  ASSUME MeetInv, tied \subseteq Settlers, UNCHANGED <<now, settler, settledOn, tied, crowded>>
  PROVE  MeetInv'
<1>1. \A r \in Settlers : (Working(r)' <=> Working(r)) /\ Listed(r)' = Listed(r) /\ (TodayOnly(r)' <=> TodayOnly(r))
  BY SameList DEF Day
<1>2. ~crowded => \A r \in tied' : r \in tied /\ Working(r)'
  BY <1>1 DEF MeetInv
<1> QED
  BY <1>1, <1>2, MeetKept

\* A step that goes on with the list.
LEMMA MeetWork ==
  ASSUME MeetInv, tied \subseteq Settlers, NEW s \in Settlers, Working(s), Working(s)', UNCHANGED <<now, settledOn, tied, crowded>>,
         \A r \in Settlers : r # s => settler'[r] = settler[r],
         Listed(s)' = Listed(s), TodayOnly(s) => TodayOnly(s)'
  PROVE  MeetInv'
<1>1. \A r \in Settlers : r # s =>
        (Working(r)' <=> Working(r)) /\ Listed(r)' = Listed(r) /\ (TodayOnly(r)' <=> TodayOnly(r))
  BY SameList DEF Day
<1>2. ~crowded => \A r \in tied' : r \in tied /\ Working(r)'
  BY <1>1 DEF MeetInv
<1> QED
  BY <1>1, <1>2, MeetKept

LEMMA MeetBegin ==
  ASSUME IInv, MeetInv, NEW s \in Settlers, BeginSettlement(s)
  PROVE  MeetInv'
<1>1. TypeOK /\ TradesAreSound /\ \A r \in Settlers : SettlerIsSound(r)
  BY DEF IInv
<1>2. /\ settler'[s].step = "settle" /\ settler'[s].todo = Settleable
      /\ \A t \in Trades : settler'[s].done[t] = NoDay
      /\ \A r \in Settlers : r # s => settler'[r] = settler[r]
  BY <1>1, BeginFields, IdleType
<1>3. /\ UNCHANGED <<now, settledOn>> /\ ~Working(s)
      /\ tied' = IF UnderWay = {} THEN tied ELSE tied \union UnderWay \union {s}
      /\ crowded' = (crowded \/ UnderWay \intersect tied # {})
  BY DEF BeginSettlement, Working
<1> SUFFICES ASSUME ~crowded, UnderWay \intersect tied = {} PROVE MeetInv'
  BY <1>3 DEF MeetInv
<1>4. \A r \in Settlers : r \in UnderWay <=> Working(r)
  BY DEF UnderWay, Working
<1>5. tied = {} /\ UnderWay \subseteq Settlers
  BY <1>1, <1>4 DEF MeetInv, TypeOK, UnderWay
<1>6. \A r \in Settlers : Working(r) => TodayOnly(r) /\ Stale(r) = {}
  BY <1>5 DEF MeetInv
<1>7. \A r, q \in Settlers : Working(r) /\ Working(q) => r = q
  BY <1>5 DEF MeetInv
<1>8. \A r \in Settlers : r # s => /\ Working(r)' <=> Working(r)
                                   /\ Listed(r)' = Listed(r) /\ (TodayOnly(r)' <=> TodayOnly(r))
                                   /\ Stale(r)' = Stale(r)
  BY <1>2, <1>3, SameList DEF Stale, Day
<1>9. DoneBy(s)' = {} /\ Listed(s)' = Settleable /\ TodayOnly(s)' /\ Working(s)'
  BY <1>2 DEF DoneBy, Listed, TodayOnly, Working
<1>10. Stale(s)' = {}
  <2>1. \A t \in Settleable : t \in Trades /\ settledOn[t] = NoDay
    BY <1>1 DEF TradesAreSound, Settleable, Outcomes
  <2> QED
    BY <1>3, <1>9, <2>1 DEF Stale
<1>11. \A r \in Settlers : Working(r) => Listed(r) \subseteq Settleable
  <2> SUFFICES ASSUME NEW r \in Settlers, Working(r), NEW t \in Listed(r) PROVE t \in Settleable
    OBVIOUS
  <2>1. settledOn[t] = NoDay
    BY <1>6 DEF Stale
  <2>2. t \in Trades
    BY <1>1 DEF Listed, DoneBy, TypeOK, Settlement
  <2>3. result[t] # "OPEN"
    BY <1>1, <2>2 DEF Listed, DoneBy, SettlerIsSound, DoneIsSettled
  <2>4. trade[t].status \in Outcomes \union {"NONE", "OPEN"}
    BY <1>1, <2>2 DEF TypeOK
  <2> QED
    BY <1>1, <2>1, <2>2, <2>3, <2>4 DEF TradesAreSound, Settleable
<1>12. \A r \in tied' : Working(r)' /\ r \in Settlers
  BY <1>3, <1>4, <1>5, <1>8, <1>9
<1>13. \A r, q \in Settlers : Working(r)' /\ Working(q)' /\ r # q => r \in tied'
  BY <1>3, <1>4, <1>7, <1>8, <1>9
<1>14. \A r \in Settlers : Working(r)' => TodayOnly(r)' /\ Stale(r)' = {}
  BY <1>6, <1>8, <1>9, <1>10
<1>15. \A r, q \in Settlers : Working(r)' /\ Working(q)' /\ r # q =>
         Listed(r)' \subseteq Listed(q)' \/ Listed(q)' \subseteq Listed(r)'
  BY <1>7, <1>8, <1>9, <1>11
<1>16. \A r, q, x \in Settlers : Working(r)' /\ Working(q)' /\ Working(x)' => r = q \/ r = x \/ q = x
  BY <1>7, <1>8
<1> QED
  BY <1>12, <1>13, <1>14, <1>15, <1>16 DEF MeetInv

LEMMA MeetStep ==
  ASSUME IInv, MeetInv, NEW s \in Settlers,
         SettleTrade(s) \/ LoadDay(s) \/ CountNothing(s) \/ CountOutcome(s)
  PROVE  MeetInv'
<1>1. TypeOK /\ SettlerIsSound(s) /\ tied \subseteq Settlers
  BY DEF IInv, TypeOK
<1>2. Working(s)
  BY DEF SettleTrade, LoadDay, CountNothing, CountOutcome, Working
<1>3. CASE SettleTrade(s)
  <2>1. /\ settler'[s].step = "load" /\ settler'[s].todo = settler[s].todo
        /\ settler'[s].done = settler[s].done
        /\ \A r \in Settlers : r # s => settler'[r] = settler[r]
    BY <1>1, <1>3, SettleFields
  <2>2. UNCHANGED <<now, settledOn, tied, crowded>>
    BY <1>3 DEF SettleTrade, history
  <2>3. Listed(s)' = Listed(s) /\ Working(s)' /\ (TodayOnly(s) => TodayOnly(s)')
    BY <2>1, <2>2 DEF Listed, DoneBy, TodayOnly, Today, Day, Working
  <2> QED
    BY <1>1, <1>2, <2>1, <2>2, <2>3, MeetWork
<1>4. CASE LoadDay(s)
  <2>1. settler[s].next \in Trades /\ result[settler[s].next] # "OPEN"
    BY <1>1, <1>4, NextTrade DEF LoadDay, SettlerIsSound, ListIsSound, Outcomes
  <2>2. /\ settler'[s].step = "write" /\ settler'[s].day = Today /\ settler'[s].todo = settler[s].todo
        /\ settler'[s].done = settler[s].done
        /\ \A r \in Settlers : r # s => settler'[r] = settler[r]
    BY <1>1, <1>4, <2>1, LoadFields
  <2>3. UNCHANGED <<now, settledOn, tied, crowded>>
    BY <1>4 DEF LoadDay, history
  <2>4. Listed(s)' = Listed(s) /\ Working(s)' /\ (TodayOnly(s) => TodayOnly(s)')
    BY <2>2, <2>3 DEF Listed, DoneBy, TodayOnly, Today, Day, Working
  <2> QED
    BY <1>1, <1>2, <2>2, <2>3, <2>4, MeetWork
<1>5. CASE CountNothing(s) \/ CountOutcome(s)
  <2>1. PICK holder, row : settler[s].step = "write" /\ Written(s, holder, row) /\ Counted(s, holder, row)
    BY <1>5, CountNothingWritten, CountOutcomeWritten
  <2> DEFINE w == settler[s]
             n == w.next
             d == w.day
  <2>2. n \in w.todo /\ n \in Trades /\ result[n] # "OPEN" /\ w.done[n] = NoDay
    BY <1>1, <2>1, NextTrade DEF SettlerIsSound, ListIsSound, Outcomes
  <2>3. w \in Settlement
    BY <1>1 DEF TypeOK
  <2>4. d \in DaySet /\ w.draft[d] \in Row \union {NoRow} /\ w.done \in [Trades -> DaySet \union {NoDay}]
    BY <2>3 DEF Settlement
  <2>5. row \in Row \union {NoRow}
    BY <2>1, <2>4 DEF Written
  <2>6. /\ settler'[s].step = "settle" /\ settler'[s].todo = w.todo \ {n}
        /\ settler'[s].done = [w.done EXCEPT ![n] = d]
        /\ \A r \in Settlers : r # s => settler'[r] = settler[r]
    BY <1>1, <2>1, <2>2, <2>5, CountedFields
  <2>7. UNCHANGED <<now, settledOn, tied, crowded>>
    BY <2>1 DEF Counted, history
  <2>8. w.step = "write"
    BY <2>1
  <2>9. Listed(s) = w.todo \union {t \in Trades : w.done[t] # NoDay}
    BY DEF Listed, DoneBy
  <2>10. TodayOnly(s) <=> (\A t \in Trades : w.done[t] # NoDay => w.done[t] = Today) /\ d = Today
    BY <2>8 DEF TodayOnly, DoneBy
  <2> HIDE DEF w, n, d
  <2>11. \A t \in Trades : settler'[s].done[t] = IF t = n THEN d ELSE w.done[t]
    BY <2>2, <2>4, <2>6
  <2>12. DoneBy(s)' = {t \in Trades : w.done[t] # NoDay} \union {n}
    BY <2>2, <2>4, <2>11, Rows DEF DoneBy
  <2>13. Listed(s)' = Listed(s)
    BY <2>2, <2>6, <2>9, <2>12 DEF Listed
  <2>14. TodayOnly(s) => TodayOnly(s)'
    <3>1. Today' = Today
      BY <2>7 DEF Today, Day
    <3>2. TodayOnly(s)' <=> \A t \in DoneBy(s)' : settler'[s].done[t] = Today
      BY <2>6, <3>1 DEF TodayOnly
    <3> QED
      BY <2>2, <2>10, <2>11, <2>12, <3>2
  <2>15. Working(s)'
    BY <2>6 DEF Working
  <2> QED
    BY <1>1, <1>2, <2>6, <2>7, <2>13, <2>14, <2>15, MeetWork
<1> QED
  BY <1>3, <1>4, <1>5

LEMMA MeetAbandon ==
  ASSUME IInv, MeetInv, NEW s \in Settlers, Abandon(s)
  PROVE  MeetInv'
<1>1. TypeOK
  BY DEF IInv
<1>2. settler' = [settler EXCEPT ![s] = Idle] /\ tied' = tied \ {s} /\ UNCHANGED <<now, settledOn, crowded>>
  BY DEF Abandon
<1>3. /\ ~Working(s)' /\ \A r \in Settlers : r # s => settler'[r] = settler[r]
  BY <1>1, <1>2, IdleType DEF TypeOK, Working
<1>4. \A r \in Settlers : r # s =>
        (Working(r)' <=> Working(r)) /\ Listed(r)' = Listed(r) /\ (TodayOnly(r)' <=> TodayOnly(r))
  BY <1>2, <1>3, SameList DEF Day
<1>5. ~crowded => \A r \in tied' : r \in tied /\ Working(r)'
  BY <1>1, <1>2, <1>4 DEF MeetInv, TypeOK
<1> QED
  BY <1>2, <1>3, <1>4, <1>5, MeetKept

LEMMA MeetCommit ==
  ASSUME IInv, MeetInv, NEW s \in Settlers, CommitSettlement(s)
  PROVE  MeetInv'
<1>1. TypeOK /\ SettlerIsSound(s)
  BY DEF IInv
<1>2. /\ settler' = [settler EXCEPT ![s] = Idle] /\ tied' = tied \ {s} /\ UNCHANGED <<now, crowded>>
      /\ settledOn' = [t \in Trades |-> IF settledOn[t] = NoDay THEN settler[s].done[t] ELSE settledOn[t]]
      /\ Working(s)
  BY DEF CommitSettlement, Working
<1>3. /\ ~Working(s)' /\ \A r \in Settlers : r # s => settler'[r] = settler[r]
  BY <1>1, <1>2, IdleType DEF TypeOK, Working
<1> SUFFICES ASSUME ~crowded PROVE MeetInv'
  BY <1>2 DEF MeetInv
<1>4. \A r \in Settlers : r # s =>
        (Working(r)' <=> Working(r)) /\ Listed(r)' = Listed(r) /\ (TodayOnly(r)' <=> TodayOnly(r))
  BY <1>2, <1>3, SameList DEF Day
<1>5. \A r \in tied' : r \in tied /\ Working(r)'
  BY <1>1, <1>2, <1>4 DEF MeetInv, TypeOK
<1>6. \A r, q \in Settlers : Working(r)' /\ Working(q)' => r = q
  BY <1>2, <1>3, <1>4 DEF MeetInv
<1>7. ASSUME NEW r \in Settlers, Working(r)'
      PROVE  /\ r \in tied' /\ TodayOnly(r)'
             /\ \A t \in Stale(r)' : settledOn'[t] = Today
  <2>1. r # s /\ Working(r)
    BY <1>3, <1>4, <1>7
  <2>2. r \in tied /\ TodayOnly(r) /\ TodayOnly(s) /\ Stale(r) = {}
    BY <1>2, <2>1 DEF MeetInv
  <2>3. \A t \in Listed(r) : t \in Trades
    BY <1>1 DEF Listed, DoneBy, TypeOK, Settlement
  <2>4. ASSUME NEW t \in Listed(r), settledOn'[t] # NoDay PROVE settledOn'[t] = Today
    <3>1. settledOn[t] = NoDay /\ t \in Trades
      BY <2>2, <2>3 DEF Stale
    <3>2. settledOn'[t] = settler[s].done[t]
      BY <1>2, <3>1
    <3> QED
      BY <2>2, <2>4, <3>1, <3>2 DEF TodayOnly, DoneBy
  <2> QED
    BY <1>2, <1>4, <2>1, <2>2, <2>4 DEF Stale
<1>8. Today' = Today
  BY <1>2 DEF Today, Day
<1> QED
  BY <1>5, <1>6, <1>7, <1>8 DEF MeetInv

LEMMA MeetTick ==
  ASSUME IInv, MeetInv, Tick
  PROVE  MeetInv'
<1>1. TypeOK /\ UNCHANGED <<settler, settledOn>>
  BY DEF IInv, Tick
<1>2. CASE Day(now + 1) = Today
  <2>1. UNCHANGED <<tied, crowded>> /\ Today' = Today
    BY <1>2 DEF Tick, Today
  <2>2. \A r \in Settlers : /\ Working(r)' <=> Working(r)
                            /\ Listed(r)' = Listed(r) /\ Stale(r)' = Stale(r)
                            /\ (TodayOnly(r)' <=> TodayOnly(r))
    BY <1>1, <2>1 DEF Working, Listed, DoneBy, Stale, TodayOnly
  <2>3. tied \subseteq Settlers
    BY <1>1 DEF TypeOK
  <2> QED
    BY <1>1, <2>1, <2>2, <2>3 DEF MeetInv
<1>3. CASE Day(now + 1) # Today
  <2>1. tied' = UnderWay /\ crowded' = (crowded \/ tied # {})
    BY <1>3 DEF Tick
  <2> SUFFICES ASSUME ~crowded, tied = {} PROVE MeetInv'
    BY <2>1 DEF MeetInv
  <2>2. \A r, q \in Settlers : Working(r) /\ Working(q) => r = q
    BY DEF MeetInv
  <2>3. \A r \in Settlers : /\ Working(r)' <=> Working(r)
                            /\ Stale(r)' = Stale(r)
    BY <1>1 DEF Working, Listed, DoneBy, Stale
  <2>4. \A r \in Settlers : Working(r) => Stale(r) = {}
    BY DEF MeetInv
  <2>5. \A r \in Settlers : r \in tied' <=> Working(r)
    BY <2>1 DEF UnderWay, Working
  <2>6. tied' \subseteq Settlers
    BY <2>1 DEF UnderWay
  <2> QED
    BY <2>2, <2>3, <2>4, <2>5, <2>6 DEF MeetInv
<1> QED
  BY <1>2, <1>3

LEMMA MeetNext ==
  ASSUME IInv, MeetInv, [Next]_vars
  PROVE  MeetInv'
<1>1. tied \subseteq Settlers
  BY DEF IInv, TypeOK
<1>2. ASSUME NEW s \in Settlers, SettlementStep(s) \/ CrashSettlement(s) PROVE MeetInv'
  BY <1>2, MeetBegin, MeetStep, MeetAbandon, MeetCommit
     DEF SettlementStep, CrashSettlement, DuplicateDay, DeadlockVictim
<1>3. ASSUME TradingStep \/ CrashTrading \/ ToggleLimit \/ UNCHANGED vars PROVE MeetInv'
  <2>1. UNCHANGED <<now, settler, settledOn, tied, crowded>>
    BY <1>3 DEF TradingStep, CrashTrading, ToggleLimit, vars, history, StartTrading, ClearStaleCooldown,
       PlaceTrade, SkipTrade, CommitTrading, ReturnEarly, EndTrading
  <2> QED
    BY <1>1, <2>1, MeetElsewhere
<1>4. ASSUME NEW t \in Trades, CheckTrade(t) \/ \E o \in Outcomes : Announce(t, o) PROVE MeetInv'
  <2>1. UNCHANGED <<now, settler, settledOn, tied, crowded>>
    BY <1>4 DEF CheckTrade, Announce, history
  <2> QED
    BY <1>1, <2>1, MeetElsewhere
<1> QED
  BY <1>2, <1>3, <1>4, MeetTick DEF Next

LEMMA MeetInit == Init => MeetInv
<1> SUFFICES ASSUME Init PROVE MeetInv
  OBVIOUS
<1>1. \A s \in Settlers : ~Working(s)
  BY IdleType DEF Init, Working
<1>2. tied = {}
  BY DEF Init
<1> QED
  BY <1>1, <1>2 DEF MeetInv

-----------------------------------------------------------------------------
(* NoLossForgotten: what the rows and drafts have counted.                 *)

Lost(d) == SettledOn(d, "LOST")
DoneLost(s, d) == {t \in Trades : settler[s].done[t] = d /\ result[t] = "LOST"}

\* No win on the day, settled or about to be.
OnlyLosses(s, d) ==
  SettledOn(d, "WON") = {} /\ \A t \in Trades : settler[s].done[t] = d => result[t] = "LOST"

\* A session's draft, and the losses it will still count twice, make up for the losses settled
\* and those it has counted.
DraftEnough(s) ==
  \A d \in DaySet : dayLock[d] = s /\ OnlyLosses(s, d) =>
    settler[s].draft[d].losses + Cardinality(settler[s].todo \intersect Lost(d))
      >= Cardinality(Lost(d) \union DoneLost(s, d))

NewEnough(s) ==
  LET w == settler[s] IN
  w.step = "write" /\ OnlyLosses(s, w.day) /\ result[w.next] = "LOST" =>
    w.new.losses + Cardinality((w.todo \ {w.next}) \intersect Lost(w.day))
      >= Cardinality(Lost(w.day) \union DoneLost(s, w.day) \union {w.next})

RowEnough(d) == SettledOn(d, "WON") = {} => LossOf(risk[d]) >= Cardinality(Lost(d))

EnoughInv ==
  ~crowded =>
    /\ \A d \in DaySet : RowEnough(d)
    /\ \A s \in Settlers : DraftEnough(s) /\ NewEnough(s)

LEMMA Finite ==
  ASSUME NEW S \in SUBSET Trades
  PROVE  IsFiniteSet(S) /\ Cardinality(S) \in Nat
BY TradesAreFinite, FS_Subset, FS_CardinalityType

\* Adding, or no longer counting on, one trade.
LEMMA OneMore ==
  ASSUME NEW todo \in SUBSET Trades, NEW lost \in SUBSET Trades, NEW done \in SUBSET Trades,
         NEW n \in todo, NEW k \in Nat,
         k + Cardinality(todo \intersect lost) >= Cardinality(lost \union done)
  PROVE  k + 1 + Cardinality((todo \ {n}) \intersect lost) >= Cardinality(lost \union done \union {n})
<1>1. /\ IsFiniteSet(todo \intersect lost) /\ Cardinality(todo \intersect lost) \in Nat
      /\ IsFiniteSet(lost \union done) /\ Cardinality(lost \union done) \in Nat
  BY Finite
<1>2. /\ Cardinality((todo \intersect lost) \ {n}) =
           IF n \in lost THEN Cardinality(todo \intersect lost) - 1 ELSE Cardinality(todo \intersect lost)
      /\ Cardinality(lost \union done \union {n}) =
           IF n \in lost \union done THEN Cardinality(lost \union done) ELSE Cardinality(lost \union done) + 1
  BY <1>1, FS_RemoveElement, FS_AddElement
<1>3. (todo \ {n}) \intersect lost = (todo \intersect lost) \ {n}
  OBVIOUS
<1> DEFINE a == Cardinality(todo \intersect lost)
           b == Cardinality(lost \union done)
           c == Cardinality((todo \intersect lost) \ {n})
           e == Cardinality(lost \union done \union {n})
<1>4. a \in Nat /\ b \in Nat /\ k + a >= b
  BY <1>1
<1>5. CASE n \in lost
  <2>1. c = a - 1 /\ e = b
    BY <1>2, <1>5
  <2> HIDE DEF a, b, c, e
  <2>2. k + 1 + c >= e
    BY <1>4, <2>1
  <2> QED
    BY <1>3, <2>2 DEF c, e
<1>6. CASE n \notin lost
  <2>1. c = a /\ (e = b \/ e = b + 1)
    BY <1>2, <1>6
  <2> HIDE DEF a, b, c, e
  <2>2. k + 1 + c >= e
    BY <1>4, <2>1
  <2> QED
    BY <1>3, <2>2 DEF c, e
<1> QED
  BY <1>5, <1>6

\* Losses settled by another session that are still on the list.
LEMMA ManyMore ==
  ASSUME NEW left \in SUBSET Trades, NEW lost \in SUBSET Trades, NEW told \in SUBSET Trades,
         NEW more \in SUBSET Trades, more \subseteq left, more \intersect lost = {}, NEW k \in Nat,
         k + Cardinality(left \intersect lost) >= Cardinality(lost \union told)
  PROVE  k + Cardinality(left \intersect (lost \union more)) >= Cardinality((lost \union more) \union told)
<1> DEFINE A == left \intersect lost
           B == lost \union told
<1>1. left \intersect (lost \union more) = A \union more /\ (lost \union more) \union told = B \union more
  OBVIOUS
<1>2. /\ IsFiniteSet(A) /\ IsFiniteSet(B) /\ IsFiniteSet(more) /\ IsFiniteSet(A \intersect more)
      /\ Cardinality(A) \in Nat /\ Cardinality(B) \in Nat /\ Cardinality(more) \in Nat
      /\ Cardinality(B \intersect more) \in Nat
  BY Finite
<1>3. A \intersect more = {}
  OBVIOUS
<1> HIDE DEF A, B
<1>4. Cardinality(A \union more) = Cardinality(A) + Cardinality(more)
  <2>1. Cardinality(A \union more) = Cardinality(A) + Cardinality(more) - Cardinality(A \intersect more)
    BY <1>2, FS_Union
  <2> QED
    BY <1>2, <1>3, <2>1, FS_EmptySet
<1>5. Cardinality(B \union more) <= Cardinality(B) + Cardinality(more)
  <2>1. Cardinality(B \union more) = Cardinality(B) + Cardinality(more) - Cardinality(B \intersect more)
    BY <1>2, FS_Union
  <2> QED
    BY <1>2, <2>1
<1>6. k + Cardinality(A) >= Cardinality(B)
  BY DEF A, B
<1>7. IsFiniteSet(B \union more) /\ Cardinality(B \union more) \in Nat
  <2>1. B \union more \subseteq Trades
    BY DEF B
  <2> QED
    BY <2>1, Finite
<1>8. k + Cardinality(A \union more) >= Cardinality(B \union more)
  BY <1>2, <1>4, <1>5, <1>6, <1>7
<1> QED
  BY <1>1, <1>8

LEMMA SettledKept ==
  ASSUME TypeOK, TradesAreSound, settledOn' = settledOn,
         \A t \in Trades : \/ trade'[t].status = trade[t].status
                           \/ trade[t].status \notin Outcomes /\ trade'[t].status \notin Outcomes
  PROVE  \A d \in DaySet, o \in Outcomes : SettledOn(d, o)' = SettledOn(d, o)
<1> SUFFICES ASSUME NEW d \in DaySet, NEW o \in Outcomes, NEW t \in Trades
             PROVE  settledOn[t] = d /\ trade'[t].status = o <=> settledOn[t] = d /\ trade[t].status = o
  BY DEF SettledOn
<1> QED
  OBVIOUS

\* A step that touches neither the session nor what is settled.
LEMMA EnoughKept ==
  ASSUME TypeOK, NEW r \in Settlers, SettlerIsSound(r), DraftEnough(r) /\ NewEnough(r),
         settler'[r] = settler[r],
         \A t \in Trades : result[t] # "OPEN" => result'[t] = result[t],
         \A d \in DaySet : dayLock'[d] = r <=> dayLock[d] = r,
         \A d \in DaySet, o \in Outcomes : dayLock[d] = r \/ settler[r].step = "write" =>
           SettledOn(d, o)' = SettledOn(d, o)
  PROVE  DraftEnough(r)' /\ NewEnough(r)'
<1> DEFINE w == settler[r]
<1>1. \A t \in Trades : w.done[t] # NoDay => result'[t] = result[t]
  BY DEF SettlerIsSound, DoneIsSettled
<1>2. \A d \in DaySet : DoneLost(r, d)' = DoneLost(r, d)
  BY <1>1, Rows DEF DoneLost
<1>3. \A d \in DaySet : dayLock[d] = r \/ w.step = "write" => Lost(d)' = Lost(d)
  BY DEF Lost, Outcomes
<1>4. \A d \in DaySet : dayLock[d] = r \/ w.step = "write" => (OnlyLosses(r, d)' => OnlyLosses(r, d))
  BY <1>1, Rows DEF OnlyLosses, Outcomes
<1>5. DraftEnough(r)'
  BY <1>2, <1>3, <1>4 DEF DraftEnough
<1>6. NewEnough(r)'
  <2> SUFFICES ASSUME w.step = "write" PROVE NewEnough(r)'
    BY DEF NewEnough
  <2>1. w.next \in Trades /\ result'[w.next] = result[w.next]
    BY NextTrade DEF SettlerIsSound, ListIsSound, Outcomes
  <2> DEFINE d == w.day
  <2>2. d \in DaySet
    BY DEF TypeOK, Settlement
  <2>3. DoneLost(r, w.day)' = DoneLost(r, d) /\ Lost(w.day)' = Lost(d)
    BY <1>2, <1>3, <2>2 DEF DoneLost, Lost, SettledOn
  <2>4. OnlyLosses(r, w.day)' => OnlyLosses(r, d)
    BY <1>4, <2>2 DEF OnlyLosses, SettledOn
  <2> QED
    BY <2>1, <2>3, <2>4 DEF NewEnough
<1> QED
  BY <1>5, <1>6

\* A session with no lock, and nothing to write, owes nothing.
LEMMA NothingOwed ==
  ASSUME NEW s \in Settlers, settler'[s].step # "write", \A d \in DaySet : dayLock'[d] # s
  PROVE  DraftEnough(s)' /\ NewEnough(s)'
BY DEF DraftEnough, NewEnough

\* What settles nothing and changes no counter.
LEMMA EnoughElsewhere ==
  ASSUME IInv, EnoughInv, settler' = settler, settledOn' = settledOn, ~crowded' => ~crowded,
         \A t \in Trades : result[t] # "OPEN" => result'[t] = result[t],
         \A d \in DaySet, r \in Settlers : dayLock'[d] = r <=> dayLock[d] = r,
         \A d \in DaySet : LossOf(risk'[d]) = LossOf(risk[d]),
         \A t \in Trades : \/ trade'[t].status = trade[t].status
                           \/ trade[t].status \notin Outcomes /\ trade'[t].status \notin Outcomes
  PROVE  EnoughInv'
<1> SUFFICES ASSUME ~crowded PROVE EnoughInv'
  BY DEF EnoughInv
<1>1. TypeOK /\ TradesAreSound /\ \A r \in Settlers : SettlerIsSound(r)
  BY DEF IInv
<1>2. \A d \in DaySet, o \in Outcomes : SettledOn(d, o)' = SettledOn(d, o)
  BY <1>1, SettledKept
<1>3. ASSUME NEW r \in Settlers PROVE DraftEnough(r)' /\ NewEnough(r)'
  <2>1. SettlerIsSound(r) /\ DraftEnough(r) /\ NewEnough(r)
    BY <1>1 DEF EnoughInv
  <2> QED
    BY <1>1, <1>2, <2>1, EnoughKept
<1>4. \A d \in DaySet : RowEnough(d)'
  <2>1. \A d \in DaySet : RowEnough(d) /\ LossOf(risk[d])' = LossOf(risk[d])
    BY DEF EnoughInv, LossOf
  <2>2. \A d \in DaySet : SettledOn(d, "WON")' = SettledOn(d, "WON") /\ Lost(d)' = Lost(d)
    BY <1>2 DEF Outcomes, Lost
  <2> QED
    BY <2>1, <2>2 DEF RowEnough
<1> QED
  BY <1>3, <1>4 DEF EnoughInv

LEMMA EnoughOutside ==
  ASSUME IInv, EnoughInv,
         \/ TradingStep \/ CrashTrading \/ ToggleLimit \/ Tick \/ UNCHANGED vars
         \/ \E t \in Trades : CheckTrade(t) \/ \E o \in Outcomes : Announce(t, o)
  PROVE  EnoughInv'
<1>1. TypeOK /\ TradesAreSound
  BY DEF IInv
<1>2. ASSUME NEW commit \in BOOLEAN, EndTrading(commit) PROVE EnoughInv'
  <2>1. /\ UNCHANGED <<settler, settledOn, crowded, result>>
        /\ trade' = [t \in Trades |-> IF commit /\ t \in trader.placed
                                      THEN [trade[t] EXCEPT !.status = "OPEN"] ELSE trade[t]]
    BY <1>2 DEF EndTrading, history
  <2>2. \A d \in DaySet, r \in Settlers : dayLock'[d] = r <=> dayLock[d] = r
    BY <1>2, EndFields, SessionsAreDistinct
  <2>3. \A d \in DaySet : LossOf(risk'[d]) = LossOf(risk[d])
    BY <1>2, EndFields
  <2>4. \A t \in Trades : trade[t] \in [status : Outcomes \union {"NONE", "OPEN"}, at : 0..(Horizon - 1)]
    BY <1>1 DEF TypeOK
  <2>5. \A t \in Trades : t \in trader.placed => trade[t].status = "NONE"
    BY <1>1 DEF TradesAreSound
  <2>6. \A t \in Trades : \/ trade'[t].status = trade[t].status
                          \/ trade[t].status \notin Outcomes /\ trade'[t].status \notin Outcomes
    BY <2>1, <2>4, <2>5 DEF Outcomes
  <2> QED
    BY <2>1, <2>2, <2>3, <2>6, EnoughElsewhere
<1>3. ASSUME UNCHANGED <<settler, settledOn, crowded, risk>>,
             \A t \in Trades : result[t] # "OPEN" => result'[t] = result[t],
             \A d \in DaySet, r \in Settlers : dayLock'[d] = r <=> dayLock[d] = r,
             \A t \in Trades : trade'[t].status = trade[t].status
      PROVE  EnoughInv'
  <2>1. \A d \in DaySet : LossOf(risk'[d]) = LossOf(risk[d])
    BY <1>3
  <2> QED
    BY <1>3, <2>1, EnoughElsewhere
<1>4. ASSUME StartTrading PROVE EnoughInv'
  <2>1. UNCHANGED <<settler, settledOn, crowded, risk, result, trade>>
    BY <1>4 DEF StartTrading, history
  <2>2. /\ risk[Today] = NoRow => dayLock[Today] = None
        /\ dayLock' = IF risk[Today] = NoRow THEN [dayLock EXCEPT ![Today] = Trader] ELSE dayLock
    BY <1>4 DEF StartTrading
  <2>3. \A d \in DaySet, s \in Settlers : dayLock'[d] = s <=> dayLock[d] = s
    BY <1>1, <2>2, SessionsAreDistinct DEF TypeOK
  <2> QED
    BY <1>3, <2>1, <2>3
<1>5. ASSUME ClearStaleCooldown PROVE EnoughInv'
  <2>1. UNCHANGED <<settler, settledOn, crowded, risk, result, trade>>
    BY <1>5 DEF ClearStaleCooldown, history
  <2>2. dayLock[Today] \in {None, Trader} /\ dayLock' = [dayLock EXCEPT ![Today] = Trader]
    BY <1>5 DEF ClearStaleCooldown
  <2>3. \A d \in DaySet, s \in Settlers : dayLock'[d] = s <=> dayLock[d] = s
    BY <1>1, <2>2, SessionsAreDistinct DEF TypeOK
  <2> QED
    BY <1>3, <2>1, <2>3
<1>6. ASSUME PlaceTrade PROVE EnoughInv'
  <2>1. UNCHANGED <<settler, settledOn, crowded, risk, result, dayLock>>
        /\ trade' = [trade EXCEPT ![trader.cleared].at = now]
    BY <1>6 DEF PlaceTrade, history
  <2>2. \A t \in Trades : trade'[t].status = trade[t].status
    BY <1>1, <2>1 DEF TypeOK
  <2> QED
    BY <1>3, <2>1, <2>2
<1>7. ASSUME \/ SkipTrade \/ ToggleLimit \/ UNCHANGED vars \/ \E t \in Trades : CheckTrade(t) PROVE EnoughInv'
  <2>1. UNCHANGED <<settler, settledOn, crowded, risk, result, dayLock, trade>>
    BY <1>7 DEF SkipTrade, ToggleLimit, vars, CheckTrade, history
  <2> QED
    BY <1>3, <2>1
<1>8. ASSUME NEW t \in Trades, NEW o \in Outcomes, Announce(t, o) PROVE EnoughInv'
  <2>1. UNCHANGED <<settler, settledOn, crowded, risk, dayLock, trade>>
        /\ result[t] = "OPEN" /\ result' = [result EXCEPT ![t] = o]
    BY <1>8 DEF Announce, history
  <2>2. \A x \in Trades : result[x] # "OPEN" => result'[x] = result[x]
    BY <1>1, <2>1 DEF TypeOK
  <2> QED
    BY <1>3, <2>1, <2>2
<1>9. ASSUME Tick PROVE EnoughInv'
  <2>1. UNCHANGED <<settler, settledOn, risk, dayLock, trade, result>> /\ (~crowded' => ~crowded)
    BY <1>9 DEF Tick
  <2>2. \A d \in DaySet : LossOf(risk'[d]) = LossOf(risk[d])
    BY <2>1
  <2> QED
    BY <2>1, <2>2, EnoughElsewhere
<1> QED
  BY <1>2, <1>4, <1>5, <1>6, <1>7, <1>8, <1>9 DEF TradingStep, CommitTrading, ReturnEarly, CrashTrading

\* A step of one session that settles nothing yet.
LEMMA EnoughWork ==
  ASSUME IInv, EnoughInv, NEW s \in Settlers,
         UNCHANGED <<settledOn, trade, result, risk>>, ~crowded' => ~crowded,
         \A r \in Settlers : r # s => settler'[r] = settler[r],
         \A d \in DaySet, r \in Settlers : r # s => (dayLock'[d] = r <=> dayLock[d] = r),
         ~crowded => DraftEnough(s)' /\ NewEnough(s)'
  PROVE  EnoughInv'
<1> SUFFICES ASSUME ~crowded PROVE EnoughInv'
  BY DEF EnoughInv
<1>1. TypeOK /\ TradesAreSound /\ \A r \in Settlers : SettlerIsSound(r)
  BY DEF IInv
<1>2. \A d \in DaySet, o \in Outcomes : SettledOn(d, o)' = SettledOn(d, o)
  BY DEF SettledOn
<1>3. ASSUME NEW r \in Settlers, r # s PROVE DraftEnough(r)' /\ NewEnough(r)'
  <2>1. SettlerIsSound(r) /\ DraftEnough(r) /\ NewEnough(r)
    BY <1>1 DEF EnoughInv
  <2> QED
    BY <1>1, <1>2, <1>3, <2>1, EnoughKept
<1>4. \A d \in DaySet : RowEnough(d)'
  <2>1. \A d \in DaySet : RowEnough(d) /\ LossOf(risk[d])' = LossOf(risk[d])
    BY DEF EnoughInv, LossOf
  <2>2. \A d \in DaySet : SettledOn(d, "WON")' = SettledOn(d, "WON") /\ Lost(d)' = Lost(d)
    BY <1>2 DEF Outcomes, Lost
  <2> QED
    BY <2>1, <2>2 DEF RowEnough
<1> QED
  BY <1>3, <1>4 DEF EnoughInv

LEMMA EnoughBegin ==
  ASSUME IInv, EnoughInv, NEW s \in Settlers, BeginSettlement(s)
  PROVE  EnoughInv'
<1>1. TypeOK /\ SettlerIsSound(s)
  BY DEF IInv
<1>2. /\ settler'[s].step = "settle" /\ \A r \in Settlers : r # s => settler'[r] = settler[r]
  BY <1>1, BeginFields
<1>3. /\ UNCHANGED <<settledOn, trade, result, risk, dayLock>> /\ settler[s].step = "idle"
      /\ crowded' = (crowded \/ UnderWay \intersect tied # {})
  BY DEF BeginSettlement
<1>4. settler[s] = Idle
  BY <1>1, <1>3 DEF SettlerIsSound, ListIsSound
<1>5. \A d \in DaySet : dayLock[d] # s
  BY <1>1, <1>4, IdleType, Rows DEF SettlerIsSound, RowsAreLocked
<1>6. DraftEnough(s)' /\ NewEnough(s)'
  BY <1>2, <1>3, <1>5, NothingOwed
<1> QED
  BY <1>2, <1>3, <1>6, EnoughWork

LEMMA EnoughSettle ==
  ASSUME IInv, EnoughInv, NEW s \in Settlers, SettleTrade(s)
  PROVE  EnoughInv'
<1>1. TypeOK
  BY DEF IInv
<1>2. /\ settler'[s].step = "load" /\ settler'[s].todo = settler[s].todo
      /\ settler'[s].done = settler[s].done /\ settler'[s].draft = settler[s].draft
      /\ \A r \in Settlers : r # s => settler'[r] = settler[r]
  BY <1>1, SettleFields
<1>3. UNCHANGED <<settledOn, trade, result, risk, dayLock, crowded>>
  BY DEF SettleTrade, history
<1>4. ~crowded => DraftEnough(s)' /\ NewEnough(s)'
  <2>1. NewEnough(s)'
    BY <1>2 DEF NewEnough
  <2>2. \A d \in DaySet : /\ Lost(d)' = Lost(d) /\ DoneLost(s, d)' = DoneLost(s, d)
                          /\ OnlyLosses(s, d)' <=> OnlyLosses(s, d)
    BY <1>2, <1>3 DEF OnlyLosses, Lost, DoneLost, SettledOn
  <2>3. DraftEnough(s) => DraftEnough(s)'
    BY <1>2, <1>3, <2>2 DEF DraftEnough
  <2> QED
    BY <2>1, <2>3 DEF EnoughInv
<1> QED
  BY <1>2, <1>3, <1>4, EnoughWork

LEMMA EnoughLoad ==
  ASSUME IInv, EnoughInv, NEW s \in Settlers, LoadDay(s)
  PROVE  EnoughInv'
<1>1. TypeOK /\ SettlerIsSound(s)
  BY DEF IInv
<1> DEFINE w == settler[s]
           n == w.next
           d == Today
           seen == RowSeenBy(s, d)
           new == AfterOutcome(Base(seen), result[n])
<1>2. UNCHANGED <<now, settledOn, trade, result, risk, dayLock, crowded>> /\ w.step = "load"
  BY DEF LoadDay, history
<1>3. n \in w.todo /\ n \in Trades /\ result[n] \in Outcomes /\ w.todo \in SUBSET Trades
  <2>1. w.todo # {}
    BY <1>1, <1>2 DEF SettlerIsSound, ListIsSound
  <2>2. w.todo \in SUBSET Trades
    BY <1>1 DEF TypeOK, Settlement
  <2> QED
    BY <1>1, <2>1, <2>2, NextTrade
<1>4. /\ settler'[s].step = "write" /\ settler'[s].day = d /\ settler'[s].new = new
      /\ settler'[s].todo = w.todo /\ settler'[s].next = n
      /\ settler'[s].done = w.done /\ settler'[s].draft = w.draft
      /\ \A r \in Settlers : r # s => settler'[r] = settler[r]
  BY <1>1, <1>3, LoadFields DEF Outcomes
<1>5. d \in DaySet /\ seen \in Row \union {NoRow} /\ LossOf(seen) \in Nat
      /\ (result[n] = "LOST" => new.losses = LossOf(seen) + 1)
  <2>1. d \in DaySet
    BY <1>1, TodayType DEF TypeOK
  <2>2. seen \in Row \union {NoRow}
    BY <1>1, <2>1, SeenType
  <2> QED
    BY <1>1, <1>3, <2>1, <2>2, OutcomeType
<1>6. seen = IF dayLock[d] = s THEN w.draft[d] ELSE risk[d]
  BY DEF RowSeenBy
<1>7. DraftEnough(s) => DraftEnough(s)'
  BY <1>2, <1>4 DEF DraftEnough, OnlyLosses, Lost, DoneLost, SettledOn
<1> DEFINE lost == Lost(d)
           done == DoneLost(s, d)
           only == OnlyLosses(s, d)
<1>8. lost \in SUBSET Trades /\ done \in SUBSET Trades
  BY DEF Lost, SettledOn, DoneLost
<1>9. ~crowded /\ only => LossOf(seen) + Cardinality(w.todo \intersect lost) >= Cardinality(lost \union done)
  <2>1. CASE dayLock[d] = s
    <3>1. w.draft[d] \in Row
      BY <1>1, <1>5, <2>1 DEF SettlerIsSound, RowsAreLocked
    <3>2. LossOf(seen) = w.draft[d].losses
      BY <1>6, <2>1, <3>1, Rows DEF LossOf
    <3>3. ~crowded /\ only => w.draft[d].losses + Cardinality(w.todo \intersect lost) >= Cardinality(lost \union done)
      BY <1>5, <2>1 DEF EnoughInv, DraftEnough
    <3> HIDE DEF w, lost, done, only, seen
    <3> QED
      BY <3>2, <3>3
  <2>2. CASE dayLock[d] # s
    <3>1. done = {}
      BY <1>1, <1>5, <2>2 DEF SettlerIsSound, RowsAreLocked, DoneLost
    <3>2. ~crowded /\ only => LossOf(seen) >= Cardinality(lost)
      BY <1>5, <1>6, <2>2 DEF EnoughInv, RowEnough, OnlyLosses
    <3>3. Cardinality(w.todo \intersect lost) \in Nat /\ Cardinality(lost) \in Nat
      BY <1>8, Finite
    <3>4. lost \union done = lost
      BY <3>1
    <3>5. LossOf(seen) \in Nat
      BY <1>5
    <3> HIDE DEF w, lost, done, only, seen
    <3>6. ~crowded /\ only => LossOf(seen) + Cardinality(w.todo \intersect lost) >= Cardinality(lost)
      BY <3>2, <3>3, <3>5
    <3> QED
      BY <3>4, <3>6
  <2> QED
    BY <2>1, <2>2
<1>10. NewEnough(s)' <=>
         (only /\ result[n] = "LOST" =>
            new.losses + Cardinality((w.todo \ {n}) \intersect lost) >= Cardinality(lost \union done \union {n}))
  BY <1>2, <1>4 DEF NewEnough, OnlyLosses, Lost, DoneLost, SettledOn
<1>11. ~crowded => NewEnough(s)'
  <2> HIDE DEF w, n, d, seen, new, lost, done, only
  <2> SUFFICES ASSUME ~crowded, only, result[n] = "LOST"
               PROVE  new.losses + Cardinality((w.todo \ {n}) \intersect lost)
                        >= Cardinality(lost \union done \union {n})
    BY <1>10
  <2>1. LossOf(seen) + 1 + Cardinality((w.todo \ {n}) \intersect lost) >= Cardinality(lost \union done \union {n})
    BY <1>3, <1>5, <1>8, <1>9, OneMore
  <2> QED
    BY <1>5, <2>1
<1>12. ~crowded => DraftEnough(s)
  BY DEF EnoughInv
<1> QED
  BY <1>2, <1>4, <1>7, <1>11, <1>12, EnoughWork

LEMMA EnoughCount ==
  ASSUME IInv, EnoughInv, MeetInv, NEW s \in Settlers, NEW holder, NEW row, settler[s].step = "write",
         Written(s, holder, row), Counted(s, holder, row),
         \/ holder = s /\ (result[settler[s].next] = "LOST" => row.losses = settler[s].new.losses)
         \/ result[settler[s].next] = "WON"
  PROVE  EnoughInv'
<1>1. TypeOK /\ SettlerIsSound(s)
  BY DEF IInv
<1> DEFINE w == settler[s]
           n == w.next
           d == w.day
<1>2. n \in w.todo /\ n \in Trades /\ result[n] \in Outcomes /\ w.done[n] = NoDay
  BY <1>1, NextTrade DEF SettlerIsSound, ListIsSound
<1>3. w \in Settlement
  BY <1>1 DEF TypeOK
<1>4. d \in DaySet /\ w.draft \in [DaySet -> Row \union {NoRow}] /\ w.done \in [Trades -> DaySet \union {NoDay}]
  BY <1>3 DEF Settlement
<1>5. row \in Row \union {NoRow} /\ (holder = s \/ holder = dayLock[d])
  BY <1>4 DEF Written
<1>6. /\ settler'[s].step = "settle" /\ settler'[s].todo = w.todo \ {n}
      /\ settler'[s].draft = [w.draft EXCEPT ![d] = row]
      /\ settler'[s].done = [w.done EXCEPT ![n] = d]
      /\ \A r \in Settlers : r # s => settler'[r] = settler[r]
  BY <1>1, <1>2, <1>5, CountedFields, ZenonT(40) DEF Outcomes
<1>7. dayLock' = [dayLock EXCEPT ![d] = holder] /\ UNCHANGED <<now, settledOn, trade, result, risk, crowded>>
  BY DEF Counted, history
<1>8. \A e \in DaySet : dayLock'[e] = IF e = d THEN holder ELSE dayLock[e]
  BY <1>1, <1>4, <1>7 DEF TypeOK
<1>9. \/ holder = s /\ (result[n] = "LOST" => row.losses = w.new.losses)
      \/ result[n] = "WON"
  OBVIOUS
<1>10. NewEnough(s) <=>
         (OnlyLosses(s, d) /\ result[n] = "LOST" =>
            w.new.losses + Cardinality((w.todo \ {n}) \intersect Lost(d))
              >= Cardinality(Lost(d) \union DoneLost(s, d) \union {n}))
  BY DEF NewEnough
<1>11. ~crowded => \A t \in Listed(s) : settledOn[t] # NoDay => settledOn[t] = d
  BY DEF MeetInv, Stale, TodayOnly, Working
<1>13. dayLock[d] \in {None, s} \/ holder = dayLock[d]
  BY DEF Written
<1>14. n \in Listed(s)
  BY <1>2 DEF Listed
<1> HIDE DEF w, n, d
<1>15. \A t \in Trades : settler'[s].done[t] = IF t = n THEN d ELSE w.done[t]
  BY <1>2, <1>4, <1>6
<1>16. \A e \in DaySet : DoneLost(s, e) = {t \in Trades : w.done[t] = e /\ result[t] = "LOST"}
  BY DEF DoneLost, w
<1>17. \A e \in DaySet : OnlyLosses(s, e) <=>
         SettledOn(e, "WON") = {} /\ \A t \in Trades : w.done[t] = e => result[t] = "LOST"
  BY DEF OnlyLosses, w
<1>18. \A e \in DaySet : Lost(e)' = Lost(e) /\ SettledOn(e, "WON")' = SettledOn(e, "WON")
  BY <1>7 DEF Lost, SettledOn
<1>19. \A e \in DaySet : OnlyLosses(s, e)' => OnlyLosses(s, e) /\ (e = d => result[n] = "LOST")
  BY <1>2, <1>4, <1>7, <1>15, <1>17, <1>18, Rows DEF OnlyLosses
<1>20. \A e \in DaySet : DoneLost(s, e)' = IF e = d /\ result[n] = "LOST" THEN DoneLost(s, e) \union {n} ELSE DoneLost(s, e)
  <2> SUFFICES ASSUME NEW e \in DaySet
               PROVE  DoneLost(s, e)' = IF e = d /\ result[n] = "LOST" THEN DoneLost(s, e) \union {n} ELSE DoneLost(s, e)
    OBVIOUS
  <2>1. DoneLost(s, e)' = {t \in Trades : (IF t = n THEN d ELSE w.done[t]) = e /\ result[t] = "LOST"}
    BY <1>7, <1>15 DEF DoneLost
  <2>2. w.done[n] # e
    BY <1>2, Rows DEF w, n
  <2> QED
    BY <1>2, <1>16, <2>1, <2>2
<1>21. ASSUME ~crowded, NEW e \in DaySet, dayLock'[e] = s, OnlyLosses(s, e)'
       PROVE  settler'[s].draft[e].losses + Cardinality(settler'[s].todo \intersect Lost(e)')
                >= Cardinality(Lost(e)' \union DoneLost(s, e)')
  <2>1. CASE e = d
    <3>1. result[n] = "LOST" /\ OnlyLosses(s, d)
      BY <1>19, <1>21, <2>1
    <3>2. settler'[s].draft[d].losses = w.new.losses
      <4>1. settler'[s].draft[d] = row
        BY <1>4, <1>6
      <4> QED
        BY <1>9, <3>1, <4>1
    <3>3. w.new.losses + Cardinality((w.todo \ {n}) \intersect Lost(d))
            >= Cardinality(Lost(d) \union DoneLost(s, d) \union {n})
      BY <1>10, <1>21, <3>1 DEF EnoughInv
    <3>4. Lost(d) \union (DoneLost(s, d) \union {n}) = Lost(d) \union DoneLost(s, d) \union {n}
      OBVIOUS
    <3>5. Lost(e)' = Lost(d) /\ DoneLost(s, e)' = DoneLost(s, d) \union {n}
      BY <1>18, <1>20, <2>1, <3>1
    <3> QED
      BY <1>6, <2>1, <3>2, <3>3, <3>4, <3>5
  <2>2. CASE e # d
    <3>1. dayLock[e] = s
      BY <1>8, <1>21, <2>2
    <3>2. w.draft[e].losses + Cardinality(w.todo \intersect Lost(e)) >= Cardinality(Lost(e) \union DoneLost(s, e))
      BY <1>19, <1>21, <3>1 DEF EnoughInv, DraftEnough, w
    <3>3. n \notin Lost(e)
      <4>1. settledOn[n] # e
        BY <1>11, <1>14, <1>21, <2>2, Rows
      <4> QED
        BY <4>1 DEF Lost, SettledOn
    <3>4. (w.todo \ {n}) \intersect Lost(e) = w.todo \intersect Lost(e)
      BY <3>3
    <3>5. settler'[s].draft[e] = w.draft[e]
      BY <1>4, <1>6, <2>2
    <3>6. Lost(e)' = Lost(e) /\ DoneLost(s, e)' = DoneLost(s, e)
      BY <1>18, <1>20, <2>2
    <3> QED
      BY <1>6, <3>2, <3>4, <3>5, <3>6
  <2> QED
    BY <2>1, <2>2
<1>22. ~crowded => DraftEnough(s)' /\ NewEnough(s)'
  BY <1>6, <1>21 DEF DraftEnough, NewEnough
<1>23. \A e \in DaySet, r \in Settlers : r # s => (dayLock'[e] = r <=> dayLock[e] = r)
  BY <1>5, <1>8, <1>13, SessionsAreDistinct
<1> QED
  BY <1>6, <1>7, <1>22, <1>23, EnoughWork

LEMMA EnoughCountOutcome ==
  ASSUME IInv, EnoughInv, MeetInv, NEW s \in Settlers, CountNothing(s) \/ CountOutcome(s)
  PROVE  EnoughInv'
<1>1. CASE CountNothing(s)
  BY <1>1, CountNothingWritten, EnoughCount
<1>2. CASE CountOutcome(s)
  BY <1>2, CountOutcomeWritten, EnoughCount
<1> QED
  BY <1>1, <1>2

LEMMA EnoughAbandon ==
  ASSUME IInv, EnoughInv, NEW s \in Settlers, Abandon(s)
  PROVE  EnoughInv'
<1>1. TypeOK
  BY DEF IInv
<1>2. /\ settler' = [settler EXCEPT ![s] = Idle] /\ dayLock' = Released(dayLock, s)
      /\ UNCHANGED <<settledOn, trade, result, risk, crowded>>
  BY DEF Abandon
<1>3. settler'[s].step # "write" /\ \A r \in Settlers : r # s => settler'[r] = settler[r]
  BY <1>1, <1>2, IdleType DEF TypeOK
<1>4. \A d \in DaySet, r \in Settlers : dayLock'[d] = r <=> dayLock[d] = r /\ r # s
  BY <1>1, <1>2, ReleasedLocks
<1>5. DraftEnough(s)' /\ NewEnough(s)'
  BY <1>3, <1>4, NothingOwed
<1> QED
  BY <1>2, <1>3, <1>4, <1>5, EnoughWork

\* What a commit settles for the first time.
Newly(s, d, o) == {t \in Trades : settler[s].done[t] = d /\ settledOn[t] = NoDay /\ result[t] = o}

LEMMA CommitSettles ==
  ASSUME IInv, NEW s \in Settlers, CommitSettlement(s)
  PROVE  \A d \in DaySet, o \in Outcomes : SettledOn(d, o)' = SettledOn(d, o) \union Newly(s, d, o)
<1>1. TypeOK /\ SettlerIsSound(s) /\ TradesAreSound
  BY DEF IInv
<1>2. /\ settler[s].step = "settle"
      /\ trade' = [t \in Trades |-> IF tradeLock[t] = s THEN [trade[t] EXCEPT !.status = result[t]] ELSE trade[t]]
      /\ settledOn' = [t \in Trades |-> IF settledOn[t] = NoDay THEN settler[s].done[t] ELSE settledOn[t]]
  BY DEF CommitSettlement
<1>3. \A t \in Trades : tradeLock[t] = s <=> settler[s].done[t] # NoDay
  BY <1>1, <1>2 DEF SettlerIsSound, LocksAreDone
<1>4. \A t \in Trades : trade[t] \in [status : Outcomes \union {"NONE", "OPEN"}, at : 0..(Horizon - 1)]
  BY <1>1 DEF TypeOK
<1>5. \A t \in Trades : trade'[t].status = IF settler[s].done[t] # NoDay THEN result[t] ELSE trade[t].status
  BY <1>2, <1>3, <1>4
<1> SUFFICES ASSUME NEW d \in DaySet, NEW o \in Outcomes, NEW t \in Trades
             PROVE  settledOn'[t] = d /\ trade'[t].status = o <=>
                      \/ settledOn[t] = d /\ trade[t].status = o
                      \/ settler[s].done[t] = d /\ settledOn[t] = NoDay /\ result[t] = o
  BY DEF SettledOn, Newly
<1>6. d # NoDay
  BY Rows
<1>7. settledOn[t] # NoDay => trade[t].status \in Outcomes /\ trade[t].status = result[t]
  BY <1>1 DEF TradesAreSound
<1>8. settledOn'[t] = IF settledOn[t] = NoDay THEN settler[s].done[t] ELSE settledOn[t]
  BY <1>2
<1> QED
  BY <1>5, <1>6, <1>7, <1>8

LEMMA EnoughCommit ==
  ASSUME IInv, EnoughInv, MeetInv, NEW s \in Settlers, CommitSettlement(s)
  PROVE  EnoughInv'
<1>1. TypeOK /\ TradesAreSound /\ \A r \in Settlers : SettlerIsSound(r)
  BY DEF IInv
<1>2. /\ settler' = [settler EXCEPT ![s] = Idle] /\ dayLock' = Released(dayLock, s)
      /\ risk' = [d \in DaySet |-> IF dayLock[d] = s THEN settler[s].draft[d] ELSE risk[d]]
      /\ UNCHANGED <<result, crowded>>
      /\ settler[s].step = "settle" /\ settler[s].todo = {}
  BY DEF CommitSettlement
<1> SUFFICES ASSUME ~crowded PROVE EnoughInv'
  BY <1>2 DEF EnoughInv
<1>3. settler'[s].step # "write" /\ \A r \in Settlers : r # s => settler'[r] = settler[r]
  BY <1>1, <1>2, IdleType DEF TypeOK
<1>4. \A d \in DaySet, r \in Settlers : dayLock'[d] = r <=> dayLock[d] = r /\ r # s
  BY <1>1, <1>2, ReleasedLocks
<1>5. /\ \A d \in DaySet : Lost(d)' = Lost(d) \union Newly(s, d, "LOST")
      /\ \A d \in DaySet : SettledOn(d, "WON")' = SettledOn(d, "WON") \union Newly(s, d, "WON")
  BY CommitSettles DEF Lost, Outcomes
<1>6. \A d \in DaySet : dayLock[d] # s => Newly(s, d, "LOST") = {}
  BY <1>1 DEF SettlerIsSound, RowsAreLocked, Newly
<1>7. ASSUME NEW d \in DaySet PROVE RowEnough(d)'
  <2> SUFFICES ASSUME SettledOn(d, "WON")' = {}
               PROVE  LossOf(risk'[d]) >= Cardinality(Lost(d)')
    BY DEF RowEnough, LossOf
  <2>1. SettledOn(d, "WON") = {} /\ Newly(s, d, "WON") = {}
    BY <1>5
  <2>2. CASE dayLock[d] # s
    <3>1. risk'[d] = risk[d] /\ Lost(d)' = Lost(d)
      BY <1>2, <1>5, <1>6, <2>2
    <3> QED
      BY <2>1, <3>1 DEF EnoughInv, RowEnough
  <2>3. CASE dayLock[d] = s
    <3>1. ASSUME NEW t \in Trades, settler[s].done[t] = d PROVE result[t] = "LOST"
      <4>1. settler[s].done[t] # NoDay
        BY <3>1, Rows
      <4>2. result[t] \in Outcomes
        BY <1>1, <4>1 DEF TypeOK, SettlerIsSound, DoneIsSettled
      <4> SUFFICES ASSUME result[t] = "WON" PROVE FALSE
        BY <4>2 DEF Outcomes
      <4>3. settledOn[t] # NoDay
        BY <2>1, <3>1 DEF Newly
      <4>4. t \in DoneBy(s) /\ t \in Stale(s) /\ Working(s)
        BY <1>2, <4>1, <4>3 DEF DoneBy, Stale, Listed, Working
      <4>5. settledOn[t] = Today /\ settler[s].done[t] = Today
        BY <4>4 DEF MeetInv, TodayOnly
      <4>6. trade[t].status = "WON"
        BY <1>1, <4>3 DEF TradesAreSound
      <4> QED
        BY <2>1, <3>1, <4>5, <4>6 DEF SettledOn
    <3>2. OnlyLosses(s, d)
      BY <2>1, <3>1 DEF OnlyLosses
    <3>3. settler[s].draft[d].losses + Cardinality(settler[s].todo \intersect Lost(d))
            >= Cardinality(Lost(d) \union DoneLost(s, d))
      BY <2>3, <3>2 DEF EnoughInv, DraftEnough
    <3>4. settler[s].draft[d] \in Row /\ risk'[d] = settler[s].draft[d]
      BY <1>1, <1>2, <2>3 DEF SettlerIsSound, RowsAreLocked
    <3>5. LossOf(risk'[d]) = settler[s].draft[d].losses /\ settler[s].draft[d].losses \in Nat
      BY <3>4, Rows DEF LossOf, Row
    <3>6. Cardinality(settler[s].todo \intersect Lost(d)) = 0
      <4>1. settler[s].todo \intersect Lost(d) = {}
        BY <1>2
      <4> QED
        BY <4>1, FS_EmptySet
    <3>7. /\ Lost(d) \union DoneLost(s, d) \in SUBSET Trades
          /\ Lost(d)' \in SUBSET (Lost(d) \union DoneLost(s, d))
      BY <1>5 DEF Lost, SettledOn, DoneLost, Newly
    <3>8. /\ Cardinality(Lost(d)') <= Cardinality(Lost(d) \union DoneLost(s, d))
          /\ Cardinality(Lost(d)') \in Nat /\ Cardinality(Lost(d) \union DoneLost(s, d)) \in Nat
      <4>1. IsFiniteSet(Lost(d) \union DoneLost(s, d)) /\ Cardinality(Lost(d) \union DoneLost(s, d)) \in Nat
        BY <3>7, Finite
      <4>2. Lost(d)' \in SUBSET Trades
        BY <3>7
      <4> QED
        BY <3>7, <4>1, <4>2, Finite, FS_Subset
    <3> QED
      BY <3>3, <3>5, <3>6, <3>8
  <2> QED
    BY <2>2, <2>3
<1>8. ASSUME NEW r \in Settlers, r # s, NEW d \in DaySet, dayLock[d] = r
      PROVE  \A o \in Outcomes : OnlyLosses(r, d)' => SettledOn(d, o)' = SettledOn(d, o)
  <2>1. dayLock[d] # s
    BY <1>8
  <2>2. Newly(s, d, "LOST") = {} /\ (SettledOn(d, "WON")' = {} => SettledOn(d, "WON") = {})
    BY <1>5, <1>6, <2>1
  <2> QED
    BY <1>5, <2>2 DEF OnlyLosses, Outcomes, Lost
<1>9. ASSUME NEW r \in Settlers, r # s PROVE DraftEnough(r)' /\ NewEnough(r)'
  <2> DEFINE w == settler[r]
  <2>1. settler'[r] = w /\ result' = result
    BY <1>2, <1>3, <1>9
  <2>2. \A d \in DaySet : DoneLost(r, d)' = DoneLost(r, d) /\ (OnlyLosses(r, d)' => OnlyLosses(r, d))
    BY <1>5, <2>1 DEF DoneLost, OnlyLosses
  <2>3. DraftEnough(r)'
    <3> SUFFICES ASSUME NEW d \in DaySet, dayLock[d] = r, OnlyLosses(r, d)'
                 PROVE  w.draft[d].losses + Cardinality(w.todo \intersect Lost(d)')
                          >= Cardinality(Lost(d)' \union DoneLost(r, d)')
      BY <1>4, <2>1 DEF DraftEnough
    <3>1. Lost(d)' = Lost(d)
      BY <1>8, <1>9 DEF Lost, Outcomes
    <3> QED
      BY <2>2, <3>1 DEF EnoughInv, DraftEnough
  <2>4. NewEnough(r)'
    <3> DEFINE d == w.day
               n == w.next
               more == Newly(s, d, "LOST")
               left == w.todo \ {n}
               told == DoneLost(r, d) \union {n}
               lost == Lost(d)
    <3>1. d \in DaySet /\ w.todo \in SUBSET Trades
      BY <1>1 DEF TypeOK, Settlement
    <3>2. \A e \in DaySet : e = d => Lost(e)' = lost \union more /\ DoneLost(r, e)' = DoneLost(r, d)
                                     /\ (OnlyLosses(r, e)' => OnlyLosses(r, d))
      BY <1>5, <2>2
    <3>3. /\ Lost(w.day)' = lost \union more /\ DoneLost(r, w.day)' = DoneLost(r, d)
          /\ OnlyLosses(r, w.day)' => OnlyLosses(r, d)
      <4>1. \A e \in DaySet : e = d =>
              /\ Lost(w.day)' = Lost(e)' /\ DoneLost(r, w.day)' = DoneLost(r, e)'
              /\ OnlyLosses(r, w.day)' <=> OnlyLosses(r, e)'
        BY <2>1 DEF OnlyLosses, Lost, DoneLost, SettledOn
      <4> QED
        BY <3>1, <3>2, <4>1
    <3> SUFFICES ASSUME w.step = "write", OnlyLosses(r, d), result[n] = "LOST"
                 PROVE  w.new.losses + Cardinality(left \intersect (lost \union more))
                          >= Cardinality((lost \union more) \union told)
      <4>1. (lost \union more) \union told = (lost \union more) \union DoneLost(r, d) \union {n}
        OBVIOUS
      <4> QED
        BY <2>1, <3>3, <4>1 DEF NewEnough
    <3>4. w.new.losses + Cardinality(left \intersect lost) >= Cardinality(lost \union told)
      <4>1. lost \union told = lost \union DoneLost(r, d) \union {n}
        OBVIOUS
      <4>2. w.new.losses + Cardinality(left \intersect lost) >= Cardinality(lost \union DoneLost(r, d) \union {n})
        BY DEF EnoughInv, NewEnough
      <4> QED
        BY <4>1, <4>2
    <3>5. n \in w.todo /\ n \in Trades
      BY <1>1, NextTrade DEF SettlerIsSound, ListIsSound
    <3>6. w.new.losses \in Nat
      BY <1>1 DEF SettlerIsSound, WriteIsSound, Row
    <3>7. more \subseteq left
      <4>1. Listed(s) \subseteq Listed(r) \/ Listed(r) \subseteq Listed(s)
        BY <1>2, <1>9 DEF MeetInv, Working
      <4>2. \A t \in Trades : t \in DoneBy(s) => tradeLock[t] = s
        BY <1>1 DEF DoneBy, SettlerIsSound, LocksAreDone
      <4>3. tradeLock[n] = r /\ \A t \in Trades : t \in DoneBy(r) => tradeLock[t] = r
        BY <1>1, <3>5 DEF DoneBy, SettlerIsSound, LocksAreDone
      <4>4. Listed(s) = DoneBy(s) /\ Listed(r) = w.todo \union DoneBy(r)
        BY <1>2 DEF Listed
      <4>5. n \notin DoneBy(s)
        BY <1>9, <3>5, <4>2, <4>3
      <4>6. DoneBy(s) \subseteq w.todo \union DoneBy(r)
        BY <3>5, <4>1, <4>4, <4>5
      <4>7. more \subseteq DoneBy(s) /\ DoneBy(s) \subseteq Trades
        BY <3>1, Rows DEF Newly, DoneBy
      <4>8. DoneBy(s) \intersect DoneBy(r) = {}
        BY <1>9, <4>2, <4>3, <4>7
      <4> QED
        BY <4>5, <4>6, <4>7, <4>8
    <3>8. more \intersect lost = {}
      BY <3>1, Rows DEF Newly, Lost, SettledOn
    <3>9. /\ left \in SUBSET Trades /\ lost \in SUBSET Trades /\ told \in SUBSET Trades /\ more \in SUBSET Trades
      BY <3>1, <3>5 DEF Lost, SettledOn, DoneLost, Newly
    <3> HIDE DEF left, lost, told, more
    <3> QED
      BY <3>4, <3>6, <3>7, <3>8, <3>9, ManyMore
  <2> QED
    BY <2>3, <2>4
<1>10. DraftEnough(s)' /\ NewEnough(s)'
  BY <1>3, <1>4, NothingOwed
<1> QED
  BY <1>7, <1>9, <1>10 DEF EnoughInv

LEMMA EnoughNext ==
  ASSUME IInv, MeetInv, EnoughInv, [Next]_vars
  PROVE  EnoughInv'
<1>1. ASSUME NEW s \in Settlers, SettlementStep(s) \/ CrashSettlement(s) PROVE EnoughInv'
  BY <1>1, EnoughBegin, EnoughSettle, EnoughLoad, EnoughCountOutcome, EnoughAbandon, EnoughCommit
     DEF SettlementStep, CrashSettlement, DuplicateDay, DeadlockVictim
<1> QED
  BY <1>1, EnoughOutside DEF Next

LEMMA EnoughInit == Init => EnoughInv
<1> SUFFICES ASSUME Init PROVE EnoughInv
  OBVIOUS
<1>1. ASSUME NEW s \in Settlers PROVE DraftEnough(s) /\ NewEnough(s)
  <2>1. settler[s] = Idle /\ \A d \in DaySet : dayLock[d] # s
    BY SessionsAreDistinct DEF Init
  <2> QED
    BY <2>1, IdleType DEF DraftEnough, NewEnough
<1>2. ASSUME NEW d \in DaySet PROVE RowEnough(d)
  <2>1. SettledOn(d, "LOST") = {}
    BY Rows DEF Init, SettledOn
  <2>2. LossOf(risk[d]) = 0
    BY DEF Init, LossOf
  <2> QED
    BY <2>1, <2>2, FS_EmptySet DEF RowEnough, Lost
<1> QED
  BY <1>1, <1>2 DEF EnoughInv

\* On a day without a win every settled loss is in the counter, however two settlements overlap
\* on it; three in a chain, or a midnight between two, are excluded by ~crowded.
THEOREM NoLossCorrect == Spec => []NoLossForgotten
<1>1. IInv /\ EnoughInv => NoLossForgotten
  BY DEF EnoughInv, RowEnough, NoLossForgotten, Losses, LossOf, Lost
<1>2. Init => IInv /\ MeetInv /\ EnoughInv
  BY InitInv, MeetInit, EnoughInit
<1>3. IInv /\ MeetInv /\ EnoughInv /\ [Next]_vars => (IInv /\ MeetInv /\ EnoughInv)'
  BY NextInv, MeetNext, EnoughNext
<1> QED
  BY <1>1, <1>2, <1>3, PTL DEF Spec

=============================================================================
