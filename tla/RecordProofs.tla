---------------------------- MODULE RecordProofs ----------------------------
(***************************************************************************)
(* Theorems about what is written down: KalshiArchive, ForecastArchive and *)
(* Settlements, for any days, months, runs, reports and limits.            *)
(*                                                                         *)
(* Kalshi's archive: two runs may overlap, since a lock can expire under   *)
(* its owner.  What saves the archive is that all a run may do by then is  *)
(* to record its last failure (OwnerWorks, LateFailureIsLast): no other    *)
(* run commits markets between its fetch of a day and its commits.         *)
(***************************************************************************)
EXTENDS KalshiArchive, ForecastArchive, Settlements, WellFoundedInduction, TLAPS

\* A set of days, or of months, has a newest one.
LEMMA NewestExists ==
  ASSUME NEW n \in Nat, NEW S \in SUBSET (1..n), S # {}
  PROVE  \E m \in S : \A k \in S : k <= m
<1> DEFINE T == {n - k : k \in S}
<1>1. T \subseteq Nat /\ T # {}
  <2>1. \A k \in S : n - k \in Nat
    OBVIOUS
  <2> QED
    BY <2>1, Zenon
<1>2. PICK x \in T : \A y \in T : ~(<<y, x>> \in OpToRel(<, Nat))
  <2>1. \E x \in T : \A y \in T : ~(<<y, x>> \in OpToRel(<, Nat))
    BY <1>1, NatLessThanWellFounded, WFMin
  <2> QED
    BY <2>1
<1>3. \A y \in T : ~(y < x)
  BY <1>1, <1>2 DEF OpToRel
<1>4. PICK m \in S : x = n - m
  OBVIOUS
<1>5. \A k \in S : ~(n - k < n - m)
  BY <1>3, <1>4
<1>6. ASSUME NEW k \in S PROVE k <= m
  <2>1. ~(n - k < n - m) /\ k \in Nat /\ m \in Nat
    BY <1>5
  <2> QED
    BY <2>1
<1> QED
  BY <1>6

-----------------------------------------------------------------------------
(* Kalshi's archive.                                                       *)

AtWork == {"listed", "fetched", "committed"}

\* A run that has a day still to write owns the lock.
OwnerWorks ==
  \A r \in Runs :
    run[r].at \in AtWork \union {"next"} \/ (run[r].at = "more" /\ run[r].todo # {}) => lock = r

HasDay == \A r \in Runs : run[r].at \in AtWork \union {"failed"} => run[r].todo # {}

\* A run that lost the lock goes on to no other day.
LateFailureIsLast ==
  \A r \in Runs : run[r].at = "failed" /\ lock # r => \E d \in Days : run[r].todo = {d}

\* The archive is not ahead of Kalshi.
StoredIsTrue == \A d \in Days : stored[d] \in Settled => truth[d] \in Settled

\* What a run has fetched is settled if the archive already is, and no earlier than at Kalshi.
FetchedIsSound ==
  \A r \in Runs : run[r].at \in AtWork =>
    /\ run[r].got \in Settled => truth[Current(r)] \in Settled
    /\ stored[Current(r)] \in Settled => run[r].got \in Settled
    /\ run[r].at = "listed" => run[r].got \in Settled
    /\ run[r].at = "committed" /\ run[r].got \in Settled => stored[Current(r)] \in Settled

ArchiveIInv ==
  /\ ArchiveTypeOK
  /\ OwnerWorks
  /\ HasDay
  /\ LateFailureIsLast
  /\ StoredIsTrue
  /\ FetchedIsSound
  /\ SettledIsArchived

-----------------------------------------------------------------------------
\* The day a run is at is one of its list.
LEMMA CurrentIsListed ==
  ASSUME ArchiveTypeOK, NEW r \in Runs, run[r].todo # {}
  PROVE  Current(r) \in run[r].todo /\ Current(r) \in Days
<1>1. LastDay \in Nat /\ run[r].todo \in SUBSET (1..LastDay)
  BY ArchiveAssumption DEF ArchiveTypeOK, Days
<1>2. \E m \in run[r].todo : \A k \in run[r].todo : k <= m
  BY <1>1, NewestExists
<1> QED
  BY <1>1, <1>2 DEF Current, Days

LEMMA CurrentIsKept ==
  ASSUME NEW r \in Runs, run'[r].todo = run[r].todo
  PROVE  Current(r)' = Current(r)
BY DEF Current

\* No two runs write at once.
LEMMA OneWriter ==
  ASSUME OwnerWorks, NEW r \in Runs, run[r].at \in AtWork,
         NEW q \in Runs, run[q].at \in AtWork
  PROVE  q = r
BY DEF OwnerWorks

LEMMA ArchiveInitIInv == ArchiveInit => ArchiveIInv
<1> SUFFICES ASSUME ArchiveInit PROVE ArchiveIInv
  OBVIOUS
<1> USE ArchiveAssumption DEF ArchiveInit
<1>1. \A r \in Runs : run[r] = Idle
  OBVIOUS
<1>2. ArchiveTypeOK
  BY DEF ArchiveTypeOK, Outcomes, Settled, Idle
<1> QED
  BY <1>1, <1>2 DEF ArchiveIInv, OwnerWorks, HasDay, LateFailureIsLast, StoredIsTrue, FetchedIsSound,
     SettledIsArchived, AtWork, Settled, Idle

\* A step that leaves the archive and every run at work as they are disturbs no fact about
\* what was fetched.
LEMMA FetchedIsKept ==
  ASSUME ArchiveIInv, UNCHANGED <<truth, stored>>,
         \A q \in Runs : run'[q].at \in AtWork => run'[q] = run[q]
  PROVE  FetchedIsSound' /\ StoredIsTrue'
<1>1. StoredIsTrue'
  BY DEF ArchiveIInv, StoredIsTrue
<1>2. ASSUME NEW q \in Runs, run'[q].at \in AtWork
      PROVE  /\ run'[q].got \in Settled => truth'[Current(q)'] \in Settled
             /\ stored'[Current(q)'] \in Settled => run'[q].got \in Settled
             /\ run'[q].at = "listed" => run'[q].got \in Settled
             /\ run'[q].at = "committed" /\ run'[q].got \in Settled => stored'[Current(q)'] \in Settled
  <2>1. run'[q] = run[q]
    BY <1>2
  <2>2. Current(q)' = Current(q)
    BY <2>1, CurrentIsKept
  <2> QED
    BY <1>2, <2>1, <2>2 DEF ArchiveIInv, FetchedIsSound
<1> QED
  BY <1>1, <1>2 DEF FetchedIsSound

LEMMA ArchiveNextIInv == ArchiveIInv /\ [ArchiveNext]_archiveVars => ArchiveIInv'
<1> SUFFICES ASSUME ArchiveIInv, [ArchiveNext]_archiveVars PROVE ArchiveIInv'
  OBVIOUS
<1> USE ArchiveAssumption DEF ArchiveIInv
<1>1. ASSUME NEW d \in Days, Settle(d) PROVE ArchiveIInv'
  <2> USE <1>1 DEF Settle
  <2>1. ArchiveTypeOK'
    BY DEF ArchiveTypeOK, Outcomes, Settled
  <2>2. \A e \in Days : truth[e] \in Settled => truth'[e] \in Settled
    BY DEF ArchiveTypeOK, Settled
  <2>3. StoredIsTrue'
    BY <2>2 DEF StoredIsTrue
  <2>4. FetchedIsSound'
    <3>1. \A r \in Runs : Current(r)' = Current(r)
      BY CurrentIsKept
    <3>2. \A r \in Runs : run[r].at \in AtWork => Current(r) \in Days
      BY CurrentIsListed DEF HasDay
    <3> QED
      BY <2>2, <3>1, <3>2 DEF FetchedIsSound
  <2> QED
    BY <2>1, <2>3, <2>4 DEF OwnerWorks, HasDay, LateFailureIsLast, SettledIsArchived
<1>2. ASSUME MendParser PROVE ArchiveIInv'
  <2> USE <1>2 DEF MendParser
  <2>1. ArchiveTypeOK'
    BY DEF ArchiveTypeOK
  <2> QED
    BY <2>1, FetchedIsKept DEF OwnerWorks, HasDay, LateFailureIsLast, SettledIsArchived
<1>3. ASSUME NEW r \in Runs, StartRun(r) PROVE ArchiveIInv'
  <2> USE <1>3 DEF StartRun
  <2>1. ArchiveTypeOK'
    BY DEF ArchiveTypeOK, PendingDays, Idle, Outcomes, Settled
  <2>2. run'[r].at = "next" /\ \A q \in Runs : q # r => run'[q] = run[q]
    BY DEF ArchiveTypeOK, Idle
  <2>3. FetchedIsSound' /\ StoredIsTrue'
    BY <2>2, FetchedIsKept DEF AtWork
  <2>4. OwnerWorks' /\ LateFailureIsLast'
    BY <2>2 DEF OwnerWorks, LateFailureIsLast, AtWork
  <2> QED
    BY <2>1, <2>2, <2>3, <2>4 DEF HasDay, SettledIsArchived, AtWork
<1>4. ASSUME NEW r \in Runs, FetchMarkets(r) PROVE ArchiveIInv'
  <2> USE <1>4 DEF FetchMarkets
  <2>1. Current(r) \in Days /\ Answer(Current(r)) = truth[Current(r)]
    BY CurrentIsListed DEF Answer
  <2>2. ArchiveTypeOK'
    <3>1. Bent(Current(r)) \in BOOLEAN /\ Answer(Current(r)) \in Outcomes
      BY <2>1 DEF Bent, ArchiveTypeOK
    <3> DEFINE fetched == [at |-> IF Answer(Current(r)) \in Settled THEN "listed" ELSE "fetched",
                           todo |-> run[r].todo, got |-> Answer(Current(r)), bent |-> Bent(Current(r))]
    <3>2. run' = [run EXCEPT ![r] = fetched] /\ UNCHANGED <<truth, crooked, stored, untiled, day, lock>>
      OBVIOUS
    <3>3. fetched \in [at : {"idle", "next", "more", "listed", "fetched", "committed", "failed"},
                       todo : SUBSET Days, got : Outcomes, bent : BOOLEAN]
      BY <3>1 DEF ArchiveTypeOK
    <3> HIDE DEF FetchMarkets, fetched
    <3> QED
      BY <3>2, <3>3 DEF ArchiveTypeOK
  <2>3. /\ run'[r].at = IF truth[Current(r)] \in Settled THEN "listed" ELSE "fetched"
        /\ run'[r].got = truth[Current(r)] /\ run'[r].todo = run[r].todo
        /\ \A q \in Runs : q # r => run'[q] = run[q]
    BY <2>1 DEF ArchiveTypeOK
  <2>4. FetchedIsSound'
    <3>1. \A q \in Runs : Current(q)' = Current(q)
      BY <2>3, CurrentIsKept
    <3>2. UNCHANGED <<truth, stored>>
      OBVIOUS
    <3> HIDE DEF FetchMarkets
    <3>3. ASSUME NEW q \in Runs, q # r, run'[q].at \in AtWork
          PROVE  /\ run'[q] = run[q]
                 /\ run[q].got \in Settled => truth[Current(q)] \in Settled
                 /\ stored[Current(q)] \in Settled => run[q].got \in Settled
                 /\ run[q].at = "listed" => run[q].got \in Settled
                 /\ run[q].at = "committed" /\ run[q].got \in Settled => stored[Current(q)] \in Settled
      BY <2>3, <3>3 DEF FetchedIsSound
    <3>4. /\ stored[Current(r)] \in Settled => truth[Current(r)] \in Settled
          /\ run'[r].at = "listed" => run'[r].got \in Settled
          /\ run'[r].at # "committed"
      BY <2>1, <2>3 DEF StoredIsTrue
    <3> QED
      BY <2>3, <3>1, <3>2, <3>3, <3>4 DEF FetchedIsSound
  <2>5. lock = r
    BY DEF OwnerWorks
  <2>6. OwnerWorks' /\ HasDay' /\ LateFailureIsLast'
    BY <2>3, <2>5 DEF OwnerWorks, HasDay, LateFailureIsLast, AtWork
  <2> QED
    BY <2>2, <2>4, <2>6 DEF StoredIsTrue, SettledIsArchived
<1>5. ASSUME NEW r \in Runs, FetchCandles(r) PROVE ArchiveIInv'
  <2> USE <1>5 DEF FetchCandles
  <2>1. ArchiveTypeOK'
    BY DEF ArchiveTypeOK
  <2>2. /\ run'[r] = [run[r] EXCEPT !.at = "fetched"] /\ run'[r].todo = run[r].todo
        /\ run'[r].at = "fetched" /\ run'[r].got = run[r].got
        /\ \A q \in Runs : q # r => run'[q] = run[q]
    BY DEF ArchiveTypeOK
  <2>3. FetchedIsSound'
    <3>1. \A q \in Runs : Current(q)' = Current(q)
      BY <2>2, CurrentIsKept
    <3> QED
      BY <2>2, <3>1 DEF FetchedIsSound, AtWork
  <2>4. OwnerWorks' /\ HasDay' /\ LateFailureIsLast'
    BY <2>2 DEF OwnerWorks, HasDay, LateFailureIsLast, AtWork
  <2> QED
    BY <2>1, <2>3, <2>4 DEF StoredIsTrue, SettledIsArchived
<1>6. ASSUME NEW r \in Runs, FetchFails(r) PROVE ArchiveIInv'
  <2> USE <1>6 DEF FetchFails
  <2>1. ArchiveTypeOK'
    BY DEF ArchiveTypeOK
  <2>2. /\ run'[r].todo = run[r].todo /\ run'[r].at = "failed"
        /\ \A q \in Runs : q # r => run'[q] = run[q]
    BY DEF ArchiveTypeOK
  <2>3. FetchedIsSound' /\ StoredIsTrue'
    BY <2>2, FetchedIsKept DEF AtWork
  <2>4. OwnerWorks' /\ HasDay' /\ LateFailureIsLast'
    BY <2>2 DEF OwnerWorks, HasDay, LateFailureIsLast, AtWork
  <2> QED
    BY <2>1, <2>3, <2>4 DEF SettledIsArchived
<1>7. ASSUME NEW r \in Runs, CommitEvent(r) PROVE ArchiveIInv'
  <2> USE <1>7 DEF CommitEvent
  <2> DEFINE d == Current(r)
  <2>1. d \in Days /\ run[r].at \in AtWork
    BY CurrentIsListed DEF HasDay, AtWork
  <2>2. /\ run'[r].todo = run[r].todo /\ run'[r].at = "committed" /\ run'[r].got = run[r].got
        /\ \A q \in Runs : q # r => run'[q] = run[q]
    BY DEF ArchiveTypeOK
  <2>3. /\ run[r].got = "empty" => stored' = stored
        /\ run[r].got # "empty" => stored' = [stored EXCEPT ![d] = run[r].got]
    BY DEF Upserted
  <2>4. /\ \A e \in Days : e # d => stored'[e] = stored[e]
        /\ stored'[d] = IF run[r].got = "empty" THEN stored[d] ELSE run[r].got
        /\ \A e \in Days : stored[e] \in Settled => stored'[e] \in Settled
    BY <2>1, <2>3 DEF ArchiveTypeOK, FetchedIsSound
  <2>5. ArchiveTypeOK'
    <3>1. run[r].got \in Outcomes /\ stored' \in [Days -> Outcomes]
      BY <2>1, <2>3 DEF ArchiveTypeOK
    <3>2. untiled' \subseteq Days
      BY <2>1 DEF ArchiveTypeOK
    <3> QED
      BY <3>1, <3>2 DEF ArchiveTypeOK
  <2>6. StoredIsTrue'
    BY <2>1, <2>4 DEF StoredIsTrue, FetchedIsSound
  <2>7. FetchedIsSound'
    <3>1. \A q \in Runs : Current(q)' = Current(q)
      BY <2>2, CurrentIsKept
    <3>2. \A q \in Runs : run'[q].at \in AtWork => q = r
      BY <2>1, <2>2, OneWriter
    <3>3. run[r].got \in Settled => run[r].got # "empty"
      BY DEF Settled
    <3> QED
      BY <2>1, <2>2, <2>4, <3>1, <3>2, <3>3 DEF FetchedIsSound
  <2>8. OwnerWorks' /\ HasDay' /\ LateFailureIsLast'
    BY <2>1, <2>2 DEF OwnerWorks, HasDay, LateFailureIsLast, AtWork
  <2>9. SettledIsArchived'
    BY <2>4 DEF SettledIsArchived
  <2> QED
    BY <2>5, <2>6, <2>7, <2>8, <2>9
<1>8. ASSUME NEW r \in Runs, RecordDay(r) PROVE ArchiveIInv'
  <2> USE <1>8 DEF RecordDay
  <2> DEFINE d == Current(r)
             n == IF day[d].attempts < MaxTries THEN day[d].attempts + 1 ELSE day[d].attempts
  <2>1. d \in run[r].todo /\ d \in Days
    BY CurrentIsListed DEF HasDay, AtWork
  <2>2. day' = [day EXCEPT ![d] = [status |-> RecordedStatus(r), attempts |-> n]]
    BY DEF Upserted
  <2>3. /\ run'[r].todo = run[r].todo \ {d} /\ run'[r].at = "more"
        /\ \A q \in Runs : q # r => run'[q] = run[q]
    BY DEF ArchiveTypeOK
  <2>4. ArchiveTypeOK'
    <3>1. n \in 0..MaxTries /\ RecordedStatus(r) \in Outcomes \union {"none", "error"}
      BY <2>1 DEF ArchiveTypeOK, RecordedStatus
    <3>2. day' \in [Days -> [status : Outcomes \union {"none", "error"}, attempts : 0..MaxTries]]
      BY <2>1, <2>2, <3>1 DEF ArchiveTypeOK
    <3>3. run' = [run EXCEPT ![r].at = "more", ![r].todo = run[r].todo \ {d}]
      OBVIOUS
    <3> DEFINE Run == [at : {"idle", "next", "more", "listed", "fetched", "committed", "failed"},
                       todo : SUBSET Days, got : Outcomes, bent : BOOLEAN]
    <3>4. run \in [Runs -> Run] /\ [run[r] EXCEPT !.at = "more", !.todo = run[r].todo \ {d}] \in Run
      BY DEF ArchiveTypeOK
    <3>5. UNCHANGED <<truth, crooked, stored, untiled, lock>>
      OBVIOUS
    <3> HIDE DEF RecordDay, d, n
    <3>6. run' \in [Runs -> Run]
      <4>1. run' = [run EXCEPT ![r] = [run[r] EXCEPT !.at = "more", !.todo = run[r].todo \ {d}]]
        BY <3>3, Zenon
      <4> HIDE DEF Run
      <4> QED
        BY <3>4, <4>1
    <3> QED
      BY <3>2, <3>5, <3>6 DEF ArchiveTypeOK
  <2>5. FetchedIsSound' /\ StoredIsTrue'
    BY <2>3, FetchedIsKept DEF AtWork
  <2>6. OwnerWorks' /\ HasDay' /\ LateFailureIsLast'
    <3>1. lock' = lock
      OBVIOUS
    <3>2. run[r].at # "failed" => lock = r
      BY DEF OwnerWorks, AtWork
    <3>3. run[r].at = "failed" /\ lock # r => run'[r].todo = {}
      BY <2>1, <2>3 DEF LateFailureIsLast
    <3> HIDE DEF RecordDay, d, n
    <3>4. OwnerWorks'
      BY <2>3, <3>1, <3>2, <3>3 DEF OwnerWorks, AtWork
    <3>5. HasDay' /\ LateFailureIsLast'
      BY <2>3, <3>1 DEF HasDay, LateFailureIsLast, AtWork
    <3> QED
      BY <3>4, <3>5
  <2>7. SettledIsArchived'
    <3>1. RecordedStatus(r) \in Settled => stored[d] \in Settled
      BY DEF RecordedStatus, FetchedIsSound, AtWork, Settled
    <3>2. \A e \in Days : day'[e].status = IF e = d THEN RecordedStatus(r) ELSE day[e].status
      <4> HIDE DEF RecordDay, d, n
      <4> QED
        BY <2>1, <2>2 DEF ArchiveTypeOK
    <3> QED
      BY <3>1, <3>2 DEF SettledIsArchived
  <2> QED
    BY <2>4, <2>5, <2>6, <2>7
<1>9. ASSUME NEW r \in Runs, EndRun(r) \/ KillRun(r) PROVE ArchiveIInv'
  <2> USE <1>9 DEF EndRun, KillRun
  <2>1. run' = [run EXCEPT ![r] = Idle] /\ (lock' = lock \/ (lock = r /\ lock' = "free"))
        /\ UNCHANGED <<truth, crooked, stored, untiled, day>>
    OBVIOUS
  <2>2. ArchiveTypeOK'
    BY <2>1 DEF ArchiveTypeOK, Idle, Outcomes
  <2>3. run'[r].at = "idle" /\ \A q \in Runs : q # r => run'[q] = run[q]
    BY <2>1 DEF ArchiveTypeOK, Idle
  <2>4. FetchedIsSound' /\ StoredIsTrue'
    BY <2>1, <2>3, FetchedIsKept DEF AtWork
  <2>5. OwnerWorks' /\ HasDay' /\ LateFailureIsLast'
    BY <2>1, <2>3 DEF OwnerWorks, HasDay, LateFailureIsLast, AtWork
  <2> QED
    BY <2>1, <2>2, <2>4, <2>5 DEF SettledIsArchived
<1>10. ASSUME LockExpires PROVE ArchiveIInv'
  <2> USE <1>10 DEF LockExpires
  <2>1. lock \in Runs
    BY DEF ArchiveTypeOK
  <2>2. CASE run[lock].at = "idle" /\ UNCHANGED run
    <3>1. ArchiveTypeOK'
      BY <2>2 DEF ArchiveTypeOK
    <3>2. FetchedIsSound' /\ StoredIsTrue'
      BY <2>2, FetchedIsKept
    <3>3. OwnerWorks' /\ HasDay' /\ LateFailureIsLast'
      BY <2>1, <2>2 DEF OwnerWorks, HasDay, LateFailureIsLast, AtWork
    <3> QED
      BY <3>1, <3>2, <3>3 DEF SettledIsArchived
  <2>3. CASE run[lock].at = "failed" /\ run' = [run EXCEPT ![lock].todo = {Current(lock)}]
    <3>1. Current(lock) \in Days
      BY <2>1, <2>3, CurrentIsListed DEF HasDay
    <3>2. ArchiveTypeOK'
      BY <2>3, <3>1 DEF ArchiveTypeOK
    <3>3. /\ run'[lock].at = "failed" /\ run'[lock].todo = {Current(lock)}
          /\ \A q \in Runs : q # lock => run'[q] = run[q]
      BY <2>1, <2>3 DEF ArchiveTypeOK
    <3>4. FetchedIsSound' /\ StoredIsTrue'
      BY <3>3, FetchedIsKept DEF AtWork
    <3>5. OwnerWorks' /\ HasDay' /\ LateFailureIsLast'
      BY <2>1, <3>1, <3>3 DEF OwnerWorks, HasDay, LateFailureIsLast, AtWork
    <3> QED
      BY <3>2, <3>4, <3>5 DEF SettledIsArchived
  <2> QED
    BY <2>2, <2>3
<1>11. CASE UNCHANGED archiveVars
  <2> USE <1>11 DEF archiveVars
  <2>1. ArchiveTypeOK'
    BY DEF ArchiveTypeOK
  <2>2. FetchedIsSound' /\ StoredIsTrue'
    BY FetchedIsKept
  <2> QED
    BY <2>1, <2>2 DEF OwnerWorks, HasDay, LateFailureIsLast, SettledIsArchived
<1> QED
  BY <1>1, <1>2, <1>3, <1>4, <1>5, <1>6, <1>7, <1>8, <1>9, <1>10, <1>11
  DEF ArchiveNext, RunStep

LEMMA ArchiveInvariance == ArchiveSpec => []ArchiveIInv
BY ArchiveInitIInv, ArchiveNextIInv, PTL DEF ArchiveSpec

-----------------------------------------------------------------------------
\* The rows of the archive and of its day list, the runs and the lock keep their types.
THEOREM ArchiveTypeCorrect == ArchiveSpec => []ArchiveTypeOK
<1>1. ArchiveIInv => ArchiveTypeOK
  BY DEF ArchiveIInv
<1> QED
  BY <1>1, ArchiveInvariance, PTL

\* Through kills, failures and expired locks, a day listed as settled has its markets.
THEOREM SettledDaysAreArchived == ArchiveSpec => []SettledIsArchived
<1>1. ArchiveIInv => SettledIsArchived
  BY DEF ArchiveIInv
<1> QED
  BY <1>1, ArchiveInvariance, PTL

\* No run, late or repeated, puts unsettled markets in the place of settled ones.
THEOREM SettledMarketsStay == ArchiveSpec => SettledStays
<1>1. ASSUME ArchiveIInv, [ArchiveNext]_archiveVars
      PROVE  [\A d \in Days : stored[d] \in Settled => stored'[d] \in Settled]_archiveVars
  <2> SUFFICES ASSUME ArchiveNext, NEW d \in Days, stored[d] \in Settled
               PROVE  stored'[d] \in Settled
    BY <1>1
  <2>1. ASSUME NEW r \in Runs, CommitEvent(r) PROVE stored'[d] \in Settled
    <3>1. run[r].at \in AtWork
      BY <2>1 DEF CommitEvent, AtWork
    <3>2. stored[Current(r)] \in Settled => run[r].got \in Settled
      BY <1>1, <3>1 DEF ArchiveIInv, FetchedIsSound
    <3>3. stored \in [Days -> Outcomes]
      BY <1>1 DEF ArchiveIInv, ArchiveTypeOK
    <3> QED
      BY <2>1, <3>2, <3>3 DEF CommitEvent, Upserted
  <2>2. CASE UNCHANGED stored
    BY <2>2
  <2>3. \/ \E r \in Runs : CommitEvent(r)
        \/ UNCHANGED stored
    BY Zenon DEF ArchiveNext, RunStep, Settle, MendParser, StartRun, FetchMarkets, FetchCandles,
       FetchFails, RecordDay, EndRun, KillRun, LockExpires
  <2> QED
    BY <2>1, <2>2, <2>3
<1> QED
  BY <1>1, ArchiveInvariance, PTL DEF ArchiveSpec, SettledStays

-----------------------------------------------------------------------------
(* The archive of station forecasts.                                       *)

\* Of a month that is over, the archive has all that IEM has, once its chunk is complete.
OldMonthsAreKept ==
  \A m \in Months \ Recent : chunk[m].status = "complete" => m \notin iem

\* A chunk at work is the newest on the list; once it was fetched there is nothing left of it,
\* unless it is recent.
ChunkAtWork ==
  /\ task \in {"fetched", "failed"} => list # {}
  /\ task = "fetched" /\ Newest \notin Recent => Newest \notin iem

ChunkRows ==
  [status : {"none", "complete", "error"}, attempts : 0..MaxCounted, fresh : BOOLEAN]

MosIInv == MosTypeOK /\ ChunkAtWork /\ OldMonthsAreKept

LEMMA NewestOfList ==
  ASSUME list \subseteq Months, list # {}
  PROVE  Newest \in list /\ Newest \in Months
<1>1. \E m \in list : \A k \in list : k <= m
  <2>1. MaxMonth \in Nat /\ list \in SUBSET (1..MaxMonth)
    BY MosAssumption DEF MosAssumption, Months
  <2> QED
    BY <2>1, NewestExists
<1> QED
  BY <1>1 DEF Newest

LEMMA MosInitIInv == MosInit => MosIInv
BY MosAssumption DEF MosInit, MosIInv, MosTypeOK, ChunkAtWork, OldMonthsAreKept

LEMMA MosNextIInv == MosIInv /\ [MosNext]_mosVars => MosIInv'
<1> SUFFICES ASSUME MosIInv, [MosNext]_mosVars PROVE MosIInv'
  OBVIOUS
<1> USE MosAssumption DEF MosIInv
<1>1. ASSUME NEW m \in Months, NewRuns(m) PROVE MosIInv'
  <2>1. Newest' = Newest
    BY <1>1 DEF NewRuns, Newest
  <2>2. m \in Recent /\ m \in Months /\ Recent' = Recent
    BY <1>1 DEF NewRuns, Recent
  <2>3. UNCHANGED <<chunk, task, list>> /\ iem' = iem \union {m}
    BY <1>1 DEF NewRuns
  <2>4. MosTypeOK' /\ OldMonthsAreKept'
    BY <2>2, <2>3 DEF MosTypeOK, OldMonthsAreKept
  <2>5. ChunkAtWork'
    BY <2>1, <2>2, <2>3 DEF ChunkAtWork
  <2> QED
    BY <2>4, <2>5
<1>2. ASSUME NEW m \in Months, Age(m) PROVE MosIInv'
  <2>1. chunk[m] \in ChunkRows
    BY DEF MosTypeOK, ChunkRows
  <2>2. [chunk[m] EXCEPT !.fresh = FALSE] \in ChunkRows
    BY <2>1 DEF ChunkRows
  <2>3. chunk' = [chunk EXCEPT ![m] = [chunk[m] EXCEPT !.fresh = FALSE]]
    BY <1>2 DEF Age
  <2>4. MosTypeOK'
    BY <1>2, <2>2, <2>3 DEF Age, MosTypeOK, ChunkRows
  <2>5. \A k \in Months : chunk'[k].status = chunk[k].status
    BY <2>1, <2>3 DEF MosTypeOK, ChunkRows
  <2> QED
    BY <1>2, <2>4, <2>5 DEF Age, ChunkAtWork, OldMonthsAreKept, Newest
<1>3. CASE Beat
  BY <1>3 DEF Beat, MosTypeOK, ChunkAtWork, OldMonthsAreKept, Newest
<1>4. CASE StartForecasts
  BY <1>4 DEF StartForecasts, PendingChunks, MosTypeOK, ChunkAtWork, OldMonthsAreKept
<1>5. CASE ArchiveWindow
  BY <1>5 DEF ArchiveWindow, CsvAnswers, Parsed, MosTypeOK, ChunkAtWork, OldMonthsAreKept, Newest
<1>6. CASE RecordChunk
  <2>1. list # {} /\ Newest \in Months
    BY <1>6, NewestOfList DEF RecordChunk, ChunkAtWork, MosTypeOK
  <2> DEFINE row == [status |-> IF task = "failed" THEN "error" ELSE "complete",
                     attempts |-> IF chunk[Newest].attempts < MaxCounted THEN chunk[Newest].attempts + 1
                                  ELSE chunk[Newest].attempts,
                     fresh |-> TRUE]
  <2>2. chunk' = [chunk EXCEPT ![Newest] = row]
    BY <1>6 DEF RecordChunk
  <2>3. row \in ChunkRows
    BY <2>1 DEF MosTypeOK, ChunkRows
  <2>4. row.status = "complete" => task # "failed"
    OBVIOUS
  <2> HIDE DEF row
  <2>5. MosTypeOK'
    <3>1. chunk' \in [Months -> ChunkRows]
      BY <2>2, <2>3 DEF MosTypeOK, ChunkRows
    <3> QED
      BY <1>6, <3>1 DEF RecordChunk, MosTypeOK, ChunkRows
  <2>6. OldMonthsAreKept'
    BY <1>6, <2>1, <2>2, <2>4 DEF RecordChunk, MosTypeOK, ChunkAtWork, OldMonthsAreKept
  <2> QED
    BY <1>6, <2>5, <2>6 DEF RecordChunk, ChunkAtWork
<1>7. CASE EndForecasts
  BY <1>7 DEF EndForecasts, MosTypeOK, ChunkAtWork, OldMonthsAreKept
<1>8. CASE ForecastsFail
  BY <1>8 DEF ForecastsFail, MosTypeOK, ChunkAtWork, OldMonthsAreKept
<1>9. CASE UNCHANGED mosVars
  BY <1>9 DEF mosVars, MosTypeOK, ChunkAtWork, OldMonthsAreKept, Newest
<1> QED
  BY <1>1, <1>2, <1>3, <1>4, <1>5, <1>6, <1>7, <1>8, <1>9 DEF MosNext

\* The chunks, their attempts and the task keep their types.
THEOREM MosTypeCorrect == MosSpec => []MosTypeOK
<1>1. MosIInv => MosTypeOK
  BY DEF MosIInv
<1> QED
  BY <1>1, MosInitIInv, MosNextIInv, PTL DEF MosSpec

\* Through failures, kills and repeated runs, a month that is over and whose chunk is complete
\* is in the archive as IEM has it.
THEOREM CompleteIsArchived == MosSpec => []OldMonthsAreKept
<1>1. MosIInv => OldMonthsAreKept
  BY DEF MosIInv
<1> QED
  BY <1>1, MosInitIInv, MosNextIInv, PTL DEF MosSpec

-----------------------------------------------------------------------------
(* Settlements.                                                            *)

\* A trade that is settled is settled by Kalshi's result for its market.
BetsAreKalshis ==
  \A d \in CliDays : bet[d] # "OPEN" => outcome[d] # "none" /\ bet[d] = FromKalshi(outcome[d])

\* The results a request goes on to settle by are final.
KnownIsResolved == call # NoCall => call.known \subseteq Resolved

Calls == [at : {"fetches", "settles"}, known : SUBSET CliDays, added : SUBSET CliDays]

SettlementIInv == SettlementTypeOK /\ KnownIsResolved /\ BetsAreKalshis

LEMMA SettlementInitIInv == SettlementInit => SettlementIInv
<1> SUFFICES ASSUME SettlementInit PROVE SettlementIInv
  OBVIOUS
<1>1. products = <<>> /\ <<>> \in Seq(Products) /\ Len(<<>>) = 0
  BY DEF SettlementInit
<1>2. SettlementTypeOK
  BY <1>1, SettlementAssumption DEF SettlementInit, SettlementTypeOK
<1> QED
  BY <1>2 DEF SettlementInit, SettlementIInv, KnownIsResolved, BetsAreKalshis

LEMMA CallIsTyped ==
  ASSUME SettlementTypeOK, call # NoCall
  PROVE  call \in Calls
BY DEF SettlementTypeOK, Calls

\* A report is of a day, if it is of any.
LEMMA ReportsAreOfDays ==
  ASSUME NEW product \in Products
  PROVE  ParseCliText(product) \subseteq CliDays
BY DEF Products, ParseCliText, ExtractReportDate

\* A settlement that settles what is resolved.
LEMMA SettleMatchingKeeps ==
  ASSUME SettlementTypeOK, BetsAreKalshis, NEW known \in SUBSET CliDays, known \subseteq Resolved,
         SettleMatching(known), outcome' = outcome
  PROVE  bet' \in [CliDays -> {"OPEN", "WON", "LOST"}] /\ BetsAreKalshis'
BY DEF SettlementTypeOK, BetsAreKalshis, SettleMatching, SettledBets, Matching, Resolved, FromKalshi

LEMMA SettlementNextIInv == SettlementIInv /\ [SettlementNext]_settlementVars => SettlementIInv'
<1> SUFFICES ASSUME SettlementIInv, [SettlementNext]_settlementVars PROVE SettlementIInv'
  OBVIOUS
<1> USE SettlementAssumption DEF SettlementIInv
<1>1. ASSUME NEW product \in Products, PublishReport(product) PROVE SettlementIInv'
  <2>1. products' \in Seq(Products) /\ Len(products') = Len(products) + 1
    BY <1>1 DEF PublishReport, SettlementTypeOK
  <2>2. Len(products') <= MaxProducts
    BY <1>1, <2>1 DEF PublishReport, SettlementTypeOK
  <2> QED
    BY <1>1, <2>1, <2>2 DEF PublishReport, SettlementTypeOK, KnownIsResolved, BetsAreKalshis, Resolved
<1>2. ASSUME NEW d \in CliDays, NEW r \in {"yes", "no"}, Resolve(d, r) PROVE SettlementIInv'
  <2>1. SettlementTypeOK'
    BY <1>2 DEF Resolve, SettlementTypeOK
  <2>2. KnownIsResolved'
    BY <1>2 DEF Resolve, SettlementTypeOK, KnownIsResolved, Resolved
  <2> QED
    BY <1>2, <2>1, <2>2 DEF Resolve, SettlementTypeOK, BetsAreKalshis
<1>3. CASE CheckReport
  <2>1. \A p \in FetchNwsCli : p \in Products
    BY DEF FetchNwsCli, SettlementTypeOK
  <2>2. UNION {ParseCliText(p) : p \in FetchNwsCli} \subseteq CliDays
    BY <2>1, ReportsAreOfDays
  <2> QED
    BY <1>3, <2>2 DEF CheckReport, SettlementTypeOK, KnownIsResolved, BetsAreKalshis, Resolved
<1>4. CASE InsertReport
  BY <1>4 DEF InsertReport, SettlementTypeOK, KnownIsResolved, BetsAreKalshis, Resolved
<1>5. CASE InsertFails
  BY <1>5 DEF InsertFails, SettlementTypeOK, KnownIsResolved, BetsAreKalshis, Resolved
<1>6. CASE SettleCycle
  <2>1. SettleMatching(Resolved) /\ Resolved \in SUBSET CliDays
    BY <1>6 DEF SettleCycle, Resolved
  <2>2. outcome' = outcome
    BY <1>6 DEF SettleCycle
  <2>3. bet' \in [CliDays -> {"OPEN", "WON", "LOST"}] /\ BetsAreKalshis'
    BY <2>1, <2>2, SettleMatchingKeeps
  <2> QED
    BY <1>6, <2>3 DEF SettleCycle, SettlementTypeOK, KnownIsResolved, Resolved
<1>7. ASSUME NEW resettle \in BOOLEAN, SettleNow(resettle) PROVE SettlementIInv'
  <2>1. call' \in Calls /\ call'.known = {}
    BY <1>7 DEF SettleNow, Calls
  <2>2. bet' = bet \/ bet' = [d \in CliDays |-> "OPEN"]
    BY <1>7 DEF SettleNow
  <2>3. resets' \in 0..MaxResets
    BY <1>7 DEF SettleNow, SettlementTypeOK
  <2>4. SettlementTypeOK'
    BY <1>7, <2>1, <2>2, <2>3 DEF SettleNow, SettlementTypeOK, Calls
  <2> QED
    BY <1>7, <2>1, <2>2, <2>4 DEF SettleNow, KnownIsResolved, BetsAreKalshis
<1>8. ASSUME NEW reports \in FetchAllNwsCli, FetchForCall(reports) PROVE SettlementIInv'
  <2>1. Missing(reports) \in SUBSET CliDays /\ Resolved \in SUBSET CliDays
    BY DEF Missing, Resolved
  <2>2. call' \in Calls /\ call'.known = Resolved
    BY <1>8, <2>1 DEF FetchForCall, Calls
  <2> QED
    BY <1>8, <2>2 DEF FetchForCall, SettlementTypeOK, KnownIsResolved, BetsAreKalshis, Resolved, Calls
<1>9. CASE CommitReports
  <2>1. call \in Calls /\ call # NoCall
    BY <1>9, CallIsTyped DEF CommitReports
  <2>2. call' \in Calls /\ call'.known = call.known
    BY <1>9, <2>1 DEF CommitReports, Calls
  <2>3. settlements' \in [CliDays -> Nat]
    BY <1>9 DEF CommitReports, SettlementTypeOK
  <2> QED
    BY <1>9, <2>1, <2>2, <2>3
    DEF CommitReports, SettlementTypeOK, KnownIsResolved, BetsAreKalshis, Resolved, Calls
<1>10. CASE SettleCall
  <2>1. call \in Calls /\ call # NoCall
    BY <1>10, CallIsTyped DEF SettleCall
  <2>2. call.known \in SUBSET CliDays /\ call.known \subseteq Resolved
    BY <2>1 DEF Calls, KnownIsResolved
  <2>3. SettleMatching(call.known) /\ outcome' = outcome
    BY <1>10 DEF SettleCall
  <2>4. bet' \in [CliDays -> {"OPEN", "WON", "LOST"}] /\ BetsAreKalshis'
    BY <2>2, <2>3, SettleMatchingKeeps
  <2> QED
    BY <1>10, <2>4 DEF SettleCall, SettlementTypeOK, KnownIsResolved
<1>11. CASE CallEnds
  BY <1>11 DEF CallEnds, SettlementTypeOK, KnownIsResolved, BetsAreKalshis
<1>12. CASE UNCHANGED settlementVars
  BY <1>12 DEF settlementVars, SettlementTypeOK, KnownIsResolved, BetsAreKalshis, Resolved
<1> QED
  BY <1>1, <1>2, <1>3, <1>4, <1>5, <1>6, <1>7, <1>8, <1>9, <1>10, <1>11, <1>12 DEF SettlementNext

\* Reports, rows, requests and trades keep their types.
THEOREM SettlementTypeCorrect == SettlementSpec => []SettlementTypeOK
<1>1. SettlementIInv => SettlementTypeOK
  BY DEF SettlementIInv
<1> QED
  BY <1>1, SettlementInitIInv, SettlementNextIInv, PTL DEF SettlementSpec

\* However tasks and requests that settle overlap, fail and are repeated, a trade is won or
\* lost by what Kalshi has settled, and never without it.
THEOREM SettledByKalshi == SettlementSpec => []BetsAreKalshis
<1>1. SettlementIInv => BetsAreKalshis
  BY DEF SettlementIInv
<1> QED
  BY <1>1, SettlementInitIInv, SettlementNextIInv, PTL DEF SettlementSpec
==============================================================================
