--------------------------- MODULE KalshiArchive ---------------------------
(***************************************************************************)
(* The archive of settled events (kalshi/archive.py, kalshi/tasks.py,      *)
(* kalshi/public_client.py): a Celery task walks the city-days that still  *)
(* need archiving, newest first, under a Redis lock whose time to live lies *)
(* between the task's two time limits, and commits each day by itself.     *)
(***************************************************************************)
EXTENDS Naturals

CONSTANTS
  Runs,             \* task runs that may overlap
  LastDay,          \* the days are 1..LastDay, a later one being newer
  MaxDayAttempts,   \* MAX_DAY_ATTEMPTS
  EmptyFinalAfter,  \* EMPTY_FINAL_AFTER_ATTEMPTS
  MaxTries          \* bound: attempts counted for a day that does not settle

ASSUME ArchiveAssumption ==
  /\ "free" \notin Runs
  /\ LastDay \in Nat /\ EmptyFinalAfter \in Nat
  /\ MaxDayAttempts \in Nat /\ MaxTries \in Nat /\ MaxDayAttempts <= MaxTries

VARIABLES
  truth,     \* Kalshi: what it has of each day
  crooked,   \* the days whose brackets the parser does not tile
  stored,    \* kalshi_markets: what is archived of each day
  untiled,   \* ... and the days with tiles_ok false
  day,       \* kalshi_archive_days: status ("none": no row) and attempts
  lock,      \* the run that owns the lock, or "free"
  run        \* each run: where it is, the days to go, and what it fetched

archiveVars == <<truth, crooked, stored, untiled, day, lock, run>>

\* event_ticker_for names each day's event; its series and era change on known days.
Days == 1..LastDay
Settled == {"complete", "irregular"}
Outcomes == Settled \union {"unsettled", "empty"}

ArchiveTypeOK ==
  /\ truth \in [Days -> Outcomes] /\ stored \in [Days -> Outcomes]
  /\ crooked \subseteq Days /\ untiled \subseteq Days
  /\ day \in [Days -> [status : Outcomes \union {"none", "error"}, attempts : 0..MaxTries]]
  /\ lock \in Runs \union {"free"}
  /\ run \in [Runs -> [at : {"idle", "next", "more", "listed", "fetched", "committed", "failed"},
                       todo : SUBSET Days, got : Outcomes, bent : BOOLEAN]]

Idle == [at |-> "idle", todo |-> {}, got |-> "empty", bent |-> FALSE]

ArchiveInit ==
  /\ truth \in [Days -> {"unsettled", "empty"}] /\ crooked \in SUBSET Days
  /\ stored = [d \in Days |-> "empty"] /\ untiled = {}
  /\ day = [d \in Days |-> [status |-> "none", attempts |-> 0]]
  /\ lock = "free" /\ run = [r \in Runs |-> Idle]

\* Kalshi settles a day, cleanly or not; and the parser is mended.
Settle(d) ==
  /\ truth[d] = "unsettled"
  /\ \E result \in Settled : truth' = [truth EXCEPT ![d] = result]
  /\ UNCHANGED <<crooked, stored, untiled, day, lock, run>>

MendParser ==
  /\ crooked # {} /\ crooked' = {}
  /\ UNCHANGED <<truth, stored, untiled, day, lock, run>>

-----------------------------------------------------------------------------
\* Mutant: days that do not tile are retried for ever.
PendingEndless(d) ==
  LET s == day[d].status  n == day[d].attempts
      done == \/ s \in Settled
              \/ s = "empty" /\ n >= EmptyFinalAfter
              \/ s = "error" /\ n >= MaxDayAttempts
  IN  ~done \/ d \in untiled

\* pending_days: a day is done, or to be repaired, by its status and attempts.
Pending(d) ==
  LET s == day[d].status  n == day[d].attempts
      done == \/ s \in Settled
              \/ s = "empty" /\ n >= EmptyFinalAfter
              \/ s = "error" /\ n >= MaxDayAttempts
  IN  ~done \/ (d \in untiled /\ n < MaxDayAttempts)

\* What run_backfill takes on.
PendingDays == {d \in Days : Pending(d)}

\* archive_backfill, by the beat or by its own chain: the lock, then the list.
StartRun(r) ==
  /\ run[r].at = "idle" /\ lock = "free" /\ PendingDays # {}
  /\ lock' = r
  /\ run' = [run EXCEPT ![r] = [Idle EXCEPT !.at = "next", !.todo = PendingDays]]
  /\ UNCHANGED <<truth, crooked, stored, untiled, day>>

Current(r) == CHOOSE d \in run[r].todo : \A e \in run[r].todo : e <= d

\* get_event_markets, of the endpoint preferred for the day or else of the other: the cutoff
\* between them moves.
Answer(d) == truth[d]

\* infer_missing_strikes and check_tiling: do the brackets leave gaps or overlap?
Bent(d) == d \in crooked

\* archive_event: the markets, and, once all have a result, their candles.
FetchMarkets(r) ==
  /\ run[r].at \in {"next", "more"} /\ run[r].todo # {}
  /\ LET d == Current(r) IN
     run' = [run EXCEPT ![r] = [at |-> IF Answer(d) \in Settled THEN "listed" ELSE "fetched",
                                todo |-> @.todo, got |-> Answer(d), bent |-> Bent(d)]]
  /\ UNCHANGED <<truth, crooked, stored, untiled, day, lock>>

FetchCandles(r) ==
  /\ run[r].at = "listed"
  /\ run' = [run EXCEPT ![r].at = "fetched"]
  /\ UNCHANGED <<truth, crooked, stored, untiled, day, lock>>

\* A request that failed to the end, or the soft time limit, raises; the day is rolled back.
FetchFails(r) ==
  /\ run[r].at \in {"next", "more", "listed"} /\ run[r].todo # {}
  /\ run' = [run EXCEPT ![r].at = "failed"]
  /\ UNCHANGED <<truth, crooked, stored, untiled, day, lock>>

\* upsert_rows, of one row: the table with the row in place of an older one.
Upserted(table, d, row) == [table EXCEPT ![d] = row]

\* The upsert by ticker, committed before the day is recorded.  An empty answer writes
\* nothing.
CommitEvent(r) ==
  /\ run[r].at = "fetched"
  /\ LET d == Current(r) IN
     IF run[r].got = "empty" THEN UNCHANGED <<stored, untiled>>
     ELSE /\ stored' = Upserted(stored, d, run[r].got)
          /\ untiled' = IF run[r].bent THEN untiled \union {d} ELSE untiled \ {d}
  /\ run' = [run EXCEPT ![r].at = "committed"]
  /\ UNCHANGED <<truth, crooked, day, lock>>

\* Mutant: a day whose candles failed is recorded by its markets.
RecordedStatusOfMarkets(r) == run[r].got

\* run_backfill: what an exception leaves is "error".
RecordedStatus(r) == IF run[r].at = "failed" THEN "error" ELSE run[r].got

\* _record_day: every attempt counts, whatever came of it.
RecordDay(r) ==
  /\ run[r].at \in {"committed", "failed"}
  /\ LET d == Current(r)
         more(n) == IF n < MaxTries THEN n + 1 ELSE n
     IN /\ day' = Upserted(day, d, [status |-> RecordedStatus(r),
                                    attempts |-> more(day[d].attempts)])
        /\ run' = [run EXCEPT ![r].at = "more", ![r].todo = @ \ {d}]
  /\ UNCHANGED <<truth, crooked, stored, untiled, lock>>

\* The list is at its end, or, after a day, the budget; the lock is released if it is still
\* this run's.
EndRun(r) ==
  /\ run[r].at = "more"
  /\ run' = [run EXCEPT ![r] = Idle]
  /\ lock' = IF lock = r THEN "free" ELSE lock
  /\ UNCHANGED <<truth, crooked, stored, untiled, day>>

\* The worker is killed; its lock stays until it expires.
KillRun(r) ==
  /\ run[r].at # "idle"
  /\ run' = [run EXCEPT ![r] = Idle]
  /\ UNCHANGED <<truth, crooked, stored, untiled, day, lock>>

\* Mutant: the lock does not outlive the budget and the soft limit.
LockExpiresEarly ==
  /\ lock # "free" /\ lock' = "free"
  /\ UNCHANGED <<truth, crooked, stored, untiled, day, run>>

\* The lock's time is over (280 s).  By then the budget (120 s) and the soft limit (240 s)
\* have passed: a run that still works records its last failure.
LockExpires ==
  /\ lock # "free" /\ lock' = "free"
  /\ \/ run[lock].at = "idle" /\ UNCHANGED run
     \/ /\ run[lock].at = "failed"
        /\ run' = [run EXCEPT ![lock].todo = {Current(lock)}]
  /\ UNCHANGED <<truth, crooked, stored, untiled, day>>

-----------------------------------------------------------------------------
RunStep(r) == FetchMarkets(r) \/ FetchCandles(r) \/ FetchFails(r) \/ CommitEvent(r) \/ RecordDay(r)

ArchiveNext ==
  \/ \E d \in Days : Settle(d)
  \/ MendParser
  \/ \E r \in Runs : StartRun(r) \/ RunStep(r) \/ EndRun(r) \/ KillRun(r)
  \/ LockExpires

ArchiveSpec == ArchiveInit /\ [][ArchiveNext]_archiveVars

\* The beat comes again, days settle, locks expire, and now and then a run is not killed.
ArchiveFairness ==
  /\ \A d \in Days : WF_archiveVars(Settle(d))
  /\ WF_archiveVars(\E r \in Runs : StartRun(r)) /\ WF_archiveVars(\E r \in Runs : EndRun(r))
  /\ SF_archiveVars(\E r \in Runs : FetchMarkets(r) \/ FetchFails(r))
  /\ SF_archiveVars(\E r \in Runs : FetchCandles(r))
  /\ SF_archiveVars(\E r \in Runs : CommitEvent(r)) /\ SF_archiveVars(\E r \in Runs : RecordDay(r))
  /\ WF_archiveVars(LockExpires)

-----------------------------------------------------------------------------
(***************************************************************************)
(* A city-day that is listed as settled has its settled markets and their  *)
(* candles in the archive: kill a run wherever you like, let its lock      *)
(* expire and another begin, the day in flight is all that is lost         *)
(* (archive.py, run_backfill).                                             *)
(***************************************************************************)
SettledIsArchived ==
  \A d \in Days : day[d].status \in Settled => stored[d] \in Settled

(***************************************************************************)
(* Settled markets are never replaced by unsettled ones: what a run has    *)
(* fetched is not older than what another has stored meanwhile, since the  *)
(* lock outlives the budget and the soft limit of a run that still writes  *)
(* (kalshi/tasks.py, the lock's 280 s against the task's 240 s).           *)
(***************************************************************************)
SettledStays ==
  [][\A d \in Days : stored[d] \in Settled => stored'[d] \in Settled]_archiveVars

(***************************************************************************)
(* The backfill comes to an end: no day is attempted for ever, neither one *)
(* that fails, nor an empty one, nor one whose brackets never tile.        *)
(***************************************************************************)
BackfillEnds == ArchiveFairness => \A d \in Days : []<>(~Pending(d))
=============================================================================
