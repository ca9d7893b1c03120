-------------------------- MODULE ForecastArchive --------------------------
(***************************************************************************)
(* The archive of station forecasts (weather/forecast_archive.py and its   *)
(* Celery task): month chunks fetched from IEM, newest first, under a lock *)
(* that outlives the task's time limit, by a task that queues itself again *)
(* while it makes progress and when it fails.                              *)
(*                                                                         *)
(* A chunk is a month of one city and model.  The last two months are      *)
(* recent: new runs keep arriving for them.                                *)
(***************************************************************************)
EXTENDS Naturals

CONSTANTS
  MaxMonth,          \* the months are 1..MaxMonth
  MaxChunkAttempts,  \* MAX_CHUNK_ATTEMPTS
  MaxCounted         \* bound: attempts counted

ASSUME MosAssumption ==
  MaxMonth \in Nat /\ MaxChunkAttempts \in Nat /\ MaxCounted \in Nat /\ MaxChunkAttempts <= MaxCounted

VARIABLES
  iem,     \* the months for which IEM has runs that the archive lacks
  chunk,   \* forecast_archive_chunks: status ("none": no row), attempts, and whether
           \* updated_at lies within REFRESH_RECENT_AFTER
  task,    \* "off", "queued", "running", "fetched", "failed" or "over"
  list     \* the chunks the run has to go

mosVars == <<iem, chunk, task, list>>

\* month_chunks: from the start of the archive to today.
Months == 1..MaxMonth
Recent == {m \in Months : m + 2 > MaxMonth}

MosTypeOK ==
  /\ iem \subseteq Months /\ list \subseteq Months
  /\ chunk \in [Months -> [status : {"none", "complete", "error"}, attempts : 0..MaxCounted,
                           fresh : BOOLEAN]]
  /\ task \in {"off", "queued", "running", "fetched", "failed", "over"}

MosInit ==
  /\ iem = Months /\ task = "off" /\ list = {}
  /\ chunk = [m \in Months |-> [status |-> "none", attempts |-> 0, fresh |-> FALSE]]

\* New runs for a recent month.
NewRuns(m) ==
  /\ task # "off" /\ m \in Recent \ iem
  /\ iem' = iem \union {m}
  /\ UNCHANGED <<chunk, task, list>>

-----------------------------------------------------------------------------
\* Mutant: a chunk that failed too often is not tried again.
PendingChunkOnce(m) ==
  LET c == chunk[m]
      gave_up == c.attempts >= MaxChunkAttempts /\ c.status # "complete"
  IN  ~(gave_up \/ (c.status = "complete" /\ (m \notin Recent \/ c.fresh)))

\* pending_chunks: a failed chunk rests after MAX_CHUNK_ATTEMPTS, a complete one is fetched
\* again while it is recent.
PendingChunk(m) ==
  LET c == chunk[m]
      gave_up == c.attempts >= MaxChunkAttempts /\ c.status # "complete" /\ c.fresh
  IN  ~(gave_up \/ (c.status = "complete" /\ (m \notin Recent \/ c.fresh)))

\* REFRESH_RECENT_AFTER passes: 6 hours, more than the whole backlog needs at 20 s a chunk.
Age(m) ==
  /\ chunk[m].fresh /\ \A k \in Months : ~PendingChunk(k)
  /\ chunk' = [chunk EXCEPT ![m].fresh = FALSE]
  /\ UNCHANGED <<iem, task, list>>

\* The hourly beat.
Beat ==
  /\ task \in {"off", "over"} /\ task' = "queued"
  /\ UNCHANGED <<iem, chunk, list>>

PendingChunks == {m \in Months : PendingChunk(m)}

\* archive_forecasts takes the lock and lists the chunks.
StartForecasts ==
  /\ task = "queued" /\ task' = "running"
  /\ list' = PendingChunks
  /\ UNCHANGED <<iem, chunk>>

Newest == CHOOSE m \in list : \A k \in list : k <= m

\* IEMMosClient.fetch_csv: the month as CSV, or an error that outlasted the retries.
CsvAnswers == {"fetched", "failed"}

\* parse_mos_csv: the month's runs.
Parsed(m) == iem \intersect {m}

\* archive_window: the rows of the month are upserted and committed, or the chunk fails and
\* is rolled back.
ArchiveWindow ==
  /\ task = "running" /\ list # {}
  /\ task' \in CsvAnswers
  /\ iem' = IF task' = "fetched" THEN iem \ Parsed(Newest) ELSE iem
  /\ UNCHANGED <<chunk, list>>

\* _record_chunk, in a transaction of its own.
RecordChunk ==
  /\ task \in {"fetched", "failed"} /\ task' = "running"
  /\ chunk' = [chunk EXCEPT ![Newest] =
                 [status |-> IF task = "failed" THEN "error" ELSE "complete",
                  attempts |-> IF @.attempts < MaxCounted THEN @.attempts + 1 ELSE @.attempts,
                  fresh |-> TRUE]]
  /\ list' = list \ {Newest}
  /\ UNCHANGED iem

\* The run ends with its list or its budget, and queues itself again when chunks remain.
EndForecasts ==
  /\ task = "running"
  /\ task' \in IF list = {} THEN {"over"} ELSE {"queued", "over"}
  /\ list' = {}
  /\ UNCHANGED <<iem, chunk>>

\* A run that raises outside a chunk (its time limit) queues itself as well; one that is
\* killed waits for the beat.
ForecastsFail ==
  /\ task \in {"running", "fetched", "failed"}
  /\ task' \in {"queued", "over"} /\ list' = {}
  /\ UNCHANGED <<iem, chunk>>

MosNext ==
  \/ \E m \in Months : NewRuns(m) \/ Age(m)
  \/ Beat \/ StartForecasts \/ ArchiveWindow \/ RecordChunk \/ EndForecasts \/ ForecastsFail

MosSpec == MosInit /\ [][MosNext]_mosVars

\* The beat and the worker; now and then the month's chunk comes through and a run is not
\* killed; and time passes.
MosFairness(m) ==
  /\ WF_mosVars(task = "over" /\ Beat) /\ WF_mosVars(StartForecasts)
  /\ WF_mosVars(EndForecasts)
  /\ SF_mosVars(ArchiveWindow) /\ SF_mosVars(RecordChunk)
  /\ SF_mosVars(ArchiveWindow /\ Newest = m /\ task' = "fetched")
  /\ SF_mosVars(Age(m))

-----------------------------------------------------------------------------
(***************************************************************************)
(* Every run that IEM publishes comes into the archive, also for a chunk   *)
(* that failed too often before ("then get another round") and for a month *)
(* that was complete when it was published.                                *)
(***************************************************************************)
NoRunIsForgotten ==
  \A m \in Months : MosFairness(m) => []<>(task # "off" => m \notin iem)
=============================================================================
