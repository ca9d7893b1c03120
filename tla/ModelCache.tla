----------------------------- MODULE ModelCache -----------------------------
(***************************************************************************)
(* Trained models on disk and in the worker processes: train_models.py     *)
(* writes them file by file, pipeline.py caches them in each Celery child  *)
(* and reloads them when the modification time of one file changes.        *)
(*                                                                         *)
(* An artifact is read under the modification time of its key file.  The   *)
(* ensemble's key is ml_weights.json, next to two files for each model; an *)
(* artifact of Singles (source weights, calibration curves) is one file.   *)
(* A file is known by the training that wrote it; read while it is being   *)
(* written it may be Torn.  Every write has a modification time of its own. *)
(* Each artifact has a cache of its own, so that a behaviour follows one.  *)
(***************************************************************************)
EXTENDS Integers

CONSTANTS
  Procs,     \* Celery children
  Models,
  Parts,     \* the files of a model: the estimator and its metadata
  Singles,
  MaxTrain   \* bound: trainings that write files

ASSUME ModelAssumption == MaxTrain \in Nat /\ "key" \notin Parts

VARIABLES
  artifact,  \* the artifact that is followed
  disk,      \* each file: the training that wrote it, 0 if there is none, or Torn
  mtime,     \* modification time of the key file
  trained,   \* trainings so far
  broken,    \* history: a training was cut short, and none has written the key file since
  cache,     \* per child: the time the artifact was read under, and the files read
  proc       \* each child: the files it has yet to write or read

modelVars == <<artifact, disk, mtime, trained, broken, cache, proc>>

Ensemble == "ml_weights"
Artifacts == Singles \union {Ensemble}
Torn == MaxTrain + 1
ModelFiles == Models \X Parts
KeyFile == <<artifact, "key">>
Files == (IF artifact = Ensemble THEN ModelFiles ELSE {}) \union {KeyFile}

\* save_all and load_all go through the models, each with its files, and take the weights last.
\* In which order they take the models is left open.
Turn(todo) == IF todo = {KeyFile} THEN todo ELSE todo \ {KeyFile}

\* What reload_models leaves in a child.
Unread == [seen |-> -1, files |-> [f \in {} |-> 0]]
Resting == [at |-> "idle", todo |-> {}, gen |-> 0]

ReadSoFar == UNION {[some -> 0..Torn] : some \in SUBSET Files}

ModelTypeOK ==
  /\ artifact \in Artifacts /\ disk \in [Files -> 0..Torn] /\ mtime \in Nat
  /\ trained \in 0..MaxTrain
  /\ proc \in [Procs -> [at : {"idle", "loads", "saves"}, todo : SUBSET Files, gen : 0..MaxTrain]]
  /\ cache \in [Procs -> [seen : Nat \union {-1}, files : ReadSoFar]]
  /\ broken \in BOOLEAN

ModelInit ==
  /\ artifact \in Artifacts
  /\ disk = [f \in Files |-> 0] /\ mtime = 0
  /\ trained = 0 /\ broken = FALSE
  /\ cache = [p \in Procs |-> Unread]
  /\ proc = [p \in Procs |-> Resting]

-----------------------------------------------------------------------------
\* pipeline.py: _get_ml_ensemble, _get_source_weights, _get_calibration_curves.  The time is
\* read first; what is cached under it is used as it is.
BeginLoad(p) ==
  /\ proc[p].at = "idle" /\ cache[p].seen # mtime
  /\ cache' = [cache EXCEPT ![p] = [Unread EXCEPT !.seen = mtime]]
  /\ proc' = [proc EXCEPT ![p] = [Resting EXCEPT !.at = "loads", !.todo = Files]]
  /\ UNCHANGED <<artifact, disk, mtime, trained, broken>>

Saving(p) == proc[p].at = "saves"

\* What a read may find: the file, or a part of it when a write is under way.
Readings(f) ==
  {disk[f]} \union {Torn : q \in {q \in Procs : Saving(q) /\ f \in Turn(proc[q].todo)}}

LoadDone(p, f) ==
  LET rest == proc[p].todo \ {f} IN
  proc' = [proc EXCEPT ![p] = IF rest = {} THEN Resting ELSE [@ EXCEPT !.todo = rest]]

Extended(files, f, content) ==
  [g \in DOMAIN files \union {f} |-> IF g = f THEN content ELSE files[g]]

\* Mutant: the time is read when the load is over.
LoadFileLate(p) ==
  /\ proc[p].at = "loads"
  /\ \E f \in Turn(proc[p].todo) :
       /\ LoadDone(p, f)
       /\ \E content \in Readings(f) :
            cache' = [cache EXCEPT ![p] = [seen |-> mtime, files |-> Extended(@.files, f, content)]]
  /\ UNCHANGED <<artifact, disk, mtime, trained, broken>>

\* An unreadable file is no error: it is as if there were none.
LoadFile(p) ==
  /\ proc[p].at = "loads"
  /\ \E f \in Turn(proc[p].todo) :
       /\ LoadDone(p, f)
       /\ \E content \in Readings(f) : cache' = [cache EXCEPT ![p].files = Extended(@, f, content)]
  /\ UNCHANGED <<artifact, disk, mtime, trained, broken>>

\* A file of load_all; and the one of load_source_weights or load_calibration.
LoadEnsemble(p) == artifact = Ensemble /\ LoadFile(p)

LoadSingle(p) == artifact \in Singles /\ LoadFile(p)

-----------------------------------------------------------------------------
\* The writes of _train_all_async: the accepted models and the weights; or what is fitted.
FilesSaved(acc) == (IF artifact = Ensemble THEN acc \X Parts ELSE {}) \union {KeyFile}

\* train: a model is saved unless its training fails or its error is too great; save_all
\* leaves the files of the others as they are.
Accepted == SUBSET Models

\* train_all_models up to the first write: train_all with its verdict on each model.
StartTraining(p) ==
  /\ proc[p].at = "idle" /\ trained < MaxTrain
  /\ trained' = trained + 1
  /\ \E acc \in Accepted :
       proc' = [proc EXCEPT ![p] = [at |-> "saves", gen |-> trained + 1, todo |-> FilesSaved(acc)]]
  /\ UNCHANGED <<artifact, disk, mtime, broken, cache>>

Overwrite(f, content) ==
  /\ disk' = [disk EXCEPT ![f] = content]
  /\ mtime' = IF f = KeyFile THEN mtime + 1 ELSE mtime

WithoutModel(todo, f) == {g \in todo : g = KeyFile \/ g[1] # f[1]}

\* The training goes on to the rest of its files; after the last one reload_models clears this
\* child's caches.
SaveDone(p, rest) ==
  /\ proc' = [proc EXCEPT ![p] = IF rest = {} THEN Resting ELSE [@ EXCEPT !.todo = rest]]
  /\ cache' = IF rest = {} THEN [cache EXCEPT ![p] = Unread] ELSE cache
  /\ broken' = (broken /\ rest # {})
  /\ UNCHANGED <<artifact, trained>>

\* A file of a model is written; or it is cut short by an error that save_all logs before it
\* takes the next model.
WriteModelFile(p) ==
  /\ Saving(p)
  /\ \E f \in Turn(proc[p].todo) \ {KeyFile} :
       \/ Overwrite(f, proc[p].gen) /\ SaveDone(p, proc[p].todo \ {f})
       \/ Overwrite(f, Torn) /\ SaveDone(p, WithoutModel(proc[p].todo, f))

\* The weights of the ensemble, or a file of Singles (save_source_weights, save_calibration).
WriteKeyFile(p) ==
  /\ Saving(p) /\ proc[p].todo = {KeyFile}
  /\ Overwrite(KeyFile, proc[p].gen)
  /\ SaveDone(p, {})

\* The child is killed (time_limit, deployment), and a new one has empty caches; or an error
\* ends the training.
CutShort(p) ==
  /\ proc[p].at # "idle"
  /\ proc' = [proc EXCEPT ![p] = Resting]
  /\ \/ cache' = [cache EXCEPT ![p] = Unread]
     \/ Saving(p) /\ UNCHANGED cache
  /\ broken' = (broken \/ Saving(p))
  /\ \/ UNCHANGED <<disk, mtime>>
     \/ Saving(p) /\ \E f \in Turn(proc[p].todo) : Overwrite(f, Torn)
  /\ UNCHANGED <<artifact, trained>>

-----------------------------------------------------------------------------
ModelNext ==
  \E p \in Procs :
    \/ BeginLoad(p)
    \/ LoadEnsemble(p) \/ LoadSingle(p)
    \/ StartTraining(p) \/ WriteModelFile(p) \/ WriteKeyFile(p) \/ CutShort(p)

ModelSpec == ModelInit /\ [][ModelNext]_modelVars

-----------------------------------------------------------------------------
(***************************************************************************)
(* "A retrain in one Celery child is picked up by all of them" (pipeline.  *)
(* py, _get_ml_ensemble): once no training is under way, and unless one    *)
(* was cut short that no other has made up for, what a child has read      *)
(* under the present modification time is what the disk holds, whichever   *)
(* writes and reads overlapped.                                            *)
(***************************************************************************)
CachedIsCurrent ==
  ~broken /\ (\A q \in Procs : ~Saving(q)) =>
    \A p \in Procs : cache[p].seen = mtime =>
      \A f \in DOMAIN cache[p].files : cache[p].files[f] = disk[f]
================================================================================
