------------------------------- MODULE Updater -------------------------------
(***************************************************************************)
(* The self-updater: scripts/updater/server.py, which runs one update at a *)
(* time and kills it after a timeout, and update.sh, which pulls, builds   *)
(* and recreates the containers and skips the frontend when frontend/ has  *)
(* not changed since a baseline commit.                                    *)
(*                                                                         *)
(* A commit is its position on origin/master, and "log" gives each the     *)
(* contents of its frontend/ directory.  The backend is built every time.  *)
(* The script waits for one external command after the other; a command    *)
(* works on the tree as it was when it began.  The timeout kills the       *)
(* script and not the command, which runs on (an orphan).                  *)
(***************************************************************************)
EXTENDS Naturals, Sequences

CONSTANTS
  Contents,    \* what frontend/ may contain
  MaxCommits,  \* bound: commits on origin/master
  MaxFaults    \* bound: timeouts, crashes, failures the script has no answer for

ASSUME BoundsAreNat == MaxCommits \in Nat \ {0} /\ MaxFaults \in Nat

VARIABLES
  log,      \* origin/master
  head,     \* HEAD of the project directory
  marker,   \* .updater_last_deployed; None when missing or empty
  image,    \* the commit each image tag was built from
  running,  \* the commit each running container was built from
  lock,     \* _update_lock
  status,   \* STATUS_FILE
  script,   \* update.sh
  orphans,  \* commands that outlived their script
  misled,   \* history: a baseline's frontend was not the running one
  orphaned, \* history: a command outlived its script
  faults

deployed == <<image, running>>
repository == <<log, head, marker>>
server == <<lock, status, script>>
history == <<misled, orphaned>>
vars == <<repository, deployed, server, orphans, history, faults>>

None == 0
Commits == 1..Len(log)
Services == {"backend", "frontend"}
Commands == {"pull", "backend", "frontend", "up"}
Busy == {"pulling", "building", "restarting"}

\* cmd: what the script waits for; src: the tree it began with; the rest are
\* LAST_DEPLOYED, PRE_PULL_HEAD, NEW_HEAD and FRONTEND_CHANGED.
Idle == [cmd |-> "none", src |-> None, last |-> None, pre |-> None, new |-> None,
         changed |-> TRUE]

TypeOK ==
  LET MaybeCommit == 0..MaxCommits IN
  /\ log \in Seq(Contents) /\ Len(log) \in 1..MaxCommits
  /\ head \in 1..MaxCommits
  /\ marker \in MaybeCommit
  /\ image \in [Services -> 1..MaxCommits]
  /\ running \in [Services -> 1..MaxCommits]
  /\ lock \in BOOLEAN
  /\ status \in Busy \union {"idle", "done", "error"}
  /\ script \in [cmd : Commands \union {"none", "start", "mark"}, src : MaybeCommit,
                 last : MaybeCommit, pre : MaybeCommit, new : MaybeCommit,
                 changed : BOOLEAN]
  /\ orphans \subseteq [cmd : Commands, src : 1..MaxCommits, services : SUBSET Services]
  /\ misled \in BOOLEAN /\ orphaned \in BOOLEAN
  /\ faults \in 0..MaxFaults

\* Installed by hand, without a marker, or by an earlier update.
Init ==
  /\ \E contents \in Contents : log = <<contents>>
  /\ head = 1
  /\ marker \in {None, 1}
  /\ image = [s \in Services |-> 1]
  /\ running = [s \in Services |-> 1]
  /\ lock = FALSE
  /\ status = "idle"
  /\ script = Idle
  /\ orphans = {}
  /\ misled = FALSE /\ orphaned = FALSE
  /\ faults = 0

Fault == faults < MaxFaults /\ faults' = faults + 1

Recreated(services) == [s \in Services |-> IF s \in services THEN image[s] ELSE running[s]]
Restarted(changed) == IF changed THEN Services ELSE {"backend"}

\* What is left of a command c that is cut off or fails: all of it, a part, nothing.
MayHaveRun(c) ==
  /\ head' \in IF c.cmd = "pull" THEN {head, Len(log)} ELSE {head}
  /\ image' \in IF c.cmd \in Services THEN {image, [image EXCEPT ![c.cmd] = c.src]}
                ELSE {image}
  /\ running' \in IF c.cmd = "up" THEN {Recreated(part) : part \in SUBSET c.services}
                  ELSE {running}

\* The command the script waits for, and an unfinished write of the marker.
Command == [cmd |-> script.cmd, src |-> script.src, services |-> Restarted(script.changed)]
MayHaveMarked ==
  marker' \in IF script.cmd = "mark" THEN {marker, None, script.new} ELSE {marker}

-----------------------------------------------------------------------------
(* server.py                                                               *)

\* POST /update; while the lock is taken it answers 409 and changes nothing.
Post ==
  /\ ~lock
  /\ lock' = TRUE
  /\ status' = "pulling"
  /\ script' = [Idle EXCEPT !.cmd = "start"]
  /\ UNCHANGED <<repository, deployed, orphans, history, faults>>

\* The status file cannot be written: the handler raises with the lock taken.
PostFails ==
  /\ ~lock
  /\ Fault
  /\ lock' = TRUE
  /\ status' \in {status, "idle"}
  /\ UNCHANGED <<repository, deployed, script, orphans, history>>

\* update.sh has ended: the thread releases the lock.
Exit(st) == lock' = FALSE /\ status' = st /\ script' = Idle

\* Mutant: the lock is released on the normal path only.
TimeOutKeepsLock ==
  /\ script.cmd \in Commands
  /\ Fault
  /\ status' = "error" /\ script' = Idle
  /\ orphans' = orphans \union {Command}
  /\ orphaned' = TRUE
  /\ UNCHANGED <<repository, deployed, lock, misled>>

\* TimeoutExpired: proc.kill() reaches the shell only.
TimeOut ==
  /\ script.cmd \in Commands
  /\ Fault
  /\ Exit("error")
  /\ orphans' = orphans \union {Command}
  /\ orphaned' = TRUE
  /\ UNCHANGED <<repository, deployed, misled>>

\* The container stops with all it runs, and comes back with its /tmp or a new one.
Crash ==
  /\ Fault
  /\ lock' = FALSE /\ script' = Idle /\ orphans' = {}
  /\ status' \in {status, "idle"}
  /\ MayHaveRun(Command) /\ MayHaveMarked
  /\ UNCHANGED <<log, history>>

\* A failure the script has no if for (docker buildx create, a full disk): set -e ends
\* it, and the status file still says what it said.
EndUntold ==
  /\ script # Idle
  /\ Fault
  /\ Exit(status)
  /\ MayHaveRun(Command) /\ MayHaveMarked
  /\ UNCHANGED <<log, orphans, history>>

-----------------------------------------------------------------------------
(* update.sh                                                               *)

\* The marker and HEAD are read before the pull.
StartPull ==
  /\ script.cmd = "start"
  /\ script' = [script EXCEPT !.cmd = "pull", !.src = head, !.last = marker, !.pre = head]
  /\ status' = "pulling"
  /\ UNCHANGED <<repository, deployed, lock, orphans, history, faults>>

\* Mutant: HEAD need not have moved.
BaselineUnmoved(last, pre, new) == IF last # None THEN last ELSE pre

\* The commit frontend/ is compared with.
Baseline(last, pre, new) ==
  IF last # None THEN last ELSE IF pre # new THEN pre ELSE None

FrontendChanged(base, new) == base = None \/ log[base] # log[new]

\* git pull succeeds: the change detection, and the backend build begins.
Pulled ==
  LET new == Len(log)
      base == Baseline(script.last, script.pre, new)
  IN
  /\ script.cmd = "pull"
  /\ head' = new
  /\ script' = [script EXCEPT !.cmd = "backend", !.src = new, !.new = new, !.last = base,
                               !.changed = FrontendChanged(base, new)]
  /\ misled' = (misled \/ (/\ script.last = None /\ script.pre # new
                           /\ log[script.pre] # log[running["frontend"]]))
  /\ status' = "building"
  /\ UNCHANGED <<log, marker, deployed, lock, orphans, orphaned, faults>>

Built(service) ==
  /\ script.cmd = service
  /\ image' = [image EXCEPT ![service] = script.src]

BackendBuilt ==
  /\ Built("backend")
  /\ script' = [script EXCEPT !.cmd = IF script.changed THEN "frontend" ELSE "up",
                               !.src = head]
  /\ status' = IF script.changed THEN "building" ELSE "restarting"
  /\ UNCHANGED <<repository, running, lock, orphans, history, faults>>

FrontendBuilt ==
  /\ Built("frontend")
  /\ script' = [script EXCEPT !.cmd = "up", !.src = head]
  /\ status' = "restarting"
  /\ UNCHANGED <<repository, running, lock, orphans, history, faults>>

Recreate ==
  /\ script.cmd = "up"
  /\ running' = Recreated(Restarted(script.changed))
  /\ script' = [script EXCEPT !.cmd = "mark"]
  /\ UNCHANGED <<repository, image, lock, status, orphans, history, faults>>

Mark ==
  /\ script.cmd = "mark"
  /\ marker' = script.new
  /\ Exit("done")
  /\ UNCHANGED <<log, head, deployed, orphans, history, faults>>

\* Mutants: a status nobody knows; the script ends without saying so.
CommandFailsOddly ==
  /\ script.cmd \in Commands
  /\ Exit("failed")
  /\ UNCHANGED <<repository, deployed, orphans, history, faults>>
CommandFailsSilently ==
  /\ script.cmd \in Commands
  /\ Exit(status)
  /\ UNCHANGED <<repository, deployed, orphans, history, faults>>

\* A pull, a build or the restart fails; a build or the restart perhaps half-way.
CommandFails ==
  /\ script.cmd \in Commands
  /\ Exit("error")
  /\ MayHaveRun(Command)
  /\ script.cmd = "pull" => head' = head
  /\ UNCHANGED <<log, marker, orphans, history, faults>>

-----------------------------------------------------------------------------
(* Orphans, and what happens outside the updater.                          *)

OrphanEnds(o) ==
  /\ MayHaveRun(o)
  /\ orphans' = orphans \ {o}
  /\ UNCHANGED <<log, marker, server, history, faults>>

Push(contents) ==
  /\ Len(log) < MaxCommits
  /\ log' = Append(log, contents)
  /\ UNCHANGED <<head, marker, deployed, server, orphans, history, faults>>

\* "A deploy done any other way (manual SSH)": it leaves the marker alone.
DeployByHand ==
  /\ ~lock /\ orphans = {}
  /\ head' = Len(log)
  /\ image' = [s \in Services |-> Len(log)]
  /\ running' = [s \in Services |-> Len(log)]
  /\ UNCHANGED <<log, marker, server, orphans, history, faults>>

-----------------------------------------------------------------------------
ScriptStep ==
  \/ StartPull
  \/ Pulled
  \/ BackendBuilt
  \/ FrontendBuilt
  \/ Recreate
  \/ Mark
  \/ CommandFails

Next ==
  \/ Post
  \/ PostFails
  \/ ScriptStep
  \/ EndUntold
  \/ TimeOut
  \/ Crash
  \/ \E o \in orphans : OrphanEnds(o)
  \/ \E contents \in Contents : Push(contents)
  \/ DeployByHand

Spec == Init /\ [][Next]_vars

\* UPDATE_TIMEOUT_SECONDS bounds every command; nobody has to ask for an update.
Fairness == WF_vars(ScriptStep)

FairSpec == Spec /\ Fairness

-----------------------------------------------------------------------------
\* No commit brings back frontend contents that a commit in between replaced.
NoRevert ==
  \A i, j, k \in Commits : i < j /\ j < k /\ log[i] = log[k] => log[j] = log[i]

(***************************************************************************)
(* An update that reports "done" leaves the backend and the frontend of    *)
(* NEW_HEAD running, also when it skipped the frontend, and whatever       *)
(* earlier updates failed, crashed or were done by hand.  Not covered,     *)
(* since the code does otherwise: a pre-pull HEAD that was pulled and      *)
(* never deployed (misled), a commit that reverts frontend/ (the two ends  *)
(* of the diff agree, what runs may lie between them), and commands that   *)
(* outlived a killed script.                                               *)
(***************************************************************************)
DoneIsDeployed ==
  [][ script.cmd = "mark" /\ status' = "done" /\ ~misled /\ ~orphaned /\ NoRevert
      => /\ running["backend"] = script.new
         /\ log[running["frontend"]] = log[script.new] ]_vars

(***************************************************************************)
(* The settings page polls until the status is done, error or idle: while  *)
(* no crash and no unforeseen failure happens, a status that says an       *)
(* update is under way has one under way (server.py, write_status).        *)
(***************************************************************************)
BusyIsTrue == faults = 0 /\ status \in Busy => script # Idle

(***************************************************************************)
(* An update that has started ends and leaves the lock free for the next:  *)
(* _run_update releases it in a finally.                                   *)
(***************************************************************************)
UpdateEnds == script # Idle ~> ~lock
=============================================================================
