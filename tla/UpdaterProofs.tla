---------------------------- MODULE UpdaterProofs ----------------------------
(***************************************************************************)
(* Theorems about Updater, for any contents and any number of commits and  *)
(* faults.                                                                 *)
(*                                                                         *)
(* DoneIsDeployed rests on what the marker is worth after updates that     *)
(* failed or crashed on the way: the frontend that runs has the contents   *)
(* of some commit from the marker to HEAD (MarkerIsBehind).  Without       *)
(* reverts, two equal ends of that stretch leave no room for another.      *)
(***************************************************************************)
EXTENDS Updater, TLAPS

\* Nothing is ahead of HEAD, and HEAD is a commit.
WithinLog ==
  /\ head \in Commits
  /\ marker <= head
  /\ \A s \in Services : image[s] <= head /\ running[s] <= head
  /\ script.src <= head /\ script.last <= head /\ script.pre <= head /\ script.new <= head
  /\ script.cmd \in Commands => script.src # None

\* Orphans began with a tree that HEAD has not gone back behind.
OrphansWithin == \A o \in orphans : o.src <= head

Running == {"backend", "frontend", "up", "mark"}

\* What each command of a script was started with, and what those before it left.
Stages ==
  /\ script.cmd # "none" => lock
  /\ ~orphaned =>
       /\ orphans = {}
       /\ script.cmd = "pull" => script.last = marker /\ script.pre = head
       /\ script.cmd \in Running => script.new = head
       /\ script.cmd \in {"backend", "frontend"} => script.src = head
       /\ script.cmd = "frontend" => script.changed
       /\ script.cmd \in {"frontend", "up"} => image["backend"] = head
       /\ script.cmd = "up" /\ script.changed => image["frontend"] = head
       /\ script.cmd = "mark" => running["backend"] = head
       /\ script.cmd = "mark" /\ script.changed => running["frontend"] = head

Trusted == ~misled /\ ~orphaned /\ NoRevert

\* The running frontend lies between the marker and HEAD.
MarkerIsBehind ==
  Trusted /\ marker # None => \E c \in marker..head : log[c] = log[running["frontend"]]

\* A frontend that is skipped is the one that runs.
SkippedIsRunning ==
  Trusted /\ script.cmd \in Running /\ ~script.changed
  => log[running["frontend"]] = log[head]

IInv ==
  /\ TypeOK
  /\ WithinLog
  /\ OrphansWithin
  /\ Stages
  /\ MarkerIsBehind
  /\ SkippedIsRunning

-----------------------------------------------------------------------------
LEMMA InitIInv == Init => IInv
<1> SUFFICES ASSUME Init PROVE IInv
  OBVIOUS
<1> USE BoundsAreNat DEF Init
<1>0. log \in Seq(Contents) /\ Len(log) = 1
  <2>1. PICK c \in Contents : log = <<c>>
    OBVIOUS
  <2> QED
    BY <2>1
<1>1. TypeOK
  <2>1. script \in [cmd : Commands \union {"none", "start", "mark"}, src : 0..MaxCommits,
                    last : 0..MaxCommits, pre : 0..MaxCommits, new : 0..MaxCommits,
                    changed : BOOLEAN]
    BY DEF Idle, None
  <2>2. image \in [Services -> 1..MaxCommits] /\ running \in [Services -> 1..MaxCommits]
    OBVIOUS
  <2>3. marker \in 0..MaxCommits /\ head \in 1..MaxCommits /\ faults \in 0..MaxFaults
    BY DEF None
  <2> QED
    BY <1>0, <2>1, <2>2, <2>3 DEF TypeOK, Busy
<1>2. WithinLog
  BY <1>0 DEF WithinLog, Commits, Idle, None, Services, Commands
<1>6. OrphansWithin
  BY DEF OrphansWithin
<1>3. Stages
  BY DEF Stages, Idle, Running
<1>4. MarkerIsBehind
  BY DEF MarkerIsBehind, None, Services
<1>5. SkippedIsRunning
  BY DEF SkippedIsRunning, Idle
<1> QED
  BY <1>1, <1>2, <1>3, <1>4, <1>5, <1>6 DEF IInv

\* A push appends: what the log says of a commit never changes.
LEMMA LogGrows ==
  ASSUME TypeOK, [Next]_vars
  PROVE  /\ log' \in Seq(Contents)
         /\ Len(log') \in Len(log)..MaxCommits
         /\ \A i \in Commits : i \in Commits' /\ log'[i] = log[i]
         /\ NoRevert' => NoRevert
<1> USE BoundsAreNat
<1>1. CASE UNCHANGED log
  BY <1>1 DEF TypeOK, NoRevert, Commits
<1>2. CASE \E contents \in Contents : Push(contents)
  <2>1. PICK contents \in Contents : Push(contents)
    BY <1>2
  <2>2. /\ log' \in Seq(Contents) /\ Len(log') = Len(log) + 1
        /\ \A i \in 1..Len(log) : log'[i] = log[i]
    BY <2>1 DEF Push, TypeOK
  <2>3. Len(log) \in Nat /\ Len(log) < MaxCommits
    BY <2>1 DEF Push, TypeOK
  <2>4. \A i \in Commits : i \in Commits' /\ log'[i] = log[i]
    BY <2>2, <2>3 DEF Commits
  <2>5. NoRevert' => NoRevert
    BY <2>4 DEF NoRevert
  <2> QED
    BY <2>2, <2>3, <2>4, <2>5
<1>3. UNCHANGED log \/ \E contents \in Contents : Push(contents)
  BY DEF Next, vars, repository, deployed, server, history, Post, PostFails, ScriptStep,
         StartPull, Pulled, BackendBuilt, FrontendBuilt, Recreate, Mark, CommandFails,
         EndUntold, TimeOut, Crash, OrphanEnds, DeployByHand
<1> QED
  BY <1>1, <1>2, <1>3

\* A command that is cut off leaves commits and images, whatever it was.
LEMMA RunType ==
  ASSUME TypeOK, NEW c, c.services \subseteq Services,
         c.cmd \in Services => c.src \in 1..MaxCommits, MayHaveRun(c)
  PROVE  /\ head' \in 1..MaxCommits
         /\ image' \in [Services -> 1..MaxCommits]
         /\ running' \in [Services -> 1..MaxCommits]
<1>1. head' \in 1..MaxCommits
  BY DEF MayHaveRun, TypeOK
<1>2. image' \in [Services -> 1..MaxCommits]
  <2>1. CASE c.cmd \in Services
    <3>1. [image EXCEPT ![c.cmd] = c.src] \in [Services -> 1..MaxCommits]
      BY <2>1 DEF TypeOK
    <3> QED
      BY <2>1, <3>1 DEF MayHaveRun, TypeOK
  <2>2. CASE c.cmd \notin Services
    BY <2>2 DEF MayHaveRun, TypeOK
  <2> QED
    BY <2>1, <2>2
<1>3. running' \in [Services -> 1..MaxCommits]
  <2>1. \A part \in SUBSET Services : Recreated(part) \in [Services -> 1..MaxCommits]
    BY DEF Recreated, TypeOK
  <2> QED
    BY <2>1 DEF MayHaveRun, TypeOK
<1> QED
  BY <1>1, <1>2, <1>3

LEMMA CommandType ==
  ASSUME TypeOK, WithinLog
  PROVE  /\ Command.services \subseteq Services
         /\ Command.cmd = script.cmd /\ Command.src = script.src
         /\ Command.services = Restarted(script.changed)
         /\ script.cmd \in Commands =>
              /\ script.src \in 1..MaxCommits
              /\ Command \in [cmd : Commands, src : 1..MaxCommits,
                              services : SUBSET Services]
         /\ Command.cmd \in Services => Command.src \in 1..MaxCommits
<1>1. /\ Command.services \subseteq Services
      /\ Command.cmd = script.cmd /\ Command.src = script.src
      /\ Command.services = Restarted(script.changed)
  BY DEF Command, Restarted, Services
<1>2. script.cmd \in Commands => script.src \in 1..MaxCommits
  BY DEF TypeOK, WithinLog, None
<1>3. Services \subseteq Commands
  BY DEF Services, Commands
<1> QED
  BY <1>1, <1>2, <1>3 DEF Command

LEMMA TypeStep == TypeOK /\ WithinLog /\ [Next]_vars => TypeOK'
<1> SUFFICES ASSUME TypeOK, WithinLog, [Next]_vars PROVE TypeOK'
  OBVIOUS
<1> DEFINE Script == [cmd : Commands \union {"none", "start", "mark"}, src : 0..MaxCommits,
                      last : 0..MaxCommits, pre : 0..MaxCommits, new : 0..MaxCommits,
                      changed : BOOLEAN]
<1>l. log' \in Seq(Contents) /\ Len(log') \in 1..MaxCommits
  BY LogGrows, BoundsAreNat DEF TypeOK
<1>c. head \in 1..MaxCommits /\ Len(log) \in 1..MaxCommits /\ 1..MaxCommits \subseteq 0..MaxCommits
  BY BoundsAreNat DEF TypeOK
<1>i. Idle \in Script
  BY BoundsAreNat DEF Idle, None
<1>f. Fault => faults' \in 0..MaxFaults
  BY BoundsAreNat DEF Fault, TypeOK
<1>m. MayHaveMarked => marker' \in 0..MaxCommits
  BY BoundsAreNat DEF MayHaveMarked, TypeOK, None
<1>r. MayHaveRun(Command) => /\ head' \in 1..MaxCommits
                             /\ image' \in [Services -> 1..MaxCommits]
                             /\ running' \in [Services -> 1..MaxCommits]
  BY RunType, CommandType
<1> USE DEF repository, deployed, server, history
<1>1. CASE Post
  <2>1. script' \in Script
    BY <1>1, <1>i DEF Post
  <2> QED
    BY <1>1, <1>l, <2>1 DEF Post, TypeOK, Busy
<1>2. CASE PostFails
  BY <1>2, <1>l, <1>f DEF PostFails, TypeOK
<1>3. CASE StartPull
  <2>1. script' \in Script
    BY <1>3, <1>c DEF StartPull, TypeOK, Commands
  <2> QED
    BY <1>3, <1>l, <2>1 DEF StartPull, TypeOK, Busy
<1>4. CASE Pulled
  <2>1. Baseline(script.last, script.pre, Len(log)) \in 0..MaxCommits
    BY <1>c DEF Baseline, TypeOK, None
  <2>2. script' \in Script
    BY <1>4, <1>c, <2>1 DEF Pulled, TypeOK, Commands, FrontendChanged
  <2>3. head' \in 1..MaxCommits /\ misled' \in BOOLEAN
    BY <1>4, <1>c DEF Pulled, TypeOK
  <2> QED
    BY <1>4, <1>l, <2>2, <2>3 DEF Pulled, TypeOK, Busy
<1>5. CASE BackendBuilt
  <2>1. script' \in Script /\ status' \in Busy
    BY <1>5, <1>c DEF BackendBuilt, TypeOK, Commands, Busy
  <2>2. image' \in [Services -> 1..MaxCommits]
    BY <1>5, CommandType DEF BackendBuilt, Built, TypeOK, Commands
  <2> QED
    BY <1>5, <1>l, <2>1, <2>2 DEF BackendBuilt, TypeOK
<1>6. CASE FrontendBuilt
  <2>1. script' \in Script /\ status' \in Busy
    BY <1>6, <1>c DEF FrontendBuilt, TypeOK, Commands, Busy
  <2>2. image' \in [Services -> 1..MaxCommits]
    BY <1>6, CommandType DEF FrontendBuilt, Built, TypeOK, Commands
  <2> QED
    BY <1>6, <1>l, <2>1, <2>2 DEF FrontendBuilt, TypeOK
<1>7. CASE Recreate
  <2>1. script' \in Script
    BY <1>7 DEF Recreate, TypeOK
  <2>2. running' \in [Services -> 1..MaxCommits]
    BY <1>7 DEF Recreate, Recreated, TypeOK
  <2> QED
    BY <1>7, <1>l, <2>1, <2>2 DEF Recreate, TypeOK
<1>8. CASE Mark
  BY <1>8, <1>l, <1>i DEF Mark, Exit, TypeOK
<1>9. CASE CommandFails
  BY <1>9, <1>l, <1>i, <1>r DEF CommandFails, Exit, TypeOK
<1>10. CASE EndUntold
  BY <1>10, <1>l, <1>i, <1>r, <1>f, <1>m DEF EndUntold, Exit, TypeOK
<1>11. CASE TimeOut
  BY <1>11, <1>l, <1>i, <1>f, CommandType DEF TimeOut, Exit, TypeOK
<1>12. CASE Crash
  BY <1>12, <1>l, <1>i, <1>r, <1>f, <1>m DEF Crash, TypeOK
<1>13. CASE \E o \in orphans : OrphanEnds(o)
  <2>1. PICK o \in orphans : OrphanEnds(o)
    BY <1>13
  <2>2. o.services \subseteq Services /\ (o.cmd \in Services => o.src \in 1..MaxCommits)
    BY DEF TypeOK
  <2>3. /\ head' \in 1..MaxCommits
        /\ image' \in [Services -> 1..MaxCommits]
        /\ running' \in [Services -> 1..MaxCommits]
    BY <2>1, <2>2, RunType DEF OrphanEnds
  <2> QED
    BY <1>l, <2>1, <2>3 DEF OrphanEnds, TypeOK
<1>14. CASE \E contents \in Contents : Push(contents)
  BY <1>14, <1>l DEF Push, TypeOK
<1>15. CASE DeployByHand
  BY <1>15, <1>l, <1>c DEF DeployByHand, TypeOK
<1>16. CASE UNCHANGED vars
  BY <1>16 DEF vars, TypeOK
<1> QED
  BY <1>1, <1>2, <1>3, <1>4, <1>5, <1>6, <1>7, <1>8, <1>9, <1>10, <1>11, <1>12, <1>13,
     <1>14, <1>15, <1>16 DEF Next, ScriptStep

-----------------------------------------------------------------------------
\* What a cut-off command leaves lies within the log.
LEMMA RunWithin ==
  ASSUME TypeOK, WithinLog, NEW c, c.services \subseteq Services,
         c.cmd \in Services => c.src \in 1..MaxCommits /\ c.src <= head,
         MayHaveRun(c)
  PROVE  /\ head <= head' /\ head' \in Commits
         /\ \A s \in Services : image'[s] <= head /\ running'[s] <= head
<1>1. head <= head' /\ head' \in Commits
  BY DEF MayHaveRun, WithinLog, Commits, TypeOK
<1>2. ASSUME NEW s \in Services PROVE image'[s] <= head
  <2>1. CASE c.cmd \in Services
    <3>1. [image EXCEPT ![c.cmd] = c.src][s] \in {image[s], c.src}
      BY <2>1, <1>2 DEF TypeOK
    <3> QED
      BY <2>1, <3>1, <1>2 DEF MayHaveRun, WithinLog, TypeOK
  <2>2. CASE c.cmd \notin Services
    BY <2>2, <1>2 DEF MayHaveRun, WithinLog
  <2> QED
    BY <2>1, <2>2
<1>3. ASSUME NEW s \in Services PROVE running'[s] <= head
  <2>1. \A part \in SUBSET Services : Recreated(part)[s] \in {image[s], running[s]}
    BY <1>3 DEF Recreated
  <2>2. running'[s] \in {image[s], running[s]}
    BY <2>1 DEF MayHaveRun
  <2> QED
    BY <2>2, <1>3 DEF WithinLog
<1> QED
  BY <1>1, <1>2, <1>3

\* The script's own command, with or without the script.
LEMMA CommandWithin ==
  ASSUME TypeOK, WithinLog, MayHaveRun(Command)
  PROVE  /\ head <= head' /\ head' \in Commits
         /\ \A s \in Services : image'[s] <= head /\ running'[s] <= head
<1>1. Command.services \subseteq Services
  BY CommandType
<1>2. Command.cmd \in Services => Command.src \in 1..MaxCommits /\ Command.src <= head
  BY CommandType DEF WithinLog
<1> QED
  BY <1>1, <1>2, RunWithin

LEMMA WithinStep ==
  TypeOK /\ TypeOK' /\ WithinLog /\ OrphansWithin /\ [Next]_vars
  => WithinLog' /\ OrphansWithin'
<1> SUFFICES ASSUME TypeOK, TypeOK', WithinLog, OrphansWithin, [Next]_vars
             PROVE  WithinLog' /\ OrphansWithin'
  OBVIOUS
<1>l. Len(log) <= Len(log') /\ Len(log) \in Nat /\ Len(log') \in Nat
      /\ head \in Nat /\ head \in Commits /\ head <= Len(log) /\ 1 <= head
  BY LogGrows, SMTT(20) DEF TypeOK, WithinLog, Commits
<1>p. Commits \subseteq Commits'
  BY <1>l DEF Commits
<1>i. Idle.src <= head /\ Idle.last <= head /\ Idle.pre <= head /\ Idle.new <= head
      /\ Idle.cmd = "none" /\ Idle.cmd \notin Commands /\ Idle.src = 0 /\ Idle.last = 0
      /\ Idle.pre = 0 /\ Idle.new = 0
  BY <1>l DEF Idle, None, Commands
<1>m. MayHaveMarked => marker' <= head
  BY <1>l DEF MayHaveMarked, WithinLog, None
<1> USE DEF repository, deployed, server, history
<1>1. CASE Post
  BY <1>1, <1>p, <1>i DEF Post, WithinLog, OrphansWithin, Idle, Commands
<1>2. CASE PostFails
  BY <1>2, <1>p DEF PostFails, WithinLog, OrphansWithin
<1>3. CASE StartPull
  BY <1>3, <1>p, <1>l DEF StartPull, WithinLog, OrphansWithin, None, TypeOK
<1>4. CASE Pulled
  <2>1. head' = Len(log) /\ head' \in Commits'
    BY <1>4, <1>l DEF Pulled, Commits
  <2>2. Baseline(script.last, script.pre, Len(log)) <= head'
    BY <2>1, <1>l DEF Baseline, WithinLog, None, TypeOK
  <2>3. script'.src = head' /\ script'.new = head' /\ script'.last <= head' /\ script'.pre <= head'
    BY <1>4, <2>1, <2>2, <1>l DEF Pulled, WithinLog, TypeOK
  <2>4. marker' <= head' /\ (\A s \in Services : image'[s] <= head' /\ running'[s] <= head')
    BY <1>4, <2>1, <1>l DEF Pulled, WithinLog, TypeOK
  <2>5. OrphansWithin'
    BY <1>4, <2>1, <1>l DEF Pulled, OrphansWithin, TypeOK
  <2> QED
    BY <2>1, <2>3, <2>4, <2>5, <1>l DEF WithinLog, None
<1>5. CASE BackendBuilt
  <2>1. \A s \in Services : image'[s] <= head
    BY <1>5 DEF BackendBuilt, Built, WithinLog, TypeOK
  <2>2. script'.src = head /\ script'.last = script.last /\ script'.pre = script.pre
        /\ script'.new = script.new
    BY <1>5 DEF BackendBuilt, TypeOK
  <2> QED
    BY <1>5, <1>p, <1>l, <2>1, <2>2 DEF BackendBuilt, WithinLog, OrphansWithin, None
<1>6. CASE FrontendBuilt
  <2>1. \A s \in Services : image'[s] <= head
    BY <1>6 DEF FrontendBuilt, Built, WithinLog, TypeOK
  <2>2. script'.src = head /\ script'.last = script.last /\ script'.pre = script.pre
        /\ script'.new = script.new
    BY <1>6 DEF FrontendBuilt, TypeOK
  <2> QED
    BY <1>6, <1>p, <1>l, <2>1, <2>2 DEF FrontendBuilt, WithinLog, OrphansWithin, None
<1>7. CASE Recreate
  <2>1. \A s \in Services : running'[s] <= head
    BY <1>7 DEF Recreate, Recreated, WithinLog
  <2>2. script'.src = script.src /\ script'.last = script.last /\ script'.pre = script.pre
        /\ script'.new = script.new /\ script'.cmd = "mark"
    BY <1>7 DEF Recreate, TypeOK
  <2> QED
    BY <1>7, <1>p, <2>1, <2>2 DEF Recreate, WithinLog, OrphansWithin, Commands
<1>8. CASE Mark
  BY <1>8, <1>p, <1>i DEF Mark, Exit, WithinLog, OrphansWithin
<1>9. CASE CommandFails
  BY <1>9, <1>p, <1>i, <1>l, CommandWithin, SMTT(20) DEF CommandFails, Exit, WithinLog, OrphansWithin, TypeOK
<1>10. CASE EndUntold
  BY <1>10, <1>p, <1>i, <1>l, <1>m, CommandWithin, SMTT(20) DEF EndUntold, Exit, WithinLog, OrphansWithin, TypeOK
<1>11. CASE TimeOut
  <2>1. OrphansWithin'
    BY <1>11, CommandType DEF TimeOut, OrphansWithin, WithinLog
  <2> QED
    BY <1>11, <1>p, <1>i, <2>1 DEF TimeOut, Exit, WithinLog
<1>12. CASE Crash
  BY <1>12, <1>p, <1>i, <1>l, <1>m, CommandWithin, SMTT(20) DEF Crash, WithinLog, OrphansWithin, TypeOK
<1>13. CASE \E o \in orphans : OrphanEnds(o)
  <2>1. PICK o \in orphans : OrphanEnds(o)
    BY <1>13
  <2>2. o.services \subseteq Services /\ o.src \in 1..MaxCommits /\ o.src <= head
    BY DEF TypeOK, OrphansWithin
  <2>3. /\ head <= head' /\ head' \in Commits
        /\ \A s \in Services : image'[s] <= head /\ running'[s] <= head
    BY <2>1, <2>2, RunWithin DEF OrphanEnds
  <2> QED
    BY <1>p, <1>l, <2>1, <2>3 DEF OrphanEnds, WithinLog, OrphansWithin, TypeOK
<1>14. CASE \E contents \in Contents : Push(contents)
  BY <1>14, <1>p DEF Push, WithinLog, OrphansWithin
<1>15. CASE DeployByHand
  BY <1>15, <1>l, <1>p DEF DeployByHand, WithinLog, OrphansWithin, TypeOK, Commits
<1>16. CASE UNCHANGED vars
  BY <1>16 DEF vars, WithinLog, OrphansWithin, Commits
<1> QED
  BY <1>1, <1>2, <1>3, <1>4, <1>5, <1>6, <1>7, <1>8, <1>9, <1>10, <1>11, <1>12, <1>13,
     <1>14, <1>15, <1>16 DEF Next, ScriptStep

-----------------------------------------------------------------------------
LEMMA StagesStep == TypeOK /\ WithinLog /\ Stages /\ [Next]_vars => Stages'
<1> SUFFICES ASSUME TypeOK, WithinLog, Stages, [Next]_vars PROVE Stages'
  OBVIOUS
<1>i. Idle.cmd = "none"
  BY DEF Idle
<1> USE DEF repository, deployed, server, history, Running
<1>1. CASE Post
  BY <1>1 DEF Post, Stages, Idle
<1>2. CASE PostFails
  BY <1>2 DEF PostFails, Stages
<1>3. CASE StartPull
  BY <1>3 DEF StartPull, Stages, TypeOK
<1>4. CASE Pulled
  <2>1. script'.cmd = "backend" /\ script'.new = head' /\ script'.src = head'
    BY <1>4 DEF Pulled, TypeOK
  <2> QED
    BY <1>4, <2>1 DEF Pulled, Stages
<1>5. CASE BackendBuilt
  <2>1. script'.new = script.new /\ script'.src = head /\ script'.changed = script.changed
        /\ script'.cmd = (IF script.changed THEN "frontend" ELSE "up")
    BY <1>5 DEF BackendBuilt, TypeOK
  <2>2. image'["backend"] = script.src
    BY <1>5 DEF BackendBuilt, Built, TypeOK, Services
  <2> QED
    BY <1>5, <2>1, <2>2 DEF BackendBuilt, Built, Stages
<1>6. CASE FrontendBuilt
  <2>1. script'.new = script.new /\ script'.src = head /\ script'.changed = script.changed
        /\ script'.cmd = "up"
    BY <1>6 DEF FrontendBuilt, TypeOK
  <2>2. image'["frontend"] = script.src /\ image'["backend"] = image["backend"]
    BY <1>6 DEF FrontendBuilt, Built, TypeOK, Services
  <2> QED
    BY <1>6, <2>1, <2>2 DEF FrontendBuilt, Built, Stages
<1>7. CASE Recreate
  <2>1. script'.new = script.new /\ script'.changed = script.changed /\ script'.cmd = "mark"
    BY <1>7 DEF Recreate, TypeOK
  <2>2. running'["backend"] = image["backend"]
        /\ (script.changed => running'["frontend"] = image["frontend"])
    BY <1>7 DEF Recreate, Recreated, Restarted, Services
  <2> QED
    BY <1>7, <2>1, <2>2 DEF Recreate, Stages
<1>8. CASE Mark
  BY <1>8, <1>i DEF Mark, Exit, Stages
<1>9. CASE CommandFails
  BY <1>9, <1>i DEF CommandFails, Exit, Stages
<1>10. CASE EndUntold
  BY <1>10, <1>i DEF EndUntold, Exit, Stages
<1>11. CASE TimeOut
  BY <1>11, <1>i DEF TimeOut, Exit, Stages
<1>12. CASE Crash
  BY <1>12, <1>i DEF Crash, Stages
<1>13. CASE \E o \in orphans : OrphanEnds(o)
  BY <1>13 DEF OrphanEnds, Stages
<1>14. CASE \E contents \in Contents : Push(contents)
  BY <1>14 DEF Push, Stages
<1>15. CASE DeployByHand
  <2>1. script.cmd = "none"
    BY <1>15 DEF DeployByHand, Stages
  <2> QED
    BY <1>15, <2>1 DEF DeployByHand, Stages
<1>16. CASE UNCHANGED vars
  BY <1>16 DEF vars, Stages
<1> QED
  BY <1>1, <1>2, <1>3, <1>4, <1>5, <1>6, <1>7, <1>8, <1>9, <1>10, <1>11, <1>12, <1>13,
     <1>14, <1>15, <1>16 DEF Next, ScriptStep

\* What the frontend that runs after a cut-off command was built from.
LEMMA FrontendAfterRun ==
  ASSUME TypeOK, WithinLog, Stages, ~orphaned, MayHaveRun(Command)
  PROVE  running'["frontend"] \in {running["frontend"], head}
<1>1. ASSUME NEW part \in SUBSET Restarted(script.changed), script.cmd = "up"
      PROVE  Recreated(part)["frontend"] \in {running["frontend"], head}
  BY <1>1 DEF Recreated, Restarted, Services, Stages
<1> QED
  BY <1>1, CommandType DEF MayHaveRun

\* Without reverts, a stretch of the log with equal ends is equal throughout.
LEMMA NoRoom ==
  ASSUME NoRevert, NEW i \in Commits, NEW k \in Commits, NEW j \in i..k, log[i] = log[k]
  PROVE  log[j] = log[i]
<1>1. j \in Commits /\ i <= j /\ j <= k /\ {i, j, k} \subseteq Nat
  BY DEF Commits
<1>2. CASE j = i \/ j = k
  BY <1>2
<1>3. CASE i < j /\ j < k
  BY <1>1, <1>3 DEF NoRevert
<1> QED
  BY <1>1, <1>2, <1>3

LEMMA FrontendInLog ==
  ASSUME TypeOK, WithinLog
  PROVE  running["frontend"] \in Commits /\ head \in Commits
<1>1. "frontend" \in Services
  BY DEF Services
<1> QED
  BY <1>1 DEF TypeOK, WithinLog, Commits

LEMMA SkippedStep ==
  IInv /\ TypeOK' /\ WithinLog' /\ Stages' /\ [Next]_vars => SkippedIsRunning'
<1> SUFFICES ASSUME IInv, TypeOK', WithinLog', Stages', [Next]_vars,
                    Trusted', script'.cmd \in Running, ~script'.changed
             PROVE  log'[running'["frontend"]] = log'[head']
  BY DEF SkippedIsRunning
<1> USE DEF repository, deployed, server, history, Running
<1>g. /\ \A i \in Commits : i \in Commits' /\ log'[i] = log[i]
      /\ NoRevert' => NoRevert
  BY LogGrows DEF IInv
<1>t. running["frontend"] \in Commits /\ head \in Commits
  BY FrontendInLog DEF IInv
<1>r. NoRevert
  BY LogGrows DEF IInv, Trusted
<1>n. ~misled /\ ~orphaned => Trusted
  BY <1>r DEF Trusted
<1>k. Trusted /\ script.cmd \in Running /\ ~script.changed
      => log[running["frontend"]] = log[head]
  BY DEF IInv, SkippedIsRunning
<1>4. CASE Pulled
  <2> DEFINE new == Len(log)
             base == Baseline(script.last, script.pre, new)
  <2>1. /\ log' = log /\ head' = new /\ running' = running /\ script.cmd = "pull"
        /\ script'.changed = FrontendChanged(base, new)
    BY <1>4 DEF Pulled, IInv, TypeOK
  <2>2. ~misled /\ ~orphaned /\ Trusted
    BY <1>4, <1>n DEF Trusted, Pulled
  <2>3. base # None /\ log[base] = log[new]
    BY <2>1 DEF FrontendChanged
  <2>4. script.last = marker /\ script.pre = head
    BY <2>1, <2>2 DEF IInv, Stages
  <2>5. new \in Commits /\ head \in 1..new
    BY DEF IInv, TypeOK, WithinLog, Commits
  <2>6. CASE marker # None
    <3>1. base = marker /\ marker \in Commits
      BY <2>4, <2>6, <2>5 DEF Baseline, IInv, TypeOK, WithinLog, Commits, None
    <3>2. PICK c \in marker..head : log[c] = log[running["frontend"]]
      BY <2>2, <2>6 DEF IInv, MarkerIsBehind
    <3>3. c \in marker..new
      BY <3>2, <2>5, <3>1 DEF Commits
    <3>4. log[c] = log[marker]
      BY <2>2, <2>3, <2>5, <3>1, <3>3, NoRoom DEF Trusted
    <3> QED
      BY <2>1, <2>3, <3>1, <3>2, <3>4
  <2>7. CASE marker = None
    <3>1. base = head /\ head # new
      BY <2>3, <2>4, <2>7 DEF Baseline
    <3>2. log[head] = log[running["frontend"]]
      BY <1>4, <2>4, <2>7, <3>1 DEF Pulled, Trusted
    <3> QED
      BY <2>1, <2>3, <3>1, <3>2
  <2> QED
    BY <2>6, <2>7
<1>5. CASE BackendBuilt
  <2>1. ~script.changed /\ script.cmd = "backend"
    BY <1>5 DEF BackendBuilt, Built, IInv, TypeOK
  <2>2. UNCHANGED <<log, head, running, misled, orphaned>>
    BY <1>5 DEF BackendBuilt
  <2>3. Trusted
    BY <2>2, <1>n DEF Trusted
  <2> QED
    BY <2>1, <2>2, <2>3, <1>k
<1>6. CASE FrontendBuilt
  <2>1. script.changed
    BY <1>6 DEF FrontendBuilt, Built, IInv, Stages, Trusted
  <2> QED
    BY <1>6, <2>1 DEF FrontendBuilt, IInv, TypeOK
<1>7. CASE Recreate
  <2>1. ~script.changed /\ script.cmd \in Running /\ Trusted
    BY <1>7, <1>n DEF Recreate, IInv, TypeOK, Trusted
  <2>2. running'["frontend"] = running["frontend"]
    BY <1>7, <2>1 DEF Recreate, Recreated, Restarted, Services
  <2> QED
    BY <1>7, <1>k, <2>1, <2>2 DEF Recreate
<1>13. CASE \E o \in orphans : OrphanEnds(o)
  BY <1>13 DEF OrphanEnds, Trusted, IInv, Stages
<1>14. CASE \E contents \in Contents : Push(contents)
  <2>1. UNCHANGED <<head, running, script, misled, orphaned>>
    BY <1>14 DEF Push
  <2>2. Trusted
    BY <2>1, <1>n DEF Trusted
  <2> QED
    BY <2>1, <2>2, <1>k, <1>g, <1>t
<1>15. CASE DeployByHand
  BY <1>15 DEF DeployByHand, IInv, Stages
<1>16. CASE PostFails \/ UNCHANGED vars
  <2>1. UNCHANGED <<log, head, running, script, misled, orphaned>>
    BY <1>16 DEF PostFails, vars
  <2>2. Trusted
    BY <2>1, <1>n DEF Trusted
  <2> QED
    BY <2>1, <2>2, <1>k
<1>17. CASE Post \/ StartPull \/ Mark \/ CommandFails \/ EndUntold \/ TimeOut \/ Crash
  <2>1. Post => script'.cmd = "start"
    BY DEF Post, Idle
  <2>2. StartPull => script'.cmd = "pull"
    BY DEF StartPull, IInv, TypeOK
  <2>3. Mark \/ CommandFails \/ EndUntold \/ TimeOut \/ Crash => script'.cmd = "none"
    BY DEF Mark, CommandFails, EndUntold, TimeOut, Crash, Exit, Idle
  <2> QED
    BY <1>17, <2>1, <2>2, <2>3
<1> QED
  BY <1>4, <1>5, <1>6, <1>7, <1>13, <1>14, <1>15, <1>16, <1>17 DEF Next, ScriptStep

LEMMA MarkerStep == IInv /\ [Next]_vars => MarkerIsBehind'
<1> SUFFICES ASSUME IInv, [Next]_vars, Trusted', marker' # None
             PROVE  \E c \in marker'..head' : log'[c] = log'[running'["frontend"]]
  BY DEF MarkerIsBehind, None
<1> USE DEF repository, deployed, server, history, Running
<1>g. \A i \in Commits : log'[i] = log[i]
  BY LogGrows DEF IInv
<1>t. running["frontend"] \in Commits /\ head \in Commits
  BY FrontendInLog DEF IInv
<1>h. Commits \subseteq Nat /\ marker \in Nat /\ marker <= head /\ head \in Nat /\ Len(log) \in Nat
      /\ head <= Len(log)
  BY <1>t DEF IInv, TypeOK, WithinLog, Commits
<1>r. NoRevert
  BY LogGrows DEF IInv, Trusted
<1>n. ~misled /\ ~orphaned => Trusted
  BY <1>r DEF Trusted
<1>k. Trusted /\ marker # None
      => \E c \in marker..head : log[c] = log[running["frontend"]]
  BY DEF IInv, MarkerIsBehind
\* A step that leaves the marker and the running frontend alone.
<1>s. ASSUME Trusted, marker' = marker, head <= head', head' \in Nat,
             running'["frontend"] = running["frontend"]
      PROVE  \E c \in marker'..head' : log'[c] = log'[running'["frontend"]]
  <2>1. PICK c \in marker..head : log[c] = log[running["frontend"]]
    BY <1>k, <1>s
  <2>2. c \in marker'..head' /\ c \in Nat /\ c <= head /\ 1 <= c
    BY <2>1, <1>h, <1>s DEF None
  <2>3. c \in Commits
    BY <2>2, <1>h DEF Commits
  <2> QED
    BY <2>1, <2>2, <2>3, <1>g, <1>t, <1>s
\* A step after which HEAD is what runs.
<1>e. ASSUME marker' <= head', head' \in Nat, marker' \in Nat,
             log'[running'["frontend"]] = log'[head']
      PROVE  \E c \in marker'..head' : log'[c] = log'[running'["frontend"]]
  BY <1>e
\* The marker, once the update is over.
<1>m. ASSUME Trusted, script.cmd = "mark" PROVE log[running["frontend"]] = log[head] /\ script.new = head
  BY <1>m DEF IInv, Stages, SkippedIsRunning, Trusted
\* A command cut off, with the marker perhaps half-written.
<1>x. ASSUME MayHaveRun(Command), MayHaveMarked \/ marker' = marker, Trusted, log' = log
      PROVE  \E c \in marker'..head' : log'[c] = log'[running'["frontend"]]
  <2>1. head <= head' /\ head' \in Nat
    BY <1>x, <1>h, CommandWithin DEF IInv, Commits
  <2>2. running'["frontend"] \in {running["frontend"], head}
    BY <1>x, FrontendAfterRun DEF IInv, Trusted
  <2>3. CASE marker' # marker
    <3>1. script.cmd = "mark" /\ marker' = head
      BY <1>x, <1>m, <2>3 DEF MayHaveMarked
    <3>2. head' = head
      BY <1>x, <3>1, CommandType DEF MayHaveRun, IInv
    <3>3. log[running["frontend"]] = log[head]
      BY <1>x, <1>m, <3>1
    <3>4. log'[running'["frontend"]] = log'[head']
      BY <1>x, <2>2, <3>2, <3>3
    <3> QED
      BY <1>e, <3>1, <3>2, <3>4, <1>h
  <2>4. CASE marker' = marker /\ running'["frontend"] = running["frontend"]
    BY <1>s, <1>x, <2>1, <2>4
  <2>5. CASE marker' = marker /\ running'["frontend"] = head
    <3>1. head \in marker'..head'
      BY <2>1, <2>5, <1>h
    <3> QED
      BY <3>1, <2>5
  <2> QED
    BY <2>2, <2>3, <2>4, <2>5
<1>1. CASE Post \/ PostFails \/ StartPull \/ BackendBuilt \/ FrontendBuilt \/ UNCHANGED vars
           \/ \E contents \in Contents : Push(contents)
  <2>1. UNCHANGED <<head, marker, running, misled, orphaned>>
    BY <1>1 DEF Post, PostFails, StartPull, BackendBuilt, FrontendBuilt, Built, vars, Push
  <2>2. Trusted
    BY <2>1, <1>n DEF Trusted
  <2> QED
    BY <2>1, <2>2, <1>s, <1>h
<1>2. CASE Pulled
  <2>1. UNCHANGED <<marker, running, orphaned>> /\ head' = Len(log) /\ (~misled' => ~misled)
    BY <1>2 DEF Pulled
  <2>2. Trusted
    BY <2>1, <1>n DEF Trusted
  <2> QED
    BY <2>1, <2>2, <1>s, <1>h
<1>3. CASE Recreate
  <2>1. UNCHANGED <<log, head, marker, misled, orphaned>> /\ script.cmd = "up"
    BY <1>3 DEF Recreate
  <2>2. Trusted
    BY <2>1, <1>n DEF Trusted
  <2>3. CASE script.changed
    <3>1. image["frontend"] = head
      BY <2>1, <2>2, <2>3 DEF IInv, Stages, Trusted
    <3>2. running'["frontend"] = head
      BY <1>3, <2>3, <3>1 DEF Recreate, Recreated, Restarted, Services
    <3> QED
      BY <1>e, <2>1, <3>2, <1>h
  <2>4. CASE ~script.changed
    <3>1. running'["frontend"] = running["frontend"]
      BY <1>3, <2>4 DEF Recreate, Recreated, Restarted, Services
    <3> QED
      BY <1>s, <2>1, <2>2, <3>1, <1>h
  <2> QED
    BY <2>3, <2>4
<1>4. CASE Mark
  <2>1. UNCHANGED <<log, head, running, misled, orphaned>> /\ script.cmd = "mark"
        /\ marker' = script.new
    BY <1>4 DEF Mark
  <2>2. Trusted
    BY <2>1, <1>n DEF Trusted
  <2> QED
    BY <1>e, <1>m, <2>1, <2>2, <1>h
<1>5. CASE CommandFails
  <2>1. UNCHANGED <<log, marker, misled, orphaned>> /\ MayHaveRun(Command)
    BY <1>5 DEF CommandFails
  <2>2. Trusted
    BY <2>1, <1>n DEF Trusted
  <2> QED
    BY <1>x, <2>1, <2>2
<1>6. CASE EndUntold \/ Crash
  <2>1. UNCHANGED <<log, misled, orphaned>> /\ MayHaveRun(Command) /\ MayHaveMarked
    BY <1>6 DEF EndUntold, Crash
  <2>2. Trusted
    BY <2>1, <1>n DEF Trusted
  <2> QED
    BY <1>x, <2>1, <2>2
<1>7. CASE TimeOut
  BY <1>7 DEF TimeOut, Trusted
<1>8. CASE \E o \in orphans : OrphanEnds(o)
  BY <1>8 DEF OrphanEnds, Trusted, IInv, Stages
<1>9. CASE DeployByHand
  <2>1. head' = Len(log) /\ running'["frontend"] = Len(log) /\ marker' = marker
    BY <1>9 DEF DeployByHand, Services
  <2> QED
    BY <1>e, <2>1, <1>h
<1> QED
  BY <1>1, <1>2, <1>3, <1>4, <1>5, <1>6, <1>7, <1>8, <1>9 DEF Next, ScriptStep

-----------------------------------------------------------------------------
THEOREM Invariance == Spec => []IInv
<1>1. IInv /\ [Next]_vars => IInv'
  <2> SUFFICES ASSUME IInv, [Next]_vars PROVE IInv'
    OBVIOUS
  <2>1. TypeOK'
    BY TypeStep DEF IInv
  <2>2. WithinLog' /\ OrphansWithin'
    BY <2>1, WithinStep DEF IInv
  <2>3. Stages'
    BY StagesStep DEF IInv
  <2>4. SkippedIsRunning'
    BY <2>1, <2>2, <2>3, SkippedStep
  <2>5. MarkerIsBehind'
    BY MarkerStep
  <2> QED
    BY <2>1, <2>2, <2>3, <2>4, <2>5 DEF IInv
<1> QED
  BY InitIInv, <1>1, PTL DEF Spec

(***************************************************************************)
(* The updater's variables keep their types: server.py and update.sh.      *)
(***************************************************************************)
THEOREM TypeCorrect == Spec => []TypeOK
<1>1. IInv => TypeOK
  BY DEF IInv
<1> QED
  BY <1>1, Invariance, PTL

(***************************************************************************)
(* When update.sh reports "done", NEW_HEAD is what runs, frontend built or *)
(* skipped, under the three conditions DoneIsDeployed names.               *)
(***************************************************************************)
THEOREM DoneMeansDeployed == Spec => DoneIsDeployed
<1>1. ASSUME IInv, script.cmd = "mark", ~misled, ~orphaned, NoRevert
      PROVE  /\ running["backend"] = script.new
             /\ log[running["frontend"]] = log[script.new]
  BY <1>1 DEF IInv, Stages, SkippedIsRunning, Trusted, Running
<1>2. IInv /\ [Next]_vars
      => [ script.cmd = "mark" /\ status' = "done" /\ ~misled /\ ~orphaned /\ NoRevert
           => /\ running["backend"] = script.new
              /\ log[running["frontend"]] = log[script.new] ]_vars
  BY <1>1
<1> QED
  BY <1>2, Invariance, PTL DEF Spec, DoneIsDeployed

\* The status is busy without a script only after a fault.
LEMMA BusyStep == TypeOK /\ BusyIsTrue /\ [Next]_vars => BusyIsTrue'
<1> SUFFICES ASSUME TypeOK, BusyIsTrue, [Next]_vars, faults' = 0, status' \in Busy
             PROVE  script' # Idle
  BY DEF BusyIsTrue
<1> USE DEF Busy
<1>1. faults = 0 /\ ~Fault
  BY DEF Next, ScriptStep, Post, PostFails, StartPull, Pulled, BackendBuilt, FrontendBuilt, Recreate,
         Mark, CommandFails, EndUntold, TimeOut, Crash, OrphanEnds, Push, DeployByHand, Fault, TypeOK,
         vars
<1>2. CASE UNCHANGED <<script, status>>
  BY <1>1, <1>2 DEF BusyIsTrue
<1>3. CASE script'.cmd # "none"
  BY <1>3 DEF Idle
<1>4. CASE Exit("error") \/ Exit("done")
  BY <1>4 DEF Exit
<1> QED
  BY <1>1, <1>2, <1>3, <1>4
     DEF Next, ScriptStep, Post, PostFails, StartPull, Pulled, BackendBuilt, FrontendBuilt, Recreate,
         Mark, CommandFails, EndUntold, TimeOut, Crash, OrphanEnds, Push, DeployByHand, server, vars,
         TypeOK, Idle

(***************************************************************************)
(* Before any fault, a status that says an update is under way has one     *)
(* under way (server.py, write_status; the settings page polls it).        *)
(***************************************************************************)
THEOREM BusyMeansBusy == Spec => []BusyIsTrue
<1>1. Init => BusyIsTrue
  BY DEF Init, BusyIsTrue, Busy
<1> QED
  BY <1>1, BusyStep, TypeCorrect, PTL DEF Spec
=============================================================================
