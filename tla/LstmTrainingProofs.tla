------------------------- MODULE LstmTrainingProofs -------------------------
(***************************************************************************)
(* run.lock is enough to protect a worker: whoever deletes, whatever the   *)
(* probes report and whoever dies, the directory of a worker that holds    *)
(* the lock stays in place, and a completed status is never without its    *)
(* result.  Nothing is assumed of the bounds on faults.  Then what the two *)
(* locks do not protect: one training per ticker, and the requests of one  *)
(* user, each after the other.                                             *)
(***************************************************************************)
EXTENDS SerialRequests, TLAPS

Statuses == {"none", "running", "completed", "failed_closed", "interrupted"}

StartLabels == {"start", "admit", "probe", "reserve", "popen", "launch"}

RecordLabels == {"record", "archived", "state", "publish"}

\* The labels at which delete holds the run lock of its job.
Deleting == {"reread", "recheck", "rename"}

\* A thread that works on a job knows which; only start and record make jobs,
\* each of its own kind.
Assigned ==
  \A t \in Threads :
    /\ pc[t] # "idle" => run[t] \in Runs
    /\ pc[t] \in {"probe", "stop", "stop2", "list", "check", "recheck"} => at[t] \in Runs
    /\ pc[t] \in StartLabels => run[t] \in Trainings
    /\ pc[t] \in RecordLabels => run[t] \in Backtests

\* A Backtest record never has a worker.
NoWorker == \A b \in Backtests : wpc[b] = "none"

\* A delete that has taken a run lock owns it, alone, and the directory is
\* still there.
LockOwned ==
  \A t \in Threads : pc[t] \in Deleting =>
    /\ live[run[t]].exists /\ live[run[t]].lock = "delete"
    /\ \A s \in Threads : pc[s] \in Deleting /\ run[s] = run[t] => s = t

\* A worker about to record completion has recorded its result.
ResultFirst == \A r \in Runs : wpc[r] = "final" => live[r].result

LInv ==
  /\ TypeOK
  /\ Assigned
  /\ NoWorker
  /\ LockOwned
  /\ LockedNotDeleted
  /\ ResultFirst
  /\ CompletedHasResult
-----------------------------------------------------------------------------
\* What a write of one file changes and what it leaves.
LEMMA Written ==
  ASSUME live \in [Runs -> Directory], NEW r \in Runs, NEW files \in Directory,
         live' = [live EXCEPT ![r] = [files EXCEPT !.exists = TRUE]]
  PROVE  /\ live' \in [Runs -> Directory]
         /\ live'[r].exists
         /\ live'[r].lock = files.lock
         /\ live'[r].status = files.status
         /\ live'[r].result = files.result
         /\ \A s \in Runs : s # r => live'[s] = live[s]
<1> DEFINE new == [files EXCEPT !.exists = TRUE]
<1>1. /\ new \in Directory /\ new.exists
      /\ new.lock = files.lock /\ new.status = files.status /\ new.result = files.result
  BY DEF Directory
<1>2. live' = [live EXCEPT ![r] = new]
  OBVIOUS
<1>3. live'[r] = new
  BY <1>2
<1> HIDE DEF new
<1> QED
  BY <1>1, <1>2, <1>3

\* A request is written.
LEMMA RequestWritten ==
  ASSUME live \in [Runs -> Directory], NEW r \in Runs,
         live' = [live EXCEPT ![r] = [[live[r] EXCEPT !.request = TRUE] EXCEPT !.exists = TRUE]]
  PROVE  /\ live' \in [Runs -> Directory]
         /\ live'[r].exists
         /\ live'[r].lock = live[r].lock
         /\ live'[r].status = live[r].status
         /\ live'[r].result = live[r].result
         /\ \A s \in Runs : s # r => live'[s] = live[s]
<1> DEFINE files == [live[r] EXCEPT !.request = TRUE]
<1>1. /\ files \in Directory
      /\ files.lock = live[r].lock
      /\ files.status = live[r].status
      /\ files.result = live[r].result
  BY DEF Directory, Statuses
<1>2. live' = [live EXCEPT ![r] = [files EXCEPT !.exists = TRUE]]
  OBVIOUS
<1> HIDE DEF files
<1> QED
  BY <1>1, <1>2, Written

\* The pid of the worker is recorded.
LEMMA LaunchWritten ==
  ASSUME live \in [Runs -> Directory], NEW r \in Runs,
         live' = [live EXCEPT ![r] = [[live[r] EXCEPT !.launch = TRUE] EXCEPT !.exists = TRUE]]
  PROVE  /\ live' \in [Runs -> Directory]
         /\ live'[r].exists
         /\ live'[r].lock = live[r].lock
         /\ live'[r].status = live[r].status
         /\ live'[r].result = live[r].result
         /\ \A s \in Runs : s # r => live'[s] = live[s]
<1> DEFINE files == [live[r] EXCEPT !.launch = TRUE]
<1>1. /\ files \in Directory
      /\ files.lock = live[r].lock
      /\ files.status = live[r].status
      /\ files.result = live[r].result
  BY DEF Directory, Statuses
<1>2. live' = [live EXCEPT ![r] = [files EXCEPT !.exists = TRUE]]
  OBVIOUS
<1> HIDE DEF files
<1> QED
  BY <1>1, <1>2, Written

\* A prepared request is claimed.
LEMMA ClaimWritten ==
  ASSUME live \in [Runs -> Directory], NEW r \in Runs,
         live' = [live EXCEPT ![r] = [[live[r] EXCEPT !.claim = TRUE] EXCEPT !.exists = TRUE]]
  PROVE  /\ live' \in [Runs -> Directory]
         /\ live'[r].exists
         /\ live'[r].lock = live[r].lock
         /\ live'[r].status = live[r].status
         /\ live'[r].result = live[r].result
         /\ \A s \in Runs : s # r => live'[s] = live[s]
<1> DEFINE files == [live[r] EXCEPT !.claim = TRUE]
<1>1. /\ files \in Directory
      /\ files.lock = live[r].lock
      /\ files.status = live[r].status
      /\ files.result = live[r].result
  BY DEF Directory, Statuses
<1>2. live' = [live EXCEPT ![r] = [files EXCEPT !.exists = TRUE]]
  OBVIOUS
<1> HIDE DEF files
<1> QED
  BY <1>1, <1>2, Written

\* The worker writes its result.
LEMMA ResultWritten ==
  ASSUME live \in [Runs -> Directory], NEW r \in Runs,
         live' = [live EXCEPT ![r] = [[live[r] EXCEPT !.result = TRUE] EXCEPT !.exists = TRUE]]
  PROVE  /\ live' \in [Runs -> Directory]
         /\ live'[r].exists
         /\ live'[r].lock = live[r].lock
         /\ live'[r].status = live[r].status
         /\ live'[r].result = TRUE
         /\ \A s \in Runs : s # r => live'[s] = live[s]
<1> DEFINE files == [live[r] EXCEPT !.result = TRUE]
<1>1. /\ files \in Directory
      /\ files.lock = live[r].lock
      /\ files.status = live[r].status
      /\ files.result = TRUE
  BY DEF Directory, Statuses
<1>2. live' = [live EXCEPT ![r] = [files EXCEPT !.exists = TRUE]]
  OBVIOUS
<1> HIDE DEF files
<1> QED
  BY <1>1, <1>2, Written

\* A status is written.
LEMMA StatusWritten ==
  ASSUME live \in [Runs -> Directory], NEW r \in Runs, NEW st \in Statuses,
         live' = [live EXCEPT ![r] = [[live[r] EXCEPT !.status = st] EXCEPT !.exists = TRUE]]
  PROVE  /\ live' \in [Runs -> Directory]
         /\ live'[r].exists
         /\ live'[r].lock = live[r].lock
         /\ live'[r].status = st
         /\ live'[r].result = live[r].result
         /\ \A s \in Runs : s # r => live'[s] = live[s]
<1> DEFINE files == [live[r] EXCEPT !.status = st]
<1>1. /\ files \in Directory
      /\ files.lock = live[r].lock
      /\ files.status = st
      /\ files.result = live[r].result
  BY DEF Directory, Statuses
<1>2. live' = [live EXCEPT ![r] = [files EXCEPT !.exists = TRUE]]
  OBVIOUS
<1> HIDE DEF files
<1> QED
  BY <1>1, <1>2, Written

\* run.lock is taken.
LEMMA LockWritten ==
  ASSUME live \in [Runs -> Directory], NEW r \in Runs, NEW l \in {"worker", "delete"},
         live' = [live EXCEPT ![r] = [[live[r] EXCEPT !.lock = l] EXCEPT !.exists = TRUE]]
  PROVE  /\ live' \in [Runs -> Directory]
         /\ live'[r].exists
         /\ live'[r].lock = l
         /\ live'[r].status = live[r].status
         /\ live'[r].result = live[r].result
         /\ \A s \in Runs : s # r => live'[s] = live[s]
<1> DEFINE files == [live[r] EXCEPT !.lock = l]
<1>1. /\ files \in Directory
      /\ files.lock = l
      /\ files.status = live[r].status
      /\ files.result = live[r].result
  BY DEF Directory, Statuses
<1>2. live' = [live EXCEPT ![r] = [files EXCEPT !.exists = TRUE]]
  OBVIOUS
<1> HIDE DEF files
<1> QED
  BY <1>1, <1>2, Written

\* The lock of a directory is one more field of it.
LEMMA Edited ==
  ASSUME NEW d \in Directory, NEW l \in {"free", "worker", "delete"}
  PROVE  /\ [d EXCEPT !.lock = l] \in Directory
         /\ [d EXCEPT !.lock = l].lock = l
         /\ [d EXCEPT !.lock = l].exists = d.exists
         /\ [d EXCEPT !.lock = l].status = d.status
         /\ [d EXCEPT !.lock = l].result = d.result
  BY DEF Directory

\* A run lock is released in place.
LEMMA Released ==
  ASSUME live \in [Runs -> Directory], NEW r \in Runs, NEW l \in {"free", "worker", "delete"},
         live' = [live EXCEPT ![r].lock = l]
  PROVE  /\ live' \in [Runs -> Directory]
         /\ live'[r].exists = live[r].exists
         /\ live'[r].lock = l
         /\ live'[r].status = live[r].status
         /\ live'[r].result = live[r].result
         /\ \A s \in Runs : s # r => live'[s] = live[s]
<1> DEFINE new == [live[r] EXCEPT !.lock = l]
<1>1. /\ new \in Directory /\ new.exists = live[r].exists
      /\ new.lock = l /\ new.status = live[r].status /\ new.result = live[r].result
  BY DEF Directory
<1>2. live' = [live EXCEPT ![r] = new]
  OBVIOUS
<1>3. live'[r] = new
  BY <1>2
<1> HIDE DEF new
<1> QED
  BY <1>1, <1>2, <1>3

\* A worker that dies gives up only its own lock.
LEMMA Died ==
  ASSUME TypeOK, NEW r \in Runs, Die(r)
  PROVE  /\ live' \in [Runs -> Directory]
         /\ wpc' = [wpc EXCEPT ![r] = "dead"]
         /\ live'[r].exists = live[r].exists
         /\ live[r].lock # "worker" => live'[r].lock = live[r].lock
         /\ live'[r].status = live[r].status
         /\ live'[r].result = live[r].result
         /\ \A s \in Runs : s # r => live'[s] = live[s]
<1> DEFINE l == IF live[r].lock = "worker" THEN "free" ELSE live[r].lock
<1>1. l \in {"free", "worker", "delete"}
  BY DEF TypeOK, Directory
<1>2. live' = [live EXCEPT ![r].lock = l]
  BY DEF Die, Unlock
<1>3. live[r].lock # "worker" => l = live[r].lock
  OBVIOUS
<1>4. wpc' = [wpc EXCEPT ![r] = "dead"]
  BY DEF Die
<1> HIDE DEF l
<1> QED
  BY <1>1, <1>2, <1>3, <1>4, Released DEF TypeOK

\* A probe only counts the faults.
LEMMA Probed ==
  ASSUME TypeOK, NEW t \in Threads, NEW matches \in BOOLEAN, Probe(t, matches)
  PROVE  faults' \in [kills : Nat, crashes : Nat, probes : Nat]
<1>1. CASE UNCHANGED faults
  BY <1>1 DEF TypeOK
<1>2. CASE faults' = [faults EXCEPT !.probes = @ + 1]
  <2>1. faults.probes \in Nat
    BY DEF TypeOK
  <2> QED
    BY <1>2, <2>1 DEF TypeOK
<1> QED
  BY <1>1, <1>2 DEF Probe

\* A thread that replies is idle; the other threads are where they were.
LEMMA Replied ==
  ASSUME TypeOK, Assigned, NEW t \in Threads, Reply(t)
  PROVE  /\ pc' \in [Threads -> ThreadLabels] /\ run' \in [Threads -> Runs \union {NoRun}]
         /\ at' \in [Threads -> Runs \union {NoRun}]
         /\ seen' \in [Threads -> Directory] /\ left' \in [Threads -> SUBSET Runs]
         /\ pc'[t] = "idle"
         /\ \A s \in Threads : s # t =>
              pc'[s] = pc[s] /\ run'[s] = run[s] /\ at'[s] = at[s]
         /\ Assigned'
<1>1. NoDir \in Directory
  BY DEF NoDir, Directory
<1> QED
  BY <1>1 DEF TypeOK, Assigned, Reply, Goto, ThreadLabels, StartLabels, RecordLabels

-----------------------------------------------------------------------------
\* The types hold together with Assigned: a step writes the files of a job it
\* knows.
LEMMA TypedStep == TypeOK /\ Assigned /\ [Next]_vars => TypeOK' /\ Assigned'
<1> SUFFICES ASSUME TypeOK, Assigned, [Next]_vars PROVE TypeOK' /\ Assigned'
  OBVIOUS
<1> USE DEF TypeOK, Assigned, StartLabels, RecordLabels, ThreadLabels, WorkerLabels, Runs
<1>0. NoDir \in Directory /\ Evidence \in Directory
  BY DEF NoDir, Evidence, Directory
<1>1. ASSUME NEW t \in Threads, Start(t) PROVE TypeOK' /\ Assigned'
  <2>1. served' \in [Ops -> Nat]
    <3>1. "start" \in Ops /\ served' = [served EXCEPT !["start"] = @ + 1]
      BY <1>1 DEF Start, Accept, Ops
    <3> QED
      BY <3>1
  <2> QED
    BY <1>0, <2>1, <1>1 DEF Start, Accept, Goto, dirs
<1>2. ASSUME NEW t \in Threads, Record(t) PROVE TypeOK' /\ Assigned'
  <2>1. served' \in [Ops -> Nat]
    <3>1. "record" \in Ops /\ served' = [served EXCEPT !["record"] = @ + 1]
      BY <1>2 DEF Record, Accept, Ops
    <3> QED
      BY <3>1
  <2> QED
    BY <1>0, <2>1, <1>2 DEF Record, Accept, Goto, dirs
<1>3. ASSUME NEW t \in Threads, NEW r \in Runs, Stop(t, r) PROVE TypeOK' /\ Assigned'
  <2>1. served' \in [Ops -> Nat]
    <3>1. "stop" \in Ops /\ served' = [served EXCEPT !["stop"] = @ + 1]
      BY <1>3 DEF Stop, Read, Accept, Ops
    <3> QED
      BY <3>1
  <2> QED
    BY <1>0, <2>1, <1>3 DEF Stop, Read, Accept, Goto, dirs
<1>4. ASSUME NEW t \in Threads, NEW r \in Runs, Delete(t, r) PROVE TypeOK' /\ Assigned'
  <2>1. served' \in [Ops -> Nat]
    <3>1. "delete" \in Ops /\ served' = [served EXCEPT !["delete"] = @ + 1]
      BY <1>4 DEF Delete, Read, Accept, Ops
    <3> QED
      BY <3>1
  <2> QED
    BY <1>0, <2>1, <1>4 DEF Delete, Read, Accept, Goto, dirs
<1>5. ASSUME NEW t \in Threads, NEW r \in Runs, List(t, r) PROVE TypeOK' /\ Assigned'
  <2>1. served' \in [Ops -> Nat]
    <3>1. "list" \in Ops /\ served' = [served EXCEPT !["list"] = @ + 1]
      BY <1>5 DEF List, Read, Accept, Ops
    <3> QED
      BY <3>1
  <2> QED
    BY <1>0, <2>1, <1>5 DEF List, Read, Accept, Goto, dirs
<1>6. ASSUME NEW t \in Threads, StartList(t) PROVE TypeOK' /\ Assigned'
  BY <1>0, <1>6 DEF StartList, Acquire, Goto, dirs
<1>7. ASSUME NEW t \in Threads, AdmitRead(t) PROVE TypeOK' /\ Assigned'
  BY <1>0, <1>7 DEF AdmitRead, Read, Goto, dirs
<1>8. ASSUME NEW t \in Threads, AdmitProbe(t) PROVE TypeOK' /\ Assigned'
  <2>1. faults' \in [kills : Nat, crashes : Nat, probes : Nat]
    BY <1>8, Probed DEF AdmitProbe
  <2>2. CASE Reply(t) /\ lock' = NoThread
    BY <2>1, <2>2, <1>8, Replied DEF AdmitProbe, dirs
  <2>3. CASE Goto(t, "admit") /\ left' = [left EXCEPT ![t] = @ \ {at[t]}] /\ UNCHANGED <<lock, run, at, seen>>
    BY <2>1, <2>3, <1>8 DEF AdmitProbe, Goto, dirs
  <2> QED
    BY <1>8, <2>2, <2>3 DEF AdmitProbe
<1>9. ASSUME NEW t \in Threads, CreateRun(t) PROVE TypeOK' /\ Assigned'
  <2>1. live' \in [Runs -> Directory]
    BY <1>9, Written DEF CreateRun, Put
  <2> QED
    BY <2>1, <1>9 DEF CreateRun, Goto, locals
<1>10. ASSUME NEW t \in Threads, WriteRequest(t) PROVE TypeOK' /\ Assigned'
  <2>1. live' \in [Runs -> Directory]
    BY <1>10, RequestWritten DEF WriteRequest, Put
  <2> QED
    BY <2>1, <1>10 DEF WriteRequest, Goto, locals
<1>11. ASSUME NEW t \in Threads, Popen(t) PROVE TypeOK' /\ Assigned'
  <2>1. CASE wpc' = [wpc EXCEPT ![run[t]] = "boot"] /\ Goto(t, "launch") /\ UNCHANGED <<lock, locals>>
    BY <2>1, <1>11 DEF Popen, Goto, locals, dirs
  <2>2. CASE lock' = NoThread /\ Reply(t) /\ UNCHANGED wpc
    BY <2>2, <1>11, Replied DEF Popen, dirs
  <2> QED
    BY <1>11, <2>1, <2>2 DEF Popen
<1>12. ASSUME NEW t \in Threads, Launch(t) PROVE TypeOK' /\ Assigned'
  <2>1. live' \in [Runs -> Directory]
    BY <1>12, LaunchWritten DEF Launch, Put
  <2> QED
    BY <2>1, <1>12, Replied DEF Launch
<1>13. ASSUME NEW t \in Threads, RecordLock(t) PROVE TypeOK' /\ Assigned'
  BY <1>0, <1>13 DEF RecordLock, Acquire, Goto, dirs, locals
<1>14. ASSUME NEW t \in Threads, RecordArchived(t) PROVE TypeOK' /\ Assigned'
  <2>1. CASE lock' = NoThread /\ Reply(t)
    BY <2>1, <1>14, Replied DEF RecordArchived, dirs
  <2>2. CASE Goto(t, "state") /\ UNCHANGED <<lock, locals>>
    BY <2>2, <1>14 DEF RecordArchived, Goto, dirs, locals
  <2> QED
    BY <1>14, <2>1, <2>2 DEF RecordArchived
<1>15. ASSUME NEW t \in Threads, RecordState(t) PROVE TypeOK' /\ Assigned'
  <2>1. CASE lock' = NoThread /\ Reply(t)
    BY <2>1, <1>15, Replied DEF RecordState, dirs
  <2>2. CASE Goto(t, "publish") /\ UNCHANGED <<lock, locals>>
    BY <2>2, <1>15 DEF RecordState, Goto, dirs, locals
  <2> QED
    BY <1>15, <2>1, <2>2 DEF RecordState
<1>16. ASSUME NEW t \in Threads, RecordPublish(t) PROVE TypeOK' /\ Assigned'
  <2>1. live' \in [Runs -> Directory]
    BY <1>0, <1>16 DEF RecordPublish
  <2> QED
    BY <2>1, <1>16, Replied DEF RecordPublish
<1>17. ASSUME NEW t \in Threads, StopProbe(t) PROVE TypeOK' /\ Assigned'
  <2>1. faults' \in [kills : Nat, crashes : Nat, probes : Nat]
    BY <1>17, Probed DEF StopProbe
  <2>2. CASE Reply(t)
    BY <2>1, <2>2, <1>17, Replied DEF StopProbe, dirs
  <2>3. CASE Goto(t, IF pc[t] = "stop" THEN "stop2" ELSE "term") /\ UNCHANGED locals
    BY <2>1, <2>3, <1>17 DEF StopProbe, Goto, dirs, locals
  <2> QED
    BY <1>17, <2>2, <2>3 DEF StopProbe
<1>18. ASSUME NEW t \in Threads, Terminate(t) PROVE TypeOK' /\ Assigned'
  <2>1. run[t] \in Runs
    BY <1>18 DEF Terminate
  <2>2. live' \in [Runs -> Directory] /\ wpc' \in [Runs -> WorkerLabels]
    BY <2>1, <1>18, Died DEF Terminate
  <2> QED
    BY <2>2, <1>18, Replied DEF Terminate
<1>19. ASSUME NEW t \in Threads, DeleteCheck(t) PROVE TypeOK' /\ Assigned'
  <2>1. faults' \in [kills : Nat, crashes : Nat, probes : Nat]
    BY <1>19, Probed DEF DeleteCheck
  <2>2. CASE Reply(t) /\ live' = IF pc[t] = "check" THEN live ELSE [live EXCEPT ![run[t]].lock = "free"]
    <3>1. run[t] \in Runs
      BY <1>19 DEF DeleteCheck
    <3>2. live' \in [Runs -> Directory]
      BY <2>2, <3>1, Released
    <3> QED
      BY <2>1, <2>2, <3>2, <1>19, Replied DEF DeleteCheck
  <2>3. CASE Goto(t, IF pc[t] = "check" THEN "archive" ELSE "rename") /\ UNCHANGED <<live, locals>>
    BY <2>1, <2>3, <1>19 DEF DeleteCheck, Goto, locals
  <2> QED
    BY <1>19, <2>2, <2>3 DEF DeleteCheck
<1>20. ASSUME NEW t \in Threads, DeleteArchive(t) PROVE TypeOK' /\ Assigned'
  <2>1. CASE Reply(t)
    BY <2>1, <1>20, Replied DEF DeleteArchive, dirs
  <2>2. CASE Goto(t, "runlock") /\ UNCHANGED locals
    BY <2>2, <1>20 DEF DeleteArchive, Goto, dirs, locals
  <2> QED
    BY <1>20, <2>1, <2>2 DEF DeleteArchive
<1>21. ASSUME NEW t \in Threads, DeleteRunLock(t) PROVE TypeOK' /\ Assigned'
  <2>1. CASE Put(run[t], [live[run[t]] EXCEPT !.lock = "delete"]) /\ Goto(t, "reread") /\ UNCHANGED locals
    <3>1. live' \in [Runs -> Directory]
      <4> DEFINE l == "delete"
      <4>1. l \in {"worker", "delete"} /\ run[t] \in Runs
        BY <1>21 DEF DeleteRunLock
      <4>2. live' = [live EXCEPT ![run[t]] = [[live[run[t]] EXCEPT !.lock = l] EXCEPT !.exists = TRUE]]
        BY <2>1 DEF Put
      <4> HIDE DEF l
      <4> QED
        BY <4>1, <4>2, LockWritten
    <3> QED
      BY <2>1, <3>1, <1>21 DEF DeleteRunLock, Goto, locals
  <2>2. CASE Reply(t) /\ UNCHANGED live
    BY <2>2, <1>21, Replied DEF DeleteRunLock
  <2> QED
    BY <1>21, <2>1, <2>2 DEF DeleteRunLock
<1>22. ASSUME NEW t \in Threads, DeleteReread(t) PROVE TypeOK' /\ Assigned'
  BY <1>0, <1>22 DEF DeleteReread, Read, Goto, dirs
<1>23. ASSUME NEW t \in Threads, DeleteRename(t) PROVE TypeOK' /\ Assigned'
  <2> DEFINE free == [live[run[t]] EXCEPT !.lock = "free"]
  <2>1. run[t] \in Runs
    BY <1>23 DEF DeleteRename
  <2>2. free \in Directory
    <3>1. live[run[t]] \in Directory
      BY <2>1
    <3> QED
      BY <3>1, Edited
  <2>3. \/ live' = [live EXCEPT ![run[t]] = free] /\ UNCHANGED arch
        \/ live' = [live EXCEPT ![run[t]] = NoDir] /\ arch' = [arch EXCEPT ![run[t]] = free]
    BY <1>23 DEF DeleteRename
  <2> HIDE DEF free
  <2>4. live' \in [Runs -> Directory] /\ arch' \in [Runs -> Directory]
    BY <1>0, <2>1, <2>2, <2>3
  <2> QED
    BY <2>4, <1>23, Replied DEF DeleteRename
<1>24. ASSUME NEW t \in Threads, ListProbe(t) PROVE TypeOK' /\ Assigned'
  <2>1. faults' \in [kills : Nat, crashes : Nat, probes : Nat]
    BY <1>24, Probed DEF ListProbe
  <2> QED
    BY <2>1, <1>24, Replied DEF ListProbe, dirs
<1>25. ASSUME NEW r \in Runs, Boot(r) PROVE TypeOK' /\ Assigned'
  BY <1>25 DEF Boot, Become, dirs, locals
<1>26. ASSUME NEW r \in Runs, Snapshot(r) PROVE TypeOK' /\ Assigned'
  BY <1>26 DEF Snapshot, Become, dirs, locals
<1>27. ASSUME NEW r \in Runs, Arm(r) PROVE TypeOK' /\ Assigned'
  BY <1>27 DEF Arm, Become, dirs, locals
<1>28. ASSUME NEW r \in Runs, Train(r) PROVE TypeOK' /\ Assigned'
  BY <1>28 DEF Train, Become, dirs, locals
<1>29. ASSUME NEW r \in Runs, PutRequest(r) PROVE TypeOK' /\ Assigned'
  <2>1. live' \in [Runs -> Directory]
    BY <1>29, RequestWritten DEF PutRequest, Put
  <2> QED
    BY <2>1, <1>29 DEF PutRequest, Become, locals
<1>30. ASSUME NEW r \in Runs, PutResult(r) PROVE TypeOK' /\ Assigned'
  <2>1. live' \in [Runs -> Directory]
    BY <1>30, ResultWritten DEF PutResult, Put
  <2> QED
    BY <2>1, <1>30 DEF PutResult, Become, locals
<1>31. ASSUME NEW r \in Runs, Claim(r) PROVE TypeOK' /\ Assigned'
  <2>1. live' \in [Runs -> Directory]
    BY <1>31, ClaimWritten DEF Claim, Put
  <2> QED
    BY <2>1, <1>31 DEF Claim, Become, locals
<1>32. ASSUME NEW r \in Runs, TakeRunLock(r) PROVE TypeOK' /\ Assigned'
  <2>1. CASE Put(r, [live[r] EXCEPT !.lock = "worker"]) /\ Become(r, "claim")
    <3>1. live' \in [Runs -> Directory]
      <4> DEFINE l == "worker"
      <4>1. l \in {"worker", "delete"}
        OBVIOUS
      <4>2. live' = [live EXCEPT ![r] = [[live[r] EXCEPT !.lock = l] EXCEPT !.exists = TRUE]]
        BY <2>1 DEF Put
      <4> HIDE DEF l
      <4> QED
        BY <4>1, <4>2, LockWritten
    <3> QED
      BY <2>1, <3>1, <1>32 DEF TakeRunLock, Become, locals
  <2>2. CASE Become(r, "exit") /\ UNCHANGED live
    BY <2>2, <1>32 DEF TakeRunLock, Become, locals
  <2> QED
    BY <1>32, <2>1, <2>2 DEF TakeRunLock
<1>33. ASSUME NEW r \in Runs, FirstStatus(r) PROVE TypeOK' /\ Assigned'
  <2> DEFINE s == "running"
  <2>1. s \in Statuses
    BY DEF Statuses
  <2>2. live' = [live EXCEPT ![r] = [[live[r] EXCEPT !.status = s] EXCEPT !.exists = TRUE]]
    BY <1>33 DEF FirstStatus, PutStatus, Put
  <2> HIDE DEF s
  <2>3. live' \in [Runs -> Directory]
    BY <2>1, <2>2, StatusWritten
  <2> QED
    BY <2>3, <1>33 DEF FirstStatus, Become, locals
<1>34. ASSUME NEW r \in Runs, PutInterrupted(r) PROVE TypeOK' /\ Assigned'
  <2> DEFINE s == "interrupted"
  <2>1. s \in Statuses
    BY DEF Statuses
  <2>2. live' = [live EXCEPT ![r] = [[live[r] EXCEPT !.status = s] EXCEPT !.exists = TRUE]]
    BY <1>34 DEF PutInterrupted, PutStatus, Put
  <2> HIDE DEF s
  <2>3. live' \in [Runs -> Directory]
    BY <2>1, <2>2, StatusWritten
  <2> QED
    BY <2>3, <1>34 DEF PutInterrupted, Become, locals
<1>35. ASSUME NEW r \in Runs, PutFinal(r) PROVE TypeOK' /\ Assigned'
  <2> DEFINE s == IF wpc[r] = "final" THEN "completed" ELSE "failed_closed"
  <2>1. s \in Statuses
    BY DEF Statuses
  <2>2. live' = [live EXCEPT ![r] = [[live[r] EXCEPT !.status = s] EXCEPT !.exists = TRUE]]
    BY <1>35 DEF PutFinal, PutStatus, Put
  <2> HIDE DEF s
  <2>3. live' \in [Runs -> Directory]
    BY <2>1, <2>2, StatusWritten
  <2> QED
    BY <2>3, <1>35 DEF PutFinal, Become, locals
<1>36. ASSUME NEW r \in Runs, Exit(r) PROVE TypeOK' /\ Assigned'
  BY <1>36, Died DEF Exit, locals
<1>37. ASSUME NEW r \in Runs, KillWorker(r) PROVE TypeOK' /\ Assigned'
  <2>1. faults' \in [kills : Nat, crashes : Nat, probes : Nat]
    BY <1>37 DEF KillWorker
  <2>2. live' \in [Runs -> Directory] /\ wpc' \in [Runs -> WorkerLabels]
    BY <1>37, Died DEF KillWorker
  <2> QED
    BY <2>1, <2>2, <1>37 DEF KillWorker, locals
<1>38. ASSUME CrashServer PROVE TypeOK' /\ Assigned'
  <2>1. faults' \in [kills : Nat, crashes : Nat, probes : Nat]
    BY <1>38 DEF CrashServer
  <2>2. live' \in [Runs -> Directory]
    <3>1. \A r \in Runs : live[r] \in Directory
      OBVIOUS
    <3>2. \A r \in Runs : live[r].lock \in {"free", "worker", "delete"}
      BY <3>1 DEF Directory
    <3>3. \A r \in Runs :
            [live[r] EXCEPT !.lock = IF live[r].lock = "delete" THEN "free" ELSE live[r].lock] \in Directory
      BY <3>1, <3>2, Edited
    <3> QED
      BY <3>3, <1>38 DEF CrashServer
  <2> QED
    BY <1>0, <2>1, <2>2, <1>38 DEF CrashServer
<1>39. CASE UNCHANGED vars
  BY <1>39 DEF vars, dirs, locals
<1> QED
  BY <1>1, <1>2, <1>3, <1>4, <1>5, <1>6, <1>7, <1>8, <1>9, <1>10, <1>11, <1>12, <1>13, <1>14,
     <1>15, <1>16, <1>17, <1>18, <1>19, <1>20, <1>21, <1>22, <1>23, <1>24, <1>25, <1>26, <1>27,
     <1>28, <1>29, <1>30, <1>31, <1>32, <1>33, <1>34, <1>35, <1>36, <1>37, <1>38, <1>39
     DEF Next, Request, StartStep, RecordStep, StopStep, DeleteStep, Worker

\* Every variable keeps its type.
THEOREM TypeCorrect == Spec => []TypeOK
<1>1. Init => TypeOK /\ Assigned
  BY DEF Init, TypeOK, Assigned, NoDir, Directory, ThreadLabels, WorkerLabels, StartLabels,
     RecordLabels
<1> QED
  BY <1>1, TypedStep, PTL DEF Spec
-----------------------------------------------------------------------------
\* What most steps are to the locks: no lock changes hands, no worker comes to
\* hold one, nothing is moved, and completion has its result.
Quiet ==
  /\ arch' = arch
  /\ \A r \in Runs :
       /\ live'[r].lock = live[r].lock
       /\ live[r].exists => live'[r].exists
       /\ live[r].result => live'[r].result
       /\ live'[r].status = "completed" => live[r].status = "completed" \/ live'[r].result
       /\ Holding(r)' => Holding(r)
       /\ wpc'[r] = "final" => wpc[r] = "final" \/ live'[r].result
       /\ wpc[r] = "none" => wpc'[r] = "none" \/ r \in Trainings
  /\ \A t \in Threads : pc'[t] \in Deleting => pc[t] \in Deleting /\ run'[t] = run[t]

\* Such a step keeps every part of LInv.
LEMMA QuietKeeps == LInv /\ TypeOK' /\ Assigned' /\ Quiet => LInv'
<1> SUFFICES ASSUME LInv, TypeOK', Assigned', Quiet PROVE LInv'
  OBVIOUS
<1>1. NoWorker'
  BY LstmAssumption DEF LInv, Quiet, NoWorker, Runs
<1>2. LockOwned'
  <2> SUFFICES ASSUME NEW t \in Threads, pc'[t] \in Deleting
               PROVE  /\ live'[run'[t]].exists /\ live'[run'[t]].lock = "delete"
                      /\ \A s \in Threads : pc'[s] \in Deleting /\ run'[s] = run'[t] => s = t
    BY DEF LockOwned
  <2>1. pc[t] \in Deleting /\ run'[t] = run[t] /\ run[t] \in Runs
    BY DEF Quiet, LInv, Assigned, Deleting
  <2>2. \A s \in Threads : pc'[s] \in Deleting => pc[s] \in Deleting /\ run'[s] = run[s]
    BY DEF Quiet
  <2>3. /\ live[run[t]].exists => live'[run[t]].exists
        /\ live'[run[t]].lock = live[run[t]].lock
    BY <2>1 DEF Quiet
  <2> QED
    BY <2>1, <2>2, <2>3 DEF LInv, LockOwned
<1>3. LockedNotDeleted'
  BY DEF LInv, Quiet, LockedNotDeleted
<1>4. ResultFirst' /\ CompletedHasResult'
  BY DEF LInv, Quiet, ResultFirst, CompletedHasResult
<1> QED
  BY <1>1, <1>2, <1>3, <1>4 DEF LInv

-----------------------------------------------------------------------------
\* LInv is inductive, whatever the bounds.
LEMMA Step == LInv /\ [Next]_vars => LInv'
<1> SUFFICES ASSUME LInv, [Next]_vars PROVE LInv'
  OBVIOUS
<1> USE DEF Deleting
<1>0. TypeOK /\ Assigned /\ TypeOK' /\ Assigned'
  BY TypedStep DEF LInv
<1>a. live \in [Runs -> Directory] /\ arch \in [Runs -> Directory] /\ wpc \in [Runs -> WorkerLabels]
      /\ pc \in [Threads -> ThreadLabels] /\ run \in [Threads -> Runs \union {NoRun}]
  BY <1>0 DEF TypeOK
<1>1. ASSUME NEW t \in Threads, Start(t) PROVE LInv'
  <2>1. Quiet
    BY <1>a, <1>1 DEF Start, Goto, Accept, Quiet, Holding, dirs, CompletedHasResult, LInv
  <2> QED
    BY <1>0, <2>1, QuietKeeps
<1>2. ASSUME NEW t \in Threads, Record(t) PROVE LInv'
  <2>1. Quiet
    BY <1>a, <1>2 DEF Record, Goto, Accept, Quiet, Holding, dirs, CompletedHasResult, LInv
  <2> QED
    BY <1>0, <2>1, QuietKeeps
<1>3. ASSUME NEW t \in Threads, NEW r \in Runs, Stop(t, r) PROVE LInv'
  <2>1. Quiet
    BY <1>a, <1>3 DEF Stop, Read, Goto, Accept, Quiet, Holding, dirs, CompletedHasResult, LInv
  <2> QED
    BY <1>0, <2>1, QuietKeeps
<1>4. ASSUME NEW t \in Threads, NEW r \in Runs, Delete(t, r) PROVE LInv'
  <2>1. Quiet
    BY <1>a, <1>4 DEF Delete, Read, Goto, Accept, Quiet, Holding, dirs, CompletedHasResult, LInv
  <2> QED
    BY <1>0, <2>1, QuietKeeps
<1>5. ASSUME NEW t \in Threads, NEW r \in Runs, List(t, r) PROVE LInv'
  <2>1. Quiet
    BY <1>a, <1>5 DEF List, Read, Goto, Accept, Quiet, Holding, dirs, CompletedHasResult, LInv
  <2> QED
    BY <1>0, <2>1, QuietKeeps
<1>6. ASSUME NEW t \in Threads, StartList(t) PROVE LInv'
  <2>1. Quiet
    BY <1>a, <1>6 DEF StartList, Goto, Quiet, Holding, dirs, CompletedHasResult, LInv
  <2> QED
    BY <1>0, <2>1, QuietKeeps
<1>7. ASSUME NEW t \in Threads, AdmitRead(t) PROVE LInv'
  <2>1. Quiet
    BY <1>a, <1>7 DEF AdmitRead, Read, Goto, Quiet, Holding, dirs, CompletedHasResult, LInv
  <2> QED
    BY <1>0, <2>1, QuietKeeps
<1>8. ASSUME NEW t \in Threads, AdmitProbe(t) PROVE LInv'
  <2>1. Quiet
    BY <1>a, <1>8 DEF AdmitProbe, Reply, Goto, Quiet, Holding, dirs, CompletedHasResult, LInv
  <2> QED
    BY <1>0, <2>1, QuietKeeps
<1>9. ASSUME NEW t \in Threads, CreateRun(t) PROVE LInv'
  <2>1. run[t] \in Runs
    BY <1>0, <1>9 DEF CreateRun, Assigned
  <2>2. /\ live'[run[t]].exists /\ live'[run[t]].lock = live[run[t]].lock
        /\ live'[run[t]].status = live[run[t]].status /\ live'[run[t]].result = live[run[t]].result
        /\ \A s \in Runs : s # run[t] => live'[s] = live[s]
    BY <1>a, <2>1, <1>9, Written DEF CreateRun, Put
  <2>3. Quiet
    BY <1>a, <2>1, <2>2, <1>9 DEF CreateRun, Quiet, Holding, Goto, Reply, locals
  <2> QED
    BY <1>0, <2>3, QuietKeeps
<1>10. ASSUME NEW t \in Threads, WriteRequest(t) PROVE LInv'
  <2>1. run[t] \in Runs
    BY <1>0, <1>10 DEF WriteRequest, Assigned
  <2>2. /\ live'[run[t]].exists /\ live'[run[t]].lock = live[run[t]].lock
        /\ live'[run[t]].status = live[run[t]].status /\ live'[run[t]].result = live[run[t]].result
        /\ \A s \in Runs : s # run[t] => live'[s] = live[s]
    BY <1>a, <2>1, <1>10, RequestWritten DEF WriteRequest, Put
  <2>3. Quiet
    BY <1>a, <2>1, <2>2, <1>10 DEF WriteRequest, Quiet, Holding, Goto, Reply, locals
  <2> QED
    BY <1>0, <2>3, QuietKeeps
<1>11. ASSUME NEW t \in Threads, Popen(t) PROVE LInv'
  <2>1. run[t] \in Trainings
    BY <1>0, <1>11 DEF Popen, Assigned, StartLabels
  <2>2. Quiet
    BY <1>a, <2>1, <1>11 DEF Popen, Quiet, Holding, Goto, Reply, dirs, locals
  <2> QED
    BY <1>0, <2>2, QuietKeeps
<1>12. ASSUME NEW t \in Threads, Launch(t) PROVE LInv'
  <2>1. run[t] \in Runs
    BY <1>0, <1>12 DEF Launch, Assigned
  <2>2. /\ live'[run[t]].exists /\ live'[run[t]].lock = live[run[t]].lock
        /\ live'[run[t]].status = live[run[t]].status /\ live'[run[t]].result = live[run[t]].result
        /\ \A s \in Runs : s # run[t] => live'[s] = live[s]
    BY <1>a, <2>1, <1>12, LaunchWritten DEF Launch, Put
  <2>3. Quiet
    BY <1>a, <2>1, <2>2, <1>12 DEF Launch, Quiet, Holding, Goto, Reply, locals
  <2> QED
    BY <1>0, <2>3, QuietKeeps
<1>13. ASSUME NEW t \in Threads, RecordLock(t) PROVE LInv'
  <2>1. Quiet
    BY <1>a, <1>13 DEF RecordLock, Goto, locals, Quiet, Holding, dirs, CompletedHasResult, LInv
  <2> QED
    BY <1>0, <2>1, QuietKeeps
<1>14. ASSUME NEW t \in Threads, RecordArchived(t) PROVE LInv'
  <2>1. Quiet
    BY <1>a, <1>14 DEF RecordArchived, Goto, Reply, locals, Quiet, Holding, dirs,
       CompletedHasResult, LInv
  <2> QED
    BY <1>0, <2>1, QuietKeeps
<1>15. ASSUME NEW t \in Threads, RecordState(t) PROVE LInv'
  <2>1. Quiet
    BY <1>a, <1>15 DEF RecordState, Goto, Reply, locals, Quiet, Holding, dirs, CompletedHasResult,
       LInv
  <2> QED
    BY <1>0, <2>1, QuietKeeps
<1>16. ASSUME NEW t \in Threads, RecordPublish(t) PROVE LInv'
  <2>1. run[t] \in Backtests /\ run[t] \in Runs /\ wpc[run[t]] = "none"
    BY <1>0, <1>16 DEF RecordPublish, Assigned, RecordLabels, NoWorker, LInv, Runs
  <2>2. /\ arch' = arch /\ wpc' = wpc /\ pc'[t] = "idle"
        /\ \A s \in Threads : s # t => pc'[s] = pc[s] /\ run'[s] = run[s]
        /\ \A r \in Runs : r # run[t] \/ live[r].exists => live'[r] = live[r]
    BY <1>a, <1>16 DEF RecordPublish, Reply, Goto
  <2>3. live'[run[t]] = live[run[t]] \/ live'[run[t]].result
    <3>1. Evidence.result
      BY DEF Evidence, NoDir
    <3> QED
      BY <1>a, <2>1, <3>1, <1>16 DEF RecordPublish
  <2>4. NoWorker'
    BY <2>2 DEF NoWorker, LInv
  <2>5. LockOwned'
    BY <1>0, <2>2 DEF LockOwned, LInv, Assigned
  <2>6. LockedNotDeleted'
    BY <2>1, <2>2 DEF LockedNotDeleted, Holding, LInv
  <2>7. ResultFirst' /\ CompletedHasResult'
    BY <2>1, <2>2, <2>3 DEF ResultFirst, CompletedHasResult, LInv
  <2> QED
    BY <1>0, <2>4, <2>5, <2>6, <2>7 DEF LInv
<1>17. ASSUME NEW t \in Threads, StopProbe(t) PROVE LInv'
  <2>1. Quiet
    BY <1>a, <1>17 DEF StopProbe, Reply, Goto, locals, Quiet, Holding, dirs, CompletedHasResult,
       LInv
  <2> QED
    BY <1>0, <2>1, QuietKeeps
<1>18. ASSUME NEW t \in Threads, Terminate(t) PROVE LInv'
  <2>1. run[t] \in Runs
    BY <1>0, <1>18 DEF Terminate, Assigned
  <2>2. CASE Die(run[t])
    <3>1. /\ wpc' = [wpc EXCEPT ![run[t]] = "dead"] /\ arch' = arch
          /\ live'[run[t]].exists = live[run[t]].exists
          /\ live[run[t]].lock # "worker" => live'[run[t]].lock = live[run[t]].lock
          /\ live'[run[t]].status = live[run[t]].status
          /\ live'[run[t]].result = live[run[t]].result
          /\ \A s \in Runs : s # run[t] => live'[s] = live[s]
      BY <1>0, <2>1, <2>2, <1>18, Died DEF Terminate
    <3>2. wpc[run[t]] # "none"
      BY <1>a, <2>1, <2>2, <1>18 DEF Terminate, Alive, Die
    <3>3. \A s \in Threads : pc'[s] \in Deleting => pc[s] \in Deleting /\ run'[s] = run[s]
      BY <1>a, <1>18 DEF Terminate, Reply, Goto
    <3>4. NoWorker'
      BY <1>a, <3>1, <3>2 DEF NoWorker, LInv, Runs
    <3>5. LockOwned'
      BY <1>0, <3>1, <3>3 DEF LockOwned, LInv, Assigned
    <3>6. LockedNotDeleted'
      BY <1>a, <3>1 DEF LockedNotDeleted, Holding, LInv
    <3>7. ResultFirst' /\ CompletedHasResult'
      BY <1>a, <3>1 DEF ResultFirst, CompletedHasResult, LInv
    <3> QED
      BY <1>0, <3>4, <3>5, <3>6, <3>7 DEF LInv
  <2>3. CASE ~Die(run[t])
    <3>1. Quiet
      BY <1>a, <2>1, <2>3, <1>18 DEF Terminate, Quiet, Holding, Reply, Goto
    <3> QED
      BY <1>0, <3>1, QuietKeeps
  <2> QED
    BY <2>2, <2>3
<1>19. ASSUME NEW t \in Threads, DeleteCheck(t) PROVE LInv'
  <2>1. run[t] \in Runs
    BY <1>0, <1>19 DEF DeleteCheck, Assigned
  <2>2. CASE pc[t] = "recheck" /\ Reply(t) /\ live' = [live EXCEPT ![run[t]].lock = "free"]
    <3>1. /\ live'[run[t]].exists = live[run[t]].exists
          /\ live'[run[t]].status = live[run[t]].status
          /\ live'[run[t]].result = live[run[t]].result
          /\ \A s \in Runs : s # run[t] => live'[s] = live[s]
      <4> DEFINE l == "free"
      <4>1. l \in {"free", "worker", "delete"} /\ live' = [live EXCEPT ![run[t]].lock = l]
        BY <2>2
      <4> HIDE DEF l
      <4> QED
        BY <1>a, <2>1, <4>1, Released
    <3>2. live[run[t]].lock = "delete"
      BY <2>2 DEF LockOwned, LInv
    <3>3. /\ arch' = arch /\ wpc' = wpc /\ pc'[t] = "idle"
          /\ \A s \in Threads : s # t => pc'[s] = pc[s] /\ run'[s] = run[s]
      BY <1>a, <2>2, <1>19 DEF DeleteCheck, Reply, Goto
    <3>4. \A s \in Threads : s # t /\ pc[s] \in Deleting => run[s] # run[t]
      BY <2>2 DEF LockOwned, LInv
    <3>5. LockOwned'
      BY <1>0, <3>1, <3>3, <3>4 DEF LockOwned, LInv, Assigned
    <3>6. LockedNotDeleted'
      BY <3>1, <3>2, <3>3 DEF LockedNotDeleted, Holding, LInv
    <3>7. NoWorker' /\ ResultFirst' /\ CompletedHasResult'
      BY <3>1, <3>3 DEF NoWorker, ResultFirst, CompletedHasResult, LInv
    <3> QED
      BY <1>0, <3>5, <3>6, <3>7 DEF LInv
  <2>3. CASE ~(pc[t] = "recheck" /\ Reply(t) /\ live' = [live EXCEPT ![run[t]].lock = "free"])
    <3>1. arch' = arch /\ wpc' = wpc /\ live' = live
      BY <2>3, <1>19 DEF DeleteCheck
    <3>2. \A s \in Threads : pc'[s] \in Deleting => pc[s] \in Deleting /\ run'[s] = run[s]
      BY <1>a, <1>19 DEF DeleteCheck, Reply, Goto, locals
    <3>3. Quiet
      BY <3>1, <3>2 DEF Quiet, Holding
    <3> QED
      BY <1>0, <3>3, QuietKeeps
  <2> QED
    BY <2>2, <2>3
<1>20. ASSUME NEW t \in Threads, DeleteArchive(t) PROVE LInv'
  <2>1. Quiet
    BY <1>a, <1>20 DEF DeleteArchive, Reply, Goto, locals, Quiet, Holding, dirs,
       CompletedHasResult, LInv
  <2> QED
    BY <1>0, <2>1, QuietKeeps
<1>21. ASSUME NEW t \in Threads, DeleteRunLock(t) PROVE LInv'
  <2>1. run[t] \in Runs
    BY <1>0, <1>21 DEF DeleteRunLock, Assigned
  <2>2. CASE live[run[t]].lock = "free" /\ Put(run[t], [live[run[t]] EXCEPT !.lock = "delete"])
             /\ Goto(t, "reread") /\ UNCHANGED locals
    <3>1. /\ live'[run[t]].exists /\ live'[run[t]].lock = "delete"
          /\ live'[run[t]].status = live[run[t]].status
          /\ live'[run[t]].result = live[run[t]].result
          /\ \A s \in Runs : s # run[t] => live'[s] = live[s]
      <4> DEFINE l == "delete"
      <4>1. l \in {"worker", "delete"}
        OBVIOUS
      <4>2. live' = [live EXCEPT ![run[t]] = [[live[run[t]] EXCEPT !.lock = l] EXCEPT !.exists = TRUE]]
        BY <2>2 DEF Put
      <4>3. l = "delete"
        OBVIOUS
      <4> HIDE DEF l
      <4> QED
        BY <1>a, <2>1, <4>1, <4>2, <4>3, LockWritten
    <3>2. /\ arch' = arch /\ wpc' = wpc /\ run' = run
          /\ \A s \in Threads : s # t => pc'[s] = pc[s]
      BY <1>a, <2>2, <1>21 DEF DeleteRunLock, Goto, locals
    <3>3. \A s \in Threads : pc[s] \in Deleting => run[s] # run[t]
      BY <2>2 DEF LockOwned, LInv
    <3>4. LockOwned'
      BY <1>0, <2>1, <3>1, <3>2, <3>3 DEF LockOwned, LInv, Assigned
    <3>5. LockedNotDeleted'
      BY <2>2, <3>1, <3>2 DEF LockedNotDeleted, Holding, LInv
    <3>6. NoWorker' /\ ResultFirst' /\ CompletedHasResult'
      BY <3>1, <3>2 DEF NoWorker, ResultFirst, CompletedHasResult, LInv
    <3> QED
      BY <1>0, <3>4, <3>5, <3>6 DEF LInv
  <2>3. CASE Reply(t) /\ UNCHANGED live
    <3>1. Quiet
      BY <1>a, <2>3, <1>21 DEF DeleteRunLock, Quiet, Holding, Reply, Goto
    <3> QED
      BY <1>0, <3>1, QuietKeeps
  <2> QED
    BY <1>21, <2>2, <2>3 DEF DeleteRunLock
<1>22. ASSUME NEW t \in Threads, DeleteReread(t) PROVE LInv'
  <2>1. Quiet
    BY <1>a, <1>22 DEF DeleteReread, Read, Goto, Quiet, Holding, dirs, CompletedHasResult, LInv
  <2> QED
    BY <1>0, <2>1, QuietKeeps
<1>23. ASSUME NEW t \in Threads, DeleteRename(t) PROVE LInv'
  <2> DEFINE free == [live[run[t]] EXCEPT !.lock = "free"]
  <2>1. run[t] \in Runs /\ live[run[t]].lock = "delete"
    BY <1>0, <1>23 DEF DeleteRename, Assigned, LockOwned, LInv
  <2>2. free.status = live[run[t]].status /\ free.result = live[run[t]].result
    BY <1>a, <2>1, Edited
  <2>3. \/ live' = [live EXCEPT ![run[t]] = free] /\ UNCHANGED arch
        \/ live' = [live EXCEPT ![run[t]] = NoDir] /\ arch' = [arch EXCEPT ![run[t]] = free]
    BY <1>23 DEF DeleteRename
  <2>4. /\ wpc' = wpc /\ pc'[t] = "idle"
        /\ \A s \in Threads : s # t => pc'[s] = pc[s] /\ run'[s] = run[s]
    BY <1>a, <1>23 DEF DeleteRename, Reply, Goto
  <2>5. \A s \in Threads : s # t /\ pc[s] \in Deleting => run[s] # run[t]
    BY <1>23 DEF DeleteRename, LockOwned, LInv
  <2> HIDE DEF free
  <2>6. \A s \in Runs : s # run[t] => live'[s] = live[s] /\ arch'[s] = arch[s]
    BY <1>a, <2>1, <2>3
  <2>7. LockOwned'
    BY <1>0, <2>4, <2>5, <2>6 DEF LockOwned, LInv, Assigned
  <2>8. LockedNotDeleted'
    BY <2>1, <2>4, <2>6 DEF LockedNotDeleted, Holding, LInv
  <2>9. NoWorker'
    BY <2>4 DEF NoWorker, LInv
  <2>10. CompletedHasResult'
    <3>1. NoDir.status # "completed"
      BY DEF NoDir
    <3> QED
      BY <1>a, <2>1, <2>2, <2>3, <2>6, <3>1 DEF CompletedHasResult, LInv
  <2>11. ResultFirst'
    BY <2>1, <2>4, <2>6 DEF ResultFirst, LockedNotDeleted, Holding, LInv
  <2> QED
    BY <1>0, <2>7, <2>8, <2>9, <2>10, <2>11 DEF LInv
<1>24. ASSUME NEW t \in Threads, ListProbe(t) PROVE LInv'
  <2>1. Quiet
    BY <1>a, <1>24 DEF ListProbe, Reply, Goto, Quiet, Holding, dirs, CompletedHasResult, LInv
  <2> QED
    BY <1>0, <2>1, QuietKeeps
<1>25. ASSUME NEW r \in Runs, Boot(r) PROVE LInv'
  <2>1. Quiet
    BY <1>a, <1>25 DEF Boot, Become, locals, Quiet, Holding, dirs, CompletedHasResult, LInv
  <2> QED
    BY <1>0, <2>1, QuietKeeps
<1>26. ASSUME NEW r \in Runs, Snapshot(r) PROVE LInv'
  <2>1. Quiet
    BY <1>a, <1>26 DEF Snapshot, Become, locals, Quiet, Holding, dirs, CompletedHasResult, LInv
  <2> QED
    BY <1>0, <2>1, QuietKeeps
<1>27. ASSUME NEW r \in Runs, Arm(r) PROVE LInv'
  <2>1. Quiet
    BY <1>a, <1>27 DEF Arm, Become, locals, Quiet, Holding, dirs, CompletedHasResult, LInv
  <2> QED
    BY <1>0, <2>1, QuietKeeps
<1>28. ASSUME NEW r \in Runs, Train(r) PROVE LInv'
  <2>1. Quiet
    BY <1>a, <1>28 DEF Train, Become, locals, Quiet, Holding, dirs, CompletedHasResult, LInv
  <2> QED
    BY <1>0, <2>1, QuietKeeps
<1>29. ASSUME NEW r \in Runs, PutRequest(r) PROVE LInv'
  <2>1. /\ live'[r].exists /\ live'[r].lock = live[r].lock
        /\ live'[r].status = live[r].status /\ (live[r].result => live'[r].result)
        /\ \A s \in Runs : s # r => live'[s] = live[s]
    BY <1>a, <1>29, RequestWritten DEF PutRequest, Put
  <2>2. Quiet
    BY <1>a, <2>1, <1>29 DEF PutRequest, Quiet, Holding, Become, locals
  <2> QED
    BY <1>0, <2>2, QuietKeeps
<1>30. ASSUME NEW r \in Runs, PutResult(r) PROVE LInv'
  <2>1. /\ live'[r].exists /\ live'[r].lock = live[r].lock
        /\ live'[r].status = live[r].status /\ (live[r].result => live'[r].result)
        /\ \A s \in Runs : s # r => live'[s] = live[s]
        /\ live'[r].result
    BY <1>a, <1>30, ResultWritten DEF PutResult, Put
  <2>2. Quiet
    BY <1>a, <2>1, <1>30 DEF PutResult, Quiet, Holding, Become, locals
  <2> QED
    BY <1>0, <2>2, QuietKeeps
<1>31. ASSUME NEW r \in Runs, Claim(r) PROVE LInv'
  <2>1. CASE Become(r, "unlock") /\ UNCHANGED live
    <3>1. Quiet
      BY <1>a, <2>1, <1>31 DEF Claim, Quiet, Holding, Become, locals
    <3> QED
      BY <1>0, <3>1, QuietKeeps
  <2>2. CASE Put(r, [live[r] EXCEPT !.claim = TRUE]) /\ Become(r, "snapshot")
    <3>1. /\ live'[r].exists /\ live'[r].lock = live[r].lock
          /\ live'[r].status = live[r].status /\ live'[r].result = live[r].result
          /\ \A s \in Runs : s # r => live'[s] = live[s]
      BY <1>a, <2>2, ClaimWritten DEF Put
    <3>2. Quiet
      BY <1>a, <2>2, <3>1, <1>31 DEF Claim, Quiet, Holding, Become, locals
    <3> QED
      BY <1>0, <3>2, QuietKeeps
  <2> QED
    BY <1>31, <2>1, <2>2 DEF Claim
<1>32. ASSUME NEW r \in Runs, TakeRunLock(r) PROVE LInv'
  <2>1. CASE live[r].lock = "free" /\ Put(r, [live[r] EXCEPT !.lock = "worker"]) /\ Become(r, "claim")
    <3>1. /\ live'[r].exists /\ live'[r].lock = "worker"
          /\ live'[r].status = live[r].status
          /\ live'[r].result = live[r].result
          /\ \A s \in Runs : s # r => live'[s] = live[s]
      <4> DEFINE l == "worker"
      <4>1. l \in {"worker", "delete"} /\ l = "worker"
        OBVIOUS
      <4>2. live' = [live EXCEPT ![r] = [[live[r] EXCEPT !.lock = l] EXCEPT !.exists = TRUE]]
        BY <2>1 DEF Put
      <4> HIDE DEF l
      <4> QED
        BY <1>a, <4>1, <4>2, LockWritten
    <3>2. /\ arch' = arch /\ pc' = pc /\ run' = run /\ wpc' = [wpc EXCEPT ![r] = "claim"]
          /\ wpc[r] = "lock"
      BY <2>1, <1>32 DEF TakeRunLock, Become, locals
    <3>3. \A s \in Threads : pc[s] \in Deleting => run[s] # r
      BY <2>1 DEF LockOwned, LInv
    <3>4. LockOwned'
      BY <1>0, <3>1, <3>2, <3>3 DEF LockOwned, LInv, Assigned
    <3>5. LockedNotDeleted'
      BY <1>a, <3>1, <3>2 DEF LockedNotDeleted, Holding, LInv
    <3>6. NoWorker'
      BY <1>a, <3>2 DEF NoWorker, LInv, Runs
    <3>7. ResultFirst' /\ CompletedHasResult'
      BY <1>a, <3>1, <3>2 DEF ResultFirst, CompletedHasResult, LInv
    <3> QED
      BY <1>0, <3>4, <3>5, <3>6, <3>7 DEF LInv
  <2>2. CASE Become(r, "exit") /\ UNCHANGED live
    <3>1. Quiet
      BY <1>a, <2>2, <1>32 DEF TakeRunLock, Quiet, Holding, Become, locals
    <3> QED
      BY <1>0, <3>1, QuietKeeps
  <2> QED
    BY <1>32, <2>1, <2>2 DEF TakeRunLock
<1>33. ASSUME NEW r \in Runs, FirstStatus(r) PROVE LInv'
  <2> DEFINE s == "running"
  <2>1. s \in Statuses /\ (s = "completed" => wpc[r] = "final")
    BY DEF Statuses
  <2>2. live' = [live EXCEPT ![r] = [[live[r] EXCEPT !.status = s] EXCEPT !.exists = TRUE]]
    BY <1>33 DEF FirstStatus, PutStatus, Put
  <2> HIDE DEF s
  <2>3. /\ live'[r].exists /\ live'[r].lock = live[r].lock
        /\ live'[r].status = s /\ live'[r].result = live[r].result
        /\ \A q \in Runs : q # r => live'[q] = live[q]
    BY <1>a, <2>1, <2>2, StatusWritten
  <2>4. live'[r].status = "completed" => live'[r].result
    BY <2>1, <2>3 DEF ResultFirst, LInv
  <2>5. Quiet
    BY <1>a, <2>3, <2>4, <1>33 DEF FirstStatus, Quiet, Holding, Become, locals
  <2> QED
    BY <1>0, <2>5, QuietKeeps
<1>34. ASSUME NEW r \in Runs, PutInterrupted(r) PROVE LInv'
  <2> DEFINE s == "interrupted"
  <2>1. s \in Statuses /\ (s = "completed" => wpc[r] = "final")
    BY DEF Statuses
  <2>2. live' = [live EXCEPT ![r] = [[live[r] EXCEPT !.status = s] EXCEPT !.exists = TRUE]]
    BY <1>34 DEF PutInterrupted, PutStatus, Put
  <2> HIDE DEF s
  <2>3. /\ live'[r].exists /\ live'[r].lock = live[r].lock
        /\ live'[r].status = s /\ live'[r].result = live[r].result
        /\ \A q \in Runs : q # r => live'[q] = live[q]
    BY <1>a, <2>1, <2>2, StatusWritten
  <2>4. live'[r].status = "completed" => live'[r].result
    BY <2>1, <2>3 DEF ResultFirst, LInv
  <2>5. Quiet
    BY <1>a, <2>3, <2>4, <1>34 DEF PutInterrupted, Quiet, Holding, Become, locals
  <2> QED
    BY <1>0, <2>5, QuietKeeps
<1>35. ASSUME NEW r \in Runs, PutFinal(r) PROVE LInv'
  <2> DEFINE s == IF wpc[r] = "final" THEN "completed" ELSE "failed_closed"
  <2>1. s \in Statuses /\ (s = "completed" => wpc[r] = "final")
    BY DEF Statuses
  <2>2. live' = [live EXCEPT ![r] = [[live[r] EXCEPT !.status = s] EXCEPT !.exists = TRUE]]
    BY <1>35 DEF PutFinal, PutStatus, Put
  <2> HIDE DEF s
  <2>3. /\ live'[r].exists /\ live'[r].lock = live[r].lock
        /\ live'[r].status = s /\ live'[r].result = live[r].result
        /\ \A q \in Runs : q # r => live'[q] = live[q]
    BY <1>a, <2>1, <2>2, StatusWritten
  <2>4. live'[r].status = "completed" => live'[r].result
    BY <2>1, <2>3 DEF ResultFirst, LInv
  <2>5. Quiet
    BY <1>a, <2>3, <2>4, <1>35 DEF PutFinal, Quiet, Holding, Become, locals
  <2> QED
    BY <1>0, <2>5, QuietKeeps
<1>36. ASSUME NEW r \in Runs, Exit(r) PROVE LInv'
  <2>1. CASE Die(r)
    <3>1. /\ wpc' = [wpc EXCEPT ![r] = "dead"] /\ arch' = arch
          /\ live'[r].exists = live[r].exists
          /\ live[r].lock # "worker" => live'[r].lock = live[r].lock
          /\ live'[r].status = live[r].status
          /\ live'[r].result = live[r].result
          /\ \A s \in Runs : s # r => live'[s] = live[s]
      BY <1>0, <2>1, <1>36, Died DEF Exit
    <3>2. wpc[r] # "none"
      BY <1>a, <2>1, <1>36 DEF Exit, Alive, Die
    <3>3. \A s \in Threads : pc'[s] \in Deleting => pc[s] \in Deleting /\ run'[s] = run[s]
      BY <1>a, <1>36 DEF Exit, locals
    <3>4. NoWorker'
      BY <1>a, <3>1, <3>2 DEF NoWorker, LInv, Runs
    <3>5. LockOwned'
      BY <1>0, <3>1, <3>3 DEF LockOwned, LInv, Assigned
    <3>6. LockedNotDeleted'
      BY <1>a, <3>1 DEF LockedNotDeleted, Holding, LInv
    <3>7. ResultFirst' /\ CompletedHasResult'
      BY <1>a, <3>1 DEF ResultFirst, CompletedHasResult, LInv
    <3> QED
      BY <1>0, <3>4, <3>5, <3>6, <3>7 DEF LInv
  <2> QED
    BY <1>36, <2>1 DEF Exit
<1>37. ASSUME NEW r \in Runs, KillWorker(r) PROVE LInv'
  <2>1. CASE Die(r)
    <3>1. /\ wpc' = [wpc EXCEPT ![r] = "dead"] /\ arch' = arch
          /\ live'[r].exists = live[r].exists
          /\ live[r].lock # "worker" => live'[r].lock = live[r].lock
          /\ live'[r].status = live[r].status
          /\ live'[r].result = live[r].result
          /\ \A s \in Runs : s # r => live'[s] = live[s]
      BY <1>0, <2>1, <1>37, Died DEF KillWorker
    <3>2. wpc[r] # "none"
      BY <1>a, <2>1, <1>37 DEF KillWorker, Alive, Die
    <3>3. \A s \in Threads : pc'[s] \in Deleting => pc[s] \in Deleting /\ run'[s] = run[s]
      BY <1>a, <1>37 DEF KillWorker, locals
    <3>4. NoWorker'
      BY <1>a, <3>1, <3>2 DEF NoWorker, LInv, Runs
    <3>5. LockOwned'
      BY <1>0, <3>1, <3>3 DEF LockOwned, LInv, Assigned
    <3>6. LockedNotDeleted'
      BY <1>a, <3>1 DEF LockedNotDeleted, Holding, LInv
    <3>7. ResultFirst' /\ CompletedHasResult'
      BY <1>a, <3>1 DEF ResultFirst, CompletedHasResult, LInv
    <3> QED
      BY <1>0, <3>4, <3>5, <3>6, <3>7 DEF LInv
  <2> QED
    BY <1>37, <2>1 DEF KillWorker
<1>38. ASSUME CrashServer PROVE LInv'
  <2>1. /\ arch' = arch /\ wpc' = wpc /\ \A t \in Threads : pc'[t] = "idle"
    BY <1>38 DEF CrashServer
  <2>2. ASSUME NEW r \in Runs
        PROVE  /\ live'[r].exists = live[r].exists
               /\ live[r].lock = "worker" => live'[r].lock = "worker"
               /\ live'[r].status = live[r].status
               /\ live'[r].result = live[r].result
    <3> DEFINE l == IF live[r].lock = "delete" THEN "free" ELSE live[r].lock
    <3>1. live[r] \in Directory
      BY <1>a
    <3>2. l \in {"free", "worker", "delete"} /\ (live[r].lock = "worker" => l = "worker")
      BY <3>1 DEF Directory
    <3>3. live'[r] = [live[r] EXCEPT !.lock = l]
      BY <1>38 DEF CrashServer
    <3> HIDE DEF l
    <3> QED
      BY <3>1, <3>2, <3>3, Edited
  <2>3. LockOwned'
    BY <2>1 DEF LockOwned
  <2>4. LockedNotDeleted'
    BY <2>1, <2>2 DEF LockedNotDeleted, Holding, LInv
  <2>5. NoWorker' /\ ResultFirst' /\ CompletedHasResult'
    BY <2>1, <2>2 DEF NoWorker, ResultFirst, CompletedHasResult, LInv
  <2> QED
    BY <1>0, <2>3, <2>4, <2>5 DEF LInv
<1>39. CASE UNCHANGED vars
  BY <1>0, <1>39 DEF vars, dirs, locals, LInv, NoWorker, LockOwned, LockedNotDeleted, Holding,
     ResultFirst, CompletedHasResult
<1> QED
  BY <1>1, <1>2, <1>3, <1>4, <1>5, <1>6, <1>7, <1>8, <1>9, <1>10, <1>11, <1>12, <1>13, <1>14,
     <1>15, <1>16, <1>17, <1>18, <1>19, <1>20, <1>21, <1>22, <1>23, <1>24, <1>25, <1>26, <1>27,
     <1>28, <1>29, <1>30, <1>31, <1>32, <1>33, <1>34, <1>35, <1>36, <1>37, <1>38, <1>39
     DEF Next, Request, StartStep, RecordStep, StopStep, DeleteStep, Worker

\* The initial states satisfy LInv.
LEMMA Initial == Init => LInv
<1> SUFFICES ASSUME Init PROVE LInv
  OBVIOUS
<1>1. TypeOK /\ Assigned
  BY DEF Init, TypeOK, Assigned, NoDir, Directory, ThreadLabels, WorkerLabels, StartLabels,
     RecordLabels
<1>2. NoWorker /\ LockOwned /\ LockedNotDeleted /\ ResultFirst /\ CompletedHasResult
  BY DEF Init, NoDir, NoWorker, LockOwned, Deleting, LockedNotDeleted, Holding, ResultFirst,
     CompletedHasResult, Runs
<1> QED
  BY <1>1, <1>2 DEF LInv

\* LInv holds always.
THEOREM Inductive == Spec => []LInv
BY Initial, Step, PTL DEF Spec

\* A worker that holds run.lock keeps its directory and its lock, whatever the
\* requests, the probes and the crashes do.
THEOREM LockedNotDeletedAlways == Spec => []LockedNotDeleted
<1>1. LInv => LockedNotDeleted
  BY DEF LInv
<1> QED
  BY <1>1, Inductive, PTL

\* A completed status is never without its result, in the workspace and in the
\* archive, whoever dies.
THEOREM CompletedHasResultAlways == Spec => []CompletedHasResult
<1>1. LInv => CompletedHasResult
  BY DEF LInv
<1> QED
  BY <1>1, Inductive, PTL
-----------------------------------------------------------------------------
(***************************************************************************)
(* One training per ticker.  Three things break it, and nothing else does: *)
(* a ps that fails, a crash of the server between Popen and                *)
(* launch.sqlite3, and an archive of a job that runs.                      *)
(***************************************************************************)

\* Every ps answers, and the server may crash anywhere but between starting a
\* worker and recording its process id.
JobsNext ==
  /\ Next
  /\ faults'.probes = faults.probes
  /\ faults'.crashes # faults.crashes => \A t \in Threads : pc[t] # "launch"

JobsSpec == Init /\ [][JobsNext]_vars

\* The labels at which a request holds workspace.lock.
Critical == {"admit", "probe", "reserve", "popen", "launch", "archived", "state", "publish"}

\* A worker is not yet started, or has not yet ended its training.
Early == {"none", "boot", "request", "lock", "claim", "snapshot", "starting", "arming", "training"}

Open == {"none", "running"}

Locked == \A t \in Threads : pc[t] \in Critical => lock = t

\* No two starts share a job.
Distinct ==
  \A s, t \in Threads :
    pc[s] \in StartLabels /\ pc[t] \in StartLabels /\ run[s] = run[t] => s = t

\* A start that has not reached Popen has no worker.
NotYet == \A t \in Threads : pc[t] \in StartLabels \ {"launch"} => wpc[run[t]] = "none"

\* No final status before the training has ended.
Unended == \A r \in Trainings : wpc[r] \in Early => live[r].status \in Open

\* A worker that trains has its directory and a recorded process id, unless
\* start is about to record it.
Recorded ==
  \A r \in Runs : Training(r) =>
    /\ live[r].exists
    /\ live[r].launch \/ \E t \in Threads : pc[t] = "launch" /\ run[t] = r

\* Admission has still to look at every job of the ticker that trains.
Admitting ==
  \A t \in Threads : pc[t] \in {"admit", "probe"} =>
    \A r \in Trainings : Training(r) /\ Ticker[r] = Ticker[run[t]] => r \in left[t]

\* What admission has read of a job that trains shows it active.
Judged ==
  \A t \in Threads :
    pc[t] = "probe" /\ Training(at[t]) => seen[t].launch /\ seen[t].status \in Open

\* After admission no job of the ticker trains.
Cleared ==
  \A t \in Threads : pc[t] \in {"reserve", "popen"} =>
    /\ live[run[t]].exists \/ arch[run[t]].exists
    /\ \A r \in Trainings : Training(r) => Ticker[r] # Ticker[run[t]]

AInv ==
  /\ Locked
  /\ Distinct
  /\ NotYet
  /\ Unended
  /\ Recorded
  /\ Admitting
  /\ Judged
  /\ Cleared
  /\ OneTrainingPerTicker

\* What a step does to the directories: an archive stays, a directory keeps its
\* launch record unless it is archived, and only a worker that ends its
\* training writes a final status.
DirsKept ==
  \A r \in Runs :
    /\ arch[r].exists => arch'[r].exists
    /\ \/ arch'[r].exists
       \/ /\ live[r].exists => live'[r].exists
          /\ r \in Trainings /\ live[r].launch => live'[r].launch
    /\ r \in Trainings /\ wpc'[r] \in Early /\ live[r].status \in Open => live'[r].status \in Open

\* A write of one file keeps the launch record of the files it starts from.
LEMMA LaunchKept ==
  ASSUME live \in [Runs -> Directory], NEW r \in Runs, NEW files \in Directory, Put(r, files)
  PROVE  /\ live'[r].exists
         /\ live'[r].launch = files.launch
         /\ live'[r].status = files.status
         /\ \A s \in Runs : s # r => live'[s] = live[s]
<1> DEFINE new == [files EXCEPT !.exists = TRUE]
<1>1. new.exists /\ new.launch = files.launch /\ new.status = files.status
  BY DEF Directory
<1>2. live' = [live EXCEPT ![r] = new]
  BY DEF Put
<1> HIDE DEF new
<1> QED
  BY <1>1, <1>2

\* The files a step may write, one at a time: none takes back the launch record.
LEMMA FilesEdited ==
  ASSUME NEW d \in Directory
  PROVE  /\ \A f \in {[d EXCEPT !.request = TRUE], [d EXCEPT !.claim = TRUE],
                      [d EXCEPT !.result = TRUE], [d EXCEPT !.lock = "worker"],
                      [d EXCEPT !.lock = "delete"], [d EXCEPT !.lock = "free"]} :
              f \in Directory /\ f.launch = d.launch /\ f.status = d.status /\ f.exists = d.exists
         /\ [d EXCEPT !.launch = TRUE] \in Directory
         /\ [d EXCEPT !.launch = TRUE].launch
         /\ [d EXCEPT !.launch = TRUE].status = d.status
  BY DEF Directory

\* A status that is written keeps the launch record.
LEMMA StatusKeepsLaunch ==
  ASSUME live \in [Runs -> Directory], NEW r \in Runs, NEW st \in Statuses, PutStatus(r, st)
  PROVE  /\ live'[r].exists
         /\ live'[r].launch = live[r].launch
         /\ live'[r].status = st
         /\ \A s \in Runs : s # r => live'[s] = live[s]
<1> DEFINE files == [live[r] EXCEPT !.status = st]
<1>1. files \in Directory /\ files.launch = live[r].launch /\ files.status = st
  BY DEF Directory, Statuses
<1>2. Put(r, files)
  BY DEF PutStatus
<1> HIDE DEF files
<1> QED
  BY <1>1, <1>2, LaunchKept

\* A run lock that is released or taken in place leaves the other files alone.
LEMMA LockKeepsFiles ==
  ASSUME live \in [Runs -> Directory], NEW r \in Runs, NEW l \in {"free", "worker", "delete"},
         live' = [live EXCEPT ![r].lock = l]
  PROVE  \A s \in Runs : /\ live'[s].exists = live[s].exists
                         /\ live'[s].launch = live[s].launch
                         /\ live'[s].status = live[s].status
<1> DEFINE new == [live[r] EXCEPT !.lock = l]
<1>1. new.exists = live[r].exists /\ new.launch = live[r].launch /\ new.status = live[r].status
  BY DEF Directory
<1>2. live' = [live EXCEPT ![r] = new]
  OBVIOUS
<1> HIDE DEF new
<1> QED
  BY <1>1, <1>2

\* The death of a worker changes no file.
LEMMA DeathKeepsFiles ==
  ASSUME live \in [Runs -> Directory], NEW r \in Runs, Die(r)
  PROVE  \A s \in Runs : /\ live'[s].exists = live[s].exists
                         /\ live'[s].launch = live[s].launch
                         /\ live'[s].status = live[s].status
<1> DEFINE l == IF live[r].lock = "worker" THEN "free" ELSE live[r].lock
<1>1. l \in {"free", "worker", "delete"}
  BY DEF Directory
<1>2. live' = [live EXCEPT ![r].lock = l]
  BY DEF Die, Unlock
<1> HIDE DEF l
<1> QED
  BY <1>1, <1>2, LockKeepsFiles

\* Every step keeps the directories in this sense.
LEMMA DirStep == LInv /\ [Next]_vars => DirsKept
<1> SUFFICES ASSUME LInv, [Next]_vars PROVE DirsKept
  OBVIOUS
<1>0. /\ live \in [Runs -> Directory] /\ arch \in [Runs -> Directory]
      /\ wpc \in [Runs -> WorkerLabels] /\ Assigned /\ LockOwned
      /\ Trainings \subseteq Runs /\ Backtests \subseteq Runs
      /\ Trainings \intersect Backtests = {}
  BY LstmAssumption DEF LInv, TypeOK, Runs
<1>1. ASSUME UNCHANGED arch,
             \A r \in Runs : /\ live'[r].exists = live[r].exists
                             /\ live'[r].launch = live[r].launch
                             /\ live'[r].status = live[r].status
      PROVE  DirsKept
  BY <1>0, <1>1 DEF DirsKept
<1>2. ASSUME UNCHANGED arch, NEW r \in Runs, NEW f \in Directory, Put(r, f),
             live[r].launch => f.launch, f.status = live[r].status
      PROVE  DirsKept
  BY <1>0, <1>2, LaunchKept DEF DirsKept
<1>3. ASSUME UNCHANGED arch, NEW r \in Runs, NEW st \in Statuses, PutStatus(r, st),
             st \in Open \/ wpc'[r] \notin Early
      PROVE  DirsKept
  BY <1>0, <1>3, StatusKeepsLaunch DEF DirsKept
<1>4. ASSUME UNCHANGED dirs PROVE DirsKept
  BY <1>1, <1>4 DEF dirs
<1>5. ASSUME UNCHANGED arch, NEW r \in Runs, Die(r) PROVE DirsKept
  BY <1>0, <1>1, <1>5, DeathKeepsFiles
<1>6. ASSUME NEW t \in Threads, StartStep(t) PROVE DirsKept
  <2>1. CASE UNCHANGED dirs
    BY <1>4, <2>1
  <2>2. CASE CreateRun(t)
    BY <1>0, <1>2, <2>2 DEF CreateRun, Assigned, StartLabels
  <2>3. CASE WriteRequest(t)
    BY <1>0, <1>2, <2>3, FilesEdited DEF WriteRequest, Assigned, StartLabels
  <2>4. CASE Launch(t)
    BY <1>0, <1>2, <2>4, FilesEdited DEF Launch, Assigned, StartLabels
  <2> QED
    BY <1>6, <2>1, <2>2, <2>3, <2>4 DEF StartStep, StartList, AdmitRead, AdmitProbe, Popen, dirs
<1>7. ASSUME NEW t \in Threads, RecordStep(t) PROVE DirsKept
  <2>1. CASE UNCHANGED dirs
    BY <1>4, <2>1
  <2>2. CASE RecordPublish(t) /\ ~UNCHANGED dirs
    <3>1. /\ run[t] \in Backtests /\ run[t] \in Runs /\ UNCHANGED arch
          /\ ~live[run[t]].exists /\ live' = [live EXCEPT ![run[t]] = Evidence]
      BY <1>0, <2>2 DEF RecordPublish, Assigned, RecordLabels, dirs
    <3>2. Evidence.exists
      BY DEF Evidence, NoDir
    <3> QED
      BY <1>0, <3>1, <3>2 DEF DirsKept
  <2> QED
    BY <1>7, <2>1, <2>2 DEF RecordStep, RecordLock, RecordArchived, RecordState, dirs
<1>8. ASSUME NEW t \in Threads, StopStep(t) PROVE DirsKept
  <2>1. CASE StopProbe(t)
    BY <1>4, <2>1 DEF StopProbe
  <2>2. CASE Terminate(t)
    BY <1>0, <1>4, <1>5, <2>2 DEF Terminate, dirs, Assigned
  <2> QED
    BY <1>8, <2>1, <2>2 DEF StopStep
<1>9. ASSUME NEW t \in Threads, DeleteStep(t) PROVE DirsKept
  <2>0. pc[t] # "idle" => run[t] \in Runs
    BY <1>0 DEF Assigned
  <2>1. CASE UNCHANGED dirs
    BY <1>4, <2>1
  <2>2. CASE DeleteCheck(t) /\ ~UNCHANGED dirs
    BY <1>0, <1>1, <2>0, <2>2, LockKeepsFiles DEF DeleteCheck, dirs
  <2>3. CASE DeleteRunLock(t) /\ ~UNCHANGED dirs
    BY <1>0, <1>2, <2>0, <2>3, FilesEdited DEF DeleteRunLock, dirs
  <2>4. CASE DeleteRename(t)
    <3> DEFINE free == [live[run[t]] EXCEPT !.lock = "free"]
    <3>1. /\ run[t] \in Runs /\ live[run[t]].exists
      BY <1>0, <2>4 DEF DeleteRename, Assigned, LockOwned, Deleting
    <3>2. /\ free \in Directory /\ free.exists
          /\ free.launch = live[run[t]].launch /\ free.status = live[run[t]].status
      BY <1>0, <3>1, FilesEdited
    <3>3. NoDir.status = "none"
      BY DEF NoDir
    <3>4. \/ /\ live' = [live EXCEPT ![run[t]] = free] /\ UNCHANGED arch
          \/ /\ live' = [live EXCEPT ![run[t]] = NoDir] /\ arch' = [arch EXCEPT ![run[t]] = free]
             /\ ~arch[run[t]].exists
      BY <2>4 DEF DeleteRename
    <3> HIDE DEF free
    <3>5. CASE live' = [live EXCEPT ![run[t]] = free] /\ UNCHANGED arch
      BY <1>0, <1>1, <3>1, <3>2, <3>5
    <3>6. CASE live' = [live EXCEPT ![run[t]] = NoDir] /\ arch' = [arch EXCEPT ![run[t]] = free]
      BY <1>0, <3>1, <3>2, <3>3, <3>6 DEF DirsKept, Open
    <3> QED
      BY <3>4, <3>5, <3>6
  <2> QED
    BY <1>9, <2>1, <2>2, <2>3, <2>4 DEF DeleteStep, DeleteArchive, DeleteReread, dirs
<1>10. ASSUME NEW t \in Threads, Request(t) \/ ListProbe(t) PROVE DirsKept
  BY <1>4, <1>10 DEF Request, ListProbe, Start, Record, Stop, Delete, List
<1>11. ASSUME NEW r \in Runs, Worker(r) PROVE DirsKept
  <2>1. CASE UNCHANGED dirs
    BY <1>4, <2>1
  <2>2. CASE PutRequest(r)
    BY <1>0, <1>2, <2>2, FilesEdited DEF PutRequest
  <2>3. CASE TakeRunLock(r) /\ ~UNCHANGED dirs
    BY <1>0, <1>2, <2>3, FilesEdited DEF TakeRunLock, dirs
  <2>4. CASE Claim(r) /\ ~UNCHANGED dirs
    BY <1>0, <1>2, <2>4, FilesEdited DEF Claim, dirs
  <2>5. CASE FirstStatus(r)
    BY <1>0, <1>3, <2>5 DEF FirstStatus, Statuses, Open
  <2>6. CASE PutInterrupted(r)
    BY <1>0, <1>3, <2>6 DEF PutInterrupted, Statuses, Become, Early
  <2>7. CASE PutResult(r)
    BY <1>0, <1>2, <2>7, FilesEdited DEF PutResult
  <2>8. CASE PutFinal(r)
    <3>1. PICK st \in {"completed", "failed_closed"} : PutStatus(r, st)
      BY <2>8 DEF PutFinal
    <3> QED
      BY <1>0, <1>3, <2>8, <3>1 DEF PutFinal, Statuses, Become, Early
  <2>9. CASE Exit(r)
    BY <1>5, <2>9 DEF Exit
  <2> QED
    BY <1>11, <2>1, <2>2, <2>3, <2>4, <2>5, <2>6, <2>7, <2>8, <2>9
       DEF Worker, Boot, Snapshot, Arm, Train, dirs
<1>12. ASSUME NEW r \in Runs, KillWorker(r) PROVE DirsKept
  BY <1>5, <1>12 DEF KillWorker
<1>13. CASE CrashServer
  <2>1. UNCHANGED arch
    BY <1>13 DEF CrashServer
  <2>2. ASSUME NEW r \in Runs
        PROVE  /\ live'[r].exists = live[r].exists
               /\ live'[r].launch = live[r].launch
               /\ live'[r].status = live[r].status
    <3>1. live[r] \in Directory
      BY <1>0
    <3>2. live'[r] = [live[r] EXCEPT !.lock = IF live[r].lock = "delete" THEN "free"
                                              ELSE live[r].lock]
      BY <1>13 DEF CrashServer
    <3> QED
      BY <3>1, <3>2 DEF Directory
  <2> QED
    BY <1>1, <2>1, <2>2
<1>14. CASE UNCHANGED vars
  BY <1>4, <1>14 DEF vars
<1> QED
  BY <1>6, <1>7, <1>8, <1>9, <1>10, <1>11, <1>12, <1>13, <1>14 DEF Next

\* What a step does to the workers: only Popen starts one, and the phases of a
\* training are left for good.
LEMMA WorkerStep ==
  ASSUME TypeOK, Assigned, [Next]_vars, NEW r \in Runs
  PROVE  \/ /\ Training(r)' => Training(r)
            /\ wpc'[r] \in Early => wpc[r] \in Early
            /\ wpc[r] = "none" => wpc'[r] = "none"
         \/ \E t \in Threads : Popen(t) /\ pc'[t] = "launch" /\ run[t] = r /\ UNCHANGED locals
<1> DEFINE Ages == /\ Training(r)' => Training(r)
                   /\ wpc'[r] \in Early => wpc[r] \in Early
                   /\ wpc[r] = "none" => wpc'[r] = "none"
<1>0. wpc \in [Runs -> WorkerLabels] /\ pc \in [Threads -> ThreadLabels]
  BY DEF TypeOK
<1>1. ASSUME UNCHANGED wpc PROVE Ages
  BY <1>1 DEF Training
<1>2. ASSUME NEW q \in Runs, Die(q), wpc[q] # "none" PROVE Ages
  BY <1>0, <1>2 DEF Die, Training, Early
<1>3. ASSUME NEW t \in Threads, StartStep(t) PROVE Ages \/ Popen(t)
  BY <1>1, <1>3
     DEF StartStep, StartList, AdmitRead, AdmitProbe, CreateRun, WriteRequest, Launch
<1>4. ASSUME NEW t \in Threads, Popen(t)
      PROVE  Ages \/ (pc'[t] = "launch" /\ run[t] = r /\ UNCHANGED locals)
  <2>1. CASE UNCHANGED wpc
    BY <1>1, <2>1
  <2>2. CASE wpc' = [wpc EXCEPT ![run[t]] = "boot"] /\ Goto(t, "launch") /\ UNCHANGED locals
    <3>1. CASE run[t] = r
      BY <1>0, <2>2, <3>1 DEF Goto
    <3>2. CASE run[t] # r
      BY <1>0, <2>2, <3>2 DEF Training
    <3> QED
      BY <3>1, <3>2
  <2> QED
    BY <1>4, <2>1, <2>2 DEF Popen
<1>5. ASSUME NEW t \in Threads, StopStep(t) PROVE Ages
  <2>1. CASE StopProbe(t)
    BY <1>1, <2>1 DEF StopProbe
  <2>2. CASE Terminate(t)
    BY <1>0, <1>1, <1>2, <2>2 DEF Terminate, Alive, Training, Early, Assigned
  <2> QED
    BY <1>5, <2>1, <2>2 DEF StopStep
<1>6. ASSUME NEW t \in Threads, RecordStep(t) \/ DeleteStep(t) \/ Request(t) \/ ListProbe(t)
      PROVE  Ages
  BY <1>1, <1>6
     DEF RecordStep, RecordLock, RecordArchived, RecordState, RecordPublish, DeleteStep,
         DeleteCheck, DeleteArchive, DeleteRunLock, DeleteReread, DeleteRename, Request, Start,
         Record, Stop, Delete, List, ListProbe
<1>7. ASSUME NEW q \in Runs, Worker(q) PROVE Ages
  <2>1. CASE Exit(q)
    BY <1>2, <2>1 DEF Exit
  <2>2. CASE Boot(q) \/ PutRequest(q) \/ TakeRunLock(q) \/ Claim(q) \/ Snapshot(q)
    BY <1>0, <2>2 DEF Boot, PutRequest, TakeRunLock, Claim, Snapshot, Become, Training, Early
  <2>3. CASE FirstStatus(q) \/ Arm(q) \/ Train(q) \/ PutInterrupted(q) \/ PutResult(q) \/ PutFinal(q)
    BY <1>0, <2>3
       DEF FirstStatus, Arm, Train, PutInterrupted, PutResult, PutFinal, Become, Training, Early
  <2> QED
    BY <1>7, <2>1, <2>2, <2>3 DEF Worker
<1>8. ASSUME NEW q \in Runs, KillWorker(q) PROVE Ages
  BY <1>2, <1>8 DEF KillWorker, Alive
<1>9. CASE CrashServer \/ UNCHANGED vars
  BY <1>1, <1>9 DEF CrashServer, vars
<1> QED
  BY <1>3, <1>4, <1>5, <1>6, <1>7, <1>8, <1>9 DEF Next

Still(t) ==
  /\ pc'[t] = pc[t] /\ run'[t] = run[t] /\ at'[t] = at[t] /\ seen'[t] = seen[t]
  /\ left'[t] = left[t]

\* The thread that takes a step is the only one that moves.
LEMMA OthersStill ==
  ASSUME TypeOK, NEW s \in Threads, NEW t \in Threads, t # s,
         \/ Request(s) \/ StartStep(s) \/ RecordStep(s) \/ StopStep(s) \/ DeleteStep(s)
         \/ ListProbe(s)
  PROVE  Still(t)
<1>0. /\ pc \in [Threads -> ThreadLabels] /\ run \in [Threads -> Runs \union {NoRun}]
      /\ at \in [Threads -> Runs \union {NoRun}]
      /\ seen \in [Threads -> Directory] /\ left \in [Threads -> SUBSET Runs]
  BY DEF TypeOK
<1>1. ASSUME Reply(s) PROVE Still(t)
  BY <1>0, <1>1 DEF Reply, Goto, Still
<1>2. ASSUME NEW l, NEW r, Read(s, r, l), UNCHANGED <<run, left>> PROVE Still(t)
  BY <1>0, <1>2 DEF Read, Goto, Still
<1>3. ASSUME NEW l, Goto(s, l), UNCHANGED locals PROVE Still(t)
  BY <1>0, <1>3 DEF Goto, Still, locals
<1>4. CASE Request(s)
  BY <1>0, <1>4 DEF Request, Start, Record, Stop, Delete, List, Accept, Read, Goto, Still
<1>5. CASE StartStep(s)
  <2>1. CASE StartList(s)
    BY <1>0, <2>1 DEF StartList, Goto, Still
  <2>2. CASE AdmitRead(s)
    BY <1>2, <2>2 DEF AdmitRead
  <2>3. CASE AdmitProbe(s)
    BY <1>0, <1>1, <2>3 DEF AdmitProbe, Goto, Still
  <2>4. CASE CreateRun(s) \/ WriteRequest(s)
    BY <1>3, <2>4 DEF CreateRun, WriteRequest
  <2>5. CASE Popen(s) \/ Launch(s)
    BY <1>1, <1>3, <2>5 DEF Popen, Launch
  <2> QED
    BY <1>5, <2>1, <2>2, <2>3, <2>4, <2>5 DEF StartStep
<1>6. CASE RecordStep(s) \/ StopStep(s)
  BY <1>1, <1>3, <1>6
     DEF RecordStep, RecordLock, RecordArchived, RecordState, RecordPublish, StopStep, StopProbe,
         Terminate
<1>7. CASE DeleteStep(s) \/ ListProbe(s)
  BY <1>1, <1>2, <1>3, <1>7
     DEF DeleteStep, DeleteCheck, DeleteArchive, DeleteRunLock, DeleteReread, DeleteRename, ListProbe
<1> QED
  BY <1>4, <1>5, <1>6, <1>7

\* A thread in start has just arrived, takes a step of start, or has not moved.
LEMMA StartMoves ==
  ASSUME TypeOK, Assigned, [Next]_vars, NEW t \in Threads, pc'[t] \in StartLabels
  PROVE  Still(t) \/ Start(t) \/ StartStep(t)
<1>0. pc \in [Threads -> ThreadLabels]
  BY DEF TypeOK
<1>1. ASSUME NEW l, l \notin StartLabels, Goto(t, l) PROVE FALSE
  BY <1>0, <1>1 DEF Goto
<1>2. /\ "idle" \notin StartLabels /\ "record" \notin StartLabels /\ "archived" \notin StartLabels
      /\ "state" \notin StartLabels /\ "publish" \notin StartLabels /\ "stop" \notin StartLabels
      /\ "stop2" \notin StartLabels /\ "term" \notin StartLabels /\ "list" \notin StartLabels
      /\ "check" \notin StartLabels /\ "archive" \notin StartLabels /\ "runlock" \notin StartLabels
      /\ "reread" \notin StartLabels /\ "recheck" \notin StartLabels /\ "rename" \notin StartLabels
  BY DEF StartLabels
<1>3. ASSUME Request(t) PROVE Start(t)
  BY <1>1, <1>2, <1>3 DEF Request, Record, Stop, Delete, List, Read
<1>4. ASSUME RecordStep(t) \/ StopStep(t) PROVE FALSE
  BY <1>1, <1>2, <1>4
     DEF RecordStep, RecordLock, RecordArchived, RecordState, RecordPublish, StopStep, StopProbe,
         Terminate, Reply
<1>5. ASSUME DeleteStep(t) \/ ListProbe(t) PROVE FALSE
  BY <1>1, <1>2, <1>5
     DEF DeleteStep, DeleteCheck, DeleteArchive, DeleteRunLock, DeleteReread, DeleteRename,
         ListProbe, Read, Reply
<1>6. ASSUME NEW s \in Threads, s # t,
             \/ Request(s) \/ StartStep(s) \/ RecordStep(s) \/ StopStep(s) \/ DeleteStep(s)
             \/ ListProbe(s)
      PROVE  Still(t)
  BY <1>6, OthersStill
<1>7. ASSUME NEW r \in Runs, Worker(r) \/ KillWorker(r) PROVE Still(t)
  BY <1>7 DEF Worker, Boot, PutRequest, TakeRunLock, Claim, Snapshot, FirstStatus, Arm, Train,
     PutInterrupted, PutResult, PutFinal, Exit, KillWorker, Still, locals
<1>8. CASE CrashServer
  BY <1>2, <1>8 DEF CrashServer
<1>9. CASE UNCHANGED vars
  BY <1>9 DEF vars, locals, Still
<1> QED
  BY <1>3, <1>4, <1>5, <1>6, <1>7, <1>8, <1>9 DEF Next

\* workspace.lock belongs to the thread whose label needs it.
LEMMA LockStep == TypeOK /\ Assigned /\ Locked /\ [Next]_vars => Locked'
<1> SUFFICES ASSUME TypeOK, Assigned, Locked, [Next]_vars PROVE Locked'
  OBVIOUS
<1>0. pc \in [Threads -> ThreadLabels] /\ NoThread \notin Threads
  BY LstmAssumption DEF TypeOK
<1>1. ASSUME NEW s \in Threads, \A t \in Threads : t # s => pc'[t] = pc[t],
             \/ lock' = lock
             \/ lock = NoThread /\ lock' = s
             \/ lock' = NoThread /\ pc[s] \in Critical,
             pc'[s] \in Critical => lock' = s
      PROVE  Locked'
  BY <1>0, <1>1 DEF Locked
<1>2. ASSUME NEW s \in Threads,
             \/ Request(s) \/ StartStep(s) \/ RecordStep(s) \/ StopStep(s) \/ DeleteStep(s)
             \/ ListProbe(s)
      PROVE  \A t \in Threads : t # s => pc'[t] = pc[t]
  BY <1>2, OthersStill DEF Still
<1>3. ASSUME NEW s \in Threads, Request(s) PROVE Locked'
  <2>1. lock' = lock /\ pc'[s] \notin Critical
    BY <1>0, <1>3 DEF Request, Start, Record, Stop, Delete, List, Read, Goto, Critical
  <2> QED
    BY <1>1, <1>2, <1>3, <2>1
<1>4. ASSUME NEW s \in Threads, StartStep(s) PROVE Locked'
  <2>1. CASE StartList(s)
    BY <1>0, <1>1, <1>2, <1>4, <2>1 DEF StartList, Acquire, Goto, Critical
  <2>2. CASE ~StartList(s)
    <3>1. pc[s] \in Critical
      BY <1>4, <2>2 DEF StartStep, AdmitRead, AdmitProbe, CreateRun, WriteRequest, Popen, Launch,
         Critical
    <3>2. lock = s
      BY <3>1 DEF Locked
    <3>3. lock' = lock \/ (lock' = NoThread /\ pc'[s] = "idle")
      BY <1>0, <1>4, <2>2
         DEF StartStep, AdmitRead, AdmitProbe, CreateRun, WriteRequest, Popen, Launch, Reply, Goto
    <3>4. "idle" \notin Critical
      BY DEF Critical
    <3> QED
      BY <1>1, <1>2, <1>4, <3>1, <3>2, <3>3, <3>4
  <2> QED
    BY <2>1, <2>2
<1>5. ASSUME NEW s \in Threads, RecordStep(s) PROVE Locked'
  <2>1. CASE RecordLock(s)
    BY <1>0, <1>1, <1>2, <1>5, <2>1 DEF RecordLock, Acquire, Goto, Critical
  <2>2. CASE ~RecordLock(s)
    <3>1. pc[s] \in Critical
      BY <1>5, <2>2 DEF RecordStep, RecordArchived, RecordState, RecordPublish, Critical
    <3>2. lock = s
      BY <3>1 DEF Locked
    <3>3. lock' = lock \/ (lock' = NoThread /\ pc'[s] = "idle")
      BY <1>0, <1>5, <2>2 DEF RecordStep, RecordArchived, RecordState, RecordPublish, Reply, Goto
    <3>4. "idle" \notin Critical
      BY DEF Critical
    <3> QED
      BY <1>1, <1>2, <1>5, <3>1, <3>2, <3>3, <3>4
  <2> QED
    BY <2>1, <2>2
<1>6. ASSUME NEW s \in Threads, StopStep(s) \/ DeleteStep(s) \/ ListProbe(s) PROVE Locked'
  <2>1. lock' = lock
    BY <1>6 DEF StopStep, StopProbe, Terminate, DeleteStep, DeleteCheck, DeleteArchive,
       DeleteRunLock, DeleteReread, DeleteRename, ListProbe
  <2>2. pc'[s] \notin Critical
    BY <1>0, <1>6
       DEF StopStep, StopProbe, Terminate, DeleteStep, DeleteCheck, DeleteArchive, DeleteRunLock,
           DeleteReread, DeleteRename, ListProbe, Read, Reply, Goto, Critical
  <2> QED
    BY <1>1, <1>2, <1>6, <2>1, <2>2
<1>7. ASSUME NEW r \in Runs, Worker(r) \/ KillWorker(r) PROVE Locked'
  BY <1>7 DEF Worker, Boot, PutRequest, TakeRunLock, Claim, Snapshot, FirstStatus, Arm, Train,
     PutInterrupted, PutResult, PutFinal, Exit, KillWorker, Locked
<1>8. CASE CrashServer
  BY <1>8 DEF CrashServer, Locked, Critical
<1>9. CASE UNCHANGED vars
  BY <1>9 DEF vars, Locked
<1> QED
  BY <1>3, <1>4, <1>5, <1>6, <1>7, <1>8, <1>9 DEF Next

\* A thread that stays in start keeps its job, and leaves launch only to reply.
LEMMA StartKeeps ==
  ASSUME TypeOK, Assigned, [Next]_vars, NEW t \in Threads, pc'[t] \in StartLabels, ~Start(t)
  PROVE  /\ pc[t] \in StartLabels /\ run'[t] = run[t]
         /\ pc[t] = "launch" => pc'[t] = "launch"
<1>0. pc \in [Threads -> ThreadLabels]
  BY DEF TypeOK
<1>1. CASE Still(t)
  BY <1>1 DEF Still
<1>2. CASE StartStep(t)
  BY <1>0, <1>2
     DEF StartStep, StartList, AdmitRead, AdmitProbe, CreateRun, WriteRequest, Popen, Launch, Read,
         Reply, Goto, StartLabels, locals
<1> QED
  BY <1>1, <1>2, StartMoves

\* Between Popen and launch.sqlite3 the server does not crash.
LEMMA LaunchMoves ==
  ASSUME TypeOK, Assigned, [JobsNext]_vars, NEW t \in Threads, pc[t] = "launch"
  PROVE  Still(t) \/ Launch(t)
<1>1. ASSUME NEW s \in Threads, s # t,
             \/ Request(s) \/ StartStep(s) \/ RecordStep(s) \/ StopStep(s) \/ DeleteStep(s)
             \/ ListProbe(s)
      PROVE  Still(t)
  BY <1>1, OthersStill
<1>2. ASSUME NEW r \in Runs, Worker(r) \/ KillWorker(r) PROVE Still(t)
  BY <1>2 DEF Worker, Boot, PutRequest, TakeRunLock, Claim, Snapshot, FirstStatus, Arm, Train,
     PutInterrupted, PutResult, PutFinal, Exit, KillWorker, Still, locals
<1>3. ASSUME Request(t) \/ StartStep(t) PROVE Launch(t)
  BY <1>3 DEF Request, Start, Record, Stop, Delete, List, Accept, StartStep, StartList, AdmitRead,
     AdmitProbe, CreateRun, WriteRequest, Popen
<1>4. ASSUME RecordStep(t) \/ StopStep(t) \/ DeleteStep(t) \/ ListProbe(t) PROVE FALSE
  BY <1>4 DEF RecordStep, RecordLock, RecordArchived, RecordState, RecordPublish, StopStep,
     StopProbe, Terminate, DeleteStep, DeleteCheck, DeleteArchive, DeleteRunLock, DeleteReread,
     DeleteRename, ListProbe
<1>5. ASSUME CrashServer, JobsNext PROVE FALSE
  <2>1. faults'.crashes = faults.crashes + 1 /\ faults.crashes \in Nat
    BY <1>5 DEF CrashServer, TypeOK
  <2> QED
    BY <1>5, <2>1 DEF JobsNext
<1>6. CASE UNCHANGED vars
  BY <1>6 DEF vars, locals, Still
<1> QED
  BY <1>1, <1>2, <1>3, <1>4, <1>5, <1>6 DEF JobsNext, Next

\* Under workspace.lock no other thread starts a worker.
LEMMA NoneStarts ==
  ASSUME TypeOK, Assigned, Locked, [Next]_vars, NEW t \in Threads,
         pc[t] \in {"admit", "probe", "reserve", "popen"}, ~Popen(t), NEW r \in Runs, Training(r)'
  PROVE  Training(r)
<1>1. ASSUME NEW s \in Threads, Popen(s) PROVE FALSE
  <2>1. lock = s /\ lock = t
    BY <1>1 DEF Locked, Critical, Popen
  <2> QED
    BY <1>1, <2>1
<1> QED
  BY <1>1, WorkerStep

\* A ps that answers shows a job that admission has judged active.
LEMMA ProbeAnswers ==
  ASSUME TypeOK, NEW t \in Threads, NEW matches \in BOOLEAN, Probe(t, matches),
         faults'.probes = faults.probes
  PROVE  matches = (PidKnown(seen[t]) /\ SeedKnown(seen[t]) /\ Alive(at[t]))
<1>1. ASSUME faults' = [faults EXCEPT !.probes = @ + 1] PROVE FALSE
  <2>1. faults'.probes = faults.probes + 1 /\ faults.probes \in Nat
    BY <1>1 DEF TypeOK
  <2> QED
    BY <2>1
<1> QED
  BY <1>1 DEF Probe

-----------------------------------------------------------------------------
\* Each part of AInv is kept by a step between states that keep the running
\* jobs out of the archive.
StepContext ==
  /\ LInv /\ AInv /\ [JobsNext]_vars /\ [Next]_vars
  /\ LInv' /\ RunningNotDeleted' /\ DirsKept

\* A final status is written after the training only.
LEMMA UnendedStep == StepContext => Unended'
<1> SUFFICES ASSUME StepContext, NEW r \in Trainings, wpc'[r] \in Early
             PROVE  live'[r].status \in Open
  BY DEF Unended
<1>1. /\ TypeOK /\ Assigned /\ [Next]_vars /\ r \in Runs /\ NotYet
      /\ wpc[r] \in Early => live[r].status \in Open
      /\ live[r].status \in Open => live'[r].status \in Open
  BY DEF StepContext, LInv, AInv, Unended, DirsKept, Runs
<1>2. ASSUME NEW t \in Threads, Popen(t), run[t] = r PROVE wpc[r] \in Early
  BY <1>1, <1>2 DEF NotYet, Popen, StartLabels, Early
<1> QED
  BY <1>1, <1>2, WorkerStep

\* Two starts never share a job: a new job is one that no thread works on.
LEMMA DistinctStep == StepContext => Distinct'
<1> SUFFICES ASSUME StepContext, NEW s \in Threads, NEW t \in Threads,
                    pc'[s] \in StartLabels, pc'[t] \in StartLabels, run'[s] = run'[t], s # t
             PROVE  FALSE
  BY DEF Distinct
<1>1. TypeOK /\ Assigned /\ [Next]_vars /\ Distinct
  BY DEF StepContext, LInv, AInv
<1>2. ASSUME NEW a \in Threads, NEW b \in Threads, a # b, Start(a), run'[a] = run'[b] PROVE FALSE
  <2>1. run'[b] = run[b]
    BY <1>1, <1>2, OthersStill DEF Request, Still
  <2>2. PICK r \in Trainings : (\A q \in Threads : run[q] # r) /\ Accept(a, "start", r)
    BY <1>2 DEF Start
  <2>3. run'[a] = r
    BY <1>1, <2>2 DEF Accept, TypeOK
  <2> QED
    BY <1>2, <2>1, <2>2, <2>3
<1>3. ~Start(s) /\ ~Start(t)
  BY <1>2
<1> QED
  BY <1>1, <1>3, StartKeeps DEF Distinct

\* Only its own start starts a worker.
LEMMA NotYetStep == StepContext => NotYet'
<1> SUFFICES ASSUME StepContext, NEW t \in Threads, pc'[t] \in StartLabels \ {"launch"}
             PROVE  wpc'[run'[t]] = "none"
  BY DEF NotYet
<1>1. TypeOK /\ Assigned /\ [Next]_vars /\ Distinct /\ NotYet
  BY DEF StepContext, LInv, AInv
<1>2. CASE Start(t)
  BY <1>1, <1>2 DEF Start, Accept, TypeOK
<1>3. CASE ~Start(t)
  <2>1. pc[t] \in StartLabels \ {"launch"} /\ run'[t] = run[t]
    BY <1>1, <1>3, StartKeeps DEF StartLabels
  <2>2. wpc[run[t]] = "none" /\ run[t] \in Runs
    BY <1>1, <2>1 DEF NotYet, Assigned, Runs
  <2>3. ASSUME NEW s \in Threads, Popen(s), pc'[s] = "launch", run[s] = run[t] PROVE FALSE
    <3>1. pc[s] \in StartLabels
      BY <2>3 DEF Popen, StartLabels
    <3>2. s = t
      BY <1>1, <2>1, <2>3, <3>1 DEF Distinct
    <3> QED
      BY <2>3, <3>2
  <2> QED
    BY <1>1, <2>1, <2>2, <2>3, WorkerStep
<1> QED
  BY <1>2, <1>3

\* The launch record of a job that trains is not lost, for its directory is not
\* moved and the server does not crash before it is written.
LEMMA RecordedStep == StepContext => Recorded'
<1> SUFFICES ASSUME StepContext, NEW r \in Runs, Training(r)'
             PROVE  /\ live'[r].exists
                    /\ live'[r].launch \/ \E t \in Threads : pc'[t] = "launch" /\ run'[t] = r
  BY DEF Recorded
<1>1. /\ TypeOK /\ Assigned /\ [Next]_vars /\ [JobsNext]_vars /\ Recorded /\ Cleared
      /\ ~arch'[r].exists /\ wpc'[r] # "none"
  BY DEF StepContext, LInv, AInv, RunningNotDeleted, Training
<1>2. r \in Trainings
  BY <1>1 DEF StepContext, LInv, NoWorker, Runs
<1>3. /\ ~arch[r].exists
      /\ live[r].exists => live'[r].exists
      /\ live[r].launch => live'[r].launch
  BY <1>1, <1>2 DEF StepContext, DirsKept
<1>4. CASE Training(r)
  <2>1. live'[r].exists
    BY <1>1, <1>3, <1>4 DEF Recorded
  <2>2. ASSUME NEW t \in Threads, pc[t] = "launch", run[t] = r
        PROVE  live'[r].launch \/ (pc'[t] = "launch" /\ run'[t] = r)
    <3>1. CASE Still(t)
      BY <2>2, <3>1 DEF Still
    <3>2. CASE Launch(t)
      <4>1. live \in [Runs -> Directory] /\ live[r] \in Directory
        BY <1>1 DEF TypeOK
      <4>2. Put(r, [live[r] EXCEPT !.launch = TRUE])
        BY <2>2, <3>2 DEF Launch
      <4>3. [live[r] EXCEPT !.launch = TRUE] \in Directory /\ [live[r] EXCEPT !.launch = TRUE].launch
        BY <4>1, FilesEdited
      <4> DEFINE f == [live[r] EXCEPT !.launch = TRUE]
      <4>4. f \in Directory /\ f.launch /\ Put(r, f)
        BY <4>2, <4>3
      <4> HIDE DEF f
      <4> QED
        BY <4>1, <4>4, LaunchKept
    <3> QED
      BY <1>1, <2>2, <3>1, <3>2, LaunchMoves
  <2> QED
    BY <1>1, <1>3, <1>4, <2>1, <2>2 DEF Recorded
<1>5. ASSUME NEW t \in Threads, Popen(t), pc'[t] = "launch", run[t] = r, UNCHANGED locals
      PROVE  live'[r].exists /\ pc'[t] = "launch" /\ run'[t] = r
  BY <1>1, <1>3, <1>5 DEF Cleared, Popen, locals
<1> QED
  BY <1>1, <1>4, <1>5, WorkerStep

\* Admission passes over no job of its ticker that trains.
LEMMA AdmittingStep == StepContext => Admitting'
<1> SUFFICES ASSUME StepContext, NEW t \in Threads, pc'[t] \in {"admit", "probe"},
                    NEW r \in Trainings, Training(r)', Ticker[r] = Ticker[run'[t]]
             PROVE  r \in left'[t]
  BY DEF Admitting
<1>1. /\ TypeOK /\ Assigned /\ [Next]_vars /\ [JobsNext]_vars /\ Locked
      /\ Admitting /\ Judged /\ Recorded /\ r \in Runs
  BY DEF StepContext, LInv, AInv, Runs
<1>2. /\ pc \in [Threads -> ThreadLabels] /\ run \in [Threads -> Runs \union {NoRun}]
      /\ left \in [Threads -> SUBSET Runs]
  BY <1>1 DEF TypeOK
<1>3. CASE Still(t)
  <2>1. Training(r)
    BY <1>1, <1>3, NoneStarts DEF Still, Popen
  <2> QED
    BY <1>1, <1>3, <2>1 DEF Still, Admitting
<1>4. CASE StartList(t)
  BY <1>1, <1>2, <1>4 DEF StartList, Training, Recorded
<1>5. CASE AdmitRead(t)
  BY <1>1, <1>2, <1>5 DEF AdmitRead, Training, Admitting
<1>6. CASE AdmitProbe(t)
  <2>1. PICK matches \in BOOLEAN :
          /\ Probe(t, matches)
          /\ LET conflict == Active(seen[t], matches) /\ Ticker[at[t]] = Ticker[run[t]]
             IN  \/ conflict /\ Reply(t) /\ lock' = NoThread
                 \/ /\ ~conflict
                    /\ Goto(t, "admit")
                    /\ left' = [left EXCEPT ![t] = @ \ {at[t]}]
                    /\ UNCHANGED <<lock, run, at, seen>>
    BY <1>6 DEF AdmitProbe
  <2>2. ~Reply(t)
    BY <1>2 DEF Reply, Goto
  <2>3. /\ ~(Active(seen[t], matches) /\ Ticker[at[t]] = Ticker[run[t]])
        /\ left'[t] = left[t] \ {at[t]} /\ run' = run
    BY <1>2, <2>1, <2>2
  <2>4. pc[t] = "probe" /\ Training(r)
    BY <1>6 DEF AdmitProbe, Training
  <2>5. faults'.probes = faults.probes
    BY <1>1 DEF JobsNext, vars
  <2>6. matches = (PidKnown(seen[t]) /\ SeedKnown(seen[t]) /\ Alive(at[t]))
    BY <1>1, <2>1, <2>5, ProbeAnswers
  <2>7. ASSUME r = at[t] PROVE FALSE
    <3>1. seen[t].launch /\ seen[t].status \in Open
      BY <1>1, <2>4, <2>7 DEF Judged
    <3>2. matches
      BY <2>4, <2>6, <2>7, <3>1 DEF PidKnown, SeedKnown, Alive, Training
    <3> QED
      BY <2>3, <2>7, <3>1, <3>2 DEF Active, Open
  <2> QED
    BY <1>1, <2>3, <2>4, <2>7 DEF Admitting
<1>7. ASSUME Start(t) \/ CreateRun(t) \/ WriteRequest(t) \/ Popen(t) \/ Launch(t) PROVE FALSE
  BY <1>2, <1>7 DEF Start, CreateRun, WriteRequest, Popen, Launch, Reply, Goto
<1>8. pc'[t] \in StartLabels
  BY DEF StartLabels
<1> QED
  BY <1>1, <1>3, <1>4, <1>5, <1>6, <1>7, <1>8, StartMoves DEF StartStep

\* What admission reads of a job that trains is its launch record.
LEMMA JudgedStep == StepContext => Judged'
<1> SUFFICES ASSUME StepContext, NEW t \in Threads, pc'[t] = "probe", Training(at[t])'
             PROVE  seen'[t].launch /\ seen'[t].status \in Open
  BY DEF Judged, Training
<1>1. /\ TypeOK /\ Assigned /\ [Next]_vars /\ Locked /\ Judged /\ Recorded /\ Unended
      /\ NoWorker
  BY DEF StepContext, LInv, AInv
<1>2. /\ pc \in [Threads -> ThreadLabels] /\ at \in [Threads -> Runs \union {NoRun}]
      /\ seen \in [Threads -> Directory]
  BY <1>1 DEF TypeOK
<1>3. CASE Still(t)
  <2>1. pc[t] = "probe" /\ at'[t] = at[t] /\ at[t] \in Runs
    BY <1>1, <1>3 DEF Still, Assigned
  <2>2. Training(at[t])
    BY <1>1, <2>1, NoneStarts DEF Popen, Training
  <2> QED
    BY <1>1, <1>3, <2>1, <2>2 DEF Still, Judged
<1>4. CASE AdmitRead(t)
  <2>1. PICK r \in left[t] : Read(t, r, "probe")
    BY <1>4 DEF AdmitRead
  <2>2. r \in Runs /\ at'[t] = r /\ seen'[t] = live[r] /\ Training(r) /\ pc[t] = "admit"
    BY <1>1, <1>2, <1>4, <2>1 DEF AdmitRead, Read, Training, TypeOK
  <2>3. r \in Trainings
    BY <1>1, <2>2 DEF NoWorker, Training, Runs
  <2>4. ASSUME NEW s \in Threads, pc[s] = "launch" PROVE FALSE
    BY <1>1, <2>2, <2>4 DEF Locked, Critical
  <2>5. live[r].launch
    BY <1>1, <2>2, <2>4 DEF Recorded
  <2>6. live[r].status \in Open
    BY <1>1, <2>2, <2>3 DEF Unended, Training, Early
  <2> QED
    BY <2>2, <2>5, <2>6
<1>5. ASSUME \/ Start(t) \/ StartList(t) \/ AdmitProbe(t) \/ CreateRun(t) \/ WriteRequest(t)
             \/ Popen(t) \/ Launch(t)
      PROVE  FALSE
  BY <1>2, <1>5
     DEF Start, StartList, AdmitProbe, CreateRun, WriteRequest, Popen, Launch, Reply, Goto
<1>6. pc'[t] \in StartLabels
  BY DEF StartLabels
<1> QED
  BY <1>1, <1>3, <1>4, <1>5, <1>6, StartMoves DEF StartStep

\* Admission ends when no job of the ticker is left that could train.
LEMMA ClearedStep == StepContext => Cleared'
<1> SUFFICES ASSUME StepContext, NEW t \in Threads, pc'[t] \in {"reserve", "popen"}
             PROVE  /\ live'[run'[t]].exists \/ arch'[run'[t]].exists
                    /\ \A r \in Trainings : Training(r)' => Ticker[r] # Ticker[run'[t]]
  BY DEF Cleared
<1>1. /\ TypeOK /\ Assigned /\ [Next]_vars /\ Locked /\ Admitting /\ Cleared /\ DirsKept
      /\ Trainings \subseteq Runs
  BY DEF StepContext, LInv, AInv, Runs
<1>2. /\ pc \in [Threads -> ThreadLabels] /\ left \in [Threads -> SUBSET Runs]
      /\ live \in [Runs -> Directory]
  BY <1>1 DEF TypeOK
<1>3. CASE Still(t) /\ ~Popen(t)
  <2>1. pc[t] \in {"reserve", "popen"} /\ run'[t] = run[t] /\ run[t] \in Runs
    BY <1>1, <1>3 DEF Still, Assigned
  <2>2. \A r \in Trainings : Training(r)' => Training(r)
    BY <1>1, <1>3, <2>1, NoneStarts
  <2>3. live'[run[t]].exists \/ arch'[run[t]].exists
    BY <1>1, <2>1 DEF Cleared, DirsKept
  <2> QED
    BY <1>1, <2>1, <2>2, <2>3 DEF Cleared
<1>4. CASE CreateRun(t)
  <2>1. /\ run[t] \in Runs /\ run'[t] = run[t] /\ pc[t] = "admit" /\ left[t] = {} /\ wpc' = wpc
        /\ Put(run[t], live[run[t]]) /\ live[run[t]] \in Directory
    BY <1>1, <1>2, <1>4 DEF CreateRun, locals, Assigned
  <2>2. live'[run[t]].exists
    BY <1>2, <2>1, LaunchKept
  <2> QED
    BY <1>1, <2>1, <2>2 DEF Admitting, Training
<1>5. CASE WriteRequest(t)
  <2>1. /\ run[t] \in Runs /\ run'[t] = run[t] /\ pc[t] = "reserve" /\ wpc' = wpc
        /\ Put(run[t], [live[run[t]] EXCEPT !.request = TRUE]) /\ live[run[t]] \in Directory
    BY <1>1, <1>2, <1>5 DEF WriteRequest, locals, Assigned
  <2>2. live'[run[t]].exists
    BY <1>2, <2>1, LaunchKept, FilesEdited
  <2> QED
    BY <1>1, <2>1, <2>2 DEF Cleared, Training
<1>6. ASSUME \/ Start(t) \/ StartList(t) \/ AdmitRead(t) \/ AdmitProbe(t) \/ Popen(t) \/ Launch(t)
      PROVE  FALSE
  BY <1>2, <1>6 DEF Start, StartList, AdmitRead, AdmitProbe, Popen, Launch, Read, Reply, Goto
<1>7. pc'[t] \in StartLabels
  BY DEF StartLabels
<1> QED
  BY <1>1, <1>3, <1>4, <1>5, <1>6, <1>7, StartMoves DEF StartStep

\* The worker that Popen starts is the only one of its ticker that trains.
LEMMA OneTrainingStep == StepContext => OneTrainingPerTicker'
<1> SUFFICES ASSUME StepContext, NEW a \in Trainings, NEW b \in Trainings,
                    Training(a)', Training(b)', Ticker[a] = Ticker[b], a # b
             PROVE  FALSE
  BY DEF OneTrainingPerTicker
<1>1. /\ TypeOK /\ Assigned /\ [Next]_vars /\ Locked /\ Cleared /\ OneTrainingPerTicker
      /\ Trainings \subseteq Runs
  BY DEF StepContext, LInv, AInv, Runs
<1>2. ASSUME NEW c \in Trainings, NEW d \in Trainings, Training(d)', c # d, Ticker[c] = Ticker[d],
             NEW t \in Threads, Popen(t), run[t] = c
      PROVE  FALSE
  <2>1. ASSUME NEW s \in Threads, Popen(s), run[s] = d PROVE FALSE
    <3>1. lock = s /\ lock = t
      BY <1>1, <1>2, <2>1 DEF Locked, Critical, Popen
    <3> QED
      BY <1>2, <2>1, <3>1
  <2>2. Training(d)
    BY <1>1, <1>2, <2>1, WorkerStep
  <2> QED
    BY <1>1, <1>2, <2>2 DEF Cleared, Popen
<1>3. Training(a) /\ Training(b)
  BY <1>1, <1>2, WorkerStep
<1> QED
  BY <1>1, <1>3 DEF OneTrainingPerTicker

\* AInv is inductive along behaviours that archive no running job.
LEMMA AdmissionStep ==
  LInv /\ AInv /\ RunningNotDeleted' /\ [JobsNext]_vars => LInv' /\ AInv'
<1> SUFFICES ASSUME LInv, AInv, RunningNotDeleted', [JobsNext]_vars PROVE LInv' /\ AInv'
  OBVIOUS
<1>1. [Next]_vars
  BY DEF JobsNext
<1>2. LInv' /\ DirsKept
  BY <1>1, Step, DirStep
<1>3. StepContext
  BY <1>1, <1>2 DEF StepContext
<1>4. Locked'
  BY <1>1, LockStep DEF LInv, AInv
<1> QED
  BY <1>2, <1>3, <1>4, UnendedStep, DistinctStep, NotYetStep, RecordedStep, AdmittingStep,
     JudgedStep, ClearedStep, OneTrainingStep DEF AInv

\* Two workers never train the same ticker at the same time, however many
\* threads start, stop, record and delete jobs, unless a ps fails, the server
\* crashes between Popen and launch.sqlite3, or a job is archived that runs.
THEOREM OneTrainingPerTickerAlways ==
  JobsSpec /\ []RunningNotDeleted => []OneTrainingPerTicker
<1>1. Init => LInv
  BY Initial
<1>2. Init => AInv
  BY DEF Init, AInv, Locked, Critical, Distinct, StartLabels, NotYet, Unended, Open, Recorded,
     Admitting, Judged, Cleared, OneTrainingPerTicker, Training, NoDir, Runs
<1>3. LInv /\ AInv /\ RunningNotDeleted' /\ [JobsNext]_vars => (LInv /\ AInv)'
  BY AdmissionStep
<1>4. AInv => OneTrainingPerTicker
  BY DEF AInv
<1> QED
  BY <1>1, <1>2, <1>3, <1>4, PTL DEF JobsSpec

-----------------------------------------------------------------------------
(***************************************************************************)
(* Requests that do not overlap.  Then the judgement a delete makes under  *)
(* run.lock stays right until it renames the directory, for a worker only  *)
(* starts by a start, and whoever makes a directory has seen that no       *)
(* archive has its name.                                                   *)
(***************************************************************************)

\* The request of thread t is safe to go on alone: a start or a record has seen
\* that no archive has its name; a delete has a directory to delete and, once it
\* has judged the job inactive under run.lock, the job does not train.
RequestSafe(t) ==
  /\ pc[t] \in StartLabels \union {"state", "publish"} => ~arch[run[t]].exists
  /\ pc[t] \in {"check", "archive", "runlock"} \union Deleting => live[run[t]].exists
  /\ pc[t] = "recheck" =>
       /\ at[t] = run[t]
       /\ Training(run[t]) => seen[t].launch /\ seen[t].status \in Open
  /\ pc[t] = "rename" => ~Training(run[t])

\* What holds besides when requests come one at a time.
QInv ==
  /\ OneRequest
  /\ \A t \in Threads : RequestSafe(t)
  /\ RunningNotDeleted
  /\ DeletionAuthoritative
  /\ EvidenceTogether

SerialInv == LInv /\ (serial => AInv /\ QInv)

ThreadStep(t) ==
  \/ Request(t) \/ StartStep(t) \/ RecordStep(t) \/ StopStep(t) \/ DeleteStep(t) \/ ListProbe(t)

\* What may happen while no request moves.
Background == (\E r \in Runs : Worker(r) \/ KillWorker(r)) \/ UNCHANGED vars

\* A step of the behaviours in which requests do not overlap.
AloneContext ==
  /\ LInv /\ AInv /\ QInv /\ [Next]_vars
  /\ OneRequest' /\ ServerSteady

\* The thread that takes a step is alone with its request before and after.
LEMMA AloneStep ==
  ASSUME AloneContext
  PROVE  \/ Background
         \/ \E t \in Threads : ThreadStep(t) /\ \A s \in Threads : s # t => pc'[s] = "idle"
<1>0. TypeOK /\ OneRequest /\ OneRequest' /\ pc \in [Threads -> ThreadLabels]
  BY DEF AloneContext, LInv, QInv, TypeOK
<1>1. ASSUME CrashServer PROVE FALSE
  <2>1. faults'.crashes = faults.crashes + 1 /\ faults.crashes \in Nat
    BY <1>0, <1>1 DEF CrashServer, TypeOK
  <2> QED
    BY <2>1 DEF AloneContext, ServerSteady
<1>2. ASSUME NEW t \in Threads, ThreadStep(t), NEW s \in Threads, s # t PROVE pc'[s] = "idle"
  <2>1. pc'[s] = pc[s]
    BY <1>0, <1>2, OthersStill DEF ThreadStep, Still
  <2>2. ASSUME pc[s] # "idle" PROVE FALSE
    <3>1. pc[t] = "idle"
      BY <1>0, <1>2, <2>2 DEF OneRequest
    <3>2. ASSUME StartStep(t) \/ RecordStep(t) \/ StopStep(t) \/ DeleteStep(t) \/ ListProbe(t)
          PROVE  FALSE
      BY <3>1, <3>2 DEF StartStep, StartList, AdmitRead, AdmitProbe, CreateRun, WriteRequest,
         Popen, Launch, RecordStep, RecordLock, RecordArchived, RecordState, RecordPublish,
         StopStep, StopProbe, Terminate, DeleteStep, DeleteCheck, DeleteArchive, DeleteRunLock,
         DeleteReread, DeleteRename, ListProbe
    <3>3. Request(t)
      BY <1>2, <3>2 DEF ThreadStep
    <3>4. pc'[t] # "idle"
      BY <1>0, <3>3 DEF Request, Start, Record, Stop, Delete, List, Read, Goto
    <3> QED
      BY <1>0, <1>2, <2>1, <2>2, <3>4 DEF OneRequest
  <2> QED
    BY <2>1, <2>2
<1>3. [Next]_vars
  BY DEF AloneContext
<1> QED
  BY <1>1, <1>2, <1>3 DEF Next, ThreadStep, Background

\* Nothing that happens while no request moves touches a request, an archive or
\* the jobs that do not train; nor does it remove a directory.
LEMMA BackgroundStep ==
  ASSUME AloneContext, Background
  PROVE  /\ \A t \in Threads : Still(t)
         /\ UNCHANGED arch
         /\ \A r \in Runs : Training(r)' => Training(r)
<1>0. TypeOK /\ Assigned /\ [Next]_vars
  BY DEF AloneContext, LInv
<1>1. (\A t \in Threads : Still(t)) /\ UNCHANGED <<arch, pc>>
  <2>1. ASSUME NEW r \in Runs, Worker(r) \/ KillWorker(r)
        PROVE  (\A t \in Threads : Still(t)) /\ UNCHANGED <<arch, pc>>
    BY <2>1 DEF Worker, Boot, PutRequest, TakeRunLock, Claim, Snapshot, FirstStatus, Arm, Train,
       PutInterrupted, PutResult, PutFinal, Exit, KillWorker, Still, locals, dirs
  <2>2. CASE UNCHANGED vars
    BY <2>2 DEF vars, dirs, locals, Still
  <2> QED
    BY <2>1, <2>2 DEF Background
<1>2. \A r \in Runs : Training(r)' => Training(r)
  <2>1. \A t \in Threads : ~(Popen(t) /\ pc'[t] = "launch")
    BY <1>1 DEF Popen
  <2> QED
    BY <1>0, <2>1, WorkerStep
<1> QED
  BY <1>1, <1>2

\* The step of the one request: it starts the worker of its own job at most.
LEMMA RequestTraining ==
  ASSUME AloneContext, NEW t \in Threads, \A s \in Threads : s # t => pc'[s] = "idle",
         NEW r \in Runs, Training(r)', ~Training(r)
  PROVE  Popen(t) /\ run[t] = r
<1>0. TypeOK /\ Assigned /\ [Next]_vars
  BY DEF AloneContext, LInv
<1>1. PICK s \in Threads : Popen(s) /\ pc'[s] = "launch" /\ run[s] = r
  BY <1>0, WorkerStep
<1>2. s = t
  BY <1>1
<1> QED
  BY <1>1, <1>2

\* Only delete archives, and what it archives leaves the workspace.
LEMMA ArchiveStep ==
  ASSUME AloneContext, NEW t \in Threads, ThreadStep(t)
  PROVE  \/ UNCHANGED arch /\ ~DeleteRename(t)
         \/ /\ DeleteRename(t) /\ run[t] \in Runs /\ live[run[t]].exists
            /\ live' = [live EXCEPT ![run[t]] = NoDir]
            /\ arch' = [arch EXCEPT ![run[t]] = [live[run[t]] EXCEPT !.lock = "free"]]
<1>1. CASE DeleteRename(t)
  <2>1. pc[t] = "rename"
    BY <1>1 DEF DeleteRename
  <2>2. run[t] \in Runs /\ live[run[t]].exists
    BY <2>1 DEF AloneContext, LInv, QInv, Assigned, RequestSafe, Deleting
  <2>3. ~arch[run[t]].exists
    BY <2>2 DEF AloneContext, QInv, DeletionAuthoritative
  <2> QED
    BY <1>1, <2>2, <2>3 DEF DeleteRename
<1>2. CASE ~DeleteRename(t)
  <2>1. UNCHANGED arch
    <3>1. CASE Request(t) \/ ListProbe(t) \/ StopStep(t)
      BY <3>1 DEF Request, ListProbe, StopStep, Start, Record, Stop, Delete, List, StopProbe,
         Terminate, dirs
    <3>2. CASE StartStep(t) \/ RecordStep(t)
      BY <3>2 DEF StartStep, StartList, AdmitRead, AdmitProbe, CreateRun, WriteRequest, Popen,
         Launch, RecordStep, RecordLock, RecordArchived, RecordState, RecordPublish, dirs
    <3>3. CASE DeleteStep(t)
      BY <1>2, <3>3 DEF DeleteStep, DeleteCheck, DeleteArchive, DeleteRunLock, DeleteReread, dirs
    <3> QED
      BY <3>1, <3>2, <3>3 DEF ThreadStep
  <2> QED
    BY <1>2, <2>1
<1> QED
  BY <1>1, <1>2

\* No step archives a job that trains or starts a worker for one in the archive.
LEMMA RunningKept == AloneContext => RunningNotDeleted'
<1> SUFFICES ASSUME AloneContext, NEW r \in Runs, Training(r)', arch'[r].exists PROVE FALSE
  BY DEF RunningNotDeleted
<1>0. RunningNotDeleted /\ arch \in [Runs -> Directory] /\ Assigned
  BY DEF AloneContext, QInv, LInv, TypeOK
<1>1. ASSUME Background PROVE FALSE
  BY <1>0, <1>1, BackgroundStep DEF RunningNotDeleted
<1>2. ASSUME NEW t \in Threads, ThreadStep(t), \A s \in Threads : s # t => pc'[s] = "idle"
      PROVE  FALSE
  <2>1. CASE Training(r)
    <3>1. ~arch[r].exists
      BY <1>0, <2>1 DEF RunningNotDeleted
    <3>2. DeleteRename(t) /\ run[t] = r
      BY <1>0, <1>2, <3>1, ArchiveStep
    <3>3. ~Training(run[t])
      BY <3>2 DEF AloneContext, QInv, RequestSafe, DeleteRename
    <3> QED
      BY <2>1, <3>2, <3>3
  <2>2. CASE ~Training(r)
    <3>1. Popen(t) /\ run[t] = r
      BY <1>2, <2>2, RequestTraining
    <3>2. pc[t] = "popen" /\ ~DeleteRename(t) 
      BY <3>1 DEF Popen, DeleteRename
    <3>3. ~arch[r].exists
      BY <3>1, <3>2 DEF AloneContext, QInv, RequestSafe, StartLabels
    <3> QED
      BY <1>2, <3>2, <3>3, ArchiveStep
  <2> QED
    BY <2>1, <2>2
<1> QED
  BY <1>1, <1>2, AloneStep

\* A directory appears only under a name that is not in the archive.
LEMMA NewDirectories ==
  ASSUME AloneContext, NEW r \in Runs, live'[r].exists, ~live[r].exists
  PROVE  ~arch[r].exists
<1>0. /\ TypeOK /\ Assigned /\ live \in [Runs -> Directory] /\ RunningNotDeleted /\ Recorded
      /\ LockedNotDeleted
  BY DEF AloneContext, LInv, AInv, QInv, TypeOK
<1>1. ASSUME NEW q \in Runs, NEW f, Put(q, f) PROVE r = q
  BY <1>0, <1>1 DEF Put
<1>2. ASSUME NEW q \in Runs, Die(q) PROVE FALSE
  BY <1>0, <1>2, DeathKeepsFiles
<1>3. ASSUME UNCHANGED live PROVE FALSE
  BY <1>3
<1>4. CASE Background
  <2>1. ASSUME NEW q \in Runs, Training(q) \/ Holding(q) PROVE live[q].exists
    BY <1>0, <2>1 DEF Recorded, LockedNotDeleted
  <2>2. ASSUME NEW q \in Runs, Worker(q), UNCHANGED live \/ Die(q) PROVE FALSE
    BY <1>2, <1>3, <2>2
  <2>3. ASSUME NEW q \in Runs, Worker(q), ~UNCHANGED live, ~Die(q) PROVE FALSE
    <3>1. Training(q) \/ Holding(q)
      BY <2>3 DEF Worker, Boot, PutRequest, TakeRunLock, Claim, Snapshot, FirstStatus, Arm, Train,
         PutInterrupted, PutResult, PutFinal, Exit, Training, Holding, dirs
    <3>2. \E f : Put(q, f)
      BY <2>3 DEF Worker, Boot, PutRequest, TakeRunLock, Claim, Snapshot, FirstStatus, Arm, Train,
         PutInterrupted, PutResult, PutFinal, PutStatus, Exit, dirs
    <3> QED
      BY <1>1, <2>1, <2>3, <3>1, <3>2
  <2>4. ASSUME NEW q \in Runs, KillWorker(q) PROVE FALSE
    BY <1>2, <2>4 DEF KillWorker
  <2> QED
    BY <1>3, <1>4, <2>2, <2>3, <2>4 DEF Background, vars, dirs
<1>5. ASSUME NEW t \in Threads, ThreadStep(t) PROVE ~arch[r].exists
  <2>0. /\ pc[t] # "idle" => run[t] \in Runs
        /\ RequestSafe(t)
    BY <1>0 DEF AloneContext, QInv, Assigned
  <2>1. CASE Request(t) \/ ListProbe(t)
    BY <1>3, <2>1 DEF Request, ListProbe, Start, Record, Stop, Delete, List, dirs
  <2>2. CASE StartStep(t)
    <3>1. CASE CreateRun(t) \/ WriteRequest(t) \/ Launch(t)
      <4>1. pc[t] \in StartLabels /\ \E f : Put(run[t], f)
        BY <3>1 DEF CreateRun, WriteRequest, Launch, StartLabels
      <4>2. pc[t] # "idle"
        BY <4>1 DEF StartLabels
      <4> QED
        BY <1>1, <2>0, <4>1, <4>2 DEF RequestSafe
    <3> QED
      BY <1>3, <2>2, <3>1 DEF StartStep, StartList, AdmitRead, AdmitProbe, Popen, dirs
  <2>3. CASE RecordStep(t)
    <3>1. CASE RecordPublish(t)
      <4>1. r = run[t]
        BY <1>0, <2>0, <3>1 DEF RecordPublish
      <4> QED
        BY <2>0, <3>1, <4>1 DEF RequestSafe, RecordPublish
    <3> QED
      BY <1>3, <2>3, <3>1 DEF RecordStep, RecordLock, RecordArchived, RecordState, dirs
  <2>4. CASE StopStep(t)
    BY <1>2, <1>3, <2>0, <2>4 DEF StopStep, StopProbe, Terminate, dirs
  <2>5. CASE DeleteStep(t)
    <3>1. CASE DeleteCheck(t)
      <4>1. live' = live \/ live' = [live EXCEPT ![run[t]].lock = "free"]
        BY <3>1 DEF DeleteCheck
      <4> QED
        BY <1>0, <1>3, <2>0, <3>1, <4>1, LockKeepsFiles DEF DeleteCheck
    <3>2. CASE DeleteRunLock(t)
      BY <1>1, <1>3, <2>0, <3>2 DEF DeleteRunLock, RequestSafe
    <3>3. CASE DeleteRename(t)
      <4>1. NoDir.exists = FALSE
        BY DEF NoDir
      <4> QED
        BY <1>0, <1>5, <3>3, <4>1, ArchiveStep
    <3> QED
      BY <1>3, <2>5, <3>1, <3>2, <3>3 DEF DeleteStep, DeleteArchive, DeleteReread, dirs
  <2> QED
    BY <1>5, <2>1, <2>2, <2>3, <2>4, <2>5 DEF ThreadStep
<1> QED
  BY <1>4, <1>5, AloneStep

\* A deleted job does not come back.
LEMMA DeletionKept == AloneContext => DeletionAuthoritative'
<1> SUFFICES ASSUME AloneContext, NEW r \in Runs, live'[r].exists, arch'[r].exists PROVE FALSE
  BY DEF DeletionAuthoritative
<1>0. /\ live \in [Runs -> Directory] /\ arch \in [Runs -> Directory]
      /\ ~(live[r].exists /\ arch[r].exists)
  BY DEF AloneContext, QInv, LInv, TypeOK, DeletionAuthoritative
<1>1. ~arch[r].exists
  BY <1>0, NewDirectories
<1>2. ASSUME Background PROVE FALSE
  BY <1>1, <1>2, BackgroundStep
<1>3. ASSUME NEW t \in Threads, ThreadStep(t) PROVE FALSE
  <2>1. NoDir.exists = FALSE
    BY DEF NoDir
  <2> QED
    BY <1>0, <1>1, <1>3, <2>1, ArchiveStep
<1> QED
  BY <1>2, <1>3, AloneStep

\* Whatever happens to its lock, the evidence of a record stays what it is.
LEMMA SameEvidence ==
  ASSUME NEW d \in Directory, NEW l \in {"free", "worker", "delete"}
  PROVE  /\ [[d EXCEPT !.lock = l] EXCEPT !.lock = "free"] = [d EXCEPT !.lock = "free"]
         /\ d.exists =>
              [[[d EXCEPT !.lock = l] EXCEPT !.exists = TRUE] EXCEPT !.lock = "free"]
                = [d EXCEPT !.lock = "free"]
         /\ d.lock = "free" => [d EXCEPT !.lock = "free"] = d
  BY DEF Directory

\* A record of a Backtest is published as a whole and never edited.
LEMMA EvidenceKept == AloneContext => EvidenceTogether'
<1> SUFFICES ASSUME AloneContext, NEW b \in Backtests
             PROVE  /\ live'[b].exists => [live'[b] EXCEPT !.lock = "free"] = Evidence
                    /\ arch'[b].exists => arch'[b] = Evidence
  BY DEF EvidenceTogether
<1>0. /\ live \in [Runs -> Directory] /\ arch \in [Runs -> Directory] /\ TypeOK /\ Assigned
      /\ wpc[b] = "none" /\ b \in Runs /\ b \notin Trainings
      /\ live[b].exists => [live[b] EXCEPT !.lock = "free"] = Evidence
      /\ arch[b].exists => arch[b] = Evidence
  BY LstmAssumption
     DEF AloneContext, QInv, LInv, TypeOK, NoWorker, EvidenceTogether, Runs
<1>1. ASSUME live'[b] = live[b], arch'[b] = arch[b]
      PROVE  /\ live'[b].exists => [live'[b] EXCEPT !.lock = "free"] = Evidence
             /\ arch'[b].exists => arch'[b] = Evidence
  BY <1>0, <1>1
<1>2. ASSUME NEW q \in Runs, q # b, (\E f : Put(q, f)) \/ Die(q) PROVE live'[b] = live[b]
  BY <1>0, <1>2 DEF Put, Die, Unlock
<1>3. CASE Background
  <2>1. arch'[b] = arch[b]
    BY <1>3, BackgroundStep
  <2>2. ASSUME NEW q \in Runs, Worker(q) \/ KillWorker(q), ~UNCHANGED live
        PROVE  live'[b] = live[b]
    <3>1. q # b
      BY <1>0, <2>2 DEF Worker, Boot, PutRequest, TakeRunLock, Claim, Snapshot, FirstStatus, Arm,
         Train, PutInterrupted, PutResult, PutFinal, Exit, KillWorker, Alive
    <3>2. (\E f : Put(q, f)) \/ Die(q)
      BY <2>2 DEF Worker, Boot, PutRequest, TakeRunLock, Claim, Snapshot, FirstStatus, Arm,
         Train, PutInterrupted, PutResult, PutFinal, PutStatus, Exit, KillWorker, dirs
    <3> QED
      BY <1>2, <3>1, <3>2
  <2>3. live'[b] = live[b]
    BY <1>3, <2>2 DEF Background, vars, dirs
  <2> QED
    BY <1>1, <2>1, <2>3
<1>4. ASSUME NEW t \in Threads, ThreadStep(t)
      PROVE  /\ live'[b].exists => [live'[b] EXCEPT !.lock = "free"] = Evidence
             /\ arch'[b].exists => arch'[b] = Evidence
  <2>0. /\ pc[t] # "idle" => run[t] \in Runs
        /\ pc[t] \in StartLabels => run[t] # b
        /\ RequestSafe(t)
    BY <1>0 DEF AloneContext, QInv, Assigned
  <2>1. CASE DeleteRename(t)
    <3>1. NoDir.exists = FALSE
      BY DEF NoDir
    <3> QED
      BY <1>0, <1>1, <1>4, <2>1, <3>1, ArchiveStep
  <2>2. CASE UNCHANGED live /\ ~DeleteRename(t)
    BY <1>1, <1>4, <2>2, ArchiveStep
  <2>3. CASE ~UNCHANGED live /\ ~DeleteRename(t)
    <3>0. UNCHANGED arch
      BY <1>4, <2>3, ArchiveStep
    <3>1. CASE StartStep(t)
      <4>1. pc[t] \in StartLabels /\ \E f : Put(run[t], f)
        BY <2>3, <3>1 DEF StartStep, StartList, AdmitRead, AdmitProbe, CreateRun, WriteRequest,
           Popen, Launch, StartLabels, dirs
      <4>2. pc[t] # "idle"
        BY <4>1 DEF StartLabels
      <4> QED
        BY <1>1, <1>2, <2>0, <3>0, <4>1, <4>2
    <3>2. CASE RecordStep(t)
      <4>1. live' = [live EXCEPT ![run[t]] = Evidence] /\ run[t] \in Runs
        BY <2>0, <2>3, <3>2 DEF RecordStep, RecordLock, RecordArchived, RecordState,
           RecordPublish, dirs
      <4>2. [Evidence EXCEPT !.lock = "free"] = Evidence
        <5>1. Evidence \in Directory /\ Evidence.lock = "free"
          BY DEF Evidence, NoDir, Directory
        <5> QED
          BY <5>1, SameEvidence
      <4> QED
        BY <1>0, <1>1, <3>0, <4>1, <4>2
    <3>3. CASE StopStep(t)
      <4>1. Die(run[t]) /\ Alive(run[t]) /\ run[t] \in Runs
        BY <2>0, <2>3, <3>3 DEF StopStep, StopProbe, Terminate, dirs
      <4> QED
        BY <1>0, <1>1, <1>2, <3>0, <4>1 DEF Alive
    <3>4. CASE DeleteCheck(t)
      <4>1. live' = [live EXCEPT ![run[t]].lock = "free"] /\ run[t] \in Runs
        BY <2>0, <2>3, <3>4 DEF DeleteCheck
      <4>2. CASE run[t] = b
        <5>1. live'[b] = [live[b] EXCEPT !.lock = "free"] /\ live[b] \in Directory
          BY <1>0, <4>1, <4>2
        <5>2. live'[b].exists = live[b].exists
          BY <1>0, <4>1, LockKeepsFiles
        <5> QED
          BY <1>0, <3>0, <5>1, <5>2, SameEvidence
      <4> QED
        BY <1>0, <1>1, <3>0, <4>1, <4>2
    <3>5. CASE DeleteRunLock(t)
      <4>1. /\ Put(run[t], [live[run[t]] EXCEPT !.lock = "delete"]) /\ run[t] \in Runs
            /\ live[run[t]].exists
        BY <2>0, <2>3, <3>5 DEF DeleteRunLock, RequestSafe
      <4>2. CASE run[t] = b
        <5>1. /\ live'[b] = [[live[b] EXCEPT !.lock = "delete"] EXCEPT !.exists = TRUE]
              /\ live[b] \in Directory
          BY <1>0, <4>1, <4>2 DEF Put
        <5> QED
          BY <1>0, <3>0, <4>1, <4>2, <5>1, SameEvidence
      <4> QED
        BY <1>1, <1>2, <3>0, <4>1, <4>2
    <3>6. ASSUME Request(t) \/ ListProbe(t) \/ DeleteArchive(t) \/ DeleteReread(t) PROVE FALSE
      BY <2>3, <3>6 DEF Request, ListProbe, Start, Record, Stop, Delete, List, DeleteArchive,
         DeleteReread, dirs
    <3> QED
      BY <1>4, <2>3, <3>1, <3>2, <3>3, <3>4, <3>5, <3>6 DEF ThreadStep, DeleteStep
  <2> QED
    BY <2>1, <2>2, <2>3
<1> QED
  BY <1>3, <1>4, AloneStep

\* A request that has judged what it reads stays right while only workers move.
LEMMA RequestSafeBeside ==
  ASSUME AloneContext, Background, NEW t \in Threads
  PROVE  RequestSafe(t)'
<1>0. /\ RequestSafe(t) /\ DirsKept /\ DeletionAuthoritative
      /\ pc[t] # "idle" => run[t] \in Runs
  BY DirStep DEF AloneContext, QInv, LInv, Assigned
<1>1. Still(t) /\ UNCHANGED arch /\ \A r \in Runs : Training(r)' => Training(r)
  BY BackgroundStep
<1>2. pc'[t] = pc[t] /\ run'[t] = run[t] /\ at'[t] = at[t] /\ seen'[t] = seen[t]
  BY <1>1 DEF Still
<1>3. pc'[t] \in StartLabels \union {"state", "publish"} => ~arch'[run'[t]].exists
  BY <1>0, <1>1, <1>2 DEF RequestSafe
<1>4. pc'[t] \in {"check", "archive", "runlock"} \union Deleting => live'[run'[t]].exists
  BY <1>0, <1>1, <1>2 DEF RequestSafe, DirsKept, DeletionAuthoritative, Deleting
<1>5. pc'[t] = "recheck" =>
        /\ at'[t] = run'[t]
        /\ Training(run[t])' => seen'[t].launch /\ seen'[t].status \in Open
  BY <1>0, <1>1, <1>2 DEF RequestSafe, Training
<1>6. pc'[t] = "rename" => ~Training(run[t])'
  BY <1>0, <1>1, <1>2 DEF RequestSafe, Training
<1> QED
  BY <1>3, <1>4, <1>5, <1>6 DEF RequestSafe, Training, Deleting, StartLabels

\* The delete that has read a job under run.lock goes on only if the job does
\* not train: the ps answers and the job has its launch record.
LEMMA JudgedBeforeRename ==
  ASSUME AloneContext, NEW t \in Threads, DeleteCheck(t), pc[t] = "recheck", pc'[t] = "rename"
  PROVE  ~Training(run[t])
<1> SUFFICES ASSUME Training(run[t]) PROVE FALSE
  OBVIOUS
<1>0. TypeOK /\ pc \in [Threads -> ThreadLabels]
  BY DEF AloneContext, LInv, TypeOK
<1>1. at[t] = run[t] /\ seen[t].launch /\ seen[t].status \in Open
  BY DEF AloneContext, QInv, RequestSafe
<1>2. PICK matches \in BOOLEAN :
        Probe(t, matches) /\ (Active(seen[t], matches) => Reply(t))
  BY DEF DeleteCheck
<1>3. matches = (PidKnown(seen[t]) /\ SeedKnown(seen[t]) /\ Alive(at[t]))
  BY <1>0, <1>2, ProbeAnswers DEF AloneContext, ServerSteady
<1>4. Alive(at[t])
  BY <1>1 DEF Alive, Training
<1>5. Active(seen[t], matches)
  BY <1>1, <1>3, <1>4 DEF PidKnown, SeedKnown, Active, Open
<1> QED
  BY <1>0, <1>2, <1>5 DEF Reply, Goto

\* A request stays safe by its own step.
LEMMA RequestSafeOwn ==
  ASSUME AloneContext, NEW t \in Threads, ThreadStep(t),
         \A s \in Threads : s # t => pc'[s] = "idle"
  PROVE  RequestSafe(t)'
<1>0. /\ TypeOK /\ Assigned /\ [Next]_vars /\ pc \in [Threads -> ThreadLabels]
      /\ run \in [Threads -> Runs \union {NoRun}] /\ at \in [Threads -> Runs \union {NoRun}]
      /\ seen \in [Threads -> Directory]
      /\ live \in [Runs -> Directory] /\ arch \in [Runs -> Directory]
      /\ RequestSafe(t) /\ OneRequest /\ Unended /\ Recorded /\ NoWorker
      /\ pc[t] # "idle" => run[t] \in Runs
  BY DEF AloneContext, QInv, LInv, AInv, TypeOK, Assigned
<1>1. CASE Start(t)
  <2>1. PICK r \in Trainings : ~arch[r].exists /\ Accept(t, "start", r)
    BY <1>1 DEF Start
  <2>2. pc'[t] = "start" /\ run'[t] = r /\ UNCHANGED arch
    BY <1>0, <1>1, <2>1 DEF Start, Accept, Goto, dirs
  <2> QED
    BY <2>1, <2>2 DEF RequestSafe, StartLabels, Deleting
<1>2. CASE StartStep(t)
  <2>1. pc'[t] \in StartLabels \union {"idle"}
    BY <1>0, <1>2 DEF StartStep, StartList, AdmitRead, AdmitProbe, CreateRun, WriteRequest, Popen,
       Launch, Read, Reply, Goto, StartLabels
  <2>2. UNCHANGED arch
    BY <1>2, ArchiveStep DEF StartStep, StartList, AdmitRead, AdmitProbe, CreateRun, WriteRequest,
       Popen, Launch, DeleteRename
  <2>3. pc'[t] \in StartLabels => ~arch'[run'[t]].exists
    <3>1. ~Start(t)
      BY <1>2 DEF Start, Accept, StartStep, StartList, AdmitRead, AdmitProbe, CreateRun,
         WriteRequest, Popen, Launch
    <3> QED
      BY <1>0, <2>2, <3>1, StartKeeps DEF RequestSafe
  <2> QED
    BY <2>1, <2>3 DEF RequestSafe, StartLabels, Deleting
<1>3. CASE RecordStep(t)
  <2>1. /\ pc'[t] \in {"archived", "state", "publish", "idle"}
        /\ pc'[t] \in {"state", "publish"} => run'[t] = run[t] /\ ~arch[run[t]].exists
    BY <1>0, <1>3 DEF RecordStep, RecordLock, RecordArchived, RecordState, RecordPublish, Reply,
       Goto, locals, RequestSafe
  <2>2. UNCHANGED arch
    BY <1>3 DEF RecordStep, RecordLock, RecordArchived, RecordState, RecordPublish, dirs
  <2> QED
    BY <2>1, <2>2 DEF RequestSafe, StartLabels, Deleting
<1>4. ASSUME NEW r \in Runs, Delete(t, r) PROVE RequestSafe(t)'
  <2>1. pc'[t] = "check" /\ run'[t] = r /\ live'[r].exists
    BY <1>0, <1>4 DEF Delete, Accept, Read, Goto, dirs
  <2> QED
    BY <2>1 DEF RequestSafe, StartLabels, Deleting
<1>5. ASSUME \/ Record(t) \/ (\E r \in Runs : Stop(t, r) \/ List(t, r))
             \/ StopStep(t) \/ ListProbe(t)
      PROVE  RequestSafe(t)'
  <2>1. pc'[t] \in {"record", "stop", "list", "stop2", "term", "idle"}
    BY <1>0, <1>5 DEF Record, Stop, List, StopStep, StopProbe, Terminate, ListProbe, Read, Reply,
       Goto
  <2> QED
    BY <2>1 DEF RequestSafe, StartLabels, Deleting
<1>6. CASE DeleteCheck(t)
  <2>1. /\ pc[t] \in {"check", "recheck"}
        /\ \/ pc'[t] = "idle"
           \/ /\ pc'[t] = (IF pc[t] = "check" THEN "archive" ELSE "rename")
              /\ UNCHANGED <<live, locals>>
    BY <1>0, <1>6 DEF DeleteCheck, Reply, Goto
  <2>2. CASE pc'[t] = "idle"
    BY <2>2 DEF RequestSafe, StartLabels, Deleting
  <2>3. CASE UNCHANGED <<live, locals>> /\ pc'[t] = "archive"
    <3>1. live'[run'[t]].exists
      BY <1>0, <2>1, <2>3 DEF RequestSafe, locals, Deleting
    <3> QED
      BY <2>3, <3>1 DEF RequestSafe, StartLabels, Deleting
  <2>4. CASE UNCHANGED <<live, locals>> /\ pc'[t] = "rename"
    <3>1. live'[run'[t]].exists /\ run'[t] = run[t] /\ wpc' = wpc
      BY <1>0, <1>6, <2>1, <2>4 DEF RequestSafe, locals, Deleting, DeleteCheck
    <3>2. ~Training(run[t])
      BY <1>6, <2>1, <2>4, JudgedBeforeRename
    <3> QED
      BY <2>4, <3>1, <3>2 DEF RequestSafe, StartLabels, Deleting, Training
  <2> QED
    BY <2>1, <2>2, <2>3, <2>4
<1>7. CASE DeleteArchive(t)
  <2>1. \/ pc'[t] = "idle"
        \/ pc'[t] = "runlock" /\ run'[t] = run[t] /\ live'[run[t]].exists
    BY <1>0, <1>7 DEF DeleteArchive, Reply, Goto, locals, dirs, RequestSafe
  <2> QED
    BY <2>1 DEF RequestSafe, StartLabels, Deleting
<1>8. CASE DeleteRunLock(t)
  <2>1. /\ run[t] \in Runs
        /\ \/ pc'[t] = "idle"
           \/ /\ pc'[t] = "reread" /\ run'[t] = run[t]
              /\ \E f : Put(run[t], f) /\ f \in Directory
    BY <1>0, <1>8, FilesEdited DEF DeleteRunLock, Reply, Goto, locals
  <2>2. pc'[t] = "reread" => live'[run'[t]].exists
    BY <1>0, <2>1, LaunchKept
  <2> QED
    BY <2>1, <2>2 DEF RequestSafe, StartLabels, Deleting
<1>9. CASE DeleteReread(t)
  <2>1. /\ pc[t] = "reread" /\ run[t] \in Runs /\ live[run[t]].exists
        /\ pc'[t] = "recheck" /\ run'[t] = run[t] /\ at'[t] = run[t] /\ seen'[t] = live[run[t]]
        /\ UNCHANGED <<live, wpc>>
    BY <1>0, <1>9 DEF DeleteReread, Read, Goto, dirs, RequestSafe, Deleting
  <2>2. ASSUME Training(run[t]) PROVE live[run[t]].launch /\ live[run[t]].status \in Open
    <3>1. run[t] \in Trainings /\ wpc[run[t]] \in Early
      BY <1>0, <2>1, <2>2 DEF NoWorker, Training, Early, Runs
    <3>2. ASSUME NEW s \in Threads, pc[s] = "launch" PROVE FALSE
      BY <1>0, <2>1, <3>2 DEF OneRequest
    <3> QED
      BY <1>0, <2>1, <2>2, <3>1, <3>2 DEF Recorded, Unended
  <2> QED
    BY <2>1, <2>2 DEF RequestSafe, StartLabels, Deleting, Training
<1>10. CASE DeleteRename(t)
  <2>1. pc'[t] = "idle"
    BY <1>0, <1>10 DEF DeleteRename, Reply, Goto
  <2> QED
    BY <2>1 DEF RequestSafe, StartLabels, Deleting
<1> QED
  BY <1>1, <1>2, <1>3, <1>4, <1>5, <1>6, <1>7, <1>8, <1>9, <1>10
     DEF ThreadStep, Request, DeleteStep

\* Every request is safe after every step.
LEMMA RequestsSafe == AloneContext => (\A t \in Threads : RequestSafe(t))'
<1> SUFFICES ASSUME AloneContext, NEW t \in Threads PROVE RequestSafe(t)'
  OBVIOUS
<1>1. CASE Background
  BY <1>1, RequestSafeBeside
<1>2. ASSUME NEW s \in Threads, ThreadStep(s), \A q \in Threads : q # s => pc'[q] = "idle"
      PROVE  RequestSafe(t)'
  <2>1. CASE pc'[t] = "idle"
    BY <2>1 DEF RequestSafe, StartLabels, Deleting
  <2>2. CASE t = s
    BY <1>2, <2>2, RequestSafeOwn
  <2> QED
    BY <1>2, <2>1, <2>2
<1> QED
  BY <1>1, <1>2, AloneStep

\* Beside LInv and AInv, QInv is kept when requests come one at a time.
LEMMA SerialStep == SerialInv /\ [EitherNext]_<<vars, serial>> => SerialInv'
<1> SUFFICES ASSUME SerialInv, [EitherNext]_<<vars, serial>> PROVE SerialInv'
  OBVIOUS
<1>1. [Next]_vars /\ serial' = serial
  BY DEF EitherNext
<1>2. LInv'
  BY <1>1, Step DEF SerialInv
<1>3. ASSUME serial PROVE AInv' /\ QInv'
  <2>1. OneRequest' /\ ServerSteady
    BY <1>1, <1>3 DEF EitherNext, SerialInv, QInv, OneRequest, ServerSteady, vars
  <2>2. AloneContext
    BY <1>1, <1>3, <2>1 DEF AloneContext, SerialInv
  <2>3. RunningNotDeleted' /\ DeletionAuthoritative' /\ EvidenceTogether'
    BY <2>2, RunningKept, DeletionKept, EvidenceKept
  <2>4. [JobsNext]_vars
    BY <1>1, <2>1 DEF JobsNext, ServerSteady
  <2>5. AInv'
    BY <1>3, <2>3, <2>4, AdmissionStep DEF SerialInv
  <2> QED
    BY <2>1, <2>2, <2>3, <2>5, RequestsSafe DEF QInv
<1> QED
  BY <1>1, <1>2, <1>3 DEF SerialInv

\* The invariant holds before the first request.
LEMMA SerialInitial == EitherInit => SerialInv
<1> SUFFICES ASSUME Init PROVE LInv /\ AInv /\ QInv
  BY DEF EitherInit, SerialInv
<1>1. LInv
  BY Initial
<1>2. AInv
  BY DEF Init, AInv, Locked, Critical, Distinct, StartLabels, NotYet, Unended, Open, Recorded,
     Admitting, Judged, Cleared, OneTrainingPerTicker, Training, NoDir, Runs
<1>3. QInv
  BY DEF Init, QInv, OneRequest, RequestSafe, StartLabels, Deleting, RunningNotDeleted, Training,
     DeletionAuthoritative, EvidenceTogether, NoDir, Runs
<1> QED
  BY <1>1, <1>2, <1>3

\* As long as requests do not overlap, every ps answers and the server stays up,
\* no job that trains is deleted, no deleted job returns and a record appears as
\* a whole, while workers come and go and are killed beside the requests.
THEOREM SerialSafeAlways == EitherSpec => []SerialSafe
<1>1. SerialInv => SerialSafe
  BY DEF SerialInv, QInv, SerialSafe
<1> QED
  BY <1>1, SerialInitial, SerialStep, PTL DEF EitherSpec

\* The same requests need nothing else for one training per ticker: what
\* OneTrainingPerTickerAlways assumes of deletions is proved for them.
THEOREM SerialOneTraining == EitherSpec => [](serial => OneTrainingPerTicker)
<1>1. SerialInv => (serial => OneTrainingPerTicker)
  BY DEF SerialInv, AInv
<1> QED
  BY <1>1, SerialInitial, SerialStep, PTL DEF EitherSpec
=============================================================================
