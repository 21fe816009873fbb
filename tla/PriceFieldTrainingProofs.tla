---------------------- MODULE PriceFieldTrainingProofs ----------------------
(***************************************************************************)
(* One job trains at a time, a job that trains is never archived, and what *)
(* a job has recorded of its end is kept: for any number of request        *)
(* threads, jobs, killed workers and crashes of the web server, as long as *)
(* ps answers and no crash leaves a worker that no record names.           *)
(***************************************************************************)
EXTENDS PriceFieldTraining, TLAPS

\* A failed ps breaks the properties, and so does a crash of the server between
\* Popen and launch.sqlite3, which JobsSpec leaves out.
PsAnswers == MaxProbeFailures = 0

Critical == {"admit", "probe", "popen", "launch", "inactive", "rename"}

OnRun == {"probe", "popen", "launch", "stop", "stop2", "file", "term", "wait", "reread",
          "record", "delete", "inactive", "rename", "list"}

\* The threads that admit or archive hold workspace.lock.
Locked == \A t \in Threads : pc[t] \in Critical => lock = t

\* A thread that works on a job knows which.
Working == \A t \in Threads : pc[t] \in OnRun => run[t] \in Runs

\* A worker that trains has its directory, no final status, and a recorded
\* pid unless start is about to record it.
Started ==
  \A r \in Runs : Training(r) =>
    /\ live[r].exists /\ ~arch[r].exists
    /\ live[r].status \in {"none", "running"}
    /\ live[r].launch \/ \E t \in Threads : pc[t] = "launch" /\ run[t] = r

\* Admission has still to look at every job that trains.
Admitting ==
  \A t \in Threads : pc[t] \in {"admit", "probe"} => \A r \in Runs : Training(r) => r \in left[t]

\* What admission or deletion has read of a job that trains shows it active.
Judged ==
  \A t \in Threads :
    pc[t] \in {"probe", "inactive"} /\ Training(run[t]) =>
      seen[t].launch /\ seen[t].status \in {"none", "running"}

\* Before Popen the job is new and nothing trains.
Fresh ==
  \A t \in Threads : pc[t] = "popen" =>
    /\ wpc[run[t]] = "none"
    /\ live[run[t]].exists /\ ~arch[run[t]].exists
    /\ live[run[t]].status = "none"
    /\ \A r \in Runs : ~Training(r)

\* What is not in the workspace has no status.
Empty == \A r \in Runs : ~live[r].exists => live[r].status = "none"

\* Only a job that does not train is moved away.
Renaming == \A t \in Threads : pc[t] = "rename" => ~Training(run[t])

\* A stop that goes on has found a process with a recorded pid.
Stopping ==
  \A t \in Threads :
    /\ pc[t] \in {"stop2", "file", "term", "wait", "reread", "record"} => wpc[run[t]] # "none"
    /\ pc[t] \in {"stop2", "file", "term", "wait"} => seen[t].launch

JInv ==
  /\ TypeOK
  /\ Locked
  /\ Working
  /\ Empty
  /\ Started
  /\ Admitting
  /\ Judged
  /\ Fresh
  /\ Renaming
  /\ Stopping
  /\ StoppedWorkerIsGone
  /\ OneTraining
-----------------------------------------------------------------------------
\* What a write of one file changes and what it leaves.
LEMMA Written ==
  ASSUME live \in [Runs -> Directory], NEW r \in Runs, NEW files \in Directory,
         live' = [live EXCEPT ![r] = [files EXCEPT !.exists = TRUE]]
  PROVE  /\ live' \in [Runs -> Directory]
         /\ live'[r].exists
         /\ live'[r].launch = files.launch
         /\ live'[r].status = files.status
         /\ \A s \in Runs : s # r => live'[s] = live[s]
<1> DEFINE new == [files EXCEPT !.exists = TRUE]
<1>1. /\ new \in Directory /\ new.exists
      /\ new.launch = files.launch /\ new.status = files.status
  BY DEF Directory
<1>2. live' = [live EXCEPT ![r] = new]
  OBVIOUS
<1>3. live'[r] = new
  BY <1>2
<1> HIDE DEF new
<1> QED
  BY <1>1, <1>2, <1>3

\* The files that a step may write, one at a time.
LEMMA Edited ==
  ASSUME NEW d \in Directory, NEW s \in Statuses
  PROVE  /\ [d EXCEPT !.request = TRUE] \in Directory
         /\ [d EXCEPT !.launch = TRUE] \in Directory
         /\ [d EXCEPT !.stop = TRUE] \in Directory
         /\ [d EXCEPT !.result = TRUE] \in Directory
         /\ [d EXCEPT !.status = s] \in Directory
         /\ [d EXCEPT !.request = TRUE].launch = d.launch
         /\ [d EXCEPT !.launch = TRUE].launch
         /\ [d EXCEPT !.stop = TRUE].launch = d.launch
         /\ [d EXCEPT !.result = TRUE].launch = d.launch
         /\ [d EXCEPT !.status = s].launch = d.launch
         /\ [d EXCEPT !.request = TRUE].status = d.status
         /\ [d EXCEPT !.launch = TRUE].status = d.status
         /\ [d EXCEPT !.stop = TRUE].status = d.status
         /\ [d EXCEPT !.result = TRUE].status = d.status
         /\ [d EXCEPT !.status = s].status = s
  BY DEF Directory

\* A status is written.
LEMMA StatusWritten ==
  ASSUME live \in [Runs -> Directory], NEW r \in Runs, NEW s \in Statuses,
         live' = [live EXCEPT ![r] = [[live[r] EXCEPT !.status = s] EXCEPT !.exists = TRUE]]
  PROVE  /\ live' \in [Runs -> Directory]
         /\ live'[r].exists
         /\ live'[r].launch = live[r].launch
         /\ live'[r].status = s
         /\ \A q \in Runs : q # r => live'[q] = live[q]
<1> DEFINE files == [live[r] EXCEPT !.status = s]
<1>1. /\ files \in Directory
      /\ files.launch = live[r].launch /\ files.status = s
  BY Edited
<1>2. live' = [live EXCEPT ![r] = [files EXCEPT !.exists = TRUE]]
  OBVIOUS
<1> HIDE DEF files
<1> QED
  BY <1>1, <1>2, Written

\* A new job's request is written.
LEMMA RequestWritten ==
  ASSUME live \in [Runs -> Directory], NEW r \in Runs,
         live' = [live EXCEPT ![r] = [[live[r] EXCEPT !.request = TRUE] EXCEPT !.exists = TRUE]]
  PROVE  /\ live' \in [Runs -> Directory]
         /\ live'[r].exists
         /\ live'[r].launch = live[r].launch
         /\ live'[r].status = live[r].status
         /\ \A q \in Runs : q # r => live'[q] = live[q]
<1> DEFINE files == [live[r] EXCEPT !.request = TRUE]
<1>1. /\ files \in Directory
      /\ files.launch = live[r].launch /\ files.status = live[r].status
  BY Edited DEF Statuses
<1>2. live' = [live EXCEPT ![r] = [files EXCEPT !.exists = TRUE]]
  OBVIOUS
<1> HIDE DEF files
<1> QED
  BY <1>1, <1>2, Written

\* The pid of the worker is recorded.
LEMMA LaunchWritten ==
  ASSUME live \in [Runs -> Directory], NEW r \in Runs,
         live' = [live EXCEPT ![r] = [[live[r] EXCEPT !.launch = TRUE] EXCEPT !.exists = TRUE]]
  PROVE  /\ live' \in [Runs -> Directory]
         /\ live'[r].exists
         /\ live'[r].launch
         /\ live'[r].status = live[r].status
         /\ \A q \in Runs : q # r => live'[q] = live[q]
<1> DEFINE files == [live[r] EXCEPT !.launch = TRUE]
<1>1. /\ files \in Directory
      /\ files.launch /\ files.status = live[r].status
  BY Edited DEF Statuses
<1>2. live' = [live EXCEPT ![r] = [files EXCEPT !.exists = TRUE]]
  OBVIOUS
<1> HIDE DEF files
<1> QED
  BY <1>1, <1>2, Written

\* A stop is filed.
LEMMA StopWritten ==
  ASSUME live \in [Runs -> Directory], NEW r \in Runs,
         live' = [live EXCEPT ![r] = [[live[r] EXCEPT !.stop = TRUE] EXCEPT !.exists = TRUE]]
  PROVE  /\ live' \in [Runs -> Directory]
         /\ live'[r].exists
         /\ live'[r].launch = live[r].launch
         /\ live'[r].status = live[r].status
         /\ \A q \in Runs : q # r => live'[q] = live[q]
<1> DEFINE files == [live[r] EXCEPT !.stop = TRUE]
<1>1. /\ files \in Directory
      /\ files.launch = live[r].launch /\ files.status = live[r].status
  BY Edited DEF Statuses
<1>2. live' = [live EXCEPT ![r] = [files EXCEPT !.exists = TRUE]]
  OBVIOUS
<1> HIDE DEF files
<1> QED
  BY <1>1, <1>2, Written

\* The worker writes its result.
LEMMA ResultWritten ==
  ASSUME live \in [Runs -> Directory], NEW r \in Runs,
         live' = [live EXCEPT ![r] = [[live[r] EXCEPT !.result = TRUE] EXCEPT !.exists = TRUE]]
  PROVE  /\ live' \in [Runs -> Directory]
         /\ live'[r].exists
         /\ live'[r].launch = live[r].launch
         /\ live'[r].status = live[r].status
         /\ \A q \in Runs : q # r => live'[q] = live[q]
<1> DEFINE files == [live[r] EXCEPT !.result = TRUE]
<1>1. /\ files \in Directory
      /\ files.launch = live[r].launch /\ files.status = live[r].status
  BY Edited DEF Statuses
<1>2. live' = [live EXCEPT ![r] = [files EXCEPT !.exists = TRUE]]
  OBVIOUS
<1> HIDE DEF files
<1> QED
  BY <1>1, <1>2, Written

\* A probe only counts the faults; without faults it says what is true.
LEMMA Probed ==
  ASSUME TypeOK, NEW t \in Threads, NEW matches \in BOOLEAN, Probe(t, matches)
  PROVE  /\ faults' \in [kills : Nat, crashes : Nat, probes : Nat]
         /\ MaxProbeFailures = 0 => matches = (seen[t].launch /\ Alive(run[t]))
<1>1. CASE matches = (seen[t].launch /\ Alive(run[t])) /\ UNCHANGED faults
  BY <1>1 DEF TypeOK
<1>2. CASE faults.probes < MaxProbeFailures /\ faults' = [faults EXCEPT !.probes = @ + 1]
  <2>1. faults.probes \in Nat
    BY DEF TypeOK
  <2>2. MaxProbeFailures # 0
    BY <1>2, <2>1
  <2>3. faults' \in [kills : Nat, crashes : Nat, probes : Nat]
    BY <1>2, <2>1 DEF TypeOK
  <2> QED
    BY <2>2, <2>3
<1> QED
  BY <1>1, <1>2 DEF Probe

\* A thread that replies is idle; the other threads are where they were.
LEMMA Replied ==
  ASSUME TypeOK, Working, NEW t \in Threads, Reply(t)
  PROVE  /\ pc' \in [Threads -> ThreadLabels] /\ run' \in [Threads -> Runs \union {NoRun}]
         /\ seen' \in [Threads -> Directory] /\ left' \in [Threads -> SUBSET Runs]
         /\ pc'[t] = "idle"
         /\ \A s \in Threads : s # t =>
              pc'[s] = pc[s] /\ run'[s] = run[s] /\ seen'[s] = seen[s] /\ left'[s] = left[s]
         /\ Working'
<1>1. NoDir \in Directory
  BY DEF NoDir, Directory, Statuses, Terminal
<1> QED
  BY <1>1 DEF TypeOK, Working, OnRun, Reply, Goto, ThreadLabels

\* read_run reports active exactly when the process was found and no final
\* status was read.
LEMMA ActiveIff ==
  ASSUME NEW files, NEW matches \in BOOLEAN
  PROVE  Effective(files, matches) = "active"
           <=> files.status = "active" \/ (files.status \in {"none", "running"} /\ matches)
  BY DEF Effective

\* The worker's progress callback writes running.
LEMMA RunningWritten ==
  ASSUME live \in [Runs -> Directory], NEW r \in Runs, WriteStatus(r, "running")
  PROVE  /\ live'[r].exists
         /\ live'[r].launch = live[r].launch
         /\ live'[r].status \in {"none", "running"}
         /\ \A q \in Runs : q # r => live'[q] = live[q]
<1>1. "running" \in Statuses
  BY DEF Statuses
<1> QED
  BY <1>1, StatusWritten DEF WriteStatus, Write

-----------------------------------------------------------------------------
\* The types hold together with Working: what a thread reads into seen is the
\* directory of a job.
LEMMA TypedStep == TypeOK /\ Working /\ [Next]_vars => TypeOK' /\ Working'
<1> SUFFICES ASSUME TypeOK, Working, [Next]_vars PROVE TypeOK' /\ Working'
  OBVIOUS
<1> USE DEF TypeOK, Working, OnRun, NoDir, Statuses, ThreadLabels, WorkerLabels, Terminal
<1>0. NoDir \in Directory
  BY DEF Directory
<1>1. ASSUME NEW t \in Threads, Start(t) PROVE TypeOK' /\ Working'
  BY <1>0, <1>1 DEF Start, Goto, dirs, workers, locals
<1>2. ASSUME NEW t \in Threads, StartList(t) PROVE TypeOK' /\ Working'
  BY <1>0, <1>2 DEF StartList, Goto, dirs, workers
<1>3. ASSUME NEW t \in Threads, AdmitRead(t) PROVE TypeOK' /\ Working'
  BY <1>0, <1>3 DEF AdmitRead, Read, Goto, dirs, workers
<1>4. ASSUME NEW t \in Threads, AdmitProbe(t) PROVE TypeOK' /\ Working'
  <2>1. faults' \in [kills : Nat, crashes : Nat, probes : Nat]
    BY <1>4, Probed DEF AdmitProbe
  <2>2. CASE Reply(t) /\ lock' = NoThread
    BY <2>1, <2>2, <1>4, Replied DEF AdmitProbe, dirs, workers
  <2>3. CASE Goto(t, "admit") /\ left' = [left EXCEPT ![t] = @ \ {run[t]}] /\ UNCHANGED <<lock, run, seen>>
    BY <2>1, <2>3, <1>4 DEF AdmitProbe, Goto, dirs, workers
  <2> QED
    BY <1>4, <2>2, <2>3 DEF AdmitProbe
<1>5. ASSUME NEW t \in Threads, CreateRun(t) PROVE TypeOK' /\ Working'
  <2>1. live' \in [Runs -> Directory]
    BY <1>0, <1>5, RequestWritten DEF CreateRun, Write
  <2> QED
    BY <2>1, <1>0, <1>5 DEF CreateRun, Goto, workers
<1>6. ASSUME NEW t \in Threads, Popen(t) PROVE TypeOK' /\ Working'
  <2>1. CASE wpc' = [wpc EXCEPT ![run[t]] = "boot"] /\ Goto(t, "launch") /\ UNCHANGED <<live, lock, locals>>
    BY <2>1, <1>6 DEF Popen, Goto, locals
  <2>2. CASE WriteStatus(run[t], "failed") /\ lock' = NoThread /\ Reply(t) /\ UNCHANGED wpc
    <3>1. run[t] \in Runs
      BY <1>6 DEF Popen
    <3>2. live' \in [Runs -> Directory]
      BY <2>2, <3>1, StatusWritten DEF WriteStatus, Write
    <3> QED
      BY <2>2, <3>2, <1>6, Replied DEF Popen
  <2> QED
    BY <1>6, <2>1, <2>2 DEF Popen
<1>7. ASSUME NEW t \in Threads, Launch(t) PROVE TypeOK' /\ Working'
  <2>1. run[t] \in Runs
    BY <1>7 DEF Launch
  <2>2. live' \in [Runs -> Directory]
    BY <1>7, <2>1, LaunchWritten DEF Launch, Write
  <2> QED
    BY <2>2, <1>7, Replied DEF Launch, workers
<1>8. ASSUME NEW t \in Threads, NEW r \in Runs, Stop(t, r) PROVE TypeOK' /\ Working'
  BY <1>0, <1>8 DEF Stop, Read, Goto, dirs, workers
<1>9. ASSUME NEW t \in Threads, NEW r \in Runs, Delete(t, r) PROVE TypeOK' /\ Working'
  BY <1>0, <1>9 DEF Delete, Goto, dirs, workers
<1>10. ASSUME NEW t \in Threads, NEW r \in Runs, List(t, r) PROVE TypeOK' /\ Working'
  BY <1>0, <1>10 DEF List, Read, Goto, dirs, workers
<1>11. ASSUME NEW t \in Threads, StopProbe(t) PROVE TypeOK' /\ Working'
  <2>1. faults' \in [kills : Nat, crashes : Nat, probes : Nat]
    BY <1>11, Probed DEF StopProbe
  <2>2. CASE Reply(t)
    BY <2>1, <2>2, <1>11, Replied DEF StopProbe, dirs, workers
  <2>3. CASE Goto(t, IF pc[t] = "stop" THEN "stop2" ELSE "file") /\ UNCHANGED locals
    BY <2>1, <2>3, <1>11 DEF StopProbe, Goto, dirs, workers, locals
  <2> QED
    BY <1>11, <2>2, <2>3 DEF StopProbe
<1>12. ASSUME NEW t \in Threads, StopFile(t) PROVE TypeOK' /\ Working'
  <2>1. live' \in [Runs -> Directory]
    BY <1>0, <1>12, StopWritten DEF StopFile, Write
  <2> QED
    BY <2>1, <1>0, <1>12 DEF StopFile, Goto, workers, locals
<1>13. ASSUME NEW t \in Threads, Terminate(t) PROVE TypeOK' /\ Working'
  BY <1>0, <1>13 DEF Terminate, Goto, Handling, dirs, workers, locals
<1>14. ASSUME NEW t \in Threads, KillAfterWait(t) PROVE TypeOK' /\ Working'
  <2>1. faults' \in [kills : Nat, crashes : Nat, probes : Nat]
    BY <1>14, Probed DEF KillAfterWait
  <2>2. (TypeOK /\ Working)' \/ faults' \notin [kills : Nat, crashes : Nat, probes : Nat]
    BY <1>0, <1>14 DEF KillAfterWait, Probe, Goto, dirs, locals
  <2> QED
    BY <2>1, <2>2
<1>15. ASSUME NEW t \in Threads, StopReread(t) PROVE TypeOK' /\ Working'
  BY <1>0, <1>15 DEF StopReread, Read, Goto, dirs, workers
<1>16. ASSUME NEW t \in Threads, StopRecord(t) PROVE TypeOK' /\ Working'
  BY <1>0, <1>16, StatusWritten DEF StopRecord, Reply, WriteStatus, Write, Goto, workers
<1>17. ASSUME NEW t \in Threads, DeleteRead(t) PROVE TypeOK' /\ Working'
  BY <1>0, <1>17 DEF DeleteRead, Read, Goto, dirs, workers
<1>18. ASSUME NEW t \in Threads, DeleteProbe(t) PROVE TypeOK' /\ Working'
  <2>1. faults' \in [kills : Nat, crashes : Nat, probes : Nat]
    BY <1>18, Probed DEF DeleteProbe
  <2>2. CASE Reply(t) /\ lock' = NoThread
    BY <2>1, <2>2, <1>18, Replied DEF DeleteProbe, dirs, workers
  <2>3. CASE Goto(t, "rename") /\ UNCHANGED <<lock, locals>>
    BY <2>1, <2>3, <1>18 DEF DeleteProbe, Goto, dirs, workers, locals
  <2> QED
    BY <1>18, <2>2, <2>3 DEF DeleteProbe
<1>19. ASSUME NEW t \in Threads, Archive(t) PROVE TypeOK' /\ Working'
  BY <1>0, <1>19 DEF Archive, Reply, Goto, workers
<1>20. ASSUME NEW t \in Threads, ListProbe(t) PROVE TypeOK' /\ Working'
  <2>1. faults' \in [kills : Nat, crashes : Nat, probes : Nat]
    BY <1>20, Probed DEF ListProbe
  <2>2. (TypeOK /\ Working)' \/ faults' \notin [kills : Nat, crashes : Nat, probes : Nat]
    BY <1>0, <1>20 DEF ListProbe, Probe, Reply, Goto, dirs, workers
  <2> QED
    BY <2>1, <2>2
<1>21. ASSUME NEW r \in Runs, Boot(r) PROVE TypeOK' /\ Working'
  BY <1>0, <1>21 DEF Boot, Become, dirs, locals
<1>22. ASSUME NEW r \in Runs, Record(r) PROVE TypeOK' /\ Working'
  BY <1>0, <1>22, StatusWritten DEF Record, WriteStatus, Become, Write, locals
<1>23. ASSUME NEW r \in Runs, Compute(r) PROVE TypeOK' /\ Working'
  BY <1>0, <1>23 DEF Compute, Become, dirs, locals
<1>24. ASSUME NEW r \in Runs, LastCheck(r) PROVE TypeOK' /\ Working'
  BY <1>0, <1>24 DEF LastCheck, Become, dirs, locals
<1>25. ASSUME NEW r \in Runs, WriteResult(r) PROVE TypeOK' /\ Working'
  BY <1>0, <1>25, ResultWritten DEF WriteResult, Write, Become, locals
<1>26. ASSUME NEW r \in Runs, WriteCompleted(r) PROVE TypeOK' /\ Working'
  BY <1>0, <1>26, StatusWritten DEF WriteCompleted, WriteStatus, Become, Write, locals
<1>27. ASSUME NEW r \in Runs, WriteEnded(r) PROVE TypeOK' /\ Working'
  BY <1>0, <1>27, StatusWritten DEF WriteEnded, WriteStatus, Become, Write, locals
<1>28. ASSUME NEW r \in Runs, MainReadsRequest(r) PROVE TypeOK' /\ Working'
  BY <1>0, <1>28 DEF MainReadsRequest, Become, dirs, locals
<1>29. ASSUME NEW r \in Runs, MainReadsStatus(r) PROVE TypeOK' /\ Working'
  BY <1>0, <1>29 DEF MainReadsStatus, Become, dirs, locals
<1>30. ASSUME NEW r \in Runs, MainRecords(r) PROVE TypeOK' /\ Working'
  BY <1>0, <1>30, StatusWritten DEF MainRecords, WriteStatus, Become, Write, locals
<1>31. ASSUME NEW r \in Runs, Exit(r) PROVE TypeOK' /\ Working'
  BY <1>0, <1>31 DEF Exit, Become, dirs, locals
<1>32. ASSUME NEW r \in Runs, KillWorker(r) PROVE TypeOK' /\ Working'
  BY <1>0, <1>32 DEF KillWorker, Become, dirs, locals
<1>33. ASSUME CrashServer PROVE TypeOK' /\ Working'
  <2>1. faults' \in [kills : Nat, crashes : Nat, probes : Nat]
    BY <1>33 DEF CrashServer
  <2>2. (TypeOK /\ Working)' \/ faults' \notin [kills : Nat, crashes : Nat, probes : Nat]
    BY <1>0, <1>33 DEF CrashServer, dirs, workers
  <2> QED
    BY <2>1, <2>2
<1>34. CASE UNCHANGED vars
  BY <1>34 DEF vars, dirs, workers, locals
<1> QED
  BY <1>1, <1>2, <1>3, <1>4, <1>5, <1>6, <1>7, <1>8, <1>9, <1>10, <1>11, <1>12, <1>13, <1>14,
     <1>15, <1>16, <1>17, <1>18, <1>19, <1>20, <1>21, <1>22, <1>23, <1>24, <1>25, <1>26, <1>27,
     <1>28, <1>29, <1>30, <1>31, <1>32, <1>33, <1>34
     DEF Next, Request, StartStep, StopStep, DeleteStep, Worker

\* Every variable keeps its type.
THEOREM TypeCorrect == Spec => []TypeOK
<1>1. Init => TypeOK /\ Working
  BY DEF Init, TypeOK, Working, OnRun, NoDir, Directory, Statuses, Terminal, ThreadLabels,
     WorkerLabels
<1> QED
  BY <1>1, TypedStep, PTL DEF Spec

-----------------------------------------------------------------------------
\* JInv is inductive while ps answers.
LEMMA Step == PsAnswers /\ JInv /\ [JobsNext]_vars => JInv'
<1> SUFFICES ASSUME PsAnswers, JInv, [JobsNext]_vars PROVE JInv'
  OBVIOUS
<1>0. TypeOK' /\ Working'
  BY TypedStep DEF JInv, JobsNext
<1> DEFINE Rest ==
      /\ Locked /\ Empty /\ Started /\ Admitting /\ Judged /\ Fresh /\ Renaming
      /\ Stopping /\ StoppedWorkerIsGone /\ OneTraining
<1> USE TrainingAssumption DEF JInv, TypeOK, Working, OnRun, Locked, Critical, Empty, Started,
   Admitting, Judged, Fresh, Renaming, Stopping, StoppedWorkerIsGone, OneTraining, Training,
   Alive
<1>1. ASSUME NEW t \in Threads, Start(t) PROVE Rest'
  BY <1>0, <1>1 DEF Start, Goto, dirs, workers, locals
<1>2. ASSUME NEW t \in Threads, StartList(t) PROVE Rest'
  BY <1>0, <1>2 DEF StartList, Goto, dirs, workers
<1>3. ASSUME NEW t \in Threads, AdmitRead(t) PROVE Rest'
  BY <1>0, <1>3 DEF AdmitRead, Read, Goto, dirs, workers
<1>4. ASSUME NEW t \in Threads, AdmitProbe(t) PROVE Rest'
  <2>1. Locked' /\ Empty' /\ Renaming' /\ OneTraining'
    BY <1>0, <1>4 DEF AdmitProbe, Reply, Goto, dirs, workers, Probe, PsAnswers
  <2>2. Started'
    BY <1>0, <1>4 DEF AdmitProbe, Reply, Goto, dirs, workers, Probe, PsAnswers
  <2>3. Judged'
    BY <1>0, <1>4 DEF AdmitProbe, Reply, Goto, dirs, workers, Probe, PsAnswers
  <2>4. Fresh'
    BY <1>0, <1>4 DEF AdmitProbe, Reply, Goto, dirs, workers, Probe, PsAnswers
  <2>5. Stopping' /\ StoppedWorkerIsGone'
    BY <1>0, <1>4 DEF AdmitProbe, Reply, Goto, dirs, workers, Probe, PsAnswers
  <2>6. Admitting'
    <3>1. PICK matches \in BOOLEAN :
            /\ matches = (seen[t].launch /\ Alive(run[t]))
            /\ \/ Reply(t)
               \/ /\ Effective(seen[t], matches) # "active"
                  /\ Goto(t, "admit")
                  /\ left' = [left EXCEPT ![t] = @ \ {run[t]}]
                  /\ UNCHANGED <<lock, run, seen>>
      BY <1>4 DEF AdmitProbe, Probe, PsAnswers
    <3>2. wpc' = wpc /\ pc[t] = "probe"
      BY <1>4 DEF AdmitProbe, workers
    <3>3. CASE Reply(t)
      BY <3>2, <3>3, Replied
    <3>4. CASE Effective(seen[t], matches) # "active" /\ Goto(t, "admit")
               /\ left' = [left EXCEPT ![t] = @ \ {run[t]}]
      <4>1. ~Training(run[t])
        BY <3>1, <3>2, <3>4, ActiveIff
      <4> QED
        BY <3>2, <3>4, <4>1 DEF Goto
    <3> QED
      BY <3>1, <3>3, <3>4
  <2> QED
    BY <2>1, <2>2, <2>3, <2>4, <2>5, <2>6
<1>5. ASSUME NEW t \in Threads, CreateRun(t) PROVE Rest'
  <2>1. PICK r \in Runs : /\ ~live[r].exists /\ ~arch[r].exists /\ wpc[r] = "none"
                         /\ run' = [run EXCEPT ![t] = r]
                         /\ live' = [live EXCEPT ![r] = [[live[r] EXCEPT !.request = TRUE] EXCEPT !.exists = TRUE]]
    BY <1>5 DEF CreateRun, Write
  <2>2. /\ live'[r].exists /\ live'[r].launch = live[r].launch /\ live'[r].status = live[r].status
        /\ \A q \in Runs : q # r => live'[q] = live[q]
    BY <2>1, RequestWritten
  <2>3. /\ lock' = lock /\ arch' = arch /\ wpc' = wpc /\ seen' = seen /\ left' = left
        /\ pc[t] = "admit" /\ left[t] = {} /\ pc' = [pc EXCEPT ![t] = "popen"]
        /\ run' = [run EXCEPT ![t] = r]
    BY <2>1, <1>5 DEF CreateRun, Goto, workers
  <2>4. Locked' /\ Empty' /\ Renaming' /\ OneTraining'
    BY <1>0, <2>1, <2>2, <2>3
  <2>5. Started'
    BY <1>0, <2>1, <2>2, <2>3
  <2>6. Admitting' /\ Judged'
    BY <1>0, <2>1, <2>2, <2>3
  <2>7. Fresh'
    BY <1>0, <2>1, <2>2, <2>3
  <2>8. Stopping' /\ StoppedWorkerIsGone'
    BY <1>0, <2>1, <2>2, <2>3
  <2> QED
    BY <2>4, <2>5, <2>6, <2>7, <2>8
<1>6. ASSUME NEW t \in Threads, Popen(t) PROVE Rest'
  <2>1. CASE wpc' = [wpc EXCEPT ![run[t]] = "boot"] /\ Goto(t, "launch") /\ UNCHANGED <<live, lock, locals>>
    <3>0. run[t] \in Runs
      BY <1>6 DEF Popen
    <3>1. Locked' /\ Empty' /\ Renaming' /\ OneTraining'
      BY <1>0, <2>1, <3>0, <1>6 DEF Popen, Goto, locals
    <3>2. Started'
      BY <1>0, <2>1, <3>0, <1>6 DEF Popen, Goto, locals
    <3>3. Admitting' /\ Judged'
      BY <1>0, <2>1, <3>0, <1>6 DEF Popen, Goto, locals
    <3>4. Fresh'
      BY <1>0, <2>1, <3>0, <1>6 DEF Popen, Goto, locals
    <3>5. Stopping' /\ StoppedWorkerIsGone'
      BY <1>0, <2>1, <3>0, <1>6 DEF Popen, Goto, locals
    <3> QED
      BY <3>1, <3>2, <3>3, <3>4, <3>5
  <2>2. CASE WriteStatus(run[t], "failed") /\ lock' = NoThread /\ Reply(t) /\ UNCHANGED wpc
    <3> DEFINE s == "failed"
    <3>0. run[t] \in Runs /\ s \in Statuses
      BY <1>6 DEF Popen, Statuses, Terminal
    <3>1. live' = [live EXCEPT ![run[t]] = [[live[run[t]] EXCEPT !.status = s] EXCEPT !.exists = TRUE]]
      BY <2>2 DEF WriteStatus, Write
    <3> HIDE DEF s
    <3>2. live'[run[t]].exists
      BY <3>0, <3>1, StatusWritten
    <3>3. \A q \in Runs : q # run[t] => live'[q] = live[q]
      BY <3>1
    <3>4. /\ arch' = arch /\ wpc' = wpc /\ lock' = NoThread /\ pc[t] = "popen"
      BY <2>2, <1>6 DEF Popen
    <3>5. Locked' /\ Empty' /\ Renaming' /\ OneTraining'
      BY <1>0, <2>2, <3>0, <3>2, <3>3, <3>4, Replied
    <3>6. Started'
      BY <1>0, <2>2, <3>0, <3>2, <3>3, <3>4, Replied
    <3>7. Admitting' /\ Judged'
      BY <1>0, <2>2, <3>0, <3>2, <3>3, <3>4, Replied
    <3>8. Fresh'
      BY <1>0, <2>2, <3>0, <3>2, <3>3, <3>4, Replied
    <3>9. Stopping' /\ StoppedWorkerIsGone'
      BY <1>0, <2>2, <3>0, <3>2, <3>3, <3>4, Replied
    <3> QED
      BY <3>5, <3>6, <3>7, <3>8, <3>9
  <2> QED
    BY <1>6, <2>1, <2>2 DEF Popen
<1>7. ASSUME NEW t \in Threads, Launch(t) PROVE Rest'
  <2>0. /\ run[t] \in Runs /\ live'[run[t]].exists /\ live'[run[t]].launch
        /\ live'[run[t]].status = live[run[t]].status
       /\ \A q \in Runs : q # run[t] => live'[q] = live[q]
    BY <1>0, <1>7, LaunchWritten DEF Launch, WriteStatus, Write, TypeOK, Working, OnRun,
       Statuses, Terminal
  <2>1. Locked' /\ Empty' /\ Renaming' /\ OneTraining'
    BY <1>0, <1>7, <2>0 DEF Launch, Reply, Goto, workers
  <2>2. Started'
    BY <1>0, <1>7, <2>0 DEF Launch, Reply, Goto, workers
  <2>3. Admitting' /\ Judged'
    BY <1>0, <1>7, <2>0 DEF Launch, Reply, Goto, workers
  <2>4. Fresh'
    BY <1>0, <1>7, <2>0 DEF Launch, Reply, Goto, workers
  <2>5. Stopping' /\ StoppedWorkerIsGone'
    BY <1>0, <1>7, <2>0 DEF Launch, Reply, Goto, workers
  <2> QED
    BY <2>1, <2>2, <2>3, <2>4, <2>5
<1>8. ASSUME NEW t \in Threads, NEW r \in Runs, Stop(t, r) PROVE Rest'
  BY <1>0, <1>8 DEF Stop, Read, Goto, dirs, workers
<1>9. ASSUME NEW t \in Threads, NEW r \in Runs, Delete(t, r) PROVE Rest'
  BY <1>0, <1>9 DEF Delete, Goto, dirs, workers
<1>10. ASSUME NEW t \in Threads, NEW r \in Runs, List(t, r) PROVE Rest'
  BY <1>0, <1>10 DEF List, Read, Goto, dirs, workers
<1>11. ASSUME NEW t \in Threads, StopProbe(t) PROVE Rest'
  <2>1. Locked' /\ Empty' /\ Renaming' /\ OneTraining'
    BY <1>0, <1>11 DEF StopProbe, Reply, Goto, dirs, workers, locals, Probe, PsAnswers
  <2>2. Started'
    BY <1>0, <1>11 DEF StopProbe, Reply, Goto, dirs, workers, locals, Probe, PsAnswers
  <2>3. Admitting' /\ Judged'
    BY <1>0, <1>11 DEF StopProbe, Reply, Goto, dirs, workers, locals, Probe, PsAnswers
  <2>4. Fresh'
    BY <1>0, <1>11 DEF StopProbe, Reply, Goto, dirs, workers, locals, Probe, PsAnswers
  <2>5. StoppedWorkerIsGone'
    BY <1>0, <1>11 DEF StopProbe, Reply, Goto, dirs, workers, locals, Probe, PsAnswers
  <2>6. Stopping'
    <3>1. PICK matches \in BOOLEAN :
            /\ matches = (seen[t].launch /\ Alive(run[t]))
            /\ \/ Reply(t)
               \/ /\ Effective(seen[t], matches) = "active"
                  /\ Goto(t, IF pc[t] = "stop" THEN "stop2" ELSE "file")
                  /\ UNCHANGED locals
      BY <1>11 DEF StopProbe, Probe, PsAnswers
    <3>2. wpc' = wpc /\ pc[t] \in {"stop", "stop2"}
      BY <1>11 DEF StopProbe, workers
    <3>3. CASE Reply(t)
      BY <3>2, <3>3, Replied
    <3>4. CASE Effective(seen[t], matches) = "active" /\ UNCHANGED locals
               /\ Goto(t, IF pc[t] = "stop" THEN "stop2" ELSE "file")
      <4>1. seen[t].status \in Statuses
        BY DEF Directory
      <4>2. seen[t].launch /\ wpc[run[t]] # "none"
        BY <3>1, <3>4, <4>1, ActiveIff DEF Statuses, Terminal
      <4> QED
        BY <3>2, <3>4, <4>2 DEF Goto, locals
    <3> QED
      BY <3>1, <3>3, <3>4
  <2> QED
    BY <2>1, <2>2, <2>3, <2>4, <2>5, <2>6
<1>12. ASSUME NEW t \in Threads, StopFile(t) PROVE Rest'
  <2>0. /\ run[t] \in Runs /\ live'[run[t]].exists /\ live'[run[t]].launch = live[run[t]].launch
        /\ live'[run[t]].status = live[run[t]].status
       /\ \A q \in Runs : q # run[t] => live'[q] = live[q]
    BY <1>0, <1>12, StopWritten DEF StopFile, WriteStatus, Write, TypeOK, Working, OnRun,
       Statuses, Terminal
  <2>1. Locked' /\ Empty' /\ Renaming' /\ OneTraining'
    BY <1>0, <1>12, <2>0 DEF StopFile, Goto, workers, locals
  <2>2. Started'
    BY <1>0, <1>12, <2>0 DEF StopFile, Goto, workers, locals
  <2>3. Admitting' /\ Judged'
    BY <1>0, <1>12, <2>0 DEF StopFile, Goto, workers, locals
  <2>4. Fresh'
    BY <1>0, <1>12, <2>0 DEF StopFile, Goto, workers, locals
  <2>5. Stopping' /\ StoppedWorkerIsGone'
    BY <1>0, <1>12, <2>0 DEF StopFile, Goto, workers, locals
  <2> QED
    BY <2>1, <2>2, <2>3, <2>4, <2>5
<1>13. ASSUME NEW t \in Threads, Terminate(t) PROVE Rest'
  BY <1>0, <1>13 DEF Terminate, Goto, Handling, dirs, workers, locals
<1>14. ASSUME NEW t \in Threads, KillAfterWait(t) PROVE Rest'
  BY <1>0, <1>14 DEF KillAfterWait, Goto, dirs, locals, Probe, PsAnswers
<1>15. ASSUME NEW t \in Threads, StopReread(t) PROVE Rest'
  BY <1>0, <1>15 DEF StopReread, Read, Goto, dirs, workers
<1>16. ASSUME NEW t \in Threads, StopRecord(t) PROVE Rest'
  <2>0. run[t] \in Runs /\ ~Training(run[t])
    BY <1>16 DEF StopRecord
  <2>1. CASE UNCHANGED live
    <3>1. Locked' /\ Empty' /\ Renaming' /\ OneTraining'
      BY <1>0, <2>1, <1>16, Replied DEF StopRecord, workers
    <3>2. Started'
      BY <1>0, <2>1, <1>16, Replied DEF StopRecord, workers
    <3>3. Admitting' /\ Judged'
      BY <1>0, <2>1, <1>16, Replied DEF StopRecord, workers
    <3>4. Fresh'
      BY <1>0, <2>1, <1>16, Replied DEF StopRecord, workers
    <3>5. Stopping' /\ StoppedWorkerIsGone'
      BY <1>0, <2>1, <1>16, Replied DEF StopRecord, workers
    <3> QED
      BY <3>1, <3>2, <3>3, <3>4, <3>5
  <2>2. CASE WriteStatus(run[t], "stopped")
    <3> DEFINE s == "stopped"
    <3>0. s \in Statuses
      BY DEF Statuses, Terminal
    <3>1. live' = [live EXCEPT ![run[t]] = [[live[run[t]] EXCEPT !.status = s] EXCEPT !.exists = TRUE]]
      BY <2>2 DEF WriteStatus, Write
    <3> HIDE DEF s
    <3>2. live'[run[t]].exists
      BY <2>0, <3>0, <3>1, StatusWritten
    <3>3. \A q \in Runs : q # run[t] => live'[q] = live[q]
      BY <3>1
    <3>4. /\ arch' = arch /\ wpc' = wpc /\ lock' = lock /\ pc[t] = "record" /\ Reply(t)
      BY <1>16 DEF StopRecord, workers
    <3>5. Locked' /\ Empty' /\ Renaming' /\ OneTraining'
      BY <1>0, <2>0, <3>2, <3>3, <3>4, Replied
    <3>6. Started'
      BY <1>0, <2>0, <3>2, <3>3, <3>4, Replied
    <3>7. Admitting' /\ Judged'
      BY <1>0, <2>0, <3>2, <3>3, <3>4, Replied
    <3>8. Fresh'
      BY <1>0, <2>0, <3>2, <3>3, <3>4, Replied
    <3>9. Stopping' /\ StoppedWorkerIsGone'
      BY <1>0, <2>0, <3>2, <3>3, <3>4, Replied
    <3> QED
      BY <3>5, <3>6, <3>7, <3>8, <3>9
  <2> QED
    BY <1>16, <2>1, <2>2 DEF StopRecord
<1>17. ASSUME NEW t \in Threads, DeleteRead(t) PROVE Rest'
  BY <1>0, <1>17 DEF DeleteRead, Read, Goto, dirs, workers
<1>18. ASSUME NEW t \in Threads, DeleteProbe(t) PROVE Rest'
  <2>1. Locked' /\ Empty' /\ OneTraining'
    BY <1>0, <1>18 DEF DeleteProbe, Reply, Goto, dirs, workers, locals, Probe, PsAnswers
  <2>2. Started'
    BY <1>0, <1>18 DEF DeleteProbe, Reply, Goto, dirs, workers, locals, Probe, PsAnswers
  <2>3. Admitting' /\ Judged'
    BY <1>0, <1>18 DEF DeleteProbe, Reply, Goto, dirs, workers, locals, Probe, PsAnswers
  <2>4. Fresh'
    BY <1>0, <1>18 DEF DeleteProbe, Reply, Goto, dirs, workers, locals, Probe, PsAnswers
  <2>5. Stopping' /\ StoppedWorkerIsGone'
    BY <1>0, <1>18 DEF DeleteProbe, Reply, Goto, dirs, workers, locals, Probe, PsAnswers
  <2>6. Renaming'
    <3>1. PICK matches \in BOOLEAN :
            /\ matches = (seen[t].launch /\ Alive(run[t]))
            /\ \/ Reply(t)
               \/ /\ Effective(seen[t], matches) # "active"
                  /\ Goto(t, "rename") /\ UNCHANGED <<lock, locals>>
      BY <1>18 DEF DeleteProbe, Probe, PsAnswers
    <3>2. wpc' = wpc /\ pc[t] = "inactive"
      BY <1>18 DEF DeleteProbe, workers
    <3>3. CASE Reply(t)
      BY <3>2, <3>3, Replied
    <3>4. CASE Effective(seen[t], matches) # "active" /\ Goto(t, "rename") /\ UNCHANGED locals
      <4>1. ~Training(run[t])
        BY <3>1, <3>2, <3>4, ActiveIff
      <4> QED
        BY <3>2, <3>4, <4>1 DEF Goto, locals
    <3> QED
      BY <3>1, <3>3, <3>4
  <2> QED
    BY <2>1, <2>2, <2>3, <2>4, <2>5, <2>6
<1>19. ASSUME NEW t \in Threads, Archive(t) PROVE Rest'
  <2>1. Locked' /\ Renaming' /\ OneTraining'
    BY <1>0, <1>19 DEF Archive, Reply, Goto, workers
  <2>2. Started'
    BY <1>0, <1>19 DEF Archive, Reply, Goto, workers
  <2>3. Admitting' /\ Judged'
    BY <1>0, <1>19 DEF Archive, Reply, Goto, workers
  <2>4. Fresh'
    BY <1>0, <1>19 DEF Archive, Reply, Goto, workers
  <2>5. Stopping' /\ StoppedWorkerIsGone'
    BY <1>0, <1>19 DEF Archive, Reply, Goto, workers
  <2>6. Empty'
    BY <1>0, <1>19 DEF Archive, NoDir
  <2> QED
    BY <2>1, <2>2, <2>3, <2>4, <2>5, <2>6
<1>20. ASSUME NEW t \in Threads, ListProbe(t) PROVE Rest'
  BY <1>0, <1>20 DEF ListProbe, Reply, Goto, dirs, workers, Probe, PsAnswers
<1>21. ASSUME NEW r \in Runs, Boot(r) PROVE Rest'
  BY <1>0, <1>21 DEF Boot, Become, dirs, locals
<1>22. ASSUME NEW r \in Runs, Record(r) PROVE Rest'
  <2>1. CASE Become(r, "stopping") /\ UNCHANGED live
    <3>1. Locked' /\ Empty' /\ Renaming' /\ OneTraining'
      BY <1>0, <2>1, <1>22 DEF Record, Become, locals
    <3>2. Started'
      BY <1>0, <2>1, <1>22 DEF Record, Become, locals
    <3>3. Admitting' /\ Judged'
      BY <1>0, <2>1, <1>22 DEF Record, Become, locals
    <3>4. Fresh'
      BY <1>0, <2>1, <1>22 DEF Record, Become, locals
    <3>5. Stopping' /\ StoppedWorkerIsGone'
      BY <1>0, <2>1, <1>22 DEF Record, Become, locals
    <3> QED
      BY <3>1, <3>2, <3>3, <3>4, <3>5
  <2>2. CASE WriteStatus(r, "running") /\ Become(r, "training")
    <3>2. /\ live'[r].exists /\ live'[r].launch = live[r].launch /\ live'[r].status \in {"none", "running"}
          /\ \A q \in Runs : q # r => live'[q] = live[q]
      BY <2>2, RunningWritten
    <3>3. /\ wpc[r] \in {"loading", "training"} /\ wpc' = [wpc EXCEPT ![r] = "training"]
          /\ arch' = arch /\ lock' = lock /\ pc' = pc /\ run' = run /\ seen' = seen /\ left' = left
      BY <2>2, <1>22 DEF Record, Become, locals
    <3>4. Locked' /\ Empty' /\ Renaming' /\ OneTraining'
      BY <1>0, <3>2, <3>3
    <3>5. Started'
      BY <1>0, <3>2, <3>3
    <3>6. Admitting' /\ Judged'
      BY <1>0, <3>2, <3>3
    <3>7. Fresh'
      BY <1>0, <3>2, <3>3
    <3>8. Stopping' /\ StoppedWorkerIsGone'
      BY <1>0, <3>2, <3>3
    <3> QED
      BY <3>4, <3>5, <3>6, <3>7, <3>8
  <2> QED
    BY <1>22, <2>1, <2>2 DEF Record
<1>23. ASSUME NEW r \in Runs, Compute(r) PROVE Rest'
  BY <1>0, <1>23 DEF Compute, Become, dirs, locals
<1>24. ASSUME NEW r \in Runs, LastCheck(r) PROVE Rest'
  BY <1>0, <1>24 DEF LastCheck, Become, dirs, locals
<1>25. ASSUME NEW r \in Runs, WriteResult(r) PROVE Rest'
  <2>0. /\ r \in Runs /\ live'[r].exists /\ live'[r].launch = live[r].launch
        /\ live'[r].status = live[r].status
       /\ \A q \in Runs : q # r => live'[q] = live[q]
    BY <1>0, <1>25, ResultWritten DEF WriteResult, WriteStatus, Write, TypeOK, Working, OnRun,
       Statuses, Terminal
  <2>1. Locked' /\ Empty' /\ Renaming' /\ OneTraining'
    BY <1>0, <1>25, <2>0 DEF WriteResult, Become, locals
  <2>2. Started'
    BY <1>0, <1>25, <2>0 DEF WriteResult, Become, locals
  <2>3. Admitting' /\ Judged'
    BY <1>0, <1>25, <2>0 DEF WriteResult, Become, locals
  <2>4. Fresh'
    BY <1>0, <1>25, <2>0 DEF WriteResult, Become, locals
  <2>5. Stopping' /\ StoppedWorkerIsGone'
    BY <1>0, <1>25, <2>0 DEF WriteResult, Become, locals
  <2> QED
    BY <2>1, <2>2, <2>3, <2>4, <2>5
<1>26. ASSUME NEW r \in Runs, WriteCompleted(r) PROVE Rest'
  <2>0. /\ r \in Runs /\ live'[r].exists /\ live'[r].launch = live[r].launch
       /\ \A q \in Runs : q # r => live'[q] = live[q]
    <3> DEFINE s == "completed"
    <3>1. s \in Statuses
      BY DEF Statuses, Terminal
    <3>2. live' = [live EXCEPT ![r] = [[live[r] EXCEPT !.status = s] EXCEPT !.exists = TRUE]]
      BY <1>26 DEF WriteCompleted, WriteStatus, Write
    <3> HIDE DEF s
    <3> QED
      BY <3>1, <3>2, StatusWritten
  <2>1. Locked' /\ Empty' /\ Renaming' /\ OneTraining'
    BY <1>0, <1>26, <2>0 DEF WriteCompleted, Become, locals
  <2>2. Started'
    BY <1>0, <1>26, <2>0 DEF WriteCompleted, Become, locals
  <2>3. Admitting' /\ Judged'
    BY <1>0, <1>26, <2>0 DEF WriteCompleted, Become, locals
  <2>4. Fresh'
    BY <1>0, <1>26, <2>0 DEF WriteCompleted, Become, locals
  <2>5. Stopping' /\ StoppedWorkerIsGone'
    BY <1>0, <1>26, <2>0 DEF WriteCompleted, Become, locals
  <2> QED
    BY <2>1, <2>2, <2>3, <2>4, <2>5
<1>27. ASSUME NEW r \in Runs, WriteEnded(r) PROVE Rest'
  <2>0. /\ r \in Runs /\ live'[r].exists /\ live'[r].launch = live[r].launch
       /\ \A q \in Runs : q # r => live'[q] = live[q]
    <3> DEFINE s == (IF wpc[r] = "stopping" THEN "stopped" ELSE "failed")
    <3>1. s \in Statuses
      BY DEF Statuses, Terminal
    <3>2. live' = [live EXCEPT ![r] = [[live[r] EXCEPT !.status = s] EXCEPT !.exists = TRUE]]
      BY <1>27 DEF WriteEnded, WriteStatus, Write
    <3> HIDE DEF s
    <3> QED
      BY <3>1, <3>2, StatusWritten
  <2>1. Locked' /\ Empty' /\ Renaming' /\ OneTraining'
    BY <1>0, <1>27, <2>0 DEF WriteEnded, Become, locals
  <2>2. Started'
    BY <1>0, <1>27, <2>0 DEF WriteEnded, Become, locals
  <2>3. Admitting' /\ Judged'
    BY <1>0, <1>27, <2>0 DEF WriteEnded, Become, locals
  <2>4. Fresh'
    BY <1>0, <1>27, <2>0 DEF WriteEnded, Become, locals
  <2>5. Stopping' /\ StoppedWorkerIsGone'
    BY <1>0, <1>27, <2>0 DEF WriteEnded, Become, locals
  <2> QED
    BY <2>1, <2>2, <2>3, <2>4, <2>5
<1>28. ASSUME NEW r \in Runs, MainReadsRequest(r) PROVE Rest'
  BY <1>0, <1>28 DEF MainReadsRequest, Become, dirs, locals
<1>29. ASSUME NEW r \in Runs, MainReadsStatus(r) PROVE Rest'
  BY <1>0, <1>29 DEF MainReadsStatus, Become, dirs, locals
<1>30. ASSUME NEW r \in Runs, MainRecords(r) PROVE Rest'
  <2>0. /\ r \in Runs /\ live'[r].exists /\ live'[r].launch = live[r].launch
       /\ \A q \in Runs : q # r => live'[q] = live[q]
    <3> DEFINE s == "failed"
    <3>1. s \in Statuses
      BY DEF Statuses, Terminal
    <3>2. live' = [live EXCEPT ![r] = [[live[r] EXCEPT !.status = s] EXCEPT !.exists = TRUE]]
      BY <1>30 DEF MainRecords, WriteStatus, Write
    <3> HIDE DEF s
    <3> QED
      BY <3>1, <3>2, StatusWritten
  <2>1. Locked' /\ Empty' /\ Renaming' /\ OneTraining'
    BY <1>0, <1>30, <2>0 DEF MainRecords, Become, locals
  <2>2. Started'
    BY <1>0, <1>30, <2>0 DEF MainRecords, Become, locals
  <2>3. Admitting' /\ Judged'
    BY <1>0, <1>30, <2>0 DEF MainRecords, Become, locals
  <2>4. Fresh'
    BY <1>0, <1>30, <2>0 DEF MainRecords, Become, locals
  <2>5. Stopping' /\ StoppedWorkerIsGone'
    BY <1>0, <1>30, <2>0 DEF MainRecords, Become, locals
  <2> QED
    BY <2>1, <2>2, <2>3, <2>4, <2>5
<1>31. ASSUME NEW r \in Runs, Exit(r) PROVE Rest'
  BY <1>0, <1>31 DEF Exit, Become, dirs, locals
<1>32. ASSUME NEW r \in Runs, KillWorker(r) PROVE Rest'
  BY <1>0, <1>32 DEF KillWorker, Become, dirs, locals
<1>33. ASSUME CrashServer PROVE Rest'
  <2>1. faults'.crashes # faults.crashes
    BY <1>33 DEF CrashServer
  <2>2. \A t \in Threads : pc[t] # "launch" /\ pc'[t] = "idle"
    BY <1>33, <2>1 DEF CrashServer, JobsNext, vars
  <2> QED
    BY <1>0, <1>33, <2>2 DEF CrashServer, dirs, workers
<1>34. CASE UNCHANGED vars
  BY <1>34 DEF vars, dirs, workers, locals
<1> QED
  BY <1>0, <1>1, <1>2, <1>3, <1>4, <1>5, <1>6, <1>7, <1>8, <1>9, <1>10, <1>11, <1>12, <1>13,
     <1>14, <1>15, <1>16, <1>17, <1>18, <1>19, <1>20, <1>21, <1>22, <1>23, <1>24, <1>25, <1>26,
     <1>27, <1>28, <1>29, <1>30, <1>31, <1>32, <1>33, <1>34
     DEF JobsNext, Next, Request, StartStep, StopStep, DeleteStep, Worker

\* The initial states satisfy JInv.
LEMMA Initial == Init => JInv
<1> USE TrainingAssumption
<1>1. Init => TypeOK /\ Working
  BY DEF Init, TypeOK, Working, OnRun, NoDir, Directory, Statuses, Terminal, ThreadLabels,
     WorkerLabels
<1>2. Init => /\ Locked /\ Empty /\ Started /\ Admitting /\ Judged /\ Fresh /\ Renaming
              /\ Stopping /\ StoppedWorkerIsGone /\ OneTraining
  BY DEF Init, NoDir, Locked, Critical, Empty, Started, Admitting, Judged, Fresh, Renaming,
         Stopping, StoppedWorkerIsGone, OneTraining, Training, Alive
<1> QED
  BY <1>1, <1>2 DEF JInv

\* JInv holds always while ps answers.
THEOREM Inductive == ASSUME PsAnswers PROVE JobsSpec => []JInv
<1>1. Init => JInv
  BY Initial
<1>2. JInv /\ [JobsNext]_vars => JInv'
  BY PsAnswers, Step
<1> QED
  BY <1>1, <1>2, PTL DEF JobsSpec

\* Two workers never train at the same time, however many threads start,
\* stop and delete jobs.
THEOREM OneTrainingAlways == ASSUME PsAnswers PROVE JobsSpec => []OneTraining
<1>1. JInv => OneTraining
  BY DEF JInv
<1> QED
  BY <1>1, Inductive, PTL

\* The directory of a job that trains is in the workspace and has no archive.
THEOREM RunningNotDeletedAlways == ASSUME PsAnswers PROVE JobsSpec => []RunningNotDeleted
<1>1. JInv => RunningNotDeleted
  BY DEF JInv, Started, RunningNotDeleted
<1> QED
  BY <1>1, Inductive, PTL

\* A stop that records its outcome has no worker left.
THEOREM StoppedWorkerIsGoneAlways == ASSUME PsAnswers PROVE JobsSpec => []StoppedWorkerIsGone
<1>1. JInv => StoppedWorkerIsGone
  BY DEF JInv
<1> QED
  BY <1>1, Inductive, PTL
-----------------------------------------------------------------------------
\* A worker that is about to record completion has written its result.
ResultFirst == \A r \in Runs : wpc[r] = "status" => live[r].result

\* A document that is written leaves the result there, and the directories of
\* other jobs alone.
LEMMA ResultKept ==
  ASSUME live \in [Runs -> Directory], NEW r \in Runs, NEW files \in Directory,
         Write(r, files)
  PROVE  /\ live'[r].result = files.result
         /\ live'[r].status = files.status
         /\ live'[r].request = files.request
         /\ \A q \in Runs : q # r => live'[q] = live[q]
<1> DEFINE new == [files EXCEPT !.exists = TRUE]
<1>1. /\ new.result = files.result /\ new.status = files.status
      /\ new.request = files.request
  BY DEF Directory
<1>2. live' = [live EXCEPT ![r] = new]
  BY DEF Write
<1> HIDE DEF new
<1> QED
  BY <1>1, <1>2

\* A status that is written leaves the result where it is.
LEMMA StatusKeepsResult ==
  ASSUME live \in [Runs -> Directory], NEW r \in Runs, NEW s \in Statuses, WriteStatus(r, s)
  PROVE  /\ live'[r].result = live[r].result
         /\ live'[r].status = s
         /\ live'[r].request = live[r].request
         /\ \A q \in Runs : q # r => live'[q] = live[q]
<1> DEFINE files == [live[r] EXCEPT !.status = s]
<1>1. /\ files \in Directory /\ files.result = live[r].result /\ files.status = s
      /\ files.request = live[r].request
  BY DEF Directory
<1>2. Write(r, files)
  BY DEF WriteStatus
<1> HIDE DEF files
<1> QED
  BY <1>1, <1>2, ResultKept

\* Any other document leaves status and result where they are.
LEMMA FileKeepsResult ==
  ASSUME NEW d \in Directory
  PROVE  /\ \A f \in {[d EXCEPT !.request = TRUE], [d EXCEPT !.launch = TRUE],
                      [d EXCEPT !.stop = TRUE]} :
              f \in Directory /\ f.result = d.result /\ f.status = d.status
         /\ [d EXCEPT !.result = TRUE] \in Directory
         /\ [d EXCEPT !.result = TRUE].result
  BY DEF Directory

\* ResultFirst and CompletedHasResult are kept by every step of a state that
\* satisfies JInv: no directory is moved away between the two writes.
LEMMA ResultStep == JInv /\ ResultFirst /\ CompletedHasResult /\ [Next]_vars
                      => ResultFirst' /\ CompletedHasResult'
<1> SUFFICES ASSUME JInv, ResultFirst, CompletedHasResult, [Next]_vars
             PROVE  ResultFirst' /\ CompletedHasResult'
  OBVIOUS
<1> USE DEF ResultFirst, CompletedHasResult
<1>0. /\ live \in [Runs -> Directory] /\ wpc \in [Runs -> WorkerLabels]
      /\ Working /\ Renaming
  BY DEF JInv, TypeOK
<1>1. ASSUME UNCHANGED live, \A r \in Runs : wpc'[r] = "status" => wpc[r] = "status"
      PROVE  ResultFirst' /\ CompletedHasResult'
  BY <1>1
<1>2. ASSUME NEW r \in Runs, NEW f \in Directory, Write(r, f), f.result = live[r].result,
             f.status = "completed" => live[r].status = "completed" \/ wpc[r] = "status",
             \A q \in Runs : wpc'[q] = "status" => wpc[q] = "status"
      PROVE  ResultFirst' /\ CompletedHasResult'
  BY <1>0, <1>2, ResultKept
<1>3. ASSUME NEW r \in Runs, NEW s \in Statuses, WriteStatus(r, s),
             s = "completed" => wpc[r] = "status",
             \A q \in Runs : wpc'[q] = "status" => wpc[q] = "status"
      PROVE  ResultFirst' /\ CompletedHasResult'
  BY <1>0, <1>3, StatusKeepsResult
<1>4. {"running", "failed", "stopped", "completed"} \subseteq Statuses
  BY DEF Statuses, Terminal
<1>5. ASSUME NEW t \in Threads, CreateRun(t) PROVE ResultFirst' /\ CompletedHasResult'
  BY <1>0, <1>2, <1>5, FileKeepsResult DEF CreateRun, workers
<1>6. ASSUME NEW t \in Threads, Popen(t) PROVE ResultFirst' /\ CompletedHasResult'
  <2>1. run[t] \in Runs
    BY <1>0, <1>6 DEF Popen, Working, OnRun
  <2>2. CASE WriteStatus(run[t], "failed") /\ UNCHANGED wpc
    BY <1>3, <1>4, <2>1, <2>2
  <2>3. CASE wpc' = [wpc EXCEPT ![run[t]] = "boot"] /\ UNCHANGED live
    BY <1>0, <1>1, <2>3
  <2> QED
    BY <1>6, <2>2, <2>3 DEF Popen
<1>7. ASSUME NEW t \in Threads, Launch(t) PROVE ResultFirst' /\ CompletedHasResult'
  BY <1>0, <1>2, <1>7, FileKeepsResult DEF Launch, Working, OnRun, workers
<1>8. ASSUME NEW t \in Threads, StopFile(t) PROVE ResultFirst' /\ CompletedHasResult'
  BY <1>0, <1>2, <1>8, FileKeepsResult DEF StopFile, Working, OnRun, workers
<1>9. ASSUME NEW t \in Threads, StopRecord(t) PROVE ResultFirst' /\ CompletedHasResult'
  BY <1>0, <1>1, <1>3, <1>4, <1>9 DEF StopRecord, Working, OnRun, workers
<1>10. ASSUME NEW t \in Threads, Archive(t) PROVE ResultFirst' /\ CompletedHasResult'
  BY <1>0, <1>10 DEF Archive, Renaming, Training, NoDir, workers, Working, OnRun
<1>11. ASSUME NEW t \in Threads, Terminate(t) \/ KillAfterWait(t)
       PROVE  ResultFirst' /\ CompletedHasResult'
  <2>1. UNCHANGED live /\ (wpc' = wpc \/ wpc' = [wpc EXCEPT ![run[t]] = "dead"])
    BY <1>11 DEF Terminate, KillAfterWait, dirs, workers
  <2>2. \A r \in Runs : wpc'[r] = "status" => wpc[r] = "status"
    BY <1>0, <2>1
  <2> QED
    BY <1>1, <2>1, <2>2
<1>12. ASSUME NEW r \in Runs, Record(r) PROVE ResultFirst' /\ CompletedHasResult'
  <2>1. CASE WriteStatus(r, "running") /\ Become(r, "training")
    BY <1>0, <1>3, <1>4, <2>1 DEF Become
  <2>2. CASE Become(r, "stopping") /\ UNCHANGED live
    BY <1>0, <1>1, <2>2 DEF Become
  <2> QED
    BY <1>12, <2>1, <2>2 DEF Record
<1>13. ASSUME NEW r \in Runs, WriteResult(r) PROVE ResultFirst' /\ CompletedHasResult'
  <2> DEFINE f == [live[r] EXCEPT !.result = TRUE]
  <2>1. f \in Directory /\ f.result /\ Write(r, f)
    BY <1>0, <1>13, FileKeepsResult DEF WriteResult
  <2> HIDE DEF f
  <2>2. live'[r].result /\ \A q \in Runs : q # r => live'[q] = live[q]
    BY <1>0, <2>1, ResultKept
  <2> QED
    BY <1>0, <1>13, <2>2 DEF WriteResult, Become
<1>14. ASSUME NEW r \in Runs, WriteCompleted(r) PROVE ResultFirst' /\ CompletedHasResult'
  BY <1>0, <1>3, <1>4, <1>14 DEF WriteCompleted, Become
<1>15. ASSUME NEW r \in Runs, WriteEnded(r) PROVE ResultFirst' /\ CompletedHasResult'
  <2>1. PICK s \in {"stopped", "failed"} : WriteStatus(r, s)
    BY <1>15 DEF WriteEnded
  <2> QED
    BY <1>0, <1>3, <1>4, <1>15, <2>1 DEF WriteEnded, Become
<1>16. ASSUME NEW r \in Runs, MainRecords(r) PROVE ResultFirst' /\ CompletedHasResult'
  BY <1>0, <1>3, <1>4, <1>16 DEF MainRecords, Become
<1>17. ASSUME NEW r \in Runs,
              Boot(r) \/ Compute(r) \/ LastCheck(r) \/ MainReadsRequest(r) \/ MainReadsStatus(r)
                \/ Exit(r) \/ KillWorker(r)
       PROVE  ResultFirst' /\ CompletedHasResult'
  BY <1>0, <1>1, <1>17
     DEF Boot, Compute, LastCheck, MainReadsRequest, MainReadsStatus, Exit, KillWorker, Become, dirs
<1>18. ASSUME NEW t \in Threads,
              \/ Start(t) \/ StartList(t) \/ AdmitRead(t) \/ AdmitProbe(t) \/ StopProbe(t)
              \/ StopReread(t) \/ DeleteRead(t) \/ DeleteProbe(t) \/ ListProbe(t)
              \/ \E r \in Runs : Stop(t, r) \/ Delete(t, r) \/ List(t, r)
       PROVE  ResultFirst' /\ CompletedHasResult'
  BY <1>1, <1>18
     DEF Start, StartList, AdmitRead, AdmitProbe, StopProbe, StopReread, DeleteRead, DeleteProbe,
         ListProbe, Stop, Delete, List, dirs, workers
<1>19. CASE CrashServer \/ UNCHANGED vars
  BY <1>1, <1>19 DEF CrashServer, vars, dirs, workers
<1> QED
  BY <1>5, <1>6, <1>7, <1>8, <1>9, <1>10, <1>11, <1>12, <1>13, <1>14, <1>15, <1>16, <1>17, <1>18,
     <1>19 DEF Next, Request, StartStep, StopStep, DeleteStep, Worker

\* No completed status without its result: result.sqlite3 is written before
\* the status, and no request moves the directory away between the two.
THEOREM CompletedHasResultAlways ==
  ASSUME PsAnswers PROVE JobsSpec => []CompletedHasResult
<1>1. Init => JInv /\ ResultFirst /\ CompletedHasResult
  BY Initial DEF Init, NoDir, ResultFirst, CompletedHasResult
<1>2. JInv /\ ResultFirst /\ CompletedHasResult /\ [JobsNext]_vars
        => (JInv /\ ResultFirst /\ CompletedHasResult)'
  BY PsAnswers, Step, ResultStep DEF JobsNext
<1> QED
  BY <1>1, <1>2, PTL DEF JobsSpec
-----------------------------------------------------------------------------
\* Launch, stop and result leave request and status where they are; the
\* request's own document leaves the status.
LEMMA FileKeepsRequest ==
  ASSUME NEW d \in Directory
  PROVE  /\ \A f \in {[d EXCEPT !.launch = TRUE], [d EXCEPT !.stop = TRUE],
                      [d EXCEPT !.result = TRUE]} :
              f \in Directory /\ f.request = d.request /\ f.status = d.status
         /\ [d EXCEPT !.request = TRUE] \in Directory
         /\ [d EXCEPT !.request = TRUE].status = d.status
  BY DEF Directory

\* ExitRecorded is inductive as it stands, whatever ps answers and whenever the
\* server crashes: what the worker records of its end only a stop or an archive
\* changes.
LEMMA ExitStep == TypeOK /\ Working /\ ExitRecorded /\ [Next]_vars => ExitRecorded'
<1> SUFFICES ASSUME TypeOK, Working, ExitRecorded, [Next]_vars PROVE ExitRecorded'
  OBVIOUS
<1> USE DEF ExitRecorded
<1>0. live \in [Runs -> Directory] /\ wpc \in [Runs -> WorkerLabels]
  BY DEF TypeOK
<1>1. ASSUME UNCHANGED live,
             \A q \in Runs : wpc'[q] = "exit" =>
               wpc[q] = "exit" \/ ~live[q].request \/ live[q].status \in Terminal
      PROVE  ExitRecorded'
  BY <1>1
<1>2. ASSUME NEW r \in Runs, NEW f \in Directory, Write(r, f), f.status = live[r].status,
             f.request = live[r].request \/ wpc[r] = "none",
             \A q \in Runs : wpc'[q] = "exit" => wpc[q] = "exit"
      PROVE  ExitRecorded'
  BY <1>0, <1>2, ResultKept
<1>3. ASSUME NEW r \in Runs, NEW s \in Statuses, WriteStatus(r, s),
             s \in Terminal \/ wpc'[r] # "exit",
             \A q \in Runs : q # r /\ wpc'[q] = "exit" => wpc[q] = "exit"
      PROVE  ExitRecorded'
  BY <1>0, <1>3, StatusKeepsResult
<1>4. {"running", "failed", "stopped", "completed"} \subseteq Statuses
  BY DEF Statuses, Terminal
<1>5. {"failed", "stopped", "completed"} \subseteq Terminal
  BY DEF Terminal
<1>6. ASSUME NEW t \in Threads, CreateRun(t) PROVE ExitRecorded'
  BY <1>0, <1>2, <1>6, FileKeepsRequest DEF CreateRun, workers
<1>7. ASSUME NEW t \in Threads, Popen(t) PROVE ExitRecorded'
  <2>1. run[t] \in Runs
    BY <1>7 DEF Popen, Working, OnRun
  <2>2. CASE WriteStatus(run[t], "failed") /\ UNCHANGED wpc
    BY <1>3, <1>4, <1>5, <2>1, <2>2
  <2>3. CASE wpc' = [wpc EXCEPT ![run[t]] = "boot"] /\ UNCHANGED live
    BY <1>0, <1>1, <2>3
  <2> QED
    BY <1>7, <2>2, <2>3 DEF Popen
<1>8. ASSUME NEW t \in Threads, Launch(t) PROVE ExitRecorded'
  BY <1>0, <1>2, <1>8, FileKeepsRequest DEF Launch, Working, OnRun, workers
<1>9. ASSUME NEW t \in Threads, StopFile(t) PROVE ExitRecorded'
  BY <1>0, <1>2, <1>9, FileKeepsRequest DEF StopFile, Working, OnRun, workers
<1>10. ASSUME NEW t \in Threads, StopRecord(t) PROVE ExitRecorded'
  BY <1>0, <1>1, <1>3, <1>4, <1>5, <1>10 DEF StopRecord, Working, OnRun, workers
<1>11. ASSUME NEW t \in Threads, Archive(t) PROVE ExitRecorded'
  BY <1>0, <1>11 DEF Archive, NoDir, workers, Working, OnRun
<1>12. ASSUME NEW t \in Threads, Terminate(t) \/ KillAfterWait(t) PROVE ExitRecorded'
  <2>1. UNCHANGED live /\ (wpc' = wpc \/ wpc' = [wpc EXCEPT ![run[t]] = "dead"])
    BY <1>12 DEF Terminate, KillAfterWait, dirs, workers
  <2>2. \A q \in Runs : wpc'[q] = "exit" => wpc[q] = "exit"
    BY <1>0, <2>1
  <2> QED
    BY <1>1, <2>1, <2>2
<1>13. ASSUME NEW r \in Runs, Record(r) PROVE ExitRecorded'
  <2>1. CASE WriteStatus(r, "running") /\ Become(r, "training")
    BY <1>0, <1>3, <1>4, <2>1 DEF Become
  <2>2. CASE Become(r, "stopping") /\ UNCHANGED live
    BY <1>0, <1>1, <2>2 DEF Become
  <2> QED
    BY <1>13, <2>1, <2>2 DEF Record
<1>14. ASSUME NEW r \in Runs, WriteResult(r) PROVE ExitRecorded'
  BY <1>0, <1>2, <1>14, FileKeepsRequest DEF WriteResult, Become
<1>15. ASSUME NEW r \in Runs, WriteCompleted(r) PROVE ExitRecorded'
  BY <1>0, <1>3, <1>4, <1>5, <1>15 DEF WriteCompleted, Become
<1>16. ASSUME NEW r \in Runs, WriteEnded(r) PROVE ExitRecorded'
  <2>1. PICK s \in {"stopped", "failed"} : WriteStatus(r, s)
    BY <1>16 DEF WriteEnded
  <2> QED
    BY <1>0, <1>3, <1>4, <1>5, <1>16, <2>1 DEF WriteEnded, Become
<1>17. ASSUME NEW r \in Runs, MainRecords(r) PROVE ExitRecorded'
  BY <1>0, <1>3, <1>4, <1>5, <1>17 DEF MainRecords, Become
<1>18. ASSUME NEW r \in Runs,
              Boot(r) \/ Compute(r) \/ LastCheck(r) \/ MainReadsRequest(r) \/ MainReadsStatus(r)
                \/ Exit(r) \/ KillWorker(r)
       PROVE  ExitRecorded'
  BY <1>0, <1>1, <1>18
     DEF Boot, Compute, LastCheck, MainReadsRequest, MainReadsStatus, Exit, KillWorker, Become, dirs
<1>19. ASSUME NEW t \in Threads,
              \/ Start(t) \/ StartList(t) \/ AdmitRead(t) \/ AdmitProbe(t) \/ StopProbe(t)
              \/ StopReread(t) \/ DeleteRead(t) \/ DeleteProbe(t) \/ ListProbe(t)
              \/ \E r \in Runs : Stop(t, r) \/ Delete(t, r) \/ List(t, r)
       PROVE  ExitRecorded'
  BY <1>1, <1>19
     DEF Start, StartList, AdmitRead, AdmitProbe, StopProbe, StopReread, DeleteRead, DeleteProbe,
         ListProbe, Stop, Delete, List, dirs, workers
<1>20. CASE CrashServer \/ UNCHANGED vars
  BY <1>1, <1>20 DEF CrashServer, vars, dirs, workers
<1> QED
  BY <1>6, <1>7, <1>8, <1>9, <1>10, <1>11, <1>12, <1>13, <1>14, <1>15, <1>16, <1>17, <1>18, <1>19,
     <1>20 DEF Next, Request, StartStep, StopStep, DeleteStep, Worker

\* A worker that reaches its exit leaves a final status wherever its request
\* still is, with no assumption on ps or on crashes of the server.
THEOREM ExitRecordedAlways == Spec => []ExitRecorded
<1>1. Init => TypeOK /\ Working /\ ExitRecorded
  BY Initial DEF Init, JInv, ExitRecorded
<1>2. TypeOK /\ Working /\ ExitRecorded /\ [Next]_vars => (TypeOK /\ Working /\ ExitRecorded)'
  BY TypedStep, ExitStep
<1> QED
  BY <1>1, <1>2, PTL DEF Spec

-----------------------------------------------------------------------------
\* Only a worker that has ended has recorded completion, and the files a stop
\* has read of its job show the completion that is there.
Unfinished == \A r \in Runs : wpc[r] \notin {"exit", "dead"} => live[r].status # "completed"

RecordSeen ==
  \A t \in Threads : pc[t] = "record" /\ live[run[t]].status = "completed" =>
    seen[t].status = "completed"

\* What a step may do to a recorded completion.
CompletionStays ==
  \A r \in Runs : live[r].status = "completed" =>
    live'[r].status = "completed" \/ arch'[r] = live[r]

\* Completion is recorded by the worker that has written its result.
CompletionIsTheWorkers ==
  \A r \in Runs : live'[r].status = "completed" => live[r].status = "completed" \/ wpc[r] = "status"

\* Unfinished and CompletionStays follow from what each step writes; a stop
\* writes only over what RecordSeen has shown not to be a completion.
LEMMA CompletionStep == JInv /\ Unfinished /\ RecordSeen /\ [Next]_vars
                          => Unfinished' /\ CompletionStays /\ CompletionIsTheWorkers
<1> DEFINE Kept == Unfinished' /\ CompletionStays /\ CompletionIsTheWorkers
<1> SUFFICES ASSUME JInv, Unfinished, RecordSeen, [Next]_vars PROVE Kept
  OBVIOUS
<1>0. /\ live \in [Runs -> Directory] /\ arch \in [Runs -> Directory]
      /\ wpc \in [Runs -> WorkerLabels] /\ Working /\ Fresh
  BY DEF JInv, TypeOK
<1>1. ASSUME UNCHANGED live,
             \A q \in Runs : wpc[q] \in {"exit", "dead"} =>
               wpc'[q] \in {"exit", "dead"} \/ live[q].status # "completed"
      PROVE  Kept
  BY <1>1 DEF Unfinished, CompletionStays, CompletionIsTheWorkers
<1>2. ASSUME NEW r \in Runs, NEW f \in Directory, Write(r, f), f.status = live[r].status,
             \A q \in Runs : wpc[q] \in {"exit", "dead"} => wpc'[q] \in {"exit", "dead"}
      PROVE  Kept
  BY <1>0, <1>2, ResultKept DEF Unfinished, CompletionStays, CompletionIsTheWorkers
<1>3. ASSUME NEW r \in Runs, NEW s \in Statuses, WriteStatus(r, s),
             s = "completed" => wpc[r] = "status" /\ wpc'[r] = "exit",
             s = "completed" \/ live[r].status # "completed",
             \A q \in Runs : wpc[q] \in {"exit", "dead"} => wpc'[q] \in {"exit", "dead"}
      PROVE  Kept
  BY <1>0, <1>3, StatusKeepsResult DEF Unfinished, CompletionStays, CompletionIsTheWorkers
<1>4. {"running", "failed", "stopped", "completed"} \subseteq Statuses
  BY DEF Statuses, Terminal
<1>5. ASSUME NEW r \in Runs, wpc[r] \notin {"exit", "dead"} PROVE live[r].status # "completed"
  BY <1>5 DEF Unfinished
<1>6. ASSUME NEW t \in Threads, CreateRun(t) PROVE Kept
  BY <1>0, <1>2, <1>6, FileKeepsRequest DEF CreateRun, workers
<1>7. ASSUME NEW t \in Threads, Popen(t) PROVE Kept
  <2>1. run[t] \in Runs /\ wpc[run[t]] = "none" /\ live[run[t]].status = "none"
    BY <1>0, <1>7 DEF Popen, Working, OnRun, Fresh
  <2>2. CASE WriteStatus(run[t], "failed") /\ UNCHANGED wpc
    BY <1>3, <1>4, <2>1, <2>2
  <2>3. CASE wpc' = [wpc EXCEPT ![run[t]] = "boot"] /\ UNCHANGED live
    BY <1>0, <1>1, <2>1, <2>3
  <2> QED
    BY <1>7, <2>2, <2>3 DEF Popen
<1>8. ASSUME NEW t \in Threads, Launch(t) PROVE Kept
  BY <1>0, <1>2, <1>8, FileKeepsRequest DEF Launch, Working, OnRun, workers
<1>9. ASSUME NEW t \in Threads, StopFile(t) PROVE Kept
  BY <1>0, <1>2, <1>9, FileKeepsRequest DEF StopFile, Working, OnRun, workers
<1>10. ASSUME NEW t \in Threads, StopRecord(t) PROVE Kept
  <2>1. run[t] \in Runs /\ UNCHANGED wpc
    BY <1>0, <1>10 DEF StopRecord, Working, OnRun, workers
  <2>2. CASE UNCHANGED live
    BY <1>1, <2>1, <2>2
  <2>3. CASE seen[t].status # "completed" /\ WriteStatus(run[t], "stopped")
    <3>1. live[run[t]].status # "completed"
      BY <1>10, <2>3 DEF StopRecord, RecordSeen
    <3> QED
      BY <1>3, <1>4, <2>1, <2>3, <3>1
  <2> QED
    BY <1>10, <2>2, <2>3 DEF StopRecord
<1>11. ASSUME NEW t \in Threads, Archive(t) PROVE Kept
  BY <1>0, <1>11 DEF Archive, NoDir, workers, Working, OnRun, Unfinished, CompletionStays,
     CompletionIsTheWorkers
<1>12. ASSUME NEW t \in Threads, Terminate(t) \/ KillAfterWait(t) PROVE Kept
  <2>1. UNCHANGED live /\ (wpc' = wpc \/ wpc' = [wpc EXCEPT ![run[t]] = "dead"])
    BY <1>12 DEF Terminate, KillAfterWait, dirs, workers
  <2>2. \A q \in Runs : wpc[q] \in {"exit", "dead"} => wpc'[q] \in {"exit", "dead"}
    BY <1>0, <2>1
  <2> QED
    BY <1>1, <2>1, <2>2
<1>13. ASSUME NEW r \in Runs, Record(r) PROVE Kept
  <2>1. live[r].status # "completed" /\ wpc[r] \notin {"exit", "dead"}
    BY <1>5, <1>13 DEF Record
  <2>2. CASE WriteStatus(r, "running") /\ Become(r, "training")
    BY <1>0, <1>3, <1>4, <2>1, <2>2 DEF Become
  <2>3. CASE Become(r, "stopping") /\ UNCHANGED live
    BY <1>0, <1>1, <2>1, <2>3 DEF Become
  <2> QED
    BY <1>13, <2>2, <2>3 DEF Record
<1>14. ASSUME NEW r \in Runs, WriteResult(r) PROVE Kept
  BY <1>0, <1>2, <1>14, FileKeepsRequest DEF WriteResult, Become
<1>15. ASSUME NEW r \in Runs, WriteCompleted(r) PROVE Kept
  BY <1>0, <1>3, <1>4, <1>15 DEF WriteCompleted, Become
<1>16. ASSUME NEW r \in Runs, WriteEnded(r) PROVE Kept
  <2>1. PICK s \in {"stopped", "failed"} : WriteStatus(r, s)
    BY <1>16 DEF WriteEnded
  <2>2. live[r].status # "completed"
    BY <1>5, <1>16 DEF WriteEnded
  <2> QED
    BY <1>0, <1>3, <1>4, <1>16, <2>1, <2>2 DEF WriteEnded, Become
<1>17. ASSUME NEW r \in Runs, MainRecords(r) PROVE Kept
  <2>1. live[r].status # "completed"
    BY <1>5, <1>17 DEF MainRecords
  <2> QED
    BY <1>0, <1>3, <1>4, <1>17, <2>1 DEF MainRecords, Become
<1>18. ASSUME NEW r \in Runs,
              Boot(r) \/ Compute(r) \/ LastCheck(r) \/ MainReadsRequest(r) \/ MainReadsStatus(r)
                \/ Exit(r) \/ KillWorker(r)
       PROVE  Kept
  BY <1>0, <1>1, <1>18
     DEF Boot, Compute, LastCheck, MainReadsRequest, MainReadsStatus, Exit, KillWorker, Become, dirs
<1>19. ASSUME NEW t \in Threads,
              \/ Start(t) \/ StartList(t) \/ AdmitRead(t) \/ AdmitProbe(t) \/ StopProbe(t)
              \/ StopReread(t) \/ DeleteRead(t) \/ DeleteProbe(t) \/ ListProbe(t)
              \/ \E r \in Runs : Stop(t, r) \/ Delete(t, r) \/ List(t, r)
       PROVE  Kept
  BY <1>1, <1>19
     DEF Start, StartList, AdmitRead, AdmitProbe, StopProbe, StopReread, DeleteRead, DeleteProbe,
         ListProbe, Stop, Delete, List, dirs, workers
<1>20. CASE CrashServer \/ UNCHANGED vars
  BY <1>1, <1>20 DEF CrashServer, vars, dirs, workers
<1> QED
  BY <1>6, <1>7, <1>8, <1>9, <1>10, <1>11, <1>12, <1>13, <1>14, <1>15, <1>16, <1>17, <1>18, <1>19,
     <1>20 DEF Next, Request, StartStep, StopStep, DeleteStep, Worker

\* A thread at record has just read the files, or was there before.
LEMMA AtRecord ==
  ASSUME TypeOK, [Next]_vars, NEW t \in Threads, pc'[t] = "record"
  PROVE  \/ StopReread(t)
         \/ /\ pc[t] = "record"
            /\ run'[t] = run[t] /\ seen'[t] = seen[t]
<1> DEFINE There == pc[t] = "record" /\ run'[t] = run[t] /\ seen'[t] = seen[t]
<1>0. /\ pc \in [Threads -> ThreadLabels] /\ run \in [Threads -> Runs \union {NoRun}]
      /\ seen \in [Threads -> Directory] /\ left \in [Threads -> SUBSET Runs]
  BY DEF TypeOK
<1>1. ASSUME NEW s \in Threads, Reply(s) PROVE There
  BY <1>0, <1>1 DEF Reply, Goto
<1>2. ASSUME NEW s \in Threads, NEW r \in Runs, NEW l \in ThreadLabels \ {"record"}, Read(s, r, l)
      PROVE  There
  BY <1>0, <1>2 DEF Read, Goto
<1>3. ASSUME NEW s \in Threads, NEW l \in ThreadLabels \ {"record"}, Goto(s, l),
             UNCHANGED <<run, seen>>
      PROVE  There
  BY <1>0, <1>3 DEF Goto
<1>4. ASSUME UNCHANGED <<pc, run, seen>> PROVE There
  BY <1>4
<1> USE DEF ThreadLabels
<1>5. ASSUME NEW s \in Threads, StartStep(s) PROVE There
  BY <1>0, <1>1, <1>2, <1>3, <1>5
     DEF StartStep, StartList, AdmitRead, AdmitProbe, CreateRun, Popen, Launch, Read, Goto, locals
<1>6. ASSUME NEW s \in Threads, StopStep(s), ~StopReread(t) PROVE There
  <2>1. CASE StopReread(s)
    <3>1. s # t
      BY <1>6, <2>1
    <3> QED
      BY <1>0, <2>1, <3>1 DEF StopReread, Read, Goto
  <2>2. CASE StopProbe(s) \/ StopFile(s) \/ Terminate(s) \/ KillAfterWait(s) \/ StopRecord(s)
    BY <1>1, <1>3, <2>2 DEF StopProbe, StopFile, Terminate, KillAfterWait, StopRecord, locals
  <2> QED
    BY <1>6, <2>1, <2>2 DEF StopStep
<1>7. ASSUME NEW s \in Threads, DeleteStep(s) \/ ListProbe(s) PROVE There
  BY <1>0, <1>1, <1>3, <1>7
     DEF DeleteStep, DeleteRead, DeleteProbe, Archive, ListProbe, Read, Goto, locals
<1>8. ASSUME NEW s \in Threads, Request(s) PROVE There
  BY <1>0, <1>8 DEF Request, Start, Stop, Delete, List, Read, Goto, locals
<1>9. ASSUME NEW r \in Runs, Worker(r) \/ KillWorker(r) PROVE There
  BY <1>4, <1>9
     DEF Worker, Boot, Record, Compute, LastCheck, WriteResult, WriteCompleted, WriteEnded,
         MainReadsRequest, MainReadsStatus, MainRecords, Exit, KillWorker, locals
<1>10. CASE CrashServer
  BY <1>10 DEF CrashServer
<1>11. CASE UNCHANGED vars
  BY <1>4, <1>11 DEF vars, locals
<1> QED
  BY <1>5, <1>6, <1>7, <1>8, <1>9, <1>10, <1>11 DEF Next

\* What a stop has read stays true of its job: no worker is left to complete it.
LEMMA RecordSeenStep ==
  JInv /\ Unfinished /\ RecordSeen /\ [Next]_vars => RecordSeen'
<1> SUFFICES ASSUME JInv, Unfinished, RecordSeen, [Next]_vars,
                    NEW t \in Threads, pc'[t] = "record", live'[run'[t]].status = "completed"
             PROVE  seen'[t].status = "completed"
  BY DEF RecordSeen
<1>1. CASE StopReread(t)
  BY <1>1 DEF StopReread, Read, dirs, JInv, TypeOK, Working, OnRun
<1>2. CASE pc[t] = "record" /\ run'[t] = run[t] /\ seen'[t] = seen[t]
  <2>1. run[t] \in Runs /\ ~Alive(run[t])
    BY <1>2 DEF JInv, Working, OnRun, StoppedWorkerIsGone
  <2>2. wpc[run[t]] # "status"
    BY <2>1 DEF Alive
  <2>3. live[run[t]].status = "completed"
    BY <1>2, <2>1, <2>2, CompletionStep DEF CompletionIsTheWorkers
  <2> QED
    BY <1>2, <2>3 DEF RecordSeen
<1> QED
  BY <1>1, <1>2, AtRecord DEF JInv

\* A recorded completion is overwritten by no stop that races it and by no
\* error path of its worker, while ps answers.
THEOREM CompletionKeptAlways == ASSUME PsAnswers PROVE JobsSpec => CompletionKept
<1>1. Init => JInv /\ Unfinished /\ RecordSeen
  BY Initial DEF Init, NoDir, Unfinished, RecordSeen
<1>2. JInv /\ Unfinished /\ RecordSeen /\ [JobsNext]_vars => (JInv /\ Unfinished /\ RecordSeen)'
  BY PsAnswers, Step, CompletionStep, RecordSeenStep DEF JobsNext
<1>3. JInv /\ Unfinished /\ RecordSeen /\ [JobsNext]_vars
        => [\A r \in Runs : live[r].status = "completed" =>
              live'[r].status = "completed" \/ arch'[r] = live[r]]_vars
  BY CompletionStep DEF JobsNext, CompletionStays
<1> QED
  BY <1>1, <1>2, <1>3, PTL DEF JobsSpec, CompletionKept
-----------------------------------------------------------------------------
\* The steps of a worker that is to stop to the end of its computation.
CheckpointsAhead(l) ==
  CASE l = "boot"     -> 6
    [] l = "loading"  -> 5
    [] l = "training" -> 4
    [] l = "last"     -> 3
    [] l = "result"   -> 2
    [] l = "status"   -> 1
    [] OTHER          -> 0

\* A stop request stays filed while the worker trains, each step of the worker
\* brings it nearer to its end, and nothing gives it more to do.
StopAdvances ==
  \A r \in Runs : live[r].stop /\ Training(r) =>
    /\ live'[r].stop
    /\ CheckpointsAhead(wpc'[r]) <= CheckpointsAhead(wpc[r])
    /\ Worker(r) => CheckpointsAhead(wpc'[r]) < CheckpointsAhead(wpc[r])

\* (its values)
LEMMA CheckpointsAheadAre ==
  /\ CheckpointsAhead("boot") = 6 /\ CheckpointsAhead("loading") = 5
  /\ CheckpointsAhead("training") = 4 /\ CheckpointsAhead("last") = 3
  /\ CheckpointsAhead("result") = 2 /\ CheckpointsAhead("status") = 1
  /\ CheckpointsAhead("stopping") = 0 /\ CheckpointsAhead("failing") = 0
  /\ CheckpointsAhead("main") = 0 /\ CheckpointsAhead("exit") = 0
  /\ CheckpointsAhead("dead") = 0
BY DEF CheckpointsAhead

\* (and their range)
LEMMA CheckpointsAheadNat == \A l \in WorkerLabels : CheckpointsAhead(l) \in 0..6
BY DEF CheckpointsAhead, WorkerLabels

\* No write of another file takes the stop request away.
LEMMA FileKeepsStop ==
  ASSUME NEW d \in Directory
  PROVE  /\ [d EXCEPT !.request = TRUE] \in Directory
         /\ [d EXCEPT !.request = TRUE].stop = d.stop
         /\ [d EXCEPT !.launch = TRUE] \in Directory
         /\ [d EXCEPT !.launch = TRUE].stop = d.stop
         /\ [d EXCEPT !.result = TRUE] \in Directory
         /\ [d EXCEPT !.result = TRUE].stop = d.stop
         /\ [d EXCEPT !.stop = TRUE] \in Directory
         /\ [d EXCEPT !.stop = TRUE].stop
         /\ \A s \in Statuses : /\ [d EXCEPT !.status = s] \in Directory
                                /\ [d EXCEPT !.status = s].stop = d.stop
BY DEF Directory

\* (for the directory a write leaves)
LEMMA StopKept ==
  ASSUME live \in [Runs -> Directory], NEW r \in Runs, NEW q \in Runs, NEW f \in Directory,
         live[r].stop, f.stop \/ f.stop = live[q].stop, Write(q, f)
  PROVE  live'[r].stop
<1> DEFINE new == [f EXCEPT !.exists = TRUE]
<1>1. new.stop = f.stop
  BY DEF Directory
<1>2. live' = [live EXCEPT ![q] = new]
  BY DEF Write
<1> HIDE DEF new
<1> QED
  BY <1>1, <1>2

\* (for a status)
LEMMA StatusKeepsStop ==
  ASSUME live \in [Runs -> Directory], NEW r \in Runs, NEW q \in Runs, NEW s \in Statuses,
         live[r].stop, WriteStatus(q, s)
  PROVE  live'[r].stop
<1> DEFINE f == [live[q] EXCEPT !.status = s]
<1>1. f \in Directory /\ f.stop = live[q].stop /\ Write(q, f)
  BY FileKeepsStop DEF WriteStatus
<1> HIDE DEF f
<1> QED
  BY <1>1, StopKept

\* Nobody withdraws the stop request of a job that trains: only an archive takes
\* it out of the directory, and such a job is not archived.
LEMMA StopSurvives ==
  ASSUME JInv, Next, NEW r \in Runs, live[r].stop, Training(r)
  PROVE  live'[r].stop
<1>0. /\ live \in [Runs -> Directory] /\ Working /\ Renaming
  BY DEF JInv, TypeOK
<1>1. ASSUME UNCHANGED live  PROVE live'[r].stop
  BY <1>1
<1>2. ASSUME NEW q \in Runs, NEW f \in Directory, Write(q, f), f.stop \/ f.stop = live[q].stop
      PROVE  live'[r].stop
  BY <1>0, <1>2, StopKept
<1>3. ASSUME NEW q \in Runs, NEW s \in Statuses, WriteStatus(q, s)  PROVE live'[r].stop
  BY <1>0, <1>3, StatusKeepsStop
<1>4. {"running", "failed", "stopped", "completed"} \subseteq Statuses
  BY DEF Statuses, Terminal
<1>f. \A q \in Runs :
        /\ [live[q] EXCEPT !.request = TRUE] \in Directory
        /\ [live[q] EXCEPT !.request = TRUE].stop = live[q].stop
        /\ [live[q] EXCEPT !.launch = TRUE] \in Directory
        /\ [live[q] EXCEPT !.launch = TRUE].stop = live[q].stop
        /\ [live[q] EXCEPT !.result = TRUE] \in Directory
        /\ [live[q] EXCEPT !.result = TRUE].stop = live[q].stop
        /\ [live[q] EXCEPT !.stop = TRUE] \in Directory
        /\ [live[q] EXCEPT !.stop = TRUE].stop
  <2> SUFFICES ASSUME NEW q \in Runs
               PROVE  /\ [live[q] EXCEPT !.request = TRUE] \in Directory
                      /\ [live[q] EXCEPT !.request = TRUE].stop = live[q].stop
                      /\ [live[q] EXCEPT !.launch = TRUE] \in Directory
                      /\ [live[q] EXCEPT !.launch = TRUE].stop = live[q].stop
                      /\ [live[q] EXCEPT !.result = TRUE] \in Directory
                      /\ [live[q] EXCEPT !.result = TRUE].stop = live[q].stop
                      /\ [live[q] EXCEPT !.stop = TRUE] \in Directory
                      /\ [live[q] EXCEPT !.stop = TRUE].stop
    OBVIOUS
  <2>1. live[q] \in Directory
    BY <1>0
  <2> QED
    BY <2>1, FileKeepsStop
<1>5. ASSUME NEW t \in Threads, CreateRun(t)  PROVE live'[r].stop
  BY <1>2, <1>5, <1>f DEF CreateRun
<1>6. ASSUME NEW t \in Threads, Popen(t)  PROVE live'[r].stop
  <2>1. run[t] \in Runs
    BY <1>0, <1>6 DEF Popen, Working, OnRun
  <2> QED
    BY <1>1, <1>3, <1>4, <1>6, <2>1 DEF Popen
<1>7. ASSUME NEW t \in Threads, Launch(t) \/ StopFile(t)  PROVE live'[r].stop
  <2>1. run[t] \in Runs
    BY <1>0, <1>7 DEF Launch, StopFile, Working, OnRun
  <2> QED
    BY <1>2, <1>7, <1>f, <2>1 DEF Launch, StopFile
<1>8. ASSUME NEW t \in Threads, StopRecord(t)  PROVE live'[r].stop
  BY <1>0, <1>1, <1>3, <1>4, <1>8 DEF StopRecord, Working, OnRun
<1>9. ASSUME NEW t \in Threads, Archive(t)  PROVE live'[r].stop
  <2>1. run[t] \in Runs /\ run[t] # r
    BY <1>0, <1>9 DEF Archive, Renaming, Working, OnRun
  <2> QED
    BY <1>0, <1>9, <2>1 DEF Archive
<1>10. ASSUME NEW q \in Runs, Record(q)  PROVE live'[r].stop
  BY <1>1, <1>3, <1>4, <1>10 DEF Record
<1>11. ASSUME NEW q \in Runs, WriteResult(q)  PROVE live'[r].stop
  BY <1>2, <1>11, <1>f DEF WriteResult
<1>12. ASSUME NEW q \in Runs, WriteCompleted(q) \/ MainRecords(q)  PROVE live'[r].stop
  BY <1>3, <1>4, <1>12 DEF WriteCompleted, MainRecords
<1>13. ASSUME NEW q \in Runs, WriteEnded(q)  PROVE live'[r].stop
  <2>1. PICK s \in {"stopped", "failed"} : WriteStatus(q, s)
    BY <1>13 DEF WriteEnded
  <2> QED
    BY <1>3, <1>4, <2>1
<1>14. ASSUME NEW q \in Runs,
              Boot(q) \/ Compute(q) \/ LastCheck(q) \/ MainReadsRequest(q) \/ MainReadsStatus(q)
                \/ Exit(q) \/ KillWorker(q)
       PROVE  live'[r].stop
  BY <1>1, <1>14
     DEF Boot, Compute, LastCheck, MainReadsRequest, MainReadsStatus, Exit, KillWorker, dirs
<1>15. ASSUME NEW t \in Threads,
              \/ Start(t) \/ StartList(t) \/ AdmitRead(t) \/ AdmitProbe(t) \/ StopProbe(t)
              \/ Terminate(t) \/ KillAfterWait(t) \/ StopReread(t) \/ DeleteRead(t)
              \/ DeleteProbe(t) \/ ListProbe(t)
              \/ \E q \in Runs : Stop(t, q) \/ Delete(t, q) \/ List(t, q)
       PROVE  live'[r].stop
  BY <1>1, <1>15
     DEF Start, StartList, AdmitRead, AdmitProbe, StopProbe, Terminate, KillAfterWait, StopReread,
         DeleteRead, DeleteProbe, ListProbe, Stop, Delete, List, dirs
<1>16. CASE CrashServer
  BY <1>1, <1>16 DEF CrashServer, dirs
<1> QED
  BY <1>5, <1>6, <1>7, <1>8, <1>9, <1>10, <1>11, <1>12, <1>13, <1>14, <1>15, <1>16
     DEF Next, Request, StartStep, StopStep, DeleteStep, Worker

\* A worker that is to stop does not go back to computing.
LEMMA StoppedWorker ==
  ASSUME TypeOK, NEW r \in Runs, live[r].stop, Training(r), Worker(r)
  PROVE  CheckpointsAhead(wpc'[r]) < CheckpointsAhead(wpc[r])
<1>0. wpc \in [Runs -> WorkerLabels] /\ Cancelled(r)
  BY DEF TypeOK, Cancelled
<1>1. CASE Boot(r)
  BY <1>0, <1>1, CheckpointsAheadAre DEF Boot, Become
<1>2. CASE Record(r)
  BY <1>0, <1>2, CheckpointsAheadAre DEF Record, Become
<1>3. CASE Compute(r)
  BY <1>0, <1>3, CheckpointsAheadAre DEF Compute, Become
<1>4. CASE LastCheck(r)
  BY <1>0, <1>4, CheckpointsAheadAre DEF LastCheck, Become
<1>5. CASE WriteResult(r)
  BY <1>0, <1>5, CheckpointsAheadAre DEF WriteResult, Become
<1>6. CASE WriteCompleted(r)
  BY <1>0, <1>6, CheckpointsAheadAre DEF WriteCompleted, Become
<1>7. CASE WriteEnded(r) \/ MainReadsRequest(r) \/ MainReadsStatus(r) \/ MainRecords(r) \/ Exit(r)
  BY <1>7 DEF Training, WriteEnded, MainReadsRequest, MainReadsStatus, MainRecords, Exit
<1> QED
  BY <1>1, <1>2, <1>3, <1>4, <1>5, <1>6, <1>7 DEF Worker

\* What others do to a worker that trains is to kill it.
LEMMA WorkerLeftAlone ==
  ASSUME JInv, Next, NEW r \in Runs, Training(r), ~Worker(r)
  PROVE  wpc'[r] = wpc[r] \/ wpc'[r] = "dead"
<1>0. wpc \in [Runs -> WorkerLabels] /\ Working /\ Fresh
  BY DEF JInv, TypeOK
<1>1. ASSUME NEW t \in Threads, Popen(t)  PROVE wpc'[r] = wpc[r]
  <2>1. run[t] # r
    BY <1>0, <1>1 DEF Popen, Fresh
  <2> QED
    BY <1>0, <1>1, <2>1 DEF Popen
<1>2. ASSUME NEW t \in Threads, Terminate(t) \/ KillAfterWait(t)
      PROVE  wpc'[r] = wpc[r] \/ wpc'[r] = "dead"
  <2>1. wpc' = wpc \/ wpc' = [wpc EXCEPT ![run[t]] = "dead"]
    BY <1>2 DEF Terminate, KillAfterWait, workers
  <2> QED
    BY <1>0, <2>1
<1>3. ASSUME NEW q \in Runs, Worker(q)  PROVE wpc'[r] = wpc[r]
  <2>1. q # r
    BY <1>3
  <2>2. \E l \in WorkerLabels : wpc' = [wpc EXCEPT ![q] = l]
    BY <1>3 DEF Worker, Boot, Record, Compute, LastCheck, WriteResult, WriteCompleted, WriteEnded,
       MainReadsRequest, MainReadsStatus, MainRecords, Exit, Become, WorkerLabels
  <2> QED
    BY <1>0, <2>1, <2>2
<1>4. ASSUME NEW q \in Runs, KillWorker(q)  PROVE wpc'[r] = wpc[r] \/ wpc'[r] = "dead"
  BY <1>0, <1>4 DEF KillWorker, Become
<1>5. ASSUME NEW t \in Threads,
             \/ Request(t) \/ StartList(t) \/ AdmitRead(t) \/ AdmitProbe(t) \/ CreateRun(t)
             \/ Launch(t) \/ StopProbe(t) \/ StopFile(t) \/ StopReread(t) \/ StopRecord(t)
             \/ DeleteStep(t) \/ ListProbe(t)
      PROVE  wpc'[r] = wpc[r]
  BY <1>5
     DEF Request, Start, Stop, Delete, List, StartList, AdmitRead, AdmitProbe, CreateRun, Launch,
         StopProbe, StopFile, StopReread, StopRecord, DeleteStep, DeleteRead, DeleteProbe, Archive,
         ListProbe, workers
<1>6. CASE CrashServer
  BY <1>6 DEF CrashServer, workers
<1> QED
  BY <1>1, <1>2, <1>3, <1>4, <1>5, <1>6 DEF Next, StartStep, StopStep

\* A worker whose stop was filed takes at most six steps more before its
\* computation has ended, whoever else acts on the job and whether or not the
\* server that filed it lives on (check_cancel, record).
THEOREM StopAdvancesAlways == ASSUME PsAnswers PROVE JobsSpec => [][StopAdvances]_vars
<1>1. JInv /\ [JobsNext]_vars => [StopAdvances]_vars
  <2> SUFFICES ASSUME JInv, Next, NEW r \in Runs, live[r].stop, Training(r)
               PROVE  /\ live'[r].stop
                      /\ CheckpointsAhead(wpc'[r]) <= CheckpointsAhead(wpc[r])
                      /\ Worker(r) => CheckpointsAhead(wpc'[r]) < CheckpointsAhead(wpc[r])
    BY DEF JobsNext, StopAdvances
  <2>1. TypeOK /\ TypeOK'
    BY TypedStep DEF JInv
  <2>2. CheckpointsAhead(wpc[r]) \in 0..6 /\ CheckpointsAhead(wpc'[r]) \in 0..6
    BY <2>1, CheckpointsAheadNat DEF TypeOK
  <2>3. live'[r].stop
    BY StopSurvives
  <2>4. CASE Worker(r)
    <3>1. CheckpointsAhead(wpc'[r]) < CheckpointsAhead(wpc[r])
      BY <2>1, <2>4, StoppedWorker
    <3> QED
      BY <2>2, <2>3, <3>1
  <2>5. CASE ~Worker(r)
    <3>1. wpc'[r] = wpc[r] \/ wpc'[r] = "dead"
      BY <2>5, WorkerLeftAlone
    <3> QED
      BY <2>2, <2>3, <2>5, <3>1, CheckpointsAheadAre
  <2> QED
    BY <2>4, <2>5
<1> QED
  BY <1>1, Inductive, PTL DEF JobsSpec
=============================================================================
