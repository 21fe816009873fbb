------------------------- MODULE PriceFieldTraining -------------------------
(***************************************************************************)
(* The life of the durable probability-model training jobs:                *)
(* PriceFieldTrainingManager (app/services/research/price_field_training)  *)
(* run by the threads of the web server, and the detached worker process   *)
(* of scripts/price_field_train.py that each job starts.  They share only  *)
(* the job's directory, the workspace lock and the process table.          *)
(*                                                                         *)
(* A job's directory is the set of facts its files state.  write_json      *)
(* creates the directory when it is missing (object_sqlite._save), so a    *)
(* write after the directory was archived makes a new one.                 *)
(***************************************************************************)
EXTENDS Naturals, FiniteSets

CONSTANTS Threads,          \* request handlers of the web server
          NoThread,         \* nobody
          Runs,             \* job identifiers (secrets.token_hex)
          NoRun,            \* no job
          MaxRequests,      \* bound: requests the server accepts
          MaxWorkerKills,   \* bound: workers killed from outside
          MaxServerCrashes, \* bound: crashes of the web server
          MaxProbeFailures  \* bound: calls of ps that fail or time out

ASSUME TrainingAssumption ==
  /\ NoThread \notin Threads /\ NoRun \notin Runs
  /\ {MaxRequests, MaxWorkerKills, MaxServerCrashes, MaxProbeFailures} \subseteq Nat

VARIABLES lock,    \* the thread that holds workspace.lock
          live,    \* the job directories in the workspace
          arch,    \* the job directories under .deleted
          wpc,     \* where each worker process is in price_field_train
          cancel,  \* the workers whose signal handler has run
          pc,      \* where each thread is
          run,     \* the job it works on
          seen,    \* the files of the job as it has read them
          left,    \* the jobs start has not yet found inactive
          served,  \* requests accepted so far
          faults   \* kills, crashes and failed probes so far

dirs == <<live, arch>>
workers == <<wpc, cancel>>
locals == <<run, seen, left>>
vars == <<lock, dirs, workers, pc, locals, served, faults>>

NoDir == [exists |-> FALSE, request |-> FALSE, launch |-> FALSE, stop |-> FALSE,
          status |-> "none", result |-> FALSE]

\* write_object creates the directory of the file it writes.
Write(r, files) == live' = [live EXCEPT ![r] = [files EXCEPT !.exists = TRUE]]

WriteStatus(r, status) == Write(r, [live[r] EXCEPT !.status = status])

Alive(r) == wpc[r] \notin {"none", "dead"}

\* The phases in which a worker computes or is about to.
Training(r) == wpc[r] \in {"boot", "loading", "training", "last", "result", "status"}

\* run has installed its signal handlers and not yet restored the old ones.
Handling(r) ==
  wpc[r] \in {"loading", "training", "last", "result", "status", "stopping", "failing"}

Terminal == {"completed", "stopped", "failed"}

Goto(t, l) == pc' = [pc EXCEPT ![t] = l]

\* The request is answered.
Reply(t) ==
  /\ Goto(t, "idle")
  /\ run' = [run EXCEPT ![t] = NoRun]
  /\ seen' = [seen EXCEPT ![t] = NoDir]
  /\ left' = [left EXCEPT ![t] = {}]

\* The thread goes on working on job r, whose files it has just read.
Read(t, r, l) ==
  /\ Goto(t, l)
  /\ run' = [run EXCEPT ![t] = r]
  /\ seen' = [seen EXCEPT ![t] = live[r]]

\* read_run: a status other than the terminal ones needs a live process, and
\* completion needs the result document.
Effective(files, matches) ==
  CASE files.status \in {"none", "running"} /\ matches -> "active"
    [] files.status \in {"none", "running"} /\ ~matches -> "stale"
    [] files.status = "completed" /\ ~files.result -> "failed"
    [] OTHER -> files.status

\* process_matches: ps shows the worker's command line; the pid is known from
\* launch.sqlite3 only, and a failed or timed-out ps reads as no match.
Probe(t, matches) ==
  \/ /\ matches = (seen[t].launch /\ Alive(run[t]))
     /\ UNCHANGED faults
  \/ /\ faults.probes < MaxProbeFailures
     /\ matches = FALSE
     /\ faults' = [faults EXCEPT !.probes = @ + 1]

Init ==
  /\ lock = NoThread
  /\ live = [r \in Runs |-> NoDir]
  /\ arch = [r \in Runs |-> NoDir]
  /\ wpc = [r \in Runs |-> "none"]
  /\ cancel = {}
  /\ pc = [t \in Threads |-> "idle"]
  /\ run = [t \in Threads |-> NoRun]
  /\ seen = [t \in Threads |-> NoDir]
  /\ left = [t \in Threads |-> {}]
  /\ served = 0
  /\ faults = [kills |-> 0, crashes |-> 0, probes |-> 0]

-----------------------------------------------------------------------------
(* start *)

\* A start request has been validated and waits for workspace.lock.
Start(t) ==
  /\ pc[t] = "idle" /\ served < MaxRequests
  /\ served' = served + 1
  /\ Goto(t, "start")
  /\ UNCHANGED <<lock, dirs, workers, locals, faults>>

\* Mutant of StartList: admission is decided without workspace.lock.
StartListUnlocked(t) ==
  /\ pc[t] = "start"
  /\ left' = [left EXCEPT ![t] = {r \in Runs : live[r].exists}]
  /\ Goto(t, "admit")
  /\ UNCHANGED <<lock, dirs, workers, run, seen, served, faults>>

\* Under the lock, list_runs lists the job directories.
StartList(t) ==
  /\ pc[t] = "start" /\ lock = NoThread
  /\ lock' = t
  /\ left' = [left EXCEPT ![t] = {r \in Runs : live[r].exists}]
  /\ Goto(t, "admit")
  /\ UNCHANGED <<dirs, workers, run, seen, served, faults>>

\* read_run of one of them: its files, then the process table.
AdmitRead(t) ==
  /\ pc[t] = "admit"
  /\ \E r \in left[t] : Read(t, r, "probe")
  /\ UNCHANGED <<lock, dirs, workers, left, served, faults>>

\* An active job is a PriceFieldTrainingConflict.
AdmitProbe(t) ==
  /\ pc[t] = "probe"
  /\ \E matches \in BOOLEAN :
       /\ Probe(t, matches)
       /\ \/ /\ Effective(seen[t], matches) = "active"
             /\ Reply(t)
             /\ lock' = NoThread
          \/ /\ Effective(seen[t], matches) # "active"
             /\ Goto(t, "admit")
             /\ left' = [left EXCEPT ![t] = @ \ {run[t]}]
             /\ UNCHANGED <<lock, run, seen>>
  /\ UNCHANGED <<dirs, workers, served>>

\* No job is active: a fresh directory with its request.
CreateRun(t) ==
  /\ pc[t] = "admit" /\ left[t] = {}
  /\ \E r \in Runs :
       /\ ~live[r].exists /\ ~arch[r].exists /\ wpc[r] = "none"
       /\ run' = [run EXCEPT ![t] = r]
       /\ Write(r, [live[r] EXCEPT !.request = TRUE])
  /\ Goto(t, "popen")
  /\ UNCHANGED <<lock, arch, workers, seen, left, served, faults>>

\* subprocess.Popen in a session of its own, or an OSError recorded as failed.
Popen(t) ==
  /\ pc[t] = "popen"
  /\ \/ /\ wpc' = [wpc EXCEPT ![run[t]] = "boot"]
        /\ Goto(t, "launch")
        /\ UNCHANGED <<live, lock, locals>>
     \/ /\ WriteStatus(run[t], "failed")
        /\ lock' = NoThread
        /\ Reply(t)
        /\ UNCHANGED wpc
  /\ UNCHANGED <<arch, cancel, served, faults>>

\* launch.sqlite3 records the pid; the lock is released.
Launch(t) ==
  /\ pc[t] = "launch"
  /\ Write(run[t], [live[run[t]] EXCEPT !.launch = TRUE])
  /\ lock' = NoThread
  /\ Reply(t)
  /\ UNCHANGED <<arch, workers, served, faults>>

-----------------------------------------------------------------------------
(* stop: it takes no lock *)

\* _path found the directory; read_run reads the files.
Stop(t, r) ==
  /\ pc[t] = "idle" /\ served < MaxRequests
  /\ live[r].exists
  /\ served' = served + 1
  /\ Read(t, r, "stop")
  /\ UNCHANGED <<lock, dirs, workers, left, faults>>

\* The process is looked up twice: by read_run, then by stop itself.
StopProbe(t) ==
  /\ pc[t] \in {"stop", "stop2"}
  /\ \E matches \in BOOLEAN :
       /\ Probe(t, matches)
       /\ \/ /\ Effective(seen[t], matches) # "active"
             /\ Reply(t)
          \/ /\ Effective(seen[t], matches) = "active"
             /\ Goto(t, IF pc[t] = "stop" THEN "stop2" ELSE "file")
             /\ UNCHANGED locals
  /\ UNCHANGED <<lock, dirs, workers, served>>

StopFile(t) ==
  /\ pc[t] = "file"
  /\ Write(run[t], [live[run[t]] EXCEPT !.stop = TRUE])
  /\ Goto(t, "term")
  /\ UNCHANGED <<lock, arch, workers, locals, served, faults>>

\* SIGTERM to the process group: it sets a flag while run's handler is
\* installed, and is fatal before and after.
Terminate(t) ==
  /\ pc[t] = "term"
  /\ \/ ~Alive(run[t]) /\ Goto(t, "reread") /\ UNCHANGED workers
     \/ /\ Handling(run[t])
        /\ cancel' = cancel \union {run[t]}
        /\ Goto(t, "wait")
        /\ UNCHANGED wpc
     \/ /\ Alive(run[t]) /\ ~Handling(run[t])
        /\ wpc' = [wpc EXCEPT ![run[t]] = "dead"]
        /\ Goto(t, "wait")
        /\ UNCHANGED cancel
  /\ UNCHANGED <<lock, dirs, locals, served, faults>>

\* Mutant of KillAfterWait: a process that ignores SIGTERM is left alone.
WaitOnly(t) ==
  /\ pc[t] = "wait"
  /\ Goto(t, "reread")
  /\ UNCHANGED <<lock, dirs, workers, locals, served, faults>>

\* Two seconds have passed or the process is gone; SIGKILL if it is not.
KillAfterWait(t) ==
  /\ pc[t] = "wait"
  /\ \E matches \in BOOLEAN :
       /\ Probe(t, matches)
       /\ wpc' = IF matches THEN [wpc EXCEPT ![run[t]] = "dead"] ELSE wpc
  /\ Goto(t, "reread")
  /\ UNCHANGED <<lock, dirs, cancel, locals, served>>

StopReread(t) ==
  /\ pc[t] = "reread"
  /\ Read(t, run[t], "record")
  /\ UNCHANGED <<lock, dirs, workers, left, served, faults>>

\* Mutant of StopRecord: the status is replaced whatever it is.
StopRecordAlways(t) ==
  /\ pc[t] = "record"
  /\ WriteStatus(run[t], "stopped")
  /\ Reply(t)
  /\ UNCHANGED <<lock, arch, workers, served, faults>>

\* Any status but completed is replaced by stopped.
StopRecord(t) ==
  /\ pc[t] = "record"
  /\ \/ seen[t].status = "completed" /\ UNCHANGED live
     \/ seen[t].status # "completed" /\ WriteStatus(run[t], "stopped")
  /\ Reply(t)
  /\ UNCHANGED <<lock, arch, workers, served, faults>>

-----------------------------------------------------------------------------
(* delete and list *)

\* _path found the directory; delete waits for workspace.lock.
Delete(t, r) ==
  /\ pc[t] = "idle" /\ served < MaxRequests
  /\ live[r].exists
  /\ served' = served + 1
  /\ run' = [run EXCEPT ![t] = r]
  /\ Goto(t, "delete")
  /\ UNCHANGED <<lock, dirs, workers, seen, left, faults>>

DeleteRead(t) ==
  /\ pc[t] = "delete" /\ lock = NoThread
  /\ lock' = t
  /\ Read(t, run[t], "inactive")
  /\ UNCHANGED <<dirs, workers, left, served, faults>>

\* Mutant of DeleteProbe: an active job is no conflict.
DeleteProbeArchiveOnly(t) ==
  /\ pc[t] = "inactive"
  /\ \/ arch[run[t]].exists /\ Reply(t) /\ lock' = NoThread
     \/ ~arch[run[t]].exists /\ Goto(t, "rename") /\ UNCHANGED <<lock, locals>>
  /\ UNCHANGED <<dirs, workers, served, faults>>

\* An active job and an archive of the same name are conflicts; a directory
\* that another request has archived cannot be renamed.
DeleteProbe(t) ==
  /\ pc[t] = "inactive"
  /\ \E matches \in BOOLEAN :
       /\ Probe(t, matches)
       /\ LET refused == \/ Effective(seen[t], matches) = "active"
                         \/ arch[run[t]].exists
                         \/ ~live[run[t]].exists
          IN  \/ refused /\ Reply(t) /\ lock' = NoThread
              \/ ~refused /\ Goto(t, "rename") /\ UNCHANGED <<lock, locals>>
  /\ UNCHANGED <<dirs, workers, served>>

Archive(t) ==
  /\ pc[t] = "rename"
  /\ arch' = [arch EXCEPT ![run[t]] = live[run[t]]]
  /\ live' = [live EXCEPT ![run[t]] = NoDir]
  /\ lock' = NoThread
  /\ Reply(t)
  /\ UNCHANGED <<workers, served, faults>>

\* The history page reads a job: the files first, the process table after.
List(t, r) ==
  /\ pc[t] = "idle" /\ served < MaxRequests
  /\ live[r].exists
  /\ served' = served + 1
  /\ Read(t, r, "list")
  /\ UNCHANGED <<lock, dirs, workers, left, faults>>

ListProbe(t) ==
  /\ pc[t] = "list"
  /\ \E matches \in BOOLEAN : Probe(t, matches)
  /\ Reply(t)
  /\ UNCHANGED <<lock, dirs, workers, served>>

-----------------------------------------------------------------------------
(* the worker process *)

Become(r, l) == wpc' = [wpc EXCEPT ![r] = l]

\* Mutant of Cancelled: the worker looks at its signal flag only.
CancelledBySignal(r) == r \in cancel

\* cancellation_requested: the signal handler ran or the stop file is there.
Cancelled(r) == r \in cancel \/ live[r].stop

\* run validates the request and the runtime, then installs its handlers; a
\* failure here is recorded by main.
Boot(r) ==
  /\ wpc[r] = "boot"
  /\ \/ live[r].request /\ Become(r, "loading")
     \/ Become(r, "main")
  /\ UNCHANGED <<lock, dirs, cancel, pc, locals, served, faults>>

\* record: check_cancel, then write the running status.
Record(r) ==
  /\ wpc[r] \in {"loading", "training"}
  /\ IF Cancelled(r)
     THEN Become(r, "stopping") /\ UNCHANGED live
     ELSE WriteStatus(r, "running") /\ Become(r, "training")
  /\ UNCHANGED <<lock, arch, cancel, pc, locals, served, faults>>

\* compute_signals ends: with a result, cancelled, or with an error.
Compute(r) ==
  /\ wpc[r] = "training"
  /\ \/ Become(r, "last")
     \/ Cancelled(r) /\ Become(r, "stopping")
     \/ Become(r, "failing")
  /\ UNCHANGED <<lock, dirs, cancel, pc, locals, served, faults>>

\* The last check_cancel, and the validation of the diagnostics.
LastCheck(r) ==
  /\ wpc[r] = "last"
  /\ \/ Cancelled(r) /\ Become(r, "stopping")
     \/ ~Cancelled(r) /\ Become(r, "result")
     \/ ~Cancelled(r) /\ Become(r, "failing")
  /\ UNCHANGED <<lock, dirs, cancel, pc, locals, served, faults>>

WriteResult(r) ==
  /\ wpc[r] = "result"
  /\ Write(r, [live[r] EXCEPT !.result = TRUE])
  /\ Become(r, "status")
  /\ UNCHANGED <<lock, arch, cancel, pc, locals, served, faults>>

WriteCompleted(r) ==
  /\ wpc[r] = "status"
  /\ WriteStatus(r, "completed")
  /\ Become(r, "exit")
  /\ UNCHANGED <<lock, arch, cancel, pc, locals, served, faults>>

\* The except clause of run records how it ended and re-raises.
WriteEnded(r) ==
  /\ wpc[r] \in {"stopping", "failing"}
  /\ WriteStatus(r, IF wpc[r] = "stopping" THEN "stopped" ELSE "failed")
  /\ Become(r, "main")
  /\ UNCHANGED <<lock, arch, cancel, pc, locals, served, faults>>

\* main reads the request again; without it nothing is recorded.
MainReadsRequest(r) ==
  /\ wpc[r] = "main"
  /\ Become(r, IF live[r].request THEN "main2" ELSE "exit")
  /\ UNCHANGED <<lock, dirs, cancel, pc, locals, served, faults>>

\* Mutant of MainReadsStatus: main records nothing of its own.
MainIgnoresStatus(r) ==
  /\ wpc[r] = "main2"
  /\ Become(r, "exit")
  /\ UNCHANGED <<lock, dirs, cancel, pc, locals, served, faults>>

\* A status that is not terminal, or is not there, becomes failed.
MainReadsStatus(r) ==
  /\ wpc[r] = "main2"
  /\ Become(r, IF live[r].status \in Terminal THEN "exit" ELSE "main3")
  /\ UNCHANGED <<lock, dirs, cancel, pc, locals, served, faults>>

MainRecords(r) ==
  /\ wpc[r] = "main3"
  /\ WriteStatus(r, "failed")
  /\ Become(r, "exit")
  /\ UNCHANGED <<lock, arch, cancel, pc, locals, served, faults>>

Exit(r) ==
  /\ wpc[r] = "exit"
  /\ Become(r, "dead")
  /\ UNCHANGED <<lock, dirs, cancel, pc, locals, served, faults>>

-----------------------------------------------------------------------------
(* faults *)

\* The operating system kills a worker (memory, logout, power).
KillWorker(r) ==
  /\ Alive(r) /\ faults.kills < MaxWorkerKills
  /\ faults' = [faults EXCEPT !.kills = @ + 1]
  /\ Become(r, "dead")
  /\ UNCHANGED <<lock, dirs, cancel, pc, locals, served>>

\* The web server dies with all its threads and locks; workers live on.
CrashServer ==
  /\ faults.crashes < MaxServerCrashes
  /\ \E t \in Threads : pc[t] # "idle"
  /\ faults' = [faults EXCEPT !.crashes = @ + 1]
  /\ lock' = NoThread
  /\ pc' = [t \in Threads |-> "idle"]
  /\ run' = [t \in Threads |-> NoRun]
  /\ seen' = [t \in Threads |-> NoDir]
  /\ left' = [t \in Threads |-> {}]
  /\ UNCHANGED <<dirs, workers, served>>

StartStep(t) ==
  StartList(t) \/ AdmitRead(t) \/ AdmitProbe(t) \/ CreateRun(t) \/ Popen(t) \/ Launch(t)

StopStep(t) ==
  StopProbe(t) \/ StopFile(t) \/ Terminate(t) \/ KillAfterWait(t) \/ StopReread(t) \/ StopRecord(t)

DeleteStep(t) == DeleteRead(t) \/ DeleteProbe(t) \/ Archive(t)

Request(t) == Start(t) \/ \E r \in Runs : Stop(t, r) \/ Delete(t, r) \/ List(t, r)

Worker(r) ==
  \/ Boot(r) \/ Record(r) \/ Compute(r) \/ LastCheck(r) \/ WriteResult(r) \/ WriteCompleted(r)
  \/ WriteEnded(r) \/ MainReadsRequest(r) \/ MainReadsStatus(r) \/ MainRecords(r) \/ Exit(r)

Next ==
  \/ \E t \in Threads : Request(t) \/ StartStep(t) \/ StopStep(t) \/ DeleteStep(t) \/ ListProbe(t)
  \/ \E r \in Runs : Worker(r) \/ KillWorker(r)
  \/ CrashServer

Spec == Init /\ [][Next]_vars

\* The server may crash anywhere but between starting a worker and recording
\* its process id: a worker that no record names is not found again.
JobsNext ==
  /\ Next
  /\ faults'.crashes # faults.crashes => \A t \in Threads : pc[t] # "launch"

JobsSpec == Init /\ [][JobsNext]_vars

\* Threads are scheduled; nothing is assumed of how long a worker computes.
ThreadStep(t) == StartStep(t) \/ StopStep(t) \/ DeleteStep(t) \/ ListProbe(t)

ThreadFairness == \A t \in Threads : WF_vars(ThreadStep(t))

\* What a worker does by itself, but for ending its computation.
Computes(r) == Boot(r) \/ Record(r) \/ LastCheck(r) \/ WriteResult(r) \/ WriteCompleted(r)

\* A worker that computes reaches its next progress callback; nothing says
\* that its computation ends.
WorkerFairness == \A r \in Runs : WF_vars(Computes(r))

LiveSpec == JobsSpec /\ ThreadFairness /\ WorkerFairness

-----------------------------------------------------------------------------
ThreadLabels == {"idle", "start", "admit", "probe", "popen", "launch", "stop", "stop2", "file",
                 "term", "wait", "reread", "record", "delete", "inactive", "rename", "list"}

WorkerLabels == {"none", "boot", "loading", "training", "last", "result", "status", "stopping",
                 "failing", "main", "main2", "main3", "exit", "dead"}

Statuses == {"none", "running"} \union Terminal

Directory == [exists : BOOLEAN, request : BOOLEAN, launch : BOOLEAN, stop : BOOLEAN,
              status : Statuses, result : BOOLEAN]

\* The type of every variable.
TypeOK ==
  /\ lock \in Threads \union {NoThread}
  /\ live \in [Runs -> Directory]
  /\ arch \in [Runs -> Directory]
  /\ wpc \in [Runs -> WorkerLabels]
  /\ cancel \subseteq Runs
  /\ pc \in [Threads -> ThreadLabels]
  /\ run \in [Threads -> Runs \union {NoRun}]
  /\ seen \in [Threads -> Directory]
  /\ left \in [Threads -> SUBSET Runs]
  /\ served \in Nat
  /\ faults \in [kills : Nat, crashes : Nat, probes : Nat]

\* "A probability-model training run is already active. Stop it before
\* starting another.": two workers never train at the same time.
OneTraining == \A a, b \in Runs : Training(a) /\ Training(b) => a = b

\* delete: "Stop training before deleting this run."  The directory of a
\* worker that still trains is never moved away under it.
RunningNotDeleted == \A r \in Runs : Training(r) => live[r].exists /\ ~arch[r].exists

\* A stop that is about to record its outcome has no worker left: what it
\* writes cannot be contradicted by the job.
StoppedWorkerIsGone ==
  \A t \in Threads : pc[t] \in {"reread", "record"} => ~Alive(run[t])

\* The status completed is only ever recorded beside its result.
CompletedHasResult == \A r \in Runs : live[r].status = "completed" => live[r].result

\* A worker that was not killed leaves a final status in its directory.
ExitRecorded ==
  \A r \in Runs : wpc[r] = "exit" /\ live[r].request => live[r].status \in Terminal

\* A recorded completion is never overwritten: not by a stop that raced it,
\* not by the worker's own error path.  It ends only when it is archived.
CompletionKept ==
  [][\A r \in Runs :
       live[r].status = "completed" =>
         live'[r].status = "completed" \/ arch'[r] = live[r]]_vars

\* A stop request that was filed ends the job at its next progress callback,
\* even when the server crashed right after filing it.
StopHonoured == \A r \in Runs : []<>(live[r].stop \/ arch[r].stop => ~Training(r))
=============================================================================
