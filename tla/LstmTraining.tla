---------------------------- MODULE LstmTraining ----------------------------
(***************************************************************************)
(* The durable LSTM training jobs: LstmTrainingManager                     *)
(* (app/services/research/lstm_training) run by the threads of the web     *)
(* server, and the exact-configuration worker of scripts/lstm_ga_tune.     *)
(*                                                                         *)
(* Two locks protect a job.  workspace.lock serializes start and           *)
(* record_completed_backtest.  run.lock is a file of the job's directory,  *)
(* which the worker holds from its claim to its exit and which delete      *)
(* tries once; it moves with the directory when that is archived.          *)
(***************************************************************************)
EXTENDS Naturals, FiniteSets

CONSTANTS Threads,          \* request handlers of the web server
          NoThread,         \* nobody
          Trainings,        \* jobs that start may create (one seed each)
          Backtests,        \* jobs that record_completed_backtest may publish
          NoRun,            \* no job
          Ticker,           \* the ticker of each training job
          Loads             \* bound: the mixes of requests, workers killed from
                            \* outside, crashes of the web server and calls of
                            \* ps that fail or time out that may happen

Ops == {"start", "record", "stop", "delete", "list"}

ASSUME LstmAssumption ==
  /\ NoThread \notin Threads
  /\ NoRun \notin Trainings \union Backtests
  /\ Trainings \intersect Backtests = {}
  /\ Loads \subseteq [requests : [Ops -> Nat], kills : Nat, crashes : Nat, probes : Nat]

Runs == Trainings \union Backtests

VARIABLES lock,    \* the thread that holds workspace.lock
          live,    \* the job directories in the workspace
          arch,    \* the job directories under .deleted
          wpc,     \* where each worker process is in lstm_ga_tune
          pc,      \* where each thread is
          run,     \* the job its request is about
          at,      \* the job it reads
          seen,    \* the files of that job as it has read them
          left,    \* the jobs start has not yet found inactive
          served,  \* requests accepted so far, by kind
          faults   \* kills, crashes and failed probes so far

dirs == <<live, arch>>
locals == <<run, at, seen, left>>
vars == <<lock, dirs, wpc, pc, locals, served, faults>>

\* claim stands for worker.sqlite3 and the snapshot that follows it;
\* interrupted also for time_budget_reached.
NoDir == [exists |-> FALSE, request |-> FALSE, launch |-> FALSE, claim |-> FALSE,
          status |-> "none", result |-> FALSE, lock |-> "free"]

\* What record_completed_backtest stages beside the workspace.
Evidence == [NoDir EXCEPT !.exists = TRUE, !.request = TRUE,
                          !.status = "completed", !.result = TRUE]

\* write_object and _run_lock create the directory of the file they write.
Put(r, files) == live' = [live EXCEPT ![r] = [files EXCEPT !.exists = TRUE]]

PutStatus(r, status) == Put(r, [live[r] EXCEPT !.status = status])

Alive(r) == wpc[r] \notin {"none", "dead"}

\* The phases in which the worker holds run.lock.
Holding(r) ==
  wpc[r] \in {"claim", "snapshot", "starting", "arming", "training", "interrupted",
              "result", "badresult", "final", "badfinal", "unlock"}

\* The phases in which a worker trains or is about to.
Training(r) ==
  wpc[r] \in {"boot", "request", "lock", "claim", "snapshot", "starting", "arming", "training"}

Goto(t, l) == pc' = [pc EXCEPT ![t] = l]

\* The request is answered.
Reply(t) ==
  /\ Goto(t, "idle")
  /\ run' = [run EXCEPT ![t] = NoRun]
  /\ at' = [at EXCEPT ![t] = NoRun]
  /\ seen' = [seen EXCEPT ![t] = NoDir]
  /\ left' = [left EXCEPT ![t] = {}]

\* _read_run: the files of job r.
Read(t, r, l) ==
  /\ Goto(t, l)
  /\ at' = [at EXCEPT ![t] = r]
  /\ seen' = [seen EXCEPT ![t] = live[r]]

\* Bound: so much has happened in one of the loads.
Within(requests, harm) ==
  \E l \in Loads :
    /\ \A o \in Ops : requests[o] <= l.requests[o]
    /\ harm.kills <= l.kills /\ harm.crashes <= l.crashes /\ harm.probes <= l.probes

\* The pid comes from launch.sqlite3 or from any status the worker wrote.
PidKnown(files) == files.launch \/ files.status # "none"

\* The seed that _process_matches looks for comes from the request.
SeedKnown(files) == files.request \/ files.launch

\* _process_matches: a failed or timed-out ps reads as no match.
Probe(t, matches) ==
  \/ /\ matches = (PidKnown(seen[t]) /\ SeedKnown(seen[t]) /\ Alive(at[t]))
     /\ UNCHANGED faults
  \/ /\ matches = FALSE
     /\ faults' = [faults EXCEPT !.probes = @ + 1]
     /\ Within(served, faults')

\* starting and running are the active statuses.
Active(files, matches) == files.status \in {"none", "running"} /\ matches

Init ==
  /\ lock = NoThread
  /\ live = [r \in Runs |-> NoDir]
  /\ arch = [r \in Runs |-> NoDir]
  /\ wpc = [r \in Runs |-> "none"]
  /\ pc = [t \in Threads |-> "idle"]
  /\ run = [t \in Threads |-> NoRun]
  /\ at = [t \in Threads |-> NoRun]
  /\ seen = [t \in Threads |-> NoDir]
  /\ left = [t \in Threads |-> {}]
  /\ served = [o \in Ops |-> 0]
  /\ faults = [kills |-> 0, crashes |-> 0, probes |-> 0]

\* A request of one kind about job r has been validated.
Accept(t, op, r) ==
  /\ pc[t] = "idle"
  /\ served' = [served EXCEPT ![op] = @ + 1]
  /\ Within(served', faults)
  /\ run' = [run EXCEPT ![t] = r]

Acquire(t) == lock = NoThread /\ lock' = t

-----------------------------------------------------------------------------
(* start, under workspace.lock *)

\* _unique_seed draws a seed that names a new directory.
Start(t) ==
  /\ \E r \in Trainings :
       /\ ~live[r].exists /\ ~arch[r].exists /\ wpc[r] = "none"
       /\ \A s \in Threads : run[s] # r
       /\ Accept(t, "start", r)
  /\ Goto(t, "start")
  /\ UNCHANGED <<lock, dirs, wpc, at, seen, left, faults>>

\* Mutant of StartList: admission is decided without workspace.lock.
StartListUnlocked(t) ==
  /\ pc[t] = "start"
  /\ left' = [left EXCEPT ![t] = {r \in Runs : live[r].exists}]
  /\ Goto(t, "admit")
  /\ UNCHANGED <<lock, dirs, wpc, run, at, seen, served, faults>>

\* list_runs lists the job directories.
StartList(t) ==
  /\ pc[t] = "start" /\ Acquire(t)
  /\ left' = [left EXCEPT ![t] = {r \in Runs : live[r].exists}]
  /\ Goto(t, "admit")
  /\ UNCHANGED <<dirs, wpc, run, at, seen, served, faults>>

AdmitRead(t) ==
  /\ pc[t] = "admit"
  /\ \E r \in left[t] : Read(t, r, "probe")
  /\ UNCHANGED <<lock, dirs, wpc, run, left, served, faults>>

\* An active job of the same ticker is a LstmTrainingConflict.
AdmitProbe(t) ==
  /\ pc[t] = "probe"
  /\ \E matches \in BOOLEAN :
       /\ Probe(t, matches)
       /\ LET conflict == Active(seen[t], matches) /\ Ticker[at[t]] = Ticker[run[t]]
          IN  \/ conflict /\ Reply(t) /\ lock' = NoThread
              \/ /\ ~conflict
                 /\ Goto(t, "admit")
                 /\ left' = [left EXCEPT ![t] = @ \ {at[t]}]
                 /\ UNCHANGED <<lock, run, at, seen>>
  /\ UNCHANGED <<dirs, wpc, served>>

\* paths.state.mkdir(exist_ok=False)
CreateRun(t) ==
  /\ pc[t] = "admit" /\ left[t] = {}
  /\ Put(run[t], live[run[t]])
  /\ Goto(t, "reserve")
  /\ UNCHANGED <<lock, arch, wpc, locals, served, faults>>

WriteRequest(t) ==
  /\ pc[t] = "reserve"
  /\ Put(run[t], [live[run[t]] EXCEPT !.request = TRUE])
  /\ Goto(t, "popen")
  /\ UNCHANGED <<lock, arch, wpc, locals, served, faults>>

\* A Popen that fails leaves the request and the log behind.
Popen(t) ==
  /\ pc[t] = "popen"
  /\ \/ /\ wpc' = [wpc EXCEPT ![run[t]] = "boot"]
        /\ Goto(t, "launch")
        /\ UNCHANGED <<lock, locals>>
     \/ lock' = NoThread /\ Reply(t) /\ UNCHANGED wpc
  /\ UNCHANGED <<dirs, served, faults>>

\* launch.sqlite3 is written and the reply reads the run once more.
Launch(t) ==
  /\ pc[t] = "launch"
  /\ Put(run[t], [live[run[t]] EXCEPT !.launch = TRUE])
  /\ lock' = NoThread
  /\ Reply(t)
  /\ UNCHANGED <<arch, wpc, served, faults>>

-----------------------------------------------------------------------------
(* record_completed_backtest, under workspace.lock *)

Record(t) ==
  /\ \E b \in Backtests : Accept(t, "record", b)
  /\ Goto(t, "record")
  /\ UNCHANGED <<lock, dirs, wpc, at, seen, left, faults>>

RecordLock(t) ==
  /\ pc[t] = "record" /\ Acquire(t)
  /\ Goto(t, "archived")
  /\ UNCHANGED <<dirs, wpc, locals, served, faults>>

\* Mutant of RecordArchived: a deleted record is published again.
RecordArchivedIgnored(t) ==
  /\ pc[t] = "archived"
  /\ Goto(t, "state")
  /\ UNCHANGED <<lock, dirs, wpc, locals, served, faults>>

\* A replayed case with the same configuration, or an archive of this
\* record, ends the request.
RecordArchived(t) ==
  /\ pc[t] = "archived"
  /\ \/ /\ arch[run[t]].exists \/ \E r \in Runs : live[r].status = "completed"
        /\ lock' = NoThread /\ Reply(t)
     \/ ~arch[run[t]].exists /\ Goto(t, "state") /\ UNCHANGED <<lock, locals>>
  /\ UNCHANGED <<dirs, wpc, served, faults>>

RecordState(t) ==
  /\ pc[t] = "state"
  /\ \/ live[run[t]].exists /\ lock' = NoThread /\ Reply(t)
     \/ ~live[run[t]].exists /\ Goto(t, "publish") /\ UNCHANGED <<lock, locals>>
  /\ UNCHANGED <<dirs, wpc, served, faults>>

\* Mutant of RecordPublish: the artifacts are written in place.
RecordInPlace(t) ==
  /\ pc[t] = "publish"
  /\ IF live[run[t]].request
     THEN live' = [live EXCEPT ![run[t]] = Evidence] /\ lock' = NoThread /\ Reply(t)
     ELSE Put(run[t], [live[run[t]] EXCEPT !.request = TRUE]) /\ UNCHANGED <<lock, pc, locals>>
  /\ UNCHANGED <<arch, wpc, served, faults>>

\* staging.rename(state): it fails when the directory has come back.
RecordPublish(t) ==
  /\ pc[t] = "publish"
  /\ live' = IF live[run[t]].exists THEN live ELSE [live EXCEPT ![run[t]] = Evidence]
  /\ lock' = NoThread
  /\ Reply(t)
  /\ UNCHANGED <<arch, wpc, served, faults>>

-----------------------------------------------------------------------------
(* stop and list take no lock *)

Stop(t, r) ==
  /\ live[r].exists
  /\ Accept(t, "stop", r)
  /\ Read(t, r, "stop")
  /\ UNCHANGED <<lock, dirs, wpc, left, faults>>

\* The process is looked up by _read_run, then by stop itself.
StopProbe(t) ==
  /\ pc[t] \in {"stop", "stop2"}
  /\ \E matches \in BOOLEAN :
       /\ Probe(t, matches)
       /\ \/ ~Active(seen[t], matches) /\ Reply(t)
          \/ /\ Active(seen[t], matches)
             /\ Goto(t, IF pc[t] = "stop" THEN "stop2" ELSE "term")
             /\ UNCHANGED locals
  /\ UNCHANGED <<lock, dirs, wpc, served>>

\* A process that dies releases its flock.
Unlock(r) == live' = [live EXCEPT ![r].lock = IF @ = "worker" THEN "free" ELSE @]

Die(r) == wpc' = [wpc EXCEPT ![r] = "dead"] /\ Unlock(r)

\* SIGTERM to the process group.  The handler of _run_selected_configuration
\* raises KeyboardInterrupt, again if one is being handled; it is fatal when
\* no handler is installed.
Terminate(t) ==
  /\ pc[t] = "term"
  /\ LET r == run[t] IN
       \/ ~Alive(r) /\ UNCHANGED <<wpc, live>>
       \/ wpc[r] = "training" /\ wpc' = [wpc EXCEPT ![r] = "interrupted"] /\ UNCHANGED live
       \/ wpc[r] = "interrupted" /\ wpc' = [wpc EXCEPT ![r] = "unlock"] /\ UNCHANGED live
       \/ Alive(r) /\ wpc[r] \notin {"training", "interrupted"} /\ Die(r)
  /\ Reply(t)
  /\ UNCHANGED <<lock, arch, served, faults>>

List(t, r) ==
  /\ live[r].exists
  /\ Accept(t, "list", r)
  /\ Read(t, r, "list")
  /\ UNCHANGED <<lock, dirs, wpc, left, faults>>

ListProbe(t) ==
  /\ pc[t] = "list"
  /\ \E matches \in BOOLEAN : Probe(t, matches)
  /\ Reply(t)
  /\ UNCHANGED <<lock, dirs, wpc, served>>

-----------------------------------------------------------------------------
(* delete: run.lock only *)

Delete(t, r) ==
  /\ live[r].exists
  /\ Accept(t, "delete", r)
  /\ Read(t, r, "check")
  /\ UNCHANGED <<lock, dirs, wpc, left, faults>>

\* Mutant of DeleteCheck: the second check, under run.lock, is missing, and the
\* first one only asks for a status that the worker wrote.
DeleteCheckStatus(t) ==
  /\ pc[t] \in {"check", "recheck"}
  /\ \/ seen[t].status = "running" /\ pc[t] = "check" /\ Reply(t)
     \/ /\ ~(seen[t].status = "running" /\ pc[t] = "check")
        /\ Goto(t, IF pc[t] = "check" THEN "archive" ELSE "rename")
        /\ UNCHANGED locals
  /\ UNCHANGED <<lock, dirs, wpc, served, faults>>

\* Before run.lock, and again under it, an active job is a conflict.
DeleteCheck(t) ==
  /\ pc[t] \in {"check", "recheck"}
  /\ \E matches \in BOOLEAN :
       /\ Probe(t, matches)
       /\ \/ /\ Active(seen[t], matches)
             /\ live' = IF pc[t] = "check" THEN live ELSE [live EXCEPT ![run[t]].lock = "free"]
             /\ Reply(t)
          \/ /\ ~Active(seen[t], matches)
             /\ Goto(t, IF pc[t] = "check" THEN "archive" ELSE "rename")
             /\ UNCHANGED <<live, locals>>
  /\ UNCHANGED <<lock, arch, wpc, served>>

DeleteArchive(t) ==
  /\ pc[t] = "archive"
  /\ \/ arch[run[t]].exists /\ Reply(t)
     \/ ~arch[run[t]].exists /\ Goto(t, "runlock") /\ UNCHANGED locals
  /\ UNCHANGED <<lock, dirs, wpc, served, faults>>

\* Mutant of DeleteRunLock: delete does not try the lock.
DeleteNoRunLock(t) ==
  /\ pc[t] = "runlock"
  /\ Put(run[t], live[run[t]])
  /\ Goto(t, "reread")
  /\ UNCHANGED <<lock, arch, wpc, locals, served, faults>>

\* _run_lock: it makes the directory if it is gone, and gives up at once when
\* another process owns the lock.
DeleteRunLock(t) ==
  /\ pc[t] = "runlock"
  /\ \/ /\ live[run[t]].lock = "free"
        /\ Put(run[t], [live[run[t]] EXCEPT !.lock = "delete"])
        /\ Goto(t, "reread")
        /\ UNCHANGED locals
     \/ live[run[t]].lock # "free" /\ Reply(t) /\ UNCHANGED live
  /\ UNCHANGED <<lock, arch, wpc, served, faults>>

DeleteReread(t) ==
  /\ pc[t] = "reread"
  /\ Read(t, run[t], "recheck")
  /\ UNCHANGED <<lock, dirs, wpc, run, left, served, faults>>

\* The directory moves with its lock, which is then released; the rename
\* fails on an archive that is already there.
DeleteRename(t) ==
  /\ pc[t] = "rename"
  /\ LET r == run[t]
         free == [live[r] EXCEPT !.lock = "free"]
     IN  IF arch[r].exists
         THEN live' = [live EXCEPT ![r] = free] /\ UNCHANGED arch
         ELSE live' = [live EXCEPT ![r] = NoDir] /\ arch' = [arch EXCEPT ![r] = free]
  /\ Reply(t)
  /\ UNCHANGED <<lock, wpc, served, faults>>

-----------------------------------------------------------------------------
(* the worker process *)

Become(r, l) == wpc' = [wpc EXCEPT ![r] = l]

\* _run: the spec is rebuilt and compared; a recorded result or an error ends it.
Boot(r) ==
  /\ wpc[r] = "boot"
  /\ \/ ~live[r].result /\ Become(r, "request")
     \/ Become(r, "exit")
  /\ UNCHANGED <<lock, dirs, pc, locals, served, faults>>

\* The state directory and the request are written before the lock is taken.
PutRequest(r) ==
  /\ wpc[r] = "request"
  /\ Put(r, [live[r] EXCEPT !.request = TRUE])
  /\ Become(r, "lock")
  /\ UNCHANGED <<lock, arch, pc, locals, served, faults>>

TakeRunLock(r) ==
  /\ wpc[r] = "lock"
  /\ \/ /\ live[r].lock = "free"
        /\ Put(r, [live[r] EXCEPT !.lock = "worker"])
        /\ Become(r, "claim")
     \/ live[r].lock # "free" /\ Become(r, "exit") /\ UNCHANGED live
  /\ UNCHANGED <<lock, arch, pc, locals, served, faults>>

\* A prepared request is claimed once.
Claim(r) ==
  /\ wpc[r] = "claim"
  /\ IF live[r].claim \/ live[r].status # "none" \/ live[r].result
     THEN Become(r, "unlock") /\ UNCHANGED live
     ELSE Put(r, [live[r] EXCEPT !.claim = TRUE]) /\ Become(r, "snapshot")
  /\ UNCHANGED <<lock, arch, pc, locals, served, faults>>

\* The market data is loaded and frozen, or could not be.
Snapshot(r) ==
  /\ wpc[r] = "snapshot"
  /\ Become(r, "starting") \/ Become(r, "unlock")
  /\ UNCHANGED <<lock, dirs, pc, locals, served, faults>>

\* The first running status precedes the signal handlers.
FirstStatus(r) ==
  /\ wpc[r] = "starting"
  /\ PutStatus(r, "running")
  /\ Become(r, "arming")
  /\ UNCHANGED <<lock, arch, pc, locals, served, faults>>

Arm(r) ==
  /\ wpc[r] = "arming"
  /\ Become(r, "training")
  /\ UNCHANGED <<lock, dirs, pc, locals, served, faults>>

\* Training ends: a result, a failed result, or the time limit; the handlers
\* are restored.
Train(r) ==
  /\ wpc[r] = "training"
  /\ Become(r, "result") \/ Become(r, "badresult") \/ Become(r, "interrupted")
  /\ UNCHANGED <<lock, dirs, pc, locals, served, faults>>

PutInterrupted(r) ==
  /\ wpc[r] = "interrupted"
  /\ PutStatus(r, "interrupted")
  /\ Become(r, "unlock")
  /\ UNCHANGED <<lock, arch, pc, locals, served, faults>>

\* The result document, then the final status.
PutResult(r) ==
  /\ wpc[r] \in {"result", "badresult"}
  /\ Put(r, [live[r] EXCEPT !.result = TRUE])
  /\ Become(r, IF wpc[r] = "result" THEN "final" ELSE "badfinal")
  /\ UNCHANGED <<lock, arch, pc, locals, served, faults>>

PutFinal(r) ==
  /\ wpc[r] \in {"final", "badfinal"}
  /\ PutStatus(r, IF wpc[r] = "final" THEN "completed" ELSE "failed_closed")
  /\ Become(r, "unlock")
  /\ UNCHANGED <<lock, arch, pc, locals, served, faults>>

\* The worker leaves _run_lock and exits.
Exit(r) ==
  /\ wpc[r] \in {"unlock", "exit"}
  /\ Die(r)
  /\ UNCHANGED <<lock, arch, pc, locals, served, faults>>

-----------------------------------------------------------------------------
(* faults *)

KillWorker(r) ==
  /\ Alive(r)
  /\ faults' = [faults EXCEPT !.kills = @ + 1]
  /\ Within(served, faults')
  /\ Die(r)
  /\ UNCHANGED <<lock, arch, pc, locals, served>>

\* The web server dies with its threads and its locks; workers live on.
CrashServer ==
  /\ \E t \in Threads : pc[t] # "idle"
  /\ faults' = [faults EXCEPT !.crashes = @ + 1]
  /\ Within(served, faults')
  /\ lock' = NoThread
  /\ live' = [r \in Runs |->
                [live[r] EXCEPT !.lock = IF @ = "delete" THEN "free" ELSE @]]
  /\ pc' = [t \in Threads |-> "idle"]
  /\ run' = [t \in Threads |-> NoRun]
  /\ at' = [t \in Threads |-> NoRun]
  /\ seen' = [t \in Threads |-> NoDir]
  /\ left' = [t \in Threads |-> {}]
  /\ UNCHANGED <<arch, wpc, served>>

StartStep(t) ==
  \/ StartList(t) \/ AdmitRead(t) \/ AdmitProbe(t) \/ CreateRun(t) \/ WriteRequest(t)
  \/ Popen(t) \/ Launch(t)

RecordStep(t) == RecordLock(t) \/ RecordArchived(t) \/ RecordState(t) \/ RecordPublish(t)

StopStep(t) == StopProbe(t) \/ Terminate(t)

DeleteStep(t) ==
  DeleteCheck(t) \/ DeleteArchive(t) \/ DeleteRunLock(t) \/ DeleteReread(t) \/ DeleteRename(t)

Request(t) == Start(t) \/ Record(t) \/ \E r \in Runs : Stop(t, r) \/ Delete(t, r) \/ List(t, r)

Worker(r) ==
  \/ Boot(r) \/ PutRequest(r) \/ TakeRunLock(r) \/ Claim(r) \/ Snapshot(r) \/ FirstStatus(r)
  \/ Arm(r) \/ Train(r) \/ PutInterrupted(r) \/ PutResult(r) \/ PutFinal(r) \/ Exit(r)

Next ==
  \/ \E t \in Threads :
       Request(t) \/ StartStep(t) \/ RecordStep(t) \/ StopStep(t) \/ DeleteStep(t) \/ ListProbe(t)
  \/ \E r \in Runs : Worker(r) \/ KillWorker(r)
  \/ CrashServer

Spec == Init /\ [][Next]_vars

-----------------------------------------------------------------------------
ThreadLabels ==
  {"idle", "start", "admit", "probe", "reserve", "popen", "launch", "record", "archived", "state",
   "publish", "stop", "stop2", "term", "list", "check", "archive", "runlock", "reread", "recheck",
   "rename"}

WorkerLabels ==
  {"none", "boot", "request", "lock", "claim", "snapshot", "starting", "arming", "training",
   "interrupted", "result", "badresult", "final", "badfinal", "unlock", "exit", "dead"}

Directory ==
  [exists : BOOLEAN, request : BOOLEAN, launch : BOOLEAN, claim : BOOLEAN,
   status : {"none", "running", "completed", "failed_closed", "interrupted"},
   result : BOOLEAN, lock : {"free", "worker", "delete"}]

\* The type of every variable.
TypeOK ==
  /\ lock \in Threads \union {NoThread}
  /\ live \in [Runs -> Directory]
  /\ arch \in [Runs -> Directory]
  /\ wpc \in [Runs -> WorkerLabels]
  /\ pc \in [Threads -> ThreadLabels]
  /\ run \in [Threads -> Runs \union {NoRun}]
  /\ at \in [Threads -> Runs \union {NoRun}]
  /\ seen \in [Threads -> Directory]
  /\ left \in [Threads -> SUBSET Runs]
  /\ served \in [Ops -> Nat]
  /\ faults \in [kills : Nat, crashes : Nat, probes : Nat]

\* "LSTM training is already running for {ticker}.": two workers never train
\* the same ticker at the same time.
OneTrainingPerTicker ==
  \A a, b \in Trainings :
    Training(a) /\ Training(b) /\ Ticker[a] = Ticker[b] => a = b

\* KNOWN_ISSUES, LSTM training: "Running or locked jobs and symlink targets
\* cannot be deleted."  The locked half: while a worker holds run.lock, its
\* directory stays in the workspace and the lock stays its own.
LockedNotDeleted == \A r \in Runs : Holding(r) => live[r].exists /\ live[r].lock = "worker"

\* The same sentence, the running half: no archive of a job that trains.
RunningNotDeleted == \A r \in Runs : Training(r) => ~arch[r].exists

\* "A user's deletion remains authoritative across reloads and restarts.": a
\* deleted job is not in the workspace again.
DeletionAuthoritative == \A r \in Runs : ~(live[r].exists /\ arch[r].exists)

\* A completed status is never without its result, in the workspace or in
\* the archive.
CompletedHasResult ==
  \A r \in Runs :
    /\ live[r].status = "completed" => live[r].result
    /\ arch[r].status = "completed" => arch[r].result

\* "Readers see either no entry or all completed evidence together."
EvidenceTogether ==
  \A b \in Backtests :
    /\ live[b].exists => [live[b] EXCEPT !.lock = "free"] = Evidence
    /\ arch[b].exists => arch[b] = Evidence
=============================================================================
