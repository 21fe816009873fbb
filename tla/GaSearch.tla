------------------------------ MODULE GaSearch ------------------------------
(***************************************************************************)
(* The durable genetic search of scripts/lstm_ga_tune (_run without        *)
(* selected parameters, a CRPS or grid objective).  Several invocations of *)
(* the command may share one run directory: each checks the directory,     *)
(* takes run.lock, evaluates populations of candidates, checkpoints after  *)
(* each batch, and ends by freezing one winner and reporting it on the     *)
(* holdout.  An invocation may be killed anywhere and resumed by another.  *)
(***************************************************************************)
EXTENDS Naturals, FiniteSets

CONSTANTS Procs,        \* invocations of the command that may overlap
          NoProc,       \* nobody
          Keys,         \* candidate keys
          Base,         \* the key of the baseline candidate
          NoKey,        \* no candidate
          Rank,         \* the fitness of a candidate whose evaluation succeeds
          Robust,       \* its mean fitness over ROBUST_SEEDS
          MaxBoard,     \* MAX_LEADERBOARD_ENTRIES
          MaxFinalists, \* models rescored with several seeds
          MaxMarket,    \* bound: versions of the market data
          MaxRuns,      \* bound: invocations
          MaxKills      \* bound: invocations killed

\* The parameters of a candidate come from finite spaces.
ASSUME GaAssumption ==
  /\ NoProc \notin Procs
  /\ IsFiniteSet(Keys)
  /\ Base \in Keys /\ NoKey \notin Keys
  /\ Rank \in [Keys -> Nat \ {0}] /\ Robust \in [Keys -> Nat]
  /\ {MaxBoard, MaxFinalists, MaxMarket} \subseteq Nat \ {0}
  /\ {MaxRuns, MaxKills} \subseteq Nat

VARIABLES request,   \* whether request.sqlite3 exists
          snapshot,  \* the market version of snapshot.sqlite3, 0 without one
          ckpt,      \* checkpoint.sqlite3
          log,       \* the search candidates in evaluations.sqlite3
          selection, \* the winner in selection.sqlite3
          result,    \* the winner in result.sqlite3
          status,    \* the status in status.sqlite3
          held,      \* the process that holds run.lock
          at,        \* where each process is
          resume,    \* whether it was given --resume
          mem,       \* its local variables
          stop,      \* its _STOP_REQUESTED
          market,    \* the current version of the market data
          peeked,    \* history: the winners reported on the holdout, with the outcome
          count      \* invocations and kills so far

files == <<request, snapshot, ckpt, log, selection, result, status>>
env == <<market, count>>
searchVars == <<files, held, at, resume, mem, stop, peeked, env>>

\* The fitness of a failed_closed or infeasible evaluation, below every other.
Failed == 0

Results == [key : Keys, fitness : {Failed} \union {Rank[k] : k \in Keys}]

KeysOf(board) == {e.key : e \in board}

\* The n best entries: any choice among equals.
Tops(board, n) ==
  {top \in SUBSET board :
     /\ Cardinality(top) = IF Cardinality(board) < n THEN Cardinality(board) ELSE n
     /\ \A e \in top, f \in board \ top : e.fitness >= f.fitness}

\* The best result of each key.
Unique(results) ==
  {e \in results : \A f \in results : f.key = e.key => e.fitness >= f.fitness}

SortedLeaderboard(results) == Tops(Unique(results), MaxBoard)

\* What a batch may return for the candidates that end: an evaluation never
\* raises, its failure (or that of its worker process) is a result.
Outcomes(keys) ==
  {{[key |-> k, fitness |-> IF k \in ok THEN Rank[k] ELSE Failed] : k \in keys} : ok \in SUBSET keys}

\* At least two elites of the leaderboard and any children.
NextPopulation(board) ==
  {KeysOf(elite) \union children : elite \in Tops(board, 2), children \in SUBSET Keys}

Blank == [board |-> {}, seen |-> {}, population |-> {}, pending |-> {}, results |-> {},
          elapsed |-> 0, snapshot |-> 0, winner |-> NoKey]

NoCheckpoint == [written |-> FALSE, board |-> {}, seen |-> {}, population |-> {},
                 elapsed |-> 0, snapshot |-> 0]

SearchInit ==
  /\ request = FALSE
  /\ snapshot = 0
  /\ ckpt = NoCheckpoint
  /\ log = {}
  /\ selection = NoKey
  /\ result = NoKey
  /\ status = "none"
  /\ held = NoProc
  /\ at = [p \in Procs |-> "idle"]
  /\ resume = [p \in Procs |-> FALSE]
  /\ mem = [p \in Procs |-> Blank]
  /\ stop = [p \in Procs |-> FALSE]
  /\ market = 1
  /\ peeked = {}
  /\ count = [runs |-> 0, kills |-> 0]

Move(p, l) == at' = [at EXCEPT ![p] = l]

\* The process is gone; the kernel drops its lock.
Gone(p) ==
  /\ Move(p, "idle")
  /\ held' = IF held = p THEN NoProc ELSE held
  /\ resume' = [resume EXCEPT ![p] = FALSE]
  /\ mem' = [mem EXCEPT ![p] = Blank]
  /\ stop' = [stop EXCEPT ![p] = FALSE]

-----------------------------------------------------------------------------
(* Before the lock. *)

Invoke(p) ==
  /\ at[p] = "idle"
  /\ count.runs < MaxRuns
  /\ \E r \in BOOLEAN : resume' = [resume EXCEPT ![p] = r]
  /\ count' = [count EXCEPT !.runs = @ + 1]
  /\ Move(p, "check")
  /\ UNCHANGED <<files, held, mem, stop, peeked, market>>

\* A finished run is printed, an unfinished one needs --resume.
CheckEnds(p) ==
  /\ at[p] = "check"
  /\ request
  /\ result # NoKey \/ ~resume[p]
  /\ Gone(p)
  /\ UNCHANGED <<files, peeked, env>>

CheckGoesOn(p) ==
  /\ at[p] = "check"
  /\ ~request \/ (result = NoKey /\ resume[p])
  /\ Move(p, "request")
  /\ UNCHANGED <<files, held, resume, mem, stop, peeked, env>>

PutRequest(p) ==
  /\ at[p] = "request"
  /\ request' = TRUE
  /\ Move(p, "lock")
  /\ UNCHANGED <<snapshot, ckpt, log, selection, result, status, held, resume, mem, stop, peeked, env>>

TakeLock(p) ==
  /\ at[p] = "lock"
  /\ held = NoProc
  /\ held' = p
  /\ Move(p, "snapshot")
  /\ UNCHANGED <<files, resume, mem, stop, peeked, env>>

LockBusy(p) ==
  /\ at[p] = "lock"
  /\ held # NoProc
  /\ Gone(p)
  /\ UNCHANGED <<files, peeked, env>>

-----------------------------------------------------------------------------
(* Before the search: an exception here ends the process without a status. *)

\* Mutant of BuildSnapshot: a resumed run builds a new snapshot.
BuildAnew(p) ==
  /\ at[p] = "snapshot"
  /\ snapshot' = market
  /\ mem' = [mem EXCEPT ![p].snapshot = market]
  /\ Move(p, "load")
  /\ UNCHANGED <<request, ckpt, log, selection, result, status, held, resume, stop, peeked, env>>

\* The saved snapshot if there is one, else today's data, which is saved.
BuildSnapshot(p) ==
  /\ at[p] = "snapshot"
  /\ snapshot' = IF snapshot = 0 THEN market ELSE snapshot
  /\ mem' = [mem EXCEPT ![p].snapshot = snapshot']
  /\ Move(p, "load")
  /\ UNCHANGED <<request, ckpt, log, selection, result, status, held, resume, stop, peeked, env>>

SnapshotFails(p) ==
  /\ at[p] = "snapshot"
  /\ Gone(p)
  /\ UNCHANGED <<files, peeked, env>>

\* Mutant of LoadCheckpoint: what was seen is not restored.
LoadUnseen(p) ==
  /\ at[p] = "load"
  /\ resume[p]
  /\ ckpt.written
  /\ mem' = [mem EXCEPT ![p].board = ckpt.board, ![p].population = ckpt.population,
                        ![p].elapsed = ckpt.elapsed]
  /\ Move(p, "baseline")
  /\ UNCHANGED <<files, held, resume, stop, peeked, env>>

\* Mutant of LoadCheckpoint: every invocation has the whole time budget.
LoadFullBudget(p) ==
  /\ at[p] = "load"
  /\ resume[p]
  /\ ckpt.written
  /\ mem' = [mem EXCEPT ![p].board = ckpt.board, ![p].seen = ckpt.seen,
                        ![p].population = ckpt.population]
  /\ Move(p, "baseline")
  /\ UNCHANGED <<files, held, resume, stop, peeked, env>>

LoadCheckpoint(p) ==
  /\ at[p] = "load"
  /\ resume[p]
  /\ ckpt.written
  /\ mem' = [mem EXCEPT ![p].board = ckpt.board, ![p].seen = ckpt.seen,
                        ![p].population = ckpt.population, ![p].elapsed = ckpt.elapsed]
  /\ Move(p, "baseline")
  /\ UNCHANGED <<files, held, resume, stop, peeked, env>>

\* Killed before its first checkpoint, a run has nothing to resume from.
NothingToResume(p) ==
  /\ at[p] = "load"
  /\ resume[p]
  /\ ~ckpt.written
  /\ Gone(p)
  /\ UNCHANGED <<files, peeked, env>>

NewPopulation(p) ==
  /\ at[p] = "load"
  /\ ~resume[p]
  /\ \E random \in SUBSET Keys : mem' = [mem EXCEPT ![p].population = random \union {Base}]
  /\ Move(p, "baseline")
  /\ UNCHANGED <<files, held, resume, stop, peeked, env>>

\* The baseline is evaluated again when it has dropped off the leaderboard.
EvaluateBaseline(p) ==
  /\ at[p] = "baseline"
  /\ Base \notin KeysOf(mem[p].board)
  /\ \E results \in Outcomes({Base}) : \E board \in SortedLeaderboard(mem[p].board \union results) :
       mem' = [mem EXCEPT ![p].board = board, ![p].seen = @ \union {Base}]
  /\ Move(p, "baselog")
  /\ UNCHANGED <<files, held, resume, stop, peeked, env>>

BaselineKnown(p) ==
  /\ at[p] = "baseline"
  /\ Base \in KeysOf(mem[p].board)
  /\ mem' = [mem EXCEPT ![p].seen = @ \union {Base}]
  /\ Move(p, "running")
  /\ UNCHANGED <<files, held, resume, stop, peeked, env>>

LogBaseline(p) ==
  /\ at[p] = "baselog"
  /\ log' = log \union {Base}
  /\ Move(p, "running")
  /\ UNCHANGED <<request, snapshot, ckpt, selection, result, status, held, resume, mem, stop, peeked, env>>

\* The signal handlers are installed after this write.
PutRunning(p) ==
  /\ at[p] = "running"
  /\ status' = "running"
  /\ Move(p, "loop")
  /\ UNCHANGED <<request, snapshot, ckpt, log, selection, result, held, resume, mem, stop, peeked, env>>

-----------------------------------------------------------------------------
(* The generations.  elapsed is 0 before the main deadline, 1 after it and 2 *)
(* after the total deadline.                                                 *)

GoesOn(p) ==
  /\ ~stop[p]
  /\ mem[p].elapsed = 0
  /\ mem[p].population # {}

Submit(p) ==
  /\ at[p] = "loop"
  /\ GoesOn(p)
  /\ mem[p].population \ mem[p].seen # {}
  /\ mem' = [mem EXCEPT ![p].pending = mem[p].population \ mem[p].seen]
  /\ Move(p, "batch")
  /\ UNCHANGED <<files, held, resume, stop, peeked, env>>

\* Everything in the population is known: another one, the generation unchanged.
Refill(p) ==
  /\ at[p] = "loop"
  /\ GoesOn(p)
  /\ mem[p].population \subseteq mem[p].seen
  /\ \E next \in NextPopulation(mem[p].board) : mem' = [mem EXCEPT ![p].population = next]
  /\ UNCHANGED <<files, held, at, resume, stop, peeked, env>>

LeaveLoop(p) ==
  /\ at[p] = "loop"
  /\ ~GoesOn(p)
  /\ Move(p, "searched")
  /\ UNCHANGED <<files, held, resume, mem, stop, peeked, env>>

\* Mutant of Collect: the results are not appended to the log.
CollectUnlogged(p) ==
  /\ at[p] = "batch"
  /\ \E done \in (SUBSET mem[p].pending) \ {{}} : \E results \in Outcomes(done) :
       \E board \in SortedLeaderboard(mem[p].board \union results) :
         mem' = [mem EXCEPT ![p].board = board, ![p].seen = @ \union done, ![p].pending = @ \ done]
  /\ Move(p, "save")
  /\ UNCHANGED <<files, held, resume, stop, peeked, env>>

\* Mutant of Collect: the leaderboard is that of the batch.
CollectBatchOnly(p) ==
  /\ at[p] = "batch"
  /\ \E done \in (SUBSET mem[p].pending) \ {{}} : \E results \in Outcomes(done) :
       \E board \in SortedLeaderboard(results) :
         mem' = [mem EXCEPT ![p].board = board, ![p].seen = @ \union done,
                            ![p].pending = @ \ done, ![p].results = done]
  /\ Move(p, "append")
  /\ UNCHANGED <<files, held, resume, stop, peeked, env>>

\* _evaluate_batch returns what ended in 600 seconds, before the deadline or
\* before the stop: none of it, a part or all.
Collect(p) ==
  /\ at[p] = "batch"
  /\ \E done \in (SUBSET mem[p].pending) \ {{}} : \E results \in Outcomes(done) :
       \E board \in SortedLeaderboard(mem[p].board \union results) :
         mem' = [mem EXCEPT ![p].board = board, ![p].seen = @ \union done,
                            ![p].pending = @ \ done, ![p].results = done]
  /\ Move(p, "append")
  /\ UNCHANGED <<files, held, resume, stop, peeked, env>>

CollectNothing(p) ==
  /\ at[p] = "batch"
  /\ mem' = [mem EXCEPT ![p].pending = {}]
  /\ Move(p, "searched")
  /\ UNCHANGED <<files, held, resume, stop, peeked, env>>

AppendResult(p) ==
  /\ at[p] = "append"
  /\ \E k \in mem[p].results :
       /\ log' = log \union {k}
       /\ mem' = [mem EXCEPT ![p].results = @ \ {k}]
       /\ Move(p, IF mem[p].results = {k} THEN "save" ELSE "append")
  /\ UNCHANGED <<request, snapshot, ckpt, selection, result, status, held, resume, stop, peeked, env>>

\* _write_checkpoint: the population as it was before the batch.
WriteCheckpoint(p) ==
  ckpt' = [written |-> TRUE, board |-> mem[p].board, seen |-> mem[p].seen,
           population |-> mem[p].population, elapsed |-> mem[p].elapsed,
           snapshot |-> mem[p].snapshot]

\* After leaderboard.sqlite3, which the search never reads back.
SaveGeneration(p) ==
  /\ at[p] = "save"
  /\ WriteCheckpoint(p)
  /\ Move(p, "progress")
  /\ UNCHANGED <<request, snapshot, log, selection, result, status, held, resume, mem, stop, peeked, env>>

\* The status again, then the unfinished candidates or the next population.
PutProgress(p) ==
  /\ at[p] = "progress"
  /\ status' = "running"
  /\ \E next \in IF mem[p].pending # {} THEN {mem[p].pending} ELSE NextPopulation(mem[p].board) :
       mem' = [mem EXCEPT ![p].population = next, ![p].pending = {}]
  /\ Move(p, "loop")
  /\ UNCHANGED <<request, snapshot, ckpt, log, selection, result, held, resume, stop, peeked, env>>

-----------------------------------------------------------------------------
(* The winner.  Rescored and holdout records go to the same log under keys   *)
(* of their own, which log leaves out.                                       *)

InTime(p) == ~stop[p] /\ mem[p].elapsed < 2

StartRescore(p) ==
  /\ at[p] = "searched"
  /\ InTime(p)
  /\ Move(p, "rescore")
  /\ UNCHANGED <<files, held, resume, mem, stop, peeked, env>>

\* The finalists all of whose seeds are evaluated and feasible compete by their
\* aggregates, whatever their first fitness.
PickWinner(p) ==
  /\ at[p] = "rescore"
  /\ InTime(p)
  /\ \E finalists \in Tops(mem[p].board, MaxFinalists) : \E feasible \in SUBSET KeysOf(finalists) :
       \E k \in feasible :
         /\ \A j \in feasible : Robust[k] >= Robust[j]
         /\ mem' = [mem EXCEPT ![p].winner = k]
  /\ Move(p, "select")
  /\ UNCHANGED <<files, held, resume, stop, peeked, env>>

NoFeasibleWinner(p) ==
  /\ at[p] = "rescore"
  /\ InTime(p)
  /\ Move(p, "failing")
  /\ UNCHANGED <<files, held, resume, mem, stop, peeked, env>>

\* Mutant of GiveUp: only a stop ends the search.
GiveUpStopped(p) ==
  /\ at[p] \in {"searched", "rescore"}
  /\ stop[p]
  /\ Move(p, "final")
  /\ UNCHANGED <<files, held, resume, mem, stop, peeked, env>>

\* Stopped or out of time, before the rescore or by its end.
GiveUp(p) ==
  /\ at[p] \in {"searched", "rescore"}
  /\ ~InTime(p)
  /\ Move(p, "final")
  /\ UNCHANGED <<files, held, resume, mem, stop, peeked, env>>

FreezeSelection(p) ==
  /\ at[p] = "select"
  /\ selection' = mem[p].winner
  /\ Move(p, "holdout")
  /\ UNCHANGED <<request, snapshot, ckpt, log, result, status, held, resume, mem, stop, peeked, env>>

\* Mutant of ReportHoldout: a failed report does not fail the run.
ReportAnyway(p) ==
  /\ at[p] = "holdout"
  /\ \E good \in BOOLEAN : peeked' = peeked \union {<<mem[p].winner, good>>}
  /\ Move(p, "result")
  /\ UNCHANGED <<files, held, resume, mem, stop, env>>

\* The reports of the seeds and of the baseline: all succeed, or some fail or
\* are cut short by the deadline or by the stop.
ReportHoldout(p) ==
  /\ at[p] = "holdout"
  /\ \E good \in BOOLEAN :
       /\ peeked' = peeked \union {<<mem[p].winner, good>>}
       /\ Move(p, IF good THEN "result" ELSE "failing")
  /\ UNCHANGED <<files, held, resume, mem, stop, env>>

PutResult(p) ==
  /\ at[p] = "result"
  /\ result' = mem[p].winner
  /\ Move(p, "completed")
  /\ UNCHANGED <<request, snapshot, ckpt, log, selection, status, held, resume, mem, stop, peeked, env>>

PutCompleted(p) ==
  /\ at[p] = "completed"
  /\ status' = "completed"
  /\ Move(p, "unlock")
  /\ UNCHANGED <<request, snapshot, ckpt, log, selection, result, held, resume, mem, stop, peeked, env>>

-----------------------------------------------------------------------------
(* Without a winner. *)

SaveEnd(p) ==
  /\ at[p] = "final"
  /\ WriteCheckpoint(p)
  /\ Move(p, IF stop[p] THEN "interrupted" ELSE "time_budget_reached")
  /\ UNCHANGED <<request, snapshot, log, selection, result, status, held, resume, mem, stop, peeked, env>>

PutEnded(p) ==
  /\ at[p] \in {"interrupted", "time_budget_reached"}
  /\ status' = at[p]
  /\ Move(p, "unlock")
  /\ UNCHANGED <<request, snapshot, ckpt, log, selection, result, held, resume, mem, stop, peeked, env>>

\* A pool that broke refuses the next submit; no holdout was read then.
SubmitFails(p) ==
  /\ at[p] \in {"batch", "rescore", "holdout"}
  /\ Move(p, "failing")
  /\ UNCHANGED <<files, held, resume, mem, stop, peeked, env>>

PutFailed(p) ==
  /\ at[p] = "failing"
  /\ status' = "failed"
  /\ Move(p, "unlock")
  /\ UNCHANGED <<request, snapshot, ckpt, log, selection, result, held, resume, mem, stop, peeked, env>>

Unlock(p) ==
  /\ at[p] = "unlock"
  /\ Gone(p)
  /\ UNCHANGED <<files, peeked, env>>

-----------------------------------------------------------------------------
(* The environment. *)

\* SIGTERM or SIGINT once _handle_stop is installed.
Interrupt(p) ==
  /\ at[p] \in {"loop", "batch", "append", "save", "progress", "searched", "rescore",
                "select", "holdout", "final"}
  /\ ~stop[p]
  /\ stop' = [stop EXCEPT ![p] = TRUE]
  /\ UNCHANGED <<files, held, at, resume, mem, peeked, env>>

\* SIGKILL, a power loss, or SIGTERM before _handle_stop is installed.
Kill(p) ==
  /\ at[p] # "idle"
  /\ count.kills < MaxKills
  /\ Gone(p)
  /\ count' = [count EXCEPT !.kills = @ + 1]
  /\ UNCHANGED <<files, peeked, market>>

\* A deadline passes.  The clock is only read in these phases, so a deadline
\* that passes elsewhere is seen as one that passes in the next of them.
Tick(p) ==
  /\ at[p] \in {"loop", "save", "searched", "rescore", "final"}
  /\ mem[p].elapsed < 2
  /\ mem' = [mem EXCEPT ![p].elapsed = @ + 1]
  /\ UNCHANGED <<files, held, at, resume, stop, peeked, env>>

MarketMoves ==
  /\ market < MaxMarket
  /\ market' = market + 1
  /\ UNCHANGED <<files, held, at, resume, mem, stop, peeked, count>>

-----------------------------------------------------------------------------
Begin(p) ==
  \/ CheckEnds(p) \/ CheckGoesOn(p) \/ PutRequest(p) \/ TakeLock(p) \/ LockBusy(p)
  \/ BuildSnapshot(p) \/ SnapshotFails(p)
  \/ LoadCheckpoint(p) \/ NothingToResume(p) \/ NewPopulation(p)
  \/ EvaluateBaseline(p) \/ BaselineKnown(p) \/ LogBaseline(p)
  \/ PutRunning(p)

Search(p) ==
  \/ Submit(p) \/ Refill(p) \/ LeaveLoop(p)
  \/ Collect(p) \/ CollectNothing(p) \/ AppendResult(p)
  \/ SaveGeneration(p) \/ PutProgress(p)

Conclude(p) ==
  \/ StartRescore(p) \/ PickWinner(p) \/ NoFeasibleWinner(p) \/ GiveUp(p)
  \/ FreezeSelection(p) \/ ReportHoldout(p) \/ PutResult(p) \/ PutCompleted(p)
  \/ SaveEnd(p) \/ PutEnded(p) \/ SubmitFails(p) \/ PutFailed(p) \/ Unlock(p)

Step(p) == Begin(p) \/ Search(p) \/ Conclude(p)

SearchNext ==
  \/ \E p \in Procs : Invoke(p) \/ Step(p) \/ Interrupt(p) \/ Kill(p) \/ Tick(p)
  \/ MarketMoves

SearchSpec == SearchInit /\ [][SearchNext]_searchVars

\* A process that is not killed is scheduled, and its clock runs.
FairSpec == SearchSpec /\ \A p \in Procs : WF_searchVars(Step(p)) /\ WF_searchVars(Tick(p))

-----------------------------------------------------------------------------
\* What the checkpoint counts as evaluated is in the evaluation log, wherever
\* the process was killed: no result is skipped on resume and lost.
CheckpointLogged == ckpt.seen \subseteq log

\* A resumed search goes on with the search its checkpoint is of: it ranks
\* results of one data snapshot, whatever the market data did since; it never
\* repeats a candidate that the checkpoint counts as evaluated; and one whose
\* checkpoint has used the time budget of the request evaluates nothing more.
ResumeGoesOn ==
  /\ ckpt.written => ckpt.snapshot = snapshot
  /\ \A p \in Procs : resume[p] =>
       /\ at[p] = "batch" => mem[p].pending \intersect ckpt.seen = {}
       /\ at[p] \in {"batch", "rescore", "select", "holdout"} => ckpt.elapsed < 2

\* Status completed comes with the result that the frozen selection names and
\* whose holdout reports are complete.
CompletedSelection ==
  status = "completed" => selection = result /\ <<result, TRUE>> \in peeked

\* Neither a crash nor a resume loses the best candidate found: a resumed
\* search only replaces the checkpoint by one with as good a leader.
BestKept ==
  [][\A p \in Procs : held = p /\ resume[p] =>
       \A e \in ckpt.board : \E f \in ckpt'.board : f.fitness >= e.fitness]_searchVars

\* Every invocation ends: stopped, out of time, failed or with a winner.
RunEnds == \A p \in Procs : []<>(at[p] = "idle")

=============================================================================
