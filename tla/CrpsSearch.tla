------------------------------ MODULE CrpsSearch ------------------------------
(***************************************************************************)
(* The Bayesian CRPS search job, scripts/bayesian_crps_ga_job.py: one      *)
(* process that evaluates candidates of a population one after another,    *)
(* keeps a leaderboard, freezes the best when its time is up and only then *)
(* looks at the holdout.  A checkpoint is written around every evaluation  *)
(* so that a killed job continues where it was: the candidate in flight is *)
(* evaluated again, the generator state is restored, and the checkpoint is *)
(* validated field by field before it is believed.                         *)
(*                                                                         *)
(* The evaluation of a candidate and the draw of a population are          *)
(* deterministic in the code; here their result is chosen when they happen *)
(* for the first time and remembered (score, draws).                       *)
(***************************************************************************)
EXTENDS Integers, FiniteSets, SequencesExt

CONSTANTS
  Keys,            \* candidates
  Base,            \* the candidate of the URL, evaluated first
  Rank,            \* order of two candidates with the same kind of result
  NoKey,           \* None in a checkpoint
  PopulationSize, MaxBoard, Duration,
  MaxRuns, MaxKills, MaxElapsed  \* bounds of the model

\* No two candidates rank the same: the last of record_rank is the candidate's key.
ASSUME CrpsAssumption ==
  /\ IsFiniteSet(Keys) /\ Base \in Keys /\ NoKey \notin Keys
  /\ Rank \in [Keys -> Int] /\ IsInjective(Rank)
  /\ {PopulationSize, MaxBoard} \subseteq Nat \ {0} /\ Duration \in Nat

VARIABLES
  crpsPc,      \* where the process is; "off", "failed" and "done" without one
  after,       \* where it goes on when the checkpoint is written
  st, rng,     \* the optimizer state and generator in memory
  elapsed,     \* seconds of this search
  checkpoint,  \* checkpoint.sqlite3: optimizer state and generator
  log,         \* evaluations.sqlite3
  result,      \* result.sqlite3: the reported winner
  score,       \* what evaluations return
  first, draws,  \* the populations that the seed leads to
  runs, kills

files == <<checkpoint, log, result>>
memory == <<st, rng, elapsed>>
oracle == <<score, first, draws>>
bounds == <<runs, kills>>
crpsVars == <<crpsPc, after, memory, files, oracle, bounds>>

Outcomes == {"ok", "incomplete", "failed"}
Kinds == {"selection", "holdout"}
Entry(k, phase, outcome) == [key |-> k, phase |-> phase, outcome |-> outcome]
NoEntry == Entry(NoKey, "none", "failed")
Feasible(e) == e.outcome = "ok"
KeysIn(s) == {s[i].key : i \in DOMAIN s}

\* A complete record before an incomplete one before a failed one.
Above(e, f) ==
  LET Grade(x) == CASE x.outcome = "ok" -> 2 [] x.outcome = "incomplete" -> 1 [] OTHER -> 0
  IN Grade(e) > Grade(f) \/ (Grade(e) = Grade(f) /\ Rank[e.key] > Rank[f.key])

Populations(known) ==
  {s \in SeqOf(Keys \ known, PopulationSize) : IsInjective(s)}

-----------------------------------------------------------------------------
(* A checkpoint and what a resume demands of it *)

NewSearch(population) ==
  [phase |-> "search", generation |-> 0, pending |-> population, inflight |-> NoKey,
   board |-> <<>>, seen |-> {}, good |-> 0, bad |-> 0, feasible |-> 0,
   elapsed |-> 0, selected |-> -1, baseline |-> NoEntry, winner |-> NoEntry,
   winnerHoldout |-> NoEntry, baselineHoldout |-> NoEntry]

NoCheckpoint == [state |-> NewSearch(<<>>), rng |-> -1]

Queued(s) == (IF s.inflight = NoKey THEN <<>> ELSE <<s.inflight>>) \o s.pending

ValidCounters(s) ==
  /\ s.good + s.bad = Cardinality(s.seen)
  /\ s.feasible <= s.good

ValidTime(s) ==
  IF s.phase = "search" THEN s.selected = -1
  ELSE Duration <= s.selected /\ s.selected <= s.elapsed

ValidQueue(s) ==
  /\ IsInjective(Queued(s))
  /\ ToSet(Queued(s)) \cap s.seen = {}
  /\ s.phase # "search" => Queued(s) = <<>>

ValidBoard(s) ==
  /\ Len(s.board) <= MaxBoard
  /\ KeysIn(s.board) \subseteq s.seen
  /\ \A i, j \in DOMAIN s.board : i < j => Above(s.board[i], s.board[j])
  /\ \A i \in DOMAIN s.board : s.board[i].phase = "selection"

ValidBaseline(s) ==
  IF s.seen = {}
  THEN /\ s.baseline = NoEntry /\ s.board = <<>> /\ s.phase = "search"
       /\ Queued(s) # <<>> /\ Head(Queued(s)) = Base
  ELSE s.baseline.key = Base /\ Feasible(s.baseline) /\ Base \in s.seen

ValidHoldout(s) ==
  IF s.phase = "search"
  THEN s.winner = NoEntry /\ s.winnerHoldout = NoEntry /\ s.baselineHoldout = NoEntry
  ELSE /\ s.board # <<>> /\ Feasible(s.winner) /\ s.winner = s.board[1]
       /\ s.winnerHoldout # NoEntry =>
            s.winnerHoldout.key = s.winner.key /\ s.winnerHoldout.phase = "winner-holdout"
       /\ s.baselineHoldout # NoEntry =>
            /\ s.winnerHoldout # NoEntry
            /\ s.baselineHoldout.key = Base
            /\ s.baselineHoldout.phase = "url-baseline-holdout"
       /\ s.phase = "completed" => Feasible(s.winnerHoldout) /\ Feasible(s.baselineHoldout)

ValidResume(s) ==
  ValidCounters(s) /\ ValidTime(s) /\ ValidQueue(s) /\ ValidBoard(s)
  /\ ValidBaseline(s) /\ ValidHoldout(s)

-----------------------------------------------------------------------------
CrpsInit ==
  /\ crpsPc = "off" /\ after = "off"
  /\ st = NewSearch(<<>>) /\ rng = 0 /\ elapsed = 0
  /\ checkpoint = NoCheckpoint /\ log = <<>> /\ result = NoEntry
  /\ score = [x \in Keys \X Kinds |-> "unknown"]
  /\ first \in {s \in Populations({}) : Len(s) = PopulationSize /\ Head(s) = Base}
  /\ draws = {}
  /\ runs = 0 /\ kills = 0

Raise == crpsPc' = "failed" /\ UNCHANGED after

\* _write_checkpoint comes next; then the process goes on at label.
SaveThen(label) == crpsPc' = "save" /\ after' = label

\* The job manager resumes a job that has a checkpoint.
LaunchNew ==
  /\ crpsPc \in {"off", "failed"} /\ runs < MaxRuns /\ runs' = runs + 1
  /\ checkpoint = NoCheckpoint
  /\ st' = NewSearch(first) /\ rng' = 0 /\ elapsed' = 0
  /\ SaveThen("loop")
  /\ UNCHANGED <<files, oracle, kills>>

\* Mutant of Resume: the interrupted candidate counts as done.
ResumeForgetsInflight ==
  /\ crpsPc \in {"off", "failed", "done"} /\ runs < MaxRuns /\ runs' = runs + 1
  /\ checkpoint # NoCheckpoint
  /\ LET s == checkpoint.state
     IN /\ st' = [s EXCEPT !.inflight = NoKey]
        /\ rng' = checkpoint.rng /\ elapsed' = s.elapsed
        /\ SaveThen(IF s.phase = "search" THEN "loop" ELSE "holdout")
  /\ UNCHANGED <<files, oracle, kills>>

\* The interrupted candidate goes back to the front of its population.
Resume ==
  /\ crpsPc \in {"off", "failed", "done"} /\ runs < MaxRuns /\ runs' = runs + 1
  /\ checkpoint # NoCheckpoint
  /\ LET s == checkpoint.state
     IN IF ValidResume(s)
        THEN /\ st' = [s EXCEPT !.pending = Queued(s), !.inflight = NoKey]
             /\ rng' = checkpoint.rng /\ elapsed' = s.elapsed
             /\ SaveThen(IF s.phase = "search" THEN "loop" ELSE "holdout")
        ELSE Raise /\ UNCHANGED memory
  /\ UNCHANGED <<files, oracle, kills>>

\* The canonical record; its JSON export is read by the job manager only.
WriteCheckpoint ==
  /\ crpsPc = "save"
  /\ checkpoint' = [state |-> st, rng |-> rng]
  /\ crpsPc' = after
  /\ UNCHANGED <<after, memory, log, result, oracle, bounds>>

Tick ==
  /\ crpsPc \notin {"off", "failed", "done"} /\ elapsed < MaxElapsed
  /\ elapsed' = elapsed + 1
  /\ UNCHANGED <<crpsPc, after, st, rng, files, oracle, bounds>>

-----------------------------------------------------------------------------
(* Search *)

\* Places of the leaderboard that may win and breed; the first of them.
Leaders(s) == {i \in DOMAIN s.board : Feasible(s.board[i])}
Leader(s) == s.board[Min(Leaders(s))]

\* Mutants of Freeze: what is queued stays; the selection is not saved first.
FreezeKeepsQueue ==
  /\ crpsPc = "loop" /\ elapsed >= Duration
  /\ IF Leaders(st) = {}
     THEN Raise /\ UNCHANGED st
     ELSE /\ st' = [st EXCEPT !.winner = Leader(st), !.phase = "holdout",
                              !.elapsed = elapsed, !.selected = elapsed]
          /\ SaveThen("holdout")
  /\ UNCHANGED <<rng, elapsed, files, oracle, bounds>>

FreezeUnsaved ==
  /\ crpsPc = "loop" /\ elapsed >= Duration
  /\ IF Leaders(st) = {}
     THEN Raise /\ UNCHANGED st
     ELSE /\ st' = [st EXCEPT !.winner = Leader(st), !.phase = "holdout",
                              !.pending = <<>>, !.elapsed = elapsed, !.selected = elapsed]
          /\ crpsPc' = "holdout" /\ UNCHANGED after
  /\ UNCHANGED <<rng, elapsed, files, oracle, bounds>>

\* The time is up: the leader is frozen, what is still queued is dropped.
Freeze ==
  /\ crpsPc = "loop" /\ elapsed >= Duration
  /\ IF Leaders(st) = {}
     THEN Raise /\ UNCHANGED st
     ELSE /\ st' = [st EXCEPT !.winner = Leader(st), !.phase = "holdout",
                              !.pending = <<>>, !.elapsed = elapsed, !.selected = elapsed]
          /\ SaveThen("holdout")
  /\ UNCHANGED <<rng, elapsed, files, oracle, bounds>>

\* The same generator, leaderboard and known candidates breed the same population.
Drawn == {d \in draws : d.rng = rng /\ d.board = st.board /\ d.seen = st.seen}

NextPopulation(kids) ==
  IF Drawn = {}
  THEN /\ kids \in Populations(st.seen)
       /\ draws' = draws \union
            {[rng |-> rng, board |-> st.board, seen |-> st.seen, kids |-> kids]}
  ELSE /\ kids \in {d.kids : d \in Drawn}
       /\ UNCHANGED draws

Draw ==
  /\ crpsPc = "loop" /\ elapsed < Duration /\ st.pending = <<>>
  /\ \E kids \in Populations(st.seen) :
       /\ NextPopulation(kids)
       /\ IF kids = <<>> \/ Leaders(st) = {}
          THEN Raise /\ UNCHANGED <<st, rng>>
          ELSE /\ st' = [st EXCEPT !.generation = @ + 1, !.pending = kids]
               /\ rng' = rng + 1
               /\ crpsPc' = "pick" /\ UNCHANGED after
  /\ UNCHANGED <<elapsed, files, score, first, bounds>>

\* The candidate leaves the queue and is named in the checkpoint before it is evaluated.
Pick ==
  /\ crpsPc = "pick" \/ (crpsPc = "loop" /\ elapsed < Duration)
  /\ st.pending # <<>>
  /\ st' = [st EXCEPT !.inflight = Head(st.pending), !.pending = Tail(@), !.elapsed = elapsed]
  /\ SaveThen("evaluate")
  /\ UNCHANGED <<rng, elapsed, files, oracle, bounds>>

\* What an evaluation returns, now and whenever it is repeated.
Evaluated(k, kind, outcome) ==
  /\ score[<<k, kind>>] \in {"unknown", outcome}
  /\ score' = [score EXCEPT ![<<k, kind>>] = outcome]

Cut(board) == SubSeq(board, 1, IF Len(board) < MaxBoard THEN Len(board) ELSE MaxBoard)

\* Mutant of Insert: a new record goes to the end.
InsertLast(board, e) == Cut(Append(board, e))

\* A new record goes where sorting puts it, before the first that is not above it.
Place(board, e) == Min({i \in DOMAIN board : ~Above(board[i], e)} \union {Len(board) + 1})

Insert(board, e) == Cut(InsertAt(board, Place(board, e), e))

Recorded(s, e) ==
  [s EXCEPT !.inflight = NoKey,
            !.good = IF e.outcome = "failed" THEN @ ELSE @ + 1,
            !.bad = IF e.outcome = "failed" THEN @ + 1 ELSE @,
            !.feasible = IF Feasible(e) THEN @ + 1 ELSE @,
            !.baseline = IF s.seen = {} THEN e ELSE @,
            !.seen = @ \union {e.key},
            !.board = Insert(@, e),
            !.elapsed = elapsed]

\* The URL baseline comes first and must be complete.
Evaluate ==
  /\ crpsPc = "evaluate"
  /\ \E outcome \in Outcomes :
       LET e == Entry(st.inflight, "selection", outcome)
       IN /\ Evaluated(e.key, "selection", outcome)
          /\ log' = Append(log, e)
          /\ IF st.seen = {} /\ ~(e.key = Base /\ Feasible(e))
             THEN Raise /\ UNCHANGED st
             ELSE st' = Recorded(st, e) /\ SaveThen("loop")
  /\ UNCHANGED <<rng, elapsed, checkpoint, result, first, draws, bounds>>

-----------------------------------------------------------------------------
(* Holdout and result *)

WinnerHoldout ==
  /\ crpsPc = "holdout" /\ st.winnerHoldout = NoEntry
  /\ \E outcome \in Outcomes :
       LET e == Entry(st.winner.key, "winner-holdout", outcome)
       IN /\ Evaluated(e.key, "holdout", outcome)
          /\ log' = Append(log, e)
          /\ st' = [st EXCEPT !.winnerHoldout = e, !.elapsed = elapsed]
  /\ SaveThen("holdout")
  /\ UNCHANGED <<rng, elapsed, checkpoint, result, first, draws, bounds>>

\* A winner that is the baseline is not evaluated twice.
BaselineHoldout ==
  /\ crpsPc = "holdout" /\ Feasible(st.winnerHoldout) /\ st.baselineHoldout = NoEntry
  /\ \E outcome \in Outcomes :
       LET e == Entry(Base, "url-baseline-holdout", outcome)
       IN /\ IF st.winner.key = Base
             THEN outcome = st.winnerHoldout.outcome /\ UNCHANGED <<score, log>>
             ELSE Evaluated(Base, "holdout", outcome) /\ log' = Append(log, e)
          /\ st' = [st EXCEPT !.baselineHoldout = e, !.elapsed = elapsed]
  /\ SaveThen("holdout")
  /\ UNCHANGED <<rng, elapsed, checkpoint, result, first, draws, bounds>>

NoHoldoutEvidence ==
  /\ crpsPc = "holdout"
  /\ \E e \in {st.winnerHoldout, st.baselineHoldout} : e # NoEntry /\ ~Feasible(e)
  /\ Raise
  /\ UNCHANGED <<memory, files, oracle, bounds>>

PutResult ==
  /\ crpsPc = "holdout" /\ Feasible(st.winnerHoldout) /\ Feasible(st.baselineHoldout)
  /\ result' = st.winner
  /\ crpsPc' = "complete"
  /\ UNCHANGED <<after, memory, checkpoint, log, oracle, bounds>>

Complete ==
  /\ crpsPc = "complete"
  /\ st' = [st EXCEPT !.phase = "completed", !.elapsed = elapsed]
  /\ SaveThen("done")
  /\ UNCHANGED <<rng, elapsed, files, oracle, bounds>>

\* SIGKILL or power loss; SIGINT and SIGTERM raise KeyboardInterrupt with the same effect.
Kill ==
  /\ crpsPc \notin {"off", "failed", "done"} /\ kills < MaxKills
  /\ kills' = kills + 1 /\ crpsPc' = "off"
  /\ UNCHANGED <<after, memory, files, oracle, runs>>

\* An error evaluate_candidate does not catch, such as a lost worker.
EvaluationRaises ==
  /\ crpsPc \in {"evaluate", "holdout"} /\ kills < MaxKills
  /\ kills' = kills + 1 /\ Raise
  /\ UNCHANGED <<memory, files, oracle, runs>>

CrpsNext ==
  \/ LaunchNew \/ Resume \/ WriteCheckpoint \/ Tick
  \/ Freeze \/ Draw \/ Pick \/ Evaluate
  \/ WinnerHoldout \/ BaselineHoldout \/ NoHoldoutEvidence \/ PutResult \/ Complete
  \/ Kill \/ EvaluationRaises

CrpsSpec == CrpsInit /\ [][CrpsNext]_crpsVars

-----------------------------------------------------------------------------
(* Properties *)

\* Whatever moment a job is interrupted at, the checkpoint it leaves passes the
\* validation of _validated_resume_state: no job writes a state that it would
\* later refuse to resume.
ResumeAccepts == checkpoint # NoCheckpoint => ValidResume(checkpoint.state)

\* The populations so far, by the generator state they leave behind.
Generations == {0} \union {d.rng + 1 : d \in draws}
Population(n) == IF n = 0 THEN first ELSE (CHOOSE d \in draws : d.rng = n - 1).kids

\* l comes after k, in its population or at the head of the next.
NextTo(k, l) ==
  \E n \in Generations : \E i \in DOMAIN Population(n) :
    /\ Population(n)[i] = k
    /\ IF i < Len(Population(n)) THEN l = Population(n)[i + 1]
       ELSE /\ n + 1 \in Generations /\ Population(n + 1) # <<>>
            /\ l = Head(Population(n + 1))

\* The populations drawn depend on the seed alone: no generation is ever drawn
\* from another leaderboard than the uninterrupted search has.
DrawnOnce == \A d, e \in draws : d.rng = e.rng => d = e

\* The log evaluates those populations in order, a candidate being repeated only
\* directly after itself.
EvaluatedInOrder ==
  \A i \in DOMAIN log : log[i].phase = "selection" =>
    IF i = 1 THEN log[i].key = Head(first)
    ELSE log[i].key = log[i - 1].key \/ NextTo(log[i - 1].key, log[i].key)

\* Interruptions do not change the search: it can go on from whatever they leave,
\* and goes on as if nothing had happened.
OneCourse == ResumeAccepts /\ DrawnOnce /\ EvaluatedInOrder

\* The holdout stays untouched until the selection is over, over all
\* invocations: no candidate is evaluated for selection after any holdout
\* evaluation, and every holdout evaluation is of the winner that the
\* checkpoint holds or of the baseline.
HoldoutUntouched ==
  \A i \in DOMAIN log : log[i].phase # "selection" =>
    /\ \A j \in DOMAIN log : j > i => log[j].phase # "selection"
    /\ log[i].key \in {checkpoint.state.winner.key, Base}

\* The winner is the best of everything the log holds, except for one
\* evaluation whose job was killed before it was counted; the result reports it.
WinnerIsBest ==
  /\ checkpoint.state.phase # "search" =>
       \E lost \in Keys :
         \A i \in DOMAIN log : log[i].phase = "selection" =>
           LET e == log[i]
           IN \/ e = checkpoint.state.winner \/ Above(checkpoint.state.winner, e)
              \/ e.key = lost /\ lost \notin checkpoint.state.seen
  /\ result # NoEntry => result = checkpoint.state.winner

\* What the job reports was selected without the holdout, and is the best it saw.
HonestSelection == HoldoutUntouched /\ WinnerIsBest
=============================================================================
