---------------------------- MODULE GaSearchProofs ----------------------------
(***************************************************************************)
(* Proofs about the genetic search: whatever the number of invocations,    *)
(* candidates, kills and versions of the market data, the checkpoint, the  *)
(* evaluation log, the selection and the result agree.                     *)
(***************************************************************************)
EXTENDS GaSearch, FiniteSetTheorems, TLAPS

\* What an evaluation can return for a candidate.
Entries == {e \in Results : e.fitness \in {Failed, Rank[e.key]}}

MemType == [board : SUBSET Entries, seen : SUBSET Keys, population : SUBSET Keys,
            pending : SUBSET Keys, results : SUBSET Keys,
            elapsed : 0 .. 2, snapshot : Nat, winner : Keys \union {NoKey}]

CkptType == [written : BOOLEAN, board : SUBSET Entries, seen : SUBSET Keys,
             population : SUBSET Keys, elapsed : 0 .. 2, snapshot : Nat]

\* Before run.lock, and with it.
Outside == {"idle", "check", "request", "lock"}

Inside ==
  {"snapshot", "load", "baseline", "baselog", "running", "loop", "batch", "append", "save",
   "progress", "searched", "rescore", "select", "holdout", "result", "completed", "final",
   "interrupted", "time_budget_reached", "failing", "unlock"}

TypeOK ==
  /\ request \in BOOLEAN
  /\ snapshot \in Nat
  /\ ckpt \in CkptType
  /\ log \subseteq Keys
  /\ selection \in Keys \union {NoKey} /\ result \in Keys \union {NoKey}
  /\ status \in {"none", "running", "completed", "failed", "interrupted", "time_budget_reached"}
  /\ held \in Procs \union {NoProc}
  /\ at \in [Procs -> Outside \union Inside]
  /\ resume \in [Procs -> BOOLEAN]
  /\ mem \in [Procs -> MemType]
  /\ stop \in [Procs -> BOOLEAN]
  /\ market \in Nat \ {0}
  /\ peeked \subseteq (Keys \union {NoKey}) \X BOOLEAN
  /\ count \in [runs : Nat, kills : Nat]

\* The lock is held by who is inside; the others know nothing.
LockHeld == \A p \in Procs : held = p <=> at[p] \in Inside

Fresh == \A p \in Procs : at[p] \in Outside => mem[p] = Blank

-----------------------------------------------------------------------------
\* What the holder has seen is in the log, or about to be appended to it.
Logged(p) ==
  /\ mem[p].seen \subseteq
       log \union mem[p].results \union (IF at[p] = "baselog" THEN {Base} ELSE {})
  /\ at[p] # "append" => mem[p].results = {}
  /\ KeysOf(mem[p].board) \subseteq mem[p].seen

\* The checkpoint's leaderboard has been seen, and what it has seen is logged.
CheckpointTrue == ckpt.seen \subseteq log /\ KeysOf(ckpt.board) \subseteq ckpt.seen

\* The holder works on the saved snapshot, the checkpoint's; a batch holds
\* candidates not seen before, and was submitted in time.
Current(p) ==
  /\ at[p] \in Inside \ {"snapshot"} => mem[p].snapshot = snapshot /\ snapshot # 0
  /\ at[p] = "batch" => mem[p].pending \intersect mem[p].seen = {} /\ mem[p].elapsed = 0

OneSnapshot == ckpt.written => ckpt.snapshot = snapshot /\ snapshot # 0

\* No leader of a is ahead of b's.
AsGood(a, b) == \A e \in a : \E f \in b : f.fitness >= e.fitness

\* A resumed search has at least what the checkpoint has.
Ahead(p) ==
  resume[p] =>
    /\ at[p] \in Inside \ {"snapshot", "load"} =>
         /\ ckpt.seen \subseteq mem[p].seen
         /\ ckpt.elapsed <= mem[p].elapsed
         /\ AsGood(ckpt.board, mem[p].board)
    /\ at[p] \in {"rescore", "select", "holdout"} => ckpt.elapsed < 2

\* From the first status of an invocation to its last the status is running,
\* and the documents follow the winner.
Reported(p) ==
  /\ at[p] \in Inside \ {"snapshot", "load", "baseline", "baselog", "running", "unlock"} =>
       status = "running"
  /\ at[p] \in {"holdout", "result", "completed"} => selection = mem[p].winner
  /\ at[p] \in {"result", "completed"} => <<mem[p].winner, TRUE>> \in peeked
  /\ at[p] = "completed" => result = mem[p].winner

SearchInv ==
  /\ TypeOK /\ LockHeld /\ Fresh /\ CheckpointTrue /\ OneSnapshot /\ CompletedSelection
  /\ \A p \in Procs : Logged(p) /\ Current(p) /\ Ahead(p) /\ Reported(p)
-----------------------------------------------------------------------------
\* An entry has a candidate and a natural number.
LEMMA EntryType ==
  ASSUME NEW e \in Entries
  PROVE  e.key \in Keys /\ e.fitness \in Nat
BY GaAssumption DEF Entries, Results, Failed

\* An evaluation that ends returns one entry for each candidate.
LEMMA OutcomesType ==
  ASSUME NEW keys \in SUBSET Keys, NEW results \in Outcomes(keys)
  PROVE  results \in SUBSET Entries /\ KeysOf(results) = keys
<1>1. PICK ok \in SUBSET keys :
        results = {[key |-> k, fitness |-> IF k \in ok THEN Rank[k] ELSE Failed] : k \in keys}
  BY DEF Outcomes
<1> DEFINE entry(k) == [key |-> k, fitness |-> IF k \in ok THEN Rank[k] ELSE Failed]
<1>2. \A k \in keys : entry(k) \in Entries /\ entry(k).key = k
  BY GaAssumption DEF Entries, Results
<1>3. results = {entry(k) : k \in keys}
  BY <1>1
<1> HIDE DEF entry
<1>4. results \in SUBSET Entries
  BY <1>2, <1>3
<1>5. KeysOf(results) = keys
  BY <1>2, <1>3 DEF KeysOf
<1> QED
  BY <1>4, <1>5

\* There are finitely many entries: each is a key with one of two fitnesses.
LEMMA EntriesFinite == IsFiniteSet(Entries)
<1> DEFINE failed == [k \in Keys |-> [key |-> k, fitness |-> Failed]]
           ranked == [k \in Keys |-> [key |-> k, fitness |-> Rank[k]]]
           F == {failed[k] : k \in Keys}
           R == {ranked[k] : k \in Keys}
<1>1. failed \in Surjection(Keys, F) /\ ranked \in Surjection(Keys, R)
  BY DEF Surjection
<1>2. IsFiniteSet(F) /\ IsFiniteSet(R)
  BY <1>1, GaAssumption, FS_Surjection
<1>3. IsFiniteSet(F \union R)
  BY <1>2, FS_Union
<1>4. Entries \subseteq F \union R
  BY DEF Entries, Results
<1> QED
  BY <1>3, <1>4, FS_Subset

\* The best n entries are among the entries, and there is one if n is positive.
LEMMA TopsNonempty ==
  ASSUME NEW board \in SUBSET Entries, NEW n \in Nat \ {0}, NEW top \in Tops(board, n)
  PROVE  top \subseteq board /\ (board # {} => top # {})
<1>1. IsFiniteSet(board) /\ IsFiniteSet(top) /\ top \subseteq board
  BY EntriesFinite, FS_Subset DEF Tops
<1>2. Cardinality(board) \in Nat /\ (Cardinality(board) = 0 <=> board = {})
  BY <1>1, FS_CardinalityType, FS_EmptySet
<1>3. Cardinality(top) = IF Cardinality(board) < n THEN Cardinality(board) ELSE n
  BY DEF Tops
<1>4. board # {} => Cardinality(top) # 0
  BY <1>2, <1>3
<1> QED
  BY <1>1, <1>4, FS_EmptySet

\* The leaderboard shows results, and no result is ahead of its leaders.
LEMMA LeadersKept ==
  ASSUME NEW results \in SUBSET Entries, NEW board \in SortedLeaderboard(results)
  PROVE  board \subseteq results /\ AsGood(results, board)
<1>1. Unique(results) \in SUBSET Entries /\ Unique(results) \subseteq results
  BY DEF Unique
<1>2. board \in Tops(Unique(results), MaxBoard) /\ MaxBoard \in Nat \ {0}
  BY GaAssumption DEF SortedLeaderboard
<1>3. board \subseteq Unique(results) /\ (Unique(results) # {} => board # {})
  BY <1>1, <1>2, TopsNonempty
<1>4. ASSUME NEW e \in results
      PROVE  \E f \in Unique(results) : f.fitness >= e.fitness
  <2>1. CASE \E f \in results : f.key = e.key /\ f.fitness = Rank[e.key]
    <3>1. PICK f \in results : f.key = e.key /\ f.fitness = Rank[e.key]
      BY <2>1
    <3>2. \A g \in results : g.key = e.key => f.fitness >= g.fitness
      BY <3>1, GaAssumption DEF Entries, Results, Failed
    <3> QED
      BY <3>1, <3>2 DEF Unique
  <2>2. CASE \A f \in results : f.key = e.key => f.fitness # Rank[e.key]
    <3>1. \A f \in results : f.key = e.key => f.fitness = Failed
      BY <2>2 DEF Entries
    <3> QED
      BY <3>1 DEF Unique, Failed
  <2> QED
    BY <2>1, <2>2
<1>5. ASSUME NEW e \in results
      PROVE  \E f \in board : f.fitness >= e.fitness
  <2>1. PICK u \in Unique(results) : u.fitness >= e.fitness
    BY <1>4
  <2>2. PICK f \in board : TRUE
    BY <2>1, <1>3
  <2>3. u \in board \/ f.fitness >= u.fitness
    BY <1>2, <2>1, <2>2 DEF Tops
  <2>4. f.fitness \in Nat /\ u.fitness \in Nat /\ e.fitness \in Nat
    BY <1>1, <1>3, <2>2, EntryType
  <2> QED
    BY <2>1, <2>2, <2>3, <2>4
<1> QED
  BY <1>1, <1>3, <1>5 DEF AsGood

\* Being as good is reflexive and transitive, and holds of a part.
LEMMA AsGoodOrder ==
  ASSUME NEW a \in SUBSET Entries, NEW b \in SUBSET Entries, NEW c \in SUBSET Entries
  PROVE  /\ a \subseteq b => AsGood(a, b)
         /\ AsGood(a, b) /\ AsGood(b, c) => AsGood(a, c)
<1>1. \A e \in Entries : e.fitness \in Nat
  BY EntryType
<1>2. a \subseteq b => AsGood(a, b)
  BY <1>1 DEF AsGood
<1>3. ASSUME AsGood(a, b), AsGood(b, c) PROVE AsGood(a, c)
  <2>1. ASSUME NEW e \in a PROVE \E f \in c : f.fitness >= e.fitness
    <3>1. PICK g \in b : g.fitness >= e.fitness
      BY <1>3 DEF AsGood
    <3>2. PICK f \in c : f.fitness >= g.fitness
      BY <1>3, <3>1 DEF AsGood
    <3> QED
      BY <1>1, <3>1, <3>2
  <2> QED
    BY <2>1 DEF AsGood
<1> QED
  BY <1>2, <1>3

\* A leaderboard made of the one before and some results.
LEMMA Merged ==
  ASSUME NEW before \in SUBSET Entries, NEW keys \in SUBSET Keys,
         NEW results \in Outcomes(keys),
         NEW board \in SortedLeaderboard(before \union results)
  PROVE  /\ board \in SUBSET Entries /\ AsGood(before, board)
         /\ KeysOf(board) \subseteq KeysOf(before) \union keys
<1>1. results \in SUBSET Entries /\ KeysOf(results) = keys
  BY OutcomesType
<1>2. before \union results \in SUBSET Entries
  BY <1>1
<1>3. board \subseteq before \union results /\ AsGood(before \union results, board)
  BY <1>2, LeadersKept
<1> QED
  BY <1>1, <1>3 DEF AsGood, KeysOf
-----------------------------------------------------------------------------
\* The typed records that the steps of one process make of its memory.
LEMMA MemKept ==
  ASSUME TypeOK, NEW p \in Procs
  PROVE  /\ [mem EXCEPT ![p] = Blank] \in [Procs -> MemType]
         /\ \A n \in Nat : [mem EXCEPT ![p].snapshot = n] \in [Procs -> MemType]
         /\ [mem EXCEPT ![p].board = ckpt.board, ![p].seen = ckpt.seen,
                        ![p].population = ckpt.population, ![p].elapsed = ckpt.elapsed]
              \in [Procs -> MemType]
         /\ \A keys \in SUBSET Keys :
              /\ [mem EXCEPT ![p].population = keys] \in [Procs -> MemType]
              /\ [mem EXCEPT ![p].pending = keys] \in [Procs -> MemType]
              /\ [mem EXCEPT ![p].population = keys, ![p].pending = {}] \in [Procs -> MemType]
         /\ [mem EXCEPT ![p].seen = @ \union {Base}] \in [Procs -> MemType]
         /\ \A k \in Keys : /\ [mem EXCEPT ![p].results = @ \ {k}] \in [Procs -> MemType]
                            /\ [mem EXCEPT ![p].winner = k] \in [Procs -> MemType]
         /\ mem[p].elapsed < 2 => [mem EXCEPT ![p].elapsed = @ + 1] \in [Procs -> MemType]
<1>1. mem[p] \in MemType /\ mem \in [Procs -> MemType] /\ Base \in Keys
  BY GaAssumption DEF TypeOK
<1>2. ckpt.board \in SUBSET Entries /\ ckpt.seen \in SUBSET Keys
      /\ ckpt.population \in SUBSET Keys /\ ckpt.elapsed \in 0 .. 2
  BY DEF TypeOK, CkptType
<1>3. Blank \in MemType
  BY DEF Blank, MemType
<1>4. ASSUME NEW n \in Nat PROVE [mem[p] EXCEPT !.snapshot = n] \in MemType
  BY <1>1 DEF MemType
<1>5. [mem[p] EXCEPT !.board = ckpt.board, !.seen = ckpt.seen,
                     !.population = ckpt.population, !.elapsed = ckpt.elapsed] \in MemType
  BY <1>1, <1>2 DEF MemType
<1>6. ASSUME NEW keys \in SUBSET Keys
      PROVE  /\ [mem[p] EXCEPT !.population = keys] \in MemType
             /\ [mem[p] EXCEPT !.pending = keys] \in MemType
             /\ [mem[p] EXCEPT !.population = keys, !.pending = {}] \in MemType
  BY <1>1 DEF MemType
<1>7. [mem[p] EXCEPT !.seen = @ \union {Base}] \in MemType
  BY <1>1 DEF MemType
<1>8. ASSUME NEW k \in Keys
      PROVE  /\ [mem[p] EXCEPT !.results = @ \ {k}] \in MemType
             /\ [mem[p] EXCEPT !.winner = k] \in MemType
  BY <1>1 DEF MemType
<1>9. mem[p].elapsed < 2 => [mem[p] EXCEPT !.elapsed = @ + 1] \in MemType
  BY <1>1 DEF MemType
<1> QED
  BY <1>1, <1>3, <1>4, <1>5, <1>6, <1>7, <1>8, <1>9

\* The records that an evaluation makes of it: of the baseline, or of a batch.
LEMMA MemEvaluated ==
  ASSUME TypeOK, NEW p \in Procs, NEW board \in SUBSET Entries, NEW done \in SUBSET Keys
  PROVE  /\ [mem EXCEPT ![p].board = board, ![p].seen = @ \union {Base}] \in [Procs -> MemType]
         /\ [mem EXCEPT ![p].board = board, ![p].seen = @ \union done,
                        ![p].pending = @ \ done, ![p].results = done] \in [Procs -> MemType]
<1>1. mem[p] \in MemType /\ mem \in [Procs -> MemType] /\ Base \in Keys
  BY GaAssumption DEF TypeOK
<1>2. [mem[p] EXCEPT !.board = board, !.seen = @ \union {Base}] \in MemType
  BY <1>1 DEF MemType
<1>3. [mem[p] EXCEPT !.board = board, !.seen = @ \union done,
                     !.pending = @ \ done, !.results = done] \in MemType
  BY <1>1 DEF MemType
<1> QED
  BY <1>1, <1>2, <1>3

\* What the fields of a typed memory are.
LEMMA MemFields ==
  ASSUME TypeOK, NEW p \in Procs
  PROVE  /\ mem[p].board \in SUBSET Entries /\ mem[p].seen \in SUBSET Keys
         /\ mem[p].population \in SUBSET Keys /\ mem[p].pending \in SUBSET Keys
         /\ mem[p].results \in SUBSET Keys /\ mem[p].elapsed \in 0 .. 2
         /\ mem[p].snapshot \in Nat /\ mem[p].winner \in Keys \union {NoKey}
         /\ ckpt.board \in SUBSET Entries /\ ckpt.seen \in SUBSET Keys
         /\ ckpt.population \in SUBSET Keys /\ ckpt.elapsed \in 0 .. 2
         /\ at[p] \in Outside \union Inside /\ resume[p] \in BOOLEAN /\ stop[p] \in BOOLEAN
BY DEF TypeOK, MemType, CkptType

\* The elites and the children are candidates.
LEMMA NextPopulationType ==
  ASSUME NEW board \in SUBSET Entries, NEW next \in NextPopulation(board)
  PROVE  next \in SUBSET Keys
<1>1. \A elite \in Tops(board, 2) : KeysOf(elite) \subseteq Keys
  BY EntryType DEF Tops, KeysOf
<1> QED
  BY <1>1 DEF NextPopulation

\* Only process p moves.
Alone(p) ==
  \A q \in Procs \ {p} :
    at'[q] = at[q] /\ mem'[q] = mem[q] /\ resume'[q] = resume[q] /\ stop'[q] = stop[q]

Act(p) == Invoke(p) \/ Step(p) \/ Interrupt(p) \/ Kill(p) \/ Tick(p)

\* A step of one process leaves the others where they are.
LEMMA OthersKept ==
  ASSUME TypeOK, NEW p \in Procs, Act(p)
  PROVE  Alone(p)
<1> USE DEF TypeOK, Move, Gone, Alone, files, env
<1>1. CASE Begin(p)
  <2>1. CASE \/ CheckEnds(p) \/ CheckGoesOn(p) \/ PutRequest(p) \/ TakeLock(p) \/ LockBusy(p)
             \/ BuildSnapshot(p) \/ SnapshotFails(p)
    BY <2>1 DEF CheckEnds, CheckGoesOn, PutRequest, TakeLock, LockBusy, BuildSnapshot,
                SnapshotFails
  <2>2. CASE \/ LoadCheckpoint(p) \/ NothingToResume(p) \/ NewPopulation(p)
             \/ EvaluateBaseline(p) \/ BaselineKnown(p) \/ LogBaseline(p) \/ PutRunning(p)
    BY <2>2 DEF LoadCheckpoint, NothingToResume, NewPopulation, EvaluateBaseline, BaselineKnown,
                LogBaseline, PutRunning
  <2> QED
    BY <1>1, <2>1, <2>2 DEF Begin
<1>2. CASE Search(p)
  BY <1>2 DEF Search, Submit, Refill, LeaveLoop, Collect, CollectNothing, AppendResult,
              SaveGeneration, PutProgress
<1>3. CASE Conclude(p)
  <2>1. CASE \/ StartRescore(p) \/ PickWinner(p) \/ NoFeasibleWinner(p) \/ GiveUp(p)
             \/ FreezeSelection(p) \/ ReportHoldout(p) \/ PutResult(p)
    BY <2>1 DEF StartRescore, PickWinner, NoFeasibleWinner, GiveUp, FreezeSelection,
                ReportHoldout, PutResult
  <2>2. CASE \/ PutCompleted(p) \/ SaveEnd(p) \/ PutEnded(p) \/ SubmitFails(p) \/ PutFailed(p)
             \/ Unlock(p)
    BY <2>2 DEF PutCompleted, SaveEnd, PutEnded, SubmitFails, PutFailed, Unlock
  <2> QED
    BY <1>3, <2>1, <2>2 DEF Conclude
<1>4. CASE Invoke(p) \/ Interrupt(p) \/ Kill(p) \/ Tick(p)
  BY <1>4 DEF Invoke, Interrupt, Kill, Tick
<1> QED
  BY <1>1, <1>2, <1>3, <1>4 DEF Act, Step
\* What the evaluation of the baseline makes of the leaderboard.
LEMMA BaselineMerges ==
  ASSUME TypeOK, NEW p \in Procs, EvaluateBaseline(p)
  PROVE  \E board \in SUBSET Entries :
           /\ mem' = [mem EXCEPT ![p].board = board, ![p].seen = @ \union {Base}]
           /\ AsGood(mem[p].board, board)
           /\ KeysOf(board) \subseteq KeysOf(mem[p].board) \union {Base}
<1>1. PICK results \in Outcomes({Base}) :
        \E board \in SortedLeaderboard(mem[p].board \union results) :
          mem' = [mem EXCEPT ![p].board = board, ![p].seen = @ \union {Base}]
  BY DEF EvaluateBaseline
<1>2. PICK board \in SortedLeaderboard(mem[p].board \union results) :
        mem' = [mem EXCEPT ![p].board = board, ![p].seen = @ \union {Base}]
  BY <1>1
<1>3. {Base} \in SUBSET Keys /\ mem[p].board \in SUBSET Entries
  BY MemFields, GaAssumption
<1>4. /\ board \in SUBSET Entries /\ AsGood(mem[p].board, board)
      /\ KeysOf(board) \subseteq KeysOf(mem[p].board) \union {Base}
  BY <1>3, Merged
<1> QED
  BY <1>2, <1>4

\* The same of a batch.
LEMMA CollectMerges ==
  ASSUME TypeOK, NEW p \in Procs, Collect(p)
  PROVE  \E done \in SUBSET mem[p].pending, board \in SUBSET Entries :
           /\ mem' = [mem EXCEPT ![p].board = board, ![p].seen = @ \union done,
                                 ![p].pending = @ \ done, ![p].results = done]
           /\ AsGood(mem[p].board, board)
           /\ KeysOf(board) \subseteq KeysOf(mem[p].board) \union done
<1>1. PICK done \in SUBSET mem[p].pending : \E results \in Outcomes(done) :
        \E board \in SortedLeaderboard(mem[p].board \union results) :
          mem' = [mem EXCEPT ![p].board = board, ![p].seen = @ \union done,
                             ![p].pending = @ \ done, ![p].results = done]
  BY DEF Collect
<1>2. PICK results \in Outcomes(done) :
        \E board \in SortedLeaderboard(mem[p].board \union results) :
          mem' = [mem EXCEPT ![p].board = board, ![p].seen = @ \union done,
                             ![p].pending = @ \ done, ![p].results = done]
  BY <1>1
<1>3. PICK board \in SortedLeaderboard(mem[p].board \union results) :
        mem' = [mem EXCEPT ![p].board = board, ![p].seen = @ \union done,
                           ![p].pending = @ \ done, ![p].results = done]
  BY <1>2
<1>4. done \in SUBSET Keys
  BY MemFields
<1>5. /\ board \in SUBSET Entries /\ AsGood(mem[p].board, board)
      /\ KeysOf(board) \subseteq KeysOf(mem[p].board) \union done
  BY <1>4, MemFields, Merged
<1> QED
  BY <1>3, <1>5

-----------------------------------------------------------------------------
\* TypeOK in three parts.
FilesTyped ==
  /\ request \in BOOLEAN /\ snapshot \in Nat /\ log \subseteq Keys
  /\ selection \in Keys \union {NoKey} /\ result \in Keys \union {NoKey}
  /\ status \in {"none", "running", "completed", "failed", "interrupted", "time_budget_reached"}
  /\ market \in Nat \ {0} /\ peeked \subseteq (Keys \union {NoKey}) \X BOOLEAN
  /\ count \in [runs : Nat, kills : Nat]

ProcsTyped ==
  /\ held \in Procs \union {NoProc}
  /\ resume \in [Procs -> BOOLEAN] /\ stop \in [Procs -> BOOLEAN]

PcTyped == at \in [Procs -> Outside \union Inside]

\* TypeOK is its parts.
LEMMA TypeParts ==
  TypeOK <=> /\ FilesTyped /\ ProcsTyped /\ PcTyped
             /\ ckpt \in CkptType /\ mem \in [Procs -> MemType]
BY DEF TypeOK, FilesTyped, ProcsTyped, PcTyped

\* A process that goes to one of the labels, or exits, keeps at typed.
LEMMA PcKept ==
  ASSUME PcTyped, NEW p \in Procs
  PROVE  \A l \in Outside \union Inside : [at EXCEPT ![p] = l] \in [Procs -> Outside \union Inside]
BY DEF PcTyped

\* A process that exits is typed.
LEMMA ExitTyped ==
  ASSUME TypeOK, NEW p \in Procs, Gone(p)
  PROVE  ProcsTyped' /\ PcTyped' /\ mem' \in [Procs -> MemType]
<1>1. "idle" \in Outside
  BY DEF Outside
<1> QED
  BY <1>1, MemKept DEF TypeOK, Gone, Move, ProcsTyped, PcTyped

\* Every variable keeps its type.
LEMMA TypeStep == TypeOK /\ [SearchNext]_searchVars => TypeOK'
<1> SUFFICES ASSUME TypeOK, [SearchNext]_searchVars PROVE TypeOK'
  OBVIOUS
<1>t. FilesTyped /\ ProcsTyped /\ PcTyped /\ ckpt \in CkptType /\ mem \in [Procs -> MemType]
  BY TypeParts
<1>a. ASSUME FilesTyped', ProcsTyped', PcTyped', ckpt' \in CkptType, mem' \in [Procs -> MemType]
      PROVE  TypeOK'
  BY <1>a DEF TypeOK, FilesTyped, ProcsTyped, PcTyped
<1> USE DEF files, env
<1>1. ASSUME NEW p \in Procs,
             \/ CheckEnds(p) \/ LockBusy(p) \/ SnapshotFails(p) \/ NothingToResume(p)
             \/ Unlock(p) \/ Kill(p)
      PROVE  TypeOK'
  <2>1. Gone(p) /\ FilesTyped' /\ ckpt' = ckpt
    BY <1>1, <1>t DEF CheckEnds, LockBusy, SnapshotFails, NothingToResume, Unlock, Kill, FilesTyped
  <2> QED
    BY <2>1, <1>t, <1>a, ExitTyped
<1>2. ASSUME NEW p \in Procs,
             \/ CheckGoesOn(p) \/ LeaveLoop(p) \/ StartRescore(p) \/ NoFeasibleWinner(p)
             \/ GiveUp(p) \/ SubmitFails(p)
      PROVE  TypeOK'
  <2>1. PcTyped'
    BY <1>2, <1>t DEF CheckGoesOn, LeaveLoop, StartRescore, NoFeasibleWinner, GiveUp, SubmitFails,
       Move, PcTyped, Outside, Inside
  <2>2. FilesTyped' /\ ProcsTyped' /\ UNCHANGED <<ckpt, mem>>
    BY <1>2, <1>t DEF CheckGoesOn, LeaveLoop, StartRescore, NoFeasibleWinner, GiveUp, SubmitFails,
       FilesTyped, ProcsTyped
  <2> QED
    BY <2>1, <2>2, <1>t, <1>a
<1>3. ASSUME NEW p \in Procs,
             \/ PutRequest(p) \/ TakeLock(p) \/ LogBaseline(p) \/ PutRunning(p)
             \/ PutCompleted(p) \/ PutEnded(p) \/ PutFailed(p)
      PROVE  TypeOK'
  <2>1. PcTyped'
    BY <1>3, <1>t DEF PutRequest, TakeLock, LogBaseline, PutRunning, PutCompleted, PutEnded,
       PutFailed, Move, PcTyped, Outside, Inside
  <2>2. FilesTyped'
    BY <1>3, <1>t, GaAssumption DEF PutRequest, TakeLock, LogBaseline, PutRunning, PutCompleted,
       PutEnded, PutFailed, FilesTyped
  <2>3. ProcsTyped' /\ UNCHANGED <<ckpt, mem>>
    BY <1>3, <1>t DEF PutRequest, TakeLock, LogBaseline, PutRunning, PutCompleted, PutEnded,
       PutFailed, ProcsTyped
  <2> QED
    BY <2>1, <2>2, <2>3, <1>t, <1>a
<1>4. ASSUME NEW p \in Procs, FreezeSelection(p) \/ ReportHoldout(p) \/ PutResult(p)
      PROVE  TypeOK'
  <2>1. PcTyped'
    BY <1>4, <1>t DEF FreezeSelection, ReportHoldout, PutResult, Move, PcTyped, Outside, Inside
  <2>2. FilesTyped'
    BY <1>4, <1>t, MemFields DEF FreezeSelection, ReportHoldout, PutResult, FilesTyped
  <2>3. ProcsTyped' /\ UNCHANGED <<ckpt, mem>>
    BY <1>4, <1>t DEF FreezeSelection, ReportHoldout, PutResult, ProcsTyped
  <2> QED
    BY <2>1, <2>2, <2>3, <1>t, <1>a
<1>5. ASSUME NEW p \in Procs, SaveGeneration(p) \/ SaveEnd(p)
      PROVE  TypeOK'
  <2>1. PcTyped'
    BY <1>5, <1>t DEF SaveGeneration, SaveEnd, Move, PcTyped, Outside, Inside
  <2>2. FilesTyped' /\ ProcsTyped' /\ mem' = mem
    BY <1>5, <1>t DEF SaveGeneration, SaveEnd, FilesTyped, ProcsTyped
  <2>3. ckpt' = [written |-> TRUE, board |-> mem[p].board, seen |-> mem[p].seen,
                 population |-> mem[p].population, elapsed |-> mem[p].elapsed,
                 snapshot |-> mem[p].snapshot]
    BY <1>5 DEF SaveGeneration, SaveEnd, WriteCheckpoint
  <2>4. ckpt' \in CkptType
    BY <2>3, MemFields DEF CkptType
  <2> QED
    BY <2>1, <2>2, <2>4, <1>t, <1>a
<1>6. ASSUME NEW p \in Procs,
             \/ LoadCheckpoint(p) \/ NewPopulation(p) \/ BaselineKnown(p) \/ Submit(p)
             \/ CollectNothing(p) \/ PickWinner(p)
      PROVE  TypeOK'
  <2>1. PcTyped'
    BY <1>6, <1>t DEF LoadCheckpoint, NewPopulation, BaselineKnown, Submit, CollectNothing,
       PickWinner, Move, PcTyped, Outside, Inside
  <2>2. FilesTyped' /\ ProcsTyped' /\ ckpt' = ckpt
    BY <1>6, <1>t DEF LoadCheckpoint, NewPopulation, BaselineKnown, Submit, CollectNothing,
       PickWinner, FilesTyped, ProcsTyped
  <2>3. mem' \in [Procs -> MemType]
    <3>1. CASE LoadCheckpoint(p)
      BY <3>1, MemKept DEF LoadCheckpoint
    <3>2. CASE BaselineKnown(p)
      BY <3>2, MemKept DEF BaselineKnown
    <3>3. CASE NewPopulation(p)
      <4>1. PICK random \in SUBSET Keys :
              mem' = [mem EXCEPT ![p].population = random \union {Base}]
        BY <3>3 DEF NewPopulation
      <4>2. random \union {Base} \in SUBSET Keys
        BY GaAssumption
      <4> QED
        BY <4>1, <4>2, MemKept
    <3>4. CASE Submit(p)
      <4>1. mem' = [mem EXCEPT ![p].pending = mem[p].population \ mem[p].seen]
        BY <3>4 DEF Submit
      <4>2. mem[p].population \ mem[p].seen \in SUBSET Keys
        BY MemFields
      <4> QED
        BY <4>1, <4>2, MemKept
    <3>5. CASE CollectNothing(p)
      BY <3>5, MemKept DEF CollectNothing
    <3>6. CASE PickWinner(p)
      <4>1. PICK k \in UNION {KeysOf(top) : top \in Tops(mem[p].board, MaxFinalists)} :
              mem' = [mem EXCEPT ![p].winner = k]
        BY <3>6 DEF PickWinner
      <4>2. k \in Keys
        BY <4>1, MemFields, EntryType DEF Tops, KeysOf
      <4> QED
        BY <4>1, <4>2, MemKept
    <3> QED
      BY <1>6, <3>1, <3>2, <3>3, <3>4, <3>5, <3>6
  <2> QED
    BY <2>1, <2>2, <2>3, <1>t, <1>a
<1>7. ASSUME NEW p \in Procs, EvaluateBaseline(p) \/ Collect(p)
      PROVE  TypeOK'
  <2>1. PcTyped'
    BY <1>7, <1>t DEF EvaluateBaseline, Collect, Move, PcTyped, Outside, Inside
  <2>2. FilesTyped' /\ ProcsTyped' /\ ckpt' = ckpt
    BY <1>7, <1>t DEF EvaluateBaseline, Collect, FilesTyped, ProcsTyped
  <2>3. mem' \in [Procs -> MemType]
    <3>1. CASE EvaluateBaseline(p)
      <4>1. PICK board \in SUBSET Entries :
              mem' = [mem EXCEPT ![p].board = board, ![p].seen = @ \union {Base}]
        BY <3>1, BaselineMerges
      <4> QED
        BY <4>1, MemEvaluated
    <3>2. CASE Collect(p)
      <4>1. PICK done \in SUBSET mem[p].pending, board \in SUBSET Entries :
              mem' = [mem EXCEPT ![p].board = board, ![p].seen = @ \union done,
                                 ![p].pending = @ \ done, ![p].results = done]
        BY <3>2, CollectMerges
      <4>2. done \in SUBSET Keys
        BY MemFields
      <4> QED
        BY <4>1, <4>2, MemEvaluated
    <3> QED
      BY <1>7, <3>1, <3>2
  <2> QED
    BY <2>1, <2>2, <2>3, <1>t, <1>a
<1>8. ASSUME NEW p \in Procs, BuildSnapshot(p)
      PROVE  TypeOK'
  <2>1. PcTyped'
    BY <1>8, <1>t DEF BuildSnapshot, Move, PcTyped, Outside, Inside
  <2>2. FilesTyped' /\ ProcsTyped' /\ ckpt' = ckpt
    BY <1>8, <1>t DEF BuildSnapshot, FilesTyped, ProcsTyped
  <2>3. snapshot' \in Nat
    BY <2>2 DEF FilesTyped
  <2>4. mem' \in [Procs -> MemType]
    BY <1>8, <2>3, MemKept DEF BuildSnapshot
  <2> QED
    BY <2>1, <2>2, <2>4, <1>t, <1>a
<1>9. ASSUME NEW p \in Procs, Refill(p) \/ PutProgress(p)
      PROVE  TypeOK'
  <2>1. PcTyped'
    BY <1>9, <1>t DEF Refill, PutProgress, Move, PcTyped, Outside, Inside
  <2>2. FilesTyped' /\ ProcsTyped' /\ ckpt' = ckpt
    BY <1>9, <1>t DEF Refill, PutProgress, FilesTyped, ProcsTyped
  <2>3. \A next \in NextPopulation(mem[p].board) \union {mem[p].pending} : next \in SUBSET Keys
    BY MemFields, NextPopulationType
  <2>4. PICK next \in SUBSET Keys :
          \/ mem' = [mem EXCEPT ![p].population = next]
          \/ mem' = [mem EXCEPT ![p].population = next, ![p].pending = {}]
    BY <1>9, <2>3 DEF Refill, PutProgress
  <2>5. mem' \in [Procs -> MemType]
    <3>1. /\ [mem EXCEPT ![p].population = next] \in [Procs -> MemType]
          /\ [mem EXCEPT ![p].population = next, ![p].pending = {}] \in [Procs -> MemType]
      BY MemKept
    <3> QED
      BY <2>4, <3>1
  <2> QED
    BY <2>1, <2>2, <2>5, <1>t, <1>a
<1>10. ASSUME NEW p \in Procs, AppendResult(p)
      PROVE  TypeOK'
  <2>0. PICK k \in mem[p].results :
          /\ log' = log \union {k}
          /\ mem' = [mem EXCEPT ![p].results = @ \ {k}]
          /\ Move(p, IF mem[p].results = {k} THEN "save" ELSE "append")
    BY <1>10 DEF AppendResult
  <2>1. PcTyped'
    BY <2>0, <1>t DEF Move, PcTyped, Outside, Inside
  <2>2. k \in Keys
    BY <2>0, MemFields
  <2>3. FilesTyped' /\ ProcsTyped' /\ ckpt' = ckpt
    BY <1>10, <2>0, <2>2, <1>t DEF AppendResult, FilesTyped, ProcsTyped
  <2>4. mem' \in [Procs -> MemType]
    BY <2>0, <2>2, MemKept
  <2> QED
    BY <2>1, <2>3, <2>4, <1>t, <1>a
<1>11. ASSUME NEW p \in Procs, Invoke(p) \/ Interrupt(p)
       PROVE  TypeOK'
  <2>1. PcTyped'
    BY <1>11, <1>t DEF Invoke, Interrupt, Move, PcTyped, Outside, Inside
  <2>2. FilesTyped'
    <3>1. count' \in [runs : Nat, kills : Nat]
      BY <1>11, <1>t DEF Invoke, Interrupt, FilesTyped
    <3> QED
      BY <1>11, <3>1, <1>t DEF Invoke, Interrupt, FilesTyped
  <2>3. ProcsTyped' /\ UNCHANGED <<ckpt, mem>>
    <3>1. CASE Invoke(p)
      BY <3>1, <1>t DEF Invoke, ProcsTyped
    <3>2. CASE Interrupt(p)
      BY <3>2, <1>t DEF Interrupt, ProcsTyped
    <3> QED
      BY <1>11, <3>1, <3>2
  <2> QED
    BY <2>1, <2>2, <2>3, <1>t, <1>a
<1>12. ASSUME NEW p \in Procs, Tick(p)
       PROVE  TypeOK'
  <2>1. UNCHANGED <<files, env, held, at, resume, stop, peeked>>
    BY <1>12 DEF Tick
  <2>2. mem' \in [Procs -> MemType]
    BY <1>12, MemKept DEF Tick
  <2> QED
    BY <2>1, <2>2, <1>t, <1>a DEF FilesTyped, ProcsTyped, PcTyped
<1>13. CASE MarketMoves
  BY <1>13, <1>t, <1>a DEF MarketMoves, FilesTyped, ProcsTyped, PcTyped
<1>14. CASE UNCHANGED searchVars
  BY <1>14, <1>t, <1>a DEF searchVars, FilesTyped, ProcsTyped, PcTyped
<1> QED
  BY <1>1, <1>2, <1>3, <1>4, <1>5, <1>6, <1>7, <1>8, <1>9, <1>10, <1>11, <1>12, <1>13, <1>14
  DEF SearchNext, Step, Begin, Search, Conclude
-----------------------------------------------------------------------------
\* Outside the lock a process changes nothing that the others read.
StaysOutside(p) ==
  /\ at[p] \in Outside /\ at'[p] \in Outside
  /\ UNCHANGED <<snapshot, ckpt, log, selection, result, status, held, mem, peeked>>

\* Inside, it keeps the lock.
Works(p) == at[p] \in Inside /\ at'[p] \in Inside /\ UNCHANGED <<held, resume>>

\* The steps inside the lock that change no document but the status, and no
\* more of the memory than its snapshot, population, pending, winner and clock.
Passes(p) ==
  \/ BuildSnapshot(p) \/ NewPopulation(p) \/ PutRunning(p) \/ Submit(p) \/ Refill(p) \/ LeaveLoop(p)
  \/ CollectNothing(p) \/ PutProgress(p) \/ StartRescore(p) \/ PickWinner(p) \/ NoFeasibleWinner(p)
  \/ GiveUp(p) \/ FreezeSelection(p) \/ ReportHoldout(p) \/ PutResult(p) \/ PutCompleted(p)
  \/ PutEnded(p) \/ SubmitFails(p) \/ PutFailed(p) \/ Interrupt(p) \/ Tick(p)

\* Those that evaluate, and those that write what has been evaluated.
Evaluates(p) ==
  \/ LoadCheckpoint(p) \/ EvaluateBaseline(p) \/ BaselineKnown(p) \/ LogBaseline(p)
  \/ Collect(p) \/ AppendResult(p) \/ SaveGeneration(p) \/ SaveEnd(p)

\* A step of a process is outside the lock, enters it, is inside or leaves.
LEMMA StepKinds ==
  ASSUME TypeOK, NEW p \in Procs, Act(p)
  PROVE  \/ Gone(p) /\ UNCHANGED <<files, peeked>>
         \/ StaysOutside(p)
         \/ TakeLock(p)
         \/ Works(p) /\ (Passes(p) \/ Evaluates(p))
<1>t. at \in [Procs -> Outside \union Inside]
  BY DEF TypeOK
<1> USE DEF files, env
<1>1. CASE \/ CheckEnds(p) \/ LockBusy(p) \/ SnapshotFails(p) \/ NothingToResume(p) \/ Unlock(p)
           \/ Kill(p)
  BY <1>1 DEF CheckEnds, LockBusy, SnapshotFails, NothingToResume, Unlock, Kill
<1>2. CASE Invoke(p) \/ CheckGoesOn(p) \/ PutRequest(p)
  BY <1>2, <1>t DEF Invoke, CheckGoesOn, PutRequest, Move, StaysOutside, Outside
<1>3. CASE Passes(p)
  <2>1. CASE \/ BuildSnapshot(p) \/ NewPopulation(p) \/ PutRunning(p) \/ Submit(p) \/ Refill(p)
             \/ LeaveLoop(p) \/ CollectNothing(p) \/ PutProgress(p) \/ Interrupt(p) \/ Tick(p)
    BY <2>1, <1>3, <1>t DEF BuildSnapshot, NewPopulation, PutRunning, Submit, Refill, LeaveLoop,
                      CollectNothing, PutProgress, Interrupt, Tick, Move, Works, Inside
  <2>2. CASE \/ StartRescore(p) \/ PickWinner(p) \/ NoFeasibleWinner(p) \/ GiveUp(p)
             \/ FreezeSelection(p) \/ ReportHoldout(p) \/ PutResult(p)
    BY <2>2, <1>3, <1>t DEF StartRescore, PickWinner, NoFeasibleWinner, GiveUp, FreezeSelection,
                      ReportHoldout, PutResult, Move, Works, Inside
  <2>3. CASE PutCompleted(p) \/ PutEnded(p) \/ SubmitFails(p) \/ PutFailed(p)
    BY <2>3, <1>3, <1>t DEF PutCompleted, PutEnded, SubmitFails, PutFailed, Move, Works, Inside
  <2> QED
    BY <1>3, <2>1, <2>2, <2>3 DEF Passes
<1>4. CASE Evaluates(p)
  BY <1>4, <1>t DEF Evaluates, LoadCheckpoint, EvaluateBaseline, BaselineKnown, LogBaseline,
                    Collect, AppendResult, SaveGeneration, SaveEnd, Move, Works, Inside
<1> QED
  BY <1>1, <1>2, <1>3, <1>4 DEF Act, Step, Begin, Search, Conclude, Passes, Evaluates

\* Nobody is on both sides of the lock.
LEMMA Sides == Outside \intersect Inside = {} /\ "idle" \in Outside /\ "lock" \in Outside
BY DEF Outside, Inside

\* The lock keeps excluding, and who is outside knows nothing.
LEMMA LockStep ==
  TypeOK /\ LockHeld /\ Fresh /\ [SearchNext]_searchVars => (LockHeld /\ Fresh)'
<1> SUFFICES ASSUME TypeOK, LockHeld, Fresh, [SearchNext]_searchVars PROVE (LockHeld /\ Fresh)'
  OBVIOUS
<1>t. /\ held \in Procs \union {NoProc} /\ NoProc \notin Procs
      /\ at \in [Procs -> Outside \union Inside] /\ mem \in [Procs -> MemType]
  BY GaAssumption DEF TypeOK
<1>1. ASSUME NEW p \in Procs, Act(p) PROVE (LockHeld /\ Fresh)'
  <2>0. Alone(p)
    BY <1>1, OthersKept
  <2>1. CASE Gone(p)
    <3>1. at'[p] = "idle" /\ mem'[p] = Blank /\ (held' = IF held = p THEN NoProc ELSE held)
      BY <2>1, <1>t DEF Gone, Move
    <3> QED
      BY <2>0, <3>1, <1>t, Sides DEF LockHeld, Fresh, Alone
  <2>2. CASE StaysOutside(p)
    BY <2>0, <2>2, <1>t, Sides DEF LockHeld, Fresh, Alone, StaysOutside
  <2>3. CASE TakeLock(p)
    <3>1. at'[p] = "snapshot" /\ "snapshot" \in Inside /\ "snapshot" \notin Outside
      BY <2>3, <1>t DEF TakeLock, Move, Inside, Outside
    <3> QED
      BY <2>0, <2>3, <3>1, <1>t, Sides DEF LockHeld, Fresh, Alone, TakeLock
  <2>4. CASE Works(p)
    BY <2>0, <2>4, <1>t, Sides DEF LockHeld, Fresh, Alone, Works
  <2> QED
    BY <1>1, <2>1, <2>2, <2>3, <2>4, StepKinds
<1>2. CASE MarketMoves \/ UNCHANGED searchVars
  BY <1>2 DEF MarketMoves, searchVars, LockHeld, Fresh
<1> QED
  BY <1>1, <1>2 DEF SearchNext, Act

-----------------------------------------------------------------------------
\* What the documents say of each other, and what a process knows of them.
Documents == CheckpointTrue /\ OneSnapshot /\ CompletedSelection

Knows(p) == Logged(p) /\ Current(p) /\ Ahead(p) /\ Reported(p)

\* Who is outside has nothing to know, whatever the documents say.
LEMMA OutsideKnows ==
  ASSUME NEW p \in Procs, at[p] \in Outside, mem[p] = Blank
  PROVE  Knows(p)
<1>1. mem[p].seen = {} /\ mem[p].results = {} /\ KeysOf(mem[p].board) = {}
  BY DEF Blank, KeysOf
<1>2. at[p] \notin Inside /\ at[p] \notin {"append", "batch", "rescore", "select", "holdout",
                                            "result", "completed"}
  BY DEF Outside, Inside
<1> QED
  BY <1>1, <1>2 DEF Knows, Logged, Current, Ahead, Reported

\* The same of the next state.
LEMMA OutsideKnowsNext ==
  ASSUME NEW p \in Procs, at'[p] \in Outside, mem'[p] = Blank
  PROVE  Knows(p)'
<1>1. mem'[p].seen = {} /\ mem'[p].results = {} /\ KeysOf(mem'[p].board) = {}
  BY DEF Blank, KeysOf
<1>2. at'[p] \notin Inside /\ at'[p] \notin {"append", "batch", "rescore", "select", "holdout",
                                              "result", "completed"}
  BY DEF Outside, Inside
<1> QED
  BY <1>1, <1>2 DEF Knows, Logged, Current, Ahead, Reported

\* A step of one process disturbs what no other knows: it has the lock, or it
\* leaves the documents alone.
LEMMA OthersKnow ==
  ASSUME TypeOK, LockHeld, Fresh, NEW p \in Procs, Act(p),
         \A q \in Procs : Knows(q)
  PROVE  \A q \in Procs \ {p} : Knows(q)'
<1>0. Alone(p)
  BY OthersKept
<1>1. CASE UNCHANGED <<snapshot, ckpt, log, selection, result, status, peeked>>
  <2>1. ASSUME NEW q \in Procs \ {p} PROVE Knows(q)'
    <3>1. at'[q] = at[q] /\ mem'[q] = mem[q] /\ resume'[q] = resume[q]
      BY <1>0 DEF Alone
    <3>2. Knows(q)
      OBVIOUS
    <3> QED
      BY <1>1, <3>1, <3>2 DEF Knows, Logged, Current, Ahead, Reported
  <2> QED
    BY <2>1
<1>2. CASE Works(p)
  <2>1. ASSUME NEW q \in Procs \ {p} PROVE Knows(q)'
    <3>1. held = p /\ held # q
      BY <1>2 DEF Works, LockHeld
    <3>2. at[q] \in Outside
      BY <3>1 DEF LockHeld, TypeOK
    <3>3. mem[q] = Blank
      BY <3>2 DEF Fresh
    <3>4. at'[q] \in Outside /\ mem'[q] = Blank
      BY <1>0, <3>2, <3>3 DEF Alone
    <3> QED
      BY <3>4, OutsideKnowsNext
  <2> QED
    BY <2>1
<1> QED
  BY <1>1, <1>2, StepKinds DEF StaysOutside, TakeLock, files
-----------------------------------------------------------------------------
\* What a passing step keeps.
LEMMA PassKeeps ==
  ASSUME TypeOK, NEW p \in Procs, Passes(p)
  PROVE  /\ UNCHANGED <<ckpt, log>>
         /\ mem'[p].board = mem[p].board /\ mem'[p].seen = mem[p].seen
         /\ mem'[p].results = mem[p].results
         /\ mem[p].elapsed <= mem'[p].elapsed /\ mem'[p].elapsed \in Nat
         /\ Interrupt(p) \/ {at[p], at'[p]} \intersect {"baselog", "append"} = {}
<1>t. /\ at \in [Procs -> Outside \union Inside] /\ mem \in [Procs -> MemType]
      /\ mem[p] \in MemType /\ mem[p].elapsed \in Nat
  BY MemFields DEF TypeOK
<1> USE DEF Move, MemType, files, env
<1>1. CASE \/ BuildSnapshot(p) \/ NewPopulation(p) \/ Submit(p) \/ CollectNothing(p)
  BY <1>1, <1>t DEF BuildSnapshot, NewPopulation, Submit, CollectNothing
<1>6. CASE Refill(p) \/ PutProgress(p)
  <2>1. PICK next : \/ mem' = [mem EXCEPT ![p].population = next]
                    \/ mem' = [mem EXCEPT ![p].population = next, ![p].pending = {}]
    BY <1>6 DEF Refill, PutProgress
  <2>2. /\ UNCHANGED <<ckpt, log>>
        /\ at[p] \notin {"baselog", "append"} /\ at'[p] \notin {"baselog", "append"}
    BY <1>6, <1>t DEF Refill, PutProgress
  <2> QED
    BY <2>1, <2>2, <1>t
<1>7. CASE PickWinner(p)
  <2>1. PICK k : mem' = [mem EXCEPT ![p].winner = k]
    BY <1>7 DEF PickWinner
  <2>2. /\ UNCHANGED <<ckpt, log>>
        /\ at[p] \notin {"baselog", "append"} /\ at'[p] \notin {"baselog", "append"}
    BY <1>7, <1>t DEF PickWinner
  <2> QED
    BY <2>1, <2>2, <1>t
<1>2. CASE \/ LeaveLoop(p) \/ StartRescore(p) \/ NoFeasibleWinner(p) \/ GiveUp(p) \/ SubmitFails(p)
  BY <1>2, <1>t DEF LeaveLoop, StartRescore, NoFeasibleWinner, GiveUp, SubmitFails
<1>3. CASE \/ PutRunning(p) \/ FreezeSelection(p) \/ ReportHoldout(p) \/ PutResult(p)
           \/ PutCompleted(p) \/ PutEnded(p) \/ PutFailed(p)
  BY <1>3, <1>t DEF PutRunning, FreezeSelection, ReportHoldout, PutResult, PutCompleted, PutEnded,
                    PutFailed
<1>4. CASE Interrupt(p)
  BY <1>4, <1>t DEF Interrupt
<1>5. CASE Tick(p)
  BY <1>5, <1>t DEF Tick
<1> QED
  BY <1>1, <1>2, <1>3, <1>4, <1>5, <1>6, <1>7 DEF Passes

\* What the checkpoint and the leaderboard count as evaluated is logged.
LEMMA LoggedStep ==
  ASSUME TypeOK, NEW p \in Procs, Works(p), Passes(p) \/ Evaluates(p),
         Logged(p), CheckpointTrue
  PROVE  Logged(p)' /\ CheckpointTrue'
<1>t. /\ at \in [Procs -> Outside \union Inside] /\ mem \in [Procs -> MemType]
      /\ mem[p] \in MemType /\ mem[p].results \in SUBSET Keys
  BY MemFields DEF TypeOK
<1>1. CASE Passes(p)
  <2>1. CASE Interrupt(p)
    BY <2>1 DEF Interrupt, Logged, CheckpointTrue, files
  <2>2. CASE ~Interrupt(p)
    BY <1>1, <2>2, PassKeeps DEF Logged, CheckpointTrue
  <2> QED
    BY <2>1, <2>2
<1>2. CASE LoadCheckpoint(p)
  <2>1. mem'[p].board = ckpt.board /\ mem'[p].seen = ckpt.seen /\ mem'[p].results = mem[p].results
    BY <1>2, <1>t DEF LoadCheckpoint, MemType
  <2>2. UNCHANGED <<ckpt, log>> /\ at[p] = "load" /\ at'[p] = "baseline"
    BY <1>2, <1>t DEF LoadCheckpoint, Move, files
  <2> QED
    BY <2>1, <2>2 DEF Logged, CheckpointTrue
<1>3. CASE EvaluateBaseline(p)
  <2>1. PICK board \in SUBSET Entries :
          /\ mem' = [mem EXCEPT ![p].board = board, ![p].seen = @ \union {Base}]
          /\ KeysOf(board) \subseteq KeysOf(mem[p].board) \union {Base}
    BY <1>3, BaselineMerges
  <2>2. mem'[p].board = board /\ mem'[p].seen = mem[p].seen \union {Base}
        /\ mem'[p].results = mem[p].results
    BY <2>1, <1>t DEF MemType
  <2>3. UNCHANGED <<ckpt, log>> /\ at[p] = "baseline" /\ at'[p] = "baselog"
    BY <1>3, <1>t DEF EvaluateBaseline, Move, files
  <2> QED
    BY <2>1, <2>2, <2>3 DEF Logged, CheckpointTrue
<1>4. CASE BaselineKnown(p)
  <2>1. mem'[p].board = mem[p].board /\ mem'[p].seen = mem[p].seen \union {Base}
        /\ mem'[p].results = mem[p].results
    BY <1>4, <1>t DEF BaselineKnown, MemType
  <2>2. UNCHANGED <<ckpt, log>> /\ at[p] = "baseline" /\ at'[p] = "running"
        /\ Base \in KeysOf(mem[p].board)
    BY <1>4, <1>t DEF BaselineKnown, Move, files
  <2> QED
    BY <2>1, <2>2 DEF Logged, CheckpointTrue
<1>5. CASE LogBaseline(p)
  <2>1. /\ UNCHANGED <<ckpt, mem>> /\ log' = log \union {Base}
        /\ at[p] = "baselog" /\ at'[p] = "running"
    BY <1>5, <1>t DEF LogBaseline, Move
  <2> QED
    BY <2>1 DEF Logged, CheckpointTrue
<1>6. CASE Collect(p)
  <2>1. PICK done \in SUBSET mem[p].pending, board \in SUBSET Entries :
          /\ mem' = [mem EXCEPT ![p].board = board, ![p].seen = @ \union done,
                                ![p].pending = @ \ done, ![p].results = done]
          /\ KeysOf(board) \subseteq KeysOf(mem[p].board) \union done
    BY <1>6, <1>t, CollectMerges
  <2>2. mem'[p].board = board /\ mem'[p].seen = mem[p].seen \union done /\ mem'[p].results = done
    BY <2>1, <1>t DEF MemType
  <2>3. UNCHANGED <<ckpt, log>> /\ at[p] = "batch" /\ at'[p] = "append"
    BY <1>6, <1>t DEF Collect, Move, files
  <2> QED
    BY <2>1, <2>2, <2>3 DEF Logged, CheckpointTrue
<1>7. CASE AppendResult(p)
  <2>1. PICK k \in mem[p].results :
          /\ log' = log \union {k}
          /\ mem' = [mem EXCEPT ![p].results = @ \ {k}]
          /\ Move(p, IF mem[p].results = {k} THEN "save" ELSE "append")
    BY <1>7 DEF AppendResult
  <2>2. mem'[p].board = mem[p].board /\ mem'[p].seen = mem[p].seen
        /\ mem'[p].results = mem[p].results \ {k}
    BY <2>1, <1>t DEF MemType
  <2>3. /\ ckpt' = ckpt /\ at[p] = "append"
        /\ at'[p] = IF mem[p].results = {k} THEN "save" ELSE "append"
    BY <1>7, <2>1, <1>t DEF AppendResult, Move
  <2> QED
    BY <2>1, <2>2, <2>3 DEF Logged, CheckpointTrue
<1>8. CASE SaveGeneration(p) \/ SaveEnd(p)
  <2>1. /\ UNCHANGED <<log, mem>> /\ ckpt'.seen = mem[p].seen /\ ckpt'.board = mem[p].board
        /\ at[p] \notin {"baselog", "append"} /\ at'[p] \notin {"baselog", "append"}
    BY <1>8, <1>t DEF SaveGeneration, SaveEnd, WriteCheckpoint, Move
  <2> QED
    BY <2>1 DEF Logged, CheckpointTrue
<1> QED
  BY <1>1, <1>2, <1>3, <1>4, <1>5, <1>6, <1>7, <1>8 DEF Evaluates

\* Only BuildSnapshot sets the snapshot, and only Submit starts a batch.
LEMMA SnapshotKept ==
  ASSUME TypeOK, NEW p \in Procs, Passes(p) \/ Evaluates(p), ~BuildSnapshot(p)
  PROVE  /\ snapshot' = snapshot /\ mem'[p].snapshot = mem[p].snapshot /\ at[p] # "snapshot"
         /\ Submit(p) \/ (Interrupt(p) /\ UNCHANGED <<mem, at>>) \/ at'[p] # "batch"
<1>t. /\ at \in [Procs -> Outside \union Inside] /\ mem \in [Procs -> MemType]
      /\ mem[p] \in MemType
  BY MemFields DEF TypeOK
<1> USE DEF Move, files, env
<1>1. CASE Evaluates(p)
  <2>1. CASE \/ LoadCheckpoint(p) \/ BaselineKnown(p) \/ LogBaseline(p)
             \/ SaveGeneration(p) \/ SaveEnd(p)
    BY <2>1, <1>t DEF LoadCheckpoint, BaselineKnown, LogBaseline, SaveGeneration, SaveEnd, MemType
  <2>2. CASE EvaluateBaseline(p)
    <3>1. PICK board : mem' = [mem EXCEPT ![p].board = board, ![p].seen = @ \union {Base}]
      BY <2>2 DEF EvaluateBaseline
    <3>2. snapshot' = snapshot /\ at[p] # "snapshot" /\ at'[p] # "batch"
      BY <2>2, <1>t DEF EvaluateBaseline
    <3> QED
      BY <3>1, <3>2, <1>t DEF MemType
  <2>3. CASE Collect(p)
    <3>1. PICK done \in SUBSET mem[p].pending, board \in SUBSET Entries :
            mem' = [mem EXCEPT ![p].board = board, ![p].seen = @ \union done,
                               ![p].pending = @ \ done, ![p].results = done]
      BY <2>3, CollectMerges
    <3>2. snapshot' = snapshot /\ at[p] # "snapshot" /\ at'[p] # "batch"
      BY <2>3, <1>t DEF Collect
    <3> QED
      BY <3>1, <3>2, <1>t DEF MemType
  <2>4. CASE AppendResult(p)
    <3>1. PICK k : mem' = [mem EXCEPT ![p].results = @ \ {k}]
      BY <2>4 DEF AppendResult
    <3>2. snapshot' = snapshot /\ at[p] # "snapshot" /\ at'[p] # "batch"
      BY <2>4, <1>t DEF AppendResult
    <3> QED
      BY <3>1, <3>2, <1>t DEF MemType
  <2> QED
    BY <1>1, <2>1, <2>2, <2>3, <2>4 DEF Evaluates
<1>2. CASE NewPopulation(p) \/ Submit(p) \/ CollectNothing(p)
  BY <1>2, <1>t DEF NewPopulation, Submit, CollectNothing, MemType
<1>3. CASE Refill(p) \/ PutProgress(p)
  <2>1. PICK next : \/ mem' = [mem EXCEPT ![p].population = next]
                    \/ mem' = [mem EXCEPT ![p].population = next, ![p].pending = {}]
    BY <1>3 DEF Refill, PutProgress
  <2>2. snapshot' = snapshot /\ at[p] # "snapshot" /\ at'[p] # "batch"
    BY <1>3, <1>t DEF Refill, PutProgress
  <2> QED
    BY <2>1, <2>2, <1>t DEF MemType
<1>4. CASE PickWinner(p)
  <2>1. PICK k : mem' = [mem EXCEPT ![p].winner = k]
    BY <1>4 DEF PickWinner
  <2>2. snapshot' = snapshot /\ at[p] # "snapshot" /\ at'[p] # "batch"
    BY <1>4, <1>t DEF PickWinner
  <2> QED
    BY <2>1, <2>2, <1>t DEF MemType
<1>5. CASE \/ LeaveLoop(p) \/ StartRescore(p) \/ NoFeasibleWinner(p) \/ GiveUp(p) \/ SubmitFails(p)
           \/ Interrupt(p)
  BY <1>5, <1>t DEF LeaveLoop, StartRescore, NoFeasibleWinner, GiveUp, SubmitFails, Interrupt
<1>6. CASE \/ PutRunning(p) \/ FreezeSelection(p) \/ ReportHoldout(p) \/ PutResult(p)
           \/ PutCompleted(p) \/ PutEnded(p) \/ PutFailed(p)
  BY <1>6, <1>t DEF PutRunning, FreezeSelection, ReportHoldout, PutResult, PutCompleted, PutEnded,
                    PutFailed
<1>7. CASE Tick(p)
  BY <1>7, <1>t DEF Tick, MemType
<1> QED
  BY <1>1, <1>2, <1>3, <1>4, <1>5, <1>6, <1>7 DEF Passes

\* The holder and the checkpoint go on with the saved snapshot, and a batch
\* holds what has not been seen.
LEMMA CurrentStep ==
  ASSUME TypeOK, NEW p \in Procs, Works(p), Passes(p) \/ Evaluates(p),
         Current(p), OneSnapshot
  PROVE  Current(p)' /\ OneSnapshot'
<1>t. /\ at \in [Procs -> Outside \union Inside] /\ mem \in [Procs -> MemType]
      /\ mem[p] \in MemType /\ market \in Nat \ {0} /\ snapshot \in Nat
  BY MemFields DEF TypeOK
<1>1. CASE BuildSnapshot(p)
  <2>1. /\ snapshot' = IF snapshot = 0 THEN market ELSE snapshot
        /\ mem'[p].snapshot = snapshot' /\ ckpt' = ckpt /\ at'[p] = "load"
    BY <1>1, <1>t DEF BuildSnapshot, Move, MemType
  <2> QED
    BY <2>1, <1>t DEF Current, OneSnapshot
<1>2. CASE ~BuildSnapshot(p)
  <2>1. /\ snapshot' = snapshot /\ mem'[p].snapshot = mem[p].snapshot
        /\ at[p] \in Inside \ {"snapshot"}
        /\ Submit(p) \/ (Interrupt(p) /\ UNCHANGED <<mem, at>>) \/ at'[p] # "batch"
    BY <1>2, SnapshotKept DEF Works
  <2>2. mem'[p].snapshot = snapshot' /\ snapshot' # 0
    BY <2>1 DEF Current
  <2>3. OneSnapshot'
    <3>1. CASE SaveGeneration(p) \/ SaveEnd(p)
      BY <3>1, <2>1 DEF SaveGeneration, SaveEnd, WriteCheckpoint, OneSnapshot, Current
    <3>2. CASE ~(SaveGeneration(p) \/ SaveEnd(p))
      <4>1. ckpt' = ckpt
        BY <3>2, PassKeeps DEF Evaluates, LoadCheckpoint, EvaluateBaseline, BaselineKnown,
           LogBaseline,
                               Collect, AppendResult, files
      <4> QED
        BY <4>1, <2>1 DEF OneSnapshot
    <3> QED
      BY <3>1, <3>2
  <2>4. at'[p] = "batch" => mem'[p].pending \intersect mem'[p].seen = {} /\ mem'[p].elapsed = 0
    <3>1. CASE Submit(p)
      BY <3>1, <1>t DEF Submit, GoesOn, MemType
    <3>2. CASE UNCHANGED <<mem, at>>
      BY <3>2 DEF Current
    <3> QED
      BY <2>1, <3>1, <3>2
  <2> QED
    BY <2>2, <2>4, <2>3 DEF Current
<1> QED
  BY <1>1, <1>2

\* A resumed search stays ahead of its checkpoint.
LEMMA AheadStep ==
  ASSUME TypeOK, NEW p \in Procs, Works(p), Passes(p) \/ Evaluates(p), Ahead(p)
  PROVE  Ahead(p)' /\ (resume[p] => AsGood(ckpt.board, ckpt'.board))
<1>t. /\ at \in [Procs -> Outside \union Inside] /\ mem \in [Procs -> MemType]
      /\ mem[p] \in MemType
  BY MemFields DEF TypeOK
<1>e. mem[p].elapsed \in Nat /\ ckpt.elapsed \in Nat
  BY MemFields
<1>g. ckpt.board \in SUBSET Entries /\ mem[p].board \in SUBSET Entries
  BY MemFields
<1>s. AsGood(ckpt.board, ckpt.board) /\ AsGood(mem[p].board, mem[p].board)
  BY <1>g, AsGoodOrder
<1>r. resume'[p] = resume[p]
  BY DEF Works
\* A step that keeps the checkpoint, and of what has been seen, the best and
\* the clock loses nothing.
<1>k. ASSUME ckpt' = ckpt, at[p] \in Inside \ {"snapshot", "load"},
             mem[p].seen \subseteq mem'[p].seen, AsGood(ckpt.board, mem[p].board) =>
                                                   AsGood(ckpt.board, mem'[p].board),
             mem'[p].elapsed \in Nat, mem[p].elapsed <= mem'[p].elapsed,
             at'[p] \in {"rescore", "select", "holdout"} =>
               at[p] \in {"rescore", "select", "holdout"} \/ mem[p].elapsed < 2
      PROVE  Ahead(p)' /\ (resume[p] => AsGood(ckpt.board, ckpt'.board))
  BY <1>k, <1>e, <1>s, <1>r DEF Ahead
<1>1. CASE Passes(p)
  <2>1. /\ ckpt' = ckpt /\ mem'[p].board = mem[p].board /\ mem'[p].seen = mem[p].seen
        /\ mem[p].elapsed <= mem'[p].elapsed /\ mem'[p].elapsed \in Nat
    BY <1>1, PassKeeps
  <2>2. CASE BuildSnapshot(p) \/ NewPopulation(p)
    <3>1. (at'[p] = "load" \/ ~resume[p]) /\ at'[p] \notin {"rescore", "select", "holdout"}
      BY <2>2, <1>t DEF BuildSnapshot, NewPopulation, Move
    <3> QED
      BY <2>1, <3>1, <1>s, <1>r DEF Ahead
  <2>3. CASE ~(BuildSnapshot(p) \/ NewPopulation(p))
    <3>1. at[p] \in Inside \ {"snapshot", "load"}
      BY <1>1, <2>3 DEF Works, Passes, PutRunning, Submit, Refill, LeaveLoop, CollectNothing,
         PutProgress, StartRescore, PickWinner, NoFeasibleWinner, GiveUp, FreezeSelection,
         ReportHoldout, PutResult, PutCompleted, PutEnded, SubmitFails, PutFailed, Interrupt, Tick
    <3>2. at'[p] \in {"rescore", "select", "holdout"} =>
            at[p] \in {"rescore", "select", "holdout"} \/ mem[p].elapsed < 2
      <4>1. CASE StartRescore(p)
        BY <4>1 DEF StartRescore, InTime
      <4>2. CASE ~StartRescore(p)
        BY <1>1, <1>t, <2>3, <4>2
        DEF Passes, PutRunning, Submit, Refill, LeaveLoop, CollectNothing,
            PutProgress, PickWinner, NoFeasibleWinner, GiveUp, FreezeSelection,
            ReportHoldout, PutResult, PutCompleted, PutEnded, SubmitFails, PutFailed, Interrupt,
            Tick, Move
      <4> QED
        BY <4>1, <4>2
    <3> QED
      BY <2>1, <3>1, <3>2, <1>k
  <2> QED
    BY <2>2, <2>3
<1>2. CASE LoadCheckpoint(p)
  <2>1. /\ mem'[p].board = ckpt.board /\ mem'[p].seen = ckpt.seen /\ mem'[p].elapsed = ckpt.elapsed
        /\ ckpt' = ckpt /\ at'[p] = "baseline"
    BY <1>2, <1>t DEF LoadCheckpoint, MemType, Move, files
  <2> QED
    BY <2>1, <1>s, <1>e DEF Ahead
<1>3. CASE EvaluateBaseline(p)
  <2>1. PICK board \in SUBSET Entries :
          /\ mem' = [mem EXCEPT ![p].board = board, ![p].seen = @ \union {Base}]
          /\ AsGood(mem[p].board, board)
    BY <1>3, BaselineMerges
  <2>2. /\ mem'[p].board = board /\ mem'[p].seen = mem[p].seen \union {Base}
        /\ mem'[p].elapsed = mem[p].elapsed
    BY <2>1, <1>t DEF MemType
  <2>3. ckpt' = ckpt /\ at[p] = "baseline" /\ at'[p] = "baselog"
    BY <1>3, <1>t DEF EvaluateBaseline, Move, files
  <2>4. AsGood(ckpt.board, mem[p].board) => AsGood(ckpt.board, board)
    BY <2>1, <1>g, AsGoodOrder
  <2> QED
    BY <2>2, <2>3, <2>4, <1>e, <1>k DEF Inside
<1>4. CASE BaselineKnown(p)
  <2>1. /\ mem'[p].board = mem[p].board /\ mem'[p].seen = mem[p].seen \union {Base}
        /\ mem'[p].elapsed = mem[p].elapsed
    BY <1>4, <1>t DEF BaselineKnown, MemType
  <2>2. ckpt' = ckpt /\ at[p] = "baseline" /\ at'[p] = "running"
    BY <1>4, <1>t DEF BaselineKnown, Move, files
  <2> QED
    BY <2>1, <2>2, <1>e, <1>k DEF Inside
<1>5. CASE LogBaseline(p)
  <2>1. UNCHANGED <<ckpt, mem>> /\ at[p] = "baselog" /\ at'[p] = "running"
    BY <1>5, <1>t DEF LogBaseline, Move
  <2> QED
    BY <2>1, <1>e, <1>k DEF Inside
<1>6. CASE Collect(p)
  <2>1. PICK done \in SUBSET mem[p].pending, board \in SUBSET Entries :
          /\ mem' = [mem EXCEPT ![p].board = board, ![p].seen = @ \union done,
                                ![p].pending = @ \ done, ![p].results = done]
          /\ AsGood(mem[p].board, board)
    BY <1>6, CollectMerges
  <2>2. /\ mem'[p].board = board /\ mem'[p].seen = mem[p].seen \union done
        /\ mem'[p].elapsed = mem[p].elapsed
    BY <2>1, <1>t DEF MemType
  <2>3. ckpt' = ckpt /\ at[p] = "batch" /\ at'[p] = "append"
    BY <1>6, <1>t DEF Collect, Move, files
  <2>4. AsGood(ckpt.board, mem[p].board) => AsGood(ckpt.board, board)
    BY <2>1, <1>g, AsGoodOrder
  <2> QED
    BY <2>2, <2>3, <2>4, <1>e, <1>k DEF Inside
<1>7. CASE AppendResult(p)
  <2>1. PICK k : mem' = [mem EXCEPT ![p].results = @ \ {k}]
    BY <1>7 DEF AppendResult
  <2>2. /\ mem'[p].board = mem[p].board /\ mem'[p].seen = mem[p].seen
        /\ mem'[p].elapsed = mem[p].elapsed
    BY <2>1, <1>t DEF MemType
  <2>3. ckpt' = ckpt /\ at[p] = "append" /\ at'[p] \in {"append", "save"}
    BY <1>7, <1>t DEF AppendResult, Move
  <2> QED
    BY <2>2, <2>3, <1>e, <1>k DEF Inside
<1>8. CASE SaveGeneration(p) \/ SaveEnd(p)
  <2>1. /\ mem' = mem /\ ckpt'.seen = mem[p].seen /\ ckpt'.board = mem[p].board
        /\ ckpt'.elapsed = mem[p].elapsed /\ at[p] \in {"save", "final"}
        /\ at'[p] \notin {"rescore", "select", "holdout"}
    BY <1>8, <1>t DEF SaveGeneration, SaveEnd, WriteCheckpoint, Move
  <2>2. at[p] \in Inside \ {"snapshot", "load"}
    BY <2>1 DEF Inside
  <2> QED
    BY <2>1, <2>2, <1>e, <1>s, <1>r DEF Ahead
<1> QED
  BY <1>1, <1>2, <1>3, <1>4, <1>5, <1>6, <1>7, <1>8 DEF Evaluates

\* The documents follow the winner, and the status follows them.
LEMMA ReportedStep ==
  ASSUME TypeOK, NEW p \in Procs, Works(p), Passes(p) \/ Evaluates(p),
         Reported(p), CompletedSelection
  PROVE  Reported(p)' /\ CompletedSelection'
<1>t. /\ at \in [Procs -> Outside \union Inside] /\ mem \in [Procs -> MemType]
      /\ mem[p] \in MemType
  BY MemFields DEF TypeOK
<1>i. at[p] \in Inside /\ at'[p] \in Inside
  BY DEF Works
<1> USE DEF Move, files, env, Reported, CompletedSelection
<1>1. CASE Evaluates(p) \/ BuildSnapshot(p) \/ NewPopulation(p)
  <2>1. /\ UNCHANGED <<status, selection, result, peeked>>
        /\ at'[p] \notin {"holdout", "result", "completed"}
        /\ \/ at'[p] \in {"snapshot", "load", "baseline", "baselog", "running", "unlock"}
           \/ at[p] \notin {"snapshot", "load", "baseline", "baselog", "running", "unlock"}
    BY <1>1, <1>t DEF Evaluates, LoadCheckpoint, EvaluateBaseline, BaselineKnown, LogBaseline,
                      Collect, AppendResult, SaveGeneration, SaveEnd, BuildSnapshot, NewPopulation
  <2> QED
    BY <1>i, <2>1
<1>2. CASE PutRunning(p) \/ PutProgress(p)
  <2>1. /\ UNCHANGED <<selection, result, peeked>> /\ status' = "running" /\ at'[p] = "loop"
    BY <1>2, <1>t DEF PutRunning, PutProgress
  <2> QED
    BY <2>1
<1>3. CASE \/ Submit(p) \/ Refill(p) \/ LeaveLoop(p) \/ CollectNothing(p) \/ StartRescore(p)
           \/ PickWinner(p) \/ NoFeasibleWinner(p) \/ GiveUp(p) \/ SubmitFails(p)
  <2>1. /\ UNCHANGED <<status, selection, result, peeked>>
        /\ at'[p] \notin {"holdout", "result", "completed"}
        /\ at[p] \notin {"snapshot", "load", "baseline", "baselog", "running", "unlock"}
    BY <1>3, <1>t DEF Submit, Refill, LeaveLoop, CollectNothing, StartRescore, PickWinner,
                      NoFeasibleWinner, GiveUp, SubmitFails
  <2> QED
    BY <1>i, <2>1
<1>4. CASE FreezeSelection(p)
  <2>1. /\ UNCHANGED <<status, result, peeked, mem>> /\ selection' = mem[p].winner
        /\ at[p] = "select" /\ at'[p] = "holdout"
    BY <1>4, <1>t DEF FreezeSelection
  <2> QED
    BY <1>i, <2>1
<1>5. CASE ReportHoldout(p)
  <2>1. PICK good \in BOOLEAN :
          /\ peeked' = peeked \union {<<mem[p].winner, good>>}
          /\ Move(p, IF good THEN "result" ELSE "failing")
    BY <1>5 DEF ReportHoldout
  <2>2. UNCHANGED <<status, selection, result, mem>> /\ at[p] = "holdout"
    BY <1>5, <1>t DEF ReportHoldout
  <2>3. status' = "running" /\ selection' = mem[p].winner
    BY <1>i, <2>2
  <2>4. CASE good
    <3>1. at'[p] = "result" /\ <<mem[p].winner, TRUE>> \in peeked'
      BY <2>1, <2>4, <1>t
    <3> QED
      BY <2>2, <2>3, <3>1
  <2>5. CASE ~good
    <3>1. at'[p] = "failing"
      BY <2>1, <2>5, <1>t
    <3> QED
      BY <2>2, <2>3, <3>1
  <2> QED
    BY <2>4, <2>5
<1>6. CASE PutResult(p)
  <2>1. /\ UNCHANGED <<status, selection, peeked, mem>> /\ result' = mem[p].winner
        /\ at[p] = "result" /\ at'[p] = "completed"
    BY <1>6, <1>t DEF PutResult
  <2> QED
    BY <1>i, <2>1
<1>7. CASE PutCompleted(p)
  <2>1. /\ UNCHANGED <<selection, result, peeked, mem>> /\ status' = "completed"
        /\ at[p] = "completed" /\ at'[p] = "unlock"
    BY <1>7, <1>t DEF PutCompleted
  <2> QED
    BY <1>i, <2>1
<1>8. CASE PutEnded(p) \/ PutFailed(p)
  <2>1. at'[p] = "unlock" /\ status' # "completed"
    BY <1>8, <1>t DEF PutEnded, PutFailed
  <2> QED
    BY <2>1
<1>9. CASE Interrupt(p)
  BY <1>9 DEF Interrupt
<1>10. CASE Tick(p)
  <2>1. UNCHANGED <<status, selection, result, peeked, at>> /\ mem'[p].winner = mem[p].winner
    BY <1>10, <1>t DEF Tick, MemType
  <2> QED
    BY <2>1
<1> QED
  BY <1>1, <1>2, <1>3, <1>4, <1>5, <1>6, <1>7, <1>8, <1>9, <1>10 DEF Passes

-----------------------------------------------------------------------------
\* The invariant holds of an empty directory,
LEMMA SearchStart == SearchInit => SearchInv
<1> SUFFICES ASSUME SearchInit PROVE SearchInv
  OBVIOUS
<1>1. NoCheckpoint \in CkptType /\ Blank \in MemType
  BY DEF NoCheckpoint, CkptType, Blank, MemType
<1>2. TypeOK
  <2>1. FilesTyped
    <3>1. count \in [runs : Nat, kills : Nat] /\ market \in Nat \ {0} /\ snapshot \in Nat
      BY DEF SearchInit
    <3>2. log = {} /\ peeked = {} /\ selection = NoKey /\ result = NoKey /\ request = FALSE
          /\ status = "none"
      BY DEF SearchInit
    <3> QED
      BY <3>1, <3>2 DEF FilesTyped
  <2>2. ProcsTyped /\ PcTyped
    BY DEF SearchInit, ProcsTyped, PcTyped, Outside
  <2>3. ckpt \in CkptType /\ mem \in [Procs -> MemType]
    BY <1>1 DEF SearchInit
  <2> QED
    BY <2>1, <2>2, <2>3, TypeParts
<1>3. \A p \in Procs : at[p] \in Outside /\ at[p] \notin Inside /\ mem[p] = Blank
  BY DEF SearchInit, Outside, Inside
<1>4. LockHeld /\ Fresh
  BY <1>3, GaAssumption DEF SearchInit, LockHeld, Fresh
<1>5. CheckpointTrue /\ OneSnapshot /\ CompletedSelection
  BY DEF SearchInit, CheckpointTrue, OneSnapshot, CompletedSelection, NoCheckpoint, KeysOf
<1>6. \A p \in Procs : Knows(p)
  BY <1>3, OutsideKnows
<1> QED
  BY <1>2, <1>4, <1>5, <1>6 DEF SearchInv, Knows

\* and every step of a process keeps it: outside by OutsideKnows, inside by the
\* lemma of each part.
LEMMA SearchStep == SearchInv /\ [SearchNext]_searchVars => SearchInv'
<1> SUFFICES ASSUME SearchInv, [SearchNext]_searchVars PROVE SearchInv'
  OBVIOUS
<1>t. TypeOK /\ LockHeld /\ Fresh /\ Documents /\ \A p \in Procs : Knows(p)
  BY DEF SearchInv, Documents, Knows
<1>n. (TypeOK /\ LockHeld /\ Fresh)'
  BY <1>t, TypeStep, LockStep
<1>a. ASSUME Documents', \A p \in Procs : Knows(p)' PROVE SearchInv'
  BY <1>n, <1>a DEF SearchInv, Documents, Knows
<1>1. ASSUME NEW p \in Procs, Act(p) PROVE SearchInv'
  <2>1. \A q \in Procs \ {p} : Knows(q)'
    BY <1>1, <1>t, OthersKnow
  <2>2. CASE Gone(p) /\ UNCHANGED <<files, peeked>>
    <3>1. at'[p] \in Outside /\ mem'[p] = Blank
      BY <2>2, <1>t, Sides DEF Gone, Move, TypeOK
    <3>2. Knows(p)'
      BY <3>1, OutsideKnowsNext
    <3>3. Documents'
      BY <2>2, <1>t DEF Documents, CheckpointTrue, OneSnapshot, CompletedSelection, files
    <3> QED
      BY <2>1, <3>2, <3>3, <1>a
  <2>3. CASE StaysOutside(p)
    <3>1. at'[p] \in Outside /\ mem'[p] = Blank
      BY <2>3, <1>t DEF StaysOutside, Fresh
    <3>2. Knows(p)'
      BY <3>1, OutsideKnowsNext
    <3>3. Documents'
      BY <2>3, <1>t DEF Documents, CheckpointTrue, OneSnapshot, CompletedSelection, StaysOutside
    <3> QED
      BY <2>1, <3>2, <3>3, <1>a
  <2>4. CASE TakeLock(p)
    <3>1. at[p] \in Outside /\ at'[p] = "snapshot" /\ UNCHANGED <<files, mem, resume, peeked>>
      BY <2>4, <1>t, Sides DEF TakeLock, Move, TypeOK
    <3>2. mem'[p].seen = {} /\ mem'[p].results = {} /\ mem'[p].board = {}
      BY <3>1, <1>t DEF Fresh, Blank
    <3>3. Knows(p)'
      BY <3>1, <3>2 DEF Knows, Logged, Current, Ahead, Reported, KeysOf
    <3>4. Documents'
      BY <3>1, <1>t DEF Documents, CheckpointTrue, OneSnapshot, CompletedSelection, files
    <3> QED
      BY <2>1, <3>3, <3>4, <1>a
  <2>5. CASE Works(p) /\ (Passes(p) \/ Evaluates(p))
    <3>1. Logged(p) /\ Current(p) /\ Ahead(p) /\ Reported(p)
          /\ CheckpointTrue /\ OneSnapshot /\ CompletedSelection
      BY <1>t DEF Knows, Documents
    <3>2. Logged(p)' /\ CheckpointTrue'
      BY <2>5, <3>1, <1>t, LoggedStep
    <3>3. Current(p)' /\ OneSnapshot'
      BY <2>5, <3>1, <1>t, CurrentStep
    <3>4. Ahead(p)'
      BY <2>5, <3>1, <1>t, AheadStep
    <3>5. Reported(p)' /\ CompletedSelection'
      BY <2>5, <3>1, <1>t, ReportedStep
    <3> QED
      BY <2>1, <3>2, <3>3, <3>4, <3>5, <1>a DEF Documents, Knows
  <2> QED
    BY <1>1, <1>t, <2>2, <2>3, <2>4, <2>5, StepKinds
<1>2. CASE MarketMoves \/ UNCHANGED searchVars
  <2>1. UNCHANGED <<files, at, resume, mem, peeked>>
    BY <1>2 DEF MarketMoves, searchVars
  <2>2. Documents'
    BY <2>1, <1>t DEF Documents, CheckpointTrue, OneSnapshot, CompletedSelection, files
  <2>3. \A p \in Procs : Knows(p)'
    BY <2>1, <1>t DEF Knows, Logged, Current, Ahead, Reported, files
  <2> QED
    BY <2>2, <2>3, <1>a
<1> QED
  BY <1>1, <1>2 DEF SearchNext, Act

\* The inductive invariant of the search, from which the theorems follow.
THEOREM SearchInvariant == SearchSpec => []SearchInv
BY SearchStart, SearchStep, PTL DEF SearchSpec

\* No result that the checkpoint counts as evaluated is missing from the log,
\* wherever an invocation was killed (_run, _write_checkpoint).
THEOREM CheckpointLoggedAlways == SearchSpec => []CheckpointLogged
<1>1. SearchInv => CheckpointLogged
  BY DEF SearchInv, CheckpointTrue, CheckpointLogged
<1> QED
  BY SearchInvariant, <1>1, PTL

\* A resumed search goes on with the data, the results and the budget of its
\* checkpoint (_resume_state, _build_snapshot, _run).
THEOREM ResumeGoesOnAlways == SearchSpec => []ResumeGoesOn
<1>1. SearchInv => ResumeGoesOn
  <2> SUFFICES ASSUME SearchInv PROVE ResumeGoesOn
    OBVIOUS
  <2>1. ckpt.written => ckpt.snapshot = snapshot
    BY DEF SearchInv, OneSnapshot
  <2>2. ASSUME NEW p \in Procs, resume[p]
        PROVE  /\ at[p] = "batch" => mem[p].pending \intersect ckpt.seen = {}
               /\ at[p] \in {"batch", "rescore", "select", "holdout"} => ckpt.elapsed < 2
    <3>1. Current(p) /\ Ahead(p) /\ ckpt.elapsed \in Nat
      BY MemFields DEF SearchInv
    <3>2. CASE at[p] = "batch"
      <4>1. mem[p].pending \intersect mem[p].seen = {} /\ mem[p].elapsed = 0
        BY <3>1, <3>2 DEF Current
      <4>2. ckpt.seen \subseteq mem[p].seen /\ ckpt.elapsed <= mem[p].elapsed
        BY <3>1, <3>2, <2>2 DEF Ahead, Inside
      <4> QED
        BY <3>1, <4>1, <4>2
    <3>3. CASE at[p] # "batch"
      BY <3>1, <3>3, <2>2 DEF Ahead
    <3> QED
      BY <3>2, <3>3
  <2> QED
    BY <2>1, <2>2 DEF ResumeGoesOn
<1> QED
  BY SearchInvariant, <1>1, PTL

\* Completion comes with the selected winner, fully reported on the holdout
\* (_run, from selection.sqlite3 to status.sqlite3).
THEOREM CompletedSelectionAlways == SearchSpec => []CompletedSelection
<1>1. SearchInv => CompletedSelection
  BY DEF SearchInv
<1> QED
  BY SearchInvariant, <1>1, PTL

\* No step of a resumed search replaces the checkpoint's leader by a worse one
\* (_sorted_leaderboard, _write_checkpoint).
THEOREM BestKeptAlways == SearchSpec => BestKept
<1> DEFINE Kept == \A p \in Procs : held = p /\ resume[p] =>
                     \A e \in ckpt.board : \E f \in ckpt'.board : f.fitness >= e.fitness
<1>1. SearchInv /\ [SearchNext]_searchVars => [Kept]_searchVars
  <2> SUFFICES ASSUME SearchInv, [SearchNext]_searchVars PROVE Kept
    OBVIOUS
  <2>t. TypeOK /\ LockHeld /\ \A p \in Procs : Ahead(p)
    BY DEF SearchInv
  <2>s. AsGood(ckpt.board, ckpt.board)
    BY <2>t, AsGoodOrder DEF TypeOK, CkptType
  <2>1. CASE ckpt' = ckpt
    BY <2>1, <2>s DEF AsGood
  <2>2. ASSUME NEW q \in Procs, Act(q), ckpt' # ckpt PROVE Kept
    <3>1. Works(q) /\ (Passes(q) \/ Evaluates(q))
      BY <2>2, <2>t, StepKinds DEF StaysOutside, TakeLock, files
    <3>2. held = q
      BY <3>1, <2>t DEF Works, LockHeld
    <3>3. resume[q] => AsGood(ckpt.board, ckpt'.board)
      BY <3>1, <2>t, AheadStep
    <3> QED
      BY <3>2, <3>3 DEF AsGood
  <2>3. CASE MarketMoves \/ UNCHANGED searchVars
    BY <2>1, <2>3 DEF MarketMoves, searchVars, files
  <2> QED
    BY <2>1, <2>2, <2>3 DEF SearchNext, Act
<1> QED
  BY SearchInvariant, <1>1, PTL DEF SearchSpec, BestKept
-----------------------------------------------------------------------------
\* The steps from a place of an invocation to its end when it starts no other
\* generation; appending the results of a batch counts as one.
StepsAhead(l) ==
  CASE l = "baseline"                -> 15
    [] l = "baselog"                 -> 14
    [] l = "running"                 -> 13
    [] l = "batch"                   -> 12
    [] l = "append"                  -> 11
    [] l = "save"                    -> 10
    [] l = "progress"                -> 9
    [] l = "loop"                    -> 8
    [] l = "searched"                -> 7
    [] l = "rescore"                 -> 6
    [] l = "select"                  -> 5
    [] l = "holdout"                 -> 4
    [] l \in {"result", "final"}     -> 3
    [] l \in {"completed", "interrupted", "time_budget_reached", "failing"} -> 2
    [] l = "unlock"                  -> 1
    [] OTHER                         -> 0

\* The checkpoint is loaded, if the invocation resumes.
Started(p) == at[p] \in Inside \ {"snapshot", "load"}

\* It was told to stop, or the main deadline has passed.
Late(p) == stop[p] \/ mem[p].elapsed > 0

AppendsOne(p) ==
  /\ at[p] = "append" /\ at'[p] = "append"
  /\ \E k \in mem[p].results : mem'[p].results = mem[p].results \ {k}

\* An invocation that is late stays late, starts no generation, and comes nearer
\* to its end with every step.
WindsUp ==
  \A p \in Procs : Started(p) /\ Late(p) =>
    /\ at'[p] = "idle" \/ Late(p)'
    /\ StepsAhead(at'[p]) <= StepsAhead(at[p])
    /\ Step(p) => StepsAhead(at'[p]) < StepsAhead(at[p]) \/ AppendsOne(p)

\* (the values of StepsAhead)
LEMMA StepsAheadAre ==
  /\ StepsAhead("baseline") = 15 /\ StepsAhead("baselog") = 14 /\ StepsAhead("running") = 13
  /\ StepsAhead("batch") = 12 /\ StepsAhead("append") = 11 /\ StepsAhead("save") = 10
  /\ StepsAhead("progress") = 9 /\ StepsAhead("loop") = 8 /\ StepsAhead("searched") = 7
  /\ StepsAhead("rescore") = 6 /\ StepsAhead("select") = 5 /\ StepsAhead("holdout") = 4
  /\ StepsAhead("result") = 3 /\ StepsAhead("final") = 3 /\ StepsAhead("completed") = 2
  /\ StepsAhead("interrupted") = 2 /\ StepsAhead("time_budget_reached") = 2
  /\ StepsAhead("failing") = 2 /\ StepsAhead("unlock") = 1 /\ StepsAhead("idle") = 0
BY DEF StepsAhead

\* (and their range)
LEMMA StepsAheadNat == \A l \in Outside \union Inside : StepsAhead(l) \in 0 .. 15
BY DEF StepsAhead, Outside, Inside

\* Nothing makes a late invocation early: a stop is not withdrawn, and the time
\* that has passed is not given back.
LEMMA StaysLate ==
  ASSUME TypeOK, NEW p \in Procs, Started(p), Late(p), Act(p)
  PROVE  at'[p] = "idle" \/ Late(p)'
<1>t. /\ at \in [Procs -> Outside \union Inside] /\ mem \in [Procs -> MemType]
      /\ stop \in [Procs -> BOOLEAN]
      /\ mem[p] \in MemType /\ mem[p].elapsed \in Nat
  BY MemFields DEF TypeOK
<1>a. ASSUME stop'[p] = stop[p] \/ stop'[p], mem'[p].elapsed >= mem[p].elapsed, mem'[p].elapsed \in Nat
      PROVE  Late(p)'
  BY <1>t, <1>a DEF Late
<1>1. CASE Gone(p)
  BY <1>t, <1>1 DEF Gone, Move
<1>2. CASE Passes(p)
  <2>1. mem[p].elapsed <= mem'[p].elapsed /\ mem'[p].elapsed \in Nat
    BY <1>2, PassKeeps
  <2>2. stop'[p] = stop[p] \/ stop'[p]
    BY <1>2, <1>t DEF Passes, BuildSnapshot, NewPopulation, PutRunning, Submit, Refill, LeaveLoop,
       CollectNothing, PutProgress, Interrupt, Tick, StartRescore, PickWinner, NoFeasibleWinner, GiveUp,
       FreezeSelection, ReportHoldout, PutResult, PutCompleted, PutEnded, SubmitFails, PutFailed
  <2> QED
    BY <1>t, <2>1, <2>2, <1>a
<1>3. CASE Evaluates(p)
  <2>1. stop'[p] = stop[p]
    BY <1>3 DEF Evaluates, LoadCheckpoint, EvaluateBaseline, BaselineKnown, LogBaseline, Collect,
       AppendResult, SaveGeneration, SaveEnd
  <2>2. ~LoadCheckpoint(p)
    BY DEF LoadCheckpoint, Started
  <2>3. mem'[p].elapsed = mem[p].elapsed
    <3>1. CASE EvaluateBaseline(p)
      <4>1. PICK board : mem' = [mem EXCEPT ![p].board = board, ![p].seen = @ \union {Base}]
        BY <3>1 DEF EvaluateBaseline
      <4> QED
        BY <1>t, <4>1 DEF MemType
    <3>2. CASE Collect(p)
      <4>1. PICK done, board :
              mem' = [mem EXCEPT ![p].board = board, ![p].seen = @ \union done,
                                 ![p].pending = @ \ done, ![p].results = done]
        BY <3>2 DEF Collect
      <4> QED
        BY <1>t, <4>1 DEF MemType
    <3>3. CASE AppendResult(p)
      <4>1. PICK k : mem' = [mem EXCEPT ![p].results = @ \ {k}]
        BY <3>3 DEF AppendResult
      <4> QED
        BY <1>t, <4>1 DEF MemType
    <3>4. CASE BaselineKnown(p) \/ LogBaseline(p) \/ SaveGeneration(p) \/ SaveEnd(p)
      BY <1>t, <3>4 DEF BaselineKnown, LogBaseline, SaveGeneration, SaveEnd, MemType
    <3> QED
      BY <1>3, <2>2, <3>1, <3>2, <3>3, <3>4 DEF Evaluates
  <2> QED
    BY <1>t, <2>1, <2>3, <1>a
<1>4. ~StaysOutside(p) /\ ~TakeLock(p)
  BY <1>t DEF StaysOutside, TakeLock, Started, Outside, Inside
<1> QED
  BY <1>1, <1>2, <1>3, <1>4, StepKinds

\* A late invocation leaves the loop and does not come back to it.
LEMMA ComesNearer ==
  ASSUME TypeOK, NEW p \in Procs, Started(p), Late(p), Step(p)
  PROVE  StepsAhead(at'[p]) < StepsAhead(at[p]) \/ AppendsOne(p)
<1>t. at \in [Procs -> Outside \union Inside] /\ mem \in [Procs -> MemType]
  BY DEF TypeOK
<1>1. CASE EvaluateBaseline(p)
  BY <1>t, <1>1, StepsAheadAre DEF EvaluateBaseline, Move
<1>2. CASE BaselineKnown(p)
  BY <1>t, <1>2, StepsAheadAre DEF BaselineKnown, Move
<1>3. CASE LogBaseline(p)
  BY <1>t, <1>3, StepsAheadAre DEF LogBaseline, Move
<1>4. CASE PutRunning(p)
  BY <1>t, <1>4, StepsAheadAre DEF PutRunning, Move
<1>5. CASE LeaveLoop(p)
  BY <1>t, <1>5, StepsAheadAre DEF LeaveLoop, Move
<1>6. CASE Collect(p)
  BY <1>t, <1>6, StepsAheadAre DEF Collect, Move
<1>7. CASE CollectNothing(p)
  BY <1>t, <1>7, StepsAheadAre DEF CollectNothing, Move
<1>8. CASE SaveGeneration(p)
  BY <1>t, <1>8, StepsAheadAre DEF SaveGeneration, Move
<1>9. CASE PutProgress(p)
  BY <1>t, <1>9, StepsAheadAre DEF PutProgress, Move
<1>10. CASE StartRescore(p)
  BY <1>t, <1>10, StepsAheadAre DEF StartRescore, Move
<1>11. CASE PickWinner(p)
  BY <1>t, <1>11, StepsAheadAre DEF PickWinner, Move
<1>12. CASE NoFeasibleWinner(p)
  BY <1>t, <1>12, StepsAheadAre DEF NoFeasibleWinner, Move
<1>13. CASE GiveUp(p)
  BY <1>t, <1>13, StepsAheadAre DEF GiveUp, Move
<1>14. CASE FreezeSelection(p)
  BY <1>t, <1>14, StepsAheadAre DEF FreezeSelection, Move
<1>15. CASE ReportHoldout(p)
  BY <1>t, <1>15, StepsAheadAre DEF ReportHoldout, Move
<1>16. CASE PutResult(p)
  BY <1>t, <1>16, StepsAheadAre DEF PutResult, Move
<1>17. CASE PutCompleted(p)
  BY <1>t, <1>17, StepsAheadAre DEF PutCompleted, Move
<1>18. CASE SaveEnd(p)
  BY <1>t, <1>18, StepsAheadAre DEF SaveEnd, Move
<1>19. CASE PutEnded(p)
  BY <1>t, <1>19, StepsAheadAre DEF PutEnded, Move
<1>20. CASE SubmitFails(p)
  BY <1>t, <1>20, StepsAheadAre DEF SubmitFails, Move
<1>21. CASE PutFailed(p)
  BY <1>t, <1>21, StepsAheadAre DEF PutFailed, Move
<1>22. CASE Unlock(p)
  BY <1>t, <1>22, StepsAheadAre DEF Unlock, Move, Gone
<1>23. CASE AppendResult(p)
  <2>1. PICK k \in mem[p].results :
          /\ mem' = [mem EXCEPT ![p].results = @ \ {k}]
          /\ at' = [at EXCEPT ![p] = IF mem[p].results = {k} THEN "save" ELSE "append"]
    BY <1>23 DEF AppendResult, Move
  <2>2. at[p] = "append"
    BY <1>23 DEF AppendResult
  <2>3. mem'[p].results = mem[p].results \ {k}
    BY <1>t, <2>1 DEF MemType
  <2> QED
    BY <1>t, <2>1, <2>2, <2>3, StepsAheadAre DEF AppendsOne
<1>24. CASE Submit(p) \/ Refill(p)
  <2>1. mem[p].elapsed \in Nat
    BY MemFields
  <2> QED
    BY <2>1, <1>24 DEF Submit, Refill, GoesOn, Late
<1>25. CASE \/ CheckEnds(p) \/ CheckGoesOn(p) \/ PutRequest(p) \/ TakeLock(p) \/ LockBusy(p)
           \/ BuildSnapshot(p) \/ SnapshotFails(p) \/ LoadCheckpoint(p) \/ NothingToResume(p)
           \/ NewPopulation(p)
  BY <1>25 DEF Started, Inside, CheckEnds, CheckGoesOn, PutRequest, TakeLock, LockBusy,
     BuildSnapshot, SnapshotFails, LoadCheckpoint, NothingToResume, NewPopulation
<1> QED
  BY <1>1, <1>2, <1>3, <1>4, <1>5, <1>6, <1>7, <1>8, <1>9, <1>10, <1>11, <1>12, <1>13, <1>14,
     <1>15, <1>16, <1>17, <1>18, <1>19, <1>20, <1>21, <1>22, <1>23, <1>24, <1>25
  DEF Step, Begin, Search, Conclude

\* What is not a step of its own leaves an invocation where it is, or kills it.
LEMMA OthersLeave ==
  ASSUME TypeOK, NEW p \in Procs, Started(p), Interrupt(p) \/ Kill(p) \/ Tick(p)
  PROVE  at'[p] = at[p] \/ at'[p] = "idle"
BY DEF TypeOK, Interrupt, Kill, Tick, Gone, Move

\* Once it is told to stop or its main deadline has passed, an invocation ends in
\* at most fifteen steps and one for each result it still has to log, whatever
\* candidates there are; of the time before, nothing is said (_run).
THEOREM WindsUpAlways == SearchSpec => [][WindsUp]_searchVars
<1>1. TypeOK /\ [SearchNext]_searchVars => [WindsUp]_searchVars
  <2> SUFFICES ASSUME TypeOK, SearchNext, NEW p \in Procs, Started(p), Late(p)
               PROVE  /\ at'[p] = "idle" \/ Late(p)'
                      /\ StepsAhead(at'[p]) <= StepsAhead(at[p])
                      /\ Step(p) => StepsAhead(at'[p]) < StepsAhead(at[p]) \/ AppendsOne(p)
    BY DEF WindsUp
  <2>t. TypeOK' /\ at[p] \in Outside \union Inside /\ at'[p] \in Outside \union Inside
    BY TypeStep DEF TypeOK
  <2>n. StepsAhead(at[p]) \in 0 .. 15 /\ StepsAhead(at'[p]) \in 0 .. 15
    BY <2>t, StepsAheadNat
  <2>s. Step(p) => StepsAhead(at'[p]) < StepsAhead(at[p]) \/ AppendsOne(p)
    BY ComesNearer
  <2>a. AppendsOne(p) => at'[p] = at[p]
    BY DEF AppendsOne
  <2>1. CASE Act(p)
    <3>1. at'[p] = "idle" \/ Late(p)'
      BY <2>1, StaysLate
    <3>2. ~Invoke(p)
      BY DEF Invoke, Started, Inside
    <3>3. StepsAhead(at'[p]) <= StepsAhead(at[p])
      <4>1. CASE Step(p)
        BY <2>n, <2>s, <2>a, <4>1
      <4>2. CASE Interrupt(p) \/ Kill(p) \/ Tick(p)
        <5>1. at'[p] = at[p] \/ at'[p] = "idle"
          BY <4>2, OthersLeave
        <5> QED
          BY <2>n, <5>1, StepsAheadAre
      <4> QED
        BY <2>1, <3>2, <4>1, <4>2 DEF Act
    <3> QED
      BY <2>s, <3>1, <3>3
  <2>2. CASE ~Act(p)
    <3>1. at'[p] = at[p] /\ mem'[p] = mem[p] /\ stop'[p] = stop[p]
      <4>1. CASE MarketMoves
        BY <4>1 DEF MarketMoves
      <4>2. CASE \E q \in Procs : Act(q)
        <5>1. PICK q \in Procs : Act(q)
          BY <4>2
        <5>2. Alone(q) /\ p # q
          BY <2>2, <5>1, OthersKept
        <5> QED
          BY <5>2 DEF Alone
      <4> QED
        BY <4>1, <4>2 DEF SearchNext, Act
    <3> QED
      BY <2>n, <2>s, <3>1 DEF Late
  <2> QED
    BY <2>1, <2>2
<1>2. SearchInv => TypeOK
  BY DEF SearchInv
<1> QED
  BY <1>1, <1>2, SearchInvariant, PTL DEF SearchSpec
=============================================================================
