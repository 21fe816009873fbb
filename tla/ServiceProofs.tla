---------------------------- MODULE ServiceProofs ----------------------------
(***************************************************************************)
(* Proofs about what the services run on: process pools, the supervisor of *)
(* a search, and the requests for market data.                             *)
(*                                                                         *)
(* The pools: only a pool that nobody can find any more is shut down, and  *)
(* a map that raises is the victim of a mistaken discard or of a process   *)
(* that did not start.  The supervisor: what it reports is true, and its   *)
(* own waits end before the deadline.  Nothing is assumed of the number of *)
(* callers, pools, deaths, faults and ticks.                               *)
(*                                                                         *)
(* The requests, for any number of threads, calls, ticks and days, any     *)
(* length of the pause and any number of download periods: a thread sends  *)
(* at most one request during a pause, and overlapping refreshes leave no  *)
(* hole in the stored history and lose no stored day.                      *)
(***************************************************************************)
EXTENDS ProcessPools, Supervisor, MarketRequests, TLAPS

Places ==
  {"idle", "lookup", "submit", "await", "discard", "shutdown", "threads", "answered", "raised"}

PoolState == [state : {"unmade", "working", "broken"}, shut : BOOLEAN, cancels : BOOLEAN]

PoolTypeOK ==
  /\ registered \in Pools \union {NoPool}
  /\ pool \in [Pools -> PoolState]
  /\ at \in [Callers -> Places]
  /\ using \in [Callers -> Pools \union {NoPool}]
  /\ popped \in [Callers -> Pools \union {NoPool}]
  /\ maps \in Nat /\ deaths \in Nat

\* A caller inside a map has a pool, one that sees it broken is right, and
\* one that shuts a pool down has taken it out of the registry.
CallersInPlace ==
  \A c \in Callers :
    /\ at[c] \in {"submit", "await", "discard"} => using[c] \in Pools
    /\ at[c] = "discard" => pool[using[c]].state = "broken"
    /\ at[c] = "shutdown" =>
         /\ popped[c] \in Pools /\ popped[c] # registered
         /\ pool[popped[c]].state = "broken" \/ popped[c] \in mistaken

\* Only pools that have been made are used, registered or shut down.
Made ==
  /\ registered # NoPool => pool[registered].state # "unmade"
  /\ \A p \in Pools : pool[p].state = "unmade" => ~pool[p].shut
  /\ \A c \in Callers :
       /\ at[c] \in {"submit", "await"} => pool[using[c]].state # "unmade"
       /\ at[c] = "shutdown" => pool[popped[c]].state # "unmade"

\* A pool that still works and is shut down was discarded by mistake; so was
\* one that cancels its items.
ShutForReason ==
  \A p \in Pools :
    /\ pool[p].shut => pool[p].state = "broken" \/ p \in mistaken
    /\ pool[p].cancels => p \in mistaken

PoolInv ==
  PoolTypeOK /\ CallersInPlace /\ Made /\ ShutForReason /\ OnlyMistakesRaise
-----------------------------------------------------------------------------
Steps ==
  {"start", "identify", "launch", "running", "inhibit", "poll", "signal", "signalled", "hard",
   "killed", "sleep", "finally", "kill", "reap", "inhibitor", "group", "verdict", "conclude",
   "returned", "raised", "gone"}

Endings ==
  {"failed", "expired", "interrupted", "exited", "stopping", "hard_stopped", "cleanup_failed"}

Statuses == Endings \union {"none", "starting", "running", "cleaning_up"}

ChildType == [state : {"none", "running", "killed", "ended"}, code : Int, reaped : BOOLEAN]
OutcomeType == [end : Endings, exit : Int]
ErrorsType == [cleanup : BOOLEAN, write : BOOLEAN]
RecordType == [status : Statuses, finished : BOOLEAN]

SupTypeOK ==
  /\ step \in Steps
  /\ left \in Int /\ skew \in Nat /\ slow \in Nat
  /\ child \in ChildType
  /\ others \in BOOLEAN /\ stop \in BOOLEAN /\ hit \in BOOLEAN
  /\ term \in Int /\ looked \in Int /\ waited \in Int
  /\ outcome \in OutcomeType
  /\ errors \in ErrorsType
  /\ record \in RecordType
  /\ faults \in Nat

\* What the loop noted of the time still holds, but for slow steps, and a
\* loop that goes to sleep has time before the SIGKILL.
TimeSeen ==
  /\ step \in {"signal", "signalled", "hard", "sleep"} => looked <= left + slow
  /\ step = "sleep" => looked > KillAt

BudgetInv == SupTypeOK /\ TimeSeen /\ WithinBudget

\* The child is launched once, with its group, and reaped when it has ended.
ChildInPlace ==
  /\ child.state = "none" => ~others /\ ~child.reaped
  /\ child.reaped => child.state = "ended"
  /\ step \in {"start", "identify", "launch"} => child.state = "none"

Looping ==
  {"start", "identify", "launch", "running", "inhibit", "poll", "signal", "signalled", "hard",
   "killed", "sleep"}

\* Before the end of the loop there is no exit code, and a run that would be
\* called exited has not been signalled; after it, exit code 0 is that of a
\* child which nobody signalled.
ExitTrue ==
  /\ step \in Looping => outcome.exit = 1
  /\ step \in Looping /\ outcome.end = "exited" => ~hit
  /\ step \in {"start", "identify", "launch", "running", "inhibit"} => ~hit
  /\ outcome.exit = 0 =>
       /\ child = [state |-> "ended", code |-> 0, reaped |-> TRUE]
       /\ ~hit /\ outcome.end = "exited"

Gone == child.state = "none" \/ (child.reaped /\ ~others)

\* A cleanup that did not fail has left nothing; the last record says how it was.
EndTrue ==
  /\ step = "verdict" => errors.cleanup \/ Gone
  /\ step \in {"conclude", "returned"} => outcome.end = "cleanup_failed" \/ Gone
  /\ record.finished => step = "returned" /\ record.status = outcome.end
  /\ step = "returned" => record.finished

VerdictInv == BudgetInv /\ ChildInPlace /\ ExitTrue /\ EndTrue /\ VerdictIsTrue
-----------------------------------------------------------------------------
(* Pools *)

\* The first state.
LEMMA PoolStart == PoolInit => PoolInv
BY PoolAssumption
DEF PoolInit, PoolInv, PoolTypeOK, PoolState, Places, CallersInPlace, Made, ShutForReason,
    OnlyMistakesRaise

\* Every step of a caller, and the death of a worker, keep the invariant.
LEMMA PoolStep == PoolInv /\ [PoolNext]_poolVars => PoolInv'
<1> SUFFICES ASSUME PoolInv, [PoolNext]_poolVars PROVE PoolInv'
  OBVIOUS
<1> USE PoolAssumption DEF PoolInv, PoolTypeOK, PoolState, Places, Move, Harm
<1>1. ASSUME NEW c \in Callers, StartMap(c) PROVE PoolInv'
  BY <1>1 DEF StartMap, CallersInPlace, Made, ShutForReason, OnlyMistakesRaise
<1>2. ASSUME NEW c \in Callers, Lookup(c) PROVE PoolInv'
  <2> USE DEF CallersInPlace, Made, ShutForReason, OnlyMistakesRaise
  <2>1. CASE registered # NoPool
    BY <1>2, <2>1 DEF Lookup
  <2>2. ASSUME registered = NoPool, NEW p \in Pools, pool[p].state = "unmade",
               pool' = [pool EXCEPT ![p].state = "working"],
               registered' = p, using' = [using EXCEPT ![c] = p]
        PROVE  PoolInv'
    <3>1. PoolTypeOK'
      BY <1>2, <2>2 DEF Lookup
    <3>2. /\ pool'[p] = [pool[p] EXCEPT !.state = "working"]
          /\ \A q \in Pools \ {p} : pool'[q] = pool[q]
      BY <2>2
    <3>3. \A d \in Callers :
            /\ at'[d] \in {"submit", "await", "discard"} =>
                 using'[d] = (IF d = c THEN p ELSE using[d])
            /\ at'[d] = (IF d = c THEN "submit" ELSE at[d])
      BY <1>2, <2>2 DEF Lookup
    <3>4. (CallersInPlace /\ Made)'
      BY <1>2, <2>2, <3>1, <3>2, <3>3 DEF Lookup
    <3>5. (ShutForReason /\ OnlyMistakesRaise)'
      BY <1>2, <2>2, <3>1, <3>2, <3>3 DEF Lookup
    <3> QED
      BY <3>1, <3>4, <3>5
  <2> QED
    BY <1>2, <2>1, <2>2 DEF Lookup
<1>3. ASSUME NEW c \in Callers, Unmade(c) PROVE PoolInv'
  BY <1>3 DEF Unmade, CallersInPlace, Made, ShutForReason, OnlyMistakesRaise
<1>4. ASSUME NEW c \in Callers, Submit(c) PROVE PoolInv'
  BY <1>4 DEF Submit, CallersInPlace, Made, ShutForReason, OnlyMistakesRaise
<1>5. ASSUME NEW c \in Callers, NotStarted(c) PROVE PoolInv'
  BY <1>5 DEF NotStarted, CallersInPlace, Made, ShutForReason, OnlyMistakesRaise
<1>6. ASSUME NEW c \in Callers, Collect(c) PROVE PoolInv'
  BY <1>6 DEF Collect, CallersInPlace, Made, ShutForReason, OnlyMistakesRaise
<1>7. ASSUME NEW c \in Callers, SeeBroken(c) PROVE PoolInv'
  BY <1>7 DEF SeeBroken, CallersInPlace, Made, ShutForReason, OnlyMistakesRaise
<1>8. ASSUME NEW c \in Callers, SeeCancelled(c) PROVE PoolInv'
  BY <1>8 DEF SeeCancelled, CallersInPlace, Made, ShutForReason, OnlyMistakesRaise
<1>9. ASSUME NEW c \in Callers, Discard(c) PROVE PoolInv'
  BY <1>9 DEF Discard, CallersInPlace, Made, ShutForReason, OnlyMistakesRaise
<1>10. ASSUME NEW c \in Callers, Shutdown(c) PROVE PoolInv'
  <2> USE DEF CallersInPlace, Made, ShutForReason, OnlyMistakesRaise
  <2> DEFINE p == popped[c]
  <2>1. p \in Pools /\ p # registered
    BY <1>10 DEF Shutdown
  <2> DEFINE closed == [pool EXCEPT ![p].shut = TRUE]
             cancelled == [closed EXCEPT ![p].cancels = TRUE]
  <2>2. pool' = IF pool[p].state = "working" THEN cancelled ELSE closed
    <3>1. CASE pool[p].state = "working"
      BY <1>10, <2>1, <3>1 DEF Shutdown
    <3>2. CASE pool[p].state # "working"
      <4>1. (pool[p].cancels \/ pool[p].state = "working") = pool[p].cancels
        BY <2>1, <3>2
      <4> QED
        BY <1>10, <2>1, <3>2, <4>1 DEF Shutdown
    <3> QED
      BY <3>1, <3>2
  <2>3. /\ pool'[p].state = pool[p].state
        /\ pool'[p].cancels => pool[p].cancels \/ pool[p].state = "working"
        /\ \A q \in Pools \ {p} : pool'[q] = pool[q]
        /\ pool' \in [Pools -> PoolState]
    <3>1. closed \in [Pools -> PoolState] /\ cancelled \in [Pools -> PoolState]
      BY <2>1
    <3>2. closed[p].state = pool[p].state /\ cancelled[p].state = pool[p].state
      BY <2>1
    <3>3. closed[p].cancels = pool[p].cancels
      BY <2>1
    <3>4. \A q \in Pools \ {p} : closed[q] = pool[q] /\ cancelled[q] = pool[q]
      BY <2>1
    <3> HIDE DEF closed, cancelled
    <3> QED
      BY <2>2, <3>1, <3>2, <3>3, <3>4
  <2>4. pool[p].state = "broken" \/ p \in mistaken
    BY <1>10 DEF Shutdown
  <2>5. (CallersInPlace /\ Made)'
    BY <1>10, <2>1, <2>3 DEF Shutdown
  <2>6. (ShutForReason /\ OnlyMistakesRaise)'
    BY <1>10, <2>1, <2>4, <2>3 DEF Shutdown
  <2>7. PoolTypeOK'
    BY <1>10, <2>3 DEF Shutdown
  <2> QED
    BY <2>5, <2>6, <2>7
<1>11. ASSUME NEW c \in Callers, Fallback(c) PROVE PoolInv'
  BY <1>11 DEF Fallback, CallersInPlace, Made, ShutForReason, OnlyMistakesRaise
<1>12. ASSUME NEW p \in Pools, WorkerDies(p) PROVE PoolInv'
  BY <1>12 DEF WorkerDies, CallersInPlace, Made, ShutForReason, OnlyMistakesRaise
<1>13. CASE UNCHANGED poolVars
  BY <1>13 DEF poolVars, CallersInPlace, Made, ShutForReason, OnlyMistakesRaise
<1> QED
  BY <1>1, <1>2, <1>3, <1>4, <1>5, <1>6, <1>7, <1>8, <1>9, <1>10, <1>11, <1>12, <1>13 DEF PoolNext

\* A registered pool takes work, and a map raises in two cases only: its pool
\* could not start a process while items were submitted, or a caller that saw
\* another pool break has discarded its pool (_process_executor,
\* _discard_process_executor and map_ordered).
THEOREM OnlyMistakesRaiseAlways == PoolSpec => []OnlyMistakesRaise
<1>1. PoolInv => OnlyMistakesRaise
  BY DEF PoolInv
<1> QED
  BY PoolStart, PoolStep, <1>1, PTL DEF PoolSpec
-----------------------------------------------------------------------------
(* Supervisor *)

\* The mark of a SIGTERM not sent yet is a number.
LEMMA NoTermInt == NoTerm \in Int
BY SMT DEF NoTerm

\* So is the exit code of a killed child.
LEMMA NegativeInt == -9 \in Int
BY SMT

\* The assumption, one constant at a time.
LEMMA Ticks ==
  /\ Second \in Nat \ {0} /\ Budgets \subseteq Nat
  /\ TermAt \in Nat /\ KillAt \in Nat /\ Grace \in Nat
  /\ MaxSlow \in Nat /\ MaxSkew \in Nat /\ MaxErrors \in Nat
BY SupervisorAssumption

\* What the steps write into the child, the outcome, the errors and the record
\* keeps each of them in its type.
LEMMA ChildKept ==
  ASSUME NEW c \in ChildType
  PROVE  /\ c.code \in Int
         /\ [c EXCEPT !.reaped = TRUE] \in ChildType
         /\ [c EXCEPT !.state = "running"] \in ChildType
         /\ [c EXCEPT !.state = "killed"] \in ChildType
         /\ \A n \in Int : [c EXCEPT !.state = "ended", !.code = n] \in ChildType
BY DEF ChildType

\* (the outcome)
LEMMA OutcomeKept ==
  ASSUME NEW o \in OutcomeType
  PROVE  /\ o.end \in Endings
         /\ [o EXCEPT !.end = "expired"] \in OutcomeType
         /\ [o EXCEPT !.end = "interrupted"] \in OutcomeType
         /\ [o EXCEPT !.end = "exited"] \in OutcomeType
         /\ [o EXCEPT !.end = "stopping"] \in OutcomeType
         /\ [o EXCEPT !.end = "hard_stopped"] \in OutcomeType
         /\ \A n \in Int : [o EXCEPT !.exit = n] \in OutcomeType
         /\ [end |-> "failed", exit |-> 1] \in OutcomeType
         /\ [end |-> "expired", exit |-> 1] \in OutcomeType
         /\ [end |-> "cleanup_failed", exit |-> 1] \in OutcomeType
BY DEF OutcomeType, Endings

\* (the errors of the cleanup)
LEMMA ErrorsKept ==
  ASSUME NEW e \in ErrorsType
  PROVE  /\ [e EXCEPT !.cleanup = TRUE] \in ErrorsType
         /\ [e EXCEPT !.write = TRUE] \in ErrorsType
BY DEF ErrorsType

\* (the record on disk)
LEMMA RecordKept ==
  ASSUME NEW r \in RecordType, NEW status \in Statuses
  PROVE  /\ [r EXCEPT !.status = status] \in RecordType
         /\ [status |-> status, finished |-> TRUE] \in RecordType
BY DEF RecordType

\* (typing of the first state)
\* A supervisor starts with no child, no exit code and no verdict.
LEMMA SupStart == SupInit => VerdictInv
<1> SUFFICES ASSUME SupInit PROVE VerdictInv
  OBVIOUS
<1>1. SupTypeOK
  <2>1. child \in ChildType /\ outcome \in OutcomeType
    BY DEF SupInit, ChildType, OutcomeType, Endings
  <2>2. errors \in ErrorsType /\ record \in RecordType
    BY DEF SupInit, ErrorsType, RecordType, Statuses
  <2>3. left \in Int /\ term \in Int
    BY Ticks, NoTermInt DEF SupInit
  <2>4. others \in BOOLEAN /\ stop \in BOOLEAN /\ hit \in BOOLEAN
    BY DEF SupInit
  <2>5. /\ step \in Steps /\ skew \in Nat /\ slow \in Nat
        /\ looked \in Int /\ waited \in Int /\ faults \in Nat
    BY DEF SupInit, Steps
  <2> QED
    BY <2>1, <2>2, <2>3, <2>4, <2>5 DEF SupTypeOK
<1>2. TimeSeen /\ WithinBudget
  BY Ticks DEF SupInit, TimeSeen, WithinBudget
<1>3. ChildInPlace /\ ExitTrue
  BY DEF SupInit, ChildInPlace, Looping, ExitTrue
<1>4. EndTrue /\ VerdictIsTrue
  BY DEF SupInit, EndTrue, VerdictIsTrue, Gone
<1> QED
  BY <1>1, <1>2, <1>3, <1>4 DEF VerdictInv, BudgetInv

\* Whatever the supervisor waits for, it has looked at the time that is left.
LEMMA BudgetStep == BudgetInv /\ [SupNext]_supVars => BudgetInv'
<1> SUFFICES ASSUME BudgetInv, [SupNext]_supVars PROVE BudgetInv'
  OBVIOUS
<1>c. /\ child \in ChildType /\ child.code \in Int
      /\ [child EXCEPT !.reaped = TRUE] \in ChildType
      /\ [child EXCEPT !.state = "running"] \in ChildType
      /\ [child EXCEPT !.state = "killed"] \in ChildType
  BY ChildKept DEF BudgetInv, SupTypeOK
<1>o. /\ outcome \in OutcomeType /\ outcome.end \in Endings
      /\ [outcome EXCEPT !.end = "expired"] \in OutcomeType
      /\ [outcome EXCEPT !.end = "interrupted"] \in OutcomeType
      /\ [outcome EXCEPT !.end = "exited"] \in OutcomeType
      /\ [outcome EXCEPT !.end = "stopping"] \in OutcomeType
      /\ [outcome EXCEPT !.end = "hard_stopped"] \in OutcomeType
      /\ [end |-> "failed", exit |-> 1] \in OutcomeType
      /\ [end |-> "expired", exit |-> 1] \in OutcomeType
      /\ [end |-> "cleanup_failed", exit |-> 1] \in OutcomeType
  BY OutcomeKept DEF BudgetInv, SupTypeOK
<1>x. \A n \in Int : [outcome EXCEPT !.exit = n] \in OutcomeType
  BY OutcomeKept DEF BudgetInv, SupTypeOK
<1>e. /\ errors \in ErrorsType
      /\ [errors EXCEPT !.cleanup = TRUE] \in ErrorsType
      /\ [errors EXCEPT !.write = TRUE] \in ErrorsType
  BY ErrorsKept DEF BudgetInv, SupTypeOK
<1>r. /\ record \in RecordType
      /\ \A s \in Statuses : /\ [record EXCEPT !.status = s] \in RecordType
                             /\ [status |-> s, finished |-> TRUE] \in RecordType
  BY RecordKept DEF BudgetInv, SupTypeOK
<1> USE DEF BudgetInv, SupTypeOK, clock, world, signals, loop, Error, Failed, Put
<1>1. CASE Start
  <2>1. child' \in ChildType
    BY <1>1 DEF Start
  <2>2. outcome' \in OutcomeType
    BY <1>1, <1>o DEF Start
  <2>3. errors' \in ErrorsType /\ record' \in RecordType
    BY <1>1, <1>r DEF Start, Statuses, Endings
  <2> QED
    BY <1>1, <2>1, <2>2, <2>3, Ticks, NoTermInt DEF Start, Steps, TimeSeen, WithinBudget, Remaining
<1>2. CASE Identify
  BY <1>2, Ticks, NoTermInt, <1>o DEF Identify, Steps, TimeSeen, WithinBudget, Remaining
<1>3. CASE Launch
  <2>1. child' \in ChildType
    BY <1>3, <1>c DEF Launch
  <2>2. outcome' \in OutcomeType
    BY <1>3, <1>o DEF Launch
  <2>3. errors' \in ErrorsType /\ record' \in RecordType
    BY <1>3 DEF Launch
  <2> QED
    BY <1>3, <2>1, <2>2, <2>3, Ticks, NoTermInt DEF Launch, Steps, TimeSeen, WithinBudget, Remaining
<1>4. CASE Running
  <2>1. child' \in ChildType
    BY <1>4 DEF Running
  <2>2. outcome' \in OutcomeType
    BY <1>4, <1>o DEF Running
  <2>3. errors' \in ErrorsType /\ record' \in RecordType
    BY <1>4, <1>r DEF Running, Statuses, Endings
  <2> QED
    BY <1>4, <2>1, <2>2, <2>3, Ticks, NoTermInt DEF Running, Steps, TimeSeen, WithinBudget,
       Remaining
<1>5. CASE Inhibit
  <2>1. child' \in ChildType
    BY <1>5 DEF Inhibit
  <2>2. outcome' \in OutcomeType
    BY <1>5, <1>o DEF Inhibit
  <2>3. errors' \in ErrorsType /\ record' \in RecordType
    BY <1>5 DEF Inhibit
  <2> QED
    BY <1>5, <2>1, <2>2, <2>3, Ticks, NoTermInt DEF Inhibit, Steps, TimeSeen, WithinBudget,
       Remaining
<1>6. CASE Poll
  <2>1. child' \in ChildType
    BY <1>6, <1>c DEF Poll, ExitCode
  <2>2. outcome' \in OutcomeType
    BY <1>6, <1>c, <1>x DEF Poll, ExitCode
  <2>3. errors' \in ErrorsType /\ record' \in RecordType
    BY <1>6 DEF Poll, ExitCode
  <2> QED
    BY <1>6, <2>1, <2>2, <2>3, Ticks, NoTermInt DEF Poll, ExitCode, Steps, TimeSeen, WithinBudget,
       Remaining
<1>7. CASE Signal
  BY <1>7, Ticks, NoTermInt, <1>o DEF Signal, Steps, TimeSeen, WithinBudget, Remaining
<1>8. CASE Signalled
  <2>1. child' \in ChildType
    BY <1>8 DEF Signalled
  <2>2. outcome' \in OutcomeType
    BY <1>8, <1>o DEF Signalled
  <2>3. errors' \in ErrorsType /\ record' \in RecordType
    BY <1>8, <1>o, <1>r DEF Signalled, Statuses, Endings
  <2> QED
    BY <1>8, <2>1, <2>2, <2>3, Ticks, NoTermInt DEF Signalled, Steps, TimeSeen, WithinBudget,
       Remaining
<1>9. CASE Hard
  <2>1. child' \in ChildType
    BY <1>9, <1>c DEF Hard
  <2>2. outcome' \in OutcomeType
    BY <1>9, <1>o DEF Hard
  <2>3. errors' \in ErrorsType /\ record' \in RecordType
    BY <1>9 DEF Hard
  <2>4. /\ step' \in {"killed", "sleep"} /\ term' = term
        /\ UNCHANGED <<left, skew, slow, looked, waited, others, stop, faults>>
    BY <1>9 DEF Hard
  <2>5. hit' \in BOOLEAN
    BY <1>9 DEF Hard
  <2>6. (TimeSeen /\ WithinBudget)'
    BY <1>9, <2>4, Ticks DEF Hard, TimeSeen, WithinBudget
  <2> QED
    BY <2>1, <2>2, <2>3, <2>4, <2>5, <2>6 DEF Steps
<1>10. CASE Killed
  <2>1. child' \in ChildType
    BY <1>10 DEF Killed
  <2>2. outcome' \in OutcomeType
    BY <1>10, <1>o, <1>x DEF Killed
  <2>3. errors' \in ErrorsType /\ record' \in RecordType
    BY <1>10, <1>r DEF Killed, Statuses, Endings
  <2> QED
    BY <1>10, <2>1, <2>2, <2>3, Ticks, NoTermInt DEF Killed, Steps, TimeSeen, WithinBudget,
       Remaining
<1>11. CASE Sleep
  BY <1>11, Ticks, NoTermInt DEF Sleep, Clamp, Steps, TimeSeen, WithinBudget, Remaining
<1>12. CASE Finally
  <2>1. child' \in ChildType
    BY <1>12 DEF Finally
  <2>2. outcome' \in OutcomeType
    BY <1>12 DEF Finally
  <2>3. errors' \in ErrorsType /\ record' \in RecordType
    BY <1>12, <1>e, <1>r DEF Finally, Statuses, Endings
  <2> QED
    BY <1>12, <2>1, <2>2, <2>3, Ticks, NoTermInt DEF Finally, Steps, TimeSeen, WithinBudget,
       Remaining
<1>13. CASE Kill
  <2>1. child' \in ChildType
    BY <1>13, <1>c DEF Kill
  <2>2. outcome' \in OutcomeType
    BY <1>13 DEF Kill
  <2>3. errors' \in ErrorsType /\ record' \in RecordType
    BY <1>13 DEF Kill
  <2> QED
    BY <1>13, <2>1, <2>2, <2>3, Ticks, NoTermInt DEF Kill, Steps, TimeSeen, WithinBudget, Remaining
<1>14. CASE Reap
  <2>1. child' \in ChildType
    BY <1>14, <1>c DEF Reap, Waiting, Waited
  <2>2. outcome' \in OutcomeType
    BY <1>14 DEF Reap, Waiting, Waited
  <2>3. errors' \in ErrorsType /\ record' \in RecordType
    BY <1>14, <1>e DEF Reap, Waiting, Waited
  <2> QED
    BY <1>14, <2>1, <2>2, <2>3, Ticks, NoTermInt DEF Reap, Waiting, Waited, Steps, TimeSeen,
       WithinBudget, Remaining
<1>15. CASE Inhibitor
  <2>1. child' \in ChildType
    BY <1>15 DEF Inhibitor, Waiting, Waited
  <2>2. outcome' \in OutcomeType
    BY <1>15 DEF Inhibitor, Waiting, Waited
  <2>3. errors' \in ErrorsType /\ record' \in RecordType
    BY <1>15, <1>e DEF Inhibitor, Waiting, Waited
  <2> QED
    BY <1>15, <2>1, <2>2, <2>3, Ticks, NoTermInt DEF Inhibitor, Waiting, Waited, Steps, TimeSeen,
       WithinBudget, Remaining
<1>16. CASE Group
  <2>1. child' \in ChildType
    BY <1>16 DEF Group, Waiting, Waited, GroupExists
  <2>2. outcome' \in OutcomeType
    BY <1>16 DEF Group, Waiting, Waited, GroupExists
  <2>3. errors' \in ErrorsType /\ record' \in RecordType
    BY <1>16, <1>e DEF Group, Waiting, Waited, GroupExists
  <2> QED
    BY <1>16, <2>1, <2>2, <2>3, Ticks, NoTermInt DEF Group, Waiting, Waited, GroupExists, Steps,
       TimeSeen, WithinBudget, Remaining
<1>17. CASE Verdict
  BY <1>17, Ticks, NoTermInt, <1>o DEF Verdict, Steps, TimeSeen, WithinBudget, Remaining
<1>18. CASE Conclude
  <2>1. child' \in ChildType
    BY <1>18 DEF Conclude
  <2>2. outcome' \in OutcomeType
    BY <1>18 DEF Conclude
  <2>3. errors' \in ErrorsType /\ record' \in RecordType
    BY <1>18, <1>o, <1>r DEF Conclude, Statuses, Endings
  <2> QED
    BY <1>18, <2>1, <2>2, <2>3, Ticks, NoTermInt DEF Conclude, Steps, TimeSeen, WithinBudget,
       Remaining
<1>19. CASE ChildEnds
  <2>1. child' \in ChildType
    <3>1. PICK code \in IF child.state = "killed" THEN {-9} ELSE {0, 1} :
            child' = [child EXCEPT !.state = "ended", !.code = code]
      BY <1>19 DEF ChildEnds
    <3>2. code \in Int
      <4>1. CASE child.state = "killed"
        <5>1. code = -9
          BY <4>1
        <5> QED
          BY <5>1, NegativeInt
      <4>2. CASE child.state # "killed"
        BY <4>2
      <4> QED
        BY <4>1, <4>2
    <3> QED
      BY <1>c, <3>1, <3>2, ChildKept
  <2>2. outcome' \in OutcomeType
    BY <1>19 DEF ChildEnds
  <2>3. errors' \in ErrorsType /\ record' \in RecordType
    BY <1>19 DEF ChildEnds
  <2> QED
    BY <1>19, <2>1, <2>2, <2>3, Ticks, NoTermInt DEF ChildEnds, Steps, TimeSeen, WithinBudget,
       Remaining
<1>20. CASE OthersEnd
  BY <1>20, Ticks, NoTermInt DEF OthersEnd, Steps, TimeSeen, WithinBudget, Remaining
<1>21. CASE Slow
  BY <1>21, Ticks, NoTermInt DEF Slow, Ended, Steps, TimeSeen, WithinBudget, Remaining
<1>22. CASE Jump
  BY <1>22, Ticks, NoTermInt DEF Jump, Ended, Steps, TimeSeen, WithinBudget, Remaining
<1>23. CASE StopSignal
  BY <1>23, Ticks, NoTermInt DEF StopSignal, Handled, Steps, TimeSeen, WithinBudget, Remaining
<1>24. CASE Dies
  BY <1>24, Ticks, NoTermInt DEF Dies, Ended, Steps, TimeSeen, WithinBudget, Remaining
<1>25. CASE UNCHANGED supVars
  BY <1>25, Ticks, NoTermInt DEF supVars, Steps, TimeSeen, WithinBudget, Remaining
<1> QED
  BY <1>1, <1>2, <1>3, <1>4, <1>5, <1>6, <1>7, <1>8, <1>9, <1>10, <1>11, <1>12, <1>13,
     <1>14, <1>15, <1>16, <1>17, <1>18, <1>19, <1>20, <1>21, <1>22, <1>23, <1>24, <1>25
  DEF SupNext, Supervise

\* The waits of the loop and of the cleanup end before the deadline.
THEOREM WithinBudgetAlways == SupSpec => []WithinBudget
<1>1. SupInit => BudgetInv
  BY SupStart DEF VerdictInv
<1>2. BudgetInv => WithinBudget
  BY DEF BudgetInv
<1> QED
  BY <1>1, BudgetStep, <1>2, PTL DEF SupSpec

\* Every step of the supervisor, the child and the world keeps the account of
\* the exit code and of what is left of the group.
LEMMA VerdictStep == VerdictInv /\ [SupNext]_supVars => VerdictInv'
<1> SUFFICES ASSUME VerdictInv, [SupNext]_supVars
                   PROVE  (ChildInPlace /\ ExitTrue /\ EndTrue /\ VerdictIsTrue)'
  BY BudgetStep DEF VerdictInv
<1>a. SupTypeOK /\ SupTypeOK'
  BY BudgetStep DEF VerdictInv, BudgetInv
<1> USE <1>a, Ticks
    DEF VerdictInv, SupTypeOK, ChildType, OutcomeType, ErrorsType, RecordType,
        ChildInPlace, Looping, ExitTrue, Gone, EndTrue, VerdictIsTrue,
        Remaining, clock, world, signals, loop, Error, Failed, Put
<1>1. CASE Start
  BY <1>1 DEF Start
<1>2. CASE Identify
  BY <1>2 DEF Identify
<1>3. CASE Launch
  BY <1>3 DEF Launch
<1>4. CASE Running
  BY <1>4 DEF Running
<1>5. CASE Inhibit
  BY <1>5 DEF Inhibit
<1>6. CASE Poll
  BY <1>6 DEF Poll, ExitCode
<1>7. CASE Signal
  BY <1>7 DEF Signal
<1>8. CASE Signalled
  BY <1>8 DEF Signalled
<1>9. CASE Hard
  BY <1>9 DEF Hard
<1>10. CASE Killed
  BY <1>10 DEF Killed
<1>11. CASE Sleep
  BY <1>11 DEF Sleep, Clamp
<1>12. CASE Finally
  BY <1>12 DEF Finally
<1>13. CASE Kill
  <2>1. CASE child.state = "running"
    BY <1>13, <2>1 DEF Kill
  <2>2. CASE child.state # "running"
    BY <1>13, <2>2 DEF Kill
  <2> QED
    BY <2>1, <2>2
<1>14. CASE Reap
  BY <1>14 DEF Reap, Waiting, Waited
<1>15. CASE Inhibitor
  BY <1>15 DEF Inhibitor, Waiting, Waited
<1>16. CASE Group
  BY <1>16 DEF Group, Waiting, Waited, GroupExists
<1>17. CASE Verdict
  BY <1>17 DEF Verdict
<1>18. CASE Conclude
  BY <1>18 DEF Conclude
<1>19. CASE ChildEnds
  BY <1>19 DEF ChildEnds
<1>20. CASE OthersEnd
  BY <1>20 DEF OthersEnd
<1>21. CASE Slow
  BY <1>21 DEF Slow, Ended
<1>22. CASE Jump
  BY <1>22 DEF Jump, Ended
<1>23. CASE StopSignal
  BY <1>23 DEF StopSignal, Handled
<1>24. CASE Dies
  BY <1>24 DEF Dies, Ended
<1>25. CASE UNCHANGED supVars
  BY <1>25 DEF supVars
<1> QED
  BY <1>1, <1>2, <1>3, <1>4, <1>5, <1>6, <1>7, <1>8, <1>9, <1>10, <1>11, <1>12, <1>13,
     <1>14, <1>15, <1>16, <1>17, <1>18, <1>19, <1>20, <1>21, <1>22, <1>23, <1>24, <1>25
  DEF SupNext, Supervise

\* Whatever raced with the signals and the cleanup, exit code and final record
\* of the supervisor tell the truth (supervise, _cleanup).
THEOREM VerdictIsTrueAlways == SupSpec => []VerdictIsTrue
<1>1. VerdictInv => VerdictIsTrue
  BY DEF VerdictInv
<1> QED
  BY SupStart, VerdictStep, <1>1, PTL DEF SupSpec
-----------------------------------------------------------------------------
(* The work of a supervisor *)

\* The steps from a place of the supervisor to its end, if it does not wait and
\* the loop is not gone through again.
StepsAhead(s) ==
  CASE s = "start"               -> 17
    [] s = "identify"            -> 16
    [] s = "launch"              -> 15
    [] s = "running"             -> 14
    [] s = "inhibit"             -> 13
    [] s = "poll"                -> 12
    [] s = "signal"              -> 11
    [] s = "signalled"           -> 10
    [] s = "hard"                -> 9
    [] s \in {"killed", "sleep"} -> 8
    [] s = "finally"             -> 7
    [] s = "kill"                -> 6
    [] s = "reap"                -> 5
    [] s = "inhibitor"           -> 4
    [] s = "group"               -> 3
    [] s = "verdict"             -> 2
    [] s = "conclude"            -> 1
    [] OTHER                     -> 0

\* A tick is worth a turn of the loop, from "poll" to "sleep".
Work == 5 * (left + MaxSlow) + StepsAhead(step)

\* Every step of the supervisor is taken from its work, and no step adds to it.
WorkIsDone == Work' <= Work /\ (Supervise => Work' < Work)

\* The slow steps are so many.
Slowness == BudgetInv /\ slow <= MaxSlow

\* (its values)
LEMMA StepsAheadIs ==
  /\ StepsAhead("start") = 17 /\ StepsAhead("identify") = 16 /\ StepsAhead("launch") = 15
  /\ StepsAhead("running") = 14 /\ StepsAhead("inhibit") = 13 /\ StepsAhead("poll") = 12
  /\ StepsAhead("signal") = 11 /\ StepsAhead("signalled") = 10 /\ StepsAhead("hard") = 9
  /\ StepsAhead("killed") = 8 /\ StepsAhead("sleep") = 8 /\ StepsAhead("finally") = 7
  /\ StepsAhead("kill") = 6 /\ StepsAhead("reap") = 5 /\ StepsAhead("inhibitor") = 4
  /\ StepsAhead("group") = 3 /\ StepsAhead("verdict") = 2 /\ StepsAhead("conclude") = 1
  /\ StepsAhead("returned") = 0 /\ StepsAhead("raised") = 0 /\ StepsAhead("gone") = 0
BY DEF StepsAhead

\* (and their range)
LEMMA StepsAheadNat == \A s \in Steps : StepsAhead(s) \in Nat
BY DEF StepsAhead, Steps

\* Every step the supervisor takes is one of those that are left to it, and
\* nothing the child and the world do gives it more.
LEMMA WorkStep ==
  ASSUME BudgetInv, SupNext
  PROVE  WorkIsDone
<1> USE DEF Work, clock, world, signals, loop, Error, Failed, Put
<1>t. /\ left \in Int /\ looked \in Int /\ step \in Steps /\ StepsAhead(step) \in Nat
      /\ MaxSlow \in Nat /\ Second \in Nat \ {0} /\ KillAt \in Nat
  BY Ticks, StepsAheadNat DEF BudgetInv, SupTypeOK
<1>s. Supervise => Work' < Work
  <2>1. CASE Start
    BY <1>t, <2>1, StepsAheadIs DEF Start
  <2>2. CASE Identify
    BY <1>t, <2>2, StepsAheadIs DEF Identify
  <2>3. CASE Launch
    BY <1>t, <2>3, StepsAheadIs DEF Launch
  <2>4. CASE Running
    BY <1>t, <2>4, StepsAheadIs DEF Running
  <2>5. CASE Inhibit
    BY <1>t, <2>5, StepsAheadIs DEF Inhibit
  <2>6. CASE Poll
    BY <1>t, <2>6, StepsAheadIs DEF Poll
  <2>7. CASE Signal
    BY <1>t, <2>7, StepsAheadIs DEF Signal
  <2>8. CASE Signalled
    BY <1>t, <2>8, StepsAheadIs DEF Signalled
  <2>9. CASE Hard
    BY <1>t, <2>9, StepsAheadIs DEF Hard
  <2>10. CASE Killed
    BY <1>t, <2>10, StepsAheadIs DEF Killed
  <2>11. CASE Sleep
    BY <1>t, <2>11, StepsAheadIs DEF Sleep, Clamp
  <2>12. CASE Finally
    BY <1>t, <2>12, StepsAheadIs DEF Finally
  <2>13. CASE Kill
    BY <1>t, <2>13, StepsAheadIs DEF Kill
  <2>14. CASE Reap
    BY <1>t, <2>14, StepsAheadIs DEF Reap, Waiting
  <2>15. CASE Inhibitor
    BY <1>t, <2>15, StepsAheadIs DEF Inhibitor, Waiting
  <2>16. CASE Group
    BY <1>t, <2>16, StepsAheadIs DEF Group, Waiting
  <2>17. CASE Verdict
    BY <1>t, <2>17, StepsAheadIs DEF Verdict
  <2>18. CASE Conclude
    BY <1>t, <2>18, StepsAheadIs DEF Conclude
  <2> QED
    BY <2>1, <2>2, <2>3, <2>4, <2>5, <2>6, <2>7, <2>8, <2>9, <2>10, <2>11, <2>12, <2>13, <2>14,
       <2>15, <2>16, <2>17, <2>18
    DEF Supervise
<1>w. ChildEnds \/ OthersEnd \/ Slow \/ Jump \/ StopSignal \/ Dies => Work' <= Work
  <2>1. CASE ChildEnds \/ OthersEnd \/ Jump \/ StopSignal
    <3>1. left' = left /\ step' = step
      BY <2>1 DEF ChildEnds, OthersEnd, Jump, StopSignal
    <3> QED
      BY <1>t, <3>1
  <2>2. CASE Slow
    BY <1>t, <2>2 DEF Slow
  <2>3. CASE Dies
    BY <1>t, <2>3, StepsAheadIs DEF Dies
  <2> QED
    BY <2>1, <2>2, <2>3
<1>n. Work \in Int /\ Work' \in Int
  <2>1. left' \in Int /\ step' \in Steps
    BY BudgetStep DEF BudgetInv, SupTypeOK
  <2> QED
    BY <1>t, <2>1, StepsAheadNat
<1> QED
  BY <1>s, <1>w, <1>n DEF SupNext, WorkIsDone

\* A supervisor has only so much to do, whatever its child does: with a budget
\* of B ticks it takes at most 5 * (B + MaxSlow) + 17 steps, and waits and turns
\* of the loop are among them.
THEOREM WorkBoundedAlways == SupSpec => [](Work \in Nat) /\ [][WorkIsDone]_supVars
<1>1. SupInit => Slowness
  BY SupStart, Ticks DEF VerdictInv, Slowness, SupInit
<1>2. Slowness /\ [SupNext]_supVars => Slowness'
  <2> SUFFICES ASSUME Slowness, [SupNext]_supVars  PROVE Slowness'
    OBVIOUS
  <2>1. BudgetInv /\ BudgetInv'
    BY BudgetStep DEF Slowness
  <2>2. slow' = slow \/ (slow < MaxSlow /\ slow' = slow + 1)
    BY DEF SupNext, Supervise, supVars, Start, Identify, Launch, Running, Inhibit, Poll, Signal,
       Signalled, Hard, Killed, Sleep, Finally, Kill, Reap, Inhibitor, Group, Verdict, Conclude,
       Waiting, Failed, clock, ChildEnds, OthersEnd, Slow, Jump, StopSignal, Dies
  <2>3. slow \in Nat /\ MaxSlow \in Nat /\ slow <= MaxSlow
    BY <2>1, Ticks DEF Slowness, BudgetInv, SupTypeOK
  <2> QED
    BY <2>1, <2>2, <2>3 DEF Slowness
<1>3. Slowness => Work \in Nat
  <2> SUFFICES ASSUME Slowness  PROVE Work \in Nat
    OBVIOUS
  <2>1. /\ left \in Int /\ slow \in Nat /\ left >= 0 - slow /\ slow <= MaxSlow
        /\ StepsAhead(step) \in Nat /\ MaxSlow \in Nat
    BY Ticks, StepsAheadNat DEF Slowness, BudgetInv, SupTypeOK, WithinBudget
  <2> QED
    BY <2>1 DEF Work
<1>4. Slowness /\ [SupNext]_supVars => [WorkIsDone]_supVars
  BY WorkStep DEF Slowness
<1> QED
  BY <1>1, <1>2, <1>3, <1>4, PTL DEF SupSpec
-----------------------------------------------------------------------------
(* Market requests *)

Labels == {"idle", "check", "wait", "sent", "limited", "inspect", "chart", "write"}

Local == [job : {"none", "poll", "refresh", "full"}, stage : {"batch", "single"}, start : Nat,
          period : Nat, rows : SUBSET Int, limited : BOOLEAN, night : BOOLEAN]

\* The type of the calendar, the threads and the stored history; whether a
\* pause is on is all that is asked of its clock.
TypeOK ==
  /\ today \in Nat /\ today >= 2
  /\ place \in [Threads -> Labels]
  /\ task \in [Threads -> Local]
  /\ leaks \in [Threads -> Nat]

Limited(m) == m.job = "poll" /\ m.limited

\* Outside a pause nothing has leaked, and a thread that has sent a request
\* during one does not wait to send another.
Leaks ==
  /\ ~Paused => \A t \in Threads : leaks[t] = 0
  /\ \A t \in Threads : leaks[t] <= 1 /\ (leaks[t] = 1 => place[t] # "wait")

Polls == \A t \in Threads : Limited(task[t]) => place[t] = "limited"

\* A stored history is a run of days up to one that is over.
Whole == history = {} \/ \E a, b \in Nat : 1 <= a /\ a <= b /\ b <= today /\ history = a..b

\* An incremental refresh begins by today, and at the latest on the day after the
\* last stored one: no table that is written meanwhile ends more than a day ago.
\* After a weekend that is all there is: it begins on the last stored day itself,
\* and a full refresh from the day before may have taken that day away again.
Starts ==
  \A t \in Threads : task[t].start > 0 =>
    task[t].start <= today /\ \E d \in history : task[t].start <= d + 1

\* Downloaded rows end today, or yesterday if the day has changed since; those of
\* an incremental refresh begin at its start.
Rows ==
  \A t \in Threads : place[t] = "write" =>
    \E a, b \in Nat :
      /\ 1 <= a /\ a <= b /\ task[t].rows = a..b
      /\ b = today \/ (task[t].night /\ b + 1 = today)
      /\ task[t].start > 0 => a = task[t].start

MInv == TypeOK /\ Leaks /\ Polls /\ Whole /\ Starts /\ Rows
-----------------------------------------------------------------------------
\* The last and the first day of a run of days.
LEMMA Ends ==
  ASSUME NEW a \in Int, NEW b \in Int, a <= b
  PROVE  Max(a..b) = b /\ Min(a..b) = a
<1>1. /\ b \in a..b /\ \A y \in a..b : b >= y
      /\ a \in a..b /\ \A y \in a..b : a <= y
  OBVIOUS
<1>2. Max(a..b) \in a..b /\ \A y \in a..b : Max(a..b) >= y
  BY <1>1 DEF Max
<1>3. Min(a..b) \in a..b /\ \A y \in a..b : Min(a..b) <= y
  BY <1>1 DEF Min
<1> QED
  BY <1>1, <1>2, <1>3

\* The larger of two days.
LEMMA Later ==
  ASSUME NEW a \in Int, NEW b \in Int
  PROVE  Max({a, b}) = IF a < b THEN b ELSE a
<1> DEFINE m == IF a < b THEN b ELSE a
<1>1. m \in {a, b} /\ \A y \in {a, b} : m >= y
  OBVIOUS
<1>2. Max({a, b}) \in {a, b} /\ \A y \in {a, b} : Max({a, b}) >= y
  BY <1>1 DEF Max
<1> QED
  BY <1>2

\* What a download from a start, or of a period, brings: a run of days to today.
LEMMA DownloadedDays ==
  ASSUME TypeOK, NEW m \in Local, NEW p, m.start > 0 => m.start <= today
  PROVE  \E a \in Nat : /\ 1 <= a /\ a <= today /\ Downloaded(m, p) = a..today
                        /\ m.start > 0 => a = m.start
<1>1. m.start \in Nat /\ today \in Nat /\ today >= 2
  BY DEF TypeOK, Local
<1>2. CASE m.start > 0
  BY <1>1, <1>2 DEF Downloaded
<1>3. CASE ~(m.start > 0) /\ p = 1
  BY <1>1, <1>3 DEF Downloaded
<1>4. CASE ~(m.start > 0) /\ p # 1
  <2>1. Downloaded(m, p) = today..today
    BY <1>1, <1>4 DEF Downloaded
  <2> QED
    BY <1>1, <1>4, <2>1
<1> QED
  BY <1>2, <1>3, <1>4

\* A request that brought no data sends its caller back to ask again, to the
\* pause, to another source or home, and never to write.
LEMMA FailedTo ==
  ASSUME TypeOK, NEW t \in Threads, NEW limited \in BOOLEAN, DownloadFailed(t, limited)
  PROVE  \E l \in {"limited", "check", "idle", "chart"}, m \in Local :
           /\ Keep(t, l, m)
           /\ m.start = task[t].start \/ m.start = 0
           /\ Limited(m) => l = "limited"
<1> DEFINE n == [task[t] EXCEPT !.limited = limited]
<1>1. /\ task[t] \in Local /\ task[t].period \in Nat
      /\ n \in Local /\ n.start = task[t].start /\ n.limited = limited
      /\ n.period = task[t].period
  BY DEF TypeOK, Local
<1> HIDE DEF n
<1>2. [n EXCEPT !.stage = "single"] \in Local /\ [n EXCEPT !.period = @ + 1] \in Local
  BY <1>1 DEF Local
<1>3. /\ [n EXCEPT !.stage = "single"].start = task[t].start
      /\ [n EXCEPT !.stage = "single"].limited = limited
      /\ [n EXCEPT !.period = @ + 1].start = task[t].start
      /\ [n EXCEPT !.period = @ + 1].job = n.job
  BY <1>1 DEF Local
<1>4. Blank \in Local /\ Blank.start = 0 /\ ~Limited(Blank)
  BY DEF Blank, Local, Limited
<1>5. \/ n.job = "poll" /\ limited /\ Keep(t, "limited", n)
      \/ ~limited /\ Keep(t, "check", [n EXCEPT !.stage = "single"])
      \/ Done(t)
      \/ n.job # "poll" /\ Keep(t, "check", [n EXCEPT !.period = @ + 1])
      \/ ~(n.job = "poll" /\ limited) /\ Keep(t, "chart", n)
  BY DEF DownloadFailed, n
<1>6. CASE n.job = "poll" /\ limited /\ Keep(t, "limited", n)
  BY <1>1, <1>6
<1>7. CASE ~limited /\ Keep(t, "check", [n EXCEPT !.stage = "single"])
  BY <1>1, <1>2, <1>3, <1>7 DEF Limited
<1>8. CASE Done(t)
  BY <1>4, <1>8 DEF Done
<1>9. CASE n.job # "poll" /\ Keep(t, "check", [n EXCEPT !.period = @ + 1])
  BY <1>1, <1>2, <1>3, <1>9 DEF Limited
<1>10. CASE ~(n.job = "poll" /\ limited) /\ Keep(t, "chart", n)
  BY <1>1, <1>10 DEF Limited
<1> QED
  BY <1>5, <1>6, <1>7, <1>8, <1>9, <1>10

-----------------------------------------------------------------------------
Days == Whole /\ Starts /\ Rows

\* A thread that keeps its start, or forgets it, and does not go to write.
LEMMA KeepsDays ==
  ASSUME TypeOK, Days, NEW t \in Threads, NEW l \in Labels \ {"write"}, NEW m \in Local,
         Keep(t, l, m), today' = today, history' = history,
         m.start = task[t].start \/ m.start = 0
  PROVE  Days'
<1>1. /\ place' = [place EXCEPT ![t] = l] /\ task' = [task EXCEPT ![t] = m]
  BY DEF Keep, Go
<1>2. /\ place'[t] = l /\ task'[t] = m
      /\ \A u \in Threads : u # t => place'[u] = place[u] /\ task'[u] = task[u]
  BY <1>1 DEF TypeOK
<1>3. Whole'
  BY DEF Days, Whole
<1>4. Starts'
  BY <1>2 DEF Days, Starts
<1>5. Rows'
  BY <1>2 DEF Days, Rows
<1> QED
  BY <1>3, <1>4, <1>5 DEF Days

\* A thread goes to write the rows it has just downloaded.
LEMMA WritesDays ==
  ASSUME TypeOK, Days, NEW t \in Threads, NEW m \in Local, Keep(t, "write", m),
         today' = today, history' = history, m.start = task[t].start,
         NEW a \in Nat, 1 <= a, a <= today, m.rows = a..today, m.start > 0 => a = m.start
  PROVE  Days'
<1>1. /\ place' = [place EXCEPT ![t] = "write"] /\ task' = [task EXCEPT ![t] = m]
  BY DEF Keep, Go
<1>2. /\ place'[t] = "write" /\ task'[t] = m
      /\ \A u \in Threads : u # t => place'[u] = place[u] /\ task'[u] = task[u]
  BY <1>1 DEF TypeOK
<1>3. Whole'
  BY DEF Days, Whole
<1>4. Starts'
  BY <1>2 DEF Days, Starts
<1>5. Rows'
  <2>1. today \in Nat
    BY DEF TypeOK
  <2>2. ASSUME NEW u \in Threads, place'[u] = "write", u # t
        PROVE  \E x, y \in Nat :
                 /\ 1 <= x /\ x <= y /\ task'[u].rows = x..y
                 /\ y = today' \/ (task'[u].night /\ y + 1 = today')
                 /\ task'[u].start > 0 => x = task'[u].start
    BY <1>2, <2>2 DEF Days, Rows
  <2>3. \E x, y \in Nat :
          /\ 1 <= x /\ x <= y /\ task'[t].rows = x..y
          /\ y = today' \/ (task'[t].night /\ y + 1 = today')
          /\ task'[t].start > 0 => x = task'[t].start
    BY <1>2, <2>1
  <2> QED
    BY <2>2, <2>3 DEF Rows
<1> QED
  BY <1>3, <1>4, <1>5 DEF Days

\* A thread has written and is done; the stored history is a run of days that
\* ends today or yesterday, or has only grown.
LEMMA StoredDays ==
  ASSUME TypeOK, Days, NEW t \in Threads, Done(t), today' = today,
         NEW a \in Nat, NEW b \in Nat, 1 <= a, a <= b, b <= today, history' = a..b,
         today <= b + 1 \/ history \subseteq history'
  PROVE  Days'
<1>1. /\ place' = [place EXCEPT ![t] = "idle"] /\ task' = [task EXCEPT ![t] = Blank]
  BY DEF Done, Keep, Go
<1>2. /\ place'[t] = "idle" /\ task'[t] = Blank /\ Blank.start = 0
      /\ \A u \in Threads : u # t => place'[u] = place[u] /\ task'[u] = task[u]
  BY <1>1 DEF TypeOK, Blank
<1>3. Whole'
  BY DEF Whole
<1>4. Starts'
  <2> SUFFICES ASSUME NEW u \in Threads, task'[u].start > 0
               PROVE  task'[u].start <= today' /\ \E d \in history' : task'[u].start <= d + 1
    BY DEF Starts
  <2>1. /\ task'[u] = task[u] /\ task[u].start \in Nat /\ today \in Nat
        /\ task[u].start <= today /\ \E d \in history : task[u].start <= d + 1
    BY <1>2 DEF Days, Starts, TypeOK, Local
  <2>2. CASE today <= b + 1
    <3>1. b \in history' /\ task[u].start <= b + 1
      BY <2>1, <2>2
    <3> QED
      BY <2>1, <3>1
  <2>3. CASE history \subseteq history'
    BY <2>1, <2>3
  <2> QED
    BY <2>2, <2>3
<1>5. Rows'
  BY <1>2 DEF Days, Rows
<1> QED
  BY <1>3, <1>4, <1>5 DEF Days

\* Rows that are downloaded keep the other locals.
LEMMA RowsTaken ==
  ASSUME TypeOK, Days, NEW t \in Threads, NEW p
  PROVE  LET m == [task[t] EXCEPT !.rows = Downloaded(task[t], p)]
         IN  /\ m \in Local /\ m.start = task[t].start /\ m.job = task[t].job
             /\ m.limited = task[t].limited
             /\ \E a \in Nat : /\ 1 <= a /\ a <= today /\ m.rows = a..today
                               /\ m.start > 0 => a = m.start
<1>1. task[t] \in Local
  BY DEF TypeOK
<1>2. PICK a \in Nat : /\ 1 <= a /\ a <= today /\ Downloaded(task[t], p) = a..today
                       /\ task[t].start > 0 => a = task[t].start
  BY <1>1, DownloadedDays DEF Days, Starts
<1>3. Downloaded(task[t], p) \in SUBSET Int
  BY <1>2 DEF TypeOK
<1> DEFINE m == [task[t] EXCEPT !.rows = Downloaded(task[t], p)]
<1>4. /\ m \in Local /\ m.start = task[t].start /\ m.job = task[t].job
      /\ m.limited = task[t].limited /\ m.rows = Downloaded(task[t], p)
  BY <1>1, <1>3 DEF Local
<1> QED
  BY <1>2, <1>4

\* The local state that each action may leave.
LEMMA Locals ==
  ASSUME NEW m \in Local, NEW n \in Nat
  PROVE  /\ Blank \in Local /\ Blank.start = 0 /\ Blank.job = "none"
         /\ \A j \in {"poll", "refresh", "full"} :
              /\ [Blank EXCEPT !.job = j] \in Local /\ [Blank EXCEPT !.job = j].start = 0
              /\ ~[Blank EXCEPT !.job = j].limited
         /\ [m EXCEPT !.start = n] \in Local
         /\ [m EXCEPT !.start = n].start = n /\ [m EXCEPT !.start = n].job = m.job
         /\ [m EXCEPT !.start = n].limited = m.limited
         /\ [m EXCEPT !.stage = "single"] \in Local
         /\ [m EXCEPT !.stage = "single"].start = m.start
         /\ [m EXCEPT !.stage = "single"].limited = m.limited
BY DEF Blank, Local

\* A thread that only goes on leaves the locals of its thread.
LEMMA GoKeeps ==
  ASSUME TypeOK, NEW t \in Threads, NEW l, Go(t, l), task' = task
  PROVE  Keep(t, l, task[t]) /\ task[t] \in Local
BY DEF TypeOK, Keep

\* Where an incremental refresh begins: a calendar day before the last day it has.
LEMMA InspectFrom ==
  ASSUME TypeOK, Days
  PROVE  LET first == IF history = {} THEN 0 ELSE Since(Max(history))
         IN  first \in Nat /\ (first > 0 => first <= today /\ \E d \in history : first <= d + 1)
<1> DEFINE first == IF history = {} THEN 0 ELSE Since(Max(history))
<1>1. CASE history = {}
  BY <1>1
<1>2. CASE history # {}
  <2>1. PICK a, b \in Nat : 1 <= a /\ a <= b /\ b <= today /\ history = a..b
    BY <1>2 DEF Days, Whole
  <2>2. Max(history) = b
    BY <2>1, Ends
  <2>3. Max({1, b - 1}) = IF 1 < b - 1 THEN b - 1 ELSE 1
    <3>1. 1 \in Int /\ b - 1 \in Int
      BY <2>1
    <3> QED
      BY <3>1, Later
  <2>4. first \in {b, Max({1, b - 1})}
    BY <1>2, <2>2 DEF Since
  <2>5. today \in Nat /\ b \in history
    BY <2>1 DEF TypeOK
  <2> HIDE DEF first
  <2>6. first \in Nat /\ first <= today /\ first <= b + 1
    BY <2>1, <2>3, <2>4, <2>5
  <2> QED
    BY <2>5, <2>6 DEF first
<1> QED
  BY <1>1, <1>2

\* The days stay in order through every step.
LEMMA DaysStep == TypeOK /\ Days /\ [MarketNext]_marketVars => Days'
<1> SUFFICES ASSUME TypeOK, Days, [MarketNext]_marketVars PROVE Days'
  OBVIOUS
<1>0. {"idle", "check", "wait", "sent", "limited", "inspect", "chart"} = Labels \ {"write"}
  BY DEF Labels
<1>1. ASSUME NEW t \in Threads, NEW limited \in BOOLEAN, DownloadFailed(t, limited),
             today' = today, history' = history
      PROVE  Days'
  <2>1. PICK l \in {"limited", "check", "idle", "chart"} : \E m \in Local :
           /\ Keep(t, l, m)
           /\ m.start = task[t].start \/ m.start = 0
    BY <1>1, FailedTo
  <2> QED
    BY <1>0, <1>1, <2>1, KeepsDays
<1>2. ASSUME NEW t \in Threads, Done(t), today' = today, history' = history PROVE Days'
  <2>1. Blank \in Local /\ Blank.start = 0
    BY DEF Blank, Local
  <2> QED
    BY <1>0, <1>2, <2>1, KeepsDays DEF Done
<1>3. ASSUME NEW t \in Threads, NEW l \in Labels \ {"write"}, Go(t, l), task' = task,
             today' = today, history' = history
      PROVE  Days'
  BY <1>3, GoKeeps, KeepsDays
<1>4. ASSUME NEW t \in Threads, NEW p,
             Keep(t, "write", [task[t] EXCEPT !.rows = Downloaded(task[t], p)]),
             today' = today, history' = history
      PROVE  Days'
  <2> DEFINE m == [task[t] EXCEPT !.rows = Downloaded(task[t], p)]
  <2>1. PICK a \in Nat : /\ m \in Local /\ m.start = task[t].start
                         /\ 1 <= a /\ a <= today /\ m.rows = a..today
                         /\ m.start > 0 => a = m.start
    BY RowsTaken
  <2>2. Keep(t, "write", m)
    BY <1>4
  <2> HIDE DEF m
  <2> QED
    BY <1>4, <2>1, <2>2, WritesDays
<1>5. ASSUME NEW t \in Threads, Call(t) PROVE Days'
  <2>1. /\ today' = today /\ history' = history
        /\ \E l \in {"check", "inspect"}, j \in {"poll", "refresh", "full"} :
             Keep(t, l, [Blank EXCEPT !.job = j])
    BY <1>5 DEF Call
  <2>2. PICK l \in {"check", "inspect"}, j \in {"poll", "refresh", "full"} :
           Keep(t, l, [Blank EXCEPT !.job = j])
    BY <2>1
  <2>3. [Blank EXCEPT !.job = j] \in Local /\ [Blank EXCEPT !.job = j].start = 0
    BY DEF Blank, Local
  <2> QED
    BY <1>0, <2>1, <2>2, <2>3, KeepsDays
<1>6. ASSUME NEW t \in Threads, Check(t) PROVE Days'
  BY <1>0, <1>1, <1>3, <1>6 DEF Check
<1>7. ASSUME NEW t \in Threads, Send(t) PROVE Days'
  BY <1>0, <1>3, <1>7 DEF Send
<1>8. ASSUME NEW t \in Threads, Answer(t) PROVE Days'
  <2>1. today' = today /\ history' = history
    BY <1>8 DEF Answer
  <2>2. CASE Keep(t, "check", [task[t] EXCEPT !.stage = "single"])
    <3> DEFINE m == [task[t] EXCEPT !.stage = "single"]
    <3>1. m \in Local /\ m.start = task[t].start
      BY DEF TypeOK, Local
    <3>2. Keep(t, "check", m)
      BY <2>2
    <3> HIDE DEF m
    <3> QED
      BY <1>0, <2>1, <3>1, <3>2, KeepsDays
  <2> QED
    BY <1>1, <1>2, <1>4, <1>8, <2>1, <2>2 DEF Answer
<1>9. ASSUME NEW t \in Threads, HandleLimit(t) PROVE Days'
  BY <1>2, <1>9 DEF HandleLimit
<1>10. ASSUME NEW t \in Threads, Inspect(t) PROVE Days'
  <2> DEFINE first == IF history = {} THEN 0 ELSE Since(Max(history))
  <2>1. /\ today' = today /\ history' = history /\ place[t] = "inspect"
        /\ Keep(t, "check", [task[t] EXCEPT !.start = first])
    BY <1>10 DEF Inspect
  <2>2. first \in Nat /\ (first > 0 => first <= today /\ \E d \in history : first <= d + 1)
    BY InspectFrom
  <2> HIDE DEF first
  <2>3. task[t] \in Local
    BY DEF TypeOK
  <2> DEFINE m == [task[t] EXCEPT !.start = first]
  <2>4. m \in Local /\ m.start = first
    BY <2>2, <2>3 DEF Local
  <2>5. Keep(t, "check", m)
    BY <2>1
  <2> HIDE DEF m
  <2>6. /\ place'[t] = "check" /\ task'[t] = m
        /\ \A u \in Threads : u # t => place'[u] = place[u] /\ task'[u] = task[u]
    BY <2>5 DEF Keep, Go, TypeOK
  <2>7. Whole'
    BY <2>1 DEF Days, Whole
  <2>8. Starts'
    BY <2>1, <2>2, <2>4, <2>6 DEF Days, Starts
  <2>9. Rows'
    BY <2>1, <2>6 DEF Days, Rows
  <2> QED
    BY <2>7, <2>8, <2>9 DEF Days
<1>11. ASSUME NEW t \in Threads, Chart(t) PROVE Days'
  <2>1. today' = today /\ history' = history
    BY <1>11 DEF Chart
  <2>2. CASE Keep(t, "check", [task[t] EXCEPT !.start = 0])
    <3> DEFINE m == [task[t] EXCEPT !.start = 0]
    <3>1. m \in Local /\ m.start = 0
      BY DEF TypeOK, Local
    <3>2. Keep(t, "check", m)
      BY <2>2
    <3> HIDE DEF m
    <3> QED
      BY <1>0, <2>1, <3>1, <3>2, KeepsDays
  <2> QED
    BY <1>2, <1>4, <1>11, <2>1, <2>2 DEF Chart
<1>12. ASSUME NEW t \in Threads, MergeDays(t) PROVE Days'
  <2>1. /\ place[t] = "write" /\ task[t].start > 0 /\ today' = today /\ Done(t)
        /\ history' = IF Max(task[t].rows) <= Max(history) THEN history
                      ELSE history \union task[t].rows
    BY <1>12 DEF MergeDays
  <2>2. PICK s, b \in Nat : /\ 1 <= s /\ s <= b /\ task[t].rows = s..b
                            /\ b = today \/ (task[t].night /\ b + 1 = today)
                            /\ s = task[t].start
    BY <2>1 DEF Days, Rows
  <2>3. today \in Nat /\ b <= today
    BY <2>2 DEF TypeOK
  <2>4. PICK d \in history : s <= d + 1
    BY <2>1, <2>2 DEF Days, Starts
  <2>5. PICK a, h \in Nat : 1 <= a /\ a <= h /\ h <= today /\ history = a..h
    BY <2>4 DEF Days, Whole
  <2>6. Max(task[t].rows) = b /\ Max(history) = h
    <3>1. Max(s..b) = b
      BY <2>2, Ends
    <3>2. Max(a..h) = h
      BY <2>5, Ends
    <3> QED
      BY <2>2, <2>5, <3>1, <3>2
  <2>7. CASE b <= h
    <3>1. history' = a..h
      BY <2>1, <2>5, <2>6, <2>7
    <3> QED
      BY <2>1, <2>5, <3>1, StoredDays
  <2>8. CASE ~(b <= h)
    <3>1. s \in Nat /\ b \in Nat /\ a \in Nat /\ h \in Nat /\ a <= h /\ s <= h + 1 /\ h < b
      BY <2>2, <2>4, <2>5, <2>8
    <3>2. history' = (a..h) \union (s..b)
      BY <2>1, <2>2, <2>5, <2>6, <2>8
    <3> DEFINE first == IF a < s THEN a ELSE s
    <3>3. (a..h) \union (s..b) = first..b
      BY <3>1
    <3>4. 1 <= first /\ first <= b /\ history' = first..b /\ history \subseteq history'
      BY <2>2, <2>5, <3>1, <3>2, <3>3
    <3>5. first \in Nat
      BY <3>1
    <3> HIDE DEF first
    <3> QED
      BY <2>1, <2>3, <3>4, <3>5, StoredDays
  <2> QED
    BY <2>7, <2>8
<1>13. ASSUME NEW t \in Threads, ReplaceDays(t) PROVE Days'
  <2>1. place[t] = "write" /\ today' = today /\ Done(t) /\ history' = task[t].rows
    BY <1>13 DEF ReplaceDays
  <2>2. PICK a, b \in Nat : /\ 1 <= a /\ a <= b /\ task[t].rows = a..b
                            /\ b = today \/ (task[t].night /\ b + 1 = today)
    BY <2>1 DEF Days, Rows
  <2>3. b <= today /\ today <= b + 1
    BY <2>2 DEF TypeOK
  <2> QED
    BY <2>1, <2>2, <2>3, StoredDays
<1>14. ASSUME Tick \/ UNCHANGED marketVars PROVE Days'
  <2>1. UNCHANGED <<today, place, task, history>>
    BY <1>14 DEF Tick, marketVars
  <2> QED
    BY <2>1 DEF Days, Whole, Starts, Rows
<1>15. CASE NewDay
  <2>1. /\ today' = today + 1 /\ today \in Nat /\ place' = place /\ history' = history
        /\ \A t \in Threads : ~task[t].night
    BY <1>15 DEF NewDay, TypeOK
  <2>2. ASSUME NEW t \in Threads
        PROVE  /\ task'[t].start = task[t].start /\ task'[t].rows = task[t].rows
               /\ task[t].start \in Nat
               /\ place[t] # "idle" => task'[t].night
    <3>1. task[t] \in Local /\ task'[t] = [task[t] EXCEPT !.night = place[t] # "idle"]
      BY <1>15 DEF NewDay, TypeOK
    <3> QED
      BY <3>1 DEF Local
  <2>3. Whole'
    BY <2>1 DEF Days, Whole
  <2>4. Starts'
    BY <2>1, <2>2 DEF Days, Starts
  <2>5. Rows'
    <3> SUFFICES ASSUME NEW t \in Threads, place[t] = "write"
                 PROVE  \E a, b \in Nat :
                          /\ 1 <= a /\ a <= b /\ task'[t].rows = a..b
                          /\ b = today' \/ (task'[t].night /\ b + 1 = today')
                          /\ task'[t].start > 0 => a = task'[t].start
      BY <2>1 DEF Rows
    <3>1. PICK a, b \in Nat : /\ 1 <= a /\ a <= b /\ task[t].rows = a..b
                              /\ b = today
                              /\ task[t].start > 0 => a = task[t].start
      BY <2>1 DEF Days, Rows
    <3> QED
      BY <2>1, <2>2, <3>1
  <2> QED
    BY <2>3, <2>4, <2>5 DEF Days
<1> QED
  BY <1>5, <1>6, <1>7, <1>8, <1>9, <1>10, <1>11, <1>12, <1>13, <1>14, <1>15 DEF MarketNext
-----------------------------------------------------------------------------
\* What a step of a thread does to it: only a check outside a pause lets it wait
\* to send, and a poll that was limited goes to say so.
LEMMA ThreadMoves ==
  ASSUME TypeOK, Polls, Days, NEW t \in Threads,
         \/ Call(t) \/ Check(t) \/ Send(t) \/ Answer(t) \/ HandleLimit(t)
         \/ Inspect(t) \/ Chart(t) \/ MergeDays(t) \/ ReplaceDays(t)
  PROVE  /\ today' = today /\ now' = now
         /\ \E l \in Labels, m \in Local :
              /\ Keep(t, l, m)
              /\ Limited(m) => l = "limited"
              /\ l = "wait" => ~Paused /\ UNCHANGED <<pause, leaks>>
<1> DEFINE Moved == \E l \in Labels, m \in Local :
             /\ Keep(t, l, m)
             /\ Limited(m) => l = "limited"
             /\ l = "wait" => ~Paused /\ UNCHANGED <<pause, leaks>>
<1>0. task[t] \in Local /\ (Limited(task[t]) => place[t] = "limited")
  BY DEF TypeOK, Polls
<1>1. ASSUME NEW limited \in BOOLEAN, DownloadFailed(t, limited) PROVE Moved
  <2>1. PICK l \in {"limited", "check", "idle", "chart"}, m \in Local :
          Keep(t, l, m) /\ (Limited(m) => l = "limited")
    BY <1>1, FailedTo
  <2>2. l \in Labels /\ l # "wait"
    BY DEF Labels
  <2> QED
    BY <2>1, <2>2
<1>2. ASSUME NEW l \in Labels \ {"wait"}, NEW m \in Local, Keep(t, l, m), ~Limited(m)
      PROVE  Moved
  BY <1>2
<1>3. Blank \in Local /\ ~Limited(Blank) /\ {"idle", "check", "inspect", "write"} \subseteq Labels \ {"wait"}
  BY DEF Blank, Local, Limited, Labels
<1>4. ASSUME Done(t) PROVE Moved
  BY <1>2, <1>3, <1>4 DEF Done
<1>5. ASSUME NEW p, place[t] # "limited",
             Keep(t, "write", [task[t] EXCEPT !.rows = Downloaded(task[t], p)])
      PROVE  Moved
  <2> DEFINE m == [task[t] EXCEPT !.rows = Downloaded(task[t], p)]
  <2>1. m \in Local /\ m.job = task[t].job /\ m.limited = task[t].limited
    BY RowsTaken
  <2>2. Keep(t, "write", m)
    BY <1>5
  <2> HIDE DEF m
  <2>3. ~Limited(m)
    BY <1>0, <1>5, <2>1 DEF Limited
  <2> QED
    BY <1>2, <1>3, <2>1, <2>2, <2>3
<1>6. CASE Call(t)
  <2>1. PICK l \in {"check", "inspect"}, j \in {"poll", "refresh", "full"} :
          Keep(t, l, [Blank EXCEPT !.job = j])
    BY <1>6 DEF Call
  <2>2. [Blank EXCEPT !.job = j] \in Local /\ ~Limited([Blank EXCEPT !.job = j])
    BY DEF Blank, Local, Limited
  <2>3. today' = today /\ now' = now
    BY <1>6 DEF Call
  <2> QED
    BY <1>2, <1>3, <2>1, <2>2, <2>3
<1>7. CASE Check(t)
  <2>1. CASE DownloadFailed(t, TRUE)
    BY <1>1, <1>7, <2>1 DEF Check
  <2>2. CASE ~Paused /\ Go(t, "wait") /\ UNCHANGED task
    <3>1. Keep(t, "wait", task[t]) /\ place[t] = "check" /\ UNCHANGED <<pause, leaks>>
      BY <1>7, <2>2, GoKeeps DEF Check
    <3>2. "wait" \in Labels
      BY DEF Labels
    <3> QED
      BY <1>0, <1>7, <2>2, <3>1, <3>2 DEF Check
  <2> QED
    BY <1>7, <2>1, <2>2 DEF Check
<1>8. CASE Send(t)
  <2>1. Keep(t, "sent", task[t]) /\ place[t] = "wait" /\ "sent" \in Labels \ {"wait"}
    BY <1>8, GoKeeps DEF Send, Labels
  <2> QED
    BY <1>0, <1>2, <1>8, <2>1 DEF Send
<1>9. CASE Answer(t)
  <2>1. today' = today /\ now' = now /\ place[t] = "sent"
    BY <1>9 DEF Answer
  <2>2. CASE Keep(t, "check", [task[t] EXCEPT !.stage = "single"])
    <3> DEFINE m == [task[t] EXCEPT !.stage = "single"]
    <3>1. m \in Local /\ m.job = task[t].job /\ m.limited = task[t].limited
      BY <1>0 DEF Local
    <3>2. Keep(t, "check", m)
      BY <2>2
    <3> HIDE DEF m
    <3>3. ~Limited(m)
      BY <1>0, <2>1, <3>1 DEF Limited
    <3> QED
      BY <1>2, <1>3, <2>1, <3>1, <3>2, <3>3
  <2> QED
    BY <1>1, <1>4, <1>5, <1>9, <2>1, <2>2 DEF Answer
<1>10. CASE HandleLimit(t)
  BY <1>4, <1>10 DEF HandleLimit
<1>11. CASE Inspect(t)
  <2> DEFINE first == IF history = {} THEN 0 ELSE Since(Max(history))
             m == [task[t] EXCEPT !.start = first]
  <2>1. today' = today /\ now' = now /\ place[t] = "inspect" /\ Keep(t, "check", m)
    BY <1>11 DEF Inspect
  <2>2. first \in Nat
    BY InspectFrom
  <2> HIDE DEF first
  <2>3. m \in Local /\ m.job = task[t].job /\ m.limited = task[t].limited
    BY <1>0, <2>2 DEF Local
  <2> HIDE DEF m
  <2>4. ~Limited(m)
    BY <1>0, <2>1, <2>3 DEF Limited
  <2> QED
    BY <1>2, <1>3, <2>1, <2>3, <2>4
<1>12. CASE Chart(t)
  <2>1. today' = today /\ now' = now /\ place[t] = "chart"
    BY <1>12 DEF Chart
  <2>2. CASE Keep(t, "check", [task[t] EXCEPT !.start = 0])
    <3> DEFINE m == [task[t] EXCEPT !.start = 0]
    <3>1. m \in Local /\ m.job = task[t].job /\ m.limited = task[t].limited
      BY <1>0 DEF Local
    <3>2. Keep(t, "check", m)
      BY <2>2
    <3> HIDE DEF m
    <3>3. ~Limited(m)
      BY <1>0, <2>1, <3>1 DEF Limited
    <3> QED
      BY <1>2, <1>3, <2>1, <3>1, <3>2, <3>3
  <2> QED
    BY <1>4, <1>5, <1>12, <2>1, <2>2 DEF Chart
<1>13. CASE MergeDays(t)
  BY <1>4, <1>13 DEF MergeDays
<1>14. CASE ReplaceDays(t)
  BY <1>4, <1>14 DEF ReplaceDays
<1> QED
  BY <1>6, <1>7, <1>8, <1>9, <1>10, <1>11, <1>12, <1>13, <1>14

\* What a step of a thread does to the requests counted in this pause: only a
\* thread that waits sends one, and a pause that begins finds none.
LEMMA CountMoves ==
  ASSUME TypeOK, NEW t \in Threads,
         \/ Call(t) \/ Check(t) \/ Send(t) \/ Answer(t) \/ HandleLimit(t)
         \/ Inspect(t) \/ Chart(t) \/ MergeDays(t) \/ ReplaceDays(t)
  PROVE  \/ UNCHANGED <<pause, leaks>>
         \/ /\ pause' = pause /\ place[t] = "wait" /\ place'[t] = "sent"
            /\ leaks' = [leaks EXCEPT ![t] = IF Paused THEN @ + 1 ELSE @]
         \/ leaks' = [u \in Threads |-> 0]
         \/ pause' = Activated /\ leaks' = leaks
<1>1. Send(t) => /\ pause' = pause /\ place[t] = "wait" /\ place'[t] = "sent"
                 /\ leaks' = [leaks EXCEPT ![t] = IF Paused THEN @ + 1 ELSE @]
  BY DEF Send, Go, TypeOK
<1>2. Answer(t) => \/ UNCHANGED <<pause, leaks>>
                   \/ leaks' = [u \in Threads |-> 0]
                   \/ pause' = Activated /\ leaks' = leaks
  BY DEF Answer
<1>3. HandleLimit(t) => pause' = Activated /\ leaks' = leaks
  BY DEF HandleLimit
<1>4. ASSUME \/ Call(t) \/ Check(t) \/ Inspect(t) \/ Chart(t) \/ MergeDays(t) \/ ReplaceDays(t)
      PROVE  UNCHANGED <<pause, leaks>>
  BY <1>4 DEF Call, Check, Inspect, Chart, MergeDays, ReplaceDays
<1> QED
  BY <1>1, <1>2, <1>3, <1>4

\* Every step keeps the types, the count of the pause and the limited polls.
LEMMA CountStep ==
  TypeOK /\ Leaks /\ Polls /\ Days /\ [MarketNext]_marketVars => (TypeOK /\ Leaks /\ Polls)'
<1> SUFFICES ASSUME TypeOK, Leaks, Polls, Days, [MarketNext]_marketVars
             PROVE  (TypeOK /\ Leaks /\ Polls)'
  OBVIOUS
<1>1. ASSUME NEW t \in Threads,
             \/ Call(t) \/ Check(t) \/ Send(t) \/ Answer(t) \/ HandleLimit(t)
             \/ Inspect(t) \/ Chart(t) \/ MergeDays(t) \/ ReplaceDays(t)
      PROVE  (TypeOK /\ Leaks /\ Polls)'
  <2>1. today' = today /\ now' = now
    BY <1>1, ThreadMoves
  <2>2. PICK l \in Labels, m \in Local :
          /\ Keep(t, l, m)
          /\ Limited(m) => l = "limited"
          /\ l = "wait" => ~Paused /\ UNCHANGED <<pause, leaks>>
    BY <1>1, ThreadMoves
  <2>3. place' = [place EXCEPT ![t] = l] /\ task' = [task EXCEPT ![t] = m]
    BY <2>2 DEF Keep, Go
  <2>4. /\ place'[t] = l /\ task'[t] = m
        /\ \A u \in Threads : u # t => place'[u] = place[u] /\ task'[u] = task[u]
    BY <2>3 DEF TypeOK
  <2>5. \/ UNCHANGED <<pause, leaks>>
        \/ /\ pause' = pause /\ place[t] = "wait" /\ place'[t] = "sent"
           /\ leaks' = [leaks EXCEPT ![t] = IF Paused THEN @ + 1 ELSE @]
        \/ leaks' = [u \in Threads |-> 0]
        \/ pause' = Activated /\ leaks' = leaks
    BY <1>1, CountMoves
  <2>6. pause' = pause => Paused' = Paused
    BY <2>1 DEF Paused
  <2>7. TypeOK'
    <3>1. leaks' \in [Threads -> Nat]
      BY <2>5 DEF TypeOK
    <3> QED
      BY <2>1, <2>3, <3>1 DEF TypeOK
  <2>8. Leaks'
    <3>1. CASE UNCHANGED <<pause, leaks>>
      BY <2>2, <2>4, <2>6, <3>1 DEF Leaks
    <3>2. CASE /\ pause' = pause /\ place[t] = "wait" /\ place'[t] = "sent"
               /\ leaks' = [leaks EXCEPT ![t] = IF Paused THEN @ + 1 ELSE @]
      <4>1. leaks[t] = 0
        BY <3>2 DEF Leaks, TypeOK
      <4>2. /\ leaks'[t] = IF Paused THEN 1 ELSE 0
            /\ \A u \in Threads : u # t => leaks'[u] = leaks[u]
        BY <3>2, <4>1 DEF TypeOK
      <4> QED
        BY <2>4, <2>6, <3>2, <4>2 DEF Leaks
    <3>3. CASE leaks' = [u \in Threads |-> 0]
      BY <3>3 DEF Leaks
    <3>4. CASE pause' = Activated /\ leaks' = leaks
      <4>1. CASE Paused
        <5>1. pause' = pause
          BY <3>4, <4>1 DEF Activated
        <5> QED
          BY <2>2, <2>4, <2>6, <3>4, <5>1 DEF Leaks
      <4>2. CASE ~Paused
        BY <3>4, <4>2 DEF Leaks
      <4> QED
        BY <4>1, <4>2
    <3> QED
      BY <2>5, <3>1, <3>2, <3>3, <3>4
  <2>9. Polls'
    BY <2>2, <2>4 DEF Polls, Limited
  <2> QED
    BY <2>7, <2>8, <2>9
<1>2. CASE Tick
  <2>1. UNCHANGED <<today, place, task>>
    BY <1>2 DEF Tick
  <2>2. leaks' = IF Paused' THEN leaks ELSE [t \in Threads |-> 0]
    BY <1>2 DEF Tick, Paused
  <2>3. TypeOK'
    BY <2>1, <2>2 DEF TypeOK
  <2>4. Leaks'
    BY <2>1, <2>2 DEF Leaks
  <2> QED
    BY <2>1, <2>3, <2>4 DEF Polls, Limited
<1>3. CASE NewDay
  <2>1. /\ today' = today + 1 /\ UNCHANGED <<place, now, pause, leaks>>
        /\ task' = [t \in Threads |-> [task[t] EXCEPT !.night = place[t] # "idle"]]
    BY <1>3 DEF NewDay
  <2>2. ASSUME NEW t \in Threads
        PROVE  /\ task'[t] \in Local /\ task'[t].job = task[t].job
               /\ task'[t].limited = task[t].limited
    BY <2>1 DEF TypeOK, Local
  <2>3. TypeOK'
    <3>1. task' \in [Threads -> Local]
      BY <2>1, <2>2
    <3> QED
      BY <2>1, <3>1 DEF TypeOK
  <2>4. Leaks'
    BY <2>1 DEF Leaks, Paused
  <2>5. Polls'
    BY <2>1, <2>2 DEF Polls, Limited
  <2> QED
    BY <2>3, <2>4, <2>5
<1>4. CASE UNCHANGED marketVars
  BY <1>4 DEF marketVars, TypeOK, Leaks, Polls, Limited, Paused
<1> QED
  BY <1>1, <1>2, <1>3, <1>4 DEF MarketNext

\* The invariant begins true, with no history or with one of two days.
LEMMA MarketBegins == MarketInit => MInv
<1> SUFFICES ASSUME MarketInit PROVE MInv
  OBVIOUS
<1>1. Blank \in Local /\ Blank.start = 0 /\ Blank.job = "none"
  BY DEF Blank, Local
<1>2. TypeOK
  BY <1>1 DEF MarketInit, TypeOK, Labels
<1>3. Leaks
  BY DEF MarketInit, Leaks
<1>4. Polls /\ Starts /\ Rows
  BY <1>1 DEF MarketInit, Polls, Limited, Starts, Rows
<1>5. Whole
  <2>1. 1 \in Nat /\ 2 \in Nat /\ 1 <= 1 /\ 1 <= 2 /\ 2 <= today
    BY DEF MarketInit
  <2>2. history = {} \/ history = 1..2
    BY DEF MarketInit
  <2> QED
    BY <2>1, <2>2 DEF Whole
<1> QED
  BY <1>2, <1>3, <1>4, <1>5 DEF MInv

\* The invariant: the types, the requests of a pause, the limited polls, and the
\* days that are stored, asked for and downloaded.
THEOREM MarketInvariant == MarketSpec => []MInv
<1>1. MInv /\ [MarketNext]_marketVars => MInv'
  BY DaysStep, CountStep DEF MInv, Days
<1> QED
  BY <1>1, MarketBegins, PTL DEF MarketSpec

\* However many threads and ticks, and however long the pause, a thread sends at
\* most one request during a pause, the one it already waited to send, and a poll
\* that was limited sends no more.
THEOREM LimitObeyedAlways == MarketSpec => []LimitObeyed
<1>1. MInv => LimitObeyed
  BY DEF MInv, Leaks, Polls, Limited, LimitObeyed
<1> QED
  BY <1>1, MarketInvariant, PTL

\* Whichever trading days follow a weekend or a holiday, overlapping refreshes
\* never leave a hole in the stored history.
THEOREM NoHoleAlways == MarketSpec => []NoHole
<1>1. MInv => NoHole
  <2> SUFFICES ASSUME MInv, history # {} PROVE history = Min(history) .. Max(history)
    BY DEF NoHole
  <2>1. PICK a, b \in Nat : a <= b /\ history = a..b
    BY DEF MInv, Whole
  <2> QED
    BY <2>1, Ends
<1> QED
  BY <1>1, MarketInvariant, PTL

\* An incremental refresh loses no day that another thread has stored.
THEOREM MergeKeepsAlways == MarketSpec => MergeKeeps
<1> DEFINE Kept == \A t \in Threads :
             place[t] = "write" /\ task[t].start > 0 /\ place'[t] = "idle" => history \subseteq history'
<1>1. MInv /\ [MarketNext]_marketVars => [Kept]_marketVars
  <2> SUFFICES ASSUME TypeOK, MarketNext, NEW t \in Threads,
                      place[t] = "write", task[t].start > 0, place'[t] = "idle"
               PROVE  history \subseteq history'
    BY DEF MInv
  <2>1. ASSUME NEW u \in Threads, NEW l, Go(u, l), u # t PROVE FALSE
    BY <2>1 DEF Go, TypeOK
  <2>2. ASSUME NEW u \in Threads, MergeDays(u) PROVE history \subseteq history'
    BY <2>2 DEF MergeDays
  <2>3. ASSUME NEW u \in Threads, ReplaceDays(u) PROVE FALSE
    BY <2>1, <2>3 DEF ReplaceDays, Done, Keep
  <2>4. ASSUME Tick \/ NewDay PROVE history \subseteq history'
    BY <2>4 DEF Tick, NewDay
  <2>5. ASSUME NEW u \in Threads,
               \/ Call(u) \/ Check(u) \/ Send(u) \/ Answer(u) \/ HandleLimit(u)
               \/ Inspect(u) \/ Chart(u)
        PROVE  history \subseteq history'
    BY <2>5 DEF Call, Check, Send, Answer, HandleLimit, Inspect, Chart
  <2> QED
    BY <2>2, <2>3, <2>4, <2>5 DEF MarketNext
<1> QED
  BY <1>1, MarketInvariant, PTL DEF MarketSpec, MergeKeeps
=============================================================================
