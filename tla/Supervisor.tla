----------------------------- MODULE Supervisor -----------------------------
(***************************************************************************)
(* scripts/lstm_ga_supervise.py: one supervisor runs one compute command   *)
(* in a process group of its own, stops it before a deadline, cleans up    *)
(* and records how it ended.                                               *)
(*                                                                         *)
(* Time is counted in ticks of 1/Second second.  The code itself waits     *)
(* (sleep, reap, group) and anything else it does (a disk write, ps, a     *)
(* launch) may be slow; the child and the rest of its group act at any     *)
(* moment.  The wall clock, when an absolute deadline is given, may jump.  *)
(***************************************************************************)
EXTENDS Integers

CONSTANTS Second,    \* ticks in a second
          Budgets,   \* ticks from the start to the deadline: the budget, or
                     \* what an absolute deadline leaves of it
          TermAt,    \* SIGTERM with so many ticks left (60 s)
          KillAt,    \* SIGKILL with so many ticks left (5 s)
          Grace,     \* or so many ticks after the SIGTERM (55 s)
          MaxSlow,   \* bound: ticks spent outside the code's own waits
          MaxSkew,   \* bound: how far the wall clock runs ahead
          MaxErrors  \* bound: failed writes, launches and lookups

ASSUME SupervisorAssumption ==
  /\ Second \in Nat \ {0}
  /\ Budgets \union {TermAt, KillAt, Grace, MaxSlow, MaxSkew, MaxErrors} \subseteq Nat
  /\ KillAt < TermAt

VARIABLES step,    \* where the supervisor is
          left,    \* ticks to the monotonic deadline
          skew,    \* how much nearer the wall-clock deadline is
          slow,    \* ticks spent outside the code's own waits (history)
          child,   \* the compute process: state, exit code, reaped or not
          others,  \* other processes of its group are alive
          awake,   \* the sleep inhibitor: none, running, stuck or gone
          stop,    \* stop_requested
          term,    \* ticks left at the SIGTERM; NoTerm before it
          hit,     \* the supervisor signalled a living child (history)
          looked,  \* ticks left when the loop looked
          waited,  \* ticks spent in the current wait
          outcome, \* outcome, and exit_code
          errors,  \* errors of the cleanup; a write before it failed
          record,  \* the record on disk: status, and finished or not
          faults   \* failed writes, launches and lookups so far

supVars == <<step, left, skew, slow, child, others, awake, stop, term, hit, looked,
             waited, outcome, errors, record, faults>>

NoTerm == -1000000

\* remaining(): the nearer of the two deadlines.
Remaining == left - skew

Clamp(n, low, high) == IF n < low THEN low ELSE IF n > high THEN high ELSE n

SupInit ==
  /\ step = "start"
  /\ left \in Budgets
  /\ skew = 0
  /\ slow = 0
  /\ child = [state |-> "none", code |-> 0, reaped |-> FALSE]
  /\ others = FALSE
  /\ awake = "none"
  /\ stop = FALSE
  /\ term = NoTerm
  /\ hit = FALSE
  /\ looked = 0
  /\ waited = 0
  /\ outcome = [end |-> "failed", exit |-> 1]
  /\ errors = [cleanup |-> FALSE, write |-> FALSE]
  /\ record = [status |-> "none", finished |-> FALSE]
  /\ faults = 0

clock == <<left, skew, slow>>
world == <<child, others, awake>>
signals == <<stop, term, hit>>
loop == <<looked, waited>>

Error == faults < MaxErrors /\ faults' = faults + 1

Put(status) == record' = [record EXCEPT !.status = status]

\* An exception in the try block.
Failed ==
  /\ Error
  /\ outcome' = [end |-> "failed", exit |-> 1]
  /\ step' = "finally"
  /\ UNCHANGED <<clock, signals, loop, errors, record>>

-----------------------------------------------------------------------------
(* Starting *)

\* The record is written; an expired deadline ends the run before anything else.
Start ==
  /\ step = "start"
  /\ \/ /\ Put("starting")
        /\ IF Remaining <= 0
             THEN step' = "finally" /\ outcome' = [outcome EXCEPT !.end = "expired"]
             ELSE step' = "identify" /\ UNCHANGED outcome
        /\ UNCHANGED <<clock, signals, loop, errors, faults>>
     \/ Failed
  /\ UNCHANGED world

\* ps identifies this supervisor, then the stop handlers are installed.
Identify ==
  /\ step = "identify"
  /\ \/ step' = "launch" /\ UNCHANGED <<clock, signals, loop, outcome, errors, record, faults>>
     \/ Failed
  /\ UNCHANGED world

\* Time passed: the deadline and a stop request are looked at before the launch.
Launch ==
  /\ step = "launch"
  /\ \/ /\ Remaining <= 0 \/ stop
        /\ outcome' = [outcome EXCEPT !.end = IF stop THEN "interrupted" ELSE "expired"]
        /\ step' = "finally"
        /\ UNCHANGED <<clock, world, signals, loop, errors, record, faults>>
     \/ /\ Remaining > 0 /\ ~stop
        /\ child' = [child EXCEPT !.state = "running"]
        /\ others' \in BOOLEAN
        /\ step' = "running"
        /\ UNCHANGED <<clock, awake, signals, loop, outcome, errors, record, faults>>
     \/ Remaining > 0 /\ ~stop /\ Failed /\ UNCHANGED world

\* The child's pid is recorded.
Running ==
  /\ step = "running"
  /\ \/ /\ Put("running")
        /\ step' = "inhibit"
        /\ UNCHANGED <<clock, signals, loop, outcome, errors, faults>>
     \/ Failed
  /\ UNCHANGED world

\* caffeinate is started where it exists and more than five seconds remain.
Inhibit ==
  /\ step = "inhibit"
  /\ \/ /\ awake' \in IF Remaining > KillAt THEN {"none", "running", "stuck"} ELSE {"none"}
        /\ outcome' = [outcome EXCEPT !.end = "exited"]
        /\ step' = "poll"
        /\ UNCHANGED <<clock, signals, loop, errors, record, faults>>
     \/ Remaining > KillAt /\ Failed /\ UNCHANGED awake
  /\ UNCHANGED <<child, others>>

-----------------------------------------------------------------------------
(* The polling loop *)

\* The exit code of the supervisor: that of the child, never 0 for a child
\* that was told to stop.
ExitCode ==
  IF outcome.end # "exited" /\ child.code = 0 THEN (IF stop THEN 130 ELSE 1) ELSE child.code

\* Mutant of Poll: the child's exit code is passed on as it is.
PollPlain ==
  /\ step = "poll"
  /\ IF child.state = "ended"
       THEN /\ child' = [child EXCEPT !.reaped = TRUE]
            /\ outcome' = [outcome EXCEPT !.exit = child.code]
            /\ step' = "finally"
            /\ UNCHANGED looked
       ELSE /\ looked' = Remaining
            /\ step' = "signal"
            /\ UNCHANGED <<child, outcome>>
  /\ UNCHANGED <<clock, others, awake, signals, waited, errors, record, faults>>

Poll ==
  /\ step = "poll"
  /\ IF child.state = "ended"
       THEN /\ child' = [child EXCEPT !.reaped = TRUE]
            /\ outcome' = [outcome EXCEPT !.exit = ExitCode]
            /\ step' = "finally"
            /\ UNCHANGED looked
       ELSE /\ looked' = Remaining
            /\ step' = "signal"
            /\ UNCHANGED <<child, outcome>>
  /\ UNCHANGED <<clock, others, awake, signals, waited, errors, record, faults>>

\* SIGTERM, once: on a stop request, or with sixty seconds left.
Signal ==
  /\ step = "signal"
  /\ IF term = NoTerm /\ (stop \/ looked <= TermAt)
       THEN /\ term' = left
            /\ hit' = (hit \/ child.state = "running")
            /\ outcome' = [outcome EXCEPT !.end = IF stop THEN "interrupted" ELSE "stopping"]
            /\ step' = "signalled"
       ELSE /\ step' = "hard"
            /\ UNCHANGED <<term, hit, outcome>>
  /\ UNCHANGED <<clock, world, stop, loop, errors, record, faults>>

Signalled ==
  /\ step = "signalled"
  /\ \/ /\ Put(outcome.end)
        /\ step' = "hard"
        /\ UNCHANGED <<clock, signals, loop, outcome, errors, faults>>
     \/ Failed
  /\ UNCHANGED world

\* SIGKILL to the group: with five seconds left, or after the grace period.
Hard ==
  /\ step = "hard"
  /\ IF looked <= KillAt \/ (term # NoTerm /\ term - left >= Grace)
       THEN /\ hit' = (hit \/ child.state = "running")
            /\ child' = IF child.state = "running" THEN [child EXCEPT !.state = "killed"] ELSE child
            /\ outcome' = [outcome EXCEPT !.end = "hard_stopped"]
            /\ step' = "killed"
       ELSE /\ step' = "sleep"
            /\ UNCHANGED <<child, hit, outcome>>
  /\ UNCHANGED <<clock, others, awake, stop, term, loop, errors, record, faults>>

\* Mutant of Killed: the loop goes on until the child is gone.
KilledAgain ==
  /\ step = "killed"
  /\ \/ /\ Put("hard_stopped")
        /\ outcome' = [outcome EXCEPT !.exit = IF stop THEN 130 ELSE 1]
        /\ step' = "poll"
        /\ UNCHANGED <<clock, signals, loop, errors, faults>>
     \/ Failed
  /\ UNCHANGED world

\* process.returncode is not there yet: the loop is left at the SIGKILL.
Killed ==
  /\ step = "killed"
  /\ \/ /\ Put("hard_stopped")
        /\ outcome' = [outcome EXCEPT !.exit = IF stop THEN 130 ELSE 1]
        /\ step' = "finally"
        /\ UNCHANGED <<clock, signals, loop, errors, faults>>
     \/ Failed
  /\ UNCHANGED world

\* A second, less near the end: at least a thousandth of one, here a tick.
Sleep ==
  /\ step = "sleep"
  /\ left' = left - Clamp(looked - KillAt, 1, Second)
  /\ looked' = 0
  /\ step' = "poll"
  /\ UNCHANGED <<skew, slow, world, signals, waited, outcome, errors, record, faults>>

-----------------------------------------------------------------------------
(* Ending *)

\* The record says "cleaning_up"; if that write fails, the cleanup is still
\* done and the exception raised again after it.
Finally ==
  /\ step = "finally"
  /\ step' = IF child.state = "none" THEN "verdict" ELSE "kill"
  /\ \/ Put("cleaning_up") /\ UNCHANGED <<errors, faults>>
     \/ Error /\ errors' = [errors EXCEPT !.write = TRUE] /\ UNCHANGED record
  /\ waited' = 0
  /\ UNCHANGED <<clock, world, signals, looked, outcome>>

\* SIGKILL to the child's group.
Kill ==
  /\ step = "kill"
  /\ child' = IF child.state = "running" THEN [child EXCEPT !.state = "killed"] ELSE child
  /\ hit' = (hit \/ child.state = "running")
  /\ step' = "reap"
  /\ UNCHANGED <<clock, others, awake, stop, term, loop, outcome, errors, record, faults>>

\* One tick of a wait that ends after at most limit ticks, or at the deadline.
Waiting(limit) ==
  /\ waited < limit
  /\ Remaining > 0
  /\ left' = left - 1
  /\ waited' = waited + 1
  /\ UNCHANGED <<step, skew, slow, world, signals, looked, outcome, errors, record, faults>>

\* The wait is over.
Waited(limit) == waited >= limit \/ Remaining <= 0

\* Mutant of Reap: the wait does not look at the deadline.
ReapLong ==
  /\ step = "reap"
  /\ \/ /\ child.state = "ended"
        /\ child' = [child EXCEPT !.reaped = TRUE]
        /\ step' = "inhibitor"
        /\ waited' = 0
        /\ UNCHANGED <<clock, others, awake, signals, looked, outcome, errors, record, faults>>
     \/ /\ child.state # "ended" /\ waited < Second
        /\ left' = left - 1
        /\ waited' = waited + 1
        /\ UNCHANGED <<step, skew, slow, world, signals, looked, outcome, errors, record, faults>>
     \/ /\ child.state # "ended" /\ waited >= Second
        /\ errors' = [errors EXCEPT !.cleanup = TRUE]
        /\ step' = "inhibitor"
        /\ waited' = 0
        /\ UNCHANGED <<clock, world, signals, looked, outcome, record, faults>>

\* The child is reaped within a second.
Reap ==
  /\ step = "reap"
  /\ \/ /\ child.state = "ended"
        /\ child' = [child EXCEPT !.reaped = TRUE]
        /\ step' = "inhibitor"
        /\ waited' = 0
        /\ UNCHANGED <<clock, others, awake, signals, looked, outcome, errors, record, faults>>
     \/ child.state # "ended" /\ Waiting(Second)
     \/ /\ child.state # "ended" /\ Waited(Second)
        /\ errors' = [errors EXCEPT !.cleanup = TRUE]
        /\ step' = "inhibitor"
        /\ waited' = 0
        /\ UNCHANGED <<clock, world, signals, looked, outcome, record, faults>>

\* The inhibitor is terminated, and killed a second later; one that is still
\* there after another second is an error of the cleanup.
Inhibitor ==
  /\ step = "inhibitor"
  /\ \/ /\ awake # "stuck"
        /\ awake' = IF awake = "running" THEN "gone" ELSE awake
        /\ step' = "group"
        /\ waited' = 0
        /\ UNCHANGED <<clock, child, others, signals, looked, outcome, errors, record, faults>>
     \/ awake = "stuck" /\ Waiting(2 * Second)
     \/ /\ awake = "stuck" /\ Waited(2 * Second)
        /\ errors' = [errors EXCEPT !.cleanup = TRUE]
        /\ step' = "group"
        /\ waited' = 0
        /\ UNCHANGED <<clock, world, signals, looked, outcome, record, faults>>

GroupExists == ~child.reaped \/ others

\* Mutant of Group: the group is signalled and not looked at.
GroupTrusted ==
  /\ step = "group"
  /\ step' = "verdict"
  /\ UNCHANGED <<clock, world, signals, loop, outcome, errors, record, faults>>

\* The group is gone within two seconds, or the cleanup has failed.
Group ==
  /\ step = "group"
  /\ \/ ~GroupExists /\ step' = "verdict"
        /\ UNCHANGED <<clock, world, signals, loop, outcome, errors, record, faults>>
     \/ GroupExists /\ Waiting(2 * Second)
     \/ /\ GroupExists /\ Waited(2 * Second)
        /\ errors' = [errors EXCEPT !.cleanup = TRUE]
        /\ step' = "verdict"
        /\ UNCHANGED <<clock, world, signals, loop, outcome, record, faults>>

\* The stop handlers are restored; an error of the first write is raised; a
\* cleanup that failed and a deadline that passed overrule the outcome.
Verdict ==
  /\ step = "verdict"
  /\ step' = IF errors.write THEN "raised" ELSE "conclude"
  /\ outcome' = CASE errors.cleanup -> [end |-> "cleanup_failed", exit |-> 1]
                  [] ~errors.cleanup /\ outcome.end = "exited" /\ Remaining < 0
                       -> [end |-> "expired", exit |-> 1]
                  [] OTHER -> outcome
  /\ UNCHANGED <<clock, world, signals, loop, errors, record, faults>>

\* The final record.
Conclude ==
  /\ step = "conclude"
  /\ \/ /\ record' = [status |-> outcome.end, finished |-> TRUE]
        /\ step' = "returned"
        /\ UNCHANGED faults
     \/ /\ Error
        /\ step' = "raised"
        /\ UNCHANGED record
  /\ UNCHANGED <<clock, world, signals, loop, outcome, errors>>

-----------------------------------------------------------------------------
(* The world *)

Ended == {"returned", "raised", "gone"}

\* The child ends by itself, on the SIGTERM, or after the SIGKILL.
ChildEnds ==
  /\ child.state \in {"running", "killed"}
  /\ \E code \in IF child.state = "killed" THEN {-9} ELSE {0, 1} :
       child' = [child EXCEPT !.state = "ended", !.code = code]
  /\ UNCHANGED <<step, clock, others, awake, signals, loop, outcome, errors, record, faults>>

\* The rest of the group ends.
OthersEnd ==
  /\ others
  /\ others' = FALSE
  /\ UNCHANGED <<step, clock, child, awake, signals, loop, outcome, errors, record, faults>>

\* A step takes time.
Slow ==
  /\ step \notin Ended
  /\ slow < MaxSlow
  /\ slow' = slow + 1
  /\ left' = left - 1
  /\ UNCHANGED <<step, skew, world, signals, loop, outcome, errors, record, faults>>

\* The wall clock is set.
Jump ==
  /\ step \notin Ended
  /\ skew' \in {0, MaxSkew} \ {skew}
  /\ UNCHANGED <<step, left, slow, world, signals, loop, outcome, errors, record, faults>>

Handled == {"launch", "running", "inhibit", "poll", "signal", "signalled", "hard", "killed",
            "sleep", "finally", "kill", "reap", "inhibitor", "group"}

\* SIGTERM or SIGINT to the supervisor: noted while the handlers are installed.
StopSignal ==
  /\ step \in Handled
  /\ ~stop
  /\ stop' = TRUE
  /\ UNCHANGED <<step, clock, world, term, hit, loop, outcome, errors, record, faults>>

\* A signal outside the handlers, or a SIGKILL, ends the supervisor.
Dies ==
  /\ step \notin Ended
  /\ step' = "gone"
  /\ UNCHANGED <<clock, world, signals, loop, outcome, errors, record, faults>>

Supervise ==
  \/ Start \/ Identify \/ Launch \/ Running \/ Inhibit
  \/ Poll \/ Signal \/ Signalled \/ Hard \/ Killed \/ Sleep
  \/ Finally \/ Kill \/ Reap \/ Inhibitor \/ Group \/ Verdict \/ Conclude

SupNext ==
  \/ Supervise
  \/ ChildEnds \/ OthersEnd \/ Slow \/ Jump \/ StopSignal \/ Dies

SupSpec == SupInit /\ [][SupNext]_supVars

-----------------------------------------------------------------------------
(* Properties *)

\* The supervisor runs whenever it can; the child and its group need not end.
SupFairness == WF_supVars(Supervise)

\* Whatever the child does, the supervisor comes to an end, which is final.
SupervisorEnds == []<>(step \in Ended)

\* Exit code and final record tell the truth, whatever raced with the signals
\* and the cleanup: 0 is for a child that ended by itself with 0, was not
\* signalled by the supervisor while it lived, and left nothing behind; a final
\* record other than "cleanup_failed" means that nothing of the group is left.
VerdictIsTrue ==
  /\ step = "returned" /\ outcome.exit = 0 =>
       /\ child = [state |-> "ended", code |-> 0, reaped |-> TRUE]
       /\ ~hit /\ ~others
       /\ record.status = "exited"
  /\ record.finished /\ record.status # "cleanup_failed" =>
       child.state = "none" \/ (child.state = "ended" /\ child.reaped /\ ~others)

\* "Include launch and cleanup within absolute and monotonic time limits": the
\* supervisor's own waits never carry it past the deadline.
WithinBudget == left >= 0 - slow
=============================================================================
