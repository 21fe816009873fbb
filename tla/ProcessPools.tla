---------------------------- MODULE ProcessPools ----------------------------
(***************************************************************************)
(* The reusable process pools of app/infrastructure/parallel.py: parallel  *)
(* maps of one worker count share the pool that is registered for it.  A   *)
(* pool whose worker dies is broken for good; the call that notices takes  *)
(* it out of the registry, shuts it down and works in threads instead.     *)
(* Registries of other worker counts are independent and left out.         *)
(***************************************************************************)
EXTENDS Naturals, FiniteSets

CONSTANTS Callers,   \* threads that run parallel maps
          Pools,     \* process pools the program may create
          NoPool,    \* no pool
          MaxMaps,   \* bound: maps started
          MaxDeaths  \* bound: worker deaths and processes that do not start

ASSUME PoolAssumption ==
  /\ NoPool \notin Pools
  /\ {MaxMaps, MaxDeaths} \subseteq Nat

VARIABLES registered, \* _PROCESS_EXECUTORS[worker_count], or NoPool
          pool,       \* each pool: unmade, working or broken; shut down; cancels its items
          at,         \* where each caller is
          using,      \* the pool it got, NoPool outside a map
          popped,     \* the pool it took out of the registry
          mistaken,   \* pools discarded by a caller that saw another one break (history)
          unstarted,  \* callers whose pool could not start a process (history)
          maps,       \* maps started so far
          deaths      \* deaths and failed starts so far

poolVars ==
  <<registered, pool, at, using, popped, mistaken, unstarted, maps, deaths>>

PoolInit ==
  /\ registered = NoPool
  /\ pool = [p \in Pools |-> [state |-> "unmade", shut |-> FALSE, cancels |-> FALSE]]
  /\ at = [c \in Callers |-> "idle"]
  /\ using = [c \in Callers |-> NoPool]
  /\ popped = [c \in Callers |-> NoPool]
  /\ mistaken = {}
  /\ unstarted = {}
  /\ maps = 0
  /\ deaths = 0

Move(c, l) == at' = [at EXCEPT ![c] = l]

Harm == deaths < MaxDeaths /\ deaths' = deaths + 1

\* map_ordered with enough items; what cannot be pickled goes to threads.
StartMap(c) ==
  /\ at[c] \in {"idle", "answered"}
  /\ maps < MaxMaps
  /\ maps' = maps + 1
  /\ Move(c, "lookup") \/ Move(c, "threads")
  /\ using' = [using EXCEPT ![c] = NoPool]
  /\ UNCHANGED <<registered, pool, popped, mistaken, unstarted, deaths>>

\* _process_executor: under the registry lock, the pool is found or made.
Lookup(c) ==
  /\ at[c] = "lookup"
  /\ IF registered # NoPool
       THEN /\ using' = [using EXCEPT ![c] = registered]
            /\ UNCHANGED <<registered, pool>>
       ELSE \E p \in Pools :
              /\ pool[p].state = "unmade"
              /\ pool' = [pool EXCEPT ![p].state = "working"]
              /\ registered' = p
              /\ using' = [using EXCEPT ![c] = p]
  /\ Move(c, "submit")
  /\ UNCHANGED <<popped, mistaken, unstarted, maps, deaths>>

\* The pool cannot be made: the map runs in threads.
Unmade(c) ==
  /\ at[c] = "lookup" /\ registered = NoPool
  /\ Harm
  /\ Move(c, "threads")
  /\ UNCHANGED <<registered, pool, using, popped, mistaken, unstarted, maps>>

\* Mutant of Submit: the submission is outside the handler of a broken pool.
SubmitOutside(c) ==
  /\ at[c] = "submit"
  /\ Move(c, IF pool[using[c]].state = "broken" \/ pool[using[c]].shut THEN "raised" ELSE "await")
  /\ UNCHANGED <<registered, pool, using, popped, mistaken, unstarted, maps, deaths>>

\* executor.map submits every item: a broken pool answers BrokenProcessPool,
\* one that is shut down a RuntimeError nobody catches.
Submit(c) ==
  /\ at[c] = "submit"
  /\ Move(c, CASE pool[using[c]].state = "broken" -> "discard"
               [] pool[using[c]].state # "broken" /\ pool[using[c]].shut -> "raised"
               [] OTHER -> "await")
  /\ UNCHANGED <<registered, pool, using, popped, mistaken, unstarted, maps, deaths>>

\* A worker process does not start while items are submitted: an OSError that
\* nobody catches either.
NotStarted(c) ==
  /\ at[c] = "submit"
  /\ pool[using[c]].state = "working" /\ ~pool[using[c]].shut
  /\ Harm
  /\ Move(c, "raised")
  /\ unstarted' = unstarted \union {c}
  /\ UNCHANGED <<registered, pool, using, popped, mistaken, maps>>

\* All results are there.  A pool that is shut down still finishes what it runs.
Collect(c) ==
  /\ at[c] = "await"
  /\ pool[using[c]].state = "working"
  /\ Move(c, "answered")
  /\ UNCHANGED <<registered, pool, using, popped, mistaken, unstarted, maps, deaths>>

\* The pool broke under the map.
SeeBroken(c) ==
  /\ at[c] = "await"
  /\ pool[using[c]].state = "broken"
  /\ Move(c, "discard")
  /\ UNCHANGED <<registered, pool, using, popped, mistaken, unstarted, maps, deaths>>

\* The pool was shut down with items pending: CancelledError, not caught.
SeeCancelled(c) ==
  /\ at[c] = "await"
  /\ pool[using[c]].cancels
  /\ Move(c, "raised")
  /\ UNCHANGED <<registered, pool, using, popped, mistaken, unstarted, maps, deaths>>

\* Mutant of Discard: the pool is read and not removed.
DiscardLater(c) ==
  /\ at[c] = "discard"
  /\ popped' = [popped EXCEPT ![c] = registered]
  /\ Move(c, IF registered = NoPool THEN "threads" ELSE "shutdown")
  /\ UNCHANGED <<registered, pool, using, mistaken, unstarted, maps, deaths>>

\* _discard_process_executor, under the registry lock: whatever is registered
\* for the worker count by now is taken out.
Discard(c) ==
  /\ at[c] = "discard"
  /\ popped' = [popped EXCEPT ![c] = registered]
  /\ registered' = NoPool
  /\ mistaken' = IF registered \in {NoPool, using[c]} THEN mistaken
                                                     ELSE mistaken \union {registered}
  /\ Move(c, IF registered = NoPool THEN "threads" ELSE "shutdown")
  /\ UNCHANGED <<pool, using, unstarted, maps, deaths>>

\* Outside the lock: shutdown(wait=False, cancel_futures=True).  The items of a
\* pool that broke before already have their exception.
Shutdown(c) ==
  /\ at[c] = "shutdown"
  /\ pool' = [pool EXCEPT ![popped[c]].shut = TRUE,
                          ![popped[c]].cancels = @ \/ pool[popped[c]].state = "working"]
  /\ Move(c, "threads")
  /\ UNCHANGED <<registered, using, popped, mistaken, unstarted, maps, deaths>>

\* The thread fallback answers.
Fallback(c) ==
  /\ at[c] = "threads"
  /\ Move(c, "answered")
  /\ UNCHANGED <<registered, pool, using, popped, mistaken, unstarted, maps, deaths>>

\* A worker process dies.
WorkerDies(p) ==
  /\ pool[p].state = "working"
  /\ Harm
  /\ pool' = [pool EXCEPT ![p].state = "broken"]
  /\ UNCHANGED <<registered, at, using, popped, mistaken, unstarted, maps>>

PoolNext ==
  \/ \E c \in Callers :
       \/ StartMap(c) \/ Lookup(c) \/ Unmade(c) \/ Submit(c) \/ NotStarted(c)
       \/ Collect(c) \/ SeeBroken(c) \/ SeeCancelled(c)
       \/ Discard(c) \/ Shutdown(c) \/ Fallback(c)
  \/ \E p \in Pools : WorkerDies(p)

PoolSpec == PoolInit /\ [][PoolNext]_poolVars

-----------------------------------------------------------------------------
(* Properties *)

\* A pool is out of the registry before it is shut down: no later map gets one
\* that refuses work.  And a map raises in two cases only.  Its pool could not
\* start a process while items were submitted, which is the case that
\* UnstartedFallsBack denies; or a caller that saw another pool break has discarded
\* this one: two callers of one broken pool, with a new pool registered between
\* their discards.
OnlyMistakesRaise ==
  /\ registered # NoPool => ~pool[registered].shut
  /\ \A c \in Callers :
       at[c] = "raised" => c \in unstarted \/ using[c] \in mistaken

\* "An ordered ThreadPoolExecutor fallback handles environments where a process
\* cannot be started": a map whose pool cannot start a process does not raise.
\* The handler of OSError covers the making of the pool; the processes are started
\* when items are submitted, under a handler of BrokenProcessPool alone.
UnstartedFallsBack == \A c \in unstarted : at[c] # "raised"
=============================================================================
