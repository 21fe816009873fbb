----------------------------- MODULE MCProcesses -----------------------------
(***************************************************************************)
(* Three programs that share files with other processes or run them, on    *)
(* small instances: the document store, the pools of map_ordered and the   *)
(* supervisor.  A behaviour is of one of the three.                        *)
(***************************************************************************)
EXTENDS ObjectStore, ProcessPools, Supervisor

CONSTANTS p1, p2, c1, c2, c3, q1, q2

VARIABLE observed  \* the program whose behaviour this is

\* One program runs, and the others keep one initial state.
AnyInit ==
  /\ Init /\ PoolInit /\ SupInit
  /\ \/ observed = "supervisor"
     \/ observed \in {"store", "pools"} /\ left = CHOOSE b \in Budgets : TRUE

\* Batches of two events are those of p1; the callers are alike otherwise.
Batches == Len(req'[p2].recs) <= 1

AnyNext ==
  /\ UNCHANGED observed
  /\ \/ observed = "store" /\ Next /\ Batches /\ UNCHANGED <<poolVars, supVars>>
     \/ observed = "pools" /\ PoolNext /\ UNCHANGED <<vars, supVars>>
     \/ observed = "supervisor" /\ SupNext /\ UNCHANGED <<vars, poolVars>>

\* FairSpec or SupFairness, of the program that runs.
AnySpec ==
  /\ AnyInit
  /\ [][AnyNext]_<<vars, poolVars, supVars, observed>>
  /\ \A p \in Procs : WF_vars(observed = "store" /\ Step(p))
  /\ WF_supVars(observed = "supervisor" /\ Supervise)

\* SupervisorEnds, of the behaviours that are the supervisor's: whatever its
\* child does, the supervisor comes to an end.
Ends == []<>(observed = "supervisor" => step \in Ended)
=============================================================================
