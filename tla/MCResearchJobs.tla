--------------------------- MODULE MCResearchJobs ---------------------------
(***************************************************************************)
(* Two kinds of long research jobs on small instances: the genetic search, *)
(* by a baseline and a better candidate, and the detached training jobs of *)
(* the probability model.  They share nothing: a behaviour is of one of    *)
(* them.                                                                   *)
(***************************************************************************)
EXTENDS PriceFieldTraining, GaSearch

CONSTANTS p1, p2, base, better, t1, t2, r1, r2

VARIABLE kind  \* the kind of job that this behaviour is of

Ranking == [k \in {base, better} |-> IF k = better THEN 2 ELSE 1]

\* Invocations are alike, and so are threads and jobs: p1 begins and t1 has the
\* first request, and r1 is created before r2.
SearchInOrder == at[p1] = "idle" /\ count.runs = 0 => at'[p2] = "idle"

JobsInOrder ==
  /\ served = 0 => pc'[t2] = "idle"
  /\ live'[r2].exists => live[r1].exists \/ arch[r1].exists \/ wpc[r1] # "none"

KindInit == Init /\ SearchInit /\ kind \in {"search", "training"}

KindNext ==
  /\ UNCHANGED kind
  /\ \/ kind = "search" /\ SearchNext /\ SearchInOrder /\ UNCHANGED vars
     \/ kind = "training" /\ JobsNext /\ JobsInOrder /\ UNCHANGED searchVars

\* FairSpec of the search, LiveSpec of the training jobs.
KindSpec ==
  /\ KindInit
  /\ [][KindNext]_<<vars, searchVars, kind>>
  /\ \A p \in Procs :
       /\ WF_searchVars(kind = "search" /\ Step(p))
       /\ WF_searchVars(kind = "search" /\ Tick(p))
  /\ \A t \in Threads : WF_vars(kind = "training" /\ ThreadStep(t))
  /\ \A r \in Runs : WF_vars(kind = "training" /\ Computes(r))
=============================================================================
