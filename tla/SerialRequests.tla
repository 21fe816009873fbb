--------------------------- MODULE SerialRequests ---------------------------
(***************************************************************************)
(* LstmTraining as one user sees it: either requests overlap and faults    *)
(* happen, or requests come one at a time, every ps answers and the web    *)
(* server stays up, while workers still run beside them and may be killed. *)
(***************************************************************************)
EXTENDS LstmTraining

VARIABLE serial  \* whether requests come one at a time, without a failed ps or a crash

\* No two requests are in progress.
OneRequest == \A s, t \in Threads : pc[s] # "idle" /\ pc[t] # "idle" => s = t

ServerSteady == faults'.probes = faults.probes /\ faults'.crashes = faults.crashes

EitherInit == Init /\ serial \in BOOLEAN

EitherNext == UNCHANGED serial /\ Next /\ (serial => OneRequest' /\ ServerSteady)

EitherSpec == EitherInit /\ [][EitherNext]_<<vars, serial>>

\* When requests do not overlap no running job is deleted, deletion is final
\* and a record of a Backtest appears as a whole.
SerialSafe == serial => RunningNotDeleted /\ DeletionAuthoritative /\ EvidenceTogether
=============================================================================
