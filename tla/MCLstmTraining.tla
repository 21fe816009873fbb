---------------------------- MODULE MCLstmTraining ----------------------------
(***************************************************************************)
(* Small instances of LstmTraining: which loads each run lets happen.      *)
(***************************************************************************)
EXTENDS SerialRequests, TLC

CONSTANTS t1, t2, r1, r2, b1, spy

Load(starts, records, stops, deletes, lists, kills, crashes, probes) ==
  [requests |-> [o \in Ops |-> CASE o = "start" -> starts
                                 [] o = "record" -> records
                                 [] o = "stop" -> stops
                                 [] o = "delete" -> deletes
                                 [] o = "list" -> lists],
   kills |-> kills, crashes |-> crashes, probes |-> probes]

\* All training jobs are of one ticker.
OneTicker == [r \in {r1, r2} |-> spy]

\* Two starts and a stop; or one job that is stopped and deleted under faults.
JobLoads == {Load(2, 0, 1, 0, 1, 1, 0, 0), Load(1, 0, 1, 2, 0, 1, 1, 1)}
SerialLoads == {Load(1, 2, 1, 2, 0, 1, 0, 0)}
RepublishLoads == {Load(0, 2, 0, 1, 0, 0, 0, 0)}

EitherLoads == JobLoads \union SerialLoads

\* What has happened is within one of these loads.
HappenedIn(loads) ==
  \E l \in loads :
    /\ \A o \in Ops : served[o] <= l.requests[o]
    /\ \A f \in DOMAIN faults : faults[f] <= l[f]

\* Requests that come one at a time have loads of their own.
BoundedNext == EitherNext /\ HappenedIn(IF serial THEN SerialLoads ELSE JobLoads)'

BoundedSpec == EitherInit /\ [][BoundedNext]_<<vars, serial>>

\* Loads alone bounds what happens.
OverlapSpec == Init /\ serial = FALSE /\ [][UNCHANGED serial /\ Next]_<<vars, serial>>

Symmetry == Permutations({t1, t2}) \union Permutations({r1, r2})
=============================================================================
