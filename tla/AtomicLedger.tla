---------------------------- MODULE AtomicLedger ----------------------------
(***************************************************************************)
(* What the investment ledger promises its users: it is there or not, and  *)
(* it changes in whole requests only.  A request adds what it brings to    *)
(* what the ledger holds at that instant; nothing but a clear removes      *)
(* anything.                                                               *)
(***************************************************************************)
CONSTANT Items  \* what requests may add

VARIABLE ledger

Absent == [exists |-> FALSE, rows |-> {}]

Init == ledger = Absent \/ \E rows \in SUBSET Items : ledger = [exists |-> TRUE, rows |-> rows]

Add(i) == ledger' = [exists |-> TRUE, rows |-> ledger.rows \union {i}]

Clear == ledger' = Absent

Next == Clear \/ \E i \in Items : Add(i)

Spec == Init /\ [][Next]_ledger
=============================================================================
