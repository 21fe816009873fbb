------------------------------ MODULE CardBook ------------------------------
(***************************************************************************)
(* What the card ledger promises: it is the least record that covers every *)
(* document imported so far.  A document is evidence that a slot (a day    *)
(* and a kind of purchase) holds at least so many transactions, and at     *)
(* least so many posted ones.  Documents are imported in whole bundles,    *)
(* none is forgotten, and importing one again adds nothing.                *)
(***************************************************************************)
EXTENDS Naturals, FiniteSets

CONSTANTS Slots,     \* where transactions may be recorded
          Evidence   \* what one import may show: [Slots -> [all, posted]]

VARIABLE recorded    \* [Slots -> [all, posted]]: transactions in the ledger

Larger(a, b) == IF a < b THEN b ELSE a

Cover(e, f) ==
  [s \in Slots |-> [all    |-> Larger(e[s].all, f[s].all),
                    posted |-> Larger(e[s].posted, f[s].posted)]]

Init == recorded = [s \in Slots |-> [all |-> 0, posted |-> 0]]

\* An import that shows something new.
Import ==
  /\ recorded' # recorded
  /\ \E e \in Evidence : recorded' = Cover(recorded, e)

Spec == Init /\ [][Import]_recorded
=============================================================================
