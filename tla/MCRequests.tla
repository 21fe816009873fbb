------------------------------ MODULE MCRequests ------------------------------
(***************************************************************************)
(* What request threads of the web server do to shared files, on small     *)
(* instances: to the credit-card ledger, and to a stored market history.   *)
(* The two share nothing: a behaviour is of one of them.  Threads, account *)
(* pages and statements carry no order.                                    *)
(***************************************************************************)
EXTENDS CreditCardLedger, MarketRequests, TLC

CONSTANTS
  t1, t2, p1, p2, s1, s2, c1, k1,
  Targets  \* what behaviours may be of

VARIABLE target  \* what this behaviour is of

TargetInit ==
  /\ Init /\ MarketInit
  /\ target \in Targets
  /\ target # "market" => history = {}

TargetNext ==
  /\ UNCHANGED target
  /\ \/ target = "cards" /\ Next /\ UNCHANGED marketVars
     \/ target = "market" /\ MarketNext /\ UNCHANGED vars

TargetSpec == TargetInit /\ [][TargetNext]_<<vars, marketVars, target>>

Symmetry ==
  Permutations(Importers) \union Permutations(Pages) \union Permutations(Statements)
=============================================================================
