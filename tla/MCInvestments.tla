------------------------------ MODULE MCInvestments ------------------------------
(***************************************************************************)
(* The investment ledger, the merge of Schwab trades, and the engines of   *)
(* the research pages on small instances: the backtest of one ticker, that *)
(* of a rotation between two, and the CRPS search for the parameters of a  *)
(* strategy.  They share nothing: a behaviour is of one of the five.       *)
(***************************************************************************)
EXTENDS InvestmentLedger, Backtests, SchwabTrades, CrpsSearch, TLC

\* A grid that may sell all, and one with a floor, a ceiling and the default
\* lot, which starts with more than its ceiling.
SmallGrids ==
  {[initial |-> 1, quantity |-> 2, least |-> 0, most |-> 4],
   [initial |-> 5, quantity |-> 0, least |-> 1, most |-> 3]}

\* The default limits of the strategy, and limits that ask for more than all.
DefaultLimits == [initial |-> <<70, 25>>, least |-> <<20, 0>>, most |-> <<95, 75>>]
FullLimits == [initial |-> <<60, 50>>, least |-> <<20, 30>>, most |-> <<100, 100>>]
SmallLimits == {DefaultLimits, FullLimits}

\* Limits that leave no cash.
InvestedLimits == {[initial |-> <<60, 40>>, least |-> <<20, 0>>, most |-> <<100, 80>>]}

\* Two buys and a third trade on two days.
SmallTrade == [day : {1, 2}, side : Side, quantity : {1}, price : {9, 10}]
Histories ==
  {s \in [1..3 -> SmallTrade] :
     /\ s[1].day = 1 /\ s[2].day <= s[3].day
     /\ s[1].side = "buy" /\ s[2].side = "buy"}

NoTrades == [trades |-> << >>, books |-> {}]

\* Reports of a trade at its price or, for a limit order, at its limit; at
\* night it is the next day in Hong Kong.
ReportsOf(s, t, nights, reference, workbook) ==
  LET limit == IF s[t].side = "buy" THEN 10 ELSE 9
  IN  {[ref |-> reference, book |-> workbook, trade |-> t, side |-> s[t].side,
        quantity |-> s[t].quantity, day |-> s[t].day, source |-> s[t].day + night,
        price |-> IF order THEN limit ELSE s[t].price, limit |-> order] :
          night \in nights, order \in BOOLEAN}

\* A workbook with one report, of a trade at night, and a later workbook that
\* has another one as well.
SmallWorlds ==
  {NoTrades} \union
  UNION {{[trades |-> s, books |-> {{m}, {[m EXCEPT !.book = 2], n}}] :
            m \in ReportsOf(s, 1, {1}, 1, 1),
            n \in ReportsOf(s, 2, {0, 1}, 2, 2) \union ReportsOf(s, 3, {0, 1}, 2, 2)} : s \in Histories}

\* Either day, both, and both with a new fee of the first trade.
SmallExports ==
  {[from |-> 1, to |-> 1, revised |-> {}], [from |-> 2, to |-> 2, revised |-> {}],
   [from |-> 1, to |-> 2, revised |-> {}], [from |-> 1, to |-> 2, revised |-> {1}]}

\* The search has a baseline, a worse and a better candidate, of which two fit
\* on the leaderboard.
CONSTANTS
  basis, poorer, richer, t1, t2, r1, r2, e1,
  Parts        \* what behaviours may be of

Ranking ==
  [k \in {poorer, basis, richer} |-> CASE k = poorer -> 1 [] k = basis -> 2 [] k = richer -> 3]

VARIABLE part  \* what this behaviour is of

\* An engine that does not run keeps one of its initial states.
SingleRests == ~IsGrid /\ setting.mode = "next_open" /\ ~setting.stopLoss /\ ~setting.dividends
RotationRests ==
  /\ ~options.stopLoss /\ ~options.dividends /\ ~options.reinvest
  /\ options.targets = Targets(CHOOSE l \in Limits : TRUE)
CrpsRests == first = <<basis, richer>>

PartInit ==
  /\ part \in Parts
  /\ Init /\ SingleInit /\ RotationInit /\ CrpsInit
  /\ part # "ledger" => saved = <<Absent>>
  /\ part # "single" => SingleRests
  /\ part # "rotation" => RotationRests
  /\ part # "crps" => CrpsRests
  /\ SchwabInit
  /\ part # "trades" => world = NoTrades

PartNext ==
  /\ UNCHANGED part
  /\ \/ part = "ledger" /\ Next /\ UNCHANGED <<singleVars, rotationVars, crpsVars, schwabVars>>
     \/ part = "single" /\ SingleNext /\ UNCHANGED <<vars, rotationVars, crpsVars, schwabVars>>
     \/ part = "rotation" /\ RotationNext /\ UNCHANGED <<vars, singleVars, crpsVars, schwabVars>>
     \/ part = "crps" /\ CrpsNext /\ UNCHANGED <<vars, singleVars, rotationVars, schwabVars>>
     \/ part = "trades" /\ SchwabNext /\ UNCHANGED <<vars, singleVars, rotationVars, crpsVars>>

PartSpec == PartInit /\ [][PartNext]_<<vars, singleVars, rotationVars, crpsVars, schwabVars, part>>

Symmetry == Permutations(Threads) \union Permutations(Statements)
=============================================================================
