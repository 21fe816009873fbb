--------------------------- MODULE RotationBacktest ---------------------------
(***************************************************************************)
(* Leveraged Rotation: the strategy of strategy_leveraged_rotation.py,     *)
(* which decides from closed rows when to move between a primary and a     *)
(* leveraged ticker, and run_leveraged_rotation_backtest of backtest.py,   *)
(* which rebalances whole shares at the next open.  The strategy computes  *)
(* all its signals before the backtest trades; as it looks at no later row *)
(* the model takes both together row by row.  It remembers on its own      *)
(* which regime it has entered and at which open.                          *)
(***************************************************************************)
EXTENDS Fractions, Sequences

CONSTANTS
  RotationPrices, RotationPayouts, RotationCapital,
  Limits,       \* allocation limits as entered, percent of equity
  Drop, Rise,   \* triggers, percent
  Window,       \* rows of the return window
  MaxRotationRows  \* bound of the model

VARIABLES
  options,  \* stopLoss, dividends, reinvest, targets
  closes,   \* of the primary ticker, one of each row done
  mind,     \* the strategy: its regime, the open it entered at, the move it waits for
  port      \* the backtest: cash, shares, average costs, order, gains, replay

rotationVars == <<options, closes, mind, port>>

Assets == {1, 2}

ASSUME RotationAssumption ==
  /\ RotationPrices \subseteq Nat \ {0} /\ RotationPayouts \subseteq Nat
  /\ Limits \subseteq
       [initial : [Assets -> 0..100], least : [Assets -> 0..100], most : [Assets -> 0..100]]
  /\ {RotationCapital, Drop, Rise, MaxRotationRows} \subseteq Nat
  /\ Window \in Nat \ {0}

\* normalize_params: each maximum leaves room for the other minimum, and the
\* initial allocation is within the limits and not above 100 percent.  What the
\* backtest makes of it are the percentages of primary and leveraged that each
\* regime asks for.
Targets(l) ==
  LET least2 == Min({l.least[2], 100 - l.least[1]})
      most1 == Min({Max({l.least[1], l.most[1]}), 100 - least2})
      most2 == Min({Max({least2, l.most[2]}), 100 - l.least[1]})
      first1 == Min({Max({l.initial[1], l.least[1]}), most1})
      first2 == Min({Max({l.initial[2], least2}), most2})
      less2 == Max({least2, 100 - first1})
  IN [initial |-> IF first1 + first2 <= 100 THEN <<first1, first2>>
                  ELSE <<Min({first1, 100 - less2}), less2>>,
      leveraged |-> <<l.least[1], most2>>,
      primary |-> <<most1, least2>>]

RotationInit ==
  /\ options \in [stopLoss : BOOLEAN, dividends : BOOLEAN, reinvest : BOOLEAN,
                  targets : {Targets(l) : l \in Limits}]
  /\ closes = <<>>
  /\ mind = [regime |-> "initial", entry |-> 0, awaits |-> "none"]
  /\ port = [cash |-> RotationCapital, shares |-> <<0, 0>>, cost |-> <<Zero, Zero>>,
             order |-> "none", active |-> "initial", desired |-> <<0, 0>>,
             realized |-> Zero, received |-> 0, unlisted |-> 0,
             replay |-> <<0, 0>>]

-----------------------------------------------------------------------------
(* The strategy *)

\* The decision of the row before takes effect at this open.
Entered(m, open) ==
  CASE m.awaits = "leveraged" -> [regime |-> "leveraged", entry |-> open, awaits |-> "none"]
    [] m.awaits = "primary" -> [regime |-> "primary", entry |-> 0, awaits |-> "none"]
    [] m.awaits = "none" -> m

\* The primary has fallen far enough over the window.
Enters(m, close) ==
  /\ m.regime \in {"initial", "primary"}
  /\ Len(closes) >= Window
  /\ LET before == closes[Len(closes) - Window + 1]
     IN 100 * (close - before) <= -Drop * before

\* The leveraged ticker has gained enough since its entry.
Exits(m, close) ==
  m.regime = "leveraged" /\ 100 * (close - m.entry) >= Rise * m.entry

Decided(m, close1, close2) ==
  [m EXCEPT !.awaits = IF Enters(m, close1) THEN "leveraged"
                       ELSE IF Exits(m, close2) THEN "primary" ELSE "none"]

-----------------------------------------------------------------------------
(* The backtest *)

Equity(p, price) == p.cash + p.shares[1] * price[1] + p.shares[2] * price[2]

Wanted(p, regime, price) ==
  [i \in Assets |-> (Equity(p, price) * options.targets[regime][i]) \div (100 * price[i])]

SellAsset(p, i, n, price) ==
  IF n <= 0 \/ (~options.stopLoss /\ ~AtMost(p.cost[i], Whole(price[i]))) THEN p
  ELSE [p EXCEPT !.cash = @ + n * price[i],
                 !.shares[i] = @ - n,
                 !.cost[i] = IF p.shares[i] = n THEN Zero ELSE @,
                 !.realized = Plus(@, Times(n, Minus(Whole(price[i]), p.cost[i]))),
                 !.replay[i] = Max({0, @ - n})]

\* The average cost after n more shares.
Averaged(p, i, n, price) ==
  Over(Plus(Times(p.shares[i], p.cost[i]), Whole(n * price[i])), p.shares[i] + n)

BuyAsset(p, i, wanted, price) ==
  LET n == Min({Max({0, wanted - p.shares[i]}), Max({0, p.cash}) \div price[i]})
  IN IF n <= 0 THEN p
     ELSE [p EXCEPT !.cash = @ - n * price[i],
                    !.shares[i] = @ + n,
                    !.cost[i] = Averaged(p, i, n, price),
                    !.replay[i] = @ + n]

\* Mutant of Rebalanced: ticker by ticker, a sale and a purchase.
RebalancedByTicker(p, regime, price) ==
  LET wanted == Wanted(p, regime, price)
      Moved(q, i) ==
        BuyAsset(SellAsset(q, i, q.shares[i] - wanted[i], price), i, wanted[i], price)
      moved == Moved(Moved(p, 1), 2)
  IN [moved EXCEPT !.active = IF moved = p THEN @ ELSE regime,
                   !.desired = wanted]

\* Both sales first, then both purchases; the regime is active if anything was traded.
Rebalanced(p, regime, price) ==
  LET wanted == Wanted(p, regime, price)
      sold1 == SellAsset(p, 1, p.shares[1] - wanted[1], price)
      sold2 == SellAsset(sold1, 2, p.shares[2] - wanted[2], price)
      bought == BuyAsset(BuyAsset(sold2, 1, wanted[1], price), 2, wanted[2], price)
  IN [bought EXCEPT !.active = IF bought = p THEN @ ELSE regime,
                    !.desired = wanted]

\* Reinvested dividends buy whole shares, which no transaction row shows.
PaidOn(p, i, payout, close) ==
  LET dividend == p.shares[i] * payout[i]
      paid == [p EXCEPT !.cash = @ + dividend, !.received = @ + dividend]
      n == IF options.reinvest THEN dividend \div close[i] ELSE 0
  IN IF n = 0 THEN paid
     ELSE [paid EXCEPT !.cash = @ - n * close[i],
                       !.shares[i] = @ + n,
                       !.cost[i] = Averaged(p, i, n, close),
                       !.unlisted = @ + n]

Dividends(p, payout, close) ==
  IF options.dividends /\ closes # <<>>
  THEN PaidOn(PaidOn(p, 1, payout, close), 2, payout, close)
  ELSE p

AtOpen(p, open) ==
  IF closes = <<>> THEN Rebalanced(p, "initial", open)
  ELSE IF p.order # "none" THEN [Rebalanced(p, p.order, open) EXCEPT !.order = "none"]
  ELSE p

RotationNext ==
  /\ Len(closes) < MaxRotationRows
  /\ \E open, close \in [Assets -> RotationPrices], payout \in [Assets -> RotationPayouts] :
       LET decided == Decided(Entered(mind, open[2]), close[1], close[2])
       IN /\ mind' = decided
          /\ port' = [AtOpen(Dividends(port, payout, close), open) EXCEPT !.order = decided.awaits]
          /\ closes' = Append(closes, close[1])
  /\ UNCHANGED options

-----------------------------------------------------------------------------
(* Properties *)

\* Nothing is spent that is not there, and capital, dividends and reported gains
\* are what is held in cash and in shares at cost, whatever was reinvested.
RotationAddsUp ==
  /\ port.cash >= 0
  /\ Equal(Plus(Whole(RotationCapital + port.received), port.realized),
           Plus(Whole(port.cash), Plus(Times(port.shares[1], port.cost[1]),
                                       Times(port.shares[2], port.cost[2]))))

\* As long as nothing was reinvested the transaction table accounts for every
\* share of either ticker.
RotationReplays == port.unlisted = 0 => port.replay = port.shares

\* With stop-loss exits allowed a rotation always arrives: right after its open
\* both holdings are what the limits of its regime ask for, because the sales
\* raise enough cash for the purchases.
RotationArrives ==
  [][options.stopLoss /\ (closes = <<>> \/ port.order # "none")
       => port'.shares = port'.desired]_rotationVars

\* Without stop-loss exits no sale realizes a loss.
RotationLossless == ~options.stopLoss => AtMost(port.realized, port'.realized)

\* docs/ARCHITECTURE.md:353: the exit trigger "starts from the actual leveraged
\* open where the last entry rotation executed".  The strategy counts an entry
\* as executed; the backtest may have had something to trade and traded nothing.
EntryWasExecuted ==
  mind.regime = "leveraged" /\ port.shares # port.desired => port.active = "leveraged"
=============================================================================
