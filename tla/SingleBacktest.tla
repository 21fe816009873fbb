---------------------------- MODULE SingleBacktest ----------------------------
(***************************************************************************)
(* run_single_ticker_backtest of strategies/backtest.py: a table of prices *)
(* is walked row by row; the signals of a strategy, or the grid's own,     *)
(* buy and sell whole shares at the close of their row (signal_close) or   *)
(* at the open of the next one (next_open).                                *)
(*                                                                         *)
(* Money is whole, average costs and gains are exact fractions.  Cash      *)
(* dividends are paid or ignored; their reinvestment in fractions of a     *)
(* share is left out.  Short positions, which no signal opens, as well.    *)
(***************************************************************************)
EXTENDS Fractions

CONSTANTS
  Prices,     \* prices of a row
  Payouts,    \* dividends per share of a row
  Capital,
  Grids,      \* grid parameters as entered: [initial, quantity, least, most : Nat]
  Step,       \* rise and fall of the grid, percent
  MaxRows     \* bound of the model

ASSUME SingleAssumption ==
  /\ Prices \subseteq Nat \ {0} /\ Payouts \subseteq Nat
  /\ Grids \subseteq [initial : Nat, quantity : Nat, least : Nat, most : Nat]
  /\ {Capital, Step, MaxRows} \subseteq Nat

VARIABLES
  setting,  \* the options of this backtest
  rows,     \* rows done
  signal,   \* [buy, sell] of the last row
  book      \* cash, position, order, gains and the replay of the transactions

singleVars == <<setting, rows, signal, book>>

\* No grid: an ordinary strategy.
NoGrid == [initial |-> 0, quantity |-> 0, least |-> 0, most |-> 0]
IsGrid == setting.grid # NoGrid

\* normalize_params: a ceiling not below the floor, a holding between them.
GridLimits(g) ==
  LET most == Max({g.least, g.most})
  IN [g EXCEPT !.most = most, !.initial = Min({Max({@, g.least}), most})]

NoPrice == Zero  \* None as an entry or reference price
Neither == [buy |-> FALSE, sell |-> FALSE]

SingleInit ==
  /\ setting \in [mode : {"signal_close", "next_open"}, stopLoss : BOOLEAN,
                  dividends : BOOLEAN, grid : {GridLimits(g) : g \in Grids} \union {NoGrid}]
  /\ rows = 0 /\ signal = Neither
  /\ book = [cash |-> Capital, shares |-> 0, entry |-> NoPrice, reference |-> 0,
             lot |-> 0, order |-> "none", start |-> Capital,
             realized |-> Zero, received |-> 0,
             replay |-> [quantity |-> 0, cost |-> Zero]]

-----------------------------------------------------------------------------
(* Trades; each is a row of the transaction table, which _normalize_...     *)
(* replays to show cost and unrealized gain                                 *)

\* Mutant of Bought: the entry is the last price paid.
BoughtLast(b, n, price) ==
  IF n <= 0 THEN b
  ELSE [b EXCEPT
          !.cash = @ - n * price,
          !.shares = @ + n,
          !.entry = Whole(price),
          !.reference = IF IsGrid THEN price ELSE @,
          !.replay = [quantity |-> @.quantity + n, cost |-> Plus(@.cost, Whole(n * price))]]

Bought(b, n, price) ==
  IF n <= 0 THEN b
  ELSE [b EXCEPT
          !.cash = @ - n * price,
          !.shares = @ + n,
          !.entry = Over(Plus(Times(b.shares, @), Whole(n * price)), b.shares + n),
          !.reference = IF IsGrid THEN price ELSE @,
          !.replay = [quantity |-> @.quantity + n, cost |-> Plus(@.cost, Whole(n * price))]]

\* The replay releases the average cost.
Sold(b, n, price) ==
  IF n <= 0 THEN b
  ELSE [b EXCEPT
          !.cash = @ + n * price,
          !.shares = @ - n,
          !.entry = IF b.shares = n THEN NoPrice ELSE @,
          !.reference = IF IsGrid THEN price ELSE @,
          !.realized = Plus(@, Times(n, Minus(Whole(price), b.entry))),
          !.replay = IF @.quantity = n THEN [quantity |-> 0, cost |-> Zero]
                     ELSE [quantity |-> @.quantity - n,
                           cost |-> Minus(@.cost, Times(n, Over(@.cost, @.quantity)))]]

MayExit(b, price) ==
  setting.stopLoss \/ b.entry = NoPrice \/ AtMost(b.entry, Whole(price))

EnterLong(b, price) == IF b.shares = 0 THEN Bought(b, b.cash \div price, price) ELSE b
ExitLong(b, price) == IF MayExit(b, price) THEN Sold(b, b.shares, price) ELSE b

\* Mutant of GridBuy: the signal has compared the holding with its limit.
GridBuyUncapped(b, price) == Bought(b, Min({b.lot, b.cash \div price}), price)

GridBuy(b, price) ==
  Bought(b, Min({b.lot, Max({0, setting.grid.most - b.shares}), b.cash \div price}), price)

\* Mutant of GridSell: the stop-loss option is not asked.
GridSellAnyway(b, price) ==
  Sold(b, Min({b.lot, Max({0, b.shares - setting.grid.least})}), price)

GridSell(b, price) ==
  IF MayExit(b, price)
  THEN Sold(b, Min({b.lot, Max({0, b.shares - setting.grid.least})}), price)
  ELSE b

\* The order is executed if it can be; what cannot is dropped.
Executed(b, side, price) ==
  CASE side = "buy" -> IF IsGrid THEN GridBuy(b, price) ELSE EnterLong(b, price)
    [] side = "sell" -> IF IsGrid THEN GridSell(b, price) ELSE ExitLong(b, price)
    [] side = "none" -> b

-----------------------------------------------------------------------------
(* One row *)

\* Mutant of Opened: the replay does not know the initial holding.
OpenedUnlisted(b, open) ==
  IF rows > 0 \/ ~IsGrid THEN b
  ELSE LET n == setting.grid.initial
       IN [b EXCEPT !.shares = n,
                    !.entry = IF n > 0 THEN Whole(open) ELSE NoPrice,
                    !.lot = IF setting.grid.quantity > 0 THEN setting.grid.quantity
                            ELSE Capital \div (10 * open),
                    !.start = Capital + n * open]

\* The grid starts with its holding, bought at the first open.
Opened(b, open) ==
  IF rows > 0 \/ ~IsGrid THEN b
  ELSE LET n == setting.grid.initial
       IN [b EXCEPT !.shares = n,
                    !.entry = IF n > 0 THEN Whole(open) ELSE NoPrice,
                    !.lot = IF setting.grid.quantity > 0 THEN setting.grid.quantity
                            ELSE Capital \div (10 * open),
                    !.start = Capital + n * open,
                    !.replay = [quantity |-> n, cost |-> Whole(n * open)]]

Paid(b, payout) ==
  IF setting.dividends
  THEN [b EXCEPT !.cash = @ + b.shares * payout, !.received = @ + b.shares * payout]
  ELSE b

\* Signals of the first row: at its open, or an order for the next one.
AtStart(b, s, open) ==
  IF rows > 0 \/ IsGrid \/ b.shares # 0 THEN b
  ELSE IF setting.mode = "next_open"
       THEN [b EXCEPT !.order = IF s.buy THEN "buy" ELSE IF s.sell THEN "sell" ELSE @]
       ELSE IF s.buy THEN EnterLong(b, open) ELSE b

\* What AtStart has used of the signals is not used again at the close.
Remaining(s) ==
  IF rows > 0 \/ IsGrid THEN s
  ELSE [buy |-> FALSE, sell |-> s.buy /\ s.sell]

\* Mutant of FilledAtOpen: an order that was not filled waits on.
FilledOrWaiting(b, open) ==
  IF setting.mode = "next_open" /\ rows > 0
  THEN LET f == Executed(b, b.order, open)
       IN IF f = b THEN b ELSE [f EXCEPT !.order = "none"]
  ELSE b

FilledAtOpen(b, open) ==
  IF setting.mode = "next_open" /\ rows > 0
  THEN [Executed(b, b.order, open) EXCEPT !.order = "none"]
  ELSE b

Anchored(b, open) ==
  IF IsGrid /\ b.reference = 0 THEN [b EXCEPT !.reference = open] ELSE b

GridSignal(b, high, low, close) ==
  LET sells == b.shares > setting.grid.least /\ 100 * high >= b.reference * (100 + Step)
  IN [sell |-> sells,
      buy |-> /\ ~sells /\ b.shares < setting.grid.most /\ b.cash >= close
              /\ 100 * low <= b.reference * (100 - Step)]

\* The order that the signals of a completed row place.
Decision(b, s) ==
  CASE s.buy -> IF IsGrid \/ b.shares <= 0 THEN "buy" ELSE "none"
    [] ~s.buy /\ s.sell -> IF IsGrid \/ b.shares > 0 THEN "sell" ELSE "none"
    [] OTHER -> "none"

AtClose(b, s, close) ==
  IF setting.mode = "signal_close"
  THEN Executed(b, IF s.buy THEN "buy" ELSE IF s.sell THEN "sell" ELSE "none", close)
  ELSE IF b.order = "none" THEN [b EXCEPT !.order = Decision(b, s)] ELSE b

Row(open, high, low, close, payout, given) ==
  LET opened == FilledAtOpen(AtStart(Paid(Opened(book, open), payout), given, open), open)
      anchored == Anchored(opened, open)
      s == IF IsGrid THEN GridSignal(anchored, high, low, close) ELSE Remaining(given)
  IN /\ book' = AtClose(anchored, s, close)
     /\ signal' = IF IsGrid THEN s ELSE given

SingleNext ==
  /\ rows < MaxRows /\ rows' = rows + 1
  /\ \E open, close \in Prices, payout \in Payouts :
       IF IsGrid
       THEN \E high \in {p \in Prices : p >= open /\ p >= close},
               low \in {p \in Prices : p <= open /\ p <= close} :
              Row(open, high, low, close, payout, Neither)
       ELSE \E given \in [buy : BOOLEAN, sell : BOOLEAN] :
              Row(open, open, open, close, payout, given)
  /\ UNCHANGED setting

-----------------------------------------------------------------------------
(* Properties *)

\* Nothing is spent that is not there, and the books add up: what the backtest
\* started with, the gains it reports for its sales and the dividends it was
\* paid are what it holds in cash and in shares at cost.
SingleAddsUp ==
  /\ book.cash >= 0
  /\ Equal(Plus(Whole(book.start + book.received), book.realized),
           Plus(Whole(book.cash), Times(book.shares, book.entry)))

\* The transaction table, replayed on its own, arrives at the position and the
\* average cost that the engine traded with.
SingleReplays ==
  /\ book.replay.quantity = book.shares
  /\ Equal(book.replay.cost, Times(book.shares, book.entry))

\* Orders from closed rows never carry the grid over its limits, although the
\* signal saw another position and another price than the fill.
GridWithinLimits ==
  IsGrid /\ rows > 0 => book.shares \in setting.grid.least .. setting.grid.most

\* An order that waits for an open is the last row's own: none outlives a row
\* whose open it was not filled at.
OrderIsFresh ==
  /\ book.order = "buy" => signal.buy
  /\ book.order = "sell" => signal.sell

\* Without stop-loss exits no sale realizes a loss.
SingleLossless == ~setting.stopLoss => AtMost(book.realized, book'.realized)
=============================================================================
