------------------------------ MODULE Backtests ------------------------------
(***************************************************************************)
(* The two engines of strategies/backtest.py side by side: that of one     *)
(* ticker and that of a rotation.  They share no state.                    *)
(***************************************************************************)
EXTENDS SingleBacktest, RotationBacktest

BacktestVars == <<singleVars, rotationVars>>

BacktestInit == SingleInit /\ RotationInit

BacktestNext ==
  \/ SingleNext /\ UNCHANGED rotationVars
  \/ RotationNext /\ UNCHANGED singleVars

BacktestSpec == BacktestInit /\ [][BacktestNext]_BacktestVars

-----------------------------------------------------------------------------
(* Properties *)

\* The books of either backtest add up, and its transaction table replays to
\* the position it trades with.
BooksAgree == SingleAddsUp /\ SingleReplays /\ RotationAddsUp /\ RotationReplays

\* An order from a closed row neither breaks a limit at the open that fills it
\* nor waits for another one.
OrdersSafe == GridWithinLimits /\ OrderIsFresh

\* Without stop-loss exits neither backtest realizes a loss.
NoLoss == [][SingleLossless /\ RotationLossless]_BacktestVars
=============================================================================
