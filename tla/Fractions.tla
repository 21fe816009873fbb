------------------------------ MODULE Fractions ------------------------------
(***************************************************************************)
(* Exact fractions <<numerator, denominator>> for average costs and gains, *)
(* which the code keeps as floating-point numbers.                         *)
(***************************************************************************)
EXTENDS Integers, FiniteSetsExt

Fraction == Int \X (Nat \ {0})

Whole(n) == <<n, 1>>
Zero == Whole(0)

\* In lowest terms.
Reduced(f) ==
  LET c == Max({d \in 1..f[2] : f[1] % d = 0 /\ f[2] % d = 0})
  IN <<f[1] \div c, f[2] \div c>>

Plus(f, g) == Reduced(<<f[1] * g[2] + g[1] * f[2], f[2] * g[2]>>)
Minus(f, g) == Reduced(<<f[1] * g[2] - g[1] * f[2], f[2] * g[2]>>)
Times(n, f) == Reduced(<<n * f[1], f[2]>>)
Over(f, n) == Reduced(<<f[1], f[2] * n>>)
AtMost(f, g) == f[1] * g[2] <= g[1] * f[2]
Equal(f, g) == f[1] * g[2] = g[1] * f[2]
=============================================================================
