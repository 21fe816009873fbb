---------------------------- MODULE ResearchProofs ----------------------------
(***************************************************************************)
(* Research, for any size of it.  The books of a backtest add up in exact  *)
(* fractions for any prices, dividends, capital, limits and number of rows *)
(* and whatever is bought, sold and reinvested at whatever average cost.   *)
(* A CRPS search that is killed and resumed any number of times takes the  *)
(* course of one that is not, for any candidates, population size and      *)
(* length of the leaderboard, and its holdout chooses nothing.             *)
(***************************************************************************)
EXTENDS Backtests, CrpsSearch, FiniteSetTheorems, SequenceTheorems,
        WellFoundedInduction, TLAPS

-----------------------------------------------------------------------------
(* Fractions.  The proofs bring all fractions of a sum to one denominator *)
(* and calculate with the numerators.                                     *)

\* A set of naturals has a least element.
LEMMA LeastNatural ==
  ASSUME NEW T, T \subseteq Nat, T # {}
  PROVE  \E x \in T : \A y \in T : x <= y
<1> DEFINE R == OpToRel(<, Nat)
<1>1. PICK x \in T : \A y \in T : ~ (<<y, x>> \in R)
  <2> HIDE DEF R
  <2>1. IsWellFoundedOn(R, Nat)
    BY NatLessThanWellFounded DEF R
  <2> QED
    BY <2>1, WFMin
<1>2. \A y \in T : ~ (y < x)
  BY <1>1 DEF OpToRel
<1> QED
  BY <1>2

\* A bounded set of positive naturals has a greatest element.
LEMMA Greatest ==
  ASSUME NEW n \in Nat, NEW T, T \subseteq 1..n, T # {}
  PROVE  Max(T) \in T
<1> DEFINE U == {k \in Nat : n - k \in T}
<1>1. U \subseteq Nat /\ U # {}
  <2>1. PICK x \in T : TRUE
    OBVIOUS
  <2>2. x \in 1..n
    OBVIOUS
  <2>3. n - x \in Nat /\ n - (n - x) = x
    BY <2>2
  <2>4. n - x \in U
    BY <2>3
  <2> QED
    BY <2>4
<1>2. PICK u \in U : \A v \in U : u <= v
  <2> HIDE DEF U
  <2> QED
    BY <1>1, LeastNatural
<1>3. ASSUME NEW y \in T PROVE n - u >= y
  <2>1. y \in 1..n
    OBVIOUS
  <2>2. n - y \in Nat /\ n - (n - y) = y
    BY <2>1
  <2>3. n - y \in U /\ u \in Nat
    BY <2>2
  <2>4. u <= n - y
    <3> HIDE DEF U
    <3> QED
      BY <1>2, <2>3
  <2> QED
    BY <2>1, <2>3, <2>4
<1>4. n - u \in T
  OBVIOUS
<1> HIDE DEF U
<1> QED
  BY <1>3, <1>4 DEF Max

\* A fraction in lowest terms is the same fraction.
LEMMA ReducedEqual ==
  ASSUME NEW f \in Fraction
  PROVE  Reduced(f) \in Fraction /\ Equal(Reduced(f), f)
<1> DEFINE T == {d \in 1..f[2] : f[1] % d = 0 /\ f[2] % d = 0}
           c == Max(T)
           x == f[1] \div c
           y == f[2] \div c
<1>1. f[1] \in Int /\ f[2] \in Nat /\ f[2] > 0
  BY DEF Fraction
<1>2. T \subseteq 1..f[2] /\ 1 \in T
  BY <1>1
<1>3. c \in T
  <2> HIDE DEF T
  <2> QED
    BY <1>1, <1>2, Greatest
<1>4. Reduced(f) = <<x, y>>
  BY DEF Reduced
<1> HIDE DEF c
<1>5. c \in Nat /\ c > 0 /\ f[1] = c * x /\ f[2] = c * y /\ x \in Int /\ y \in Int
  BY <1>1, <1>3
<1>6. y > 0
  BY <1>1, <1>5
<1> HIDE DEF x, y
<1>7. x * f[2] = f[1] * y
  BY <1>5
<1> QED
  BY <1>4, <1>5, <1>6, <1>7 DEF Fraction, Equal

\* f is x parts of which d make a whole.
Stands(f, x, d) == f \in Fraction /\ f[1] * d = x * f[2]

\* A factor that is not zero can be cancelled.
LEMMA Cancel ==
  ASSUME NEW a \in Int, NEW b \in Int, NEW c \in Int, c # 0, a * c = b * c
  PROVE  a = b
OBVIOUS

\* Reducing keeps the parts.
LEMMA ReducedStands ==
  ASSUME NEW x \in Int, NEW d \in Nat \ {0}, NEW f, Stands(f, x, d)
  PROVE  Stands(Reduced(f), x, d)
<1> DEFINE r == Reduced(f)
<1>1. f \in Fraction /\ f[1] * d = x * f[2] /\ r \in Fraction /\ r[1] * f[2] = f[1] * r[2]
  BY ReducedEqual DEF Stands, Equal
<1> HIDE DEF r
<1>2. f[1] \in Int /\ f[2] \in Nat \ {0} /\ r[1] \in Int /\ r[2] \in Nat \ {0}
  BY <1>1 DEF Fraction
<1>3. (r[1] * d) * f[2] = (x * r[2]) * f[2]
  <2>1. (r[1] * d) * f[2] = (r[1] * f[2]) * d
    BY <1>2
  <2>2. (f[1] * r[2]) * d = (f[1] * d) * r[2]
    BY <1>2
  <2>3. (x * f[2]) * r[2] = (x * r[2]) * f[2]
    BY <1>2
  <2> QED
    BY <1>1, <2>1, <2>2, <2>3
<1>4. r[1] * d = x * r[2]
  BY <1>2, <1>3, Cancel
<1> QED
  BY <1>1, <1>4 DEF Stands, r

\* The parts of a whole, a sum, a difference, a multiple and a quotient.
LEMMA WholeStands ==
  ASSUME NEW n \in Int, NEW d \in Nat \ {0}
  PROVE  Stands(Whole(n), n * d, d)
BY DEF Stands, Whole, Fraction

\* Sums and differences over a common denominator.
LEMMA PlusStands ==
  ASSUME NEW x \in Int, NEW y \in Int, NEW d \in Nat \ {0}, NEW f, NEW g,
         Stands(f, x, d), Stands(g, y, d)
  PROVE  Stands(Plus(f, g), x + y, d) /\ Stands(Minus(f, g), x - y, d)
<1>1. /\ f[1] \in Int /\ f[2] \in Nat \ {0} /\ g[1] \in Int /\ g[2] \in Nat \ {0}
      /\ f[1] * d = x * f[2] /\ g[1] * d = y * g[2]
  BY DEF Stands, Fraction
<1>2. f[2] * g[2] \in Nat \ {0}
  BY <1>1
<1>3. /\ (f[1] * g[2]) * d = x * (f[2] * g[2])
      /\ (g[1] * f[2]) * d = y * (f[2] * g[2])
  <2>1. (f[1] * g[2]) * d = (f[1] * d) * g[2] /\ (x * f[2]) * g[2] = x * (f[2] * g[2])
    BY <1>1
  <2>2. (g[1] * f[2]) * d = (g[1] * d) * f[2] /\ (y * g[2]) * f[2] = y * (f[2] * g[2])
    BY <1>1
  <2> QED
    BY <1>1, <2>1, <2>2
<1> DEFINE a == f[1] * g[2]
           b == g[1] * f[2]
           e == f[2] * g[2]
<1>4. a \in Int /\ b \in Int /\ e \in Nat \ {0} /\ a * d = x * e /\ b * d = y * e
  BY <1>1, <1>2, <1>3
<1> HIDE DEF a, b, e
<1>5. (a + b) * d = (x + y) * e /\ (a - b) * d = (x - y) * e
  BY <1>4
<1>6. Stands(<<a + b, e>>, x + y, d) /\ Stands(<<a - b, e>>, x - y, d)
  BY <1>4, <1>5 DEF Stands, Fraction
<1>7. Stands(Reduced(<<a + b, e>>), x + y, d) /\ Stands(Reduced(<<a - b, e>>), x - y, d)
  BY <1>6, ReducedStands
<1> QED
  BY <1>7 DEF Plus, Minus, a, b, e

\* A product with an integer, in numerators.
LEMMA TimesStands ==
  ASSUME NEW n \in Int, NEW x \in Int, NEW d \in Nat \ {0}, NEW f, Stands(f, x, d)
  PROVE  Stands(Times(n, f), n * x, d)
<1>1. f[1] \in Int /\ f[2] \in Nat \ {0} /\ f[1] * d = x * f[2]
  BY DEF Stands, Fraction
<1>2. (n * f[1]) * d = (n * x) * f[2]
  BY <1>1
<1>3. Stands(<<n * f[1], f[2]>>, n * x, d)
  BY <1>1, <1>2 DEF Stands, Fraction
<1> QED
  BY <1>3, ReducedStands DEF Times

\* A quotient by a natural, in numerators.
LEMMA OverStands ==
  ASSUME NEW n \in Nat \ {0}, NEW x \in Int, NEW d \in Nat \ {0}, NEW f, Stands(f, n * x, d)
  PROVE  Stands(Over(f, n), x, d)
<1>1. f[1] \in Int /\ f[2] \in Nat \ {0} /\ f[1] * d = (n * x) * f[2]
  BY DEF Stands, Fraction
<1>2. f[1] * d = x * (f[2] * n) /\ f[2] * n \in Nat \ {0}
  BY <1>1
<1>3. Stands(<<f[1], f[2] * n>>, x, d)
  BY <1>1, <1>2 DEF Stands, Fraction
<1> QED
  BY <1>3, ReducedStands DEF Over

\* Fractions of one denominator compare as their parts.
LEMMA Compare ==
  ASSUME NEW x \in Int, NEW y \in Int, NEW d \in Nat \ {0}, NEW f, NEW g,
         Stands(f, x, d), Stands(g, y, d)
  PROVE  (Equal(f, g) <=> x = y) /\ (AtMost(f, g) <=> x <= y)
<1>1. /\ f[1] \in Int /\ f[2] \in Nat \ {0} /\ g[1] \in Int /\ g[2] \in Nat \ {0}
      /\ f[1] * d = x * f[2] /\ g[1] * d = y * g[2]
  BY DEF Stands, Fraction
<1> DEFINE a == f[1] * g[2]
           b == g[1] * f[2]
           e == f[2] * g[2]
<1>2. a \in Int /\ b \in Int /\ e \in Nat \ {0}
  BY <1>1
<1>3. a * d = x * e /\ b * d = y * e
  <2>1. a * d = (f[1] * d) * g[2] /\ (x * f[2]) * g[2] = x * e
    BY <1>1
  <2>2. b * d = (g[1] * d) * f[2] /\ (y * g[2]) * f[2] = y * e
    BY <1>1
  <2> QED
    BY <1>1, <2>1, <2>2
<1>4. Equal(f, g) <=> a = b
  BY DEF Equal
<1>5. AtMost(f, g) <=> a <= b
  BY DEF AtMost
<1> HIDE DEF a, b, e
<1>6. a = b <=> x = y
  BY <1>2, <1>3, Cancel
<1>7. ASSUME NEW p \in Int, NEW q \in Int, NEW k \in Nat \ {0}
      PROVE  p <= q <=> p * k <= q * k
  <2>1. q * k - p * k = (q - p) * k
    OBVIOUS
  <2>2. q - p >= 0 <=> (q - p) * k >= 0
    OBVIOUS
  <2> QED
    BY <2>1, <2>2
<1>8. a <= b <=> x <= y
  BY <1>2, <1>3, <1>7
<1> QED
  BY <1>4, <1>5, <1>6, <1>8

\* Three fractions have a common denominator, of which each has a multiple of m.
LEMMA Common ==
  ASSUME NEW f \in Fraction, NEW g \in Fraction, NEW h \in Fraction, NEW m \in Nat \ {0}
  PROVE  \E d \in Nat \ {0} : \E x, y, z \in Int :
           Stands(f, m * x, m * d) /\ Stands(g, m * y, m * d) /\ Stands(h, m * z, m * d)
<1>1. /\ f[1] \in Int /\ f[2] \in Nat \ {0} /\ g[1] \in Int /\ g[2] \in Nat \ {0}
      /\ h[1] \in Int /\ h[2] \in Nat \ {0}
  BY DEF Fraction
<1> DEFINE d == f[2] * (g[2] * h[2])
           x == f[1] * (g[2] * h[2])
           y == g[1] * (f[2] * h[2])
           z == h[1] * (f[2] * g[2])
<1>2. d \in Nat \ {0} /\ x \in Int /\ y \in Int /\ z \in Int
  BY <1>1
<1>3. f[1] * (m * d) = (m * x) * f[2]
  BY <1>1
<1>4. g[1] * (m * d) = (m * y) * g[2]
  BY <1>1
<1>5. h[1] * (m * d) = (m * z) * h[2]
  BY <1>1
<1> QED
  BY <1>2, <1>3, <1>4, <1>5 DEF Stands

\* Arithmetic on fractions makes fractions.
LEMMA FractionType ==
  ASSUME NEW f \in Fraction, NEW g \in Fraction, NEW n \in Int, NEW m \in Nat \ {0}
  PROVE  /\ Whole(n) \in Fraction /\ Plus(f, g) \in Fraction /\ Minus(f, g) \in Fraction
         /\ Times(n, f) \in Fraction /\ Over(f, m) \in Fraction
<1>1. f[1] \in Int /\ f[2] \in Nat \ {0} /\ g[1] \in Int /\ g[2] \in Nat \ {0}
  BY DEF Fraction
<1>2. /\ <<f[1] * g[2] + g[1] * f[2], f[2] * g[2]>> \in Fraction
      /\ <<f[1] * g[2] - g[1] * f[2], f[2] * g[2]>> \in Fraction
  BY <1>1 DEF Fraction
<1>3. <<n * f[1], f[2]>> \in Fraction /\ <<f[1], f[2] * m>> \in Fraction
  BY <1>1 DEF Fraction
<1> QED
  BY <1>2, <1>3, ReducedEqual DEF Whole, Plus, Minus, Times, Over, Fraction

\* The same, one operation at a time.
LEMMA FractionTypes ==
  /\ \A n \in Int : Whole(n) \in Fraction
  /\ \A f, g \in Fraction : Plus(f, g) \in Fraction /\ Minus(f, g) \in Fraction
  /\ \A n \in Int, f \in Fraction : Times(n, f) \in Fraction
  /\ \A f \in Fraction, m \in Nat \ {0} : Over(f, m) \in Fraction
<1>1. 0 \in Int /\ 1 \in Nat \ {0} /\ <<0, 1>> \in Fraction
  BY DEF Fraction
<1> QED
  BY <1>1, FractionType

\* Cash and s shares at average cost e are the total and its gains r; k is the
\* cost of the shares.
Sums(total, r, cash, s, e) == Equal(Plus(Whole(total), r), Plus(Whole(cash), Times(s, e)))
Costs(k, s, e) == Equal(k, Times(s, e))

Parts(e, r, k, d, x, y, z) ==
  /\ d \in Nat \ {0} /\ x \in Int /\ y \in Int /\ z \in Int
  /\ Stands(e, x, d) /\ Stands(r, y, d) /\ Stands(k, z, d)

\* They balance if their parts do.
LEMMA Balance ==
  ASSUME NEW d, NEW x, NEW y, NEW z, NEW e, NEW r, NEW k, Parts(e, r, k, d, x, y, z),
         NEW s \in Int, NEW total \in Int, NEW cash \in Int
  PROVE  /\ Sums(total, r, cash, s, e) <=> total * d + y = cash * d + s * x
         /\ Costs(k, s, e) <=> z = s * x
<1>p. /\ d \in Nat \ {0} /\ x \in Int /\ y \in Int /\ z \in Int
      /\ Stands(e, x, d) /\ Stands(r, y, d) /\ Stands(k, z, d)
  BY DEF Parts
<1>1. s * x \in Int /\ total * d \in Int /\ cash * d \in Int
  BY <1>p
<1>2. Stands(Times(s, e), s * x, d)
  BY <1>p, TimesStands
<1>3. Stands(Whole(total), total * d, d) /\ Stands(Whole(cash), cash * d, d)
  BY <1>p, WholeStands
<1> DEFINE a == total * d
           b == cash * d
           c == s * x
<1> HIDE DEF a, b, c
<1>4. Stands(Plus(Whole(total), r), a + y, d)
  BY <1>p, <1>1, <1>3, PlusStands DEF a
<1>5. Stands(Plus(Whole(cash), Times(s, e)), b + c, d)
  BY <1>p, <1>1, <1>2, <1>3, PlusStands DEF b, c
<1>6. a + y \in Int /\ b + c \in Int /\ c \in Int
  BY <1>p, <1>1 DEF a, b, c
<1>7. Equal(Plus(Whole(total), r), Plus(Whole(cash), Times(s, e))) <=> a + y = b + c
  BY <1>p, <1>4, <1>5, <1>6, Compare
<1>8. Equal(k, Times(s, e)) <=> z = c
  BY <1>p, <1>2, <1>6, Compare DEF c
<1> QED
  BY <1>7, <1>8 DEF a, b, c, Sums, Costs

\* Three fractions have parts of which each has a factor m.
LEMMA CommonParts ==
  ASSUME NEW e \in Fraction, NEW r \in Fraction, NEW k \in Fraction, NEW m \in Nat \ {0}
  PROVE  \E d \in Nat \ {0} : \E x, y, z \in Int : Parts(e, r, k, m * d, m * x, m * y, m * z)
<1>1. PICK d \in Nat \ {0} : \E x, y, z \in Int :
        Stands(e, m * x, m * d) /\ Stands(r, m * y, m * d) /\ Stands(k, m * z, m * d)
  BY Common
<1>2. PICK x \in Int, y \in Int, z \in Int :
        Stands(e, m * x, m * d) /\ Stands(r, m * y, m * d) /\ Stands(k, m * z, m * d)
  BY <1>1
<1>3. m * d \in Nat \ {0} /\ m * x \in Int /\ m * y \in Int /\ m * z \in Int
  OBVIOUS
<1> QED
  BY <1>2, <1>3 DEF Parts

-----------------------------------------------------------------------------
(* One ticker *)

Books == [cash : Nat, shares : Nat, entry : Fraction, reference : Nat, lot : Nat,
          order : {"none", "buy", "sell"}, start : Nat, realized : Fraction, received : Nat,
          replay : [quantity : Nat, cost : Fraction]]

\* SingleAddsUp and SingleReplays for the book within a row.
AddsUp(b) == Sums(b.start + b.received, b.realized, b.cash, b.shares, b.entry)

Replays(b) == b.replay.quantity = b.shares /\ Costs(b.replay.cost, b.shares, b.entry)

Sound(b) == b \in Books /\ AddsUp(b) /\ Replays(b)

\* What a purchase writes.
LEMMA BoughtFields ==
  ASSUME NEW b \in Books, NEW n \in Nat \ {0}, NEW price \in Nat \ {0}, n * price <= b.cash
  PROVE  /\ Bought(b, n, price) \in Books
         /\ Bought(b, n, price).cash = b.cash - n * price
         /\ Bought(b, n, price).shares = b.shares + n
         /\ Bought(b, n, price).entry =
              Over(Plus(Times(b.shares, b.entry), Whole(n * price)), b.shares + n)
         /\ Bought(b, n, price).replay.quantity = b.replay.quantity + n
         /\ Bought(b, n, price).replay.cost = Plus(b.replay.cost, Whole(n * price))
         /\ Bought(b, n, price).order = b.order /\ Bought(b, n, price).start = b.start
         /\ Bought(b, n, price).realized = b.realized /\ Bought(b, n, price).received = b.received
         /\ Bought(b, n, price).lot = b.lot
<1> DEFINE e == Over(Plus(Times(b.shares, b.entry), Whole(n * price)), b.shares + n)
           k == Plus(b.replay.cost, Whole(n * price))
           c == [b EXCEPT
                   !.cash = b.cash - n * price,
                   !.shares = b.shares + n,
                   !.entry = e,
                   !.reference = IF IsGrid THEN price ELSE b.reference,
                   !.replay = [quantity |-> b.replay.quantity + n, cost |-> k]]
<1>1. Bought(b, n, price) = c
  BY DEF Bought
<1>2. e \in Fraction /\ k \in Fraction
  <2>1. /\ b.shares \in Int /\ b.shares + n \in Nat \ {0} /\ n * price \in Int
        /\ b.entry \in Fraction /\ b.replay.cost \in Fraction
    BY DEF Books
  <2>2. Whole(n * price) \in Fraction /\ Times(b.shares, b.entry) \in Fraction
    BY <2>1, FractionType
  <2>3. Plus(Times(b.shares, b.entry), Whole(n * price)) \in Fraction
    BY <2>1, <2>2, FractionType
  <2> QED
    BY <2>1, <2>2, <2>3, FractionType
<1> HIDE DEF e, k
<1>3. /\ b.cash - n * price \in Nat /\ b.shares + n \in Nat /\ b.replay.quantity + n \in Nat
      /\ (IF IsGrid THEN price ELSE b.reference) \in Nat
  BY DEF Books
<1>4. c \in Books
  BY <1>2, <1>3 DEF Books
<1>5. /\ c.cash = b.cash - n * price /\ c.shares = b.shares + n /\ c.entry = e
      /\ c.replay = [quantity |-> b.replay.quantity + n, cost |-> k]
      /\ c.order = b.order /\ c.start = b.start /\ c.realized = b.realized
      /\ c.received = b.received /\ c.lot = b.lot
  BY DEF Books
<1> HIDE DEF c
<1> QED
  BY <1>1, <1>4, <1>5 DEF e, k

\* A purchase that cash covers keeps the books.
LEMMA BoughtSound ==
  ASSUME NEW b, Sound(b), NEW n \in Nat \ {0}, NEW price \in Nat \ {0}, n * price <= b.cash
  PROVE  Sound(Bought(b, n, price))
<1> DEFINE c == Bought(b, n, price)
           s == b.shares
           m == s + n
           p == n * price
<1>1. b \in Books /\ AddsUp(b) /\ Replays(b)
  BY DEF Sound
<1>2. /\ s \in Nat /\ m \in Nat \ {0} /\ p \in Nat /\ b.cash \in Nat
      /\ b.start \in Nat /\ b.received \in Nat
      /\ b.entry \in Fraction /\ b.realized \in Fraction /\ b.replay.cost \in Fraction
  BY <1>1 DEF Books
<1>3. /\ c \in Books /\ c.cash = b.cash - p /\ c.shares = m
      /\ c.entry = Over(Plus(Times(s, b.entry), Whole(p)), m)
      /\ c.replay.quantity = b.replay.quantity + n /\ c.replay.cost = Plus(b.replay.cost, Whole(p))
      /\ c.start = b.start /\ c.realized = b.realized /\ c.received = b.received
  BY <1>1, BoughtFields
<1> HIDE DEF c, p
<1>4. PICK d \in Nat \ {0} : \E x, y, z \in Int :
        Parts(b.entry, b.realized, b.replay.cost, m * d, m * x, m * y, m * z)
  BY <1>2, CommonParts
<1>5. PICK x \in Int, y \in Int, z \in Int :
        Parts(b.entry, b.realized, b.replay.cost, m * d, m * x, m * y, m * z)
  BY <1>4
<1> DEFINE D == m * d
           X == m * x
           Y == m * y
           Z == m * z
           q == s * x + p * d
           total == b.start + b.received
<1>6. /\ D \in Nat \ {0} /\ X \in Int /\ Y \in Int /\ Z \in Int /\ q \in Int /\ total \in Int
      /\ s \in Int /\ m \in Int /\ p \in Int /\ b.cash \in Int /\ b.cash - p \in Int
      /\ s * X \in Int /\ p * D \in Int
  BY <1>2
<1>7. m * q = s * X + p * D
  BY <1>2
<1>8. Parts(b.entry, b.realized, b.replay.cost, D, X, Y, Z)
  BY <1>5
<1>9. Sums(total, b.realized, b.cash, s, b.entry) /\ Costs(b.replay.cost, s, b.entry)
  BY <1>1 DEF AddsUp, Replays
<1> HIDE DEF D, X, Y, Z, q, total, s, m
<1>10. total * D + Y = b.cash * D + s * X /\ Z = s * X
  BY <1>6, <1>8, <1>9, Balance
<1>11. Stands(c.entry, q, D)
  <2>1. Stands(Times(s, b.entry), s * X, D) /\ Stands(Whole(p), p * D, D)
    BY <1>6, <1>8, TimesStands, WholeStands DEF Parts
  <2>2. Stands(Plus(Times(s, b.entry), Whole(p)), m * q, D)
    BY <1>6, <1>7, <2>1, PlusStands
  <2> QED
    BY <1>2, <1>3, <1>6, <2>2, OverStands
<1>12. Stands(c.replay.cost, Z + p * D, D)
  <2>1. Stands(Whole(p), p * D, D)
    BY <1>6, WholeStands
  <2> QED
    BY <1>3, <1>6, <1>8, <2>1, PlusStands DEF Parts
<1>13. Parts(c.entry, c.realized, c.replay.cost, D, q, Y, Z + p * D)
  <2>1. Z + p * D \in Int
    BY <1>6
  <2> QED
    BY <1>3, <1>6, <1>8, <1>11, <1>12, <2>1 DEF Parts
<1>14. total * D + Y = (b.cash - p) * D + m * q /\ Z + p * D = m * q
  <2> DEFINE A == total * D
             B == b.cash * D
             P == p * D
             S == s * X
             M == m * q
  <2>1. (b.cash - p) * D = B - P
    BY <1>6
  <2>2. A \in Int /\ B \in Int /\ P \in Int /\ S \in Int /\ M \in Int
    BY <1>6
  <2>3. M = S + P /\ A + Y = B + S /\ Z = S
    BY <1>7, <1>10
  <2> HIDE DEF A, B, P, S, M
  <2>4. A + Y = (B - P) + M /\ Z + P = M
    BY <1>6, <2>2, <2>3
  <2> QED
    BY <2>1, <2>4 DEF A, P, M
<1>15. Sums(total, c.realized, b.cash - p, m, c.entry) /\ Costs(c.replay.cost, m, c.entry)
  <2> DEFINE w == Z + p * D
             u == b.cash - p
  <2>1. Parts(c.entry, c.realized, c.replay.cost, D, q, Y, w)
    BY <1>13
  <2>2. u \in Int /\ m \in Int /\ total \in Int
    BY <1>6
  <2>3. total * D + Y = u * D + m * q /\ w = m * q
    BY <1>14
  <2> HIDE DEF w, u
  <2>4. /\ Sums(total, c.realized, u, m, c.entry) <=> total * D + Y = u * D + m * q
        /\ Costs(c.replay.cost, m, c.entry) <=> w = m * q
    BY <2>1, <2>2, Balance
  <2> QED
    BY <2>3, <2>4 DEF u
<1>16. c.replay.quantity = m
  BY <1>1, <1>3 DEF Replays, m, s
<1> QED
  BY <1>3, <1>15, <1>16 DEF Sound, AddsUp, Replays, c, total

\* What a sale writes.
LEMMA SoldFields ==
  ASSUME NEW b \in Books, NEW n \in 1..b.shares, NEW price \in Nat \ {0},
         b.replay.quantity = b.shares
  PROVE  /\ Sold(b, n, price) \in Books
         /\ Sold(b, n, price).cash = b.cash + n * price
         /\ Sold(b, n, price).shares = b.shares - n
         /\ Sold(b, n, price).entry = IF b.shares = n THEN Zero ELSE b.entry
         /\ Sold(b, n, price).realized =
              Plus(b.realized, Times(n, Minus(Whole(price), b.entry)))
         /\ Sold(b, n, price).replay.quantity = b.shares - n
         /\ Sold(b, n, price).replay.cost =
              IF b.shares = n THEN Zero
              ELSE Minus(b.replay.cost, Times(n, Over(b.replay.cost, b.shares)))
         /\ Sold(b, n, price).order = b.order /\ Sold(b, n, price).start = b.start
         /\ Sold(b, n, price).received = b.received /\ Sold(b, n, price).lot = b.lot
<1> DEFINE e == IF b.shares = n THEN Zero ELSE b.entry
           g == Plus(b.realized, Times(n, Minus(Whole(price), b.entry)))
           k == Minus(b.replay.cost, Times(n, Over(b.replay.cost, b.shares)))
           r == IF b.shares = n THEN [quantity |-> 0, cost |-> Zero]
                ELSE [quantity |-> b.shares - n, cost |-> k]
           c == [b EXCEPT
                   !.cash = b.cash + n * price,
                   !.shares = b.shares - n,
                   !.entry = e,
                   !.reference = IF IsGrid THEN price ELSE b.reference,
                   !.realized = g,
                   !.replay = r]
<1>1. Sold(b, n, price) = c
  BY DEF Sold, NoPrice
<1>2. e \in Fraction /\ g \in Fraction /\ k \in Fraction /\ Zero \in Fraction
  <2>1. /\ b.shares \in Nat \ {0} /\ n \in Int /\ price \in Int /\ 0 \in Int
        /\ b.entry \in Fraction /\ b.realized \in Fraction /\ b.replay.cost \in Fraction
    BY DEF Books
  <2>2. Whole(price) \in Fraction /\ Zero \in Fraction /\ Over(b.replay.cost, b.shares) \in Fraction
    BY <2>1, FractionType DEF Zero
  <2>3. /\ Minus(Whole(price), b.entry) \in Fraction
        /\ Times(n, Over(b.replay.cost, b.shares)) \in Fraction
    BY <2>1, <2>2, FractionType
  <2>4. Times(n, Minus(Whole(price), b.entry)) \in Fraction
    BY <2>1, <2>3, FractionType
  <2> QED
    BY <2>1, <2>2, <2>3, <2>4, FractionType
<1> HIDE DEF g, k
<1>3. r \in [quantity : Nat, cost : Fraction] /\ r.quantity = b.shares - n
      /\ r.cost = IF b.shares = n THEN Zero ELSE k
  BY <1>2 DEF Books
<1> HIDE DEF e, r
<1>4. /\ b.cash + n * price \in Nat /\ b.shares - n \in Nat
      /\ (IF IsGrid THEN price ELSE b.reference) \in Nat
  BY DEF Books
<1>5. c \in Books
  BY <1>2, <1>3, <1>4 DEF Books
<1>6. /\ c.cash = b.cash + n * price /\ c.shares = b.shares - n /\ c.entry = e
      /\ c.replay = r /\ c.realized = g
      /\ c.order = b.order /\ c.start = b.start /\ c.received = b.received /\ c.lot = b.lot
  BY DEF Books
<1> HIDE DEF c
<1> QED
  BY <1>1, <1>3, <1>5, <1>6 DEF e, g, k

\* A sale keeps the books.
LEMMA SoldSound ==
  ASSUME NEW b, Sound(b), NEW n \in 1..b.shares, NEW price \in Nat \ {0}
  PROVE  /\ Sound(Sold(b, n, price))
         /\ b.entry = Zero \/ AtMost(b.entry, Whole(price))
              => AtMost(b.realized, Sold(b, n, price).realized)
<1> DEFINE c == Sold(b, n, price)
           s == b.shares
<1>1. b \in Books /\ AddsUp(b) /\ Replays(b)
  BY DEF Sound
<1>2. /\ s \in Nat \ {0} /\ n \in Nat \ {0} /\ n <= s /\ b.cash \in Nat
      /\ b.start \in Nat /\ b.received \in Nat
      /\ b.entry \in Fraction /\ b.realized \in Fraction /\ b.replay.cost \in Fraction
  BY <1>1 DEF Books
<1>3. /\ c \in Books /\ c.cash = b.cash + n * price /\ c.shares = s - n
      /\ c.entry = IF s = n THEN Zero ELSE b.entry
      /\ c.realized = Plus(b.realized, Times(n, Minus(Whole(price), b.entry)))
      /\ c.replay.quantity = s - n
      /\ c.replay.cost = IF s = n THEN Zero
                         ELSE Minus(b.replay.cost, Times(n, Over(b.replay.cost, s)))
      /\ c.start = b.start /\ c.received = b.received
  BY <1>1, SoldFields DEF Replays
<1> HIDE DEF c
<1>4. PICK D \in Nat \ {0} : \E x, y, z \in Int :
        Parts(b.entry, b.realized, b.replay.cost, D, x, y, z)
  <2>1. 1 \in Nat \ {0}
    OBVIOUS
  <2>2. PICK d \in Nat \ {0} : \E x, y, z \in Int :
          Parts(b.entry, b.realized, b.replay.cost, 1 * d, 1 * x, 1 * y, 1 * z)
    BY <1>2, <2>1, CommonParts
  <2>3. PICK x \in Int, y \in Int, z \in Int :
          Parts(b.entry, b.realized, b.replay.cost, 1 * d, 1 * x, 1 * y, 1 * z)
    BY <2>2
  <2>4. 1 * d = d /\ 1 * x = x /\ 1 * y = y /\ 1 * z = z
    OBVIOUS
  <2>5. Parts(b.entry, b.realized, b.replay.cost, d, x, y, z)
    BY <2>3, <2>4, Zenon
  <2> QED
    BY <2>5
<1>5. PICK X \in Int, Y \in Int, Z \in Int :
        Parts(b.entry, b.realized, b.replay.cost, D, X, Y, Z)
  BY <1>4
<1> DEFINE total == b.start + b.received
           g == n * (price * D - X)
           v == IF s = n THEN 0 ELSE X
           w == IF s = n THEN 0 ELSE Z - n * X
           u == b.cash + n * price
           t == s - n
<1>6. /\ total \in Int /\ s \in Int /\ n \in Int /\ b.cash \in Int /\ price \in Int
      /\ price * D \in Int /\ price * D - X \in Int /\ g \in Int /\ Y + g \in Int
      /\ v \in Int /\ w \in Int /\ u \in Int /\ t \in Int
  <2>1. n * X \in Int /\ n * price \in Int
    BY <1>2
  <2> QED
    BY <1>2, <2>1
<1>7. Sums(total, b.realized, b.cash, s, b.entry) /\ Costs(b.replay.cost, s, b.entry)
  BY <1>1 DEF AddsUp, Replays
<1>8. total * D + Y = b.cash * D + s * X /\ Z = s * X
  <2> HIDE DEF total, s
  <2> QED
    BY <1>5, <1>6, <1>7, Balance
<1>9. Stands(b.entry, X, D) /\ Stands(b.realized, Y, D) /\ Stands(b.replay.cost, Z, D)
  BY <1>5 DEF Parts
<1>0. Stands(Zero, 0, D)
  BY DEF Stands, Zero, Whole, Fraction
<1>10. Stands(c.entry, v, D)
  BY <1>0, <1>3, <1>9
<1>11. Stands(c.realized, Y + g, D)
  <2>1. Stands(Whole(price), price * D, D)
    BY <1>6, WholeStands
  <2>2. Stands(Minus(Whole(price), b.entry), price * D - X, D)
    BY <1>6, <1>9, <2>1, PlusStands
  <2>3. Stands(Times(n, Minus(Whole(price), b.entry)), g, D)
    BY <1>6, <2>2, TimesStands
  <2> HIDE DEF g
  <2> QED
    BY <1>3, <1>6, <1>9, <2>3, PlusStands
<1>12. Stands(c.replay.cost, w, D)
  <2>1. CASE s = n
    BY <1>0, <1>3, <2>1
  <2>2. CASE s # n
    <3>1. Stands(Over(b.replay.cost, s), X, D)
      BY <1>2, <1>8, <1>9, OverStands
    <3>2. Stands(Times(n, Over(b.replay.cost, s)), n * X, D) /\ n * X \in Int
      BY <1>6, <3>1, TimesStands
    <3>3. Stands(Minus(b.replay.cost, Times(n, Over(b.replay.cost, s))), Z - n * X, D)
      BY <1>9, <3>2, PlusStands
    <3> QED
      BY <1>3, <2>2, <3>3
  <2> QED
    BY <2>1, <2>2
<1>13. Parts(c.entry, c.realized, c.replay.cost, D, v, Y + g, w)
  BY <1>6, <1>10, <1>11, <1>12 DEF Parts
<1>14. total * D + (Y + g) = u * D + t * v /\ w = t * v
  <2> DEFINE A == total * D
             B == b.cash * D
             P == n * (price * D)
             N == n * X
             S == s * X
  <2>1. A \in Int /\ B \in Int /\ P \in Int /\ N \in Int /\ S \in Int
    BY <1>6
  <2>2. u * D = B + P /\ g = P - N
    BY <1>6
  <2>3. A + Y = B + S /\ Z = S
    BY <1>8
  <2>4. CASE s = n
    <3>1. v = 0 /\ w = 0 /\ t * v = 0 /\ S = N
      BY <1>6, <2>4
    <3> HIDE DEF A, B, P, N, S, t, v, w, u, g
    <3> QED
      BY <1>6, <2>1, <2>2, <2>3, <3>1 DEF A
  <2>5. CASE s # n
    <3>1. v = X /\ w = Z - N /\ t * v = S - N
      BY <1>6, <2>5
    <3> HIDE DEF A, B, P, N, S, t, v, w, u, g
    <3> QED
      BY <1>6, <2>1, <2>2, <2>3, <3>1 DEF A
  <2> QED
    BY <2>4, <2>5
<1>15. Sums(total, c.realized, u, t, c.entry) /\ Costs(c.replay.cost, t, c.entry)
  <2> DEFINE y == Y + g
  <2>1. Parts(c.entry, c.realized, c.replay.cost, D, v, y, w)
    BY <1>13
  <2>2. total * D + y = u * D + t * v /\ w = t * v
    BY <1>14
  <2> HIDE DEF y, v, w, u, t, total
  <2>3. /\ Sums(total, c.realized, u, t, c.entry) <=> total * D + y = u * D + t * v
        /\ Costs(c.replay.cost, t, c.entry) <=> w = t * v
    BY <1>6, <2>1, Balance
  <2> QED
    BY <2>2, <2>3
<1>16. Sound(c)
  BY <1>3, <1>15 DEF Sound, AddsUp, Replays, total, u, t, s
<1>17. ASSUME b.entry = Zero \/ AtMost(b.entry, Whole(price))
       PROVE  AtMost(b.realized, c.realized)
  <2>1. Stands(Whole(price), price * D, D)
    BY <1>6, WholeStands
  <2>2. X <= price * D
    <3>1. CASE b.entry = Zero
      <4>1. X = 0
        BY <1>9, <3>1 DEF Stands, Zero, Whole
      <4> QED
        BY <1>6, <4>1
    <3>2. CASE AtMost(b.entry, Whole(price))
      BY <1>6, <1>9, <2>1, <3>2, Compare
    <3> QED
      BY <1>17, <3>1, <3>2
  <2>3. g >= 0
    BY <1>2, <1>6, <2>2
  <2> HIDE DEF g
  <2>4. Y <= Y + g
    BY <1>6, <2>3
  <2> QED
    BY <1>6, <1>9, <1>11, <2>4, Compare
<1> QED
  BY <1>16, <1>17 DEF c

\* The smallest and the largest of two and three numbers.
LEMMA Least3 ==
  ASSUME NEW x \in Int, NEW y \in Int, NEW z \in Int
  PROVE  Min({x, y, z}) \in {x, y, z} /\ \A v \in {x, y, z} : Min({x, y, z}) <= v
<1>1. \E u \in {x, y, z} : \A v \in {x, y, z} : u <= v
  <2>1. CASE x <= y /\ x <= z
    BY <2>1
  <2>2. CASE y <= x /\ y <= z
    BY <2>2
  <2>3. CASE z <= x /\ z <= y
    BY <2>3
  <2> QED
    BY <2>1, <2>2, <2>3
<1> QED
  BY <1>1 DEF Min

\* The smaller of two numbers.
LEMMA Least2 ==
  ASSUME NEW x \in Int, NEW y \in Int
  PROVE  Min({x, y}) = IF x <= y THEN x ELSE y
<1>1. \E u \in {x, y} : \A v \in {x, y} : u <= v
  OBVIOUS
<1>2. Min({x, y}) \in {x, y} /\ \A v \in {x, y} : Min({x, y}) <= v
  BY <1>1 DEF Min
<1> QED
  BY <1>2

\* The greater of two numbers.
LEMMA Most2 ==
  ASSUME NEW x \in Int, NEW y \in Int
  PROVE  Max({x, y}) = IF x >= y THEN x ELSE y
<1>1. \E u \in {x, y} : \A v \in {x, y} : u >= v
  OBVIOUS
<1>2. Max({x, y}) \in {x, y} /\ \A v \in {x, y} : Max({x, y}) >= v
  BY <1>1 DEF Max
<1> QED
  BY <1>2

\* As many shares as the cash buys cost no more than the cash.
LEMMA Affordable ==
  ASSUME NEW cash \in Nat, NEW price \in Nat \ {0}
  PROVE  /\ cash \div price \in Nat
         /\ \A n \in Nat : n <= cash \div price => n * price <= cash
<1> DEFINE q == cash \div price
<1>1. q \in Nat /\ q * price <= cash
  OBVIOUS
<1> HIDE DEF q
<1>2. ASSUME NEW n \in Nat, n <= q PROVE n * price <= cash
  <2>1. (q - n) * price >= 0
    BY <1>1, <1>2
  <2>2. (q - n) * price = q * price - n * price /\ n * price \in Int /\ q * price \in Int
    BY <1>1
  <2> QED
    BY <1>1, <2>1, <2>2
<1> QED
  BY <1>1, <1>2 DEF q

\* Fractions are ordered.
LEMMA AtMostOrder ==
  ASSUME NEW f \in Fraction, NEW g \in Fraction, NEW h \in Fraction
  PROVE  AtMost(f, f) /\ (AtMost(f, g) /\ AtMost(g, h) => AtMost(f, h))
<1>1. PICK d \in Nat \ {0} : \E x, y, z \in Int :
        Stands(f, 1 * x, 1 * d) /\ Stands(g, 1 * y, 1 * d) /\ Stands(h, 1 * z, 1 * d)
  <2>1. 1 \in Nat \ {0}
    OBVIOUS
  <2> QED
    BY <2>1, Common
<1>2. PICK x \in Int, y \in Int, z \in Int :
        Stands(f, 1 * x, 1 * d) /\ Stands(g, 1 * y, 1 * d) /\ Stands(h, 1 * z, 1 * d)
  BY <1>1
<1>3. 1 * x \in Int /\ 1 * y \in Int /\ 1 * z \in Int /\ 1 * d \in Nat \ {0}
  OBVIOUS
<1> DEFINE a == 1 * x
           b == 1 * y
           c == 1 * z
           e == 1 * d
<1>4. /\ a \in Int /\ b \in Int /\ c \in Int /\ e \in Nat \ {0}
      /\ Stands(f, a, e) /\ Stands(g, b, e) /\ Stands(h, c, e)
  BY <1>2, <1>3
<1> HIDE DEF a, b, c, e
<1>5. AtMost(f, f) <=> a <= a
  BY <1>4, Compare
<1>6. AtMost(f, g) <=> a <= b
  BY <1>4, Compare
<1>7. AtMost(g, h) <=> b <= c
  BY <1>4, Compare
<1>8. AtMost(f, h) <=> a <= c
  BY <1>4, Compare
<1> QED
  BY <1>4, <1>5, <1>6, <1>7, <1>8

\* The options, with the grid's holding between its limits.
SettingOK ==
  /\ setting \in [mode : {"signal_close", "next_open"}, stopLoss : BOOLEAN, dividends : BOOLEAN,
                  grid : [initial : Nat, quantity : Nat, least : Nat, most : Nat]]
  /\ setting.grid.least <= setting.grid.initial /\ setting.grid.initial <= setting.grid.most

InLimits(b) == IsGrid => b.shares \in setting.grid.least .. setting.grid.most

Lossless(b, c) == ~setting.stopLoss => AtMost(b.realized, c.realized)

\* What any number of trades makes of the books b.
Traded(b, c) ==
  /\ Sound(c) /\ Lossless(b, c) /\ c.order = b.order
  /\ InLimits(b) => InLimits(c)

\* What trades do to the books may be chained, none included.
LEMMA TradedOrder ==
  ASSUME NEW a, NEW b, NEW c, Sound(a)
  PROVE  Traded(a, a) /\ (Traded(a, b) /\ Traded(b, c) => Traded(a, c))
<1>1. a.realized \in Fraction
  BY DEF Sound, Books
<1>2. Traded(a, a)
  <2>1. AtMost(a.realized, a.realized)
    BY <1>1, AtMostOrder
  <2> QED
    BY <2>1 DEF Traded, Lossless
<1>3. ASSUME Traded(a, b), Traded(b, c) PROVE Traded(a, c)
  <2>1. b.realized \in Fraction /\ c.realized \in Fraction
    BY <1>3 DEF Traded, Sound, Books
  <2>2. AtMost(a.realized, b.realized) /\ AtMost(b.realized, c.realized)
          => AtMost(a.realized, c.realized)
    BY <1>1, <2>1, AtMostOrder
  <2> QED
    BY <1>3, <2>2 DEF Traded, Lossless
<1> QED
  BY <1>2, <1>3

\* Nothing bought or sold.
LEMMA NotTraded ==
  ASSUME NEW b, NEW n \in Int, n <= 0, NEW price
  PROVE  Bought(b, n, price) = b /\ Sold(b, n, price) = b
BY DEF Bought, Sold

\* A purchase within cash and limits, and a sale within shares and limits.
LEMMA BoughtTraded ==
  ASSUME NEW b, Sound(b), SettingOK, NEW n \in Nat, NEW price \in Nat \ {0},
         n <= b.cash \div price, n > 0 /\ IsGrid => b.shares + n <= setting.grid.most
  PROVE  Traded(b, Bought(b, n, price))
<1>1. CASE n = 0
  BY <1>1, NotTraded, TradedOrder
<1>2. CASE n # 0
  <2> DEFINE c == Bought(b, n, price)
  <2>1. b \in Books /\ b.cash \in Nat /\ b.shares \in Nat /\ b.realized \in Fraction
    BY DEF Sound, Books
  <2>2. n * price <= b.cash
    BY <2>1, Affordable
  <2>3. Sound(c)
    BY <1>2, <2>2, BoughtSound
  <2>4. c.shares = b.shares + n /\ c.order = b.order /\ c.realized = b.realized
    BY <1>2, <2>1, <2>2, BoughtFields
  <2>5. AtMost(b.realized, b.realized)
    BY <2>1, AtMostOrder
  <2> HIDE DEF c
  <2>6. Lossless(b, c)
    BY <2>4, <2>5 DEF Lossless
  <2>7. InLimits(b) => InLimits(c)
    <3>1. setting.grid.least \in Nat /\ setting.grid.most \in Nat
      BY DEF SettingOK
    <3> QED
      BY <1>2, <2>1, <2>4, <3>1 DEF InLimits
  <2> QED
    BY <2>3, <2>4, <2>6, <2>7 DEF Traded, c
<1> QED
  BY <1>1, <1>2

\* A sale the strategy may make (_sell) keeps the books sound.
LEMMA SoldTraded ==
  ASSUME NEW b, Sound(b), SettingOK, NEW n \in Nat, NEW price \in Nat \ {0},
         n <= b.shares, n > 0 /\ IsGrid => b.shares - n >= setting.grid.least,
         MayExit(b, price)
  PROVE  Traded(b, Sold(b, n, price))
<1>1. CASE n = 0
  BY <1>1, NotTraded, TradedOrder
<1>2. CASE n # 0
  <2> DEFINE c == Sold(b, n, price)
  <2>1. /\ b \in Books /\ b.cash \in Nat /\ b.shares \in Nat /\ b.realized \in Fraction
        /\ b.replay.quantity = b.shares
    BY DEF Sound, Books, Replays
  <2>2. n \in 1..b.shares
    BY <1>2, <2>1
  <2>3. Sound(c) /\ (b.entry = Zero \/ AtMost(b.entry, Whole(price))
                       => AtMost(b.realized, c.realized))
    BY <2>2, SoldSound
  <2>4. c.shares = b.shares - n /\ c.order = b.order
    BY <2>1, <2>2, SoldFields
  <2> HIDE DEF c
  <2>6. Lossless(b, c)
    BY <2>3 DEF Lossless, MayExit, NoPrice
  <2>7. InLimits(b) => InLimits(c)
    <3>1. setting.grid.least \in Nat /\ setting.grid.most \in Nat
      BY DEF SettingOK
    <3> QED
      BY <1>2, <2>1, <2>4, <3>1 DEF InLimits
  <2> QED
    BY <2>3, <2>4, <2>6, <2>7 DEF Traded, c
<1> QED
  BY <1>1, <1>2

\* Whatever order is executed, the books stay sound and a grid within its limits.
LEMMA ExecutedTraded ==
  ASSUME NEW b, Sound(b), SettingOK, NEW side \in {"none", "buy", "sell"},
         NEW price \in Nat \ {0}
  PROVE  Traded(b, Executed(b, side, price))
<1>0. Traded(b, b)
  BY TradedOrder
<1>1. /\ b.cash \in Nat /\ b.shares \in Nat /\ b.lot \in Nat
      /\ setting.grid.least \in Nat /\ setting.grid.most \in Nat
  BY DEF Sound, Books, SettingOK
<1> DEFINE q == b.cash \div price
<1>2. q \in Nat
  BY <1>1, Affordable
<1>3. Traded(b, GridBuy(b, price))
  <2> DEFINE r == Max({0, setting.grid.most - b.shares})
             n == Min({b.lot, r, q})
  <2>1. r \in Nat /\ (r > 0 => b.shares + r <= setting.grid.most)
    <3>1. setting.grid.most - b.shares \in Int
      BY <1>1
    <3>2. r = IF 0 >= setting.grid.most - b.shares THEN 0 ELSE setting.grid.most - b.shares
      BY <3>1, Most2
    <3> QED
      BY <1>1, <3>2
  <2> HIDE DEF r, q
  <2>2. n \in Nat /\ n <= r /\ n <= q
    <3>0. b.lot \in Int /\ r \in Int /\ q \in Int
      BY <1>1, <1>2, <2>1 DEF q
    <3>1. n \in {b.lot, r, q} /\ \A v \in {b.lot, r, q} : n <= v
      BY <3>0, Least3
    <3> QED
      BY <1>1, <1>2, <2>1, <3>1
  <2>3. GridBuy(b, price) = Bought(b, n, price)
    BY DEF GridBuy, r, q
  <2> HIDE DEF n
  <2>4. n > 0 => b.shares + n <= setting.grid.most
    BY <1>1, <2>1, <2>2
  <2> QED
    BY <2>2, <2>3, <2>4, BoughtTraded DEF q
<1>4. Traded(b, GridSell(b, price))
  <2> DEFINE r == Max({0, b.shares - setting.grid.least})
             n == Min({b.lot, r})
  <2>1. r \in Nat /\ r <= b.shares /\ (r > 0 => b.shares - r >= setting.grid.least)
    <3>1. b.shares - setting.grid.least \in Int
      BY <1>1
    <3>2. r = IF 0 >= b.shares - setting.grid.least THEN 0 ELSE b.shares - setting.grid.least
      BY <3>1, Most2
    <3> QED
      BY <1>1, <3>2
  <2> HIDE DEF r
  <2>2. n \in Nat /\ n <= r
    <3>1. n = IF b.lot <= r THEN b.lot ELSE r
      BY <1>1, <2>1, Least2
    <3> QED
      BY <1>1, <2>1, <3>1
  <2>3. GridSell(b, price) = IF MayExit(b, price) THEN Sold(b, n, price) ELSE b
    BY DEF GridSell, r
  <2> HIDE DEF n
  <2>4. n <= b.shares /\ (n > 0 => b.shares - n >= setting.grid.least)
    BY <1>1, <2>1, <2>2
  <2>5. MayExit(b, price) => Traded(b, Sold(b, n, price))
    BY <2>2, <2>4, SoldTraded
  <2> QED
    BY <1>0, <2>3, <2>5
<1>5. ~IsGrid => Traded(b, EnterLong(b, price))
  <2>1. q <= q
    BY <1>2
  <2>2. ~IsGrid => Traded(b, Bought(b, q, price))
    BY <1>2, <2>1, BoughtTraded
  <2> QED
    BY <1>0, <2>2 DEF EnterLong
<1>6. ~IsGrid => Traded(b, ExitLong(b, price))
  <2>1. b.shares <= b.shares
    BY <1>1
  <2>2. ~IsGrid /\ MayExit(b, price) => Traded(b, Sold(b, b.shares, price))
    BY <1>1, <2>1, SoldTraded
  <2> QED
    BY <1>0, <2>2 DEF ExitLong
<1> QED
  BY <1>0, <1>3, <1>4, <1>5, <1>6 DEF Executed

\* The books after Opened, Paid, AtStart and FilledAtOpen, Anchored, AtClose.

\* Before the first row.
Untouched(b) ==
  /\ b.cash = Capital /\ b.shares = 0 /\ b.entry = Zero /\ b.order = "none"
  /\ b.start = Capital /\ b.realized = Zero /\ b.received = 0

\* The initial purchase of the first row keeps the books sound.
LEMMA OpenedSound ==
  ASSUME NEW b, Sound(b), SettingOK, NEW open \in Nat \ {0},
         rows \in Nat, rows = 0 => Untouched(b), rows > 0 => InLimits(b)
  PROVE  LET c == Opened(b, open)
         IN Sound(c) /\ InLimits(c) /\ Lossless(b, c) /\ c.order = b.order
<1> DEFINE c == Opened(b, open)
<1>1. b \in Books /\ b.realized \in Fraction
  BY DEF Sound, Books
<1>2. CASE rows > 0 \/ ~IsGrid
  <2>1. c = b
    BY <1>2 DEF Opened
  <2>2. Traded(b, b)
    BY TradedOrder
  <2> QED
    BY <1>2, <2>1, <2>2 DEF Traded, InLimits
<1>3. CASE ~(rows > 0 \/ ~IsGrid)
  <2> DEFINE n == setting.grid.initial
             e == IF n > 0 THEN Whole(open) ELSE NoPrice
             l == IF setting.grid.quantity > 0 THEN setting.grid.quantity
                  ELSE Capital \div (10 * open)
             p == n * open
             r == [quantity |-> n, cost |-> Whole(p)]
  <2>1. n \in Nat /\ p \in Nat /\ Capital \in Nat /\ Untouched(b)
    BY <1>3, SingleAssumption DEF SettingOK
  <2>2. c = [b EXCEPT !.shares = n, !.entry = e, !.lot = l, !.start = Capital + p, !.replay = r]
    BY <1>3 DEF Opened
  <2>3. e \in Fraction /\ Whole(p) \in Fraction
    BY <2>1, FractionType DEF NoPrice, Zero, Whole, Fraction
  <2>4. l \in Nat
    <3>1. 10 * open \in Nat \ {0}
      OBVIOUS
    <3>2. Capital \div (10 * open) \in Nat
      BY <2>1, <3>1, Affordable
    <3> QED
      BY <3>2 DEF SettingOK
  <2>5. Stands(e, IF n > 0 THEN open ELSE 0, 1) /\ Stands(Whole(p), p, 1) /\ Stands(Zero, 0, 1)
    BY <2>1 DEF Stands, Whole, Zero, NoPrice, Fraction
  <2> HIDE DEF e, l, p
  <2>6. c \in Books
    <3>1. Capital + p \in Nat /\ r \in [quantity : Nat, cost : Fraction]
      BY <2>1, <2>3
    <3> HIDE DEF c, r, n
    <3> QED
      BY <1>1, <2>1, <2>2, <2>3, <2>4, <3>1 DEF Books
  <2>7. /\ c.shares = n /\ c.entry = e /\ c.start = Capital + p
        /\ c.replay.quantity = n /\ c.replay.cost = Whole(p)
        /\ c.cash = Capital /\ c.order = b.order /\ c.realized = Zero /\ c.received = 0
        /\ b.realized = Zero
    BY <1>1, <2>1, <2>2 DEF Books, Untouched
  <2> HIDE DEF c, n
  <2>8. Sound(c)
    <3> DEFINE x == IF n > 0 THEN open ELSE 0
               total == c.start + c.received
    <3>1. x \in Int /\ p \in Int /\ 0 \in Int /\ 1 \in Nat \ {0}
      BY <2>1
    <3>2. Parts(c.entry, c.realized, c.replay.cost, 1, x, 0, p)
      BY <2>5, <2>7, <3>1 DEF Parts
    <3>3. total = Capital + p /\ total \in Int /\ n \in Int /\ Capital \in Int
      BY <2>1, <2>7
    <3>4. p = n * x
      <4>1. CASE n > 0
        BY <2>1, <4>1 DEF p
      <4>2. CASE ~(n > 0)
        <5>1. n = 0 /\ p = 0 /\ x = 0
          BY <2>1, <4>2 DEF p
        <5> QED
          BY <5>1
      <4> QED
        BY <4>1, <4>2
    <3> HIDE DEF x, total
    <3>5. total * 1 + 0 = Capital * 1 + n * x
      BY <2>1, <3>3, <3>4
    <3>6. Sums(total, c.realized, Capital, n, c.entry) /\ Costs(c.replay.cost, n, c.entry)
      <4>1. /\ Sums(total, c.realized, Capital, n, c.entry) <=> total * 1 + 0 = Capital * 1 + n * x
            /\ Costs(c.replay.cost, n, c.entry) <=> p = n * x
        BY <3>2, <3>3, Balance
      <4> QED
        BY <3>4, <3>5, <4>1
    <3> QED
      BY <2>6, <2>7, <3>6 DEF Sound, AddsUp, Replays, total
  <2>9. InLimits(c)
    BY <2>1, <2>7 DEF InLimits, SettingOK, n
  <2>10. Lossless(b, c)
    <3>1. AtMost(Zero, Zero)
      BY DEF AtMost, Zero, Whole
    <3> QED
      BY <2>7, <3>1 DEF Lossless
  <2> QED
    BY <2>7, <2>8, <2>9, <2>10 DEF c
<1> QED
  BY <1>2, <1>3

\* A dividend, paid out or reinvested, keeps the books sound.
LEMMA PaidTraded ==
  ASSUME NEW b, Sound(b), SettingOK, NEW payout \in Nat
  PROVE  Traded(b, Paid(b, payout))
<1>0. Traded(b, b)
  BY TradedOrder
<1>1. CASE ~setting.dividends
  BY <1>0, <1>1 DEF Paid
<1>2. CASE setting.dividends
  <2> DEFINE p == b.shares * payout
             c == [b EXCEPT !.cash = b.cash + p, !.received = b.received + p]
             total == b.start + b.received
  <2>1. Paid(b, payout) = c
    BY <1>2 DEF Paid
  <2>2. /\ b \in Books /\ b.shares \in Nat /\ b.cash \in Nat /\ b.received \in Nat
        /\ b.start \in Nat /\ b.entry \in Fraction /\ b.realized \in Fraction
        /\ b.replay.cost \in Fraction /\ AddsUp(b) /\ Replays(b)
    BY DEF Sound, Books
  <2>3. p \in Nat /\ total \in Nat
    BY <2>2
  <2> HIDE DEF p
  <2>4. c \in Books
    <3>1. b.cash + p \in Nat /\ b.received + p \in Nat
      BY <2>2, <2>3
    <3> QED
      BY <2>2, <3>1 DEF Books
  <2>5. /\ c.cash = b.cash + p /\ c.received = b.received + p /\ c.start = b.start
        /\ c.shares = b.shares /\ c.entry = b.entry /\ c.realized = b.realized
        /\ c.replay = b.replay /\ c.order = b.order
    BY <2>2 DEF Books
  <2> HIDE DEF c
  <2>6. PICK d \in Nat \ {0} : \E x, y, z \in Int :
          Parts(b.entry, b.realized, b.replay.cost, 1 * d, 1 * x, 1 * y, 1 * z)
    <3>1. 1 \in Nat \ {0}
      OBVIOUS
    <3> QED
      BY <2>2, <3>1, CommonParts
  <2>7. PICK x \in Int, y \in Int, z \in Int :
          Parts(b.entry, b.realized, b.replay.cost, 1 * d, 1 * x, 1 * y, 1 * z)
    BY <2>6
  <2>8. Parts(b.entry, b.realized, b.replay.cost, d, x, y, z)
    <3>1. 1 * d = d /\ 1 * x = x /\ 1 * y = y /\ 1 * z = z
      OBVIOUS
    <3> QED
      BY <2>7, <3>1, Zenon
  <2> DEFINE s == b.shares
             u == b.cash + p
             t == total + p
  <2>9. /\ s \in Int /\ b.cash \in Int /\ u \in Int /\ t \in Int /\ total \in Int
        /\ p \in Int
    BY <2>2, <2>3
  <2>10. Sums(total, b.realized, b.cash, s, b.entry)
    BY <2>2 DEF AddsUp
  <2>11. t = c.start + c.received
    BY <2>2, <2>3, <2>5
  <2> HIDE DEF total, s
  <2>12. total * d + y = b.cash * d + s * x
    BY <2>8, <2>9, <2>10, Balance
  <2>13. t * d + y = u * d + s * x
    <3>1. t * d = total * d + p * d /\ u * d = b.cash * d + p * d
      BY <2>9
    <3>2. /\ total * d \in Int /\ b.cash * d \in Int /\ p * d \in Int /\ s * x \in Int
          /\ y \in Int
      BY <2>9
    <3> HIDE DEF t, u
    <3> QED
      BY <2>12, <3>1, <3>2
  <2> HIDE DEF t, u
  <2>14. Sums(t, b.realized, u, s, b.entry)
    <3>1. Sums(t, b.realized, u, s, b.entry) <=> t * d + y = u * d + s * x
      BY <2>8, <2>9, Balance
    <3> QED
      BY <2>13, <3>1
  <2>15. Sound(c)
    BY <2>2, <2>4, <2>5, <2>11, <2>14 DEF Sound, AddsUp, Replays, s, u
  <2>16. Lossless(b, c) /\ (InLimits(b) => InLimits(c))
    BY <1>0, <2>5 DEF Traded, Lossless, InLimits
  <2> QED
    BY <2>1, <2>5, <2>15, <2>16 DEF Traded
<1> QED
  BY <1>1, <1>2

\* Writing the order touches nothing else.
LEMMA Ordered ==
  ASSUME NEW b, Sound(b), SettingOK, NEW side \in {"none", "buy", "sell"}
  PROVE  LET c == [b EXCEPT !.order = side]
         IN /\ Sound(c) /\ c.order = side /\ Lossless(b, c)
            /\ InLimits(b) => InLimits(c)
<1> DEFINE c == [b EXCEPT !.order = side]
<1>1. b \in Books /\ AddsUp(b) /\ Replays(b)
  BY DEF Sound
<1>2. c \in Books
  BY <1>1 DEF Books
<1>3. /\ c.cash = b.cash /\ c.received = b.received /\ c.start = b.start
      /\ c.shares = b.shares /\ c.entry = b.entry /\ c.realized = b.realized
      /\ c.replay = b.replay /\ c.order = side
  BY <1>1 DEF Books
<1> HIDE DEF c
<1>4. Traded(b, b)
  BY TradedOrder
<1>5. Sound(c) /\ Lossless(b, c) /\ (InLimits(b) => InLimits(c))
  BY <1>1, <1>2, <1>3, <1>4 DEF Sound, AddsUp, Replays, Traded, Lossless, InLimits
<1> QED
  BY <1>3, <1>5 DEF c

\* A new reference price of a grid leaves the books alone.
LEMMA AnchoredTraded ==
  ASSUME NEW b, Sound(b), SettingOK, NEW open \in Nat \ {0}
  PROVE  Traded(b, Anchored(b, open))
<1> DEFINE c == [b EXCEPT !.reference = open]
<1>1. b \in Books /\ AddsUp(b) /\ Replays(b)
  BY DEF Sound
<1>2. c \in Books
  BY <1>1 DEF Books
<1>3. /\ c.cash = b.cash /\ c.received = b.received /\ c.start = b.start
      /\ c.shares = b.shares /\ c.entry = b.entry /\ c.realized = b.realized
      /\ c.replay = b.replay /\ c.order = b.order
  BY <1>1 DEF Books
<1>4. Anchored(b, open) = c \/ Anchored(b, open) = b
  BY DEF Anchored
<1> HIDE DEF c
<1>5. Traded(b, b)
  BY TradedOrder
<1>6. Traded(b, c)
  BY <1>1, <1>2, <1>3, <1>5 DEF Sound, AddsUp, Replays, Traded, Lossless, InLimits
<1> QED
  BY <1>4, <1>5, <1>6

\* Signals of a row.
Signals == [buy : BOOLEAN, sell : BOOLEAN]

\* An order b carries is one that the signals ask for.
Asked(b, s) == (b.order = "buy" => s.buy) /\ (b.order = "sell" => s.sell)

\* At the start of the first row a strategy may buy or order.
LEMMA AtStartSound ==
  ASSUME NEW b, Sound(b), SettingOK, NEW open \in Nat \ {0}, NEW s \in Signals
  PROVE  LET c == AtStart(b, s, open)
         IN /\ Sound(c) /\ Lossless(b, c) /\ (InLimits(b) => InLimits(c))
            /\ rows > 0 \/ IsGrid \/ setting.mode = "signal_close" => c.order = b.order
            /\ c.order = b.order \/ Asked(c, s)
<1> DEFINE c == AtStart(b, s, open)
<1>0. Traded(b, b)
  BY TradedOrder
<1>1. CASE rows > 0 \/ IsGrid \/ b.shares # 0
  <2>1. c = b
    BY <1>1 DEF AtStart
  <2> HIDE DEF c
  <2>2. Sound(c) /\ Lossless(b, c) /\ (InLimits(b) => InLimits(c)) /\ c.order = b.order
    BY <1>0, <2>1 DEF Traded
  <2> QED
    BY <1>1, <2>2 DEF c
<1>2. CASE ~(rows > 0 \/ IsGrid \/ b.shares # 0) /\ setting.mode = "next_open"
  <2> DEFINE side == IF s.buy THEN "buy" ELSE IF s.sell THEN "sell" ELSE b.order
  <2>1. c = [b EXCEPT !.order = side]
    BY <1>2 DEF AtStart
  <2>2. side \in {"none", "buy", "sell"}
    BY DEF Sound, Books
  <2> HIDE DEF side
  <2>3. Sound(c) /\ c.order = side /\ Lossless(b, c) /\ (InLimits(b) => InLimits(c))
    BY <2>1, <2>2, Ordered
  <2> HIDE DEF c
  <2> QED
    BY <1>2, <2>3 DEF c, side, Asked
<1>3. CASE ~(rows > 0 \/ IsGrid \/ b.shares # 0) /\ setting.mode # "next_open"
  <2>1. c = IF s.buy THEN EnterLong(b, open) ELSE b
    BY <1>3 DEF AtStart
  <2>2. Traded(b, EnterLong(b, open))
    <3>1. "buy" \in {"none", "buy", "sell"}
      OBVIOUS
    <3>2. Traded(b, Executed(b, "buy", open))
      BY <3>1, ExecutedTraded
    <3> QED
      BY <1>3, <3>2 DEF Executed
  <2>3. Traded(b, c)
    BY <1>0, <2>1, <2>2
  <2> HIDE DEF c
  <2>4. Sound(c) /\ Lossless(b, c) /\ (InLimits(b) => InLimits(c)) /\ c.order = b.order
    BY <2>3 DEF Traded
  <2> QED
    BY <1>3, <2>4 DEF c
<1> QED
  BY <1>1, <1>2, <1>3

\* At the open an order is executed and gone.
LEMMA FilledSound ==
  ASSUME NEW b, Sound(b), SettingOK, NEW open \in Nat \ {0}
  PROVE  LET c == FilledAtOpen(b, open)
         IN /\ Sound(c) /\ Lossless(b, c) /\ (InLimits(b) => InLimits(c))
            /\ c.order = IF setting.mode = "next_open" /\ rows > 0 THEN "none" ELSE b.order
<1> DEFINE c == FilledAtOpen(b, open)
<1>0. Traded(b, b)
  BY TradedOrder
<1>1. CASE ~(setting.mode = "next_open" /\ rows > 0)
  <2>1. c = b
    BY <1>1 DEF FilledAtOpen
  <2> HIDE DEF c
  <2>2. Sound(c) /\ Lossless(b, c) /\ (InLimits(b) => InLimits(c)) /\ c.order = b.order
    BY <1>0, <2>1 DEF Traded
  <2> QED
    BY <1>1, <2>2 DEF c
<1>2. CASE setting.mode = "next_open" /\ rows > 0
  <2> DEFINE e == Executed(b, b.order, open)
  <2>1. c = [e EXCEPT !.order = "none"]
    BY <1>2 DEF FilledAtOpen
  <2>2. b.order \in {"none", "buy", "sell"}
    BY DEF Sound, Books
  <2>3. Traded(b, e)
    BY <2>2, ExecutedTraded
  <2> HIDE DEF e
  <2>4. Sound(e)
    BY <2>3 DEF Traded
  <2>5. Sound(c) /\ c.order = "none" /\ Lossless(e, c) /\ (InLimits(e) => InLimits(c))
    BY <2>1, <2>4, Ordered
  <2> HIDE DEF c
  <2>6. Lossless(b, c)
    <3>1. b.realized \in Fraction /\ e.realized \in Fraction /\ c.realized \in Fraction
      BY <2>4, <2>5 DEF Sound, Books
    <3>2. AtMost(b.realized, e.realized) /\ AtMost(e.realized, c.realized)
            => AtMost(b.realized, c.realized)
      BY <3>1, AtMostOrder
    <3> QED
      BY <2>3, <2>5, <3>2 DEF Traded, Lossless
  <2>7. InLimits(b) => InLimits(c)
    BY <2>3, <2>5 DEF Traded
  <2> QED
    BY <1>2, <2>5, <2>6, <2>7 DEF c
<1> QED
  BY <1>1, <1>2

\* At the close signals are traded or become the order.
LEMMA AtCloseSound ==
  ASSUME NEW b, Sound(b), SettingOK, NEW s \in Signals, NEW close \in Nat \ {0}
  PROVE  LET c == AtClose(b, s, close)
         IN /\ Sound(c) /\ Lossless(b, c) /\ (InLimits(b) => InLimits(c))
            /\ setting.mode = "signal_close" \/ b.order # "none" => c.order = b.order
            /\ b.order = "none" => c.order = "none" \/ Asked(c, s)
<1> DEFINE c == AtClose(b, s, close)
<1>0. Traded(b, b)
  BY TradedOrder
<1>1. CASE setting.mode = "signal_close"
  <2> DEFINE side == IF s.buy THEN "buy" ELSE IF s.sell THEN "sell" ELSE "none"
  <2>1. side \in {"none", "buy", "sell"} /\ c = Executed(b, side, close)
    BY <1>1 DEF AtClose
  <2>2. Traded(b, c)
    BY <2>1, ExecutedTraded
  <2> HIDE DEF c
  <2>3. Sound(c) /\ Lossless(b, c) /\ (InLimits(b) => InLimits(c)) /\ c.order = b.order
    BY <2>2 DEF Traded
  <2> QED
    BY <1>1, <2>3 DEF c
<1>2. CASE setting.mode # "signal_close" /\ b.order # "none"
  <2>1. c = b
    BY <1>2 DEF AtClose
  <2> HIDE DEF c
  <2>2. Sound(c) /\ Lossless(b, c) /\ (InLimits(b) => InLimits(c)) /\ c.order = b.order
    BY <1>0, <2>1 DEF Traded
  <2> QED
    BY <1>2, <2>2 DEF c
<1>3. CASE setting.mode # "signal_close" /\ b.order = "none"
  <2> DEFINE side == Decision(b, s)
  <2>1. c = [b EXCEPT !.order = side]
    BY <1>3 DEF AtClose
  <2>2. /\ side \in {"none", "buy", "sell"}
        /\ (side = "buy" => s.buy) /\ (side = "sell" => s.sell)
    BY DEF Decision, Signals
  <2> HIDE DEF c, side
  <2>3. Sound(c) /\ c.order = side /\ Lossless(b, c) /\ (InLimits(b) => InLimits(c))
    BY <2>1, <2>2, Ordered
  <2> QED
    BY <1>3, <2>2, <2>3 DEF c, Asked
<1> QED
  BY <1>1, <1>2, <1>3

\* The inductive invariant of SingleBacktest: between rows no order waits that
\* is to be traded at a close.
SingleInv ==
  /\ SettingOK /\ rows \in Nat /\ signal \in Signals /\ Sound(book)
  /\ rows = 0 => Untouched(book)
  /\ setting.mode = "signal_close" => book.order = "none"
  /\ rows > 0 => InLimits(book)
  /\ Asked(book, signal)

\* A row keeps the books sound, an order fresh and the grid in its limits.
LEMMA RowSound ==
  ASSUME SingleInv, NEW open \in Nat \ {0}, NEW high \in Nat, NEW low \in Nat,
         NEW close \in Nat \ {0}, NEW payout \in Nat, NEW given \in Signals,
         Row(open, high, low, close, payout, given)
  PROVE  /\ Sound(book') /\ InLimits(book') /\ signal' \in Signals
         /\ setting.mode = "signal_close" => book'.order = "none"
         /\ Asked(book', signal')
         /\ SingleLossless
<1>0. /\ SettingOK /\ rows \in Nat /\ Sound(book)
      /\ rows = 0 => Untouched(book)
      /\ setting.mode = "signal_close" => book.order = "none"
      /\ rows > 0 => InLimits(book)
  BY DEF SingleInv
<1> PICK b : b = book
  OBVIOUS
<1> DEFINE b1 == Opened(b, open)
           b2 == Paid(b1, payout)
           b3 == AtStart(b2, given, open)
           b4 == FilledAtOpen(b3, open)
           b5 == Anchored(b4, open)
           s == IF IsGrid THEN GridSignal(b5, high, low, close) ELSE Remaining(given)
           c == AtClose(b5, s, close)
<1>1. book' = c /\ signal' = IF IsGrid THEN s ELSE given
  BY Zenon DEF Row
<1>2. Sound(b1) /\ InLimits(b1) /\ Lossless(b, b1) /\ b1.order = b.order
  BY <1>0, OpenedSound
<1> HIDE DEF b1
<1>3. Sound(b2) /\ InLimits(b2) /\ Lossless(b1, b2) /\ b2.order = b1.order
  BY <1>0, <1>2, PaidTraded DEF Traded
<1> HIDE DEF b2
<1>4. /\ Sound(b3) /\ InLimits(b3) /\ Lossless(b2, b3)
      /\ rows > 0 \/ IsGrid \/ setting.mode = "signal_close" => b3.order = b2.order
      /\ b3.order = b2.order \/ Asked(b3, given)
  BY <1>0, <1>3, AtStartSound
<1> HIDE DEF b3
<1>5. /\ Sound(b4) /\ InLimits(b4) /\ Lossless(b3, b4)
      /\ b4.order = IF setting.mode = "next_open" /\ rows > 0 THEN "none" ELSE b3.order
  BY <1>0, <1>4, FilledSound
<1> HIDE DEF b4
<1>6. Sound(b5) /\ InLimits(b5) /\ Lossless(b4, b5) /\ b5.order = b4.order
  BY <1>0, <1>5, AnchoredTraded DEF Traded
<1> HIDE DEF b5
<1>7. s \in Signals /\ (~IsGrid => (s.buy => given.buy) /\ (s.sell => given.sell))
  <2>1. GridSignal(b5, high, low, close) \in Signals
    BY DEF GridSignal, Signals
  <2>2. /\ Remaining(given) \in Signals
        /\ Remaining(given).buy => given.buy
        /\ Remaining(given).sell => given.sell
    BY DEF Remaining, Signals
  <2> QED
    BY <2>1, <2>2
<1> HIDE DEF s
<1>8. /\ Sound(c) /\ InLimits(c) /\ Lossless(b5, c)
      /\ setting.mode = "signal_close" \/ b5.order # "none" => c.order = b5.order
      /\ b5.order = "none" => c.order = "none" \/ Asked(c, s)
  BY <1>0, <1>6, <1>7, AtCloseSound
<1> HIDE DEF c
<1>9. setting.mode \in {"signal_close", "next_open"}
  BY <1>0 DEF SettingOK
<1>10. setting.mode = "signal_close" => c.order = "none"
  BY <1>0, <1>2, <1>3, <1>4, <1>5, <1>6, <1>8, <1>9
<1>11. Asked(c, signal') /\ signal' \in Signals
  <2>1. CASE c.order = "none"
    BY <1>1, <1>7, <2>1 DEF Asked
  <2>2. CASE c.order # "none" /\ b5.order = "none"
    <3>1. Asked(c, s)
      BY <1>8, <2>2
    <3> QED
      BY <1>1, <1>7, <3>1 DEF Asked
  <2>3. CASE c.order # "none" /\ b5.order # "none"
    <3>1. setting.mode = "next_open" /\ rows = 0 /\ c.order = b5.order /\ b5.order = b3.order
      BY <1>0, <1>5, <1>6, <1>8, <1>9, <1>10, <2>3
    <3>2. b2.order = "none"
      BY <1>0, <1>2, <1>3, <3>1 DEF Untouched
    <3>3. ~IsGrid /\ Asked(b3, given)
      BY <1>4, <2>3, <3>1, <3>2
    <3> QED
      BY <1>1, <1>7, <3>1, <3>3 DEF Asked
  <2> QED
    BY <2>1, <2>2, <2>3
<1>12. Lossless(b, c)
  <2>1. /\ b.realized \in Fraction /\ b1.realized \in Fraction /\ b2.realized \in Fraction
        /\ b3.realized \in Fraction /\ b4.realized \in Fraction /\ b5.realized \in Fraction
        /\ c.realized \in Fraction
    BY <1>0, <1>2, <1>3, <1>4, <1>5, <1>6, <1>8 DEF Sound, Books
  <2>2. CASE ~setting.stopLoss
    <3>1. /\ AtMost(b.realized, b1.realized) /\ AtMost(b1.realized, b2.realized)
          /\ AtMost(b2.realized, b3.realized) /\ AtMost(b3.realized, b4.realized)
          /\ AtMost(b4.realized, b5.realized) /\ AtMost(b5.realized, c.realized)
      BY <1>2, <1>3, <1>4, <1>5, <1>6, <1>8, <2>2 DEF Lossless
    <3>2. AtMost(b.realized, b2.realized)
      BY <2>1, <3>1, AtMostOrder
    <3>3. AtMost(b.realized, b3.realized)
      BY <2>1, <3>1, <3>2, AtMostOrder
    <3>4. AtMost(b.realized, b4.realized)
      BY <2>1, <3>1, <3>3, AtMostOrder
    <3>5. AtMost(b.realized, b5.realized)
      BY <2>1, <3>1, <3>4, AtMostOrder
    <3>6. AtMost(b.realized, c.realized)
      BY <2>1, <3>1, <3>5, AtMostOrder
    <3> QED
      BY <3>6 DEF Lossless
  <2> QED
    BY <2>2 DEF Lossless
<1> QED
  BY <1>1, <1>8, <1>10, <1>11, <1>12 DEF Lossless, SingleLossless

\* Entered grids are put within their limits.
LEMMA GridLimitsOK ==
  ASSUME NEW g \in Grids
  PROVE  LET l == GridLimits(g)
         IN /\ l \in [initial : Nat, quantity : Nat, least : Nat, most : Nat]
            /\ l.least <= l.initial /\ l.initial <= l.most
<1> DEFINE most == Max({g.least, g.most})
           up == Max({g.initial, g.least})
           begin == Min({up, most})
           l == [g EXCEPT !.most = most, !.initial = begin]
<1>1. g \in [initial : Nat, quantity : Nat, least : Nat, most : Nat]
  BY SingleAssumption
<1>2. g.initial \in Nat /\ g.least \in Nat /\ g.most \in Nat
  BY <1>1
<1>3. most = IF g.least >= g.most THEN g.least ELSE g.most
  BY <1>2, Most2
<1>4. up = IF g.initial >= g.least THEN g.initial ELSE g.least
  BY <1>2, Most2
<1> HIDE DEF most, up
<1>5. begin = IF up <= most THEN up ELSE most
  BY <1>2, <1>3, <1>4, Least2
<1>6. GridLimits(g) = l
  BY DEF GridLimits, most, up
<1> HIDE DEF begin
<1>7. most \in Nat /\ begin \in Nat /\ g.least <= begin /\ begin <= most
  BY <1>2, <1>3, <1>4, <1>5
<1>8. /\ l \in [initial : Nat, quantity : Nat, least : Nat, most : Nat]
      /\ l.least = g.least /\ l.initial = begin /\ l.most = most
  BY <1>1, <1>7
<1> HIDE DEF l
<1> QED
  BY <1>6, <1>7, <1>8

\* The invariant holds at the start.
LEMMA SingleStart == SingleInit => SingleInv
<1> SUFFICES ASSUME SingleInit PROVE SingleInv
  OBVIOUS
<1>1. SettingOK
  <2>1. NoGrid \in [initial : Nat, quantity : Nat, least : Nat, most : Nat]
    BY DEF NoGrid
  <2>2. setting.grid \in {GridLimits(g) : g \in Grids} \union {NoGrid}
    BY DEF SingleInit
  <2>3. CASE setting.grid = NoGrid
    BY <2>1, <2>3 DEF SingleInit, SettingOK, NoGrid
  <2>4. CASE \E g \in Grids : setting.grid = GridLimits(g)
    BY <2>4, GridLimitsOK DEF SingleInit, SettingOK
  <2> QED
    BY <2>2, <2>3, <2>4
<1>2. rows = 0 /\ signal \in Signals
  BY DEF SingleInit, Signals, Neither
<1>3. Capital \in Nat /\ Zero \in Fraction
  BY SingleAssumption DEF Zero, Whole, Fraction
<1>4. book = [cash |-> Capital, shares |-> 0, entry |-> Zero, reference |-> 0,
              lot |-> 0, order |-> "none", start |-> Capital,
              realized |-> Zero, received |-> 0,
              replay |-> [quantity |-> 0, cost |-> Zero]]
  BY DEF SingleInit, NoPrice
<1> PICK b : b = book
  OBVIOUS
<1>5. /\ b \in Books /\ Untouched(b) /\ b.cash = Capital /\ b.shares = 0 /\ b.entry = Zero
      /\ b.order = "none"
      /\ b.realized = Zero /\ b.start + b.received = Capital
      /\ b.replay.quantity = 0 /\ b.replay.cost = Zero
  BY <1>3, <1>4 DEF Books, Untouched
<1>6. Sound(b)
  <2>1. Parts(Zero, Zero, Zero, 1, 0, 0, 0)
    BY DEF Parts, Stands, Zero, Whole, Fraction
  <2>2. 0 \in Int /\ Capital \in Int /\ Capital * 1 + 0 = Capital * 1 + 0 * 0 /\ 0 = 0 * 0
    BY <1>3
  <2>3. Sums(Capital, Zero, Capital, 0, Zero) /\ Costs(Zero, 0, Zero)
    BY <2>1, <2>2, Balance
  <2> QED
    BY <1>5, <2>3 DEF Sound, AddsUp, Replays
<1> QED
  BY <1>1, <1>2, <1>5, <1>6 DEF SingleInv, Asked

\* Every step of the engine of one ticker keeps it, and realizes no loss unless
\* stop-loss exits are allowed.
LEMMA SingleStep ==
  ASSUME SingleInv, SingleNext
  PROVE  SingleInv' /\ SingleLossless
<1>1. /\ setting' = setting /\ rows' = rows + 1 /\ rows \in Nat /\ SettingOK
  BY DEF SingleInv, SingleNext
<1>2. PICK open \in Prices, close \in Prices, payout \in Payouts :
        IF IsGrid
        THEN \E high \in {p \in Prices : p >= open /\ p >= close},
                low \in {p \in Prices : p <= open /\ p <= close} :
               Row(open, high, low, close, payout, Neither)
        ELSE \E given \in [buy : BOOLEAN, sell : BOOLEAN] :
               Row(open, open, open, close, payout, given)
  BY DEF SingleNext
<1>3. /\ open \in Nat \ {0} /\ close \in Nat \ {0} /\ payout \in Nat
      /\ Prices \subseteq Nat \ {0}
  BY SingleAssumption
<1>4. PICK high \in Nat, low \in Nat, given \in Signals :
        Row(open, high, low, close, payout, given)
  <2>1. Neither \in Signals
    BY DEF Neither, Signals
  <2> QED
    BY <1>2, <1>3, <2>1 DEF Signals
<1>5. /\ Sound(book') /\ InLimits(book') /\ signal' \in Signals
      /\ setting.mode = "signal_close" => book'.order = "none"
      /\ Asked(book', signal')
      /\ SingleLossless
  BY <1>3, <1>4, RowSound
<1>6. SettingOK' /\ rows' \in Nat /\ rows' # 0
  BY <1>1 DEF SettingOK
<1>7. Sound(book)' /\ InLimits(book)' /\ Asked(book, signal)'
  BY <1>1, <1>5 DEF Sound, AddsUp, Replays, InLimits, IsGrid, Asked
<1> QED
  BY <1>1, <1>5, <1>6, <1>7 DEF SingleInv

-----------------------------------------------------------------------------
(* The rotation *)

Percents == {t \in [Assets -> 0..100] : t[1] + t[2] <= 100}

Regimes == {"initial", "leveraged", "primary"}

OptionsOK ==
  /\ options \in [stopLoss : BOOLEAN, dividends : BOOLEAN, reinvest : BOOLEAN,
                  targets : [initial : Percents, leveraged : Percents, primary : Percents]]

Ports == [cash : Nat, shares : [Assets -> Nat], cost : [Assets -> Fraction],
          order : {"none", "leveraged", "primary"}, active : Regimes, desired : [Assets -> Nat],
          realized : Fraction, received : Nat, unlisted : Nat, replay : [Assets -> Nat]]

\* RotationAddsUp and RotationReplays for the port within a row.
Total(p) == RotationCapital + p.received

Holds(p, total) ==
  Equal(Plus(Whole(total), p.realized),
        Plus(Whole(p.cash), Plus(Times(p.shares[1], p.cost[1]), Times(p.shares[2], p.cost[2]))))

Listed(p) == p.unlisted = 0 => p.replay = p.shares

SoundPort(p) == p \in Ports /\ Holds(p, Total(p)) /\ Listed(p)

\* Gains and costs stand y and x[1], x[2].
PortParts(p, d, x, y) ==
  /\ d \in Nat \ {0} /\ x \in [Assets -> Int] /\ y \in Int
  /\ Stands(p.cost[1], x[1], d) /\ Stands(p.cost[2], x[2], d) /\ Stands(p.realized, y, d)

\* The parts of all shares.
Held(s, x) == s[1] * x[1] + s[2] * x[2]

\* What a portfolio's cash balance means in numerators.
LEMMA PortBalance ==
  ASSUME NEW p \in Ports, NEW d, NEW x, NEW y, PortParts(p, d, x, y), NEW total \in Int
  PROVE  Holds(p, total) <=> total * d + y = p.cash * d + Held(p.shares, x)
<1> DEFINE s1 == p.shares[1]
           s2 == p.shares[2]
           x1 == x[1]
           x2 == x[2]
<1>1. /\ d \in Nat \ {0} /\ y \in Int /\ s1 \in Int /\ s2 \in Int /\ x1 \in Int /\ x2 \in Int
      /\ p.cash \in Int
      /\ Stands(p.cost[1], x1, d) /\ Stands(p.cost[2], x2, d) /\ Stands(p.realized, y, d)
  BY DEF PortParts, Ports, Assets
<1> HIDE DEF s1, s2, x1, x2
<1> DEFINE a == total * d
           b == p.cash * d
           h1 == s1 * x1
           h2 == s2 * x2
           h == h1 + h2
<1>2. a \in Int /\ b \in Int /\ h1 \in Int /\ h2 \in Int /\ h \in Int
  BY <1>1
<1>3. Stands(Times(s1, p.cost[1]), h1, d)
  BY <1>1, TimesStands
<1>4. Stands(Times(s2, p.cost[2]), h2, d)
  BY <1>1, TimesStands
<1>5. Stands(Whole(total), a, d) /\ Stands(Whole(p.cash), b, d)
  BY <1>1, WholeStands
<1> HIDE DEF a, b, h1, h2
<1>6. Stands(Plus(Times(s1, p.cost[1]), Times(s2, p.cost[2])), h, d)
  BY <1>1, <1>2, <1>3, <1>4, PlusStands
<1> HIDE DEF h
<1>7. Stands(Plus(Whole(p.cash), Plus(Times(s1, p.cost[1]), Times(s2, p.cost[2]))), b + h, d)
  BY <1>1, <1>2, <1>5, <1>6, PlusStands
<1>8. Stands(Plus(Whole(total), p.realized), a + y, d)
  BY <1>1, <1>2, <1>5, PlusStands
<1>9. a + y \in Int /\ b + h \in Int
  BY <1>1, <1>2
<1>10. Holds(p, total) <=> a + y = b + h
  BY <1>1, <1>7, <1>8, <1>9, Compare DEF Holds, s1, s2
<1> QED
  BY <1>10 DEF a, b, h, h1, h2, s1, s2, x1, x2, Held

\* Parts of which each has a factor m.
LEMMA PortCommon ==
  ASSUME NEW p \in Ports, NEW m \in Nat \ {0}
  PROVE  \E d \in Nat \ {0} : \E x \in [Assets -> Int], y \in Int :
           PortParts(p, m * d, [i \in Assets |-> m * x[i]], y)
<1>1. p.cost[1] \in Fraction /\ p.cost[2] \in Fraction /\ p.realized \in Fraction
  BY DEF Ports, Assets
<1>2. PICK d \in Nat \ {0} : \E u, v, w \in Int :
        /\ Stands(p.cost[1], m * u, m * d) /\ Stands(p.cost[2], m * v, m * d)
        /\ Stands(p.realized, m * w, m * d)
  BY <1>1, Common
<1>3. PICK u \in Int, v \in Int, w \in Int :
        /\ Stands(p.cost[1], m * u, m * d) /\ Stands(p.cost[2], m * v, m * d)
        /\ Stands(p.realized, m * w, m * d)
  BY <1>2
<1> DEFINE x == [i \in Assets |-> IF i = 1 THEN u ELSE v]
           z == [i \in Assets |-> m * x[i]]
<1>4. x \in [Assets -> Int] /\ x[1] = u /\ x[2] = v
  BY DEF Assets
<1>5. m * u \in Int /\ m * v \in Int /\ m * w \in Int /\ m * d \in Nat \ {0}
  OBVIOUS
<1>6. z \in [Assets -> Int] /\ z[1] = m * u /\ z[2] = m * v
  <2> HIDE DEF x
  <2>1. z[1] = m * x[1] /\ z[2] = m * x[2]
    BY DEF Assets
  <2>2. \A i \in Assets : m * x[i] \in Int
    BY <1>4 DEF Assets
  <2> QED
    BY <1>4, <2>1, <2>2
<1> HIDE DEF x
<1>7. PortParts(p, m * d, z, m * w)
  <2> HIDE DEF z
  <2> QED
    BY <1>3, <1>5, <1>6 DEF PortParts
<1> QED
  BY <1>4, <1>5, <1>7

\* One asset's shares and parts change.
Changed(i, s, x, t, z) ==
  /\ {s, x, t, z} \subseteq [Assets -> Int] /\ i \in Assets
  /\ \A j \in Assets \ {i} : t[j] = s[j] /\ z[j] = x[j]

\* The parts of all shares when those of one asset change.
LEMMA HeldChanged ==
  ASSUME NEW i, NEW s, NEW x, NEW t, NEW z, Changed(i, s, x, t, z)
  PROVE  Held(t, z) = (Held(s, x) - s[i] * x[i]) + t[i] * z[i]
<1>0. /\ s \in [Assets -> Int] /\ x \in [Assets -> Int] /\ t \in [Assets -> Int]
      /\ z \in [Assets -> Int] /\ i \in Assets
      /\ \A j \in Assets \ {i} : t[j] = s[j] /\ z[j] = x[j]
  BY DEF Changed
<1>1. /\ s[1] * x[1] \in Int /\ s[2] * x[2] \in Int
      /\ t[1] * z[1] \in Int /\ t[2] * z[2] \in Int
  BY <1>0 DEF Assets
<1>2. CASE i = 1
  <2>1. t[2] = s[2] /\ z[2] = x[2]
    BY <1>0, <1>2 DEF Assets
  <2> QED
    BY <1>1, <1>2, <2>1 DEF Held
<1>3. CASE i = 2
  <2>1. t[1] = s[1] /\ z[1] = x[1]
    BY <1>0, <1>3 DEF Assets
  <2> QED
    BY <1>1, <1>3, <2>1 DEF Held
<1> QED
  BY <1>0, <1>2, <1>3 DEF Assets

\* c is p after a purchase, or a sale, of n shares of asset i.
Buys(p, c, i, n, price) ==
  /\ c \in Ports /\ c.cash = p.cash - n * price
  /\ c.shares = [p.shares EXCEPT ![i] = p.shares[i] + n]
  /\ c.cost = [p.cost EXCEPT ![i] = Over(Plus(Times(p.shares[i], p.cost[i]), Whole(n * price)),
                                         p.shares[i] + n)]
  /\ c.realized = p.realized

Sells(p, c, i, n, price) ==
  /\ c \in Ports /\ c.cash = p.cash + n * price
  /\ c.shares = [p.shares EXCEPT ![i] = p.shares[i] - n]
  /\ c.cost = [p.cost EXCEPT ![i] = IF p.shares[i] = n THEN Zero ELSE p.cost[i]]
  /\ c.realized = Plus(p.realized, Times(n, Minus(Whole(price), p.cost[i])))

\* A purchase of either asset keeps the books.
LEMMA PortBought ==
  ASSUME NEW p \in Ports, NEW total \in Int, Holds(p, total), NEW i \in Assets,
         NEW n \in Nat \ {0}, NEW price \in Nat \ {0}, NEW c, Buys(p, c, i, n, price)
  PROVE  Holds(c, total)
<1> DEFINE s == p.shares[i]
           m == s + n
           k == n * price
<1>1. /\ s \in Nat /\ m \in Nat \ {0} /\ k \in Nat /\ p.cash \in Nat
      /\ p.shares \in [Assets -> Int] /\ p.cost \in [Assets -> Fraction]
  BY DEF Ports
<1>2. PICK d \in Nat \ {0} : \E w \in [Assets -> Int], y \in Int :
        PortParts(p, m * d, [j \in Assets |-> m * w[j]], y)
  <2> HIDE DEF m
  <2> QED
    BY <1>1, PortCommon
<1>3. PICK w \in [Assets -> Int], y \in Int :
        PortParts(p, m * d, [j \in Assets |-> m * w[j]], y)
  BY <1>2
<1> DEFINE D == m * d
           x == [j \in Assets |-> m * w[j]]
           X == x[i]
           q == s * w[i] + k * d
           z == [x EXCEPT ![i] = q]
           u == p.cash - k
<1>4. /\ D \in Nat \ {0} /\ w[i] \in Int /\ X = m * w[i] /\ X \in Int /\ q \in Int
      /\ m * q = s * X + k * D /\ x \in [Assets -> Int]
  <2>1. w[i] \in Int /\ \A j \in Assets : m * w[j] \in Int
    BY <1>1
  <2>2. X = m * w[i]
    OBVIOUS
  <2> HIDE DEF X, k, s
  <2>3. \A o, v \in Int : m * (s * v + k * o) = s * (m * v) + k * (m * o)
    BY <1>1
  <2>4. D \in Nat \ {0} /\ X \in Int /\ q \in Int
    BY <1>1, <2>1, <2>2
  <2>5. m * q = s * X + k * D
    <3>1. m * (s * w[i] + k * d) = s * (m * w[i]) + k * (m * d)
      BY <2>1, <2>3
    <3> QED
      BY <2>2, <3>1
  <2> QED
    BY <2>1, <2>2, <2>4, <2>5
<1>5. PortParts(p, D, x, y)
  BY <1>3
<1> HIDE DEF D, X, q, u
<1>6. z \in [Assets -> Int]
  BY <1>4
<1>7. Stands(p.cost[1], x[1], D) /\ Stands(p.cost[2], x[2], D) /\ Stands(p.cost[i], X, D)
  BY <1>5 DEF PortParts, Assets, X
<1> HIDE DEF x, k, m, s
<1>8. Stands(c.cost[i], q, D)
  <2>1. s * X \in Int /\ k * D \in Int /\ s \in Int /\ k \in Int
    BY <1>1, <1>4
  <2>2. Stands(Times(s, p.cost[i]), s * X, D) /\ Stands(Whole(k), k * D, D)
    BY <1>4, <1>7, <2>1, TimesStands, WholeStands
  <2>3. Stands(Plus(Times(s, p.cost[i]), Whole(k)), m * q, D)
    BY <1>4, <2>1, <2>2, PlusStands
  <2>4. c.cost[i] = Over(Plus(Times(s, p.cost[i]), Whole(k)), m)
    BY <1>1 DEF s, m, k, Buys
  <2> QED
    BY <1>1, <1>4, <2>3, <2>4, OverStands
<1>9. PortParts(c, D, z, y)
  <2>1. \A j \in Assets : Stands(c.cost[j], z[j], D)
    <3> TAKE j \in Assets
    <3>1. CASE j = i
      <4>1. z[j] = q
        BY <1>4, <3>1
      <4> QED
        BY <1>8, <3>1, <4>1
    <3>2. CASE j # i
      <4>1. z[j] = x[j] /\ c.cost[j] = p.cost[j]
        BY <1>1, <1>4, <3>2 DEF Buys
      <4>2. Stands(p.cost[j], x[j], D)
        BY <1>7 DEF Assets
      <4> QED
        BY <4>1, <4>2
    <3> QED
      BY <3>1, <3>2
  <2> HIDE DEF z
  <2> QED
    BY <1>5, <1>6, <2>1 DEF PortParts, Assets, Buys
<1>10. Held(c.shares, z) = (Held(p.shares, x) - s * X) + m * q
  <2>1. m \in Int
    BY <1>1
  <2>2. c.shares = [p.shares EXCEPT ![i] = m]
    BY DEF m, s, Buys
  <2>3. c.shares \in [Assets -> Int] /\ c.shares[i] = m /\ z[i] = q
    BY <1>1, <1>4, <2>1, <2>2
  <2>4. \A j \in Assets \ {i} : c.shares[j] = p.shares[j] /\ z[j] = x[j]
    BY <1>1, <1>4, <2>2
  <2> HIDE DEF z
  <2>5. Held(c.shares, z) = (Held(p.shares, x) - p.shares[i] * x[i]) + c.shares[i] * z[i]
    <3>1. Changed(i, p.shares, x, c.shares, z)
      BY <1>1, <1>4, <1>6, <2>3, <2>4 DEF Changed
    <3> QED
      BY <3>1, HeldChanged
  <2> QED
    BY <2>3, <2>5 DEF s, X
<1>11. total * D + y = p.cash * D + Held(p.shares, x)
  BY <1>5, PortBalance
<1>12. total * D + y = u * D + Held(c.shares, z)
  <2> DEFINE H == Held(p.shares, x)
             G == Held(c.shares, z)
             A == total * D
             B == p.cash * D
             K == k * D
             S == s * X
             M == m * q
  <2>0. H \in Int /\ y \in Int
    <3>1. p.shares[1] * x[1] \in Int /\ p.shares[2] * x[2] \in Int
      BY <1>1, <1>4 DEF Assets
    <3> QED
      BY <3>1 DEF Held
  <2>1. A \in Int /\ B \in Int /\ K \in Int /\ S \in Int /\ M \in Int
    BY <1>1, <1>4
  <2>2. u * D = B - K
    BY <1>1, <1>4 DEF u
  <2>3. G = (H - S) + M /\ M = S + K /\ A + y = B + H
    BY <1>4, <1>10, <1>11
  <2> HIDE DEF H, G, A, B, K, S, M
  <2>4. A + y = (B - K) + G
    BY <2>0, <2>1, <2>3
  <2> QED
    BY <2>2, <2>4 DEF A, G
<1>13. c.cash = u
  BY DEF u, k, Buys
<1> HIDE DEF z
<1>14. Holds(c, total) <=> total * D + y = c.cash * D + Held(c.shares, z)
  BY <1>9, PortBalance DEF Buys
<1> QED
  BY <1>12, <1>13, <1>14

\* A sale keeps the books, and gains what the price is above the average cost.
LEMMA PortSold ==
  ASSUME NEW p \in Ports, NEW total \in Int, Holds(p, total), NEW i \in Assets,
         NEW n \in 1..p.shares[i], NEW price \in Nat \ {0}, NEW c, Sells(p, c, i, n, price)
  PROVE  /\ Holds(c, total)
         /\ AtMost(p.cost[i], Whole(price)) => AtMost(p.realized, c.realized)
<1> DEFINE s == p.shares[i]
           t == s - n
<1>1. /\ s \in Nat /\ n \in Nat \ {0} /\ n <= s /\ t \in Nat /\ p.cash \in Nat
      /\ p.shares \in [Assets -> Int] /\ p.cost \in [Assets -> Fraction]
  BY DEF Ports
<1>2. PICK d \in Nat \ {0} : \E w \in [Assets -> Int], y \in Int :
        PortParts(p, 1 * d, [j \in Assets |-> 1 * w[j]], y)
  <2>1. 1 \in Nat \ {0}
    OBVIOUS
  <2> QED
    BY <2>1, PortCommon
<1>3. PICK w \in [Assets -> Int], y \in Int :
        PortParts(p, 1 * d, [j \in Assets |-> 1 * w[j]], y)
  BY <1>2
<1> DEFINE D == 1 * d
           x == [j \in Assets |-> 1 * w[j]]
           X == x[i]
           g == n * (price * D - X)
           v == IF s = n THEN 0 ELSE X
           z == [x EXCEPT ![i] = v]
           u == p.cash + n * price
<1>4. /\ D \in Nat \ {0} /\ x \in [Assets -> Int] /\ X \in Int /\ v \in Int /\ price * D \in Int
      /\ price * D - X \in Int /\ g \in Int /\ y + g \in Int
  <2>1. \A j \in Assets : 1 * w[j] \in Int
    OBVIOUS
  <2>2. D \in Nat \ {0} /\ x \in [Assets -> Int]
    BY <2>1
  <2> HIDE DEF x, D
  <2>3. X \in Int /\ price * D \in Int
    BY <2>2
  <2> HIDE DEF X
  <2> QED
    BY <1>1, <2>2, <2>3
<1>5. PortParts(p, D, x, y)
  BY <1>3
<1> HIDE DEF D, X, g, v, u
<1>6. z \in [Assets -> Int]
  BY <1>4
<1>7. /\ Stands(p.cost[1], x[1], D) /\ Stands(p.cost[2], x[2], D) /\ Stands(p.cost[i], X, D)
      /\ Stands(p.realized, y, D)
  BY <1>5 DEF PortParts, Assets, X
<1> HIDE DEF x, t, s
<1>8. Stands(c.cost[i], v, D)
  <2>1. c.cost[i] = IF s = n THEN Zero ELSE p.cost[i]
    BY <1>1 DEF s, Sells
  <2>2. Stands(Zero, 0, D)
    BY <1>4 DEF Stands, Zero, Whole, Fraction
  <2> QED
    BY <1>7, <2>1, <2>2 DEF v
<1>9. Stands(Whole(price), price * D, D) /\ Stands(c.realized, y + g, D)
  <2>1. Stands(Whole(price), price * D, D)
    BY <1>4, WholeStands
  <2>2. Stands(Minus(Whole(price), p.cost[i]), price * D - X, D)
    BY <1>4, <1>7, <2>1, PlusStands
  <2>3. n \in Int
    BY <1>1
  <2>4. Stands(Times(n, Minus(Whole(price), p.cost[i])), g, D)
    BY <1>4, <2>2, <2>3, TimesStands DEF g
  <2> QED
    BY <1>4, <1>7, <2>1, <2>4, PlusStands DEF Sells
<1>10. PortParts(c, D, z, y + g)
  <2>1. \A j \in Assets : Stands(c.cost[j], z[j], D)
    <3> TAKE j \in Assets
    <3>1. CASE j = i
      <4>1. z[j] = v
        BY <1>4, <3>1
      <4> QED
        BY <1>8, <3>1, <4>1
    <3>2. CASE j # i
      <4>1. z[j] = x[j] /\ c.cost[j] = p.cost[j]
        BY <1>1, <1>4, <3>2 DEF Sells
      <4>2. Stands(p.cost[j], x[j], D)
        BY <1>7 DEF Assets
      <4> QED
        BY <4>1, <4>2
    <3> QED
      BY <3>1, <3>2
  <2> HIDE DEF z
  <2> QED
    BY <1>4, <1>6, <1>9, <2>1 DEF PortParts, Assets
<1>11. Held(c.shares, z) = (Held(p.shares, x) - s * X) + t * v
  <2>1. t \in Int
    BY <1>1
  <2>2. c.shares = [p.shares EXCEPT ![i] = t]
    BY DEF t, s, Sells
  <2>3. c.shares \in [Assets -> Int] /\ c.shares[i] = t /\ z[i] = v
    BY <1>1, <1>4, <2>1, <2>2
  <2>4. \A j \in Assets \ {i} : c.shares[j] = p.shares[j] /\ z[j] = x[j]
    BY <1>1, <1>4, <2>2
  <2> HIDE DEF z
  <2>5. Held(c.shares, z) = (Held(p.shares, x) - p.shares[i] * x[i]) + c.shares[i] * z[i]
    <3>1. Changed(i, p.shares, x, c.shares, z)
      BY <1>1, <1>4, <1>6, <2>3, <2>4 DEF Changed
    <3> QED
      BY <3>1, HeldChanged
  <2> QED
    BY <2>3, <2>5 DEF s, X
<1>12. total * D + y = p.cash * D + Held(p.shares, x)
  BY <1>5, PortBalance
<1>13. total * D + (y + g) = u * D + Held(c.shares, z)
  <2> DEFINE H == Held(p.shares, x)
             G == Held(c.shares, z)
             A == total * D
             B == p.cash * D
             P == n * (price * D)
             N == n * X
             S == s * X
             T == t * v
  <2>0. H \in Int /\ y \in Int
    <3>1. p.shares[1] * x[1] \in Int /\ p.shares[2] * x[2] \in Int
      BY <1>1, <1>4 DEF Assets
    <3> QED
      BY <3>1 DEF Held
  <2>1. /\ A \in Int /\ B \in Int /\ P \in Int /\ N \in Int /\ S \in Int
    BY <1>1, <1>4
  <2>2. u * D = B + P /\ g = P - N
    <3>1. u * D = B + P
      BY <1>1, <1>4 DEF u
    <3>2. g = P - N
      BY <1>1, <1>4 DEF g
    <3> QED
      BY <3>1, <3>2
  <2>3. G = (H - S) + T /\ A + y = B + H
    BY <1>11, <1>12
  <2>4. T = S - N
    <3>1. CASE s = n
      BY <1>1, <1>4, <3>1 DEF v, t
    <3>2. CASE s # n
      BY <1>1, <1>4, <3>2 DEF v, t
    <3> QED
      BY <3>1, <3>2
  <2> HIDE DEF H, G, A, B, P, N, S, T
  <2>5. A + (y + (P - N)) = (B + P) + G
    BY <2>0, <2>1, <2>3, <2>4
  <2> QED
    BY <2>2, <2>5 DEF A, G
<1>14. c.cash = u
  BY DEF u, Sells
<1>15. Holds(c, total)
  <2> DEFINE e == y + g
  <2>1. PortParts(c, D, z, e) /\ total * D + e = u * D + Held(c.shares, z)
    BY <1>10, <1>13
  <2> HIDE DEF z, e
  <2>2. Holds(c, total) <=> total * D + e = c.cash * D + Held(c.shares, z)
    BY <2>1, PortBalance DEF Sells
  <2> QED
    BY <1>14, <2>1, <2>2
<1>16. ASSUME AtMost(p.cost[i], Whole(price))
       PROVE  AtMost(p.realized, c.realized)
  <2>1. X <= price * D
    BY <1>4, <1>7, <1>9, <1>16, Compare
  <2>2. g >= 0
    BY <1>1, <1>4, <2>1 DEF g
  <2>3. y <= y + g
    BY <1>4, <2>2
  <2> QED
    BY <1>4, <1>7, <1>9, <2>3, Compare
<1> QED
  BY <1>15, <1>16

\* What any number of trades makes of the port p.
Moved(p, c) ==
  /\ SoundPort(c) /\ c.order = p.order
  /\ ~options.stopLoss => AtMost(p.realized, c.realized)

\* What orders do to a portfolio may be chained, none included.
LEMMA MovedOrder ==
  ASSUME NEW p, NEW q, NEW r, SoundPort(p)
  PROVE  Moved(p, p) /\ (Moved(p, q) /\ Moved(q, r) => Moved(p, r))
<1>1. p.realized \in Fraction
  BY DEF SoundPort, Ports
<1>2. Moved(p, p)
  <2>1. AtMost(p.realized, p.realized)
    BY <1>1, AtMostOrder
  <2> QED
    BY <2>1 DEF Moved
<1>3. ASSUME Moved(p, q), Moved(q, r) PROVE Moved(p, r)
  <2>1. q.realized \in Fraction /\ r.realized \in Fraction
    BY <1>3 DEF Moved, SoundPort, Ports
  <2>2. AtMost(p.realized, q.realized) /\ AtMost(q.realized, r.realized)
          => AtMost(p.realized, r.realized)
    BY <1>1, <2>1, AtMostOrder
  <2> QED
    BY <1>3, <2>2 DEF Moved
<1> QED
  BY <1>2, <1>3

PriceLists == [Assets -> Nat \ {0}]

\* A trade of asset i at its price moves equity between cash and shares only.
SameWorth(p, c, i, price) ==
  /\ Equity(c, price) = Equity(p, price)
  /\ \A j \in Assets \ {i} : c.shares[j] = p.shares[j]

\* A trade at a price leaves the equity at that price as it is.
LEMMA TradeWorth ==
  ASSUME NEW p \in Ports, NEW c \in Ports, NEW i \in Assets, NEW n \in Int,
         NEW price \in PriceLists,
         c.cash = p.cash - n * price[i], c.shares[i] = p.shares[i] + n,
         \A j \in Assets \ {i} : c.shares[j] = p.shares[j]
  PROVE  SameWorth(p, c, i, price)
<1>1. /\ p.cash \in Int /\ p.shares \in [Assets -> Int] /\ c.shares \in [Assets -> Int]
      /\ price \in [Assets -> Int] /\ price[i] \in Int /\ p.shares[i] \in Int
  BY DEF Ports, PriceLists
<1>2. Changed(i, p.shares, price, c.shares, price)
  BY <1>1 DEF Changed
<1>3. Held(c.shares, price)
        = (Held(p.shares, price) - p.shares[i] * price[i]) + c.shares[i] * price[i]
  <2>1. \A s, t : Changed(i, s, price, t, price) =>
          Held(t, price) = (Held(s, price) - s[i] * price[i]) + t[i] * price[i]
    BY HeldChanged
  <2> QED
    BY <1>2, <2>1, Zenon
<1>4. Equity(p, price) = p.cash + Held(p.shares, price)
  <2>1. p.shares[1] * price[1] \in Int /\ p.shares[2] * price[2] \in Int
    BY <1>1 DEF Assets
  <2> QED
    BY <1>1, <2>1 DEF Equity, Held
<1>5. Equity(c, price) = c.cash + Held(c.shares, price)
  <2>1. c.shares[1] * price[1] \in Int /\ c.shares[2] * price[2] \in Int /\ c.cash \in Int
    BY <1>1 DEF Assets, Ports
  <2> QED
    BY <1>1, <2>1 DEF Equity, Held
<1>6. Held(p.shares, price) \in Int
  <2>1. p.shares[1] * price[1] \in Int /\ p.shares[2] * price[2] \in Int
    BY <1>1 DEF Assets
  <2> QED
    BY <2>1 DEF Held
<1>7. c.shares[i] * price[i] = p.shares[i] * price[i] + n * price[i]
  BY <1>1
<1>8. p.shares[i] * price[i] \in Int /\ n * price[i] \in Int
  BY <1>1
<1> QED
  BY <1>1, <1>3, <1>4, <1>5, <1>6, <1>7, <1>8 DEF SameWorth

\* A sale of no more than is held.
LEMMA SellAssetMoved ==
  ASSUME NEW p, SoundPort(p), NEW i \in Assets, NEW n \in Int, NEW price \in PriceLists,
         n <= p.shares[i]
  PROVE  LET c == SellAsset(p, i, n, price)
         IN /\ Moved(p, c) /\ SameWorth(p, c, i, price)
            /\ options.stopLoss /\ n > 0 => c.shares[i] = p.shares[i] - n
            /\ n <= 0 => c.shares[i] = p.shares[i]
<1> DEFINE c == SellAsset(p, i, n, price)
           idle == n <= 0 \/ (~options.stopLoss /\ ~AtMost(p.cost[i], Whole(price[i])))
<1>1. /\ p \in Ports /\ Holds(p, Total(p)) /\ Listed(p)
      /\ p.shares[i] \in Nat /\ price[i] \in Nat \ {0} /\ p.cost[i] \in Fraction
      /\ p.replay[i] \in Nat
  BY DEF SoundPort, Ports, PriceLists
<1>2. CASE idle
  <2>1. c = p
    BY <1>2 DEF SellAsset
  <2> HIDE DEF c
  <2>2. Moved(p, p)
    BY MovedOrder
  <2>3. SameWorth(p, c, i, price) /\ c.shares[i] = p.shares[i]
    BY <2>1 DEF SameWorth
  <2> QED
    BY <1>2, <2>1, <2>2, <2>3 DEF c
<1>3. CASE ~idle
  <2> DEFINE k == p.cash + n * price[i]
             s == p.shares[i] - n
             e == IF p.shares[i] = n THEN Zero ELSE p.cost[i]
             g == Plus(p.realized, Times(n, Minus(Whole(price[i]), p.cost[i])))
             r == Max({0, p.replay[i] - n})
  <2>1. c = [p EXCEPT !.cash = k, !.shares[i] = s, !.cost[i] = e, !.realized = g, !.replay[i] = r]
    BY <1>3 DEF SellAsset
  <2>2. n \in 1..p.shares[i] /\ k \in Nat /\ s \in Nat
    BY <1>1, <1>3 DEF Ports
  <2>3. e \in Fraction /\ g \in Fraction
    <3>1. Whole(price[i]) \in Fraction /\ Zero \in Fraction
      BY <1>1 DEF Whole, Zero, Fraction
    <3>2. Minus(Whole(price[i]), p.cost[i]) \in Fraction
      BY <1>1, <3>1, FractionType
    <3>3. Times(n, Minus(Whole(price[i]), p.cost[i])) \in Fraction
      BY <3>2, FractionTypes
    <3> QED
      BY <1>1, <3>1, <3>3, FractionTypes DEF Ports
  <2>4. r = IF 0 >= p.replay[i] - n THEN 0 ELSE p.replay[i] - n
    BY <1>1, Most2
  <2>5. r \in Nat
    BY <1>1, <2>4
  <2> HIDE DEF c, k, s, e, g, r
  <2>6. c \in Ports
    BY <1>1, <2>1, <2>2, <2>3, <2>5 DEF Ports
  <2>7. /\ c.cash = k /\ c.shares = [p.shares EXCEPT ![i] = s] /\ c.cost = [p.cost EXCEPT ![i] = e]
        /\ c.realized = g /\ c.replay = [p.replay EXCEPT ![i] = r] /\ c.order = p.order
        /\ c.received = p.received /\ c.unlisted = p.unlisted
    BY <1>1, <2>1 DEF Ports
  <2>8. Sells(p, c, i, n, price[i])
    BY <2>6, <2>7 DEF Sells, k, s, e, g
  <2>9. /\ Holds(c, Total(p))
        /\ AtMost(p.cost[i], Whole(price[i])) => AtMost(p.realized, c.realized)
    <3>1. Total(p) \in Int
      BY <1>1, RotationAssumption DEF Total, Ports
    <3> QED
      BY <1>1, <2>2, <2>8, <3>1, PortSold
  <2>10. Listed(c)
    <3>1. ASSUME p.unlisted = 0 PROVE c.replay = c.shares
      <4>1. p.replay = p.shares
        BY <1>1, <3>1 DEF Listed
      <4>2. r = s
        BY <1>1, <2>2, <2>4, <4>1 DEF s
      <4> QED
        BY <2>7, <4>1, <4>2
    <3> QED
      BY <2>7, <3>1 DEF Listed
  <2>11. Moved(p, c)
    BY <1>3, <2>6, <2>7, <2>9, <2>10 DEF Moved, SoundPort, Total
  <2>12. c.shares[i] = s /\ \A j \in Assets \ {i} : c.shares[j] = p.shares[j]
    BY <1>1, <2>7 DEF Ports
  <2>13. SameWorth(p, c, i, price)
    <3>1. -n \in Int /\ c.cash = p.cash - (-n) * price[i] /\ c.shares[i] = p.shares[i] + (-n)
      BY <1>1, <2>7, <2>12 DEF k, s, Ports
    <3> DEFINE u == -n
    <3>2. u \in Int /\ c.cash = p.cash - u * price[i] /\ c.shares[i] = p.shares[i] + u
      BY <3>1
    <3> HIDE DEF u
    <3> QED
      BY <1>1, <2>6, <2>12, <3>2, TradeWorth
  <2> QED
    BY <1>3, <2>2, <2>11, <2>12, <2>13 DEF c, s
<1> QED
  BY <1>2, <1>3

\* A purchase: as many as are wanted and cash pays for.
LEMMA BuyAssetMoved ==
  ASSUME NEW p, SoundPort(p), NEW i \in Assets, NEW wanted \in Nat, NEW price \in PriceLists
  PROVE  LET c == BuyAsset(p, i, wanted, price)
         IN /\ Moved(p, c) /\ SameWorth(p, c, i, price)
            /\ p.shares[i] <= wanted /\ (wanted - p.shares[i]) * price[i] <= p.cash
                 => c.shares[i] = wanted
<1> DEFINE c == BuyAsset(p, i, wanted, price)
           gap == Max({0, wanted - p.shares[i]})
           q == Max({0, p.cash}) \div price[i]
           n == Min({gap, q})
<1>1. /\ p \in Ports /\ Holds(p, Total(p)) /\ Listed(p) /\ p.cash \in Nat
      /\ p.shares[i] \in Nat /\ price[i] \in Nat \ {0} /\ p.cost[i] \in Fraction
      /\ p.replay[i] \in Nat
  BY DEF SoundPort, Ports, PriceLists
<1>2. gap = IF 0 >= wanted - p.shares[i] THEN 0 ELSE wanted - p.shares[i]
  BY <1>1, Most2
<1>3. q = p.cash \div price[i] /\ q \in Nat /\ gap \in Nat
  <2>1. Max({0, p.cash}) = IF 0 >= p.cash THEN 0 ELSE p.cash
    BY <1>1, Most2
  <2>2. Max({0, p.cash}) = p.cash
    BY <1>1, <2>1
  <2>3. q = p.cash \div price[i]
    BY <2>2
  <2> HIDE DEF gap
  <2> QED
    BY <1>1, <1>2, <2>3, Affordable
<1> HIDE DEF gap, q
<1>4. n = IF gap <= q THEN gap ELSE q
  BY <1>3, Least2
<1>5. n \in Nat /\ n <= gap /\ n <= q
  BY <1>3, <1>4
<1>6. c = IF n <= 0 THEN p
          ELSE [p EXCEPT !.cash = p.cash - n * price[i], !.shares[i] = p.shares[i] + n,
                         !.cost[i] = Averaged(p, i, n, price), !.replay[i] = p.replay[i] + n]
  BY DEF BuyAsset, gap, q
<1> HIDE DEF n
<1>7. n * price[i] <= p.cash
  BY <1>1, <1>3, <1>5, Affordable
<1>8. p.shares[i] <= wanted /\ (wanted - p.shares[i]) * price[i] <= p.cash
        => p.shares[i] + n = wanted
  <2> SUFFICES ASSUME p.shares[i] <= wanted, (wanted - p.shares[i]) * price[i] <= p.cash
               PROVE  p.shares[i] + n = wanted
    OBVIOUS
  <2>1. gap = wanted - p.shares[i]
    BY <1>1, <1>2
  <2>2. gap * price[i] <= p.cash
    BY <2>1
  <2>3. gap <= q
    <3>1. q \in Nat /\ (q + 1) * price[i] > p.cash
      BY <1>1, <1>3
    <3>2. ASSUME gap > q PROVE FALSE
      <4>1. (gap - (q + 1)) * price[i] >= 0
        BY <1>1, <1>3, <3>2
      <4>2. (gap - (q + 1)) * price[i] = gap * price[i] - (q + 1) * price[i]
        BY <1>1, <1>3
      <4>3. gap * price[i] \in Int /\ (q + 1) * price[i] \in Int
        BY <1>1, <1>3
      <4> QED
        BY <1>1, <2>2, <3>1, <4>1, <4>2, <4>3
    <3> QED
      BY <1>3, <3>2
  <2> QED
    BY <1>1, <1>3, <1>4, <2>1, <2>3
<1>9. CASE n = 0
  <2>1. c = p
    BY <1>6, <1>9
  <2> HIDE DEF c
  <2>2. Moved(p, p)
    BY MovedOrder
  <2>3. SameWorth(p, c, i, price) /\ c.shares[i] = p.shares[i] + n
    BY <1>1, <1>9, <2>1 DEF SameWorth
  <2> QED
    BY <1>8, <2>1, <2>2, <2>3 DEF c
<1>10. CASE n # 0
  <2> DEFINE k == p.cash - n * price[i]
             s == p.shares[i] + n
             e == Averaged(p, i, n, price)
             r == p.replay[i] + n
  <2>1. c = [p EXCEPT !.cash = k, !.shares[i] = s, !.cost[i] = e, !.replay[i] = r]
    BY <1>5, <1>6, <1>10
  <2>2. n \in Nat \ {0} /\ k \in Nat /\ s \in Nat \ {0} /\ r \in Nat /\ n * price[i] \in Int
    BY <1>1, <1>5, <1>7, <1>10
  <2>3. e \in Fraction
    <3>1. Whole(n * price[i]) \in Fraction /\ Times(p.shares[i], p.cost[i]) \in Fraction
      BY <1>1, <2>2, FractionTypes
    <3>2. Plus(Times(p.shares[i], p.cost[i]), Whole(n * price[i])) \in Fraction
      BY <3>1, FractionTypes
    <3> QED
      BY <2>2, <3>2, FractionTypes DEF Averaged
  <2> HIDE DEF c, k, s, e, r
  <2>6. c \in Ports
    BY <1>1, <2>1, <2>2, <2>3 DEF Ports
  <2>7. /\ c.cash = k /\ c.shares = [p.shares EXCEPT ![i] = s] /\ c.cost = [p.cost EXCEPT ![i] = e]
        /\ c.realized = p.realized /\ c.replay = [p.replay EXCEPT ![i] = r] /\ c.order = p.order
        /\ c.received = p.received /\ c.unlisted = p.unlisted
    BY <1>1, <2>1 DEF Ports
  <2>8. Buys(p, c, i, n, price[i])
    BY <2>6, <2>7 DEF Buys, k, s, e, Averaged
  <2>9. Holds(c, Total(p))
    <3>1. Total(p) \in Int
      BY <1>1, RotationAssumption DEF Total, Ports
    <3> QED
      BY <1>1, <2>2, <2>8, <3>1, PortBought
  <2>10. Listed(c)
    <3>1. ASSUME p.unlisted = 0 PROVE c.replay = c.shares
      <4>1. p.replay = p.shares
        BY <1>1, <3>1 DEF Listed
      <4>2. r = s
        BY <4>1 DEF r, s
      <4> QED
        BY <2>7, <4>1, <4>2
    <3> QED
      BY <2>7, <3>1 DEF Listed
  <2>11. Moved(p, c)
    <3>1. Moved(p, p)
      BY MovedOrder
    <3> QED
      BY <2>6, <2>7, <2>9, <2>10, <3>1 DEF Moved, SoundPort, Total
  <2>12. c.shares[i] = s /\ \A j \in Assets \ {i} : c.shares[j] = p.shares[j]
    BY <1>1, <2>7 DEF Ports
  <2>13. SameWorth(p, c, i, price)
    <3>1. n \in Int /\ c.cash = p.cash - n * price[i] /\ c.shares[i] = p.shares[i] + n
      BY <2>2, <2>7, <2>12 DEF k, s
    <3> QED
      BY <1>1, <2>6, <2>12, <3>1, TradeWorth
  <2> QED
    BY <1>8, <2>11, <2>12, <2>13 DEF c, s
<1> QED
  BY <1>9, <1>10

\* What the limits of a regime ask for costs no more than the equity.
LEMMA WantedAffordable ==
  ASSUME NEW p, SoundPort(p), OptionsOK, NEW regime \in Regimes, NEW price \in PriceLists
  PROVE  LET w == Wanted(p, regime, price)
         IN w \in [Assets -> Nat] /\ w[1] * price[1] + w[2] * price[2] <= Equity(p, price)
<1> DEFINE E == Equity(p, price)
           t == options.targets[regime]
           w == Wanted(p, regime, price)
<1>1. /\ p.cash \in Nat /\ p.shares[1] \in Nat /\ p.shares[2] \in Nat
      /\ price[1] \in Nat \ {0} /\ price[2] \in Nat \ {0}
  BY DEF SoundPort, Ports, PriceLists, Assets
<1>2. E \in Nat
  <2>1. p.shares[1] * price[1] \in Nat /\ p.shares[2] * price[2] \in Nat
    BY <1>1
  <2> QED
    BY <1>1, <2>1 DEF Equity
<1>3. t \in Percents
  BY DEF OptionsOK, Regimes
<1> HIDE DEF t
<1>4. t[1] \in Nat /\ t[2] \in Nat /\ t[1] + t[2] <= 100
  BY <1>3 DEF Percents, Assets
<1>5. /\ w = [i \in Assets |-> (E * t[i]) \div (100 * price[i])]
  BY DEF Wanted, t
<1> HIDE DEF E, w
<1>6. /\ E * t[1] \in Nat /\ E * t[2] \in Nat
      /\ 100 * price[1] \in Nat \ {0} /\ 100 * price[2] \in Nat \ {0}
  BY <1>1, <1>2, <1>4
<1>7. w[1] = (E * t[1]) \div (100 * price[1]) /\ w[2] = (E * t[2]) \div (100 * price[2])
  BY <1>5 DEF Assets
<1>8. w[1] \in Nat /\ w[2] \in Nat /\ w[1] <= w[1] /\ w[2] <= w[2]
  BY <1>6, <1>7, Affordable
<1>9. w \in [Assets -> Nat]
  BY <1>5, <1>8 DEF Assets
<1>10. w[1] * (100 * price[1]) <= E * t[1] /\ w[2] * (100 * price[2]) <= E * t[2]
  BY <1>6, <1>7, <1>8, Affordable
<1> DEFINE a == w[1] * price[1]
           b == w[2] * price[2]
<1>11. a \in Nat /\ b \in Nat /\ 100 * a <= E * t[1] /\ 100 * b <= E * t[2]
  BY <1>1, <1>8, <1>10
<1>12. E * t[1] + E * t[2] <= 100 * E
  <2>1. E * t[1] + E * t[2] = E * (t[1] + t[2])
    BY <1>2, <1>4
  <2>2. E * (100 - (t[1] + t[2])) >= 0
    BY <1>2, <1>4
  <2>3. E * (100 - (t[1] + t[2])) = 100 * E - E * (t[1] + t[2])
    BY <1>2, <1>4
  <2>4. E * (t[1] + t[2]) \in Int
    BY <1>2, <1>4
  <2> QED
    BY <1>2, <2>1, <2>2, <2>3, <2>4
<1> HIDE DEF a, b
<1>13. a + b <= E
  BY <1>2, <1>6, <1>11, <1>12
<1> QED
  BY <1>9, <1>13 DEF a, b, E, w

\* Rebalancing keeps the books; when every sale may be made, both assets end at
\* what is wanted.
LEMMA RebalancedMoved ==
  ASSUME NEW p, SoundPort(p), OptionsOK, NEW regime \in Regimes, NEW price \in PriceLists
  PROVE  LET c == Rebalanced(p, regime, price)
         IN Moved(p, c) /\ (options.stopLoss => c.shares = c.desired)
<1> DEFINE w == Wanted(p, regime, price)
           q == SellAsset(p, 1, p.shares[1] - w[1], price)
           r == SellAsset(q, 2, p.shares[2] - w[2], price)
           u == BuyAsset(r, 1, w[1], price)
           v == BuyAsset(u, 2, w[2], price)
           c == [v EXCEPT !.active = IF v = p THEN v.active ELSE regime, !.desired = w]
<1>0. 1 \in Assets /\ 2 \in Assets /\ Assets \ {1} = {2} /\ Assets \ {2} = {1}
  BY DEF Assets
<1>1. w \in [Assets -> Nat] /\ w[1] * price[1] + w[2] * price[2] <= Equity(p, price)
  BY WantedAffordable
<1>2. w[1] \in Nat /\ w[2] \in Nat /\ price[1] \in Nat \ {0} /\ price[2] \in Nat \ {0}
  BY <1>0, <1>1 DEF PriceLists
<1>3. Rebalanced(p, regime, price) = c
  BY DEF Rebalanced
<1> HIDE DEF w
<1>4. \A z : SoundPort(z) => z.shares[1] \in Nat /\ z.shares[2] \in Nat /\ z.cash \in Nat
  BY <1>0 DEF SoundPort, Ports
<1>5. /\ Moved(p, q) /\ SameWorth(p, q, 1, price)
      /\ options.stopLoss => q.shares[1] <= w[1]
  <2>1. p.shares[1] - w[1] \in Int /\ p.shares[1] - w[1] <= p.shares[1]
    BY <1>2, <1>4
  <2>2. /\ Moved(p, q) /\ SameWorth(p, q, 1, price)
        /\ options.stopLoss /\ p.shares[1] - w[1] > 0 =>
             q.shares[1] = p.shares[1] - (p.shares[1] - w[1])
        /\ p.shares[1] - w[1] <= 0 => q.shares[1] = p.shares[1]
    BY <1>0, <2>1, SellAssetMoved
  <2> QED
    BY <1>2, <1>4, <2>2
<1>6. SoundPort(q) /\ q.shares[2] = p.shares[2]
  BY <1>0, <1>5 DEF Moved, SameWorth
<1> HIDE DEF q
<1>7. /\ Moved(q, r) /\ SameWorth(q, r, 2, price)
      /\ options.stopLoss => r.shares[2] <= w[2]
  <2>1. p.shares[2] - w[2] \in Int /\ p.shares[2] - w[2] <= q.shares[2]
    BY <1>2, <1>4, <1>6
  <2>2. /\ Moved(q, r) /\ SameWorth(q, r, 2, price)
        /\ options.stopLoss /\ p.shares[2] - w[2] > 0 =>
             r.shares[2] = q.shares[2] - (p.shares[2] - w[2])
        /\ p.shares[2] - w[2] <= 0 => r.shares[2] = q.shares[2]
    BY <1>0, <1>6, <2>1, SellAssetMoved
  <2> QED
    BY <1>2, <1>4, <1>6, <2>2
<1>8. SoundPort(r) /\ r.shares[1] = q.shares[1]
  BY <1>0, <1>7 DEF Moved, SameWorth
<1> HIDE DEF r
<1>9. /\ Moved(r, u) /\ SameWorth(r, u, 1, price)
      /\ r.shares[1] <= w[1] /\ (w[1] - r.shares[1]) * price[1] <= r.cash => u.shares[1] = w[1]
  BY <1>0, <1>2, <1>8, BuyAssetMoved
<1>10. SoundPort(u) /\ u.shares[2] = r.shares[2]
  BY <1>0, <1>9 DEF Moved, SameWorth
<1> HIDE DEF u
<1>11. /\ Moved(u, v) /\ SameWorth(u, v, 2, price)
       /\ u.shares[2] <= w[2] /\ (w[2] - u.shares[2]) * price[2] <= u.cash => v.shares[2] = w[2]
  BY <1>0, <1>2, <1>10, BuyAssetMoved
<1>12. SoundPort(v) /\ v.shares[1] = u.shares[1]
  BY <1>0, <1>11 DEF Moved, SameWorth
<1> HIDE DEF v
<1>13. Moved(p, v)
  <2>1. Moved(p, r)
    BY <1>5, <1>7, MovedOrder
  <2>2. Moved(p, u)
    BY <1>9, <2>1, MovedOrder
  <2> QED
    BY <1>11, <2>2, MovedOrder
<1>14. v \in Ports /\ p \in Ports
  BY <1>12 DEF SoundPort
<1>15. /\ c \in Ports /\ c.shares = v.shares /\ c.desired = w /\ c.cash = v.cash
       /\ c.cost = v.cost /\ c.realized = v.realized /\ c.received = v.received
       /\ c.replay = v.replay /\ c.unlisted = v.unlisted /\ c.order = v.order
  BY <1>1, <1>14 DEF Ports
<1> HIDE DEF c
<1>16. Moved(p, c)
  BY <1>13, <1>15 DEF Moved, SoundPort, Holds, Total, Listed
<1>17. ASSUME options.stopLoss PROVE v.shares = w
  <2> DEFINE E == Equity(p, price)
             a == w[1] * price[1]
             b == w[2] * price[2]
             x == r.shares[1] * price[1]
             y == r.shares[2] * price[2]
  <2>1. Equity(r, price) = E /\ Equity(u, price) = E
    BY <1>5, <1>7, <1>9 DEF SameWorth
  <2>2. r.shares[1] <= w[1] /\ r.shares[2] <= w[2]
    BY <1>5, <1>7, <1>8, <1>17
  <2>3. /\ r.shares[1] \in Nat /\ r.shares[2] \in Nat /\ r.cash \in Nat /\ u.cash \in Nat
        /\ u.shares[1] \in Nat
    BY <1>4, <1>8, <1>10
  <2>4. a \in Int /\ b \in Int /\ x \in Int /\ y \in Int
    BY <1>2, <2>3
  <2>5. (w[1] - r.shares[1]) * price[1] = a - x /\ (w[2] - r.shares[2]) * price[2] = b - y
    BY <1>2, <2>3
  <2>6. (w[2] - r.shares[2]) * price[2] >= 0
    BY <1>2, <2>2, <2>3
  <2>7. a + b <= E /\ E = r.cash + x + y
    BY <1>1, <2>1 DEF Equity
  <2>8. E = u.cash + u.shares[1] * price[1] + y
    BY <1>10, <2>1 DEF Equity
  <2> HIDE DEF a, b, x, y, E
  <2>9. (w[1] - r.shares[1]) * price[1] <= r.cash
    BY <2>3, <2>4, <2>5, <2>6, <2>7
  <2>10. u.shares[1] = w[1]
    BY <1>9, <2>2, <2>9
  <2>11. E = u.cash + a + y
    BY <2>8, <2>10 DEF a
  <2>12. (w[2] - u.shares[2]) * price[2] <= u.cash
    BY <1>10, <2>3, <2>4, <2>5, <2>7, <2>11
  <2>13. v.shares[2] = w[2] /\ v.shares[1] = w[1]
    BY <1>10, <1>11, <1>12, <2>2, <2>10, <2>12
  <2>14. v.shares \in [Assets -> Nat]
    BY <1>14 DEF Ports
  <2> QED
    BY <1>1, <2>13, <2>14 DEF Assets
<1> QED
  BY <1>3, <1>15, <1>16, <1>17

\* A dividend in cash is added to what the books are about.
LEMMA PortPaid ==
  ASSUME NEW p \in Ports, NEW total \in Int, Holds(p, total), NEW dividend \in Nat, NEW c \in Ports,
         c.cash = p.cash + dividend, c.shares = p.shares, c.cost = p.cost, c.realized = p.realized
  PROVE  Holds(c, total + dividend)
<1>1. PICK d \in Nat \ {0} : \E w \in [Assets -> Int], y \in Int :
        PortParts(p, 1 * d, [j \in Assets |-> 1 * w[j]], y)
  <2>1. 1 \in Nat \ {0}
    OBVIOUS
  <2> QED
    BY <2>1, PortCommon
<1>2. PICK w \in [Assets -> Int], y \in Int :
        PortParts(p, 1 * d, [j \in Assets |-> 1 * w[j]], y)
  BY <1>1
<1> DEFINE D == 1 * d
           x == [j \in Assets |-> 1 * w[j]]
           H == Held(p.shares, x)
           t == total + dividend
<1>3. PortParts(p, D, x, y) /\ PortParts(c, D, x, y)
  BY <1>2 DEF PortParts
<1> HIDE DEF D, x
<1>4. /\ D \in Int /\ y \in Int /\ x \in [Assets -> Int] /\ p.cash \in Int /\ total \in Int
      /\ dividend \in Int /\ p.shares \in [Assets -> Int] /\ t \in Int
  BY <1>3 DEF PortParts, Ports
<1>5. H \in Int
  <2>1. p.shares[1] * x[1] \in Int /\ p.shares[2] * x[2] \in Int
    BY <1>4 DEF Assets
  <2> QED
    BY <2>1 DEF Held
<1>6. total * D + y = p.cash * D + H
  BY <1>3, PortBalance
<1> HIDE DEF H
<1>7. /\ total * D \in Int /\ p.cash * D \in Int /\ dividend * D \in Int
      /\ t * D = total * D + dividend * D
      /\ c.cash * D = p.cash * D + dividend * D
  BY <1>4
<1>8. t * D + y = c.cash * D + H
  <2> DEFINE A == total * D
             B == p.cash * D
             C == dividend * D
  <2>1. A \in Int /\ B \in Int /\ C \in Int /\ y \in Int
    BY <1>4, <1>7
  <2>2. t * D = A + C /\ c.cash * D = B + C /\ A + y = B + H
    BY <1>6, <1>7
  <2> HIDE DEF A, B, C, t
  <2>3. (A + C) + y = (B + C) + H
    BY <1>5, <2>1, <2>2
  <2> QED
    BY <2>2, <2>3
<1>9. Holds(c, t) <=> t * D + y = c.cash * D + H
  <2> HIDE DEF t
  <2>1. Holds(c, t) <=> t * D + y = c.cash * D + Held(c.shares, x)
    BY <1>3, <1>4, PortBalance
  <2> QED
    BY <2>1 DEF H
<1> QED
  BY <1>8, <1>9

\* Dividends of an asset, kept or reinvested in whole shares.
LEMMA PaidOnMoved ==
  ASSUME NEW p, SoundPort(p), NEW i \in Assets, NEW payout \in [Assets -> Nat],
         NEW close \in PriceLists
  PROVE  Moved(p, PaidOn(p, i, payout, close))
<1> DEFINE dividend == p.shares[i] * payout[i]
           paid == [p EXCEPT !.cash = p.cash + dividend, !.received = p.received + dividend]
           n == IF options.reinvest THEN dividend \div close[i] ELSE 0
           k == paid.cash - n * close[i]
           s == paid.shares[i] + n
           e == Averaged(p, i, n, close)
           f == paid.unlisted + n
           bought == [paid EXCEPT !.cash = k, !.shares[i] = s, !.cost[i] = e, !.unlisted = f]
           c == PaidOn(p, i, payout, close)
<1>1. /\ p \in Ports /\ Holds(p, Total(p)) /\ Listed(p) /\ p.cash \in Nat /\ p.received \in Nat
      /\ p.shares[i] \in Nat /\ payout[i] \in Nat /\ close[i] \in Nat \ {0}
      /\ p.cost[i] \in Fraction /\ Moved(p, p) /\ RotationCapital \in Nat
  BY MovedOrder, RotationAssumption DEF SoundPort, Ports, PriceLists
<1>2. dividend \in Nat
  BY <1>1
<1>3. c = IF n = 0 THEN paid ELSE bought
  BY DEF PaidOn
<1> HIDE DEF dividend, c
<1>4. n \in Nat /\ n * close[i] <= dividend
  <2>1. /\ dividend \div close[i] \in Nat
        /\ dividend \div close[i] <= dividend \div close[i]
    BY <1>1, <1>2, Affordable
  <2>2. (dividend \div close[i]) * close[i] <= dividend
    BY <1>1, <1>2, <2>1, Affordable
  <2> QED
    BY <1>1, <1>2, <2>1, <2>2
<1> HIDE DEF n
<1>5. paid \in Ports
  <2>1. p.cash + dividend \in Nat /\ p.received + dividend \in Nat
    BY <1>1, <1>2
  <2> QED
    BY <1>1, <2>1 DEF Ports
<1>6. /\ paid.cash = p.cash + dividend /\ paid.received = p.received + dividend
      /\ paid.shares = p.shares /\ paid.cost = p.cost /\ paid.realized = p.realized
      /\ paid.replay = p.replay /\ paid.unlisted = p.unlisted /\ paid.order = p.order
  BY <1>1 DEF Ports
<1> HIDE DEF paid
<1>7. Holds(paid, Total(paid))
  <2>1. Total(p) \in Int /\ Total(paid) = Total(p) + dividend
    BY <1>1, <1>2, <1>6 DEF Total
  <2>2. Holds(paid, Total(p) + dividend)
    BY <1>1, <1>2, <1>5, <1>6, <2>1, PortPaid
  <2> QED
    BY <2>1, <2>2
<1>8. CASE n = 0
  <2>1. Moved(p, paid)
    BY <1>1, <1>5, <1>6, <1>7 DEF Moved, SoundPort, Listed
  <2> QED
    BY <1>3, <1>8, <2>1 DEF c
<1>9. CASE n # 0
  <2>1. c = bought
    BY <1>3, <1>9
  <2>2. /\ n \in Nat \ {0} /\ n * close[i] \in Int /\ k \in Nat /\ s \in Nat \ {0}
        /\ f \in Nat \ {0}
    BY <1>1, <1>2, <1>4, <1>5, <1>6, <1>9 DEF Ports
  <2>3. e \in Fraction
    <3>1. Whole(n * close[i]) \in Fraction /\ Times(p.shares[i], p.cost[i]) \in Fraction
      BY <1>1, <2>2, FractionTypes
    <3>2. Plus(Times(p.shares[i], p.cost[i]), Whole(n * close[i])) \in Fraction
      BY <3>1, FractionTypes
    <3>3. p.shares[i] + n \in Nat \ {0}
      BY <1>1, <2>2
    <3> QED
      BY <3>2, <3>3, FractionTypes DEF Averaged
  <2> HIDE DEF k, s, e, f
  <2>4. c \in Ports
    <3>1. [paid.shares EXCEPT ![i] = s] \in [Assets -> Nat]
      BY <1>5, <2>2 DEF Ports
    <3>2. [paid.cost EXCEPT ![i] = e] \in [Assets -> Fraction]
      BY <1>5, <2>3 DEF Ports
    <3> QED
      BY <1>5, <2>1, <2>2, <3>1, <3>2 DEF Ports
  <2>5. /\ c.cash = k /\ c.shares = [paid.shares EXCEPT ![i] = s]
        /\ c.cost = [paid.cost EXCEPT ![i] = e] /\ c.realized = paid.realized
        /\ c.received = paid.received /\ c.unlisted = f /\ c.order = paid.order
    BY <1>5, <2>1 DEF Ports
  <2>6. Buys(paid, c, i, n, close[i])
    BY <1>6, <2>4, <2>5 DEF Buys, k, s, e, Averaged
  <2>7. Holds(c, Total(paid))
    <3>1. Total(paid) \in Int
      BY <1>1, <1>5 DEF Total, Ports
    <3> QED
      BY <1>1, <1>5, <1>7, <2>2, <2>6, <3>1, PortBought
  <2>8. Holds(c, Total(c)) /\ Listed(c)
    BY <2>2, <2>5, <2>7 DEF Total, Listed
  <2>9. Moved(p, c)
    BY <1>1, <1>6, <2>4, <2>5, <2>8 DEF Moved, SoundPort
  <2> QED
    BY <2>9 DEF c
<1> QED
  BY <1>8, <1>9

Minds == [regime : Regimes, entry : Nat, awaits : {"none", "leveraged", "primary"}]

\* The inductive invariant of RotationBacktest.
RotationInv == OptionsOK /\ closes \in Seq(Nat) /\ mind \in Minds /\ SoundPort(port)

\* Limits as entered become percentages of which none is negative and no two
\* exceed the equity.
LEMMA TargetsOK ==
  ASSUME NEW l \in Limits
  PROVE  Targets(l) \in [initial : Percents, leveraged : Percents, primary : Percents]
<1>1. l \in [initial : [Assets -> 0..100], least : [Assets -> 0..100], most : [Assets -> 0..100]]
  BY RotationAssumption
<1> DEFINE a1 == l.least[1]
           a2 == l.least[2]
           b1 == l.most[1]
           b2 == l.most[2]
           c1 == l.initial[1]
           c2 == l.initial[2]
           least2 == Min({a2, 100 - a1})
           x1 == Max({a1, b1})
           most1 == Min({x1, 100 - least2})
           x2 == Max({least2, b2})
           most2 == Min({x2, 100 - a1})
           y1 == Max({c1, a1})
           first1 == Min({y1, most1})
           y2 == Max({c2, least2})
           first2 == Min({y2, most2})
           less2 == Max({least2, 100 - first1})
           z1 == Min({first1, 100 - less2})
           initial == IF first1 + first2 <= 100 THEN <<first1, first2>> ELSE <<z1, less2>>
<1>2. /\ a1 \in 0..100 /\ a2 \in 0..100 /\ b1 \in 0..100 /\ b2 \in 0..100
      /\ c1 \in 0..100 /\ c2 \in 0..100
  BY <1>1 DEF Assets
<1>3. Targets(l) = [initial |-> initial, leveraged |-> <<a1, most2>>, primary |-> <<most1, least2>>]
  BY DEF Targets
<1> HIDE DEF a1, a2, b1, b2, c1, c2
<1>4. least2 = IF a2 <= 100 - a1 THEN a2 ELSE 100 - a1
  BY <1>2, Least2
<1>5. least2 \in 0..100 /\ least2 + a1 <= 100
  BY <1>2, <1>4
<1> HIDE DEF least2
<1>6. x1 = IF a1 >= b1 THEN a1 ELSE b1
  BY <1>2, Most2
<1>7. x2 = IF least2 >= b2 THEN least2 ELSE b2
  BY <1>2, <1>5, Most2
<1>8. x1 \in 0..100 /\ x2 \in 0..100
  BY <1>2, <1>5, <1>6, <1>7
<1> HIDE DEF x1, x2
<1>9. most1 = IF x1 <= 100 - least2 THEN x1 ELSE 100 - least2
  BY <1>5, <1>8, Least2
<1>10. most2 = IF x2 <= 100 - a1 THEN x2 ELSE 100 - a1
  BY <1>2, <1>8, Least2
<1>11. most1 \in 0..100 /\ most2 \in 0..100 /\ most1 + least2 <= 100 /\ a1 + most2 <= 100
  BY <1>2, <1>5, <1>8, <1>9, <1>10
<1> HIDE DEF most1, most2
<1>12. y1 = (IF c1 >= a1 THEN c1 ELSE a1) /\ y2 = (IF c2 >= least2 THEN c2 ELSE least2)
  BY <1>2, <1>5, Most2
<1>13. y1 \in 0..100 /\ y2 \in 0..100
  BY <1>2, <1>5, <1>12
<1> HIDE DEF y1, y2
<1>14. first1 = (IF y1 <= most1 THEN y1 ELSE most1) /\ first2 = (IF y2 <= most2 THEN y2 ELSE most2)
  BY <1>11, <1>13, Least2
<1>15. first1 \in 0..100 /\ first2 \in 0..100
  BY <1>11, <1>13, <1>14
<1> HIDE DEF first1, first2
<1>16. less2 = IF least2 >= 100 - first1 THEN least2 ELSE 100 - first1
  BY <1>5, <1>15, Most2
<1>17. less2 \in 0..100
  BY <1>5, <1>15, <1>16
<1> HIDE DEF less2
<1>18. z1 = IF first1 <= 100 - less2 THEN first1 ELSE 100 - less2
  BY <1>15, <1>17, Least2
<1>19. z1 \in 0..100 /\ z1 + less2 <= 100
  BY <1>15, <1>17, <1>18
<1> HIDE DEF z1
<1>20. ASSUME NEW t1 \in 0..100, NEW t2 \in 0..100, t1 + t2 <= 100
       PROVE  <<t1, t2>> \in Percents
  BY <1>20 DEF Percents, Assets
<1>21. initial \in Percents /\ <<a1, most2>> \in Percents /\ <<most1, least2>> \in Percents
  BY <1>2, <1>5, <1>11, <1>15, <1>17, <1>19, <1>20
<1> HIDE DEF initial
<1> QED
  BY <1>3, <1>21

\* The invariant holds at the start.
LEMMA RotationStart == RotationInit => RotationInv
<1> SUFFICES ASSUME RotationInit PROVE RotationInv
  OBVIOUS
<1>1. OptionsOK
  BY TargetsOK DEF RotationInit, OptionsOK
<1>2. closes \in Seq(Nat)
  BY DEF RotationInit
<1>3. mind \in Minds
  BY DEF RotationInit, Minds, Regimes
<1>4. RotationCapital \in Nat /\ Zero \in Fraction
  BY RotationAssumption DEF Zero, Whole, Fraction
<1>5. port = [cash |-> RotationCapital, shares |-> <<0, 0>>, cost |-> <<Zero, Zero>>,
              order |-> "none", active |-> "initial", desired |-> <<0, 0>>,
              realized |-> Zero, received |-> 0, unlisted |-> 0,
              replay |-> <<0, 0>>]
  BY DEF RotationInit
<1>6. <<0, 0>> \in [Assets -> Nat] /\ <<Zero, Zero>> \in [Assets -> Fraction]
  BY <1>4 DEF Assets
<1> PICK p : p = port
  OBVIOUS
<1>7. /\ p \in Ports /\ p.cash = RotationCapital /\ p.shares = <<0, 0>>
      /\ p.cost = <<Zero, Zero>> /\ p.realized = Zero /\ p.received = 0
      /\ p.replay = <<0, 0>>
  <2> HIDE DEF Zero
  <2> QED
    BY <1>4, <1>5, <1>6 DEF Ports, Regimes
<1>8. Holds(p, Total(p))
  <2> DEFINE x == [i \in Assets |-> 0]
             total == Total(p)
  <2>1. x \in [Assets -> Int] /\ x[1] = 0 /\ x[2] = 0
    BY DEF Assets
  <2>2. Stands(Zero, 0, 1)
    BY DEF Stands, Zero, Whole, Fraction
  <2> HIDE DEF x
  <2>3. PortParts(p, 1, x, 0)
    BY <1>7, <2>1, <2>2 DEF PortParts
  <2>4. Held(p.shares, x) = 0
    BY <1>7, <2>1 DEF Held
  <2>5. total \in Int /\ total = p.cash
    BY <1>4, <1>7 DEF Total
  <2>6. Holds(p, total) <=> total * 1 + 0 = p.cash * 1 + Held(p.shares, x)
    <3> HIDE DEF total
    <3> QED
      BY <1>7, <2>3, <2>5, PortBalance
  <2> QED
    BY <2>4, <2>5, <2>6
<1>9. SoundPort(p)
  BY <1>7, <1>8 DEF SoundPort, Listed
<1> QED
  BY <1>1, <1>2, <1>3, <1>9 DEF RotationInv

\* Every row of a rotation keeps it, realizes no loss unless stop-loss exits are
\* allowed, and arrives at what it wants if they are.
LEMMA RotationStep ==
  ASSUME RotationInv, RotationNext
  PROVE  /\ RotationInv' /\ RotationLossless
         /\ options.stopLoss /\ (closes = <<>> \/ port.order # "none")
              => port'.shares = port'.desired
<1>1. OptionsOK /\ closes \in Seq(Nat) /\ mind \in Minds /\ SoundPort(port)
  BY DEF RotationInv
<1>2. PICK open \in [Assets -> RotationPrices], close \in [Assets -> RotationPrices],
           payout \in [Assets -> RotationPayouts] :
        LET decided == Decided(Entered(mind, open[2]), close[1], close[2])
        IN /\ mind' = decided
           /\ port' = [AtOpen(Dividends(port, payout, close), open) EXCEPT !.order = decided.awaits]
           /\ closes' = Append(closes, close[1])
  BY DEF RotationNext
<1>3. options' = options
  BY DEF RotationNext
<1>4. open \in PriceLists /\ close \in PriceLists /\ payout \in [Assets -> Nat]
  BY RotationAssumption DEF PriceLists
<1> PICK p : p = port
  OBVIOUS
<1> DEFINE decided == Decided(Entered(mind, open[2]), close[1], close[2])
           q == Dividends(p, payout, close)
           r == AtOpen(q, open)
           c == [r EXCEPT !.order = decided.awaits]
<1>5. mind' = decided /\ port' = c /\ closes' = Append(closes, close[1])
  BY <1>2
<1>6. decided \in Minds
  <2>1. open[2] \in Nat
    BY <1>4 DEF PriceLists, Assets
  <2>2. Entered(mind, open[2]) \in Minds
    BY <1>1, <2>1 DEF Entered, Minds, Regimes
  <2> QED
    BY <2>2 DEF Decided, Minds
<1>7. decided.awaits \in {"none", "leveraged", "primary"}
  BY <1>6 DEF Minds
<1> HIDE DEF decided
<1>8. Moved(p, q)
  <2>0. 1 \in Assets /\ 2 \in Assets
    BY DEF Assets
  <2>1. Moved(p, p)
    BY <1>1, MovedOrder
  <2> DEFINE h == PaidOn(p, 1, payout, close)
             m == PaidOn(h, 2, payout, close)
  <2>2. Moved(p, h)
    BY <1>1, <1>4, <2>0, PaidOnMoved
  <2>3. q = m \/ q = p
    BY DEF Dividends
  <2> HIDE DEF h
  <2>4. SoundPort(h)
    BY <2>2 DEF Moved
  <2>5. Moved(h, m)
    BY <1>4, <2>0, <2>4, PaidOnMoved
  <2> HIDE DEF m
  <2>6. Moved(p, m)
    BY <1>1, <2>2, <2>5, MovedOrder
  <2> QED
    BY <2>1, <2>3, <2>6
<1> HIDE DEF q
<1>9. SoundPort(q) /\ q.order = p.order /\ q.order \in {"none", "leveraged", "primary"}
  BY <1>8 DEF Moved, SoundPort, Ports
<1>10. /\ SoundPort(r) /\ (~options.stopLoss => AtMost(q.realized, r.realized))
       /\ options.stopLoss /\ (closes = <<>> \/ q.order # "none") => r.shares = r.desired
  <2>1. CASE closes = <<>>
    <3>1. r = Rebalanced(q, "initial", open) /\ "initial" \in Regimes
      BY <2>1 DEF AtOpen, Regimes
    <3> QED
      BY <1>1, <1>4, <1>9, <3>1, RebalancedMoved DEF Moved
  <2>2. CASE closes # <<>> /\ q.order # "none"
    <3> DEFINE h == Rebalanced(q, q.order, open)
    <3>1. r = [h EXCEPT !.order = "none"] /\ q.order \in Regimes
      BY <1>9, <2>2 DEF AtOpen, Regimes
    <3>2. Moved(q, h) /\ (options.stopLoss => h.shares = h.desired)
      BY <1>1, <1>4, <1>9, <3>1, RebalancedMoved
    <3> HIDE DEF h
    <3>3. h \in Ports
      BY <3>2 DEF Moved, SoundPort
    <3> HIDE DEF r
    <3>4. /\ r \in Ports /\ r.shares = h.shares /\ r.desired = h.desired /\ r.cash = h.cash
          /\ r.cost = h.cost /\ r.realized = h.realized /\ r.received = h.received
          /\ r.replay = h.replay /\ r.unlisted = h.unlisted
      BY <3>1, <3>3 DEF Ports
    <3> QED
      BY <3>2, <3>4 DEF Moved, SoundPort, Holds, Total, Listed
  <2>3. CASE closes # <<>> /\ q.order = "none"
    <3>1. r = q
      BY <2>3 DEF AtOpen
    <3>2. Moved(q, q)
      BY <1>9, MovedOrder
    <3> QED
      BY <2>3, <3>1, <3>2 DEF Moved
  <2> QED
    BY <2>1, <2>2, <2>3
<1> HIDE DEF r
<1>11. r \in Ports
  BY <1>10 DEF SoundPort
<1>12. /\ c \in Ports /\ c.shares = r.shares /\ c.desired = r.desired /\ c.cash = r.cash
       /\ c.cost = r.cost /\ c.realized = r.realized /\ c.received = r.received
       /\ c.replay = r.replay /\ c.unlisted = r.unlisted
  BY <1>7, <1>11 DEF Ports
<1> HIDE DEF c
<1>13. SoundPort(c)
  BY <1>10, <1>12 DEF SoundPort, Holds, Total, Listed
<1>14. RotationLossless
  <2>1. p.realized \in Fraction /\ q.realized \in Fraction /\ c.realized \in Fraction
    BY <1>1, <1>9, <1>12 DEF SoundPort, Ports
  <2>2. AtMost(p.realized, q.realized) /\ AtMost(q.realized, c.realized)
          => AtMost(p.realized, c.realized)
    BY <2>1, AtMostOrder
  <2> QED
    BY <1>5, <1>8, <1>10, <1>12, <2>2 DEF RotationLossless, Moved
<1>15. options.stopLoss /\ (closes = <<>> \/ port.order # "none")
         => port'.shares = port'.desired
  BY <1>5, <1>9, <1>10, <1>12
<1>16. OptionsOK' /\ closes' \in Seq(Nat) /\ mind' \in Minds
  <2>1. close[1] \in Nat
    BY <1>4 DEF PriceLists, Assets
  <2> QED
    BY <1>1, <1>3, <1>5, <1>6, <2>1 DEF OptionsOK
<1>17. SoundPort(port)'
  BY <1>5, <1>13 DEF SoundPort, Holds, Total, Listed
<1> QED
  BY <1>14, <1>15, <1>16, <1>17 DEF RotationInv

-----------------------------------------------------------------------------
(* The two backtests *)

BacktestInv == SingleInv /\ RotationInv

\* A step of either backtest keeps both invariants, and does what NoLoss and
\* RotationArrives say.
LEMMA BacktestStep ==
  BacktestInv /\ [BacktestNext]_BacktestVars =>
    /\ BacktestInv'
    /\ [SingleLossless /\ RotationLossless]_BacktestVars
    /\ [options.stopLoss /\ (closes = <<>> \/ port.order # "none")
         => port'.shares = port'.desired]_rotationVars
<1> SUFFICES ASSUME BacktestInv, [BacktestNext]_BacktestVars
             PROVE  /\ BacktestInv'
                    /\ [SingleLossless /\ RotationLossless]_BacktestVars
                    /\ [options.stopLoss /\ (closes = <<>> \/ port.order # "none")
                         => port'.shares = port'.desired]_rotationVars
  OBVIOUS
<1>0. SingleInv /\ RotationInv
  BY DEF BacktestInv
<1>1. ASSUME UNCHANGED singleVars PROVE SingleInv' /\ SingleLossless
  <2>1. SingleInv'
    BY <1>0, <1>1 DEF singleVars, SingleInv, SettingOK, Sound, AddsUp, Replays, Untouched,
                      InLimits, IsGrid, Asked
  <2>2. AtMost(book.realized, book.realized)
    BY <1>0, AtMostOrder DEF SingleInv, Sound, Books
  <2> QED
    BY <1>1, <2>1, <2>2 DEF singleVars, SingleLossless
<1>2. ASSUME UNCHANGED rotationVars PROVE RotationInv' /\ RotationLossless
  <2>1. RotationInv'
    BY <1>0, <1>2 DEF rotationVars, RotationInv, OptionsOK, SoundPort, Holds, Total, Listed
  <2>2. AtMost(port.realized, port.realized)
    BY <1>0, AtMostOrder DEF RotationInv, SoundPort, Ports
  <2> QED
    BY <1>2, <2>1, <2>2 DEF rotationVars, RotationLossless
<1>3. CASE SingleNext /\ UNCHANGED rotationVars
  BY <1>0, <1>2, <1>3, SingleStep DEF BacktestInv
<1>4. CASE RotationNext /\ UNCHANGED singleVars
  BY <1>0, <1>1, <1>4, RotationStep DEF BacktestInv
<1>5. CASE UNCHANGED BacktestVars
  <2>1. UNCHANGED singleVars /\ UNCHANGED rotationVars
    BY <1>5 DEF BacktestVars
  <2> QED
    BY <1>1, <1>2, <2>1 DEF BacktestInv
<1> QED
  BY <1>3, <1>4, <1>5 DEF BacktestNext

\* It is an invariant.
LEMMA BacktestInvariant == BacktestSpec => []BacktestInv
<1>1. BacktestInit => BacktestInv
  BY SingleStart, RotationStart DEF BacktestInit, BacktestInv
<1> QED
  BY <1>1, BacktestStep, PTL DEF BacktestSpec

\* _normalize_transaction_table_for_display and the engines: whatever is bought,
\* sold, paid and reinvested, capital, gains and dividends are what is held in
\* cash and in shares at cost, to the last fraction, and the transaction table
\* replays to the position and the average cost.
THEOREM BooksAgreeAlways == BacktestSpec => []BooksAgree
<1>1. BacktestInv => BooksAgree
  <2> SUFFICES ASSUME BacktestInv PROVE BooksAgree
    OBVIOUS
  <2>1. Sound(book) /\ SoundPort(port)
    BY DEF BacktestInv, SingleInv, RotationInv
  <2>2. book.cash \in Nat /\ port.cash \in Nat
    BY <2>1 DEF Sound, Books, SoundPort, Ports
  <2>3. SingleAddsUp /\ SingleReplays
    BY <2>1, <2>2 DEF SingleAddsUp, SingleReplays, Sound, AddsUp, Replays, Sums, Costs
  <2>4. RotationAddsUp /\ RotationReplays
    BY <2>1, <2>2 DEF RotationAddsUp, RotationReplays, SoundPort, Holds, Total, Listed
  <2> QED
    BY <2>3, <2>4 DEF BooksAgree
<1> QED
  BY <1>1, BacktestInvariant, PTL

\* _execute_pending_order_at_open: an order decided on a closed row neither takes
\* the grid over its limits at the open that fills it nor outlives that open.
THEOREM OrdersSafeAlways == BacktestSpec => []OrdersSafe
<1>1. BacktestInv => OrdersSafe
  BY DEF BacktestInv, SingleInv, InLimits, Asked, OrdersSafe, GridWithinLimits, OrderIsFresh
<1> QED
  BY <1>1, BacktestInvariant, PTL

\* stop_loss_enabled = False: no row of either backtest realizes a loss, at
\* whatever average cost the shares were bought.
THEOREM NoLossAlways == BacktestSpec => NoLoss
BY BacktestStep, BacktestInvariant, PTL DEF BacktestSpec, NoLoss

\* _rebalance: when every sale may be made, the sales raise the cash for the
\* purchases, so both holdings end at what the regime's limits ask for.
THEOREM RotationArrivesAlways == BacktestSpec => RotationArrives
BY BacktestStep, BacktestInvariant, PTL DEF BacktestSpec, RotationArrives

-----------------------------------------------------------------------------
(* The inductive invariant of the CRPS search *)

LogPhases == {"selection", "winner-holdout", "url-baseline-holdout"}
Entries == [key : Keys, phase : LogPhases, outcome : Outcomes]
SomeEntries == Entries \union {NoEntry}
States ==
  [phase : {"search", "holdout", "completed"}, generation : Nat,
   pending : Seq(Keys), inflight : Keys \union {NoKey},
   board : Seq(Entries), seen : SUBSET Keys, good : Nat, bad : Nat, feasible : Nat,
   elapsed : Nat, selected : Int, baseline : SomeEntries, winner : SomeEntries,
   winnerHoldout : SomeEntries, baselineHoldout : SomeEntries]
Records == [state : States, rng : Int]
Draws == [rng : Nat, board : Seq(Entries), seen : SUBSET Keys, kids : Seq(Keys)]

\* Where a live process is, and where it goes on when its state is written.
Steps == {"loop", "pick", "evaluate", "holdout", "complete"}
Idle == {"off", "failed", "done"}
Afters == {"off", "loop", "evaluate", "holdout", "done"}
Where == IF crpsPc = "save" THEN after ELSE crpsPc

CrpsTypes ==
  /\ crpsPc \in Steps \union Idle \union {"save"} /\ after \in Afters
  /\ st \in States /\ rng \in Nat /\ elapsed \in Nat
  /\ checkpoint \in Records /\ log \in Seq(Entries) /\ result \in SomeEntries
  /\ score \in [Keys \X Kinds -> Outcomes \union {"unknown"}]
  /\ first \in Seq(Keys) /\ first # <<>> /\ IsInjective(first) /\ Head(first) = Base
  /\ draws \in SUBSET Draws

\* The leaderboard starts with the best of what was logged and counted.
Ranked(s, lg) ==
  \A i \in DOMAIN lg : lg[i].phase = "selection" /\ lg[i].key \in s.seen =>
    /\ s.board # <<>>
    /\ lg[i] = s.board[1] \/ Above(s.board[1], lg[i])

\* What was logged and not counted is one candidate, the next of the search.
Uncounted(s, lg) ==
  \A i \in DOMAIN lg : lg[i].phase = "selection" /\ lg[i].key \notin s.seen =>
    /\ s.phase = "search" => Queued(s) # <<>> /\ lg[i].key = Head(Queued(s))
    /\ \A j \in DOMAIN lg : lg[j].phase = "selection" /\ lg[j].key \notin s.seen =>
         lg[j].key = lg[i].key

\* A population bred from this generator state was bred from this leaderboard.
DrawnBefore(s, r, dr) ==
  \A d \in dr : \/ d.rng < r
                \/ d.rng = r /\ d.board = s.board /\ d.seen = s.seen /\ Queued(s) = <<>>

\* What a state that a search may go on from satisfies.
Resumable(s, r, lg, dr) ==
  ValidResume(s) /\ Ranked(s, lg) /\ Uncounted(s, lg) /\ DrawnBefore(s, r, dr)

\* A queue q is what is left of a population p, and the last evaluation in the
\* log is the one before it, or its first, or the last of the population before.
StandsAt(q, p, prior, lg) ==
  \E j \in 0..Len(p) :
    /\ q = SubSeq(p, j + 1, Len(p))
    /\ lg = <<>> => j = 0 /\ prior = <<>>
    /\ lg # <<>> => \/ j > 0 /\ lg[Len(lg)].key = p[j]
                    \/ j < Len(p) /\ lg[Len(lg)].key = p[j + 1]
                    \/ j = 0 /\ prior # <<>> /\ lg[Len(lg)].key = prior[Len(prior)]

\* The populations of CrpsSearch for given draws, the one before, and what comes
\* after a candidate.
Gens(dr) == {0} \union {d.rng + 1 : d \in dr}
DrawAt(n, dr) == CHOOSE d \in dr : d.rng = n
Pop(n, f, dr) == IF n = 0 THEN f ELSE DrawAt(n - 1, dr).kids
Prior(n, f, dr) == IF n = 0 THEN <<>> ELSE Pop(n - 1, f, dr)
Follows(k, l, f, dr) ==
  \E n \in Gens(dr) : \E i \in DOMAIN Pop(n, f, dr) :
    /\ Pop(n, f, dr)[i] = k
    /\ IF i < Len(Pop(n, f, dr)) THEN l = Pop(n, f, dr)[i + 1]
       ELSE n + 1 \in Gens(dr) /\ Pop(n + 1, f, dr) # <<>> /\ l = Head(Pop(n + 1, f, dr))

Unique(dr) == \A d, e \in dr : d.rng = e.rng => d = e
InOrder(lg, f, dr) ==
  \A i \in DOMAIN lg : lg[i].phase = "selection" =>
    IF i = 1 THEN lg[i].key = Head(f)
    ELSE lg[i].key = lg[i - 1].key \/ Follows(lg[i - 1].key, lg[i].key, f, dr)

\* Where a search stands in its populations.
OnCourse(s, r, lg, f, dr) ==
  s.phase = "search" =>
    /\ r \in Gens(dr) /\ Pop(r, f, dr) \in Seq(Keys) \ {<<>>}
    /\ Prior(r, f, dr) \in Seq(Keys) /\ (r > 0 => r - 1 \in Gens(dr) /\ Prior(r, f, dr) # <<>>)
    /\ StandsAt(Queued(s), Pop(r, f, dr), Prior(r, f, dr), lg)

\* The process against the state it holds.
ProcessState ==
  /\ Resumable(st, rng, log, draws) /\ OnCourse(st, rng, log, first, draws) /\ st.elapsed <= elapsed
  /\ Where \in {"loop", "pick", "evaluate"} <=> st.phase = "search"
  /\ st.inflight # NoKey <=> Where = "evaluate"
  /\ Where \in {"complete", "done"} =>
       Feasible(st.winnerHoldout) /\ Feasible(st.baselineHoldout)

\* The process against its checkpoint.
ProcessSaved ==
  /\ crpsPc \in {"loop", "evaluate", "holdout", "complete"} =>
       checkpoint = [state |-> st, rng |-> rng]
  /\ crpsPc = "pick" => checkpoint # NoCheckpoint
  /\ checkpoint.state.phase # "search" =>
       st.phase # "search" /\ st.winner = checkpoint.state.winner
  
\* The checkpoint against what is in the log, the result and the draws.
CheckpointSound ==
  /\ checkpoint # NoCheckpoint =>
       /\ checkpoint.rng \in Nat
       /\ Resumable(checkpoint.state, checkpoint.rng, log, draws)
       /\ OnCourse(checkpoint.state, checkpoint.rng, log, first, draws)
  /\ checkpoint = NoCheckpoint => log = <<>> /\ draws = {}
  /\ result # NoEntry => checkpoint.state.phase # "search" /\ result = checkpoint.state.winner

\* The log against the evaluations, and the holdout in it against the checkpoint.
LogSound ==
  /\ \A i \in DOMAIN log : log[i].phase = "selection" =>
       score[<<log[i].key, "selection">>] = log[i].outcome
  /\ \A i \in DOMAIN log : log[i].phase # "selection" => checkpoint.state.phase # "search"
  /\ HoldoutUntouched

CrpsInvariant ==
  /\ CrpsTypes /\ CheckpointSound /\ LogSound
  /\ Unique(draws) /\ InOrder(log, first, draws)
  /\ crpsPc \notin Idle => ProcessState /\ ProcessSaved

-----------------------------------------------------------------------------
(* The order of the leaderboard *)

\* record_rank orders records of different candidates, whatever they returned.
LEMMA AboveOrder ==
  ASSUME NEW e \in Entries, NEW f \in Entries, NEW g \in Entries
  PROVE  /\ Above(e, f) /\ Above(f, g) => Above(e, g)
         /\ Above(e, f) => ~Above(f, e)
         /\ e.key # f.key => Above(e, f) \/ Above(f, e)
         /\ Above(e, f) /\ Feasible(f) => Feasible(e)
<1> DEFINE Grade(x) == CASE x.outcome = "ok" -> 2 [] x.outcome = "incomplete" -> 1 [] OTHER -> 0
<1>1. \A x, y \in Entries :
        Above(x, y) <=> Grade(x) > Grade(y)
                        \/ (Grade(x) = Grade(y) /\ Rank[x.key] > Rank[y.key])
  BY DEF Above
<1>2. \A x \in Entries : /\ Grade(x) \in 0..2 /\ Rank[x.key] \in Int
                         /\ Feasible(x) <=> Grade(x) = 2
  BY CrpsAssumption DEF Entries, Outcomes, Feasible
<1>3. e.key # f.key => Rank[e.key] # Rank[f.key]
  BY CrpsAssumption DEF IsInjective, Entries
<1> HIDE DEF Grade
<1> QED
  BY <1>1, <1>2, <1>3

\* A new record goes behind all that are above it, and before the rest.
LEMMA PlaceIs ==
  ASSUME NEW board \in Seq(Entries), NEW e \in Entries
  PROVE  /\ Place(board, e) \in 1..(Len(board) + 1)
         /\ \A i \in 1..(Place(board, e) - 1) : Above(board[i], e)
         /\ Place(board, e) <= Len(board) => ~Above(board[Place(board, e)], e)
<1> DEFINE S == {i \in DOMAIN board : ~Above(board[i], e)} \union {Len(board) + 1}
<1>1. Len(board) \in Nat /\ DOMAIN board = 1..Len(board)
  OBVIOUS
<1>2. S \in SUBSET Nat /\ S # {} /\ S \subseteq 1..(Len(board) + 1)
  BY <1>1
<1>3. \E n \in S : \A m \in S : n <= m
  BY <1>2, LeastNatural
<1>4. Place(board, e) = CHOOSE n \in S : \A m \in S : n <= m
  BY DEF Place, Min
<1>5. Place(board, e) \in S /\ \A m \in S : Place(board, e) <= m
  BY <1>3, <1>4
<1>6. ASSUME NEW i \in 1..(Place(board, e) - 1)  PROVE Above(board[i], e)
  <2>1. i \in DOMAIN board /\ i \notin S
    BY <1>1, <1>2, <1>5
  <2> QED
    BY <2>1
<1> QED
  BY <1>1, <1>2, <1>5, <1>6

\* A record that is sorted in shifts what is behind it, and the last falls off.
LEMMA InsertIs ==
  ASSUME NEW board \in Seq(Entries), NEW e \in Entries
  PROVE  LET n == IF Len(board) + 1 < MaxBoard THEN Len(board) + 1 ELSE MaxBoard
             p == Place(board, e)
         IN  /\ Insert(board, e) \in Seq(Entries) /\ Len(Insert(board, e)) = n /\ n \in Nat \ {0}
             /\ \A i \in 1..n : Insert(board, e)[i] =
                  IF i < p THEN board[i] ELSE IF i = p THEN e ELSE board[i - 1]
<1> DEFINE m == Len(board)
           p == Place(board, e)
           n == IF m + 1 < MaxBoard THEN m + 1 ELSE MaxBoard
           head == SubSeq(board, 1, p - 1)
           tail == SubSeq(board, p, m)
           all == (head \o <<e>>) \o tail
<1>1. m \in Nat /\ p \in 1..(m + 1) /\ MaxBoard \in Nat \ {0}
  BY PlaceIs, CrpsAssumption
<1>2. /\ head \in Seq(Entries) /\ Len(head) = p - 1
      /\ \A i \in 1..(p - 1) : head[i] = board[i]
  BY <1>1, SubSeqProperties
<1>3. /\ tail \in Seq(Entries) /\ Len(tail) = m - p + 1
      /\ \A i \in 1..(m - p + 1) : tail[i] = board[p + i - 1]
  BY <1>1, SubSeqProperties
<1> HIDE DEF p
<1> HIDE DEF head, tail
<1>4. /\ all \in Seq(Entries) /\ Len(all) = m + 1
      /\ \A i \in 1..(m + 1) : all[i] =
           IF i < p THEN board[i] ELSE IF i = p THEN e ELSE board[i - 1]
  <2>1. /\ head \o <<e>> \in Seq(Entries) /\ Len(head \o <<e>>) = p
        /\ \A i \in 1..p : (head \o <<e>>)[i] = IF i < p THEN board[i] ELSE e
    BY <1>1, <1>2
  <2> DEFINE front == head \o <<e>>
  <2> HIDE DEF front
  <2>2. /\ front \o tail \in Seq(Entries) /\ Len(front \o tail) = m + 1
        /\ \A i \in 1..(m + 1) : (front \o tail)[i] = IF i <= p THEN front[i] ELSE tail[i - p]
    <3>1. front \in Seq(Entries) /\ Len(front) = p
      BY <2>1 DEF front
    <3>2. /\ front \o tail \in Seq(Entries) /\ Len(front \o tail) = Len(front) + Len(tail)
          /\ \A i \in 1..(Len(front) + Len(tail)) :
               (front \o tail)[i] = IF i <= Len(front) THEN front[i] ELSE tail[i - Len(front)]
      BY <1>3, <3>1, ConcatProperties
    <3>3. Len(front) + Len(tail) = m + 1
      BY <1>1, <1>3, <3>1
    <3> QED
      BY <3>1, <3>2, <3>3
  <2>3. ASSUME NEW i \in 1..(m + 1), ~(i <= p)  PROVE tail[i - p] = board[i - 1]
    BY <1>1, <1>3, <2>3
  <2> QED
    BY <1>1, <2>1, <2>2, <2>3 DEF front
<1>5. Insert(board, e) = SubSeq(all, 1, n)
  <2>1. InsertAt(board, p, e) = all
    BY DEF InsertAt, head, tail
  <2>2. n = IF m + 1 < MaxBoard THEN m + 1 ELSE MaxBoard
    OBVIOUS
  <2>3. Insert(board, e) = SubSeq(all, 1, IF Len(all) < MaxBoard THEN Len(all) ELSE MaxBoard)
    BY <2>1 DEF Insert, Cut, p
  <2> QED
    BY <1>4, <2>3
<1> HIDE DEF all
<1>6. n \in Nat \ {0} /\ n <= m + 1
  BY <1>1
<1>7. /\ SubSeq(all, 1, n) \in Seq(Entries) /\ Len(SubSeq(all, 1, n)) = n
      /\ \A i \in 1..n : SubSeq(all, 1, n)[i] = all[i]
  BY <1>4, <1>6, SubSeqProperties
<1> QED
  BY <1>4, <1>5, <1>6, <1>7 DEF p

\* The demands of the validator on a leaderboard of these candidates.
Sorted(board, known) ==
  /\ Len(board) <= MaxBoard
  /\ KeysIn(board) \subseteq known
  /\ \A i, j \in DOMAIN board : i < j => Above(board[i], board[j])
  /\ \A i \in DOMAIN board : board[i].phase = "selection"

\* A leaderboard stays one when the record of another candidate is sorted in,
\* and its first is the better of the new record and the first before.
LEMMA InsertSorts ==
  ASSUME NEW board \in Seq(Entries), NEW known \in SUBSET Keys, NEW e \in Entries,
         Sorted(board, known), e.key \notin known, e.phase = "selection"
  PROVE  /\ Sorted(Insert(board, e), known \union {e.key})
         /\ Insert(board, e) # <<>>
         /\ \/ /\ Insert(board, e)[1] = e
               /\ board = <<>> \/ Above(e, board[1])
            \/ /\ board # <<>>
               /\ Insert(board, e)[1] = board[1] /\ Above(board[1], e)
<1> DEFINE m == Len(board)
           p == Place(board, e)
           n == IF m + 1 < MaxBoard THEN m + 1 ELSE MaxBoard
           new == Insert(board, e)
<1>1. /\ m \in Nat /\ p \in 1..(m + 1) /\ MaxBoard \in Nat \ {0} /\ DOMAIN board = 1..m
      /\ \A i \in 1..m : board[i] \in Entries
  BY PlaceIs, CrpsAssumption
<1>0. /\ \A i \in 1..(p - 1) : Above(board[i], e)
      /\ p <= m => ~Above(board[p], e)
  BY PlaceIs
<1>2. /\ new \in Seq(Entries) /\ Len(new) = n /\ DOMAIN new = 1..n /\ n \in Nat \ {0} /\ n <= m + 1
      /\ n <= MaxBoard
      /\ \A i \in 1..n : new[i] = IF i < p THEN board[i] ELSE IF i = p THEN e ELSE board[i - 1]
  <2>1. /\ new \in Seq(Entries) /\ Len(new) = n /\ n \in Nat \ {0}
        /\ \A i \in 1..n : new[i] = IF i < p THEN board[i] ELSE IF i = p THEN e ELSE board[i - 1]
    BY InsertIs
  <2>2. n <= m + 1 /\ n <= MaxBoard
    BY <1>1
  <2> HIDE DEF new, n, p
  <2> QED
    BY <2>1, <2>2
<1>3. \A i \in 1..m : board[i].key \in known
  BY <1>1 DEF Sorted, KeysIn
<1>4. ASSUME NEW i \in 1..m, i < p  PROVE Above(board[i], e)
  <2> HIDE DEF p
  <2> QED
    BY <1>0, <1>1, <1>4
<1>5. ASSUME NEW i \in 1..m, p <= i  PROVE Above(e, board[i])
  <2> HIDE DEF p
  <2>1. ~Above(board[p], e) /\ p \in 1..m /\ board[p].key # e.key
    BY <1>0, <1>1, <1>3, <1>5
  <2>2. Above(e, board[p])
    BY <1>1, <2>1, AboveOrder
  <2>3. i = p \/ Above(board[p], board[i])
    BY <1>1, <1>5, <2>1 DEF Sorted
  <2> QED
    BY <1>1, <2>1, <2>2, <2>3, AboveOrder
<1> HIDE DEF new, n, p
<1>6. ASSUME NEW i \in 1..n, NEW j \in 1..n, i < j  PROVE Above(new[i], new[j])
  <2>1. CASE j < p
    BY <1>1, <1>2, <1>6, <2>1 DEF Sorted
  <2>2. CASE j = p
    BY <1>1, <1>2, <1>4, <1>6, <2>2
  <2>3. CASE p < j /\ i < p
    <3>1. new[i] = board[i] /\ new[j] = board[j - 1]
      <4>1. new[i] = board[i]
        BY <1>2, <2>3
      <4>2. ~(j < p) /\ j # p
        BY <1>1, <1>2, <2>3
      <4> QED
        BY <1>2, <4>1, <4>2
    <3>2. i \in 1..m /\ j - 1 \in 1..m
      BY <1>1, <1>2, <1>6, <2>3
    <3>3. Above(board[i], e) /\ Above(e, board[j - 1])
      BY <1>1, <1>4, <1>5, <2>3, <3>2
    <3> QED
      BY <1>1, <3>1, <3>2, <3>3, AboveOrder
  <2>4. CASE p < j /\ i = p
    BY <1>1, <1>2, <1>5, <1>6, <2>4
  <2>5. CASE p < j /\ p < i
    <3>1. new[i] = board[i - 1] /\ new[j] = board[j - 1] /\ i - 1 \in 1..m /\ j - 1 \in 1..m
      BY <1>1, <1>2, <1>6, <2>5
    <3> QED
      BY <1>1, <1>6, <3>1 DEF Sorted
  <2> QED
    BY <1>1, <1>2, <2>1, <2>2, <2>3, <2>4, <2>5
<1>7. ASSUME NEW i \in 1..n
      PROVE  new[i].key \in known \union {e.key} /\ new[i].phase = "selection"
  <2>1. new[i] = e \/ \E j \in 1..m : new[i] = board[j]
    BY <1>1, <1>2, <1>7
  <2> QED
    BY <1>1, <1>3, <2>1 DEF Sorted
<1>8. Sorted(new, known \union {e.key})
  BY <1>2, <1>6, <1>7 DEF Sorted, KeysIn
<1>9. CASE p = 1
  <2>1. new[1] = e /\ (m = 0 \/ Above(e, board[1]))
    BY <1>1, <1>2, <1>5, <1>9
  <2> QED
    BY <1>1, <1>2, <1>8, <2>1 DEF new
<1>10. CASE p # 1
  <2>1. new[1] = board[1] /\ m > 0 /\ Above(board[1], e)
    BY <1>1, <1>2, <1>4, <1>10
  <2> QED
    BY <1>1, <1>2, <1>8, <2>1 DEF new
<1> QED
  BY <1>9, <1>10

\* Feasible records come first, so the leader is the first of all.
LEMMA LeaderIsFirst ==
  ASSUME NEW s, s.board \in Seq(Entries), NEW known, Sorted(s.board, known), Leaders(s) # {}
  PROVE  s.board # <<>> /\ Leader(s) = s.board[1] /\ Feasible(s.board[1])
<1> DEFINE b == s.board
<1>1. PICK i \in DOMAIN b : Feasible(b[i])
  BY DEF Leaders
<1>2. /\ b # <<>>
      /\ 1 \in DOMAIN b
      /\ DOMAIN b \subseteq Nat \ {0}
      /\ \A j \in DOMAIN b : b[j] \in Entries
  BY <1>1
<1>3. i = 1 \/ Above(b[1], b[i])
  BY <1>1, <1>2 DEF Sorted
<1>4. Feasible(b[1])
  BY <1>1, <1>2, <1>3, AboveOrder
<1>5. 1 \in Leaders(s) /\ \A j \in Leaders(s) : 1 <= j
  BY <1>2, <1>4 DEF Leaders
<1>6. Min(Leaders(s)) = 1
  <2>1. \A n \in Leaders(s) : (\A j \in Leaders(s) : n <= j) => n = 1
    BY <1>2, <1>5 DEF Leaders
  <2> QED
    BY <1>5, <2>1 DEF Min
<1> QED
  BY <1>2, <1>4, <1>6 DEF Leader

-----------------------------------------------------------------------------
(* States and their queues *)

\* The fields of an optimizer state.
LEMMA StateFields ==
  ASSUME NEW s \in States
  PROVE  /\ s.phase \in {"search", "holdout", "completed"} /\ s.generation \in Nat
         /\ s.pending \in Seq(Keys) /\ s.inflight \in Keys \union {NoKey}
         /\ s.board \in Seq(Entries) /\ s.seen \in SUBSET Keys
         /\ s.good \in Nat /\ s.bad \in Nat /\ s.feasible \in Nat
         /\ s.elapsed \in Nat /\ s.selected \in Int
         /\ s.baseline \in SomeEntries /\ s.winner \in SomeEntries
         /\ s.winnerHoldout \in SomeEntries /\ s.baselineHoldout \in SomeEntries
  BY DEF States

\* A record is one of a candidate, and None is not one.
LEMMA EntryIs ==
  /\ NoEntry \notin Entries /\ ~Feasible(NoEntry) /\ NoEntry \in SomeEntries
  /\ \A k \in Keys, p \in LogPhases, o \in Outcomes :
       /\ Entry(k, p, o) \in Entries /\ Entry(k, p, o) \in SomeEntries
       /\ Entry(k, p, o).key = k /\ Entry(k, p, o).phase = p /\ Entry(k, p, o).outcome = o
       /\ Feasible(Entry(k, p, o)) <=> o = "ok"
  /\ \A e \in Entries : e.key \in Keys /\ e.phase \in LogPhases /\ e.outcome \in Outcomes
<1>1. NoEntry \notin Entries /\ ~Feasible(NoEntry) /\ NoEntry \in SomeEntries
  BY CrpsAssumption DEF NoEntry, Entry, Entries, SomeEntries, Feasible
<1>2. ASSUME NEW k \in Keys, NEW p \in LogPhases, NEW o \in Outcomes
      PROVE  /\ Entry(k, p, o) \in Entries /\ Entry(k, p, o) \in SomeEntries
             /\ Entry(k, p, o).key = k /\ Entry(k, p, o).phase = p /\ Entry(k, p, o).outcome = o
             /\ Feasible(Entry(k, p, o)) <=> o = "ok"
  BY DEF Entry, Entries, SomeEntries, Feasible
<1>3. \A e \in Entries : e.key \in Keys /\ e.phase \in LogPhases /\ e.outcome \in Outcomes
  BY DEF Entries
<1> QED
  BY <1>1, <1>2, <1>3

\* The queue is what is pending, behind the candidate in flight if there is one.
LEMMA QueueIs ==
  ASSUME NEW s, s.pending \in Seq(Keys), s.inflight \in Keys \union {NoKey}
  PROVE  /\ Queued(s) \in Seq(Keys)
         /\ s.inflight = NoKey => Queued(s) = s.pending
         /\ s.inflight # NoKey =>
              Queued(s) # <<>> /\ Head(Queued(s)) = s.inflight /\ Tail(Queued(s)) = s.pending
<1>1. CASE s.inflight = NoKey
  <2>1. Queued(s) = s.pending
    <3>1. <<>> \o s.pending = s.pending
      OBVIOUS
    <3> QED
      BY <1>1, <3>1 DEF Queued
  <2> QED
    BY <1>1, <2>1
<1>2. CASE s.inflight # NoKey
  <2> DEFINE q == <<s.inflight>> \o s.pending
  <2>1. Queued(s) = q
    BY <1>2 DEF Queued
  <2>2. <<s.inflight>> \in Seq(Keys) /\ Len(<<s.inflight>>) = 1 /\ <<s.inflight>>[1] = s.inflight
    BY <1>2
  <2>3. /\ q \in Seq(Keys) /\ Len(q) = 1 + Len(s.pending)
        /\ \A i \in 1..(1 + Len(s.pending)) :
             q[i] = IF i <= 1 THEN s.inflight ELSE s.pending[i - 1]
    BY <2>2, ConcatProperties
  <2> HIDE DEF q
  <2>4. q # <<>> /\ Head(q) = s.inflight
    <3>1. Len(s.pending) \in Nat /\ Len(q) > 0 /\ q[1] = s.inflight
      BY <2>3
    <3> QED
      BY <2>3, <3>1
  <2>5. /\ Tail(q) \in Seq(Keys) /\ Len(Tail(q)) = Len(s.pending)
        /\ \A i \in 1..Len(s.pending) : Tail(q)[i] = s.pending[i]
    <3>1. /\ Tail(q) \in Seq(Keys) /\ Len(Tail(q)) = Len(q) - 1
          /\ \A i \in 1..(Len(q) - 1) : Tail(q)[i] = q[i + 1]
      BY <2>3, <2>4, HeadTailProperties
    <3> QED
      BY <2>3, <3>1
  <2>6. Tail(q) = s.pending
    BY <2>5, SeqEqual
  <2> QED
    BY <1>2, <2>1, <2>3, <2>4, <2>6
<1> QED
  BY <1>1, <1>2

\* What a step leaves alone unless it records an evaluation.
SameEvidence(s, c) ==
  /\ c.good = s.good /\ c.bad = s.bad /\ c.feasible = s.feasible
  /\ c.seen = s.seen /\ c.board = s.board /\ c.baseline = s.baseline

\* The queue stays the same in its phase, or is dropped at the end of the search.
QueueKept(s, c) ==
  \/ c.phase = s.phase /\ Queued(c) = Queued(s)
  \/ c.phase # "search" /\ Queued(c) = <<>> /\ s.seen # {}

\* Such a step keeps what a resume demands of evidence and queue.
LEMMA KeepsSound ==
  ASSUME NEW s \in States, NEW c \in States, NEW r, NEW lg, NEW dr,
         Resumable(s, r, lg, dr), SameEvidence(s, c), QueueKept(s, c),
         ValidTime(c), ValidHoldout(c)
  PROVE  Resumable(c, r, lg, dr)
<1> USE DEF SameEvidence, QueueKept
<1>0. ValidResume(s) /\ Ranked(s, lg) /\ Uncounted(s, lg) /\ DrawnBefore(s, r, dr)
  BY DEF Resumable
<1>1. ValidCounters(c)
  BY <1>0 DEF ValidResume, ValidCounters
<1>2. ValidQueue(c)
  <2>1. IsInjective(<<>>) /\ ToSet(<<>>) = {}
    BY DEF IsInjective, ToSet
  <2> QED
    BY <1>0, <2>1 DEF ValidResume, ValidQueue
<1>3. ValidBoard(c)
  BY <1>0 DEF ValidResume, ValidBoard
<1>4. ValidBaseline(c)
  BY <1>0 DEF ValidResume, ValidBaseline
<1>5. Ranked(c, lg)
  BY <1>0 DEF Ranked
<1>6. Uncounted(c, lg)
  BY <1>0 DEF Uncounted
<1>7. DrawnBefore(c, r, dr)
  BY <1>0 DEF DrawnBefore
<1> QED
  BY <1>1, <1>2, <1>3, <1>4, <1>5, <1>6, <1>7 DEF Resumable, ValidResume

-----------------------------------------------------------------------------
(* What each step does to the state of the search *)

Resumed(s) == [s EXCEPT !.pending = Queued(s), !.inflight = NoKey]
Picked(s, t) ==
  [s EXCEPT !.inflight = Head(s.pending), !.pending = Tail(s.pending), !.elapsed = t]
Frozen(s, t) ==
  [s EXCEPT !.winner = Leader(s), !.phase = "holdout", !.pending = <<>>,
            !.elapsed = t, !.selected = t]
Bred(s, kids) == [s EXCEPT !.generation = s.generation + 1, !.pending = kids]
WinnerHeld(s, e, t) == [s EXCEPT !.winnerHoldout = e, !.elapsed = t]
BaselineHeld(s, e, t) == [s EXCEPT !.baselineHoldout = e, !.elapsed = t]
Completed(s, t) == [s EXCEPT !.phase = "completed", !.elapsed = t]

\* What the holdout knows, and what of it a step leaves alone.
SameHoldout(s, c) ==
  /\ c.winner = s.winner /\ c.winnerHoldout = s.winnerHoldout
  /\ c.baselineHoldout = s.baselineHoldout

\* A state that is resumed queues the candidate in flight again and is sound.
LEMMA ResumedIs ==
  ASSUME NEW s \in States, NEW r, NEW lg, NEW dr, Resumable(s, r, lg, dr)
  PROVE  /\ Resumed(s) \in States /\ Resumable(Resumed(s), r, lg, dr)
         /\ Queued(Resumed(s)) = Queued(s) /\ Resumed(s).inflight = NoKey
         /\ Resumed(s).phase = s.phase /\ Resumed(s).elapsed = s.elapsed
         /\ SameHoldout(s, Resumed(s))
<1> DEFINE c == Resumed(s)
<1>1. Queued(s) \in Seq(Keys)
  BY StateFields, QueueIs
<1>2. /\ c \in States /\ SameEvidence(s, c) /\ SameHoldout(s, c)
      /\ c.pending = Queued(s) /\ c.inflight = NoKey
      /\ c.phase = s.phase /\ c.elapsed = s.elapsed /\ c.selected = s.selected
  BY <1>1 DEF Resumed, States, SameEvidence, SameHoldout
<1> HIDE DEF c
<1>3. Queued(c) = Queued(s)
  BY <1>1, <1>2, QueueIs
<1>4. ValidTime(c) /\ ValidHoldout(c)
  <2>1. ValidTime(s) /\ ValidHoldout(s) /\ c.board = s.board
    BY <1>2 DEF Resumable, ValidResume, SameEvidence
  <2> QED
    BY <1>2, <2>1 DEF ValidTime, ValidHoldout, SameHoldout
<1>5. Resumable(c, r, lg, dr)
  BY <1>2, <1>3, <1>4, KeepsSound DEF QueueKept
<1> QED
  BY <1>2, <1>3, <1>5 DEF c

\* A candidate that is picked stays at the head of the queue.
LEMMA PickedIs ==
  ASSUME NEW s \in States, NEW r, NEW lg, NEW dr, Resumable(s, r, lg, dr), NEW t \in Nat,
         s.inflight = NoKey, s.pending # <<>>, s.phase = "search"
  PROVE  /\ Picked(s, t) \in States /\ Resumable(Picked(s, t), r, lg, dr)
         /\ Queued(Picked(s, t)) = Queued(s) /\ Picked(s, t).inflight \in Keys
         /\ Picked(s, t).phase = "search" /\ Picked(s, t).elapsed = t
         /\ SameHoldout(s, Picked(s, t))
<1> DEFINE c == Picked(s, t)
<1>1. s.pending \in Seq(Keys) /\ Head(s.pending) \in Keys /\ Tail(s.pending) \in Seq(Keys)
  BY StateFields, HeadTailProperties
<1>2. /\ c \in States /\ SameEvidence(s, c) /\ SameHoldout(s, c)
      /\ c.inflight = Head(s.pending) /\ c.pending = Tail(s.pending)
      /\ c.phase = s.phase /\ c.elapsed = t /\ c.selected = s.selected
  BY <1>1 DEF Picked, States, SameEvidence, SameHoldout
<1> HIDE DEF c
<1>3. Queued(c) = Queued(s)
  <2>1. /\ Queued(s) = s.pending /\ Queued(c) \in Seq(Keys) /\ Queued(c) # <<>>
        /\ Head(Queued(c)) = Head(s.pending) /\ Tail(Queued(c)) = Tail(s.pending)
    BY <1>1, <1>2, QueueIs, CrpsAssumption
  <2>2. \A q \in Seq(Keys) : q # <<>> => q = <<Head(q)>> \o Tail(q)
    BY HeadTailProperties
  <2> QED
    BY <1>1, <2>1, <2>2
<1>4. ValidTime(c) /\ ValidHoldout(c)
  <2>1. ValidTime(s) /\ ValidHoldout(s) /\ c.board = s.board
    BY <1>2 DEF Resumable, ValidResume, SameEvidence
  <2> QED
    BY <1>2, <2>1 DEF ValidTime, ValidHoldout, SameHoldout
<1>5. Resumable(c, r, lg, dr)
  BY <1>2, <1>3, <1>4, KeepsSound DEF QueueKept
<1> QED
  BY <1>1, <1>2, <1>3, <1>5 DEF c

\* A state that is frozen names the first of the leaderboard its winner.
LEMMA FrozenIs ==
  ASSUME NEW s \in States, NEW r, NEW lg, NEW dr, Resumable(s, r, lg, dr), NEW t \in Nat,
         s.inflight = NoKey, s.phase = "search", Leaders(s) # {}, Duration <= t
  PROVE  /\ Frozen(s, t) \in States /\ Resumable(Frozen(s, t), r, lg, dr)
         /\ Frozen(s, t).inflight = NoKey
         /\ Frozen(s, t).phase = "holdout" /\ Frozen(s, t).elapsed = t
<1> DEFINE c == Frozen(s, t)
<1>1. ValidResume(s) /\ s.board \in Seq(Entries)
  BY StateFields DEF Resumable
<1>2. s.board # <<>> /\ Leader(s) = s.board[1] /\ Feasible(s.board[1]) /\ s.board[1] \in SomeEntries
  <2>1. Sorted(s.board, s.seen)
    BY <1>1 DEF ValidResume, ValidBoard, Sorted
  <2>2. s.board # <<>> /\ Leader(s) = s.board[1] /\ Feasible(s.board[1])
    BY <1>1, <2>1, LeaderIsFirst
  <2>3. s.board[1] \in Entries
    BY <1>1, <2>2
  <2> QED
    BY <2>2, <2>3 DEF SomeEntries
<1>3. /\ c \in States /\ SameEvidence(s, c)
      /\ c.inflight = s.inflight /\ c.pending = <<>> /\ c.winner = s.board[1]
      /\ c.phase = "holdout" /\ c.elapsed = t /\ c.selected = t
      /\ c.winnerHoldout = s.winnerHoldout /\ c.baselineHoldout = s.baselineHoldout
  <2>1. <<>> \in Seq(Keys) /\ t \in Int
    OBVIOUS
  <2> QED
    BY <1>2, <2>1 DEF Frozen, States, SameEvidence
<1> HIDE DEF c
<1>4. Queued(c) = <<>>
  <2>1. c.inflight = NoKey /\ c.pending \in Seq(Keys)
    BY <1>3, StateFields
  <2> QED
    BY <1>3, <2>1, QueueIs
<1>5. s.seen # {}
  BY <1>1, <1>2 DEF ValidResume, ValidBaseline
<1>6. ValidTime(c)
  BY <1>3, CrpsAssumption DEF ValidTime
<1>7. ValidHoldout(c)
  <2>1. s.winnerHoldout = NoEntry /\ s.baselineHoldout = NoEntry
    BY <1>1 DEF ValidResume, ValidHoldout
  <2> QED
    BY <1>2, <1>3, <2>1 DEF ValidHoldout, SameEvidence
<1>8. Resumable(c, r, lg, dr)
  BY <1>3, <1>4, <1>5, <1>6, <1>7, KeepsSound DEF QueueKept
<1> QED
  BY <1>3, <1>8 DEF c

\* The evaluations of the holdout are those of the winner and of the baseline.
LEMMA WinnerHeldIs ==
  ASSUME NEW s \in States, NEW r, NEW lg, NEW dr, Resumable(s, r, lg, dr), NEW t \in Nat,
         s.phase # "search", s.winnerHoldout = NoEntry, s.elapsed <= t, NEW o \in Outcomes
  PROVE  LET e == Entry(s.winner.key, "winner-holdout", o)
         IN  /\ e \in Entries
             /\ WinnerHeld(s, e, t) \in States /\ Resumable(WinnerHeld(s, e, t), r, lg, dr)
             /\ WinnerHeld(s, e, t).inflight = s.inflight
             /\ WinnerHeld(s, e, t).phase = s.phase /\ WinnerHeld(s, e, t).elapsed = t
             /\ WinnerHeld(s, e, t).winner = s.winner
<1> DEFINE e == Entry(s.winner.key, "winner-holdout", o)
           c == WinnerHeld(s, e, t)
<1>1. ValidTime(s) /\ ValidHoldout(s) /\ s.elapsed \in Nat /\ s.selected \in Int
  BY StateFields DEF Resumable, ValidResume
<1>2. s.winner \in Entries
  BY <1>1, StateFields, EntryIs DEF ValidHoldout, SomeEntries
<1>3. e \in Entries /\ e \in SomeEntries /\ e.key = s.winner.key /\ e.phase = "winner-holdout"
  BY <1>2, EntryIs DEF LogPhases
<1> HIDE DEF e
<1>4. /\ c \in States /\ SameEvidence(s, c) /\ c.inflight = s.inflight /\ c.pending = s.pending
      /\ c.phase = s.phase /\ c.elapsed = t /\ c.selected = s.selected /\ c.winner = s.winner
      /\ c.winnerHoldout = e /\ c.baselineHoldout = s.baselineHoldout
  BY <1>3 DEF WinnerHeld, States, SameEvidence
<1> HIDE DEF c
<1>5. Queued(c) = Queued(s)
  BY <1>4 DEF Queued
<1>6. ValidTime(c)
  BY <1>1, <1>4, CrpsAssumption DEF ValidTime
<1>7. ValidHoldout(c)
  <2>1. s.phase # "completed" /\ s.baselineHoldout = NoEntry
    BY <1>1, EntryIs DEF ValidHoldout
  <2> QED
    BY <1>1, <1>3, <1>4, <2>1 DEF ValidHoldout, SameEvidence
<1>8. Resumable(c, r, lg, dr)
  BY <1>4, <1>5, <1>6, <1>7, KeepsSound DEF QueueKept
<1> QED
  BY <1>3, <1>4, <1>8 DEF c, e

\* Recording the baseline's holdout keeps the state resumable.
LEMMA BaselineHeldIs ==
  ASSUME NEW s \in States, NEW r, NEW lg, NEW dr, Resumable(s, r, lg, dr), NEW t \in Nat,
         s.phase # "search", Feasible(s.winnerHoldout), s.baselineHoldout = NoEntry,
         s.elapsed <= t, NEW o \in Outcomes
  PROVE  LET e == Entry(Base, "url-baseline-holdout", o)
         IN  /\ e \in Entries
             /\ BaselineHeld(s, e, t) \in States /\ Resumable(BaselineHeld(s, e, t), r, lg, dr)
             /\ BaselineHeld(s, e, t).inflight = s.inflight
             /\ BaselineHeld(s, e, t).phase = s.phase /\ BaselineHeld(s, e, t).elapsed = t
             /\ BaselineHeld(s, e, t).winner = s.winner
<1> DEFINE e == Entry(Base, "url-baseline-holdout", o)
           c == BaselineHeld(s, e, t)
<1>1. ValidTime(s) /\ ValidHoldout(s) /\ s.elapsed \in Nat /\ s.selected \in Int
  BY StateFields DEF Resumable, ValidResume
<1>2. e \in Entries /\ e \in SomeEntries /\ e.key = Base /\ e.phase = "url-baseline-holdout"
  BY EntryIs, CrpsAssumption DEF LogPhases
<1> HIDE DEF e
<1>3. /\ c \in States /\ SameEvidence(s, c) /\ c.inflight = s.inflight /\ c.pending = s.pending
      /\ c.phase = s.phase /\ c.elapsed = t /\ c.selected = s.selected /\ c.winner = s.winner
      /\ c.winnerHoldout = s.winnerHoldout /\ c.baselineHoldout = e
  BY <1>2 DEF BaselineHeld, States, SameEvidence
<1> HIDE DEF c
<1>4. Queued(c) = Queued(s)
  BY <1>3 DEF Queued
<1>5. ValidTime(c)
  BY <1>1, <1>3, CrpsAssumption DEF ValidTime
<1>6. ValidHoldout(c)
  <2>1. s.phase # "completed" /\ s.winnerHoldout # NoEntry
    BY <1>1, EntryIs DEF ValidHoldout
  <2> QED
    BY <1>1, <1>2, <1>3, <2>1 DEF ValidHoldout, SameEvidence
<1>7. Resumable(c, r, lg, dr)
  BY <1>3, <1>4, <1>5, <1>6, KeepsSound DEF QueueKept
<1> QED
  BY <1>2, <1>3, <1>7 DEF c, e

\* A search is completed when both holdouts are.
LEMMA CompletedIs ==
  ASSUME NEW s \in States, NEW r, NEW lg, NEW dr, Resumable(s, r, lg, dr), NEW t \in Nat,
         s.phase # "search", Feasible(s.winnerHoldout), Feasible(s.baselineHoldout),
         s.elapsed <= t
  PROVE  /\ Completed(s, t) \in States /\ Resumable(Completed(s, t), r, lg, dr)
         /\ Completed(s, t).inflight = s.inflight
         /\ Completed(s, t).phase = "completed" /\ Completed(s, t).elapsed = t
         /\ SameHoldout(s, Completed(s, t))
<1> DEFINE c == Completed(s, t)
<1>1. ValidTime(s) /\ ValidHoldout(s) /\ ValidBaseline(s) /\ ValidQueue(s)
      /\ s.elapsed \in Nat /\ s.selected \in Int
  BY StateFields DEF Resumable, ValidResume
<1>2. /\ c \in States /\ SameEvidence(s, c) /\ SameHoldout(s, c)
      /\ c.inflight = s.inflight /\ c.pending = s.pending
      /\ c.phase = "completed" /\ c.elapsed = t /\ c.selected = s.selected
  BY DEF Completed, States, SameEvidence, SameHoldout
<1> HIDE DEF c
<1>3. Queued(c) = Queued(s) /\ Queued(s) = <<>> /\ s.seen # {}
  BY <1>1, <1>2 DEF Queued, ValidQueue, ValidBaseline
<1>4. ValidTime(c)
  BY <1>1, <1>2, CrpsAssumption DEF ValidTime
<1>5. ValidHoldout(c)
  BY <1>1, <1>2 DEF ValidHoldout, SameEvidence, SameHoldout
<1>6. Resumable(c, r, lg, dr)
  BY <1>2, <1>3, <1>4, <1>5, KeepsSound DEF QueueKept
<1> QED
  BY <1>2, <1>6 DEF c

\* More draws than dr, from this generator state and leaderboard.
MoreDraws(more, dr, s, r) ==
  \A d \in more :
    /\ d.rng \in Nat
    /\ d \in dr \/ (d.rng = r /\ d.board = s.board /\ d.seen = s.seen)

\* A population that is bred is of new candidates.
LEMMA BredIs ==
  ASSUME NEW s \in States, NEW r \in Nat, NEW lg, NEW dr, Resumable(s, r, lg, dr),
         s.inflight = NoKey, s.phase = "search", s.pending = <<>>,
         NEW kids \in Populations(s.seen), NEW more, MoreDraws(more, dr, s, r)
  PROVE  /\ Bred(s, kids) \in States /\ Resumable(Bred(s, kids), r + 1, lg, more)
         /\ Resumable(s, r, lg, more)
         /\ Queued(s) = <<>> /\ Queued(Bred(s, kids)) = kids /\ kids \in Seq(Keys)
         /\ Bred(s, kids).inflight = NoKey
         /\ Bred(s, kids).phase = "search" /\ Bred(s, kids).elapsed = s.elapsed
         /\ SameHoldout(s, Bred(s, kids))
<1> DEFINE c == Bred(s, kids)
<1>1. /\ ValidResume(s) /\ Ranked(s, lg) /\ Uncounted(s, lg) /\ DrawnBefore(s, r, dr)
      /\ s.generation \in Nat /\ s.seen \in SUBSET Keys
  BY StateFields DEF Resumable
<1>2. kids \in Seq(Keys) /\ IsInjective(kids) /\ ToSet(kids) \cap s.seen = {}
  <2>1. PICK m \in 0..PopulationSize : kids \in [1..m -> Keys \ s.seen]
    BY DEF Populations, SeqOf
  <2>2. m \in Nat /\ DOMAIN kids = 1..m /\ \A i \in 1..m : kids[i] \in Keys \ s.seen
    BY <2>1, CrpsAssumption
  <2>3. kids \in Seq(Keys)
    BY <2>1, <2>2
  <2> QED
    BY <2>2, <2>3 DEF Populations, ToSet
<1>3. /\ c \in States /\ SameEvidence(s, c) /\ SameHoldout(s, c)
      /\ c.inflight = NoKey /\ c.pending = kids
      /\ c.phase = "search" /\ c.elapsed = s.elapsed /\ c.selected = s.selected
  <2> DEFINE g == s.generation + 1
  <2>1. g \in Nat
    BY <1>1
  <2>2. c = [s EXCEPT !.generation = g, !.pending = kids]
    BY DEF Bred
  <2> HIDE DEF g, c
  <2>3. /\ c \in States /\ SameEvidence(s, c) /\ SameHoldout(s, c)
        /\ c.inflight = s.inflight /\ c.pending = kids
        /\ c.phase = s.phase /\ c.elapsed = s.elapsed /\ c.selected = s.selected
    BY <1>2, <2>1, <2>2 DEF States, SameEvidence, SameHoldout
  <2> QED
    BY <2>3
<1> HIDE DEF c
<1>4. Queued(s) = <<>> /\ Queued(c) = kids
  BY <1>2, <1>3, StateFields, QueueIs
<1>5. s.seen # {}
  BY <1>1, <1>4 DEF ValidResume, ValidBaseline
<1>6. ValidResume(c)
  <2>1. ValidCounters(c)
    BY <1>1, <1>3 DEF ValidResume, ValidCounters, SameEvidence
  <2>2. ValidTime(c)
    BY <1>1, <1>3 DEF ValidResume, ValidTime
  <2>3. ValidQueue(c)
    BY <1>2, <1>3, <1>4 DEF ValidQueue, SameEvidence
  <2>4. ValidBoard(c)
    BY <1>1, <1>3 DEF ValidResume, ValidBoard, SameEvidence
  <2>5. ValidBaseline(c)
    BY <1>1, <1>3, <1>5 DEF ValidResume, ValidBaseline, SameEvidence
  <2>6. ValidHoldout(c)
    BY <1>1, <1>3 DEF ValidResume, ValidHoldout, SameHoldout
  <2> QED
    BY <2>1, <2>2, <2>3, <2>4, <2>5, <2>6 DEF ValidResume
<1>7. Ranked(c, lg)
  BY <1>1, <1>3 DEF Ranked, SameEvidence
\* Nothing is left to count when the queue is empty.
<1>8. \A i \in DOMAIN lg : lg[i].phase = "selection" => lg[i].key \in s.seen
  BY <1>1, <1>4 DEF Uncounted
<1>9. Uncounted(c, lg)
  BY <1>3, <1>8 DEF Uncounted, SameEvidence
<1>10. DrawnBefore(s, r, more)
  BY <1>1, <1>4 DEF DrawnBefore, MoreDraws
<1>11. DrawnBefore(c, r + 1, more)
  <2>1. \A d \in more : d.rng < r \/ d.rng = r
    BY <1>10 DEF DrawnBefore
  <2>2. \A n : n = r => n < r + 1
    OBVIOUS
  <2>3. \A d \in more : d.rng < r => d.rng < r + 1
    BY DEF MoreDraws
  <2> QED
    BY <2>1, <2>2, <2>3 DEF DrawnBefore
<1> QED
  BY <1>1, <1>2, <1>3, <1>4, <1>6, <1>7, <1>9, <1>10, <1>11 DEF c, Resumable

\* The record of the candidate in flight is counted and sorted in.
LEMMA RecordedFields ==
  ASSUME NEW s \in States, NEW e \in Entries, elapsed \in Nat
  PROVE  /\ Recorded(s, e) \in States
         /\ Recorded(s, e).good = IF e.outcome = "failed" THEN s.good ELSE s.good + 1
         /\ Recorded(s, e).bad = IF e.outcome = "failed" THEN s.bad + 1 ELSE s.bad
         /\ Recorded(s, e).feasible = IF Feasible(e) THEN s.feasible + 1 ELSE s.feasible
         /\ Recorded(s, e).baseline = IF s.seen = {} THEN e ELSE s.baseline
         /\ Recorded(s, e).seen = s.seen \union {e.key}
         /\ Recorded(s, e).board = Insert(s.board, e)
         /\ Recorded(s, e).inflight = NoKey /\ Recorded(s, e).pending = s.pending
         /\ Recorded(s, e).phase = s.phase /\ Recorded(s, e).selected = s.selected
         /\ Recorded(s, e).elapsed = elapsed
         /\ SameHoldout(s, Recorded(s, e))
<1> DEFINE good == IF e.outcome = "failed" THEN s.good ELSE s.good + 1
           bad == IF e.outcome = "failed" THEN s.bad + 1 ELSE s.bad
           feasible == IF Feasible(e) THEN s.feasible + 1 ELSE s.feasible
           baseline == IF s.seen = {} THEN e ELSE s.baseline
           seen == s.seen \union {e.key}
           board == Insert(s.board, e)
<1>1. Recorded(s, e) =
        [s EXCEPT !.inflight = NoKey, !.good = good, !.bad = bad, !.feasible = feasible,
                  !.baseline = baseline, !.seen = seen, !.board = board, !.elapsed = elapsed]
  BY DEF Recorded
<1>2. /\ good \in Nat /\ bad \in Nat /\ feasible \in Nat /\ baseline \in SomeEntries
      /\ seen \in SUBSET Keys /\ board \in Seq(Entries)
  <2>1. /\ s.good \in Nat /\ s.bad \in Nat /\ s.feasible \in Nat /\ s.seen \in SUBSET Keys
        /\ s.baseline \in SomeEntries /\ s.board \in Seq(Entries) /\ e.key \in Keys
    BY StateFields, EntryIs
  <2>2. board \in Seq(Entries)
    BY <2>1, InsertIs
  <2> QED
    BY <2>1, <2>2 DEF SomeEntries
<1> HIDE DEF good, bad, feasible, baseline, seen, board
<1>3. /\ Recorded(s, e) \in States
      /\ Recorded(s, e).good = good /\ Recorded(s, e).bad = bad
      /\ Recorded(s, e).feasible = feasible /\ Recorded(s, e).baseline = baseline
      /\ Recorded(s, e).seen = seen /\ Recorded(s, e).board = board
      /\ Recorded(s, e).inflight = NoKey /\ Recorded(s, e).pending = s.pending
      /\ Recorded(s, e).phase = s.phase /\ Recorded(s, e).selected = s.selected
      /\ Recorded(s, e).elapsed = elapsed
      /\ SameHoldout(s, Recorded(s, e))
  <2> DEFINE c == Recorded(s, e)
  <2> HIDE DEF c
  <2>1. c = [s EXCEPT !.inflight = NoKey, !.good = good, !.bad = bad, !.feasible = feasible,
                      !.baseline = baseline, !.seen = seen, !.board = board,
                      !.elapsed = elapsed]
    BY <1>1 DEF c
  <2>2. /\ c.good = good /\ c.bad = bad /\ c.feasible = feasible /\ c.baseline = baseline
        /\ c.seen = seen /\ c.board = board /\ c.inflight = NoKey /\ c.elapsed = elapsed
    BY <2>1 DEF States
  <2>3. /\ c.pending = s.pending /\ c.phase = s.phase /\ c.selected = s.selected
        /\ SameHoldout(s, c)
    BY <2>1 DEF States, SameHoldout
  <2>4. c \in States
    BY <1>2, <2>1 DEF States
  <2> QED
    BY <2>2, <2>3, <2>4 DEF c
<1> QED
  BY <1>3 DEF good, bad, feasible, baseline, seen, board

\* What the log holds of a candidate is what it returns again.
Returned(k, o, lg) ==
  \A i \in DOMAIN lg : lg[i].phase = "selection" /\ lg[i].key = k => lg[i].outcome = o

\* A state that takes a record stays one that a search may go on from, and so
\* does the checkpoint that does not have the record yet.
LEMMA RecordedIs ==
  ASSUME NEW s \in States, NEW r, NEW lg \in Seq(Entries), NEW dr, Resumable(s, r, lg, dr),
         elapsed \in Nat, s.phase = "search", s.inflight # NoKey, NEW o \in Outcomes,
         s.seen = {} => s.inflight = Base /\ o = "ok",
         Returned(s.inflight, o, lg)
  PROVE  LET e == Entry(s.inflight, "selection", o)
         IN  /\ Resumable(Recorded(s, e), r, Append(lg, e), dr)
             /\ Queued(Recorded(s, e)) = Tail(Queued(s))
<1> DEFINE k == s.inflight
           e == Entry(k, "selection", o)
           c == Recorded(s, e)
           more == Append(lg, e)
<1>1. /\ ValidResume(s) /\ Ranked(s, lg) /\ Uncounted(s, lg) /\ DrawnBefore(s, r, dr)
      /\ k \in Keys /\ s.seen \in SUBSET Keys /\ s.board \in Seq(Entries)
      /\ s.pending \in Seq(Keys)
  BY StateFields DEF Resumable
<1>2. /\ e \in Entries /\ e.key = k /\ e.phase = "selection" /\ e.outcome = o
      /\ Feasible(e) <=> o = "ok"
  BY <1>1, EntryIs DEF LogPhases
<1>3. /\ Queued(s) \in Seq(Keys)
      /\ Queued(s) # <<>>
      /\ Head(Queued(s)) = k
      /\ Tail(Queued(s)) = s.pending
  BY <1>1, QueueIs
<1> HIDE DEF e, c, more
<1>4. /\ c \in States
      /\ c.good = IF e.outcome = "failed" THEN s.good ELSE s.good + 1
      /\ c.bad = IF e.outcome = "failed" THEN s.bad + 1 ELSE s.bad
      /\ c.feasible = IF Feasible(e) THEN s.feasible + 1 ELSE s.feasible
      /\ c.baseline = IF s.seen = {} THEN e ELSE s.baseline
      /\ c.seen = s.seen \union {e.key} /\ c.board = Insert(s.board, e)
      /\ c.inflight = NoKey /\ c.pending = s.pending
      /\ c.phase = s.phase /\ c.selected = s.selected
      /\ SameHoldout(s, c)
  BY <1>2, RecordedFields DEF c
<1>5. Queued(c) = s.pending
  BY <1>1, <1>4, QueueIs
<1>6. \A i \in DOMAIN Queued(s) : Queued(s)[i] \notin s.seen
  BY <1>1 DEF ValidResume, ValidQueue, ToSet
<1>7. k \notin s.seen
  BY <1>3, <1>6
<1>8. Sorted(s.board, s.seen)
  BY <1>1 DEF ValidResume, ValidBoard, Sorted
<1>9. /\ Sorted(c.board, c.seen) /\ c.board # <<>>
      /\ \/ c.board[1] = e /\ (s.board = <<>> \/ Above(e, s.board[1]))
         \/ s.board # <<>> /\ c.board[1] = s.board[1] /\ Above(s.board[1], e)
  <2>1. /\ Sorted(Insert(s.board, e), s.seen \union {e.key}) /\ Insert(s.board, e) # <<>>
        /\ \/ /\ Insert(s.board, e)[1] = e
              /\ s.board = <<>> \/ Above(e, s.board[1])
           \/ /\ s.board # <<>>
              /\ Insert(s.board, e)[1] = s.board[1] /\ Above(s.board[1], e)
    BY <1>1, <1>2, <1>7, <1>8, InsertSorts
  <2> QED
    BY <1>4, <2>1
<1>10. ValidCounters(c)
  <2>1. Cardinality(s.seen) \in Nat /\ Cardinality(c.seen) = Cardinality(s.seen) + 1
    <3>1. IsFiniteSet(s.seen)
      BY <1>1, CrpsAssumption, FS_Subset
    <3> QED
      BY <1>2, <1>4, <1>7, <3>1, FS_AddElement, FS_CardinalityType
  <2>2. /\ s.good + s.bad = Cardinality(s.seen) /\ s.feasible <= s.good
        /\ s.good \in Nat /\ s.bad \in Nat /\ s.feasible \in Nat
    BY <1>1, StateFields DEF ValidResume, ValidCounters
  <2>3. Feasible(e) => e.outcome # "failed"
    BY <1>2
  <2>4. c.good + c.bad = Cardinality(s.seen) + 1
    BY <1>4, <2>1, <2>2
  <2>5. c.feasible <= c.good
    BY <1>4, <2>2, <2>3
  <2> QED
    BY <2>1, <2>4, <2>5 DEF ValidCounters
<1>11. ValidTime(c)
  BY <1>1, <1>4 DEF ValidResume, ValidTime
<1>12. ValidQueue(c)
  <2> DEFINE q == Queued(s)
             n == Len(q)
  <2>1. n \in Nat \ {0} /\ DOMAIN q = 1..n /\ q[1] = k
    BY <1>3
  <2>2. /\ DOMAIN s.pending = 1..(n - 1)
        /\ \A i \in 1..(n - 1) : s.pending[i] = q[i + 1]
    <3>1. /\ Len(Tail(q)) = n - 1 /\ Tail(q) \in Seq(Keys)
          /\ \A i \in 1..(n - 1) : Tail(q)[i] = q[i + 1]
      BY <1>3, HeadTailProperties
    <3>2. Tail(q) = s.pending
      BY <1>3
    <3> HIDE DEF q, n
    <3>3. DOMAIN s.pending = 1..(n - 1)
      BY <3>1, <3>2
    <3> QED
      BY <3>1, <3>2, <3>3
  <2>3. \A i, j \in 1..n : q[i] = q[j] => i = j
    BY <1>1, <2>1 DEF ValidResume, ValidQueue, IsInjective
  <2> HIDE DEF q, n
  <2>4. \A i \in 1..(n - 1) : s.pending[i] \notin c.seen
    <3> SUFFICES ASSUME NEW i \in 1..(n - 1)  PROVE q[i + 1] \notin c.seen
      BY <2>2
    <3>1. i + 1 \in 1..n /\ 1 \in 1..n /\ i + 1 # 1
      BY <2>1
    <3>2. q[i + 1] # k /\ q[i + 1] \notin s.seen
      BY <1>6, <2>1, <2>3, <3>1 DEF q
    <3> QED
      BY <1>2, <1>4, <3>2
  <2>5. IsInjective(s.pending)
    <3> SUFFICES ASSUME NEW i \in 1..(n - 1), NEW j \in 1..(n - 1), q[i + 1] = q[j + 1]
                 PROVE  i = j
      BY <2>2 DEF IsInjective
    <3>1. i + 1 \in 1..n /\ j + 1 \in 1..n
      BY <2>1
    <3>2. i + 1 = j + 1
      BY <2>3, <3>1
    <3> QED
      BY <2>1, <3>2
  <2> QED
    BY <1>4, <1>5, <2>2, <2>4, <2>5 DEF ValidQueue, ToSet
<1>13. ValidBoard(c)
  BY <1>9 DEF ValidBoard, Sorted
<1>14. ValidBaseline(c)
  <2>1. c.seen # {}
    BY <1>4
  <2>2. c.baseline.key = Base /\ Feasible(c.baseline) /\ Base \in c.seen
    BY <1>1, <1>2, <1>4 DEF ValidResume, ValidBaseline
  <2> QED
    BY <2>1, <2>2 DEF ValidBaseline
<1>15. ValidHoldout(c)
  BY <1>1, <1>4 DEF ValidResume, ValidHoldout, SameHoldout
<1>16. /\ more \in Seq(Entries) /\ DOMAIN more = 1..(Len(lg) + 1) /\ DOMAIN lg = 1..Len(lg)
       /\ Len(lg) \in Nat
       /\ \A i \in 1..(Len(lg) + 1) : more[i] = IF i = Len(lg) + 1 THEN e ELSE lg[i]
  BY <1>2 DEF more
<1>17. \A i \in DOMAIN more : more[i] = e \/ \E j \in DOMAIN lg : more[i] = lg[j]
  BY <1>16
<1>18. \A i \in DOMAIN more : more[i].phase = "selection" => more[i].key \in c.seen
  BY <1>1, <1>2, <1>3, <1>4, <1>17 DEF Uncounted
<1>19. Uncounted(c, more)
  BY <1>18 DEF Uncounted
<1>20. ASSUME NEW i \in DOMAIN more, more[i].phase = "selection", more[i].key = k
       PROVE  more[i] = e
  <2>1. more[i] \in Entries /\ more[i].outcome = o
    BY <1>2, <1>16, <1>17, <1>20 DEF Returned
  <2> QED
    BY <1>2, <1>20, <2>1 DEF Entries
<1>21. Ranked(c, more)
  <2> SUFFICES ASSUME NEW i \in DOMAIN more, more[i].phase = "selection", more[i].key \in c.seen
               PROVE  more[i] = c.board[1] \/ Above(c.board[1], more[i])
    BY <1>9 DEF Ranked
  <2>1. CASE more[i].key = k
    BY <1>9, <1>20, <2>1
  <2>2. CASE more[i].key # k
    <3>1. PICK j \in DOMAIN lg : more[i] = lg[j]
      BY <1>2, <1>17, <2>2
    <3>2. more[i].key \in s.seen
      BY <1>2, <1>4, <2>2
    <3>3. s.board # <<>> /\ (lg[j] = s.board[1] \/ Above(s.board[1], lg[j]))
      BY <1>1, <3>1, <3>2 DEF Ranked
    <3>4. lg[j] \in Entries /\ s.board[1] \in Entries
      BY <1>1, <1>16, <3>3
    <3> QED
      BY <1>2, <1>9, <3>1, <3>3, <3>4, AboveOrder
  <2> QED
    BY <2>1, <2>2
<1>22. DrawnBefore(c, r, dr)
  BY <1>1, <1>3 DEF DrawnBefore
<1>23. Resumable(c, r, more, dr)
  BY <1>10, <1>11, <1>12, <1>13, <1>14, <1>15, <1>19, <1>21, <1>22 DEF Resumable, ValidResume
<1> QED
  BY <1>3, <1>5, <1>23 DEF c, e, more

\* A record that is only logged is the next of the state that waits for it.
LEMMA LoggedIs ==
  ASSUME NEW s \in States, NEW r, NEW lg \in Seq(Entries), NEW dr, Resumable(s, r, lg, dr),
         s.phase = "search", s.inflight # NoKey, NEW e \in Entries, e.key = s.inflight
  PROVE  Resumable(s, r, Append(lg, e), dr)
<1> DEFINE more == Append(lg, e)
<1>1. /\ ValidResume(s) /\ Ranked(s, lg) /\ Uncounted(s, lg) /\ DrawnBefore(s, r, dr)
      /\ s.pending \in Seq(Keys) /\ s.inflight \in Keys
  BY StateFields DEF Resumable
<1>2. Queued(s) # <<>> /\ Head(Queued(s)) = s.inflight /\ Queued(s) \in Seq(Keys)
  BY <1>1, QueueIs
<1>3. s.inflight \notin s.seen
  <2>1. Queued(s)[1] \in ToSet(Queued(s))
    BY <1>2 DEF ToSet
  <2> QED
    BY <1>1, <1>2, <2>1 DEF ValidResume, ValidQueue
<1>4. /\ DOMAIN more = 1..(Len(lg) + 1) /\ DOMAIN lg = 1..Len(lg) /\ Len(lg) \in Nat
      /\ \A i \in 1..(Len(lg) + 1) : more[i] = IF i = Len(lg) + 1 THEN e ELSE lg[i]
  OBVIOUS
<1>5. \A i \in DOMAIN more : more[i] = e \/ \E j \in DOMAIN lg : more[i] = lg[j]
  BY <1>4
<1> HIDE DEF more
<1>6. Ranked(s, more)
  BY <1>1, <1>3, <1>5 DEF Ranked
<1>7. \A i \in DOMAIN more : more[i].phase = "selection" /\ more[i].key \notin s.seen =>
        more[i].key = s.inflight
  BY <1>1, <1>2, <1>5 DEF Uncounted
<1>8. Uncounted(s, more)
  BY <1>2, <1>7 DEF Uncounted
<1> QED
  BY <1>1, <1>6, <1>8 DEF Resumable, more

\* Evaluations of the holdout do not count for the selection.
LEMMA HoldoutLogged ==
  ASSUME NEW s, NEW r, NEW lg \in Seq(Entries), NEW dr, Resumable(s, r, lg, dr),
         NEW e \in Entries, e.phase # "selection"
  PROVE  Resumable(s, r, Append(lg, e), dr)
<1> DEFINE more == Append(lg, e)
<1>1. ValidResume(s) /\ Ranked(s, lg) /\ Uncounted(s, lg) /\ DrawnBefore(s, r, dr)
  BY DEF Resumable
<1>2. /\ DOMAIN more = 1..(Len(lg) + 1) /\ DOMAIN lg = 1..Len(lg) /\ Len(lg) \in Nat
      /\ \A i \in 1..(Len(lg) + 1) : more[i] = IF i = Len(lg) + 1 THEN e ELSE lg[i]
  OBVIOUS
<1>3. \A i \in DOMAIN more : more[i].phase = "selection" => \E j \in DOMAIN lg : more[i] = lg[j]
  BY <1>2
<1> HIDE DEF more
<1>4. Ranked(s, more)
  BY <1>1, <1>3 DEF Ranked
<1>5. Uncounted(s, more)
  BY <1>1, <1>3 DEF Uncounted
<1> QED
  BY <1>1, <1>4, <1>5 DEF Resumable, more

-----------------------------------------------------------------------------
(* The course of the search *)

\* More draws do not change the populations there are.
LEMMA PopKept ==
  ASSUME NEW f, NEW dr, NEW more \in SUBSET Draws, dr \subseteq more, Unique(more),
         NEW n \in Gens(dr)
  PROVE  n \in Nat /\ n \in Gens(more) /\ Pop(n, f, more) = Pop(n, f, dr)
<1>1. \A d \in more : d.rng \in Nat
  BY DEF Draws
<1>2. n \in Nat /\ n \in Gens(more)
  BY <1>1 DEF Gens
<1>3. CASE n = 0
  BY <1>2, <1>3 DEF Pop
<1>4. CASE n # 0
  <2>1. PICK d \in dr : n = d.rng + 1
    BY <1>4 DEF Gens
  <2>2. d.rng = n - 1 /\ d \in more
    BY <1>1, <2>1
  <2>3. DrawAt(n - 1, dr) = d
    BY <2>2 DEF Unique, DrawAt
  <2>4. DrawAt(n - 1, more) = d
    BY <2>2 DEF Unique, DrawAt
  <2> QED
    BY <1>2, <1>4, <2>3, <2>4 DEF Pop
<1> QED
  BY <1>3, <1>4

\* What follows in the course still does when more was drawn.
LEMMA FollowsKept ==
  ASSUME NEW f, NEW dr, NEW more \in SUBSET Draws, dr \subseteq more, Unique(more),
         NEW k, NEW l, Follows(k, l, f, dr)
  PROVE  Follows(k, l, f, more)
<1>1. \A n \in Gens(dr) : n \in Gens(more) /\ Pop(n, f, more) = Pop(n, f, dr)
  BY PopKept
<1> QED
  BY <1>1 DEF Follows

\* A state on its course stays on it when more was drawn.
LEMMA CourseKept ==
  ASSUME NEW f, NEW dr, NEW more \in SUBSET Draws, dr \subseteq more, Unique(more),
         NEW s, NEW r, NEW lg, OnCourse(s, r, lg, f, dr)
  PROVE  OnCourse(s, r, lg, f, more)
<1>1. \A n \in Gens(dr) : n \in Nat /\ n \in Gens(more) /\ Pop(n, f, more) = Pop(n, f, dr)
  BY PopKept
<1>2. ASSUME s.phase = "search"
      PROVE  Prior(r, f, more) = Prior(r, f, dr)
  <2>1. r \in Gens(dr) /\ r \in Nat /\ (r > 0 => r - 1 \in Gens(dr))
    BY <1>1, <1>2 DEF OnCourse
  <2> QED
    BY <1>1, <2>1 DEF Prior
<1> QED
  BY <1>1, <1>2 DEF OnCourse

\* The population drawn next comes after the one that is used up.
LEMMA CourseBred ==
  ASSUME NEW f, NEW dr \in SUBSET Draws, Unique(dr), NEW s, NEW c, NEW r \in Nat, NEW lg,
         OnCourse(s, r, lg, f, dr), s.phase = "search", Queued(s) = <<>>,
         NEW d \in dr, d.rng = r, d.kids # <<>>, Queued(c) = d.kids
  PROVE  OnCourse(c, r + 1, lg, f, dr)
<1> DEFINE p == Pop(r, f, dr)
           q == Prior(r, f, dr)
<1>1. r \in Gens(dr) /\ p \in Seq(Keys) /\ p # <<>> /\ StandsAt(<<>>, p, q, lg)
  BY DEF OnCourse
<1>2. d.kids \in Seq(Keys) /\ r + 1 \in Gens(dr) /\ r + 1 # 0 /\ (r + 1) - 1 = r
  BY DEF Draws, Gens
<1>3. Pop(r + 1, f, dr) = d.kids /\ Prior(r + 1, f, dr) = p
  <2>1. DrawAt(r, dr) = d
    BY DEF Unique, DrawAt
  <2> QED
    BY <1>2, <2>1 DEF Pop, Prior
<1> HIDE DEF p, q
<1>4. lg # <<>> /\ lg[Len(lg)].key = p[Len(p)]
  <2>1. PICK j \in 0..Len(p) :
          /\ <<>> = SubSeq(p, j + 1, Len(p))
          /\ lg = <<>> => j = 0 /\ q = <<>>
          /\ lg # <<>> => \/ j > 0 /\ lg[Len(lg)].key = p[j]
                          \/ j < Len(p) /\ lg[Len(lg)].key = p[j + 1]
                          \/ j = 0 /\ q # <<>> /\ lg[Len(lg)].key = q[Len(q)]
    BY <1>1 DEF StandsAt
  <2>2. Len(p) \in Nat \ {0}
    BY <1>1
  <2>3. j = Len(p)
    <3>1. Len(SubSeq(p, j + 1, Len(p))) = IF j + 1 <= Len(p) THEN Len(p) - j ELSE 0
      BY <1>1, <2>2, SubSeqProperties
    <3>2. Len(SubSeq(p, j + 1, Len(p))) = 0
      <4>1. Len(<<>>) = 0
        OBVIOUS
      <4> QED
        BY <2>1, <4>1
    <3> QED
      BY <2>2, <3>1, <3>2
  <2> QED
    BY <2>1, <2>2, <2>3
<1>5. StandsAt(d.kids, d.kids, p, lg)
  <2>1. SubSeq(d.kids, 0 + 1, Len(d.kids)) = d.kids /\ 0 \in 0..Len(d.kids)
    BY <1>2
  <2> QED
    BY <1>1, <1>4, <2>1 DEF StandsAt
<1> QED
  BY <1>1, <1>2, <1>3, <1>5 DEF OnCourse, p

\* A candidate is the first of all, or the last one in the log again, or the
\* next in the population p or after the population prior.
Comes(k, p, prior, lg) ==
  /\ lg = <<>> => prior = <<>> /\ p # <<>> /\ k = Head(p)
  /\ lg # <<>> => \/ k = lg[Len(lg)].key
                  \/ \E i \in DOMAIN p : p[i] = lg[Len(lg)].key /\ i < Len(p) /\ k = p[i + 1]
                  \/ /\ prior # <<>> /\ lg[Len(lg)].key = prior[Len(prior)]
                     /\ p # <<>> /\ k = Head(p)

\* The evaluation of the first in the queue is the next of the course.
LEMMA StandsEvaluated ==
  ASSUME NEW p \in Seq(Keys), NEW prior \in Seq(Keys), NEW lg \in Seq(Entries), NEW q,
         StandsAt(q, p, prior, lg), q # <<>>, NEW e \in Entries, e.key = Head(q)
  PROVE  /\ StandsAt(q, p, prior, Append(lg, e)) /\ StandsAt(Tail(q), p, prior, Append(lg, e))
         /\ Comes(e.key, p, prior, lg)
<1> DEFINE k == lg[Len(lg)].key
           n == Len(p)
           more == Append(lg, e)
<1>1. PICK j \in 0..n :
        /\ q = SubSeq(p, j + 1, n)
        /\ lg = <<>> => j = 0 /\ prior = <<>>
        /\ lg # <<>> => \/ j > 0 /\ k = p[j]
                        \/ j < n /\ k = p[j + 1]
                        \/ j = 0 /\ prior # <<>> /\ k = prior[Len(prior)]
  BY DEF StandsAt
<1>2. n \in Nat /\ DOMAIN p = 1..n
  OBVIOUS
<1>3. /\ q \in Seq(Keys)
      /\ Len(q) = IF j + 1 <= n THEN n - j ELSE 0
      /\ \A i \in 1..(n - j) : q[i] = p[j + i]
  <2>1. /\ SubSeq(p, j + 1, n) \in Seq(Keys)
        /\ Len(SubSeq(p, j + 1, n)) = IF j + 1 <= n THEN n - (j + 1) + 1 ELSE 0
        /\ \A i \in 1..(n - (j + 1) + 1) : SubSeq(p, j + 1, n)[i] = p[(j + 1) + i - 1]
    BY <1>2, SubSeqProperties
  <2> HIDE DEF n
  <2>2. \A i \in 1..(n - j) : SubSeq(p, j + 1, n)[i] = p[j + i]
    <3> SUFFICES ASSUME NEW i \in 1..(n - j)  PROVE SubSeq(p, j + 1, n)[i] = p[j + i]
      OBVIOUS
    <3>1. i \in 1..(n - (j + 1) + 1) /\ (j + 1) + i - 1 = j + i
      BY <1>2
    <3> QED
      BY <2>1, <3>1
  <2>3. Len(SubSeq(p, j + 1, n)) = IF j + 1 <= n THEN n - j ELSE 0
    BY <1>2, <2>1
  <2> QED
    BY <1>1, <2>1, <2>2, <2>3
<1>4. j < n /\ e.key = p[j + 1]
  <2>1. Len(q) > 0 /\ Head(q) = q[1]
    BY <1>3
  <2> HIDE DEF n
  <2>2. j < n
    BY <1>2, <1>3, <2>1
  <2>3. q[1] = p[j + 1]
    <3>1. 1 \in 1..(n - j)
      BY <1>2, <2>2
    <3> QED
      BY <1>3, <3>1
  <2> QED
    BY <2>1, <2>2, <2>3
<1>5. Tail(q) = SubSeq(p, j + 2, n)
  <2>1. /\ Tail(q) \in Seq(Keys) /\ Len(Tail(q)) = Len(q) - 1
        /\ \A i \in 1..(Len(q) - 1) : Tail(q)[i] = q[i + 1]
    BY <1>3, HeadTailProperties
  <2>2. /\ SubSeq(p, j + 2, n) \in Seq(Keys)
        /\ Len(SubSeq(p, j + 2, n)) = IF j + 2 <= n THEN n - (j + 2) + 1 ELSE 0
        /\ \A i \in 1..(n - (j + 2) + 1) : SubSeq(p, j + 2, n)[i] = p[(j + 2) + i - 1]
    BY <1>2, <1>4, SubSeqProperties
  <2> DEFINE a == Tail(q)
             b == SubSeq(p, j + 2, n)
  <2> HIDE DEF n, a, b
  <2>3. Len(a) = n - j - 1 /\ Len(b) = n - j - 1
    BY <1>2, <1>3, <1>4, <2>1, <2>2 DEF a, b
  <2>4. ASSUME NEW i \in 1..(n - j - 1)  PROVE a[i] = b[i]
    <3>1. /\ i \in 1..(Len(q) - 1) /\ i + 1 \in 1..(n - j) /\ i \in 1..(n - (j + 2) + 1)
          /\ (j + 2) + i - 1 = j + (i + 1)
      BY <1>2, <1>3, <1>4
    <3>2. a[i] = q[i + 1] /\ q[i + 1] = p[j + (i + 1)] /\ b[i] = p[(j + 2) + i - 1]
      BY <1>3, <2>1, <2>2, <3>1 DEF a, b
    <3> QED
      BY <3>1, <3>2
  <2>5. a = b
    BY <2>1, <2>2, <2>3, <2>4, SeqEqual DEF a, b
  <2> QED
    BY <2>5 DEF a, b
<1>6. more # <<>> /\ more[Len(more)].key = e.key
  OBVIOUS
<1>7. StandsAt(q, p, prior, more)
  BY <1>1, <1>4, <1>6 DEF StandsAt
<1>8. StandsAt(Tail(q), p, prior, more)
  <2>1. j + 1 \in 0..n /\ (j + 1) + 1 = j + 2 /\ j + 1 > 0
    BY <1>2, <1>4
  <2> QED
    BY <1>4, <1>5, <1>6, <2>1 DEF StandsAt
<1>9. p # <<>> /\ Head(p) = p[1]
  BY <1>4
<1>10. lg # <<>> =>
         \/ e.key = k
         \/ \E i \in DOMAIN p : p[i] = k /\ i < n /\ e.key = p[i + 1]
         \/ prior # <<>> /\ k = prior[Len(prior)] /\ p # <<>> /\ e.key = Head(p)
  <2>1. CASE lg # <<>> /\ j > 0 /\ k = p[j]
    BY <1>2, <1>4, <2>1
  <2>2. CASE lg # <<>> /\ j < n /\ k = p[j + 1]
    BY <1>4, <2>2
  <2>3. CASE lg # <<>> /\ j = 0 /\ prior # <<>> /\ k = prior[Len(prior)]
    BY <1>4, <1>9, <2>3
  <2> QED
    BY <1>1, <2>1, <2>2, <2>3
<1> QED
  BY <1>1, <1>4, <1>7, <1>8, <1>9, <1>10 DEF Comes

\* A candidate is the first of the course, or the last one in the log again, or
\* the one that follows it.
Continues(k, lg, f, dr) ==
  /\ lg = <<>> => k = Head(f)
  /\ lg # <<>> => k = lg[Len(lg)].key \/ Follows(lg[Len(lg)].key, k, f, dr)

\* The evaluation of the first in the queue continues the course.
LEMMA CourseEvaluated ==
  ASSUME NEW f \in Seq(Keys), NEW dr \in SUBSET Draws, NEW s, NEW c, NEW r \in Nat,
         NEW lg \in Seq(Entries), OnCourse(s, r, lg, f, dr), s.phase = "search",
         Queued(s) # <<>>, NEW e \in Entries, e.key = Head(Queued(s)),
         Queued(c) = Tail(Queued(s)) \/ c.phase # "search"
  PROVE  /\ OnCourse(s, r, Append(lg, e), f, dr) /\ OnCourse(c, r, Append(lg, e), f, dr)
         /\ Continues(e.key, lg, f, dr)
<1> DEFINE p == Pop(r, f, dr)
           prior == Prior(r, f, dr)
           q == Queued(s)
           more == Append(lg, e)
           k == lg[Len(lg)].key
<1>1. /\ r \in Gens(dr) /\ p \in Seq(Keys) /\ p # <<>> /\ prior \in Seq(Keys)
      /\ r > 0 => r - 1 \in Gens(dr) /\ prior # <<>>
      /\ StandsAt(q, p, prior, lg)
  BY DEF OnCourse
<1>2. /\ StandsAt(q, p, prior, more) /\ StandsAt(Tail(q), p, prior, more)
      /\ lg = <<>> => prior = <<>> /\ p # <<>> /\ e.key = Head(p)
      /\ lg # <<>> => \/ e.key = k
                      \/ \E i \in DOMAIN p : p[i] = k /\ i < Len(p) /\ e.key = p[i + 1]
                      \/ prior # <<>> /\ k = prior[Len(prior)] /\ p # <<>> /\ e.key = Head(p)
  <2>1. q # <<>> /\ e.key = Head(q)
    OBVIOUS
  <2> HIDE DEF p, prior, q
  <2>2. StandsAt(q, p, prior, more) /\ StandsAt(Tail(q), p, prior, more)
    BY <1>1, <2>1, StandsEvaluated
  <2>3. Comes(e.key, p, prior, lg)
    BY <1>1, <2>1, StandsEvaluated
  <2> QED
    BY <2>2, <2>3 DEF Comes
<1>3. OnCourse(s, r, more, f, dr) /\ OnCourse(c, r, more, f, dr)
  BY <1>1, <1>2 DEF OnCourse
<1>4. lg = <<>> => e.key = Head(f)
  <2>1. ASSUME lg = <<>>  PROVE r = 0
    BY <1>1, <1>2, <2>1
  <2> QED
    BY <1>2, <2>1 DEF Pop
<1>5. ASSUME NEW i \in DOMAIN p, p[i] = k, i < Len(p), e.key = p[i + 1]
      PROVE  Follows(k, e.key, f, dr)
  BY <1>1, <1>5 DEF Follows
<1>6. ASSUME prior # <<>>, k = prior[Len(prior)], e.key = Head(p)
      PROVE  Follows(k, e.key, f, dr)
  <2>1. r > 0 /\ r - 1 \in Gens(dr) /\ prior = Pop(r - 1, f, dr) /\ (r - 1) + 1 = r
    <3>1. r # 0
      BY <1>6 DEF Prior
    <3> QED
      BY <1>1, <3>1 DEF Prior
  <2>2. Len(prior) \in DOMAIN prior /\ ~(Len(prior) < Len(prior))
    BY <1>1, <1>6
  <2> HIDE DEF p, prior, k
  <2>3. Pop((r - 1) + 1, f, dr) = p
    BY <2>1 DEF p
  <2> QED
    BY <1>1, <1>6, <2>1, <2>2, <2>3 DEF Follows
<1> QED
  BY <1>2, <1>3, <1>4, <1>5, <1>6 DEF Continues

-----------------------------------------------------------------------------
(* The inductive invariant *)

\* A new search starts with the first population, of which nothing is known.
LEMMA NewSearchIs ==
  ASSUME NEW p \in Seq(Keys)
  PROVE  /\ NewSearch(p) \in States
         /\ NewSearch(p).phase = "search" /\ NewSearch(p).inflight = NoKey
         /\ NewSearch(p).elapsed = 0 /\ NewSearch(p).winner = NoEntry
         /\ Queued(NewSearch(p)) = p
         /\ p # <<>> /\ IsInjective(p) /\ Head(p) = Base =>
              /\ Resumable(NewSearch(p), 0, <<>>, {})
              /\ OnCourse(NewSearch(p), 0, <<>>, p, {})
<1> DEFINE c == NewSearch(p)
<1>1. /\ c.phase = "search" /\ c.pending = p /\ c.inflight = NoKey /\ c.board = <<>>
      /\ c.seen = {} /\ c.good = 0 /\ c.bad = 0 /\ c.feasible = 0 /\ c.elapsed = 0
      /\ c.selected = -1 /\ c.baseline = NoEntry /\ c.winner = NoEntry
      /\ c.winnerHoldout = NoEntry /\ c.baselineHoldout = NoEntry
  BY DEF NewSearch
<1>2. c \in States
  <2>1. <<>> \in Seq(Entries) /\ -1 \in Int /\ NoEntry \in SomeEntries
    BY EntryIs
  <2> QED
    BY <2>1 DEF NewSearch, States
<1> HIDE DEF c
<1>3. Queued(c) = p
  BY <1>1, QueueIs
<1>4. ASSUME p # <<>>, IsInjective(p), Head(p) = Base
      PROVE  Resumable(c, 0, <<>>, {}) /\ OnCourse(c, 0, <<>>, p, {})
  <2>1. ValidCounters(c)
    BY <1>1, FS_EmptySet DEF ValidCounters
  <2>2. ValidTime(c) /\ ValidQueue(c) /\ ValidBaseline(c) /\ ValidHoldout(c)
    BY <1>1, <1>3, <1>4 DEF ValidTime, ValidQueue, ValidBaseline, ValidHoldout
  <2>3. ValidBoard(c)
    BY <1>1, CrpsAssumption DEF ValidBoard, KeysIn
  <2>4. Ranked(c, <<>>) /\ Uncounted(c, <<>>) /\ DrawnBefore(c, 0, {})
    BY DEF Ranked, Uncounted, DrawnBefore
  <2>5. StandsAt(p, p, <<>>, <<>>)
    <3>1. SubSeq(p, 0 + 1, Len(p)) = p /\ 0 \in 0..Len(p)
      OBVIOUS
    <3> QED
      BY <3>1 DEF StandsAt
  <2>6. OnCourse(c, 0, <<>>, p, {})
    <3>1. 0 \in Gens({}) /\ Pop(0, p, {}) = p /\ Prior(0, p, {}) = <<>>
      BY DEF Gens, Pop, Prior
    <3>2. <<>> \in Seq(Keys)
      OBVIOUS
    <3>3. /\ Pop(0, p, {}) \in Seq(Keys) \ {<<>>} /\ Prior(0, p, {}) \in Seq(Keys)
          /\ StandsAt(Queued(c), Pop(0, p, {}), Prior(0, p, {}), <<>>)
      BY <1>3, <1>4, <2>5, <3>1, <3>2
    <3> QED
      BY <3>1, <3>3 DEF OnCourse
  <2> QED
    BY <2>1, <2>2, <2>3, <2>4, <2>6 DEF Resumable, ValidResume
<1> QED
  BY <1>1, <1>2, <1>3, <1>4 DEF c

\* What is on disk fits together.
FilesSound ==
  /\ CheckpointSound /\ LogSound
  /\ Unique(draws) /\ InOrder(log, first, draws)

\* The process fits what is on disk, if there is one.
ProcessSound == crpsPc \notin Idle => ProcessState /\ ProcessSaved

\* A step that changes no file leaves the files sound.
LEMMA FilesKept ==
  ASSUME FilesSound, UNCHANGED <<files, oracle>>
  PROVE  FilesSound'
<1>1. /\ checkpoint' = checkpoint /\ log' = log /\ result' = result
      /\ score' = score /\ first' = first /\ draws' = draws
  BY DEF files, oracle
<1>2. CheckpointSound'
  BY <1>1 DEF FilesSound, CheckpointSound
<1>3. LogSound'
  BY <1>1 DEF FilesSound, LogSound, HoldoutUntouched
<1> QED
  BY <1>1, <1>2, <1>3 DEF FilesSound

\* A search waits for nothing once it has been given up.
LEMMA IdleSound ==
  ASSUME crpsPc' \in Idle
  PROVE  ProcessSound'
  BY DEF ProcessSound

\* Where a process is that begins to write its checkpoint.
LEMMA SaveTypes ==
  ASSUME NEW label \in Afters, SaveThen(label)
  PROVE  /\ crpsPc' = "save" /\ after' = label /\ Where' = label
         /\ crpsPc' \in Steps \union Idle \union {"save"} /\ after' \in Afters
  BY DEF SaveThen, Where

\* A process that saves a sound state is sound.
LEMMA SavingSound ==
  ASSUME NEW label \in {"loop", "evaluate", "holdout", "done"}, SaveThen(label),
         Resumable(st, rng, log, draws)', OnCourse(st, rng, log, first, draws)',
         (st.elapsed <= elapsed)',
         label \in {"loop", "evaluate"} <=> st'.phase = "search",
         st'.inflight # NoKey <=> label = "evaluate",
         label = "done" => Feasible(st'.winnerHoldout) /\ Feasible(st'.baselineHoldout),
         checkpoint'.state.phase # "search" =>
           st'.phase # "search" /\ st'.winner = checkpoint'.state.winner
  PROVE  ProcessSound'
<1>1. crpsPc' = "save" /\ Where' = label
  BY DEF SaveThen, Where
<1>2. ProcessState'
  BY <1>1 DEF ProcessState
<1>3. ProcessSaved'
  BY <1>1 DEF ProcessSaved
<1> QED
  BY <1>2, <1>3 DEF ProcessSound

\* The invariant, by what it says of the files and of the process.
LEMMA CrpsInvariantIs == CrpsInvariant <=> CrpsTypes /\ FilesSound /\ ProcessSound
  BY DEF CrpsInvariant, FilesSound, ProcessSound

\* No process, no checkpoint and an empty log.
LEMMA CrpsInitial ==
  ASSUME CrpsInit
  PROVE  CrpsInvariant
<1>1. first \in Seq(Keys) /\ first # <<>> /\ IsInjective(first) /\ Head(first) = Base
  <2>1. PICK s \in Populations({}) : Len(s) = PopulationSize /\ Head(s) = Base /\ first = s
    BY DEF CrpsInit
  <2>2. PICK m \in 0..PopulationSize : s \in [1..m -> Keys \ {}]
    BY DEF Populations, SeqOf
  <2>3. s \in Seq(Keys) /\ IsInjective(s)
    BY <2>2, CrpsAssumption DEF Populations
  <2> QED
    BY <2>1, <2>3, CrpsAssumption
<1>2. <<>> \in Seq(Keys) /\ <<>> \in Seq(Entries) /\ NewSearch(<<>>) \in States
      /\ NewSearch(<<>>).phase = "search"
  <2>1. <<>> \in Seq(Keys) /\ <<>> \in Seq(Entries)
    OBVIOUS
  <2> QED
    BY <2>1, NewSearchIs
<1>3. CrpsTypes
  <2>1. checkpoint \in Records
    BY <1>2 DEF CrpsInit, NoCheckpoint, Records
  <2>2. score \in [Keys \X Kinds -> Outcomes \union {"unknown"}]
    BY DEF CrpsInit
  <2> QED
    BY <1>1, <1>2, <2>1, <2>2, EntryIs DEF CrpsInit, CrpsTypes, Steps, Idle, Afters
<1>4. checkpoint = NoCheckpoint /\ log = <<>> /\ draws = {} /\ result = NoEntry
      /\ checkpoint.state.phase = "search"
  BY <1>2 DEF CrpsInit, NoCheckpoint
<1>5. CheckpointSound
  BY <1>4 DEF CheckpointSound
<1>6. LogSound
  BY <1>4 DEF LogSound, HoldoutUntouched
<1>7. Unique(draws) /\ InOrder(log, first, draws)
  BY <1>4 DEF Unique, InOrder
<1>8. crpsPc \in Idle
  BY DEF CrpsInit, Idle
<1> QED
  BY <1>3, <1>5, <1>6, <1>7, <1>8 DEF CrpsInvariant

\* A new job starts from a fresh state and the first population.
LEMMA LaunchNewStep ==
  ASSUME CrpsInvariant, LaunchNew
  PROVE  CrpsInvariant'
<1>1. CrpsTypes /\ FilesSound /\ ProcessSound
  BY CrpsInvariantIs
<1>2. /\ st' = NewSearch(first) /\ rng' = 0 /\ elapsed' = 0 /\ checkpoint = NoCheckpoint
      /\ UNCHANGED <<files, oracle>> /\ SaveThen("loop")
      /\ checkpoint' = checkpoint /\ log' = log /\ result' = result
      /\ score' = score /\ first' = first /\ draws' = draws
  BY DEF LaunchNew, files, oracle
<1>3. FilesSound'
  BY <1>1, <1>2, FilesKept
<1>4. log = <<>> /\ draws = {} /\ checkpoint.state.phase = "search"
  <2>1. NewSearch(<<>>).phase = "search"
    BY DEF NewSearch
  <2> QED
    BY <1>1, <1>2, <2>1 DEF FilesSound, CheckpointSound, NoCheckpoint
<1>5. /\ st' \in States /\ st'.phase = "search" /\ st'.inflight = NoKey /\ st'.elapsed = 0
      /\ Resumable(st', 0, <<>>, {}) /\ OnCourse(st', 0, <<>>, first, {})
  <2>1. first \in Seq(Keys) /\ first # <<>> /\ IsInjective(first) /\ Head(first) = Base
    BY <1>1 DEF CrpsTypes
  <2> QED
    BY <1>2, <2>1, NewSearchIs
<1>6. CrpsTypes'
  BY <1>1, <1>2, <1>5, SaveTypes DEF CrpsTypes, Afters
<1>7. ProcessSound'
  <2>1. Resumable(st', rng', log', draws') /\ OnCourse(st', rng', log', first', draws')
    BY <1>2, <1>4, <1>5
  <2>2. st'.elapsed <= elapsed' /\ checkpoint'.state.phase = "search"
    BY <1>2, <1>4, <1>5
  <2> QED
    BY <1>2, <1>5, <2>1, <2>2, SavingSound
<1> QED
  BY <1>3, <1>6, <1>7 DEF CrpsInvariant, FilesSound, ProcessSound

\* A resumed job goes on from the state and generator of the checkpoint.
LEMMA ResumeStep ==
  ASSUME CrpsInvariant, Resume
  PROVE  CrpsInvariant'
<1> DEFINE s == checkpoint.state
<1>1. CrpsTypes /\ FilesSound /\ ProcessSound
  BY CrpsInvariantIs
<1>2. /\ UNCHANGED <<files, oracle>> /\ checkpoint # NoCheckpoint
      /\ checkpoint' = checkpoint /\ log' = log /\ result' = result
      /\ score' = score /\ first' = first /\ draws' = draws
  BY DEF Resume, files, oracle
<1>3. FilesSound'
  BY <1>1, <1>2, FilesKept
<1>4. /\ s \in States /\ checkpoint.rng \in Nat
      /\ Resumable(s, checkpoint.rng, log, draws) /\ OnCourse(s, checkpoint.rng, log, first, draws)
  BY <1>1, <1>2 DEF CrpsTypes, Records, FilesSound, CheckpointSound
<1>5. /\ st' = Resumed(s) /\ rng' = checkpoint.rng /\ elapsed' = s.elapsed
      /\ SaveThen(IF s.phase = "search" THEN "loop" ELSE "holdout")
  <2>1. ValidResume(s)
    BY <1>4 DEF Resumable
  <2> QED
    BY <2>1 DEF Resume, Resumed
<1> HIDE DEF s
<1>6. /\ st' \in States /\ Resumable(st', rng', log', draws')
      /\ Queued(st') = Queued(s) /\ st'.inflight = NoKey
      /\ st'.phase = s.phase /\ st'.elapsed = s.elapsed /\ st'.winner = s.winner
  BY <1>2, <1>4, <1>5, ResumedIs DEF SameHoldout
<1>7. OnCourse(st', rng', log', first', draws')
  BY <1>2, <1>4, <1>5, <1>6 DEF OnCourse
<1>8. s.elapsed \in Nat /\ s.elapsed <= s.elapsed
  BY <1>4, StateFields
<1>9. CrpsTypes'
  <2>1. (IF s.phase = "search" THEN "loop" ELSE "holdout") \in Afters
    BY DEF Afters
  <2>2. crpsPc' \in Steps \union Idle \union {"save"} /\ after' \in Afters
    BY <1>5, <2>1, SaveTypes
  <2> QED
    BY <1>1, <1>2, <1>4, <1>5, <1>6, <1>8, <2>2 DEF CrpsTypes
<1>10. ProcessSound'
  <2>1. st'.elapsed <= elapsed'
    BY <1>5, <1>6, <1>8
  <2>2. checkpoint'.state = s
    BY <1>2 DEF s
  <2>3. CASE s.phase = "search"
    <3>1. SaveThen("loop")
      BY <1>5, <2>3
    <3> QED
      BY <1>6, <1>7, <2>1, <2>2, <2>3, <3>1, SavingSound
  <2>4. CASE s.phase # "search"
    <3>1. SaveThen("holdout")
      BY <1>5, <2>4
    <3> QED
      BY <1>6, <1>7, <2>1, <2>2, <2>4, <3>1, SavingSound
  <2> QED
    BY <2>3, <2>4
<1> QED
  BY <1>3, <1>9, <1>10, CrpsInvariantIs DEF CrpsInvariant, FilesSound, ProcessSound

\* Where a live process is, what it holds and what is on disk.
LEMMA Live ==
  ASSUME CrpsInvariant, crpsPc \notin Idle
  PROVE  /\ CrpsTypes /\ FilesSound /\ ProcessState /\ ProcessSaved
         /\ crpsPc # "save" => Where = crpsPc
         /\ crpsPc \in {"loop", "evaluate", "holdout", "complete"} =>
              /\ checkpoint.state = st /\ checkpoint.rng = rng /\ checkpoint # NoCheckpoint
         /\ crpsPc \in {"loop", "pick", "evaluate"} => st.phase = "search"
         /\ crpsPc \in {"holdout", "complete"} => st.phase # "search"
         /\ crpsPc \in {"loop", "pick", "holdout", "complete"} => st.inflight = NoKey
         /\ crpsPc = "evaluate" => st.inflight # NoKey
<1>1. CrpsTypes /\ FilesSound /\ ProcessState /\ ProcessSaved
  BY DEF CrpsInvariant, FilesSound
<1>2. crpsPc # "save" => Where = crpsPc
  BY DEF Where
<1>3. crpsPc \in {"loop", "evaluate", "holdout", "complete"} =>
        checkpoint.state = st /\ checkpoint.rng = rng /\ checkpoint # NoCheckpoint
  BY <1>1 DEF ProcessSaved, CrpsTypes, NoCheckpoint
<1>4. /\ crpsPc \in {"loop", "pick", "evaluate"} => st.phase = "search"
      /\ crpsPc \in {"holdout", "complete"} => st.phase # "search"
      /\ crpsPc \in {"loop", "pick", "holdout", "complete"} => st.inflight = NoKey
      /\ crpsPc = "evaluate" => st.inflight # NoKey
  BY <1>1, <1>2 DEF ProcessState
<1> QED
  BY <1>1, <1>2, <1>3, <1>4

\* The checkpoint is replaced by the state in memory.
LEMMA WriteCheckpointStep ==
  ASSUME CrpsInvariant, WriteCheckpoint
  PROVE  CrpsInvariant'
<1>1. /\ crpsPc = "save" /\ crpsPc \notin Idle
      /\ checkpoint' = [state |-> st, rng |-> rng] /\ crpsPc' = after
      /\ after' = after /\ st' = st /\ rng' = rng /\ elapsed' = elapsed
      /\ log' = log /\ result' = result
      /\ score' = score /\ first' = first /\ draws' = draws
  BY DEF WriteCheckpoint, memory, oracle, Idle
<1>2. CrpsTypes /\ FilesSound /\ ProcessState /\ ProcessSaved
  BY <1>1, Live
<1>3. checkpoint'.state = st /\ checkpoint'.rng = rng /\ rng \in Nat
  BY <1>1, <1>2 DEF CrpsTypes
<1>4. checkpoint' # NoCheckpoint
  BY <1>3 DEF NoCheckpoint
<1>5. CrpsTypes'
  BY <1>1, <1>2 DEF CrpsTypes, Records, Afters, Steps, Idle
<1>6. Resumable(st, rng, log, draws) /\ OnCourse(st, rng, log, first, draws)
  BY <1>2 DEF ProcessState
<1>7. checkpoint.state.phase # "search" =>
        st.phase # "search" /\ st.winner = checkpoint.state.winner
  BY <1>2 DEF ProcessSaved
<1>8. CheckpointSound'
  <2>1. result # NoEntry => checkpoint.state.phase # "search" /\ result = checkpoint.state.winner
    BY <1>2 DEF FilesSound, CheckpointSound
  <2> QED
    BY <1>1, <1>3, <1>4, <1>6, <1>7, <2>1 DEF CheckpointSound
<1>9. LogSound'
  BY <1>1, <1>2, <1>3, <1>7 DEF FilesSound, LogSound, HoldoutUntouched
<1>10. Unique(draws)' /\ InOrder(log, first, draws)'
  BY <1>1, <1>2 DEF FilesSound
<1>11. ASSUME crpsPc' \notin Idle  PROVE ProcessState' /\ ProcessSaved'
  <2>1. after \in Afters /\ after \notin Idle
    BY <1>1, <1>2, <1>11 DEF CrpsTypes
  <2>2. Where = after /\ Where' = after
    BY <1>1, <2>1 DEF Where, Afters
  <2>3. ProcessState'
    BY <1>1, <1>2, <2>2 DEF ProcessState
  <2>4. ProcessSaved'
    BY <1>1, <1>3, <1>4 DEF ProcessSaved
  <2> QED
    BY <2>3, <2>4
<1> QED
  BY <1>5, <1>8, <1>9, <1>10, <1>11 DEF CrpsInvariant

\* Only the time goes on, and no validated field depends on it.
LEMMA TickStep ==
  ASSUME CrpsInvariant, Tick
  PROVE  CrpsInvariant'
<1>1. /\ crpsPc \notin Idle /\ elapsed' = elapsed + 1
      /\ crpsPc' = crpsPc /\ after' = after /\ st' = st /\ rng' = rng
      /\ UNCHANGED <<files, oracle>>
      /\ checkpoint' = checkpoint /\ log' = log /\ result' = result
      /\ score' = score /\ first' = first /\ draws' = draws
  BY DEF Tick, files, oracle, Idle
<1>2. CrpsTypes /\ FilesSound /\ ProcessState /\ ProcessSaved
  BY <1>1, Live
<1>3. FilesSound'
  BY <1>1, <1>2, FilesKept
<1>4. elapsed \in Nat /\ elapsed' \in Nat /\ st.elapsed <= elapsed'
  BY <1>1, <1>2, StateFields DEF CrpsTypes, ProcessState
<1>5. CrpsTypes'
  BY <1>1, <1>2, <1>4 DEF CrpsTypes
<1>6. ProcessState' /\ ProcessSaved'
  BY <1>1, <1>2, <1>4 DEF ProcessState, ProcessSaved, Where
<1> QED
  BY <1>3, <1>5, <1>6 DEF CrpsInvariant, FilesSound

\* A process that ends, by an error or a kill, leaves the files as they are.
LEMMA StopStep ==
  ASSUME CrpsInvariant, crpsPc' \in Idle, after' = after, UNCHANGED <<memory, files, oracle>>
  PROVE  CrpsInvariant'
<1>1. CrpsTypes /\ FilesSound
  BY CrpsInvariantIs
<1>2. /\ st' = st /\ rng' = rng /\ elapsed' = elapsed /\ UNCHANGED <<files, oracle>>
      /\ checkpoint' = checkpoint /\ log' = log /\ result' = result
      /\ score' = score /\ first' = first /\ draws' = draws
  BY DEF memory, files, oracle
<1>3. FilesSound'
  BY <1>1, <1>2, FilesKept
<1>4. CrpsTypes'
  BY <1>1, <1>2 DEF CrpsTypes
<1> QED
  BY <1>3, <1>4 DEF CrpsInvariant, FilesSound

\* The search ends: queue and candidate in flight are dropped, the winner is frozen.
LEMMA FreezeStep ==
  ASSUME CrpsInvariant, Freeze
  PROVE  CrpsInvariant'
<1>1. /\ crpsPc = "loop" /\ crpsPc \notin Idle /\ elapsed >= Duration
      /\ rng' = rng /\ elapsed' = elapsed /\ UNCHANGED <<files, oracle>>
      /\ checkpoint' = checkpoint /\ log' = log /\ result' = result
      /\ score' = score /\ first' = first /\ draws' = draws
  BY DEF Freeze, files, oracle, Idle
<1>2. /\ CrpsTypes /\ FilesSound /\ ProcessState
      /\ checkpoint.state = st /\ st.phase = "search" /\ st.inflight = NoKey
  BY <1>1, Live
<1>3. CASE Leaders(st) = {}
  <2>1. crpsPc' \in Idle /\ after' = after /\ UNCHANGED <<memory, files, oracle>>
    BY <1>1, <1>3 DEF Freeze, Raise, Idle, memory
  <2> QED
    BY <2>1, StopStep
<1>4. CASE Leaders(st) # {}
  <2>1. st' = Frozen(st, elapsed) /\ SaveThen("holdout")
    BY <1>4 DEF Freeze, Frozen
  <2>2. /\ Resumable(st, rng, log, draws) /\ elapsed \in Nat /\ Duration <= elapsed /\ st \in States
    BY <1>1, <1>2, CrpsAssumption DEF ProcessState, CrpsTypes
  <2>3. /\ st' \in States /\ Resumable(st', rng, log, draws) /\ st'.inflight = NoKey
        /\ st'.phase = "holdout" /\ st'.elapsed = elapsed
    BY <1>2, <1>4, <2>1, <2>2, FrozenIs
  <2>4. FilesSound'
    BY <1>1, <1>2, FilesKept
  <2>5. CrpsTypes'
    BY <1>1, <1>2, <2>1, <2>3, SaveTypes DEF CrpsTypes, Afters
  <2>6. ProcessSound'
    <3>1. OnCourse(st', rng', log', first', draws')
      BY <2>3 DEF OnCourse
    <3>2. Resumable(st', rng', log', draws') /\ st'.elapsed <= elapsed'
      BY <1>1, <2>2, <2>3
    <3> QED
      BY <1>1, <1>2, <2>1, <2>3, <3>1, <3>2, SavingSound
  <2> QED
    BY <2>4, <2>5, <2>6 DEF CrpsInvariant, FilesSound, ProcessSound
<1> QED
  BY <1>3, <1>4

\* The next candidate of the queue goes in flight.
LEMMA PickStep ==
  ASSUME CrpsInvariant, Pick
  PROVE  CrpsInvariant'
<1>1. /\ crpsPc \in {"pick", "loop"} /\ crpsPc \notin Idle /\ st.pending # <<>>
      /\ st' = Picked(st, elapsed) /\ SaveThen("evaluate")
      /\ rng' = rng /\ elapsed' = elapsed /\ UNCHANGED <<files, oracle>>
      /\ checkpoint' = checkpoint /\ log' = log /\ result' = result
      /\ score' = score /\ first' = first /\ draws' = draws
  BY DEF Pick, Picked, files, oracle, Idle
<1>2. /\ CrpsTypes /\ FilesSound /\ ProcessState /\ ProcessSaved
      /\ st.phase = "search" /\ st.inflight = NoKey
  BY <1>1, Live
<1>3. FilesSound'
  BY <1>1, <1>2, FilesKept
<1>4. /\ Resumable(st, rng, log, draws) /\ OnCourse(st, rng, log, first, draws)
      /\ elapsed \in Nat /\ st \in States
  BY <1>2 DEF ProcessState, CrpsTypes
<1>5. /\ st' \in States /\ Resumable(st', rng, log, draws) /\ st'.inflight \in Keys
      /\ Queued(st') = Queued(st) /\ st'.phase = "search" /\ st'.elapsed = elapsed
  BY <1>1, <1>2, <1>4, PickedIs
<1>6. CrpsTypes'
  BY <1>1, <1>2, <1>5, SaveTypes DEF CrpsTypes, Afters
<1>7. ProcessSound'
  <2>1. OnCourse(st', rng', log', first', draws')
    BY <1>1, <1>2, <1>4, <1>5 DEF OnCourse
  <2>2. Resumable(st', rng', log', draws') /\ st'.elapsed <= elapsed' /\ st'.inflight # NoKey
    BY <1>1, <1>4, <1>5, CrpsAssumption
  <2>3. checkpoint'.state.phase = "search"
    BY <1>1, <1>2 DEF ProcessSaved
  <2> QED
    BY <1>1, <1>5, <2>1, <2>2, <2>3, SavingSound
<1> QED
  BY <1>3, <1>6, <1>7 DEF CrpsInvariant, FilesSound, ProcessSound

\* A population is drawn once for a generator state.
LEMMA NextPopulationIs ==
  ASSUME CrpsTypes, Unique(draws), DrawnBefore(st, rng, draws),
         NEW kids \in Populations(st.seen), kids \in Seq(Keys), NextPopulation(kids)
  PROVE  /\ draws \subseteq draws' /\ draws' \in SUBSET Draws /\ Unique(draws')
         /\ \A d \in draws' :
              d \in draws \/ (d.rng = rng /\ d.board = st.board /\ d.seen = st.seen)
         /\ \E d \in draws' : d.rng = rng /\ d.kids = kids
<1>1. /\ st \in States /\ rng \in Nat /\ draws \in SUBSET Draws
      /\ st.board \in Seq(Entries) /\ st.seen \in SUBSET Keys
  BY StateFields DEF CrpsTypes
<1>2. \A d \in draws : d.rng \in Nat
  BY <1>1 DEF Draws
<1>3. CASE Drawn = {}
  <2> DEFINE new == [rng |-> rng, board |-> st.board, seen |-> st.seen, kids |-> kids]
  <2>1. draws' = draws \union {new}
    BY <1>3 DEF NextPopulation
  <2>2. new \in Draws /\ new.rng = rng /\ new.board = st.board /\ new.seen = st.seen
        /\ new.kids = kids
    BY <1>1 DEF Draws
  <2> HIDE DEF new
  <2>3. \A d \in draws : d.rng # rng
    <3> SUFFICES ASSUME NEW d \in draws, d.rng = rng  PROVE FALSE
      OBVIOUS
    <3>1. ~(d.rng < rng)
      BY <1>1
    <3> QED
      BY <1>3, <3>1 DEF DrawnBefore, Drawn
  <2> QED
    BY <1>1, <2>1, <2>2, <2>3 DEF Unique
<1>4. CASE Drawn # {}
  <2>1. draws' = draws /\ kids \in {d.kids : d \in Drawn}
    BY <1>4 DEF NextPopulation
  <2> QED
    BY <1>1, <2>1 DEF Drawn
<1> QED
  BY <1>3, <1>4

\* An empty queue is filled by a population bred from leaderboard and generator.
LEMMA DrawStep ==
  ASSUME CrpsInvariant, Draw
  PROVE  CrpsInvariant'
<1>1. /\ crpsPc = "loop" /\ crpsPc \notin Idle /\ st.pending = <<>>
      /\ elapsed' = elapsed /\ checkpoint' = checkpoint /\ log' = log /\ result' = result
      /\ score' = score /\ first' = first
  BY DEF Draw, files, Idle
<1>2. /\ CrpsTypes /\ FilesSound /\ ProcessState /\ ProcessSaved /\ checkpoint # NoCheckpoint
      /\ checkpoint.state = st /\ checkpoint.rng = rng
      /\ st.phase = "search" /\ st.inflight = NoKey
  BY <1>1, Live
<1>3. PICK kids \in Populations(st.seen) :
        /\ NextPopulation(kids)
        /\ IF kids = <<>> \/ Leaders(st) = {}
           THEN Raise /\ UNCHANGED <<st, rng>>
           ELSE /\ st' = Bred(st, kids) /\ rng' = rng + 1
                /\ crpsPc' = "pick" /\ UNCHANGED after
  BY DEF Draw, Bred
<1>4. /\ Resumable(st, rng, log, draws) /\ OnCourse(st, rng, log, first, draws)
      /\ Unique(draws) /\ st \in States /\ rng \in Nat /\ st.elapsed <= elapsed
  BY <1>2 DEF ProcessState, CrpsTypes, FilesSound
<1>5. kids \in Seq(Keys)
  <2>1. MoreDraws(draws, draws, st, rng)
    BY <1>2 DEF CrpsTypes, Draws, MoreDraws
  <2> QED
    BY <1>1, <1>2, <1>4, <2>1, BredIs
<1>6. /\ draws \subseteq draws' /\ draws' \in SUBSET Draws /\ Unique(draws')
      /\ \A d \in draws' :
           d \in draws \/ (d.rng = rng /\ d.board = st.board /\ d.seen = st.seen)
      /\ \E d \in draws' : d.rng = rng /\ d.kids = kids
  BY <1>2, <1>3, <1>4, <1>5, NextPopulationIs DEF Resumable
<1>7. /\ Bred(st, kids) \in States /\ Resumable(Bred(st, kids), rng + 1, log, draws')
      /\ Resumable(st, rng, log, draws')
      /\ Queued(st) = <<>> /\ Queued(Bred(st, kids)) = kids
      /\ Bred(st, kids).inflight = NoKey
      /\ Bred(st, kids).phase = "search" /\ Bred(st, kids).elapsed = st.elapsed
  <2>1. MoreDraws(draws', draws, st, rng)
    BY <1>6 DEF Draws, MoreDraws
  <2> QED
    BY <1>1, <1>2, <1>4, <2>1, BredIs
<1>8. OnCourse(st, rng, log, first, draws')
  BY <1>4, <1>6, CourseKept
<1>9. CheckpointSound'
  BY <1>1, <1>2, <1>4, <1>7, <1>8 DEF FilesSound, CheckpointSound
<1>10. LogSound'
  BY <1>1, <1>2 DEF FilesSound, LogSound, HoldoutUntouched
<1>11. InOrder(log, first, draws')
  <2>1. InOrder(log, first, draws)
    BY <1>2 DEF FilesSound
  <2>2. \A k, l : Follows(k, l, first, draws) => Follows(k, l, first, draws')
    BY <1>6, FollowsKept
  <2> QED
    BY <2>1, <2>2 DEF InOrder
<1>12. CASE kids = <<>> \/ Leaders(st) = {}
  <2>1. crpsPc' \in Idle /\ after' = after /\ st' = st /\ rng' = rng
    BY <1>3, <1>12 DEF Raise, Idle
  <2>2. CrpsTypes'
    BY <1>1, <1>2, <1>6, <2>1 DEF CrpsTypes
  <2> QED
    BY <1>1, <1>6, <1>9, <1>10, <1>11, <2>1, <2>2 DEF CrpsInvariant
<1>13. CASE kids # <<>> /\ Leaders(st) # {}
  <2>1. st' = Bred(st, kids) /\ rng' = rng + 1 /\ crpsPc' = "pick" /\ after' = after
    BY <1>3, <1>13
  <2>2. CrpsTypes'
    BY <1>1, <1>2, <1>4, <1>6, <1>7, <2>1 DEF CrpsTypes, Steps
  <2>3. OnCourse(st', rng', log', first', draws')
    <3>1. PICK d \in draws' : d.rng = rng /\ d.kids = kids
      BY <1>6
    <3> QED
      BY <1>1, <1>2, <1>4, <1>6, <1>7, <1>8, <1>13, <2>1, <3>1, CourseBred
  <2>4. Where' = "pick"
    BY <2>1 DEF Where
  <2>5. ProcessState'
    BY <1>1, <1>4, <1>7, <2>1, <2>3, <2>4 DEF ProcessState
  <2>6. ProcessSaved'
    BY <1>1, <1>2, <2>1 DEF ProcessSaved
  <2> QED
    BY <1>1, <1>6, <1>9, <1>10, <1>11, <2>2, <2>5, <2>6 DEF CrpsInvariant
<1> QED
  BY <1>12, <1>13

\* What is appended to the log leaves what is in it alone.
LEMMA Appended ==
  ASSUME NEW lg \in Seq(Entries), NEW e \in Entries
  PROVE  /\ Append(lg, e) \in Seq(Entries) /\ Len(lg) \in Nat
         /\ DOMAIN lg = 1..Len(lg) /\ DOMAIN Append(lg, e) = 1..(Len(lg) + 1)
         /\ Append(lg, e)[Len(lg) + 1] = e
         /\ \A i \in 1..Len(lg) : Append(lg, e)[i] = lg[i]
  OBVIOUS

\* An evaluation returns what it returned before.
LEMMA EvaluatedIs ==
  ASSUME CrpsTypes, NEW k \in Keys, NEW kind \in Kinds, NEW o \in Outcomes, Evaluated(k, kind, o)
  PROVE  /\ score' \in [Keys \X Kinds -> Outcomes \union {"unknown"}]
         /\ score'[<<k, kind>>] = o
         /\ \A l \in Keys, other \in Kinds :
              score[<<l, other>>] # "unknown" => score'[<<l, other>>] = score[<<l, other>>]
  BY DEF CrpsTypes, Evaluated

\* A candidate is evaluated, logged, counted and ranked, or the job fails.
LEMMA EvaluateStep ==
  ASSUME CrpsInvariant, Evaluate
  PROVE  CrpsInvariant'
<1>1. /\ crpsPc = "evaluate" /\ crpsPc \notin Idle
      /\ rng' = rng /\ elapsed' = elapsed /\ checkpoint' = checkpoint /\ result' = result
      /\ first' = first /\ draws' = draws
  BY DEF Evaluate, Idle
<1>2. /\ CrpsTypes /\ FilesSound /\ ProcessState /\ ProcessSaved /\ checkpoint # NoCheckpoint
      /\ checkpoint.state = st /\ checkpoint.rng = rng
      /\ st.phase = "search" /\ st.inflight # NoKey
  BY <1>1, Live
<1>3. PICK o \in Outcomes :
        LET e == Entry(st.inflight, "selection", o)
        IN  /\ Evaluated(e.key, "selection", o) /\ log' = Append(log, e)
            /\ IF st.seen = {} /\ ~(e.key = Base /\ Feasible(e))
               THEN Raise /\ UNCHANGED st
               ELSE st' = Recorded(st, e) /\ SaveThen("loop")
  BY DEF Evaluate
<1> DEFINE e == Entry(st.inflight, "selection", o)
           k == st.inflight
<1>4. /\ k \in Keys /\ st \in States /\ rng \in Nat /\ elapsed \in Nat /\ log \in Seq(Entries)
      /\ first \in Seq(Keys) /\ draws \in SUBSET Draws
      /\ Resumable(st, rng, log, draws) /\ OnCourse(st, rng, log, first, draws)
  BY <1>2, StateFields DEF CrpsTypes, ProcessState
<1>5. /\ e \in Entries /\ e.key = k /\ e.phase = "selection" /\ e.outcome = o
      /\ Feasible(e) <=> o = "ok"
  BY <1>4, EntryIs DEF LogPhases
<1> HIDE DEF e, k
<1>6. Evaluated(k, "selection", o) /\ log' = Append(log, e)
  BY <1>3, <1>5 DEF e
<1>7. /\ score' \in [Keys \X Kinds -> Outcomes \union {"unknown"}]
      /\ score'[<<k, "selection">>] = o
      /\ \A l \in Keys, other \in Kinds :
           score[<<l, other>>] # "unknown" => score'[<<l, other>>] = score[<<l, other>>]
  BY <1>2, <1>4, <1>6, EvaluatedIs DEF Kinds
<1>8. /\ log' \in Seq(Entries) /\ Len(log) \in Nat
      /\ DOMAIN log = 1..Len(log) /\ DOMAIN log' = 1..(Len(log) + 1)
      /\ log'[Len(log) + 1] = e /\ \A i \in 1..Len(log) : log'[i] = log[i]
  BY <1>4, <1>5, <1>6, Appended
<1>9. \A i \in 1..Len(log) : log[i] \in Entries /\ log[i].phase = "selection"
  BY <1>2, <1>4, <1>8 DEF FilesSound, LogSound
<1>10. \A i \in 1..Len(log) :
         score[<<log[i].key, "selection">>] = log[i].outcome /\ log[i].outcome # "unknown"
         /\ log[i].key \in Keys
  BY <1>2, <1>8, <1>9, EntryIs DEF FilesSound, LogSound, Outcomes
<1>11. \A i \in 1..Len(log) : log[i].key = k => log[i].outcome = o
  BY <1>4, <1>7, <1>10 DEF Kinds
<1>12. LogSound'
  <2>1. \A i \in 1..(Len(log) + 1) : /\ score'[<<log'[i].key, "selection">>] = log'[i].outcome
                                     /\ log'[i].phase = "selection"
    <3> SUFFICES ASSUME NEW i \in 1..(Len(log) + 1)
                 PROVE  /\ score'[<<log'[i].key, "selection">>] = log'[i].outcome
                        /\ log'[i].phase = "selection"
      OBVIOUS
    <3>1. CASE i = Len(log) + 1
      BY <1>5, <1>7, <1>8, <3>1
    <3>2. CASE i \in 1..Len(log)
      <4>1. log'[i] = log[i]
        BY <1>8, <3>2
      <4> QED
        BY <1>7, <1>9, <1>10, <3>2, <4>1 DEF Kinds
    <3> QED
      BY <1>8, <3>1, <3>2
  <2> QED
    BY <1>8, <2>1 DEF LogSound, HoldoutUntouched
<1>13. Queued(st) # <<>> /\ Head(Queued(st)) = k
  BY <1>2, <1>4, StateFields, QueueIs DEF k
<1>14. Resumable(st, rng, log', draws)
  BY <1>2, <1>4, <1>5, <1>6, LoggedIs DEF k
<1>15. /\ OnCourse(st, rng, log', first, draws)
       /\ Continues(k, log, first, draws)
  <2> DEFINE c == [st EXCEPT !.phase = "holdout"]
  <2>1. c.phase # "search"
    BY <1>4 DEF States
  <2> HIDE DEF c
  <2> QED
    BY <1>2, <1>4, <1>5, <1>6, <1>13, <2>1, CourseEvaluated
<1>16. InOrder(log', first, draws)
  <2> SUFFICES ASSUME NEW i \in 1..(Len(log) + 1)
               PROVE  IF i = 1 THEN log'[i].key = Head(first)
                      ELSE \/ log'[i].key = log'[i - 1].key
                           \/ Follows(log'[i - 1].key, log'[i].key, first, draws)
    BY <1>8 DEF InOrder
  <2>1. CASE i \in 1..Len(log)
    <3>1. log'[i] = log[i] /\ (i # 1 => log'[i - 1] = log[i - 1])
      <4>1. i # 1 => i - 1 \in 1..Len(log)
        BY <1>8, <2>1
      <4> QED
        BY <1>8, <2>1, <4>1
    <3>2. InOrder(log, first, draws) /\ log[i].phase = "selection" /\ i \in DOMAIN log
      BY <1>2, <1>8, <1>9, <2>1 DEF FilesSound
    <3> QED
      BY <3>1, <3>2 DEF InOrder
  <2>2. CASE i = Len(log) + 1 /\ Len(log) = 0
    <3>1. log = <<>>
      BY <1>4, <2>2
    <3> QED
      BY <1>5, <1>8, <1>15, <2>2, <3>1 DEF Continues
  <2>3. CASE i = Len(log) + 1 /\ Len(log) # 0
    <3>1. log # <<>> /\ i # 1 /\ i - 1 = Len(log) /\ log'[i - 1] = log[Len(log)]
      BY <1>4, <1>8, <2>3
    <3> QED
      BY <1>5, <1>8, <1>15, <2>3, <3>1 DEF Continues
  <2> QED
    BY <1>8, <2>1, <2>2, <2>3
<1>17. CheckpointSound'
  <2>1. result # NoEntry => checkpoint.state.phase # "search" /\ result = checkpoint.state.winner
    BY <1>2 DEF FilesSound, CheckpointSound
  <2> QED
    BY <1>1, <1>2, <1>4, <1>14, <1>15, <2>1 DEF CheckpointSound
<1>18. Unique(draws)' /\ InOrder(log, first, draws)'
  BY <1>1, <1>2, <1>16 DEF FilesSound
<1>19. CASE st.seen = {} /\ ~(e.key = Base /\ Feasible(e))
  <2>1. crpsPc' \in Idle /\ after' = after /\ st' = st
    BY <1>3, <1>19 DEF Raise, Idle, e
  <2>2. CrpsTypes'
    BY <1>1, <1>2, <1>7, <1>8, <2>1 DEF CrpsTypes
  <2> QED
    BY <1>12, <1>17, <1>18, <2>1, <2>2 DEF CrpsInvariant
<1>20. CASE ~(st.seen = {} /\ ~(e.key = Base /\ Feasible(e)))
  <2>1. st' = Recorded(st, e) /\ SaveThen("loop")
    BY <1>3, <1>20 DEF e
  <2>2. /\ st' \in States /\ st'.inflight = NoKey /\ st'.phase = "search"
        /\ st'.elapsed = elapsed
    BY <1>2, <1>4, <1>5, <2>1, RecordedFields
  <2>3. Resumable(st', rng, log', draws) /\ Queued(st') = Tail(Queued(st))
    <3>1. st.seen = {} => st.inflight = Base /\ o = "ok"
      BY <1>5, <1>20 DEF k
    <3>2. Returned(st.inflight, o, log)
      BY <1>8, <1>11 DEF k, Returned
    <3>3. LET f == Entry(st.inflight, "selection", o)
          IN  /\ Resumable(Recorded(st, f), rng, Append(log, f), draws)
              /\ Queued(Recorded(st, f)) = Tail(Queued(st))
      BY <1>2, <1>4, <3>1, <3>2, RecordedIs
    <3> QED
      BY <1>6, <2>1, <3>3 DEF e, k
  <2>4. OnCourse(st', rng, log', first, draws)
    BY <1>2, <1>4, <1>5, <1>6, <1>13, <2>3, CourseEvaluated
  <2>5. CrpsTypes'
    BY <1>1, <1>2, <1>7, <1>8, <2>1, <2>2, SaveTypes DEF CrpsTypes, Afters
  <2>6. ProcessSound'
    <3>1. /\ Resumable(st', rng', log', draws') /\ OnCourse(st', rng', log', first', draws')
          /\ st'.elapsed <= elapsed' /\ checkpoint'.state.phase = "search"
      BY <1>1, <1>2, <1>4, <2>2, <2>3, <2>4
    <3> QED
      BY <2>1, <2>2, <3>1, SavingSound
  <2> QED
    BY <1>12, <1>17, <1>18, <2>5, <2>6 DEF CrpsInvariant, ProcessSound
<1> QED
  BY <1>19, <1>20

\* What a holdout evaluation in the log does to what is on disk.
LEMMA HoldoutStep ==
  ASSUME CrpsTypes, FilesSound, checkpoint # NoCheckpoint, checkpoint.state.phase # "search",
         NEW e \in Entries, e.phase # "selection",
         e.key \in {checkpoint.state.winner.key, Base},
         log' = Append(log, e), checkpoint' = checkpoint, result' = result,
         first' = first, draws' = draws,
         \A k \in Keys : score[<<k, "selection">>] # "unknown" =>
           score'[<<k, "selection">>] = score[<<k, "selection">>]
  PROVE  FilesSound' /\ log' \in Seq(Entries)
<1>1. log \in Seq(Entries)
  BY DEF CrpsTypes
<1>2. /\ log' \in Seq(Entries) /\ Len(log) \in Nat
      /\ DOMAIN log = 1..Len(log) /\ DOMAIN log' = 1..(Len(log) + 1)
      /\ log'[Len(log) + 1] = e /\ \A i \in 1..Len(log) : log'[i] = log[i]
  BY <1>1, Appended
<1>3. /\ \A i \in 1..Len(log) : log[i].phase = "selection" =>
           score[<<log[i].key, "selection">>] = log[i].outcome
      /\ HoldoutUntouched
  BY <1>2 DEF FilesSound, LogSound
<1>4. \A i \in 1..Len(log) : log[i].key \in Keys /\ log[i].outcome # "unknown"
  <2>1. \A i \in 1..Len(log) : log[i] \in Entries
    BY <1>1, <1>2
  <2> QED
    BY <2>1, EntryIs DEF Outcomes
<1>5. LogSound'
  <2>1. \A i \in 1..(Len(log) + 1) : log'[i].phase = "selection" =>
          i \in 1..Len(log) /\ log'[i] = log[i]
    BY <1>2
  <2>2. \A i \in DOMAIN log' : log'[i].phase = "selection" =>
          score'[<<log'[i].key, "selection">>] = log'[i].outcome
    BY <1>2, <1>3, <1>4, <2>1
  <2>3. ASSUME NEW i \in DOMAIN log', log'[i].phase # "selection"
        PROVE  /\ \A j \in DOMAIN log' : j > i => log'[j].phase # "selection"
               /\ log'[i].key \in {checkpoint.state.winner.key, Base}
    <3>1. CASE i = Len(log) + 1
      BY <1>2, <3>1
    <3>2. CASE i \in 1..Len(log)
      <4>1. log'[i] = log[i]
        BY <1>2, <3>2
      <4>2. /\ \A j \in 1..Len(log) : j > i => log[j].phase # "selection"
            /\ log[i].key \in {checkpoint.state.winner.key, Base}
        BY <1>2, <1>3, <2>3, <3>2, <4>1 DEF HoldoutUntouched
      <4> QED
        BY <1>2, <2>1, <3>2, <4>1, <4>2
    <3> QED
      BY <1>2, <3>1, <3>2
  <2> QED
    BY <2>2, <2>3 DEF LogSound, HoldoutUntouched
<1>6. CheckpointSound'
  <2>1. /\ checkpoint.rng \in Nat
        /\ Resumable(checkpoint.state, checkpoint.rng, log, draws)
        /\ result # NoEntry =>
             checkpoint.state.phase # "search" /\ result = checkpoint.state.winner
    BY DEF FilesSound, CheckpointSound
  <2>2. Resumable(checkpoint.state, checkpoint.rng, log', draws)
    BY <1>1, <2>1, HoldoutLogged
  <2>3. OnCourse(checkpoint.state, checkpoint.rng, log', first, draws)
    BY DEF OnCourse
  <2> QED
    BY <2>1, <2>2, <2>3 DEF CheckpointSound
<1>7. InOrder(log', first, draws)
  <2> SUFFICES ASSUME NEW i \in DOMAIN log', log'[i].phase = "selection"
               PROVE  IF i = 1 THEN log'[i].key = Head(first)
                      ELSE \/ log'[i].key = log'[i - 1].key
                           \/ Follows(log'[i - 1].key, log'[i].key, first, draws)
    BY DEF InOrder
  <2>1. i \in 1..Len(log) /\ log'[i] = log[i] /\ (i # 1 => log'[i - 1] = log[i - 1])
    <3>1. i \in 1..Len(log)
      BY <1>2
    <3>2. i # 1 => i - 1 \in 1..Len(log)
      BY <1>2, <3>1
    <3> QED
      BY <1>2, <3>1, <3>2
  <2>2. InOrder(log, first, draws)
    BY DEF FilesSound
  <2> QED
    BY <1>2, <2>1, <2>2 DEF InOrder
<1> QED
  BY <1>2, <1>5, <1>6, <1>7 DEF FilesSound

\* What a process in the holdout holds is what its checkpoint holds.
LEMMA InHoldout ==
  ASSUME CrpsInvariant, crpsPc \in {"holdout", "complete"}
  PROVE  /\ CrpsTypes /\ FilesSound /\ ProcessState
         /\ checkpoint # NoCheckpoint /\ checkpoint.state = st
         /\ st.phase # "search" /\ st.inflight = NoKey
         /\ st \in States /\ rng \in Nat /\ elapsed \in Nat /\ log \in Seq(Entries)
         /\ Resumable(st, rng, log, draws) /\ st.elapsed <= elapsed
         /\ st.winner \in Entries
<1>1. crpsPc \notin Idle
  BY DEF Idle
<1>2. /\ CrpsTypes /\ FilesSound /\ ProcessState
      /\ checkpoint # NoCheckpoint /\ checkpoint.state = st
      /\ st.phase # "search" /\ st.inflight = NoKey
  BY <1>1, Live
<1>3. /\ st \in States /\ rng \in Nat /\ elapsed \in Nat /\ log \in Seq(Entries)
      /\ Resumable(st, rng, log, draws) /\ st.elapsed <= elapsed
  BY <1>2 DEF CrpsTypes, ProcessState
<1>4. st.winner \in Entries
  BY <1>2, <1>3, StateFields, EntryIs DEF Resumable, ValidResume, ValidHoldout, SomeEntries
<1> QED
  BY <1>2, <1>3, <1>4

\* A process that saves what the holdout returned is sound.
LEMMA HoldoutSaved ==
  ASSUME SaveThen("holdout"), FilesSound', st' \in States,
         Resumable(st', rng', log', draws'), st'.phase # "search", st'.inflight = NoKey,
         st'.elapsed <= elapsed', checkpoint'.state.winner = st'.winner
  PROVE  ProcessSound'
<1>1. OnCourse(st', rng', log', first', draws')
  BY DEF OnCourse
<1> QED
  BY <1>1, SavingSound

\* The frozen winner is evaluated on the holdout, once.
LEMMA WinnerHoldoutStep ==
  ASSUME CrpsInvariant, WinnerHoldout
  PROVE  CrpsInvariant'
<1>1. /\ crpsPc = "holdout" /\ st.winnerHoldout = NoEntry /\ SaveThen("holdout")
      /\ rng' = rng /\ elapsed' = elapsed /\ checkpoint' = checkpoint /\ result' = result
      /\ first' = first /\ draws' = draws
  BY DEF WinnerHoldout
<1>2. /\ CrpsTypes /\ FilesSound
      /\ checkpoint # NoCheckpoint /\ checkpoint.state = st
      /\ st.phase # "search" /\ st.inflight = NoKey
      /\ st \in States /\ rng \in Nat /\ elapsed \in Nat /\ log \in Seq(Entries)
      /\ Resumable(st, rng, log, draws) /\ st.elapsed <= elapsed /\ st.winner \in Entries
  BY <1>1, InHoldout
<1>3. PICK o \in Outcomes :
        LET e == Entry(st.winner.key, "winner-holdout", o)
        IN  /\ Evaluated(e.key, "holdout", o) /\ log' = Append(log, e)
            /\ st' = WinnerHeld(st, e, elapsed)
  BY DEF WinnerHoldout, WinnerHeld
<1> DEFINE e == Entry(st.winner.key, "winner-holdout", o)
<1>4. /\ e \in Entries /\ e.key = st.winner.key /\ e.phase = "winner-holdout"
      /\ e.key \in Keys
  BY <1>2, EntryIs DEF LogPhases
<1>5. /\ st' \in States /\ Resumable(st', rng, log, draws) /\ st'.inflight = NoKey
      /\ st'.phase # "search" /\ st'.elapsed = elapsed /\ st'.winner = st.winner
  <2>1. /\ WinnerHeld(st, e, elapsed) \in States
        /\ Resumable(WinnerHeld(st, e, elapsed), rng, log, draws)
        /\ WinnerHeld(st, e, elapsed).inflight = st.inflight
        /\ WinnerHeld(st, e, elapsed).phase = st.phase
        /\ WinnerHeld(st, e, elapsed).elapsed = elapsed
        /\ WinnerHeld(st, e, elapsed).winner = st.winner
    BY <1>1, <1>2, WinnerHeldIs
  <2> QED
    BY <1>2, <1>3, <2>1
<1> HIDE DEF e
<1>6. log' = Append(log, e) /\ Evaluated(e.key, "holdout", o)
  BY <1>3 DEF e
<1>7. /\ score' \in [Keys \X Kinds -> Outcomes \union {"unknown"}]
      /\ \A k \in Keys : score[<<k, "selection">>] # "unknown" =>
           score'[<<k, "selection">>] = score[<<k, "selection">>]
  BY <1>2, <1>4, <1>6, EvaluatedIs DEF Kinds
<1>8. FilesSound' /\ log' \in Seq(Entries)
  BY <1>1, <1>2, <1>4, <1>6, <1>7, HoldoutStep
<1>9. CrpsTypes'
  BY <1>1, <1>2, <1>5, <1>7, <1>8, SaveTypes DEF CrpsTypes, Afters
<1>10. ProcessSound'
  <2>1. Resumable(st', rng', log', draws')
    BY <1>1, <1>2, <1>4, <1>5, <1>6, HoldoutLogged
  <2>2. st'.elapsed <= elapsed' /\ checkpoint'.state.winner = st'.winner
    BY <1>1, <1>2, <1>5
  <2> QED
    BY <1>1, <1>5, <1>8, <2>1, <2>2, HoldoutSaved
<1> QED
  BY <1>8, <1>9, <1>10 DEF CrpsInvariant, FilesSound, ProcessSound

\* The baseline is evaluated on the holdout after a feasible winner.
LEMMA BaselineHoldoutStep ==
  ASSUME CrpsInvariant, BaselineHoldout
  PROVE  CrpsInvariant'
<1>1. /\ crpsPc = "holdout" /\ SaveThen("holdout")
      /\ Feasible(st.winnerHoldout) /\ st.baselineHoldout = NoEntry
      /\ rng' = rng /\ elapsed' = elapsed /\ checkpoint' = checkpoint /\ result' = result
      /\ first' = first /\ draws' = draws
  BY DEF BaselineHoldout
<1>2. /\ CrpsTypes /\ FilesSound
      /\ checkpoint # NoCheckpoint /\ checkpoint.state = st
      /\ st.phase # "search" /\ st.inflight = NoKey
      /\ st \in States /\ rng \in Nat /\ elapsed \in Nat /\ log \in Seq(Entries)
      /\ Resumable(st, rng, log, draws) /\ st.elapsed <= elapsed /\ st.winner \in Entries
  BY <1>1, InHoldout
<1>3. PICK o \in Outcomes :
        LET e == Entry(Base, "url-baseline-holdout", o)
        IN  /\ IF st.winner.key = Base
               THEN o = st.winnerHoldout.outcome /\ UNCHANGED <<score, log>>
               ELSE Evaluated(Base, "holdout", o) /\ log' = Append(log, e)
            /\ st' = BaselineHeld(st, e, elapsed)
  BY DEF BaselineHoldout, BaselineHeld
<1> DEFINE e == Entry(Base, "url-baseline-holdout", o)
<1>4. e \in Entries /\ e.key = Base /\ e.phase = "url-baseline-holdout" /\ Base \in Keys
  BY EntryIs, CrpsAssumption DEF LogPhases
<1>5. /\ st' \in States /\ Resumable(st', rng, log, draws) /\ st'.inflight = NoKey
      /\ st'.phase # "search" /\ st'.elapsed = elapsed /\ st'.winner = st.winner
  <2>1. /\ BaselineHeld(st, e, elapsed) \in States
        /\ Resumable(BaselineHeld(st, e, elapsed), rng, log, draws)
        /\ BaselineHeld(st, e, elapsed).inflight = st.inflight
        /\ BaselineHeld(st, e, elapsed).phase = st.phase
        /\ BaselineHeld(st, e, elapsed).elapsed = elapsed
        /\ BaselineHeld(st, e, elapsed).winner = st.winner
    BY <1>1, <1>2, BaselineHeldIs
  <2> QED
    BY <1>2, <1>3, <2>1
<1> HIDE DEF e
<1>6. /\ FilesSound' /\ log' \in Seq(Entries) /\ Resumable(st', rng', log', draws')
      /\ score' \in [Keys \X Kinds -> Outcomes \union {"unknown"}]
  <2>1. CASE st.winner.key = Base
    <3>1. score' = score /\ log' = log
      BY <1>3, <2>1
    <3>2. UNCHANGED <<files, oracle>>
      BY <1>1, <3>1 DEF files, oracle
    <3> QED
      BY <1>1, <1>2, <1>5, <3>1, <3>2, FilesKept DEF CrpsTypes
  <2>2. CASE st.winner.key # Base
    <3>1. log' = Append(log, e) /\ Evaluated(Base, "holdout", o)
      BY <1>3, <2>2 DEF e
    <3>2. /\ score' \in [Keys \X Kinds -> Outcomes \union {"unknown"}]
          /\ \A k \in Keys : score[<<k, "selection">>] # "unknown" =>
               score'[<<k, "selection">>] = score[<<k, "selection">>]
      BY <1>2, <1>4, <3>1, EvaluatedIs DEF Kinds
    <3>3. FilesSound' /\ log' \in Seq(Entries)
      BY <1>1, <1>2, <1>4, <3>1, <3>2, HoldoutStep
    <3>4. Resumable(st', rng', log', draws')
      BY <1>1, <1>2, <1>4, <1>5, <3>1, HoldoutLogged
    <3> QED
      BY <3>2, <3>3, <3>4
  <2> QED
    BY <2>1, <2>2
<1>7. CrpsTypes'
  BY <1>1, <1>2, <1>5, <1>6, SaveTypes DEF CrpsTypes, Afters
<1>8. ProcessSound'
  <2>1. st'.elapsed <= elapsed' /\ checkpoint'.state.winner = st'.winner
    BY <1>1, <1>2, <1>5
  <2> QED
    BY <1>1, <1>5, <1>6, <2>1, HoldoutSaved
<1> QED
  BY <1>6, <1>7, <1>8 DEF CrpsInvariant, FilesSound, ProcessSound

\* The result names the frozen winner.
LEMMA PutResultStep ==
  ASSUME CrpsInvariant, PutResult
  PROVE  CrpsInvariant'
<1>1. /\ crpsPc = "holdout" /\ Feasible(st.winnerHoldout) /\ Feasible(st.baselineHoldout)
      /\ result' = st.winner /\ crpsPc' = "complete" /\ after' = after
      /\ st' = st /\ rng' = rng /\ elapsed' = elapsed
      /\ checkpoint' = checkpoint /\ log' = log
      /\ score' = score /\ first' = first /\ draws' = draws
  BY DEF PutResult, memory, oracle
<1>2. /\ CrpsTypes /\ FilesSound /\ ProcessState
      /\ checkpoint # NoCheckpoint /\ checkpoint.state = st
      /\ st.phase # "search" /\ st.winner \in Entries
  BY <1>1, InHoldout
<1>3. CrpsTypes'
  BY <1>1, <1>2 DEF CrpsTypes, Steps, SomeEntries
<1>4. CheckpointSound'
  BY <1>1, <1>2 DEF FilesSound, CheckpointSound
<1>5. LogSound' /\ Unique(draws)' /\ InOrder(log, first, draws)'
  BY <1>1, <1>2 DEF FilesSound, LogSound, HoldoutUntouched
<1>6. ProcessState'
  BY <1>1, <1>2 DEF ProcessState, Where
<1>7. ProcessSaved'
  <2>1. ProcessSaved
    BY <1>1, Live DEF Idle
  <2> QED
    BY <1>1, <2>1 DEF ProcessSaved
<1> QED
  BY <1>3, <1>4, <1>5, <1>6, <1>7 DEF CrpsInvariant

\* The completed state is saved last.
LEMMA CompleteStep ==
  ASSUME CrpsInvariant, Complete
  PROVE  CrpsInvariant'
<1>1. /\ crpsPc = "complete" /\ st' = Completed(st, elapsed) /\ SaveThen("done")
      /\ rng' = rng /\ elapsed' = elapsed /\ UNCHANGED <<files, oracle>>
      /\ checkpoint' = checkpoint /\ log' = log /\ result' = result
      /\ score' = score /\ first' = first /\ draws' = draws
  BY DEF Complete, Completed, files, oracle
<1>2. /\ CrpsTypes /\ FilesSound /\ ProcessState
      /\ checkpoint.state = st /\ st.phase # "search" /\ st.inflight = NoKey
      /\ st \in States /\ rng \in Nat /\ elapsed \in Nat
      /\ Resumable(st, rng, log, draws) /\ st.elapsed <= elapsed
  BY <1>1, InHoldout
<1>3. Feasible(st.winnerHoldout) /\ Feasible(st.baselineHoldout)
  BY <1>1, <1>2 DEF ProcessState, Where
<1>4. /\ st' \in States /\ Resumable(st', rng, log, draws) /\ st'.inflight = NoKey
      /\ st'.phase # "search" /\ st'.elapsed = elapsed /\ st'.winner = st.winner
      /\ Feasible(st'.winnerHoldout) /\ Feasible(st'.baselineHoldout)
  <2>1. /\ Completed(st, elapsed) \in States /\ Resumable(Completed(st, elapsed), rng, log, draws)
        /\ Completed(st, elapsed).inflight = st.inflight
        /\ Completed(st, elapsed).phase = "completed"
        /\ Completed(st, elapsed).elapsed = elapsed
        /\ SameHoldout(st, Completed(st, elapsed))
    BY <1>2, <1>3, CompletedIs
  <2> QED
    BY <1>1, <1>2, <1>3, <2>1 DEF SameHoldout
<1>5. FilesSound'
  BY <1>1, <1>2, FilesKept
<1>6. CrpsTypes'
  BY <1>1, <1>2, <1>4, SaveTypes DEF CrpsTypes, Afters
<1>7. ProcessSound'
  <2>1. OnCourse(st', rng', log', first', draws')
    BY <1>4 DEF OnCourse
  <2>2. /\ Resumable(st', rng', log', draws') /\ st'.elapsed <= elapsed'
        /\ checkpoint'.state.winner = st'.winner
    BY <1>1, <1>2, <1>4
  <2> QED
    BY <1>1, <1>4, <2>1, <2>2, SavingSound
<1> QED
  BY <1>5, <1>6, <1>7 DEF CrpsInvariant, FilesSound, ProcessSound

-----------------------------------------------------------------------------
(* The theorems *)

\* The inductive invariant of the search: what is in memory and in the
\* checkpoint passes the validation of a resume and stands in the populations
\* where the log ends.
THEOREM SearchSound == CrpsSpec => []CrpsInvariant
<1>1. CrpsInit => CrpsInvariant
  BY CrpsInitial
<1>2. CrpsInvariant /\ [CrpsNext]_crpsVars => CrpsInvariant'
  <2> SUFFICES ASSUME CrpsInvariant, [CrpsNext]_crpsVars  PROVE CrpsInvariant'
    OBVIOUS
  <2>1. CASE LaunchNew
    BY <2>1, LaunchNewStep
  <2>2. CASE Resume
    BY <2>2, ResumeStep
  <2>3. CASE WriteCheckpoint
    BY <2>3, WriteCheckpointStep
  <2>4. CASE Tick
    BY <2>4, TickStep
  <2>5. CASE Freeze
    BY <2>5, FreezeStep
  <2>6. CASE Draw
    BY <2>6, DrawStep
  <2>7. CASE Pick
    BY <2>7, PickStep
  <2>8. CASE Evaluate
    BY <2>8, EvaluateStep
  <2>9. CASE WinnerHoldout
    BY <2>9, WinnerHoldoutStep
  <2>10. CASE BaselineHoldout
    BY <2>10, BaselineHoldoutStep
  <2>11. CASE NoHoldoutEvidence
    BY <2>11, StopStep DEF NoHoldoutEvidence, Raise, Idle
  <2>12. CASE PutResult
    BY <2>12, PutResultStep
  <2>13. CASE Complete
    BY <2>13, CompleteStep
  <2>14. CASE Kill
    BY <2>14, StopStep DEF Kill, Idle
  <2>15. CASE EvaluationRaises
    BY <2>15, StopStep DEF EvaluationRaises, Raise, Idle
  <2>16. CASE UNCHANGED crpsVars
    <3>1. /\ crpsPc' = crpsPc /\ after' = after /\ st' = st /\ rng' = rng /\ elapsed' = elapsed
          /\ UNCHANGED <<files, oracle>>
          /\ checkpoint' = checkpoint /\ log' = log /\ result' = result
          /\ score' = score /\ first' = first /\ draws' = draws
      BY <2>16 DEF crpsVars, memory, files, oracle
    <3>2. CrpsTypes /\ FilesSound /\ ProcessSound
      BY CrpsInvariantIs
    <3>3. FilesSound'
      BY <3>1, <3>2, FilesKept
    <3>4. CrpsTypes'
      BY <3>1, <3>2 DEF CrpsTypes
    <3>5. ProcessSound'
      BY <3>1, <3>2 DEF ProcessSound, ProcessState, ProcessSaved, Where
    <3> QED
      BY <3>3, <3>4, <3>5 DEF CrpsInvariant, FilesSound, ProcessSound
  <2> QED
    BY <2>1, <2>2, <2>3, <2>4, <2>5, <2>6, <2>7, <2>8, <2>9, <2>10, <2>11, <2>12, <2>13,
       <2>14, <2>15, <2>16 DEF CrpsNext
<1> QED
  BY <1>1, <1>2, PTL DEF CrpsSpec

\* Whenever a job is interrupted, its checkpoint can be resumed, every population
\* is drawn once, and the log evaluates the populations in order.
THEOREM OneCourseAlways == CrpsSpec => []OneCourse
<1>1. CrpsInvariant => OneCourse
  <2> SUFFICES ASSUME CrpsInvariant  PROVE OneCourse
    OBVIOUS
  <2>1. ResumeAccepts
    BY DEF CrpsInvariant, CheckpointSound, Resumable, ResumeAccepts
  <2>2. DrawnOnce
    BY DEF CrpsInvariant, Unique, DrawnOnce
  <2>3. \A n : Population(n) = Pop(n, first, draws)
    BY DEF Population, Pop, DrawAt
  <2>4. Generations = Gens(draws)
    BY DEF Generations, Gens
  <2>5. \A k, l : Follows(k, l, first, draws) => NextTo(k, l)
    BY <2>3, <2>4 DEF Follows, NextTo
  <2>6. EvaluatedInOrder
    BY <2>5 DEF CrpsInvariant, InOrder, EvaluatedInOrder
  <2> QED
    BY <2>1, <2>2, <2>6 DEF OneCourse
<1> QED
  BY <1>1, SearchSound, PTL

\* No evaluation for selection follows one of the holdout, the winner is the best
\* of all that was logged but for one candidate that was never counted, and it is
\* what the result reports.
THEOREM HonestSelectionAlways == CrpsSpec => []HonestSelection
<1>1. CrpsInvariant => HonestSelection
  <2> SUFFICES ASSUME CrpsInvariant  PROVE HonestSelection
    OBVIOUS
  <2> DEFINE s == checkpoint.state
  <2>1. HoldoutUntouched
    BY DEF CrpsInvariant, LogSound
  <2>2. result # NoEntry => result = checkpoint.state.winner
    BY DEF CrpsInvariant, CheckpointSound
  <2>3. ASSUME s.phase # "search"
        PROVE  \E lost \in Keys :
                 \A i \in DOMAIN log : log[i].phase = "selection" =>
                   LET e == log[i]
                   IN  \/ e = s.winner \/ Above(s.winner, e)
                       \/ e.key = lost /\ lost \notin s.seen
    <3>1. checkpoint # NoCheckpoint
      BY <2>3 DEF NoCheckpoint, NewSearch
    <3>2. ValidResume(s) /\ Ranked(s, log) /\ Uncounted(s, log)
      BY <3>1 DEF CrpsInvariant, CheckpointSound, Resumable
    <3>3. s.winner = s.board[1]
      BY <2>3, <3>2 DEF ValidResume, ValidHoldout
    <3> HIDE DEF s
    <3>4. \A i \in DOMAIN log : log[i].phase = "selection" /\ log[i].key \in s.seen =>
            log[i] = s.winner \/ Above(s.winner, log[i])
      BY <3>2, <3>3 DEF Ranked
    <3>5. CASE \E i \in DOMAIN log : log[i].phase = "selection" /\ log[i].key \notin s.seen
      <4>1. PICK j \in DOMAIN log : log[j].phase = "selection" /\ log[j].key \notin s.seen
        BY <3>5
      <4>2. log[j].key \in Keys
        BY EntryIs DEF CrpsInvariant, CrpsTypes
      <4>3. \A i \in DOMAIN log : log[i].phase = "selection" /\ log[i].key \notin s.seen =>
              log[i].key = log[j].key
        BY <3>2, <4>1 DEF Uncounted
      <4> WITNESS log[j].key \in Keys
      <4> QED
        BY <3>4, <4>1, <4>3
    <3>6. CASE ~\E i \in DOMAIN log : log[i].phase = "selection" /\ log[i].key \notin s.seen
      BY <3>4, <3>6, CrpsAssumption
    <3> QED
      BY <3>5, <3>6
  <2> QED
    BY <2>1, <2>2, <2>3 DEF HonestSelection, WinnerIsBest
<1> QED
  BY <1>1, SearchSound, PTL
=============================================================================
