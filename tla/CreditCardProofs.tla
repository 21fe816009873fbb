-------------------------- MODULE CreditCardProofs --------------------------
(***************************************************************************)
(* The card ledger for any number of documents, rows, days, importers,     *)
(* imports and failures.  All rests on one fact about the matching rules:  *)
(* whatever the order of the documents, a row and the record that it       *)
(* matches agree in date, key and occurrence.  So no merge is refused by   *)
(* the ledger's own validation, a replay changes nothing, and the ledger   *)
(* is the least one that covers its documents.                             *)
(***************************************************************************)
EXTENDS CreditCardLedger, FunctionTheorems, FiniteSetTheorems, TLAPS

Origins == Files \union {Webpage}

Identity == Origins \X Days \X Keys \X (1..MaxOcc)

Transaction == [id : Identity, day : Days, key : Keys, occ : 1..MaxOcc, status : Status,
                ids : SUBSET Identity, sources : SUBSET Documents]

\* Same date, key and occurrence.
Same(x, y) == Slot(x) = Slot(y) /\ x.occ = y.occ

ShownTyped == DOMAIN shown \subseteq Documents /\ \A d \in DOMAIN shown : shown[d] \in Readable

BookTyped(book) ==
  /\ book.rows \in SUBSET Transaction /\ IsFiniteSet(book.rows)
  /\ book.captures \in Seq(DOMAIN shown)
  /\ book = [rows |-> book.rows, captures |-> book.captures]

\* The records of a slot are numbered from one, the posted ones first.
Numbered(book) ==
  /\ \A t, u \in book.rows : Same(t, u) => t = u
  /\ \A t \in book.rows : \A k \in 1..t.occ : \E u \in book.rows : Slot(u) = Slot(t) /\ u.occ = k
  /\ \A t, u \in book.rows :
       Slot(t) = Slot(u) /\ t.occ < u.occ /\ u.status = "posted" => t.status = "posted"

\* Evidence is about the record's own date, key and occurrence, and no retained
\* document that shows a row of a record is missing from its sources.
Evident(book) ==
  /\ \A t \in book.rows : \A x \in t.ids : x[2] = t.day /\ x[3] = t.key /\ x[4] = t.occ
  /\ \A t \in book.rows : \A d \in Sources(book) : \A r \in shown[d] :
       Id(d, r) \in t.ids => d \in t.sources

\* No retained document is ambiguous in itself.
Clear(book) == \A d \in Sources(book) : \A r, q \in shown[d] : ~CrossDateMatch(r, q)

\* AmbiguityRefused for a ledger in memory.
Refused(book) ==
  \A t, u \in book.rows :
    CrossDateMatch(t, u) =>
      \E d \in u.sources : \E r \in Attested(u, d) : r.status = "pending"

BookOK(book) ==
  BookTyped(book) /\ Valid(book) /\ Numbered(book) /\ Evident(book) /\ Clear(book) /\ Refused(book)

Held == {"merging", "write", "readback", "review", "damaged"}

LockHeld == \A i \in Importers : lock = i <=> pc[i] \in Held

\* A submitted bundle: CSVs come last.
Submitted(bundle) ==
  /\ bundle \in Seq(DOMAIN shown) /\ Len(bundle) \in 1..MaxBundle
  /\ \A n \in DOMAIN bundle : bundle[1] \in Csvs => bundle[n] \in Csvs

\* What an importer has in memory.
InMemory(i) ==
  /\ pc[i] = "submitted" => Submitted(mine[i].bundle)
  /\ pc[i] \in {"merging", "write", "readback"} => BookOK(mine[i].merged)
  /\ pc[i] = "merging" =>
       /\ mine[i].bundle \in Seq(DOMAIN shown) /\ mine[i].bundle # <<>>
       /\ Sources(mine[i].merged) \ Csvs = {} => mine[i].bundle[1] \notin Csvs
  /\ pc[i] = "readback" => ledger = mine[i].merged
  /\ pc[i] # "damaged"

Places == {"idle", "submitted", "merging", "write", "readback", "review", "damaged"}

CardTyped ==
  /\ DOMAIN shown \subseteq Documents /\ \A d \in DOMAIN shown : shown[d] \in Contents(d)
  /\ lock \in Importers \union {Nobody}
  /\ pc \in [Importers -> Places]
  /\ DOMAIN mine = Importers /\ mine = [i \in Importers |-> mine[i]]
  /\ \A i \in Importers : mine[i] = [bundle |-> mine[i].bundle, merged |-> mine[i].merged]
  /\ imports \in 0..MaxImports /\ faults \in 0..MaxFaults

CardInv ==
  /\ CardTyped
  /\ BookOK(ledger)
  /\ LockHeld
  /\ \A i \in Importers : InMemory(i)
-----------------------------------------------------------------------------
\* Rows with different occurrences are as many as their occurrences.
LEMMA AsManyOccurrences ==
  ASSUME NEW X, IsFiniteSet(X), \A x, y \in X : x.occ = y.occ => x = y
  PROVE  /\ IsFiniteSet({x.occ : x \in X})
         /\ Cardinality({x.occ : x \in X}) = Cardinality(X)
<1> DEFINE T == {x.occ : x \in X}
           f == [x \in X |-> x.occ]
<1>1. f \in Bijection(X, T)
  <2>1. f \in [X -> T] /\ \A x, y \in X : f[x] = f[y] => x = y
    OBVIOUS
  <2>2. \A z \in T : \E x \in X : f[x] = z
    OBVIOUS
  <2> HIDE DEF f, T
  <2>3. f \in Injection(X, T)
    BY <2>1, Fun_IsInj
  <2>4. f \in Surjection(X, T)
    BY <2>1, <2>2, Fun_IsSurj
  <2> QED
    BY <2>3, <2>4, Fun_IsBij
<1>2. ExistsBijection(X, T)
  BY <1>1 DEF ExistsBijection
<1> QED
  BY <1>2, FS_Bijection

\* Rows that are numbered from one to their number have different occurrences.
LEMMA NumberedOnce ==
  ASSUME NEW X, IsFiniteSet(X), {x.occ : x \in X} = 1..Cardinality(X)
  PROVE  \A x, y \in X : x.occ = y.occ => x = y
<1> DEFINE T == {x.occ : x \in X}
           f == [x \in X |-> x.occ]
<1>1. f \in Surjection(X, T)
  <2>1. f \in [X -> T] /\ \A z \in T : \E x \in X : f[x] = z
    OBVIOUS
  <2> QED
    BY <2>1, Fun_IsSurj
<1>2. Cardinality(X) \in Nat
  BY FS_CardinalityType
<1>3. Cardinality(T) = Cardinality(X)
  <2> DEFINE n == Cardinality(X)
  <2>1. n \in Nat /\ T = 1..n
    BY <1>2
  <2> HIDE DEF n
  <2>2. Cardinality(1..n) = n
    BY <2>1, FS_Interval
  <2>3. Cardinality(T) = n
    BY <2>1, <2>2
  <2> QED
    BY <2>3 DEF n
<1>4. f \in Injection(X, T)
  BY <1>1, <1>3, FS_SurjSameCardinalityImpliesInj
<1>5. \A x, y \in X : f[x] = f[y] => x = y
  BY <1>4, Fun_InjectionProperties
<1> QED
  BY <1>5

\* Sets of numbers that hold, with a number, the smaller ones are comparable:
\* together they are as many as the larger of the two.
LEMMA LargerOfTwo ==
  ASSUME NEW A \in SUBSET (Nat \ {0}), NEW B \in SUBSET (Nat \ {0}),
         IsFiniteSet(A), IsFiniteSet(B),
         \A a \in A : 1..a \subseteq A, \A b \in B : 1..b \subseteq B
  PROVE  /\ Cardinality(A) \in Nat /\ Cardinality(B) \in Nat
         /\ Cardinality(A \union B) =
              IF Cardinality(A) < Cardinality(B) THEN Cardinality(B) ELSE Cardinality(A)
<1>1. Cardinality(A) \in Nat /\ Cardinality(B) \in Nat
  BY FS_CardinalityType
<1>2. CASE A \subseteq B
  <2>1. A \union B = B /\ Cardinality(A) <= Cardinality(B)
    BY <1>2, FS_Subset
  <2>2. Cardinality(A) = Cardinality(B) \/ Cardinality(A) < Cardinality(B)
    BY <1>1, <2>1
  <2> QED
    BY <1>1, <2>1, <2>2
<1>3. CASE ~(A \subseteq B)
  <2>1. PICK a \in A : a \notin B
    BY <1>3
  <2>2. ASSUME NEW b \in B PROVE b \in A
    <3>1. ~(a <= b)
      BY <2>1, <2>2
    <3>2. b \in 1..a
      BY <2>1, <2>2, <3>1
    <3> QED
      BY <2>1, <3>2
  <2>3. A \union B = A /\ Cardinality(B) <= Cardinality(A)
    BY <2>2, FS_Subset
  <2> QED
    BY <1>1, <2>3
<1> QED
  BY <1>1, <1>2, <1>3

\* The rows of a readable document.
LEMMA DocumentRows ==
  ASSUME NEW rows \in Readable
  PROVE  /\ rows \subseteq Row /\ rows # {} /\ IsFiniteSet(rows)
         /\ \A r, q \in rows : Same(r, q) => r = q
         /\ \A r \in rows : \A k \in 1..r.occ : \E q \in rows : Slot(q) = Slot(r) /\ q.occ = k
         /\ \A r, q \in rows : Slot(r) = Slot(q) => r.status = q.status
<1>1. /\ rows \subseteq Row /\ rows # {} /\ IsFiniteSet(rows)
      /\ \A s \in Slots : {r.occ : r \in In(rows, s)} = 1..Cardinality(In(rows, s))
      /\ \A s \in Slots : Cardinality({r.status : r \in In(rows, s)}) <= 1
  BY DEF Readable
<1>2. ASSUME NEW r \in rows, NEW q \in rows, Slot(r) = Slot(q)
      PROVE  /\ r.occ = q.occ => r = q
             /\ \A k \in 1..r.occ : \E p \in rows : Slot(p) = Slot(r) /\ p.occ = k
             /\ r.status = q.status
  <2> DEFINE s == Slot(r)
             X == In(rows, s)
  <2>1. s \in Slots
    BY <1>1 DEF Row, Slot, Slots
  <2>2. X \subseteq rows /\ IsFiniteSet(X) /\ r \in X /\ q \in X /\ \A p \in X : Slot(p) = s
    <3>1. X \subseteq rows /\ r \in X /\ q \in X /\ \A p \in X : Slot(p) = s
      BY <1>2 DEF In
    <3> QED
      BY <1>1, <3>1, FS_Subset
  <2>3. {p.occ : p \in X} = 1..Cardinality(X) /\ Cardinality({p.status : p \in X}) <= 1
    BY <1>1, <2>1
  <2> HIDE DEF X
  <2>4. r.occ = q.occ => r = q
    BY <2>2, <2>3, NumberedOnce
  <2>5. ASSUME NEW k \in 1..r.occ PROVE \E p \in rows : Slot(p) = Slot(r) /\ p.occ = k
    <3>1. r.occ \in 1..Cardinality(X) /\ Cardinality(X) \in Nat
      BY <2>2, <2>3, FS_CardinalityType
    <3>2. k \in 1..Cardinality(X)
      BY <3>1
    <3> QED
      BY <2>2, <2>3, <3>2
  <2>6. r.status = q.status
    <3> DEFINE T == {p.status : p \in X}
    <3>1. r.status \in T /\ q.status \in T /\ T \subseteq Status
      BY <1>1, <2>2 DEF Row
    <3>2. IsFiniteSet(Status)
      <4>1. Status = {"pending"} \union {"posted"}
        BY DEF Status
      <4> QED
        BY <4>1, FS_Singleton, FS_Union
    <3>3. IsFiniteSet(T) /\ Cardinality(T) <= 1 /\ Cardinality(T) \in Nat
      BY <2>3, <3>1, <3>2, FS_Subset, FS_CardinalityType
    <3> HIDE DEF T
    <3>4. Cardinality(T) # 0
      BY <3>1, <3>3, FS_EmptySet
    <3>5. Cardinality(T) = 1
      BY <3>3, <3>4
    <3>6. \E x : T = {x}
      BY <3>3, <3>5, FS_Singleton
    <3> QED
      BY <3>1, <3>6
  <2> QED
    BY <2>4, <2>5, <2>6
<1> QED
  BY <1>1, <1>2 DEF Same
-----------------------------------------------------------------------------
\* How many of the occurrences below n are not taken.
Untaken(n, G) == Cardinality({k \in 1..(n - 1) : k \notin G})

\* A rank counts the smaller occurrences of a slot.
LEMMA RankCounts ==
  ASSUME NEW X, IsFiniteSet(X), \A x, y \in X : Same(x, y) => x = y,
         NEW x, x.occ \in Nat \ {0}, \A q \in X : q.occ \in Nat \ {0},
         NEW G, \A k \in 1..(x.occ - 1) :
                  (\E q \in X : Slot(q) = Slot(x) /\ q.occ = k) <=> k \notin G
  PROVE  Rank(x, X) = Untaken(x.occ, G)
<1> DEFINE Y == {q \in In(X, Slot(x)) : q.occ < x.occ}
<1>1. Y \subseteq X /\ \A q \in Y : Slot(q) = Slot(x) /\ q.occ \in 1..(x.occ - 1)
  BY DEF In
<1>2. IsFiniteSet(Y) /\ \A p, q \in Y : p.occ = q.occ => p = q
  <2>1. IsFiniteSet(Y)
    BY <1>1, FS_Subset
  <2> QED
    BY <1>1, <2>1 DEF Same
<1>3. {q.occ : q \in Y} = {k \in 1..(x.occ - 1) : k \notin G}
  <2>1. ASSUME NEW q \in Y PROVE q.occ \in 1..(x.occ - 1) /\ q.occ \notin G
    BY <1>1, <2>1
  <2>2. ASSUME NEW k \in 1..(x.occ - 1), k \notin G PROVE \E q \in Y : q.occ = k
    <3>1. PICK q \in X : Slot(q) = Slot(x) /\ q.occ = k
      BY <2>2
    <3>2. q \in Y
      BY <3>1 DEF In
    <3> QED
      BY <3>1, <3>2
  <2> QED
    BY <2>1, <2>2
<1> HIDE DEF Y
<1>4. Cardinality(Y) = Untaken(x.occ, G)
  BY <1>2, <1>3, AsManyOccurrences DEF Untaken
<1> QED
  BY <1>4 DEF Rank, Y

\* Numbers that are counted without the same others have different counts.
LEMMA CountsDiffer ==
  ASSUME NEW G, NEW m \in Nat \ {0}, NEW n \in Nat \ {0}, m < n, m \notin G
  PROVE  Untaken(m, G) # Untaken(n, G)
<1> DEFINE A == {k \in 1..(m - 1) : k \notin G}
           B == {k \in 1..(n - 1) : k \notin G}
<1>1. A \subseteq B /\ m \in B /\ m \notin A /\ B \subseteq 1..(n - 1)
  OBVIOUS
<1>2. IsFiniteSet(1..(n - 1))
  BY FS_Interval
<1> HIDE DEF A, B
<1>3. IsFiniteSet(B)
  BY <1>1, <1>2, FS_Subset
<1>4. Cardinality(A) # Cardinality(B)
  BY <1>1, <1>3, FS_Subset
<1> QED
  BY <1>4 DEF A, B, Untaken

\* Rows of one slot, of a document and of the ledger, have the same rank among
\* those whose occurrence is not taken if they have the same occurrence.
LEMMA RanksAgree ==
  ASSUME NEW X, IsFiniteSet(X), \A x, y \in X : Same(x, y) => x = y,
         NEW Y, IsFiniteSet(Y), \A x, y \in Y : Same(x, y) => x = y,
         \A q \in X \union Y : q.occ \in Nat \ {0},
         NEW x \in X, NEW y \in Y, Slot(x) = Slot(y),
         NEW G, x.occ \notin G, y.occ \notin G,
         \A k \in 1..x.occ : (\E q \in X : Slot(q) = Slot(x) /\ q.occ = k) <=> k \notin G,
         \A k \in 1..y.occ : (\E q \in Y : Slot(q) = Slot(y) /\ q.occ = k) <=> k \notin G
  PROVE  Rank(x, X) = Rank(y, Y) <=> x.occ = y.occ
<1>1. x.occ \in Nat \ {0} /\ y.occ \in Nat \ {0}
  OBVIOUS
<1>2. 1..(x.occ - 1) \subseteq 1..x.occ /\ 1..(y.occ - 1) \subseteq 1..y.occ
  BY <1>1
<1>3. Rank(x, X) = Untaken(x.occ, G)
  <2>1. \A k \in 1..(x.occ - 1) : (\E q \in X : Slot(q) = Slot(x) /\ q.occ = k) <=> k \notin G
    BY <1>2
  <2>2. \A q \in X : q.occ \in Nat \ {0}
    OBVIOUS
  <2> QED
    BY <1>1, <2>1, <2>2, RankCounts
<1>4. Rank(y, Y) = Untaken(y.occ, G)
  <2>1. \A k \in 1..(y.occ - 1) : (\E q \in Y : Slot(q) = Slot(y) /\ q.occ = k) <=> k \notin G
    BY <1>2
  <2>2. \A q \in Y : q.occ \in Nat \ {0}
    OBVIOUS
  <2> QED
    BY <1>1, <2>1, <2>2, RankCounts
<1>5. CASE x.occ < y.occ
  BY <1>1, <1>3, <1>4, <1>5, CountsDiffer
<1>6. CASE y.occ < x.occ
  BY <1>1, <1>3, <1>4, <1>6, CountsDiffer
<1>7. CASE x.occ = y.occ
  BY <1>3, <1>4, <1>7
<1> QED
  BY <1>1, <1>5, <1>6, <1>7

\* An identity names the row's date, key and occurrence.
LEMMA Identified ==
  ASSUME NEW d \in Documents, NEW r \in Row
  PROVE  /\ Id(d, r) \in Identity
         /\ Id(d, r)[2] = r.day /\ Id(d, r)[3] = r.key /\ Id(d, r)[4] = r.occ
         /\ Id(d, r)[1] = IF d \in Pages THEN Webpage ELSE d
BY DEF Id, Identity, Origins, Documents, Row

\* A record that is known by a row agrees with it.
LEMMA KnownAgrees ==
  ASSUME ShownTyped, NEW book, Evident(book), NEW d \in DOMAIN shown, NEW r \in shown[d],
         NEW t \in book.rows, Id(d, r) \in t.ids
  PROVE  Same(t, r)
<1>1. d \in Documents /\ r \in Row
  BY DocumentRows DEF ShownTyped
<1>2. Id(d, r)[2] = t.day /\ Id(d, r)[3] = t.key /\ Id(d, r)[4] = t.occ
  BY DEF Evident
<1> QED
  BY <1>1, <1>2, Identified DEF Same, Slot

\* The matching rules find the records that agree with the row.
LEMMA MatchAgrees ==
  ASSUME ShownTyped, NEW book, BookOK(book), NEW d \in DOMAIN shown, NEW r \in shown[d]
  PROVE  Match(book, d, r) = {t \in book.rows : Same(t, r)}
<1>1. /\ d \in Documents /\ shown[d] \subseteq Row /\ IsFiniteSet(shown[d])
      /\ \A p, q \in shown[d] : Same(p, q) => p = q
      /\ \A p \in shown[d] : \A k \in 1..p.occ : \E q \in shown[d] : Slot(q) = Slot(p) /\ q.occ = k
  BY DocumentRows DEF ShownTyped
<1>2. /\ book.rows \subseteq Transaction /\ IsFiniteSet(book.rows)
      /\ \A t, u \in book.rows : Same(t, u) => t = u
      /\ \A t \in book.rows : \A k \in 1..t.occ :
           \E u \in book.rows : Slot(u) = Slot(t) /\ u.occ = k
  BY DEF BookOK, BookTyped, Numbered
<1>3. ASSUME NEW q \in shown[d], NEW t \in Known(book, d, q)
      PROVE  t \in book.rows /\ Same(t, q)
  BY <1>3, KnownAgrees DEF BookOK, Known
<1>4. CASE Known(book, d, r) # {}
  <2>1. PICK t \in book.rows : t \in Known(book, d, r) /\ Same(t, r)
    BY <1>3, <1>4
  <2>2. ASSUME NEW u \in book.rows, Same(u, r) PROVE u = t
    BY <1>2, <2>1, <2>2 DEF Same
  <2>3. Match(book, d, r) = Known(book, d, r)
    BY <1>4 DEF Match
  <2> QED
    BY <1>3, <2>1, <2>2, <2>3
<1>5. CASE Known(book, d, r) = {} /\ (d \in Files \/ \E t \in book.rows : t.sources \intersect Files # {})
  <2> DEFINE unmatched == {q \in shown[d] : Known(book, d, q) = {}}
             free == book.rows \ Consumed(book, d)
             taken == {q.occ : q \in {p \in shown[d] : Slot(p) = Slot(r) /\ Known(book, d, p) # {}}}
  <2>1. ASSUME NEW t \in book.rows
        PROVE  t \in Consumed(book, d) <=> \E q \in shown[d] : Same(t, q) /\ Known(book, d, q) # {}
    <3>1. t \in Consumed(book, d) <=> \E q \in shown[d] : t \in Known(book, d, q)
      BY DEF Consumed
    <3>2. ASSUME NEW q \in shown[d], Same(t, q), Known(book, d, q) # {}
          PROVE  t \in Known(book, d, q)
      <4>1. PICK u \in Known(book, d, q) : u \in book.rows /\ Same(u, q)
        BY <1>3, <3>2
      <4>2. u = t
        BY <1>2, <3>2, <4>1 DEF Same
      <4> QED
        BY <4>1, <4>2
    <3> QED
      BY <1>3, <3>1, <3>2
  <2>2. r \in unmatched /\ r.occ \notin taken
    <3>1. ASSUME NEW p \in shown[d], Slot(p) = Slot(r), p.occ = r.occ PROVE p = r
      BY <1>1, <3>1 DEF Same
    <3> QED
      BY <1>5, <3>1
  <2>3. \A k \in 1..r.occ : (\E q \in unmatched : Slot(q) = Slot(r) /\ q.occ = k) <=> k \notin taken
    <3> SUFFICES ASSUME NEW k \in 1..r.occ
                 PROVE  (\E q \in unmatched : Slot(q) = Slot(r) /\ q.occ = k) <=> k \notin taken
      OBVIOUS
    <3>1. PICK q \in shown[d] : Slot(q) = Slot(r) /\ q.occ = k
      BY <1>1
    <3>2. \A p \in shown[d] : Slot(p) = Slot(r) /\ p.occ = k => p = q
      BY <1>1, <3>1 DEF Same
    <3> QED
      BY <3>1, <3>2
  <2>4. ASSUME NEW t \in book.rows, Slot(t) = Slot(r)
        PROVE  \A k \in 1..t.occ : (\E u \in free : Slot(u) = Slot(t) /\ u.occ = k) <=> k \notin taken
    <3> SUFFICES ASSUME NEW k \in 1..t.occ
                 PROVE  (\E u \in free : Slot(u) = Slot(t) /\ u.occ = k) <=> k \notin taken
      OBVIOUS
    <3>1. PICK u \in book.rows : Slot(u) = Slot(t) /\ u.occ = k
      BY <1>2
    <3>2. \A v \in book.rows : Slot(v) = Slot(t) /\ v.occ = k => v = u
      BY <1>2, <3>1 DEF Same
    <3>3. u \in Consumed(book, d) <=> k \in taken
      BY <2>1, <2>4, <3>1 DEF Same
    <3> QED
      BY <3>1, <3>2, <3>3
  <2>5. /\ free \subseteq book.rows /\ unmatched \subseteq shown[d]
        /\ IsFiniteSet(free) /\ IsFiniteSet(unmatched)
        /\ \A q \in unmatched \union free : q.occ \in Nat \ {0}
    <3>1. free \subseteq book.rows /\ unmatched \subseteq shown[d]
      OBVIOUS
    <3>2. IsFiniteSet(free) /\ IsFiniteSet(unmatched)
      BY <1>1, <1>2, <3>1, FS_Subset
    <3> QED
      BY <1>1, <1>2, <3>1, <3>2 DEF Row, Transaction
  <2>6. ASSUME NEW t \in free, Slot(t) = Slot(r), t.occ \notin taken
        PROVE  Rank(t, free) = Rank(r, unmatched) <=> t.occ = r.occ
    <3> HIDE DEF unmatched, free, taken
    <3>1. t \in book.rows
      BY <2>5, <2>6
    <3>2. \A k \in 1..t.occ : (\E u \in free : Slot(u) = Slot(t) /\ u.occ = k) <=> k \notin taken
      BY <2>4, <2>6, <3>1
    <3>3. \A x, y \in free : Same(x, y) => x = y
      BY <1>2, <2>5
    <3>4. \A x, y \in unmatched : Same(x, y) => x = y
      BY <1>1, <2>5
    <3> QED
      BY <2>2, <2>3, <2>5, <2>6, <3>2, <3>3, <3>4, RanksAgree
  <2>7. ASSUME NEW t \in free, Slot(t) = Slot(r) PROVE t.occ \notin taken
    BY <2>1, <2>7 DEF Same
  <2>8. ASSUME NEW t \in book.rows, Same(t, r) PROVE t \in free
    <3>1. ASSUME NEW q \in shown[d], Same(t, q) PROVE q = r
      BY <1>1, <2>8, <3>1 DEF Same
    <3> QED
      BY <1>5, <2>1, <3>1
  <2>9. Match(book, d, r) = {t \in In(free, Slot(r)) : Rank(t, In(free, Slot(r))) = Rank(r, unmatched)}
    BY <1>5 DEF Match, ByDateAndKey
  <2>10. ASSUME NEW t \in In(free, Slot(r))
         PROVE  Rank(t, In(free, Slot(r))) = Rank(t, free)
    <3>1. Slot(t) = Slot(r)
      BY DEF In
    <3>2. In(In(free, Slot(r)), Slot(t)) = In(free, Slot(t))
      BY <3>1 DEF In
    <3> QED
      BY <3>2 DEF Rank
  <2> HIDE DEF unmatched, free, taken
  <2>11. \A t : t \in In(free, Slot(r)) <=> t \in free /\ Slot(t) = Slot(r)
    BY DEF In
  <2>12. ASSUME NEW t PROVE t \in Match(book, d, r) <=> t \in book.rows /\ Same(t, r)
    BY <2>5, <2>6, <2>7, <2>8, <2>9, <2>10, <2>11 DEF Same
  <2> QED
    BY <2>12
<1>6. CASE /\ Known(book, d, r) = {}
           /\ ~(d \in Files \/ \E t \in book.rows : t.sources \intersect Files # {})
  <2>1. Match(book, d, r) = {}
    BY <1>6 DEF Match, ByDateAndKey
  <2>2. ASSUME NEW t \in book.rows, Same(t, r) PROVE FALSE
    <3>1. /\ t.id \in t.ids /\ t.sources \subseteq Documents
          /\ t.ids = UNION {{Id(c, q) : q \in Attested(t, c)} : c \in t.sources}
          /\ t.sources \subseteq DOMAIN shown
      <4>1. ValidRecord(book, t) /\ t \in Transaction /\ book.captures \in Seq(DOMAIN shown)
        BY <1>2 DEF BookOK, Valid, BookTyped
      <4>2. Sources(book) \subseteq DOMAIN shown
        BY <4>1 DEF Sources, Range
      <4> QED
        BY <4>1, <4>2 DEF ValidRecord, Transaction
    <3>2. PICK c \in t.sources : \E q \in Attested(t, c) : t.id = Id(c, q)
      BY <3>1
    <3>3. PICK q \in shown[c] : t.id = Id(c, q) /\ Id(c, q) \in t.ids
      BY <3>2 DEF Attested
    <3>4. c \in Pages /\ d \in Pages
      BY <1>1, <1>6, <3>1 DEF Documents
    <3>5. Same(t, q)
      BY <3>1, <3>3, KnownAgrees DEF BookOK
    <3>6. Id(d, r) = Id(c, q)
      BY <2>2, <3>4, <3>5 DEF Id, Same, Slot
    <3> QED
      BY <1>6, <3>3, <3>6 DEF Known
  <2> QED
    BY <2>1, <2>2
<1> QED
  BY <1>4, <1>5, <1>6
-----------------------------------------------------------------------------
\* Evidence is about the record itself.
Own(t) == \A x \in t.ids : x[2] = t.day /\ x[3] = t.key /\ x[4] = t.occ

\* What _validate_ledger asks of such a record.
Supported(book, t) ==
  /\ t.id \in t.ids /\ t.sources # {} /\ t.sources \subseteq Sources(book)
  /\ \A c \in t.sources : \E q \in shown[c] : Id(c, q) \in t.ids
  /\ \A x \in t.ids : \E c \in t.sources : \E q \in shown[c] : x = Id(c, q)
  /\ t.status = "posted" <=>
       \E c \in t.sources : \E q \in shown[c] : Id(c, q) \in t.ids /\ q.status = "posted"

\* A row that a record of its own evidence stands for is the only one of its
\* document, and agrees with the record.
LEMMA AttestedOnce ==
  ASSUME ShownTyped, NEW t, Own(t), NEW c \in DOMAIN shown, NEW q \in shown[c], Id(c, q) \in t.ids
  PROVE  Same(t, q) /\ Attested(t, c) = {q}
<1>1. /\ c \in Documents /\ shown[c] \subseteq Row
      /\ \A p, r \in shown[c] : Same(p, r) => p = r
  BY DocumentRows DEF ShownTyped
<1>2. ASSUME NEW p \in shown[c], Id(c, p) \in t.ids PROVE Same(t, p)
  <2>1. Id(c, p)[2] = t.day /\ Id(c, p)[3] = t.key /\ Id(c, p)[4] = t.occ
    BY <1>2 DEF Own
  <2> QED
    BY <1>1, <2>1, Identified DEF Same, Slot
<1>3. ASSUME NEW p \in Attested(t, c) PROVE p = q
  <2>1. Same(t, p) /\ Same(t, q) /\ p \in shown[c]
    BY <1>2 DEF Attested
  <2> QED
    BY <1>1, <2>1 DEF Same
<1>4. q \in Attested(t, c)
  BY DEF Attested
<1> QED
  BY <1>2, <1>3, <1>4

\* For records with evidence of their own _validate_ledger asks for support.
LEMMA ValidIsSupported ==
  ASSUME ShownTyped, NEW book, NEW t \in Transaction, Own(t), t.sources \subseteq DOMAIN shown
  PROVE  ValidRecord(book, t) <=> Supported(book, t)
<1> DEFINE evidence == UNION {Attested(t, c) : c \in t.sources}
<1>1. ASSUME NEW c \in t.sources
      PROVE  Cardinality(Attested(t, c)) = 1 <=> \E q \in shown[c] : Id(c, q) \in t.ids
  <2>1. ASSUME NEW q \in shown[c], Id(c, q) \in t.ids PROVE Cardinality(Attested(t, c)) = 1
    <3>1. Attested(t, c) = {q}
      BY <2>1, AttestedOnce
    <3> QED
      BY <3>1, FS_Singleton
  <2>2. ASSUME ~\E q \in shown[c] : Id(c, q) \in t.ids PROVE Cardinality(Attested(t, c)) # 1
    <3>1. Attested(t, c) = {}
      BY <2>2 DEF Attested
    <3> QED
      BY <3>1, FS_EmptySet
  <2> QED
    BY <2>1, <2>2
<1>2. t.ids = UNION {{Id(c, q) : q \in Attested(t, c)} : c \in t.sources} <=>
        \A x \in t.ids : \E c \in t.sources : \E q \in shown[c] : x = Id(c, q)
  BY DEF Attested
<1>3. ASSUME NEW r \in evidence
      PROVE  Slot(r) = Slot(t) /\ r.occ = t.occ /\ r.status \in Status
             /\ \E c \in t.sources : r \in shown[c] /\ Id(c, r) \in t.ids
  <2>1. PICK c \in t.sources : r \in shown[c] /\ Id(c, r) \in t.ids
    BY <1>3 DEF Attested
  <2>2. Same(t, r) /\ r \in Row
    BY <2>1, AttestedOnce, DocumentRows DEF ShownTyped
  <2> QED
    BY <2>1, <2>2 DEF Same, Row
<1>4. (\E r \in evidence : r.status = "posted") <=>
        \E c \in t.sources : \E q \in shown[c] : Id(c, q) \in t.ids /\ q.status = "posted"
  BY DEF Attested
<1>5. ValidRecord(book, t) <=>
        /\ t.id \in t.ids
        /\ t.sources # {} /\ t.sources \subseteq Sources(book)
        /\ \A d \in t.sources : Cardinality(Attested(t, d)) = 1
        /\ t.ids = UNION {{Id(d, r) : r \in Attested(t, d)} : d \in t.sources}
        /\ \A r \in evidence : Slot(r) = Slot(t)
        /\ t.status = IF \E r \in evidence : r.status = "posted" THEN "posted" ELSE "pending"
        /\ \E r \in evidence : r.status = t.status /\ r.occ = t.occ
  BY DEF ValidRecord
<1>6. (\A c \in t.sources : \E q \in shown[c] : Id(c, q) \in t.ids) /\ t.sources # {} =>
        \E r \in evidence : TRUE
  BY DEF Attested
<1>7. t.status \in Status
  BY DEF Transaction
<1> HIDE DEF evidence
<1> QED
  BY <1>1, <1>2, <1>3, <1>4, <1>5, <1>6, <1>7 DEF Supported, Status
-----------------------------------------------------------------------------
\* The rows of the document that agree with the record.
Hits(t, d) == {r \in shown[d] : Same(t, r)}

\* u is the record t with its rows of the document.
Grown(t, d, u) ==
  /\ u \in Transaction
  /\ u.id = t.id /\ u.day = t.day /\ u.key = t.key /\ u.occ = t.occ
  /\ u.ids = t.ids \union {Id(d, r) : r \in Hits(t, d)}
  /\ u.sources = IF Hits(t, d) = {} THEN t.sources ELSE t.sources \union {d}
  /\ u.status = IF \E r \in Hits(t, d) : r.status = "posted" THEN "posted" ELSE t.status

\* No record agrees with the row.
Fresh(book, r) == \A t \in book.rows : ~Same(t, r)

\* Absorbing the rows that agree with a record keeps its date, key and occurrence.
LEMMA AbsorbGrows ==
  ASSUME ShownTyped, NEW t \in Transaction, NEW d \in DOMAIN shown
  PROVE  Grown(t, d, Absorb(t, d, Hits(t, d)))
<1> DEFINE hits == Hits(t, d)
           news == {r \in hits : t.status = "pending" /\ r.status = "posted"}
           ids == t.ids \union {Id(d, r) : r \in hits}
           sources == IF hits = {} THEN t.sources ELSE t.sources \union {d}
           status == IF news = {} THEN t.status ELSE "posted"
           occ == IF news = {} THEN t.occ ELSE (CHOOSE r \in news : TRUE).occ
<1>1. d \in Documents /\ hits \subseteq Row /\ \A r \in hits : Same(t, r)
  BY DocumentRows DEF ShownTyped, Hits
<1>2. ids \in SUBSET Identity /\ sources \in SUBSET Documents
  BY <1>1, Identified DEF Transaction
<1>3. occ = t.occ
  <2>1. CASE news # {}
    <3>1. (CHOOSE r \in news : TRUE) \in news
      BY <2>1
    <3> QED
      BY <1>1, <3>1 DEF Same
  <2> QED
    BY <2>1
<1>4. /\ status \in Status
      /\ status = IF \E r \in hits : r.status = "posted" THEN "posted" ELSE t.status
  BY DEF Transaction, Status
<1>5. Absorb(t, d, hits) =
        [t EXCEPT !.ids = ids, !.sources = sources, !.status = status, !.occ = occ]
  BY DEF Absorb
<1>6. hits = Hits(t, d)
  OBVIOUS
<1> HIDE DEF hits, news, status, occ
<1>7. ids = t.ids \union {Id(d, r) : r \in Hits(t, d)}
      /\ sources = IF Hits(t, d) = {} THEN t.sources ELSE t.sources \union {d}
  BY <1>6
<1> HIDE DEF ids, sources
<1> DEFINE u == [t EXCEPT !.ids = ids, !.sources = sources, !.status = status, !.occ = occ]
<1>8. /\ u \in Transaction
      /\ u.id = t.id /\ u.day = t.day /\ u.key = t.key /\ u.occ = t.occ
      /\ u.ids = ids /\ u.sources = sources /\ u.status = status
  BY <1>2, <1>3, <1>4 DEF Transaction
<1> HIDE DEF u
<1>9. Grown(t, d, u)
  BY <1>4, <1>6, <1>7, <1>8 DEF Grown
<1> QED
  BY <1>5, <1>6, <1>9 DEF u

\* A record is grown in one way.
LEMMA GrownOnce ==
  ASSUME NEW t, NEW d, NEW u, NEW v, Grown(t, d, u), Grown(t, d, v)
  PROVE  u = v
<1>1. /\ u \in Transaction /\ v \in Transaction
      /\ u.id = v.id /\ u.day = v.day /\ u.key = v.key /\ u.occ = v.occ
      /\ u.ids = v.ids /\ u.sources = v.sources /\ u.status = v.status
  BY DEF Grown
<1> QED
  BY <1>1 DEF Transaction

\* A new record.
LEMMA RecordIs ==
  ASSUME ShownTyped, NEW d \in DOMAIN shown, NEW r \in shown[d]
  PROVE  /\ Record(d, r) \in Transaction
         /\ Record(d, r).id = Id(d, r)
         /\ Record(d, r).day = r.day /\ Record(d, r).key = r.key /\ Record(d, r).occ = r.occ
         /\ Record(d, r).ids = {Id(d, r)} /\ Record(d, r).sources = {d}
         /\ Record(d, r).status = r.status
<1>1. d \in Documents /\ r \in Row
  BY DocumentRows DEF ShownTyped
<1>2. Id(d, r) \in Identity
  BY <1>1, Identified
<1> QED
  BY <1>1, <1>2 DEF Record, Transaction, Row

\* The records of a merged ledger: the old ones with their rows of the document,
\* and a new one for each row that agrees with none.
LEMMA MergedRows ==
  ASSUME ShownTyped, NEW book, BookOK(book), NEW d \in DOMAIN shown
  PROVE  /\ Merge(book, d).rows =
              {Absorb(t, d, Hits(t, d)) : t \in book.rows}
              \union {Record(d, r) : r \in {q \in shown[d] : Fresh(book, q)}}
         /\ Merge(book, d).captures = Capture(book, d)
         /\ Merge(book, d) = [rows |-> Merge(book, d).rows, captures |-> Merge(book, d).captures]
<1>1. ASSUME NEW t \in book.rows
      PROVE  {r \in shown[d] : t \in Match(book, d, r)} = Hits(t, d)
  <2>1. ASSUME NEW r \in shown[d] PROVE t \in Match(book, d, r) <=> Same(t, r)
    BY MatchAgrees
  <2> QED
    BY <2>1 DEF Hits
<1>2. {q \in shown[d] : Match(book, d, q) = {}} = {q \in shown[d] : Fresh(book, q)}
  <2>1. ASSUME NEW q \in shown[d] PROVE Match(book, d, q) = {} <=> Fresh(book, q)
    <3>1. Match(book, d, q) = {t \in book.rows : Same(t, q)}
      BY MatchAgrees
    <3> QED
      BY <3>1 DEF Fresh
  <2> QED
    BY <2>1
<1>3. /\ Merge(book, d).rows =
           {Absorb(t, d, {r \in shown[d] : t \in Match(book, d, r)}) : t \in book.rows}
           \union {Record(d, r) : r \in {q \in shown[d] : Match(book, d, q) = {}}}
      /\ Merge(book, d).captures = Capture(book, d)
      /\ Merge(book, d) = [rows |-> Merge(book, d).rows, captures |-> Merge(book, d).captures]
  BY DEF Merge
<1>4. {Absorb(t, d, {r \in shown[d] : t \in Match(book, d, r)}) : t \in book.rows} =
        {Absorb(t, d, Hits(t, d)) : t \in book.rows}
  BY <1>1
<1> QED
  BY <1>2, <1>3, <1>4
-----------------------------------------------------------------------------
\* u is the record that the row r of the document d makes.
Added(d, r, u) ==
  /\ u \in Transaction
  /\ u.id = Id(d, r) /\ u.day = r.day /\ u.key = r.key /\ u.occ = r.occ /\ u.status = r.status
  /\ u.ids = {Id(d, r)} /\ u.sources = {d}

\* m holds the records of the book with their rows of d, and new records for
\* the rows of d that agree with none.
Joined(book, d, m) ==
  /\ BookTyped(m)
  /\ Sources(m) = Sources(book) \union {d} /\ m.captures # <<>>
  /\ \A u \in m.rows :
       \/ \E t \in book.rows : Grown(t, d, u)
       \/ \E r \in shown[d] : Fresh(book, r) /\ Added(d, r, u)
  /\ \A t \in book.rows : \E u \in m.rows : Grown(t, d, u)
  /\ \A r \in shown[d] : \E u \in m.rows : Same(u, r) /\ Id(d, r) \in u.ids

\* A captured document is a source, and no other is added.
LEMMA Captured ==
  ASSUME NEW book, book.captures \in Seq(DOMAIN shown), NEW d \in DOMAIN shown
  PROVE  /\ Capture(book, d) \in Seq(DOMAIN shown) /\ Capture(book, d) # <<>>
         /\ Range(Capture(book, d)) = Sources(book) \union {d}
<1> DEFINE c == book.captures
<1>1. CASE d \in Sources(book)
  <2>1. Capture(book, d) = c
    BY <1>1 DEF Capture
  <2>2. c # <<>>
    BY <1>1 DEF Sources, Range
  <2> QED
    BY <1>1, <2>1, <2>2 DEF Sources
<1>2. CASE d \notin Sources(book)
  <2>1. Capture(book, d) = Append(c, d)
    BY <1>2 DEF Capture
  <2> DEFINE e == Append(c, d)
  <2>2. /\ e \in Seq(DOMAIN shown) /\ DOMAIN e = 1..(Len(c) + 1) /\ DOMAIN c = 1..Len(c)
        /\ Len(c) \in Nat /\ e[Len(c) + 1] = d /\ \A k \in 1..Len(c) : e[k] = c[k]
    OBVIOUS
  <2> HIDE DEF e
  <2>3. Range(e) = Range(c) \union {d}
    <3>1. ASSUME NEW k \in DOMAIN e PROVE e[k] \in Range(c) \union {d}
      <4>1. k \in 1..Len(c) \/ k = Len(c) + 1
        BY <2>2, <3>1
      <4> QED
        BY <2>2, <4>1 DEF Range
    <3>2. ASSUME NEW k \in DOMAIN c PROVE c[k] \in Range(e)
      <4>1. k \in DOMAIN e /\ e[k] = c[k]
        BY <2>2, <3>2
      <4> QED
        BY <4>1 DEF Range
    <3>3. d \in Range(e)
      <4>1. Len(c) + 1 \in DOMAIN e
        BY <2>2
      <4> QED
        BY <2>2, <4>1 DEF Range
    <3> QED
      BY <3>1, <3>2, <3>3 DEF Range
  <2>4. e # <<>>
    BY <2>2
  <2> QED
    BY <2>1, <2>2, <2>3, <2>4 DEF Sources, e
<1> QED
  BY <1>1, <1>2

\* The values of a function on a finite set.
LEMMA FiniteValues ==
  ASSUME NEW S, IsFiniteSet(S), NEW f, f = [x \in S |-> f[x]]
  PROVE  IsFiniteSet({f[x] : x \in S})
<1> DEFINE T == {f[x] : x \in S}
<1>1. f \in [S -> T] /\ \A z \in T : \E x \in S : f[x] = z
  OBVIOUS
<1> HIDE DEF T
<1>2. f \in Surjection(S, T)
  BY <1>1, Fun_IsSurj
<1>3. IsFiniteSet(T)
  BY <1>2, FS_Surjection
<1> QED
  BY <1>3 DEF T

\* A merge joins the document to the ledger.
LEMMA MergeJoins ==
  ASSUME ShownTyped, NEW book, BookOK(book), NEW d \in DOMAIN shown
  PROVE  Joined(book, d, Merge(book, d))
<1> DEFINE m == Merge(book, d)
           old == {Absorb(t, d, Hits(t, d)) : t \in book.rows}
           fresh == {q \in shown[d] : Fresh(book, q)}
           new == {Record(d, r) : r \in fresh}
<1>1. /\ m.rows = old \union new /\ m.captures = Capture(book, d)
      /\ m = [rows |-> m.rows, captures |-> m.captures]
  BY MergedRows
<1>2. /\ book.rows \subseteq Transaction /\ IsFiniteSet(book.rows)
      /\ book.captures \in Seq(DOMAIN shown)
      /\ IsFiniteSet(shown[d])
  BY DocumentRows DEF BookOK, BookTyped, ShownTyped
<1>3. ASSUME NEW t \in book.rows PROVE Grown(t, d, Absorb(t, d, Hits(t, d)))
  BY <1>2, AbsorbGrows
<1>4. ASSUME NEW r \in shown[d] PROVE Added(d, r, Record(d, r))
  BY RecordIs DEF Added
<1> HIDE DEF m
<1>5. BookTyped(m)
  <2>1. IsFiniteSet(old)
    <3> DEFINE f == [t \in book.rows |-> Absorb(t, d, Hits(t, d))]
    <3>1. old = {f[t] : t \in book.rows}
      OBVIOUS
    <3>2. f = [t \in book.rows |-> f[t]]
      OBVIOUS
    <3> HIDE DEF f, old
    <3> QED
      BY <1>2, <3>1, <3>2, FiniteValues
  <2>2. IsFiniteSet(new)
    <3>1. IsFiniteSet(fresh)
      BY <1>2, FS_Subset
    <3> HIDE DEF fresh
    <3> DEFINE f == [r \in fresh |-> Record(d, r)]
    <3>2. new = {f[r] : r \in fresh}
      OBVIOUS
    <3>3. f = [r \in fresh |-> f[r]]
      OBVIOUS
    <3> HIDE DEF f, new
    <3> QED
      BY <3>1, <3>2, <3>3, FiniteValues
  <2>3. old \subseteq Transaction /\ new \subseteq Transaction
    BY <1>3, <1>4 DEF Grown, Added
  <2> HIDE DEF old, new
  <2>4. IsFiniteSet(old \union new)
    BY <2>1, <2>2, FS_Union
  <2>5. m.captures \in Seq(DOMAIN shown)
    BY <1>1, <1>2, Captured
  <2> QED
    BY <1>1, <2>3, <2>4, <2>5 DEF BookTyped
<1>6. Sources(m) = Sources(book) \union {d} /\ m.captures # <<>>
  <2>1. Sources(m) = Range(m.captures)
    BY DEF Sources
  <2> QED
    BY <1>1, <1>2, <2>1, Captured
<1>7. ASSUME NEW u \in m.rows
      PROVE  \/ \E t \in book.rows : Grown(t, d, u)
             \/ \E r \in shown[d] : Fresh(book, r) /\ Added(d, r, u)
  BY <1>1, <1>3, <1>4
<1>8. \A t \in book.rows : \E u \in m.rows : Grown(t, d, u)
  BY <1>1, <1>3
<1>9. ASSUME NEW r \in shown[d] PROVE \E u \in m.rows : Same(u, r) /\ Id(d, r) \in u.ids
  <2>1. CASE Fresh(book, r)
    <3>1. Record(d, r) \in m.rows /\ Added(d, r, Record(d, r))
      BY <1>1, <1>4, <2>1
    <3> QED
      BY <3>1 DEF Added, Same, Slot
  <2>2. CASE ~Fresh(book, r)
    <3>1. PICK t \in book.rows : Same(t, r)
      BY <2>2 DEF Fresh
    <3>2. PICK u \in m.rows : Grown(t, d, u)
      BY <1>8
    <3>3. r \in Hits(t, d)
      BY <3>1 DEF Hits
    <3> QED
      BY <3>1, <3>2, <3>3 DEF Grown, Same, Slot
  <2> QED
    BY <2>1, <2>2
<1> QED
  BY <1>5, <1>6, <1>7, <1>8, <1>9 DEF Joined, m
-----------------------------------------------------------------------------
\* The records of a ledger, and the rows of its documents.
LEMMA BookFacts ==
  ASSUME ShownTyped, NEW book, BookOK(book)
  PROVE  /\ Sources(book) \subseteq DOMAIN shown
         /\ \A t \in book.rows :
              t \in Transaction /\ Own(t) /\ t.sources \subseteq DOMAIN shown /\ Supported(book, t)
<1>1. Sources(book) \subseteq DOMAIN shown
  BY DEF BookOK, BookTyped, Sources, Range
<1>2. ASSUME NEW t \in book.rows
      PROVE  t \in Transaction /\ Own(t) /\ t.sources \subseteq DOMAIN shown /\ Supported(book, t)
  <2>1. t \in Transaction /\ Own(t)
    BY DEF BookOK, BookTyped, Evident, Own
  <2>2. ValidRecord(book, t)
    BY DEF BookOK, Valid
  <2>3. t.sources \subseteq DOMAIN shown
    BY <1>1, <2>2 DEF ValidRecord
  <2> QED
    BY <2>1, <2>2, <2>3, ValidIsSupported
<1> QED
  BY <1>1, <1>2

\* Every row of a retained document has a record.
LEMMA Recorded ==
  ASSUME ShownTyped, NEW book, BookOK(book), NEW c \in Sources(book), NEW r \in shown[c]
  PROVE  \E t \in book.rows : Id(c, r) \in t.ids /\ Same(t, r) /\ c \in t.sources
<1>1. c \in DOMAIN shown
  BY BookFacts
<1>2. Id(c, r) \in UNION {t.ids : t \in book.rows}
  <2>1. Id(c, r) \in UNION {Ids(e) : e \in Sources(book)}
    BY DEF Ids
  <2> QED
    BY <2>1 DEF BookOK, Valid
<1>3. PICK t \in book.rows : Id(c, r) \in t.ids
  BY <1>2
<1>4. Same(t, r)
  BY <1>1, <1>3, KnownAgrees DEF BookOK
<1>5. c \in t.sources
  BY <1>3 DEF BookOK, Evident
<1> QED
  BY <1>3, <1>4, <1>5

\* A pending record has a pending row.
LEMMA PendingRow ==
  ASSUME ShownTyped, NEW book, BookOK(book), NEW t \in book.rows, t.status = "pending"
  PROVE  \E c \in t.sources : \E r \in Attested(t, c) : r.status = "pending"
<1>1. Supported(book, t) /\ t.sources \subseteq DOMAIN shown
  BY BookFacts
<1>2. PICK c \in t.sources : \E r \in shown[c] : Id(c, r) \in t.ids
  BY <1>1 DEF Supported
<1>3. PICK r \in shown[c] : Id(c, r) \in t.ids
  BY <1>2
<1>4. r.status # "posted"
  BY <1>1, <1>3 DEF Supported
<1>5. r \in Row
  BY <1>1, DocumentRows DEF ShownTyped
<1>6. r.status = "pending" /\ r \in Attested(t, c)
  BY <1>3, <1>4, <1>5 DEF Row, Status, Attested
<1> QED
  BY <1>6

\* A joined ledger has one record for each date, key and occurrence of the
\* ledger or the document, posted if one of them says so.
LEMMA JoinedRows ==
  ASSUME ShownTyped, NEW book, BookOK(book), NEW d \in DOMAIN shown, NEW m, Joined(book, d, m)
  PROVE  /\ \A u, v \in m.rows : Same(u, v) => u = v
         /\ \A u \in m.rows : (\E t \in book.rows : Same(t, u)) \/ (\E r \in shown[d] : Same(r, u))
         /\ \A t \in book.rows : \E u \in m.rows : Same(t, u)
         /\ \A r \in shown[d] : \E u \in m.rows : Same(r, u)
         /\ \A u \in m.rows : u.status = "posted" <=>
              \/ \E t \in book.rows : Same(t, u) /\ t.status = "posted"
              \/ \E r \in shown[d] : Same(r, u) /\ r.status = "posted"
<1>1. /\ \A t, w \in book.rows : Same(t, w) => t = w
      /\ \A r, q \in shown[d] : Same(r, q) => r = q
  BY DocumentRows DEF BookOK, Numbered, ShownTyped
<1>2. ASSUME NEW u \in m.rows
      PROVE  \/ \E t \in book.rows : Same(t, u) /\ Grown(t, d, u)
             \/ \E r \in shown[d] : Same(r, u) /\ Fresh(book, r) /\ Added(d, r, u)
  <2>1. CASE \E t \in book.rows : Grown(t, d, u)
    BY <2>1 DEF Grown, Same, Slot
  <2>2. CASE \E r \in shown[d] : Fresh(book, r) /\ Added(d, r, u)
    BY <2>2 DEF Added, Same, Slot
  <2> QED
    BY <2>1, <2>2 DEF Joined
<1>3. ASSUME NEW u \in m.rows, NEW v \in m.rows, Same(u, v) PROVE u = v
  <2>1. ASSUME NEW t \in book.rows, Same(t, u), Grown(t, d, u),
               NEW w \in book.rows, Same(w, v), Grown(w, d, v)
        PROVE  u = v
    <3>1. Same(t, w)
      BY <1>3, <2>1 DEF Same
    <3>2. t = w
      BY <1>1, <3>1
    <3> QED
      BY <2>1, <3>2, GrownOnce
  <2>2. ASSUME NEW x, NEW y, NEW t \in book.rows, Same(t, x), Same(x, y),
               NEW r \in shown[d], Same(r, y), Fresh(book, r)
        PROVE  FALSE
    BY <2>2 DEF Same, Fresh
  <2>3. ASSUME NEW r \in shown[d], Same(r, u), Added(d, r, u),
               NEW q \in shown[d], Same(q, v), Added(d, q, v)
        PROVE  u = v
    <3>1. Same(r, q)
      BY <1>3, <2>3 DEF Same
    <3>2. r = q
      BY <1>1, <3>1
    <3> QED
      BY <2>3, <3>2 DEF Added, Transaction
  <2>4. Same(v, u)
    BY <1>3 DEF Same
  <2> QED
    BY <1>2, <1>3, <2>1, <2>2, <2>3, <2>4
<1>4. ASSUME NEW t \in book.rows PROVE \E u \in m.rows : Same(t, u) /\ Grown(t, d, u)
  BY DEF Joined, Grown, Same, Slot
<1>5. ASSUME NEW r \in shown[d] PROVE \E u \in m.rows : Same(r, u)
  <2>1. PICK u \in m.rows : Same(u, r)
    BY DEF Joined
  <2> QED
    BY <2>1 DEF Same
<1>6. ASSUME NEW u \in m.rows, u.status = "posted"
      PROVE  \/ \E t \in book.rows : Same(t, u) /\ t.status = "posted"
             \/ \E r \in shown[d] : Same(r, u) /\ r.status = "posted"
  <2>1. CASE \E t \in book.rows : Same(t, u) /\ Grown(t, d, u)
    <3>1. PICK t \in book.rows : Same(t, u) /\ Grown(t, d, u)
      BY <2>1
    <3>2. CASE \E r \in Hits(t, d) : r.status = "posted"
      <4>1. PICK r \in shown[d] : Same(t, r) /\ r.status = "posted"
        BY <3>2 DEF Hits
      <4> QED
        BY <3>1, <4>1 DEF Same
    <3>3. CASE ~\E r \in Hits(t, d) : r.status = "posted"
      BY <1>6, <3>1, <3>3 DEF Grown
    <3> QED
      BY <3>2, <3>3
  <2>2. CASE \E r \in shown[d] : Same(r, u) /\ Fresh(book, r) /\ Added(d, r, u)
    BY <1>6, <2>2 DEF Added
  <2> QED
    BY <1>2, <2>1, <2>2
<1>7. ASSUME NEW t \in book.rows, NEW u \in m.rows, Same(t, u) PROVE Grown(t, d, u)
  <2>1. PICK v \in m.rows : Same(t, v) /\ Grown(t, d, v)
    BY <1>4
  <2>2. Same(u, v)
    BY <1>7, <2>1 DEF Same
  <2> QED
    BY <1>3, <2>1, <2>2
<1>8. ASSUME NEW u \in m.rows, NEW t \in book.rows, Same(t, u), t.status = "posted"
      PROVE  u.status = "posted"
  BY <1>7, <1>8 DEF Grown
<1>9. ASSUME NEW u \in m.rows, NEW r \in shown[d], Same(r, u), r.status = "posted"
      PROVE  u.status = "posted"
  <2>1. CASE \E t \in book.rows : Same(t, u) /\ Grown(t, d, u)
    <3>1. PICK t \in book.rows : Same(t, u) /\ Grown(t, d, u)
      BY <2>1
    <3>2. r \in Hits(t, d)
      BY <1>9, <3>1 DEF Hits, Same
    <3> QED
      BY <1>9, <3>1, <3>2 DEF Grown
  <2>2. CASE \E q \in shown[d] : Same(q, u) /\ Fresh(book, q) /\ Added(d, q, u)
    <3>1. PICK q \in shown[d] : Same(q, u) /\ Added(d, q, u)
      BY <2>2
    <3>2. q = r
      BY <1>1, <1>9, <3>1 DEF Same
    <3> QED
      BY <1>9, <3>1, <3>2 DEF Added
  <2> QED
    BY <1>2, <2>1, <2>2
<1> QED
  BY <1>2, <1>3, <1>4, <1>5, <1>6, <1>8, <1>9
-----------------------------------------------------------------------------
\* A joined ledger is numbered.
LEMMA JoinedNumbered ==
  ASSUME ShownTyped, NEW book, BookOK(book), NEW d \in DOMAIN shown, NEW m, Joined(book, d, m)
  PROVE  Numbered(m)
<1>1. /\ \A t \in book.rows : \A k \in 1..t.occ : \E w \in book.rows : Slot(w) = Slot(t) /\ w.occ = k
      /\ \A t, w \in book.rows :
           Slot(t) = Slot(w) /\ t.occ < w.occ /\ w.status = "posted" => t.status = "posted"
  BY DEF BookOK, Numbered
<1>2. /\ \A r \in shown[d] : \A k \in 1..r.occ : \E q \in shown[d] : Slot(q) = Slot(r) /\ q.occ = k
      /\ \A r, q \in shown[d] : Slot(r) = Slot(q) => r.status = q.status
  BY DocumentRows DEF ShownTyped
<1>3. /\ \A u, v \in m.rows : Same(u, v) => u = v
      /\ \A u \in m.rows : (\E t \in book.rows : Same(t, u)) \/ (\E r \in shown[d] : Same(r, u))
      /\ \A t \in book.rows : \E u \in m.rows : Same(t, u)
      /\ \A r \in shown[d] : \E u \in m.rows : Same(r, u)
      /\ \A u \in m.rows : u.status = "posted" <=>
           \/ \E t \in book.rows : Same(t, u) /\ t.status = "posted"
           \/ \E r \in shown[d] : Same(r, u) /\ r.status = "posted"
  BY JoinedRows
<1>4. ASSUME NEW u \in m.rows, NEW k \in 1..u.occ
      PROVE  \E v \in m.rows : Slot(v) = Slot(u) /\ v.occ = k
  <2>1. CASE \E t \in book.rows : Same(t, u)
    <3>1. PICK t \in book.rows : Same(t, u)
      BY <2>1
    <3>2. PICK w \in book.rows : Slot(w) = Slot(t) /\ w.occ = k
      BY <1>1, <3>1 DEF Same
    <3> QED
      BY <1>3, <3>1, <3>2 DEF Same
  <2>2. CASE \E r \in shown[d] : Same(r, u)
    <3>1. PICK r \in shown[d] : Same(r, u)
      BY <2>2
    <3>2. PICK q \in shown[d] : Slot(q) = Slot(r) /\ q.occ = k
      BY <1>2, <3>1 DEF Same
    <3> QED
      BY <1>3, <3>1, <3>2 DEF Same
  <2> QED
    BY <1>3, <2>1, <2>2
<1>5. ASSUME NEW u \in m.rows, NEW v \in m.rows,
             Slot(u) = Slot(v), u.occ < v.occ, v.status = "posted"
      PROVE  u.status = "posted"
  <2>1. u.occ \in 1..v.occ
    BY <1>5 DEF Joined, BookTyped, Transaction
  <2>2. CASE \E t \in book.rows : Same(t, v) /\ t.status = "posted"
    <3>1. PICK t \in book.rows : Same(t, v) /\ t.status = "posted"
      BY <2>2
    <3>2. PICK w \in book.rows : Slot(w) = Slot(t) /\ w.occ = u.occ
      BY <1>1, <2>1, <3>1 DEF Same
    <3>3. w.status = "posted"
      BY <1>1, <1>5, <3>1, <3>2 DEF Same
    <3>4. Same(w, u)
      BY <1>5, <3>1, <3>2 DEF Same
    <3> QED
      BY <1>3, <3>3, <3>4
  <2>3. CASE \E r \in shown[d] : Same(r, v) /\ r.status = "posted"
    <3>1. PICK r \in shown[d] : Same(r, v) /\ r.status = "posted"
      BY <2>3
    <3>2. PICK q \in shown[d] : Slot(q) = Slot(r) /\ q.occ = u.occ
      BY <1>2, <2>1, <3>1 DEF Same
    <3>3. q.status = "posted"
      BY <1>2, <3>1, <3>2
    <3>4. Same(q, u)
      BY <1>5, <3>1, <3>2 DEF Same
    <3> QED
      BY <1>3, <3>3, <3>4
  <2> QED
    BY <1>3, <1>5, <2>2, <2>3
<1> QED
  BY <1>3, <1>4, <1>5 DEF Numbered

\* Evidence of a joined ledger is about its own records.
LEMMA JoinedOwn ==
  ASSUME ShownTyped, NEW book, BookOK(book), NEW d \in DOMAIN shown, NEW m, Joined(book, d, m),
         NEW u \in m.rows
  PROVE  u \in Transaction /\ Own(u)
<1>1. u \in Transaction
  BY DEF Joined, BookTyped
<1>2. d \in Documents /\ shown[d] \subseteq Row
  BY DocumentRows DEF ShownTyped
<1>3. CASE \E t \in book.rows : Grown(t, d, u)
  <2>1. PICK t \in book.rows : Grown(t, d, u)
    BY <1>3
  <2>2. Own(t) /\ u.day = t.day /\ u.key = t.key /\ u.occ = t.occ
        /\ u.ids = t.ids \union {Id(d, r) : r \in Hits(t, d)}
    BY <2>1, BookFacts DEF Grown
  <2>3. ASSUME NEW r \in Hits(t, d)
        PROVE  Id(d, r)[2] = t.day /\ Id(d, r)[3] = t.key /\ Id(d, r)[4] = t.occ
    <3>1. r \in Row /\ Same(t, r)
      BY <1>2 DEF Hits
    <3> QED
      BY <1>2, <3>1, Identified DEF Same, Slot
  <2> QED
    BY <1>1, <2>2, <2>3 DEF Own
<1>4. CASE \E r \in shown[d] : Added(d, r, u)
  <2>1. PICK r \in shown[d] : Added(d, r, u)
    BY <1>4
  <2>2. Id(d, r)[2] = r.day /\ Id(d, r)[3] = r.key /\ Id(d, r)[4] = r.occ
    BY <1>2, Identified
  <2> QED
    BY <1>1, <2>1, <2>2 DEF Added, Own
<1> QED
  BY <1>3, <1>4 DEF Joined

\* An identity of a grown record that a retained document shows is the old
\* record's, whichever document gave it.
LEMMA RetainedIdentity ==
  ASSUME ShownTyped, NEW book, BookOK(book), NEW d \in DOMAIN shown, NEW m, Joined(book, d, m),
         NEW t \in book.rows, NEW u \in m.rows, Grown(t, d, u),
         NEW c \in Sources(book), NEW q \in shown[c], Id(c, q) \in u.ids
  PROVE  Id(c, q) \in t.ids
<1>1. PICK w \in book.rows : Id(c, q) \in w.ids /\ Same(w, q)
  BY Recorded
<1>2. c \in DOMAIN shown
  BY BookFacts
<1>3. Same(u, q)
  BY <1>2, JoinedOwn, AttestedOnce
<1>4. Same(w, t)
  BY <1>1, <1>3 DEF Grown, Same, Slot
<1>5. w = t
  BY <1>4 DEF BookOK, Numbered
<1> QED
  BY <1>1, <1>5

\* A joined ledger has its evidence.
LEMMA JoinedEvident ==
  ASSUME ShownTyped, NEW book, BookOK(book), NEW d \in DOMAIN shown, NEW m, Joined(book, d, m)
  PROVE  Evident(m)
<1>1. \A u \in m.rows : \A x \in u.ids : x[2] = u.day /\ x[3] = u.key /\ x[4] = u.occ
  BY JoinedOwn DEF Own
<1>2. ASSUME NEW u \in m.rows, NEW c \in Sources(m), NEW r \in shown[c], Id(c, r) \in u.ids
      PROVE  c \in u.sources
  <2>1. c \in Sources(book) \/ c = d
    BY DEF Joined
  <2>2. c \in DOMAIN shown /\ Same(u, r)
    <3>1. c \in DOMAIN shown
      BY <2>1, BookFacts
    <3> QED
      BY <1>2, <3>1, JoinedOwn, AttestedOnce
  <2>3. CASE \E t \in book.rows : Grown(t, d, u)
    <3>1. PICK t \in book.rows : Grown(t, d, u)
      BY <2>3
    <3>2. CASE c \in Sources(book)
      <4>1. Id(c, r) \in t.ids
        BY <1>2, <3>1, <3>2, RetainedIdentity
      <4>2. c \in t.sources
        BY <3>2, <4>1 DEF BookOK, Evident
      <4> QED
        BY <3>1, <4>2 DEF Grown
    <3>3. CASE c = d
      <4>1. r \in Hits(t, d)
        BY <2>2, <3>1, <3>3 DEF Grown, Hits, Same, Slot
      <4> QED
        BY <3>1, <3>3, <4>1 DEF Grown
    <3> QED
      BY <2>1, <3>2, <3>3
  <2>4. CASE \E q \in shown[d] : Fresh(book, q) /\ Added(d, q, u)
    <3>1. PICK q \in shown[d] : Fresh(book, q) /\ Added(d, q, u)
      BY <2>4
    <3>2. ASSUME c \in Sources(book) PROVE FALSE
      <4>1. PICK w \in book.rows : Same(w, r)
        BY <3>2, Recorded
      <4>2. Same(w, q)
        BY <2>2, <3>1, <4>1 DEF Added, Same, Slot
      <4> QED
        BY <3>1, <4>2 DEF Fresh
    <3> QED
      BY <2>1, <3>1, <3>2 DEF Added
  <2> QED
    BY <2>3, <2>4 DEF Joined
<1> QED
  BY <1>1, <1>2 DEF Evident

\* The records of a joined ledger are supported by its documents.
LEMMA JoinedSupported ==
  ASSUME ShownTyped, NEW book, BookOK(book), NEW d \in DOMAIN shown, NEW m, Joined(book, d, m),
         NEW u \in m.rows
  PROVE  Supported(m, u)
<1>1. u \in Transaction /\ Own(u)
  BY JoinedOwn
<1>2. Sources(book) \subseteq Sources(m) /\ d \in Sources(m)
  BY DEF Joined
<1>3. CASE \E t \in book.rows : Grown(t, d, u)
  <2>1. PICK t \in book.rows : Grown(t, d, u)
    BY <1>3
  <2>2. Supported(book, t) /\ t.sources \subseteq DOMAIN shown
    BY BookFacts
  <2>3. /\ t.ids \subseteq u.ids /\ t.sources \subseteq u.sources /\ u.id = t.id
        /\ \A c \in u.sources : c \in t.sources \/ (c = d /\ Hits(t, d) # {})
        /\ \A x \in u.ids : x \in t.ids \/ \E r \in Hits(t, d) : x = Id(d, r)
        /\ \A r \in Hits(t, d) : r \in shown[d] /\ Same(t, r) /\ Id(d, r) \in u.ids /\ d \in u.sources
        /\ u.sources \subseteq t.sources \union {d}
    BY <2>1 DEF Grown, Hits
  <2>4. u.id \in u.ids /\ u.sources # {} /\ u.sources \subseteq Sources(m)
    BY <1>2, <2>2, <2>3 DEF Supported
  <2>5. ASSUME NEW c \in u.sources PROVE \E q \in shown[c] : Id(c, q) \in u.ids
    <3>1. CASE c \in t.sources
      BY <2>2, <2>3, <3>1 DEF Supported
    <3>2. CASE c = d /\ Hits(t, d) # {}
      BY <2>3, <3>2
    <3> QED
      BY <2>3, <3>1, <3>2
  <2>6. ASSUME NEW x \in u.ids PROVE \E c \in u.sources : \E q \in shown[c] : x = Id(c, q)
    <3>1. CASE x \in t.ids
      BY <2>2, <2>3, <3>1 DEF Supported
    <3>2. CASE \E r \in Hits(t, d) : x = Id(d, r)
      BY <2>3, <3>2
    <3> QED
      BY <2>3, <3>1, <3>2
  <2>7. ASSUME u.status = "posted"
        PROVE  \E c \in u.sources : \E q \in shown[c] : Id(c, q) \in u.ids /\ q.status = "posted"
    <3>1. CASE \E r \in Hits(t, d) : r.status = "posted"
      BY <2>3, <3>1
    <3>2. CASE ~\E r \in Hits(t, d) : r.status = "posted"
      <4>1. t.status = "posted"
        BY <2>1, <2>7, <3>2 DEF Grown
      <4> QED
        BY <2>2, <2>3, <4>1 DEF Supported
    <3> QED
      BY <3>1, <3>2
  <2>8. ASSUME NEW c \in u.sources, NEW q \in shown[c], Id(c, q) \in u.ids, q.status = "posted"
        PROVE  u.status = "posted"
    <3>1. CASE c = d
      <4>1. Same(u, q)
        BY <1>1, <2>8, <3>1, AttestedOnce
      <4>2. q \in Hits(t, d)
        BY <2>1, <3>1, <4>1 DEF Grown, Hits, Same, Slot
      <4> QED
        BY <2>1, <2>8, <4>2 DEF Grown
    <3>2. CASE c # d
      <4>1. c \in t.sources /\ c \in Sources(book)
        BY <2>2, <2>3, <3>2 DEF Supported
      <4>2. Id(c, q) \in t.ids
        BY <2>1, <2>8, <4>1, RetainedIdentity
      <4>3. t.status = "posted"
        BY <2>2, <2>8, <4>1, <4>2 DEF Supported
      <4> QED
        BY <2>1, <4>3 DEF Grown
    <3> QED
      BY <3>1, <3>2
  <2> QED
    BY <2>4, <2>5, <2>6, <2>7, <2>8 DEF Supported
<1>4. CASE \E r \in shown[d] : Added(d, r, u)
  <2>1. PICK r \in shown[d] : Added(d, r, u)
    BY <1>4
  <2>2. Attested(u, d) = {r}
    BY <1>1, <2>1, AttestedOnce DEF Added
  <2>3. \A q \in shown[d] : Id(d, q) \in u.ids => q = r
    BY <2>2 DEF Attested
  <2> QED
    BY <1>2, <2>1, <2>3 DEF Supported, Added
<1> QED
  BY <1>3, <1>4 DEF Joined

\* A joined ledger that has a page or a statement passes _validate_ledger.
LEMMA JoinedValid ==
  ASSUME ShownTyped, NEW book, BookOK(book), NEW d \in DOMAIN shown, NEW m, Joined(book, d, m),
         d \notin Csvs \/ Sources(book) \ Csvs # {}
  PROVE  Valid(m)
<1>1. Sources(m) \ Csvs # {} /\ Sources(m) = Sources(book) \union {d} /\ Sources(m) \subseteq DOMAIN shown
  BY BookFacts DEF Joined
<1>2. ASSUME NEW u \in m.rows PROVE ValidRecord(m, u) /\ Supported(m, u)
  <2>1. Supported(m, u) /\ u \in Transaction /\ Own(u)
    BY JoinedSupported, JoinedOwn
  <2>2. u.sources \subseteq DOMAIN shown
    BY <1>1, <2>1 DEF Supported
  <2> QED
    BY <2>1, <2>2, ValidIsSupported
<1>3. ASSUME NEW u \in m.rows, NEW v \in m.rows, u.ids \intersect v.ids # {} PROVE u = v
  <2>1. PICK x \in u.ids : x \in v.ids
    BY <1>3
  <2>2. Own(u) /\ Own(v)
    BY JoinedOwn
  <2>3. Same(u, v)
    BY <2>1, <2>2 DEF Own, Same, Slot
  <2> QED
    BY <2>3, JoinedRows
<1>4. ASSUME NEW u \in m.rows, NEW x \in u.ids PROVE \E c \in Sources(m) : x \in Ids(c)
  BY <1>2 DEF Supported, Ids
<1>5. ASSUME NEW c \in Sources(m), NEW x \in Ids(c) PROVE \E u \in m.rows : x \in u.ids
  <2>1. PICK q \in shown[c] : x = Id(c, q)
    BY DEF Ids
  <2>2. CASE c \in Sources(book)
    <3>1. PICK t \in book.rows : x \in t.ids
      BY <2>1, <2>2, Recorded
    <3>2. PICK u \in m.rows : Grown(t, d, u)
      BY DEF Joined
    <3> QED
      BY <3>1, <3>2 DEF Grown
  <2>3. CASE c = d
    BY <2>1, <2>3 DEF Joined
  <2> QED
    BY <1>1, <2>2, <2>3
<1> QED
  BY <1>1, <1>2, <1>3, <1>4, <1>5 DEF Valid

\* A document that is not ambiguous leaves no ambiguous records.
LEMMA JoinedRefused ==
  ASSUME ShownTyped, NEW book, BookOK(book), NEW d \in DOMAIN shown, NEW m, Joined(book, d, m),
         ~Ambiguous(book, d)
  PROVE  Refused(m) /\ Clear(m)
<1>1. /\ \A r \in shown[d] : Fresh(book, r) => \A t \in book.rows : ~EitherWay(r, t)
      /\ \A r, q \in shown[d] : ~CrossDateMatch(r, q)
  <2>1. ASSUME NEW r \in shown[d], Fresh(book, r) PROVE Match(book, d, r) = {}
    BY <2>1, MatchAgrees DEF Fresh
  <2> QED
    BY <2>1 DEF Ambiguous
<1>2. Clear(m)
  BY <1>1 DEF BookOK, Clear, Joined
<1>3. ASSUME NEW u \in m.rows, NEW v \in m.rows, CrossDateMatch(u, v)
      PROVE  \E c \in v.sources : \E r \in Attested(v, c) : r.status = "pending"
  <2>1. u.key = v.key /\ u.status = "pending" /\ v.status = "posted" /\ v.day - u.day \in 1..7
    BY <1>3 DEF CrossDateMatch
  <2>2. ASSUME NEW w \in book.rows, Grown(w, d, v),
               \E c \in w.sources : \E r \in Attested(w, c) : r.status = "pending"
        PROVE  \E c \in v.sources : \E r \in Attested(v, c) : r.status = "pending"
    <3>1. w.sources \subseteq v.sources /\ w.ids \subseteq v.ids
      BY <2>2 DEF Grown
    <3> QED
      BY <2>2, <3>1 DEF Attested
  <2>3. ASSUME NEW w \in book.rows, Grown(w, d, v), w.status = "pending"
        PROVE  \E c \in v.sources : \E r \in Attested(v, c) : r.status = "pending"
    BY <2>2, <2>3, PendingRow
  <2>4. ASSUME NEW w \in book.rows PROVE w.status = "pending" \/ w.status = "posted"
    BY BookFacts DEF Transaction, Status
  <2>5. ASSUME NEW t \in book.rows, Grown(t, d, u) PROVE t.status = "pending"
    BY <2>1, <2>4, <2>5 DEF Grown
  <2>6. ASSUME NEW t \in book.rows, Grown(t, d, u), NEW w \in book.rows, Grown(w, d, v)
        PROVE  \E c \in v.sources : \E r \in Attested(v, c) : r.status = "pending"
    <3>1. CASE w.status = "posted"
      <4>1. CrossDateMatch(t, w)
        BY <2>1, <2>5, <2>6, <3>1 DEF Grown, CrossDateMatch
      <4>2. \E c \in w.sources : \E r \in Attested(w, c) : r.status = "pending"
        BY <4>1 DEF BookOK, Refused
      <4> QED
        BY <2>2, <2>6, <4>2
    <3> QED
      BY <2>3, <2>4, <2>6, <3>1
  <2>7. ASSUME NEW r \in shown[d], Fresh(book, r), Added(d, r, u), NEW w \in book.rows, Grown(w, d, v)
        PROVE  \E c \in v.sources : \E q \in Attested(v, c) : q.status = "pending"
    <3>1. CASE w.status = "posted"
      <4>1. CrossDateMatch(r, w)
        BY <2>1, <2>7, <3>1 DEF Grown, Added, CrossDateMatch
      <4> QED
        BY <1>1, <2>7, <4>1 DEF EitherWay
    <3> QED
      BY <2>3, <2>4, <2>7, <3>1
  <2>8. ASSUME NEW t \in book.rows, Grown(t, d, u), NEW r \in shown[d], Fresh(book, r), Added(d, r, v)
        PROVE  FALSE
    <3>1. CrossDateMatch(t, r)
      BY <2>1, <2>5, <2>8 DEF Grown, Added, CrossDateMatch
    <3> QED
      BY <1>1, <2>8, <3>1 DEF EitherWay
  <2>9. ASSUME NEW r \in shown[d], Added(d, r, u), NEW q \in shown[d], Added(d, q, v)
        PROVE  FALSE
    <3>1. CrossDateMatch(r, q)
      BY <2>1, <2>9 DEF Added, CrossDateMatch
    <3> QED
      BY <1>1, <3>1
  <2> QED
    BY <2>6, <2>7, <2>8, <2>9 DEF Joined
<1> QED
  BY <1>2, <1>3 DEF Refused

\* Merging a document that is not ambiguous keeps all that holds of a ledger.
LEMMA MergeOK ==
  ASSUME ShownTyped, NEW book, BookOK(book), NEW d \in DOMAIN shown,
         ~Ambiguous(book, d), d \notin Csvs \/ Sources(book) \ Csvs # {}
  PROVE  BookOK(Merge(book, d)) /\ Sources(Merge(book, d)) = Sources(book) \union {d}
<1> DEFINE m == Merge(book, d)
<1>1. Joined(book, d, m)
  BY MergeJoins
<1> HIDE DEF m
<1>2. BookTyped(m) /\ Sources(m) = Sources(book) \union {d}
  BY <1>1 DEF Joined
<1>3. Valid(m) /\ Numbered(m) /\ Evident(m) /\ Clear(m) /\ Refused(m)
  BY <1>1, JoinedValid, JoinedNumbered, JoinedEvident, JoinedRefused
<1> QED
  BY <1>2, <1>3 DEF BookOK, m

\* A document that the ledger retains merges into the ledger itself.
LEMMA Replayed ==
  ASSUME ShownTyped, NEW book, BookOK(book), NEW d \in Sources(book)
  PROVE  ~Ambiguous(book, d) /\ Merge(book, d) = book
<1>1. d \in DOMAIN shown
  BY BookFacts
<1>2. ASSUME NEW r \in shown[d] PROVE Match(book, d, r) # {} /\ ~Fresh(book, r)
  <2>1. PICK t \in book.rows : Same(t, r)
    BY Recorded
  <2>2. Match(book, d, r) = {u \in book.rows : Same(u, r)}
    BY <1>1, MatchAgrees
  <2> QED
    BY <2>1, <2>2 DEF Fresh
<1>3. ~Ambiguous(book, d)
  BY <1>2 DEF Ambiguous, BookOK, Clear
<1>4. ASSUME NEW t \in book.rows PROVE Absorb(t, d, Hits(t, d)) = t
  <2>1. t \in Transaction /\ Supported(book, t)
    BY BookFacts
  <2>2. ASSUME NEW r \in Hits(t, d) PROVE Id(d, r) \in t.ids /\ d \in t.sources /\ r \in shown[d]
    <3>1. r \in shown[d] /\ Same(t, r)
      BY DEF Hits
    <3>2. PICK w \in book.rows : Id(d, r) \in w.ids /\ Same(w, r) /\ d \in w.sources
      BY <3>1, Recorded
    <3>3. Same(t, w)
      BY <3>1, <3>2 DEF Same
    <3>4. w = t
      BY <3>3 DEF BookOK, Numbered
    <3> QED
      BY <3>1, <3>2, <3>4
  <2>3. (\E r \in Hits(t, d) : r.status = "posted") => t.status = "posted"
    BY <2>1, <2>2 DEF Supported
  <2>4. Grown(t, d, t)
    BY <2>1, <2>2, <2>3 DEF Grown
  <2>5. Grown(t, d, Absorb(t, d, Hits(t, d)))
    BY <1>1, <2>1, AbsorbGrows
  <2> QED
    BY <2>4, <2>5, GrownOnce
<1>5. /\ Merge(book, d).rows =
           {Absorb(t, d, Hits(t, d)) : t \in book.rows}
           \union {Record(d, r) : r \in {q \in shown[d] : Fresh(book, q)}}
      /\ Merge(book, d).captures = Capture(book, d)
      /\ Merge(book, d) = [rows |-> Merge(book, d).rows, captures |-> Merge(book, d).captures]
  BY <1>1, MergedRows
<1>6. Merge(book, d).rows = book.rows
  <2>1. {Absorb(t, d, Hits(t, d)) : t \in book.rows} = book.rows
    BY <1>4
  <2>2. {Record(d, r) : r \in {q \in shown[d] : Fresh(book, q)}} = {}
    BY <1>2
  <2> QED
    BY <1>5, <2>1, <2>2
<1>7. Merge(book, d).captures = book.captures
  BY <1>5 DEF Capture
<1>8. Merge(book, d) = [rows |-> book.rows, captures |-> book.captures]
  BY <1>5, <1>6, <1>7
<1>9. book = [rows |-> book.rows, captures |-> book.captures]
  BY DEF BookOK, BookTyped
<1> QED
  BY <1>3, <1>8, <1>9

\* What holds of a ledger still holds when other documents are submitted.
LEMMA StillOK ==
  ASSUME ShownTyped, NEW book, BookOK(book),
         DOMAIN shown \subseteq DOMAIN shown', \A d \in DOMAIN shown : shown'[d] = shown[d]
  PROVE  BookOK(book)'
<1>1. /\ Sources(book) \subseteq DOMAIN shown
      /\ \A t \in book.rows : t.sources \subseteq DOMAIN shown
  BY BookFacts
<1>2. BookTyped(book)'
  BY DEF BookOK, BookTyped
<1>3. \A t, d : d \in DOMAIN shown => Attested(t, d)' = Attested(t, d)
  BY DEF Attested
<1>4. Valid(book)'
  <2>1. \A d \in DOMAIN shown : Ids(d)' = Ids(d)
    BY DEF Ids
  <2>2. ASSUME NEW t \in book.rows PROVE ValidRecord(book, t)'
    <3>1. ValidRecord(book, t)
      BY DEF BookOK, Valid
    <3>2. \A d \in t.sources : Attested(t, d)' = Attested(t, d)
      BY <1>1, <1>3
    <3> QED
      BY <3>1, <3>2 DEF ValidRecord
  <2>3. UNION {Ids(d)' : d \in Sources(book)} = UNION {Ids(d) : d \in Sources(book)}
    BY <1>1, <2>1
  <2>4. /\ book.captures # <<>> => Sources(book) \ Csvs # {}
        /\ \A t, u \in book.rows : t.ids \intersect u.ids # {} => t = u
        /\ UNION {t.ids : t \in book.rows} = UNION {Ids(d) : d \in Sources(book)}
    BY DEF BookOK, Valid
  <2> QED
    BY <2>2, <2>3, <2>4 DEF Valid
<1>5. Numbered(book)' /\ Evident(book)' /\ Clear(book)'
  <2>1. \A d \in Sources(book) : shown'[d] = shown[d]
    BY <1>1
  <2> QED
    BY <2>1 DEF BookOK, Numbered, Evident, Clear
<1>6. Refused(book)'
  <2>1. ASSUME NEW t \in book.rows, NEW u \in book.rows, CrossDateMatch(t, u)
        PROVE  \E d \in u.sources : \E r \in Attested(u, d)' : r.status = "pending"
    <3>1. \E d \in u.sources : \E r \in Attested(u, d) : r.status = "pending"
      BY <2>1 DEF BookOK, Refused
    <3> QED
      BY <1>1, <1>3, <3>1
  <2> QED
    BY <2>1 DEF Refused
<1> QED
  BY <1>2, <1>4, <1>5, <1>6 DEF BookOK
-----------------------------------------------------------------------------
\* What the documents show is readable.
LEMMA TypedIsShown ==
  ASSUME CardTyped
  PROVE  ShownTyped
BY DEF CardTyped, ShownTyped, Contents, AllPosted

\* The first ledger.
LEMMA EmptyOK ==
  ASSUME DOMAIN shown = {}
  PROVE  BookOK(Empty)
<1>1. Empty.rows = {} /\ Empty.captures = <<>> /\ Sources(Empty) = {}
  BY DEF Empty, Sources, Range
<1>2. BookTyped(Empty)
  <2>1. IsFiniteSet({})
    BY FS_EmptySet
  <2> QED
    BY <1>1, <2>1 DEF BookTyped, Empty
<1>3. Valid(Empty)
  BY <1>1 DEF Valid
<1> QED
  BY <1>1, <1>2, <1>3 DEF BookOK, Numbered, Evident, Clear, Refused

\* The state at the start.
LEMMA CardInit ==
  ASSUME Init
  PROVE  CardInv
<1>1. DOMAIN shown = {} /\ ledger = Empty /\ lock = Nobody
      /\ pc = [i \in Importers |-> "idle"] /\ mine = [i \in Importers |-> Nothing]
      /\ imports = 0 /\ faults = 0
  BY DEF Init
<1>2. CardTyped
  <2>1. MaxImports \in Nat /\ MaxFaults \in Nat
    BY CardAssumption
  <2> QED
    BY <1>1, <2>1 DEF CardTyped, Nothing, Places
<1>3. BookOK(ledger)
  BY <1>1, EmptyOK
<1>4. LockHeld
  BY <1>1, CardAssumption DEF LockHeld, Held
<1>5. \A i \in Importers : InMemory(i)
  BY <1>1 DEF InMemory
<1> QED
  BY <1>2, <1>3, <1>4, <1>5 DEF CardInv

\* Leaving frees the importer's lock.
LEMMA LeaveKeeps ==
  ASSUME CardInv, NEW i \in Importers, Leave(i)
  PROVE  /\ pc' \in [Importers -> Places] /\ pc'[i] = "idle"
         /\ \A j \in Importers \ {i} : pc'[j] = pc[j] /\ mine'[j] = mine[j]
         /\ DOMAIN mine' = Importers /\ mine' = [j \in Importers |-> mine'[j]]
         /\ mine'[i] = Nothing
         /\ lock' \in Importers \union {Nobody} /\ LockHeld'
<1>1. /\ pc \in [Importers -> Places] /\ DOMAIN mine = Importers
      /\ mine = [j \in Importers |-> mine[j]]
      /\ lock \in Importers \union {Nobody}
      /\ \A j \in Importers : lock = j <=> pc[j] \in Held
  BY DEF CardInv, CardTyped, LockHeld
<1>2. /\ pc' = [pc EXCEPT ![i] = "idle"] /\ mine' = [mine EXCEPT ![i] = Nothing]
      /\ lock' = IF lock = i THEN Nobody ELSE lock
  BY DEF Leave, Goto
<1>3. /\ pc' \in [Importers -> Places] /\ pc'[i] = "idle"
      /\ \A j \in Importers \ {i} : pc'[j] = pc[j] /\ mine'[j] = mine[j]
  BY <1>1, <1>2 DEF Places
<1>4. DOMAIN mine' = Importers /\ mine' = [j \in Importers |-> mine'[j]] /\ mine'[i] = Nothing
  BY <1>1, <1>2
<1>5. lock' \in Importers \union {Nobody} /\ LockHeld'
  BY <1>1, <1>2, <1>3, CardAssumption DEF LockHeld, Held
<1> QED
  BY <1>3, <1>4, <1>5

\* A step of one importer that shows no document and writes no ledger keeps
\* what holds if it keeps what holds of the importer.
LEMMA OnlyMine ==
  ASSUME CardInv, NEW i \in Importers, UNCHANGED <<shown, ledger>>,
         pc' \in [Importers -> Places],
         DOMAIN mine' = Importers, mine' = [j \in Importers |-> mine'[j]],
         mine'[i] = [bundle |-> mine'[i].bundle, merged |-> mine'[i].merged],
         \A j \in Importers \ {i} : pc'[j] = pc[j] /\ mine'[j] = mine[j],
         lock' \in Importers \union {Nobody}, LockHeld',
         imports' \in 0..MaxImports, faults' \in 0..MaxFaults,
         InMemory(i)'
  PROVE  CardInv'
<1>1. CardTyped /\ BookOK(ledger) /\ \A j \in Importers : InMemory(j)
  BY DEF CardInv
<1>2. CardTyped'
  BY <1>1 DEF CardTyped, Contents
<1>3. BookOK(ledger)'
  <2>1. PICK b : b = ledger
    OBVIOUS
  <2>2. ShownTyped /\ BookOK(b) /\ shown' = shown /\ ledger' = b
    BY <1>1, <2>1, TypedIsShown
  <2>3. BookOK(b)'
    BY <2>2, StillOK
  <2> QED
    BY <2>2, <2>3
<1>4. ASSUME NEW j \in Importers, j # i PROVE InMemory(j)'
  <2>1. PICK b : b = mine[j].merged
    OBVIOUS
  <2>2. InMemory(j) /\ pc'[j] = pc[j] /\ mine'[j] = mine[j] /\ shown' = shown /\ ledger' = ledger
    BY <1>1, <1>4
  <2>3. pc[j] \in {"merging", "write", "readback"} => BookOK(b)'
    <3>1. pc[j] \in {"merging", "write", "readback"} => BookOK(b)
      BY <2>1, <2>2 DEF InMemory
    <3> QED
      BY <1>1, <2>2, <3>1, StillOK, TypedIsShown
  <2>4. mine'[j].merged = b
    BY <2>1, <2>2
  <2>5. pc[j] \in {"merging", "write", "readback"} => BookOK(mine[j].merged)'
    BY <2>3, <2>4
  <2>6. pc[j] = "submitted" => Submitted(mine[j].bundle)'
    BY <2>2 DEF InMemory, Submitted
  <2>7. Sources(mine'[j].merged) = Sources(mine[j].merged)
    BY <2>2
  <2> QED
    BY <2>2, <2>5, <2>6, <2>7 DEF InMemory
<1> QED
  BY <1>2, <1>3, <1>4 DEF CardInv

\* A bundle is one page, or files with the CSVs last.
LEMMA BundleIs ==
  ASSUME NEW b \in Bundles
  PROVE  /\ b \in Seq(Documents) /\ Len(b) \in 1..MaxBundle /\ DOMAIN b = 1..Len(b)
         /\ \A n \in DOMAIN b : b[1] \in Csvs => b[n] \in Csvs
         /\ \A n \in DOMAIN b : Contents(b[n]) = Contents(b[1])
<1>1. MaxBundle \in Nat \ {0} /\ Pages \intersect Files = {}
  BY CardAssumption DEF Files
<1>2. CASE \E p \in Pages : b = <<p>>
  <2>1. PICK p \in Pages : b = <<p>>
    BY <1>2
  <2>2. b \in Seq(Documents) /\ Len(b) = 1 /\ DOMAIN b = 1..1 /\ b[1] = p
    BY <2>1 DEF Documents
  <2>3. \A n \in DOMAIN b : n = 1
    BY <2>2
  <2> QED
    BY <1>1, <2>2, <2>3
<1>3. CASE ~\E p \in Pages : b = <<p>>
  <2>1. /\ b \in UNION {[1..n -> Files] : n \in 1..MaxBundle}
        /\ \A m, n \in DOMAIN b : m < n => b[m] # b[n] /\ (b[m] \in Csvs => b[n] \in Csvs)
    BY <1>3 DEF Bundles
  <2>2. PICK n \in 1..MaxBundle : b \in [1..n -> Files]
    BY <2>1
  <2>3. n \in Nat /\ n \in 1..MaxBundle /\ DOMAIN b = 1..n
    BY <1>1, <2>2
  <2>4. b \in Seq(Files) /\ Len(b) = n
    BY <2>2, <2>3
  <2>5. b \in Seq(Documents)
    BY <2>4 DEF Documents
  <2>6. ASSUME NEW k \in DOMAIN b PROVE b[1] \in Csvs => b[k] \in Csvs
    <3>1. 1 \in DOMAIN b /\ (k = 1 \/ 1 < k)
      BY <2>3, <2>6
    <3> QED
      BY <2>1, <3>1
  <2>7. ASSUME NEW k \in DOMAIN b PROVE Contents(b[k]) = Contents(b[1])
    <3>1. b[k] \in Files /\ b[1] \in Files
      BY <2>2, <2>3
    <3>2. b[k] \notin Pages /\ b[1] \notin Pages
      BY <1>1, <3>1
    <3> QED
      BY <3>2 DEF Contents
  <2> QED
    BY <2>3, <2>4, <2>5, <2>6, <2>7
<1> QED
  BY <1>2, <1>3

\* A submission adds documents, and leaves the other importers alone.
LEMMA SubmitKeeps ==
  ASSUME CardInv, NEW i \in Importers, Submit(i)
  PROVE  CardInv'
<1>1. CardTyped /\ ShownTyped /\ BookOK(ledger) /\ \A j \in Importers : InMemory(j)
  BY TypedIsShown DEF CardInv
<1>2. PICK b \in Bundles :
        /\ \E new \in [Range(b) \ DOMAIN shown -> Contents(b[1])] :
             shown' = [d \in DOMAIN shown \union DOMAIN new |->
                         IF d \in DOMAIN new THEN new[d] ELSE shown[d]]
        /\ mine' = [mine EXCEPT ![i].bundle = b]
  BY DEF Submit
<1>3. PICK new \in [Range(b) \ DOMAIN shown -> Contents(b[1])] :
        shown' = [d \in DOMAIN shown \union DOMAIN new |->
                    IF d \in DOMAIN new THEN new[d] ELSE shown[d]]
  BY <1>2
<1>4. /\ b \in Seq(Documents) /\ Len(b) \in 1..MaxBundle /\ DOMAIN b = 1..Len(b)
      /\ \A n \in DOMAIN b : b[1] \in Csvs => b[n] \in Csvs
      /\ \A n \in DOMAIN b : Contents(b[n]) = Contents(b[1])
  BY BundleIs
<1>5. /\ pc[i] = "idle" /\ imports < MaxImports /\ imports' = imports + 1
      /\ pc' = [pc EXCEPT ![i] = "submitted"]
      /\ ledger' = ledger /\ lock' = lock /\ faults' = faults
  BY DEF Submit, Goto
<1>6. /\ DOMAIN new = Range(b) \ DOMAIN shown
      /\ Range(b) \subseteq Documents /\ \A d \in Range(b) : Contents(d) = Contents(b[1])
  BY <1>4 DEF Range
<1>7. /\ DOMAIN shown \subseteq DOMAIN shown' /\ \A d \in DOMAIN shown : shown'[d] = shown[d]
      /\ DOMAIN shown' = DOMAIN shown \union Range(b)
      /\ \A d \in DOMAIN shown' \ DOMAIN shown : shown'[d] = new[d] /\ d \in Range(b)
  BY <1>3, <1>6
<1>8. DOMAIN shown' \subseteq Documents /\ \A d \in DOMAIN shown' : shown'[d] \in Contents(d)
  <2>1. ASSUME NEW d \in DOMAIN shown' PROVE shown'[d] \in Contents(d)
    <3>1. CASE d \in DOMAIN shown
      BY <1>1, <1>7, <3>1 DEF CardTyped
    <3>2. CASE d \notin DOMAIN shown
      BY <1>3, <1>6, <1>7, <3>2
    <3> QED
      BY <3>1, <3>2
  <2> QED
    BY <1>1, <1>6, <1>7, <2>1 DEF CardTyped
<1>9. /\ pc' \in [Importers -> Places] /\ pc'[i] = "submitted"
      /\ \A j \in Importers \ {i} : pc'[j] = pc[j] /\ mine'[j] = mine[j]
      /\ DOMAIN mine' = Importers /\ mine' = [j \in Importers |-> mine'[j]]
      /\ mine'[i] = [bundle |-> b, merged |-> mine[i].merged]
  <2>1. /\ pc \in [Importers -> Places] /\ DOMAIN mine = Importers
        /\ mine = [j \in Importers |-> mine[j]]
        /\ mine[i] = [bundle |-> mine[i].bundle, merged |-> mine[i].merged]
    BY <1>1 DEF CardTyped
  <2>2. mine'[i] = [mine[i] EXCEPT !.bundle = b]
    BY <1>2, <2>1
  <2>3. mine'[i] = [bundle |-> b, merged |-> mine[i].merged]
    BY <2>1, <2>2
  <2> QED
    BY <1>2, <1>5, <2>1, <2>3 DEF Places
<1>10. CardTyped'
  <2>1. imports' \in 0..MaxImports /\ faults' \in 0..MaxFaults
    BY <1>1, <1>5, CardAssumption DEF CardTyped
  <2>2. \A j \in Importers : mine'[j] = [bundle |-> mine'[j].bundle, merged |-> mine'[j].merged]
    BY <1>1, <1>9 DEF CardTyped
  <2>3. lock' \in Importers \union {Nobody}
    BY <1>1, <1>5 DEF CardTyped
  <2> QED
    BY <1>8, <1>9, <2>1, <2>2, <2>3 DEF CardTyped, Contents
<1>11. BookOK(ledger)'
  <2>1. PICK c : c = ledger
    OBVIOUS
  <2>2. BookOK(c)'
    BY <1>1, <1>7, <2>1, StillOK
  <2> QED
    BY <1>5, <2>1, <2>2
<1>12. LockHeld'
  BY <1>5, <1>9 DEF CardInv, LockHeld, Held
<1>13. InMemory(i)'
  <2>1. Submitted(mine[i].bundle)'
    <3>1. b \in Seq(DOMAIN shown')
      <4>1. \A n \in 1..Len(b) : b[n] \in Range(b)
        BY <1>4 DEF Range
      <4> QED
        BY <1>4, <1>7, <4>1
    <3>2. mine'[i].bundle = b
      BY <1>9
    <3> QED
      BY <1>4, <3>1, <3>2 DEF Submitted
  <2> QED
    BY <1>9, <2>1 DEF InMemory
<1>14. ASSUME NEW j \in Importers, j # i PROVE InMemory(j)'
  <2>1. PICK c : c = mine[j].merged
    OBVIOUS
  <2>2. InMemory(j) /\ pc'[j] = pc[j] /\ mine'[j] = mine[j]
    BY <1>1, <1>9, <1>14
  <2>3. pc[j] \in {"merging", "write", "readback"} => BookOK(c)'
    <3>1. pc[j] \in {"merging", "write", "readback"} => BookOK(c)
      BY <2>1, <2>2 DEF InMemory
    <3> QED
      BY <1>1, <1>7, <3>1, StillOK
  <2>4. mine'[j].merged = c
    BY <2>1, <2>2
  <2>5. pc[j] \in {"merging", "write", "readback"} => BookOK(mine[j].merged)'
    BY <2>3, <2>4
  <2>6. pc[j] = "submitted" => Submitted(mine[j].bundle)'
    BY <1>7, <2>2 DEF InMemory, Submitted
  <2>7. pc[j] = "merging" => mine[j].bundle \in Seq(DOMAIN shown')
    BY <1>7, <2>2 DEF InMemory
  <2>8. Sources(mine'[j].merged) = Sources(mine[j].merged)
    BY <2>2
  <2> QED
    BY <1>5, <2>2, <2>5, <2>6, <2>7, <2>8 DEF InMemory
<1> QED
  BY <1>10, <1>11, <1>12, <1>13, <1>14 DEF CardInv

\* What holds of the importers, in the form that steps use.
LEMMA CardFacts ==
  ASSUME CardInv
  PROVE  /\ CardTyped /\ ShownTyped /\ BookOK(ledger) /\ \A j \in Importers : InMemory(j)
         /\ pc \in [Importers -> Places]
         /\ DOMAIN mine = Importers /\ mine = [j \in Importers |-> mine[j]]
         /\ \A j \in Importers : mine[j] = [bundle |-> mine[j].bundle, merged |-> mine[j].merged]
         /\ lock \in Importers \union {Nobody}
         /\ \A j \in Importers : lock = j <=> pc[j] \in Held
         /\ imports \in 0..MaxImports /\ faults \in 0..MaxFaults
BY TypedIsShown DEF CardInv, CardTyped, LockHeld

\* Loading takes the lock and the ledger.
LEMMA LoadKeeps ==
  ASSUME CardInv, NEW i \in Importers, Load(i)
  PROVE  CardInv'
<1>1. /\ BookOK(ledger) /\ InMemory(i) /\ ShownTyped
      /\ pc \in [Importers -> Places]
      /\ DOMAIN mine = Importers /\ mine = [j \in Importers |-> mine[j]]
      /\ mine[i] = [bundle |-> mine[i].bundle, merged |-> mine[i].merged]
      /\ lock \in Importers \union {Nobody}
      /\ \A j \in Importers : lock = j <=> pc[j] \in Held
      /\ imports \in 0..MaxImports /\ faults \in 0..MaxFaults
  BY CardFacts
<1>2. /\ pc[i] = "submitted" /\ lock = Nobody /\ lock' = i
      /\ UNCHANGED <<shown, ledger, imports, faults>>
      /\ \/ pc' = [pc EXCEPT ![i] = "review"] /\ mine' = mine
         \/ /\ Bound(mine[i].bundle) /\ pc' = [pc EXCEPT ![i] = "merging"]
            /\ mine' = [mine EXCEPT ![i].merged = ledger]
  BY DEF Load, Goto
<1>3. /\ pc' \in [Importers -> Places] /\ pc'[i] \in {"review", "merging"}
      /\ \A j \in Importers \ {i} : pc'[j] = pc[j] /\ mine'[j] = mine[j]
      /\ DOMAIN mine' = Importers /\ mine' = [j \in Importers |-> mine'[j]]
  BY <1>1, <1>2 DEF Places
<1>4. LockHeld' /\ lock' \in Importers \union {Nobody}
  BY <1>1, <1>2, <1>3, CardAssumption DEF LockHeld, Held
<1>5. CASE pc' = [pc EXCEPT ![i] = "review"] /\ mine' = mine
  <2>1. InMemory(i)'
    BY <1>1, <1>5 DEF InMemory
  <2>2. mine'[i] = [bundle |-> mine'[i].bundle, merged |-> mine'[i].merged]
    BY <1>1, <1>5
  <2> QED
    BY <1>1, <1>2, <1>3, <1>4, <2>1, <2>2, OnlyMine
<1>6. CASE /\ Bound(mine[i].bundle) /\ pc' = [pc EXCEPT ![i] = "merging"]
           /\ mine' = [mine EXCEPT ![i].merged = ledger]
  <2> DEFINE b == mine[i].bundle
  <2>1. Submitted(b) /\ b \in Seq(DOMAIN shown) /\ Len(b) \in 1..MaxBundle
        /\ \A n \in DOMAIN b : b[1] \in Csvs => b[n] \in Csvs
    BY <1>1, <1>2 DEF InMemory, Submitted
  <2>2. pc'[i] = "merging" /\ mine'[i] = [bundle |-> b, merged |-> ledger]
    <3>1. mine'[i] = [mine[i] EXCEPT !.merged = ledger]
      BY <1>1, <1>6
    <3> QED
      BY <1>1, <1>6, <3>1
  <2>3. Sources(ledger) \ Csvs = {} => b[1] \notin Csvs
    <3>1. Sources(ledger) \ Csvs = {} => ~(Range(b) \subseteq Csvs)
      BY <1>6 DEF Bound
    <3>2. b[1] \in Csvs => Range(b) \subseteq Csvs
      BY <2>1 DEF Range
    <3> QED
      BY <3>1, <3>2
  <2>4. b # <<>>
    BY <2>1, CardAssumption
  <2>5. BookOK(mine[i].merged)'
    <3>1. PICK c : c = ledger
      OBVIOUS
    <3>2. BookOK(c)'
      BY <1>1, <1>2, <3>1, StillOK
    <3>3. mine'[i].merged = c
      BY <2>2, <3>1
    <3> QED
      BY <3>2, <3>3
  <2>6. InMemory(i)'
    <3>1. mine'[i].bundle = b /\ mine'[i].merged = ledger /\ shown' = shown
      BY <1>2, <2>2
    <3> QED
      BY <2>1, <2>2, <2>3, <2>4, <2>5, <3>1 DEF InMemory
  <2> QED
    BY <1>1, <1>2, <1>3, <1>4, <2>2, <2>6, OnlyMine
<1> QED
  BY <1>2, <1>5, <1>6

\* Merging never makes a ledger that _validate_ledger refuses.
LEMMA MergeNextKeeps ==
  ASSUME CardInv, NEW i \in Importers, MergeNext(i)
  PROVE  CardInv'
<1> DEFINE d == mine[i].bundle[1]
           rest == Tail(mine[i].bundle)
           merged == Merge(mine[i].merged, d)
           next == IF rest # <<>> THEN "merging"
                   ELSE IF merged = ledger THEN "readback" ELSE "write"
<1>1. /\ BookOK(ledger) /\ InMemory(i) /\ ShownTyped
      /\ pc \in [Importers -> Places]
      /\ DOMAIN mine = Importers /\ mine = [j \in Importers |-> mine[j]]
      /\ mine[i] = [bundle |-> mine[i].bundle, merged |-> mine[i].merged]
      /\ lock \in Importers \union {Nobody}
      /\ \A j \in Importers : lock = j <=> pc[j] \in Held
      /\ imports \in 0..MaxImports /\ faults \in 0..MaxFaults
  BY CardFacts
<1>2. pc[i] = "merging"
  BY DEF MergeNext
<1>3. /\ BookOK(mine[i].merged)
      /\ mine[i].bundle \in Seq(DOMAIN shown) /\ mine[i].bundle # <<>>
      /\ Sources(mine[i].merged) \ Csvs = {} => d \notin Csvs
  BY <1>1, <1>2 DEF InMemory
<1>4. d \in DOMAIN shown /\ rest \in Seq(DOMAIN shown) /\ Head(mine[i].bundle) = d
  <2> DEFINE b == mine[i].bundle
  <2>1. b \in Seq(DOMAIN shown) /\ b # <<>>
    BY <1>3
  <2> HIDE DEF b
  <2>2. b[1] \in DOMAIN shown /\ Tail(b) \in Seq(DOMAIN shown) /\ Head(b) = b[1]
    BY <2>1
  <2> QED
    BY <2>2 DEF b
<1>5. ASSUME ~Ambiguous(mine[i].merged, d)
      PROVE  BookOK(merged) /\ Sources(merged) = Sources(mine[i].merged) \union {d}
  <2>1. PICK b : b = mine[i].merged
    OBVIOUS
  <2>2. PICK e : e = d
    OBVIOUS
  <2> HIDE DEF d
  <2>3. BookOK(b) /\ ~Ambiguous(b, e) /\ e \in DOMAIN shown /\ (e \notin Csvs \/ Sources(b) \ Csvs # {})
    BY <1>3, <1>4, <1>5, <2>1, <2>2
  <2>4. BookOK(Merge(b, e)) /\ Sources(Merge(b, e)) = Sources(b) \union {e}
    BY <1>1, <2>3, MergeOK
  <2> QED
    BY <2>1, <2>2, <2>4
<1>6. /\ UNCHANGED <<shown, ledger, lock, imports, faults>>
      /\ \/ pc' = [pc EXCEPT ![i] = "review"] /\ mine' = mine
         \/ /\ ~Ambiguous(mine[i].merged, d)
            /\ pc' = [pc EXCEPT ![i] = next]
            /\ mine' = [mine EXCEPT ![i] = [bundle |-> rest, merged |-> merged]]
  <2>1. ~Ambiguous(mine[i].merged, d) => Valid(merged)
    BY <1>5 DEF BookOK
  <2> HIDE DEF merged, rest, d
  <2>2. /\ UNCHANGED <<shown, ledger, lock, imports, faults>>
        /\ \/ Ambiguous(mine[i].merged, d) /\ Goto(i, "review") /\ UNCHANGED mine
           \/ /\ ~Ambiguous(mine[i].merged, d) /\ ~Valid(merged)
              /\ Goto(i, "damaged") /\ UNCHANGED mine
           \/ /\ ~Ambiguous(mine[i].merged, d) /\ Valid(merged)
              /\ Goto(i, CASE rest # <<>> -> "merging"
                           [] rest = <<>> /\ merged = ledger -> "readback"
                           [] rest = <<>> /\ merged # ledger -> "write")
              /\ mine' = [mine EXCEPT ![i] = [bundle |-> rest, merged |-> merged]]
    BY <1>4 DEF MergeNext, merged, rest
  <2> QED
    BY <2>1, <2>2 DEF Goto
<1> HIDE DEF merged, rest, d
<1>7. /\ pc' \in [Importers -> Places] /\ pc'[i] \in Held
      /\ \A j \in Importers \ {i} : pc'[j] = pc[j] /\ mine'[j] = mine[j]
      /\ DOMAIN mine' = Importers /\ mine' = [j \in Importers |-> mine'[j]]
      /\ mine'[i] = [bundle |-> mine'[i].bundle, merged |-> mine'[i].merged]
  BY <1>1, <1>6 DEF Places, Held
<1>8. LockHeld' /\ lock' \in Importers \union {Nobody}
  BY <1>1, <1>2, <1>6, <1>7 DEF LockHeld, Held
<1>9. InMemory(i)'
  <2>1. CASE pc' = [pc EXCEPT ![i] = "review"]
    BY <1>1, <2>1 DEF InMemory
  <2>2. CASE /\ ~Ambiguous(mine[i].merged, d)
             /\ pc' = [pc EXCEPT ![i] = next]
             /\ mine' = [mine EXCEPT ![i] = [bundle |-> rest, merged |-> merged]]
    <3>1. /\ pc'[i] = next
          /\ mine'[i].bundle = rest /\ mine'[i].merged = merged /\ ledger' = ledger /\ shown' = shown
      BY <1>1, <1>6, <2>2
    <3>2. BookOK(mine[i].merged)'
      <4>1. PICK c : c = merged
        OBVIOUS
      <4>2. BookOK(c)'
        BY <1>1, <1>5, <2>2, <3>1, <4>1, StillOK
      <4> QED
        BY <3>1, <4>1, <4>2
    <3>3. Sources(merged) \ Csvs # {}
      BY <1>3, <1>5, <2>2
    <3>4. rest \in Seq(DOMAIN shown')
      BY <1>4, <3>1
    <3> QED
      BY <3>1, <3>2, <3>3, <3>4 DEF InMemory
  <2> QED
    BY <1>6, <2>1, <2>2
<1> QED
  BY <1>1, <1>6, <1>7, <1>8, <1>9, OnlyMine

\* The steps that follow the merge.
LEMMA AfterMergeKeeps ==
  ASSUME CardInv, NEW i \in Importers, Write(i) \/ Readback(i) \/ Refuse(i) \/ Fail(i)
  PROVE  CardInv'
<1>1. /\ BookOK(ledger) /\ InMemory(i) /\ ShownTyped
      /\ \A j \in Importers : InMemory(j)
      /\ pc \in [Importers -> Places]
      /\ DOMAIN mine = Importers /\ mine = [j \in Importers |-> mine[j]]
      /\ \A j \in Importers : mine[j] = [bundle |-> mine[j].bundle, merged |-> mine[j].merged]
      /\ lock \in Importers \union {Nobody}
      /\ \A j \in Importers : lock = j <=> pc[j] \in Held
      /\ imports \in 0..MaxImports /\ faults \in 0..MaxFaults
  BY CardFacts
<1>2. ASSUME Leave(i), UNCHANGED <<shown, ledger, imports>>, faults' \in 0..MaxFaults
      PROVE  CardInv'
  <2>1. /\ pc' \in [Importers -> Places] /\ pc'[i] = "idle"
        /\ \A j \in Importers \ {i} : pc'[j] = pc[j] /\ mine'[j] = mine[j]
        /\ DOMAIN mine' = Importers /\ mine' = [j \in Importers |-> mine'[j]]
        /\ mine'[i] = Nothing
        /\ lock' \in Importers \union {Nobody} /\ LockHeld'
    BY <1>2, LeaveKeeps
  <2>2. InMemory(i)'
    BY <2>1 DEF InMemory
  <2>3. mine'[i] = [bundle |-> mine'[i].bundle, merged |-> mine'[i].merged]
    BY <2>1 DEF Nothing
  <2>4. imports' \in 0..MaxImports
    BY <1>1, <1>2
  <2> QED
    BY <1>2, <2>1, <2>2, <2>3, <2>4, OnlyMine
<1>3. CASE Write(i)
  <2>1. /\ pc[i] = "write" /\ ledger' = mine[i].merged /\ pc' = [pc EXCEPT ![i] = "readback"]
        /\ UNCHANGED <<shown, lock, mine, imports, faults>>
    BY <1>3 DEF Write, Goto
  <2>2. BookOK(ledger)'
    <3>1. PICK b : b = mine[i].merged
      OBVIOUS
    <3>2. BookOK(b)
      BY <1>1, <2>1, <3>1 DEF InMemory
    <3>3. BookOK(b)'
      BY <1>1, <2>1, <3>2, StillOK
    <3>4. ledger' = b
      BY <2>1, <3>1
    <3> QED
      BY <3>3, <3>4
  <2>3. /\ pc' \in [Importers -> Places] /\ pc'[i] = "readback"
        /\ \A j \in Importers \ {i} : pc'[j] = pc[j]
    BY <1>1, <2>1 DEF Places
  <2>4. CardTyped'
    BY <1>1, <2>1, <2>3, CardFacts DEF CardTyped, Contents
  <2>5. LockHeld'
    BY <1>1, <2>1, <2>3 DEF LockHeld, Held
  <2>6. ASSUME NEW j \in Importers PROVE InMemory(j)'
    <3>1. PICK b : b = mine[j].merged
      OBVIOUS
    <3>2. /\ mine'[j] = mine[j] /\ shown' = shown
          /\ pc'[j] = pc[j] \/ (j = i /\ pc'[j] = "readback" /\ pc[j] = "write")
      BY <2>1, <2>3
    <3>3. pc[j] \in {"merging", "write", "readback"} => BookOK(b)
      BY <1>1, <3>1 DEF InMemory
    <3>4. pc[j] \in {"merging", "write", "readback"} => BookOK(b)'
      BY <1>1, <3>2, <3>3, StillOK
    <3>5. mine'[j].merged = b
      BY <3>1, <3>2
    <3>6. pc[j] \in {"merging", "write", "readback"} => BookOK(mine[j].merged)'
      BY <3>4, <3>5
    <3>7. Submitted(mine[j].bundle)' <=> Submitted(mine[j].bundle)
      BY <3>2 DEF Submitted
    <3>8. j # i => pc[j] # "readback"
      BY <1>1, <2>1 DEF Held
    <3>9. InMemory(j)
      BY <1>1
    <3> QED
      BY <2>1, <3>2, <3>6, <3>7, <3>8, <3>9 DEF InMemory
  <2> QED
    BY <2>2, <2>4, <2>5, <2>6 DEF CardInv
<1>4. CASE Readback(i)
  <2>1. pc[i] = "readback" /\ ledger = mine[i].merged
    BY <1>1, <1>4 DEF Readback, InMemory
  <2>2. Leave(i) /\ UNCHANGED <<shown, ledger, imports, faults>>
    BY <1>4, <2>1 DEF Readback
  <2> QED
    BY <1>1, <1>2, <2>2
<1>5. CASE Refuse(i)
  BY <1>1, <1>2, <1>5 DEF Refuse
<1>6. CASE Fail(i)
  <2>1. faults' \in 0..MaxFaults
    BY <1>1, <1>6, CardAssumption DEF Fail
  <2> QED
    BY <1>2, <1>6, <2>1 DEF Fail
<1> QED
  BY <1>3, <1>4, <1>5, <1>6

\* Every step keeps what holds, and so does stuttering.
LEMMA CardStep ==
  ASSUME CardInv, [Next]_vars
  PROVE  CardInv'
<1>1. ASSUME NEW i \in Importers,
             Submit(i) \/ Load(i) \/ MergeNext(i) \/ Write(i) \/ Readback(i) \/ Refuse(i) \/ Fail(i)
      PROVE  CardInv'
  BY <1>1, SubmitKeeps, LoadKeeps, MergeNextKeeps, AfterMergeKeeps
<1>2. CASE UNCHANGED vars
  <2>1. UNCHANGED <<shown, ledger, lock, pc, mine, imports, faults>>
    BY <1>2 DEF vars
  <2>2. CardTyped'
    BY <2>1, CardFacts DEF CardTyped, Contents
  <2>3. ASSUME NEW b, BookOK(b) PROVE BookOK(b)'
    BY <2>1, <2>3, StillOK, CardFacts
  <2>4. BookOK(ledger)'
    <3>1. PICK b : b = ledger
      OBVIOUS
    <3>2. BookOK(b)' /\ ledger' = b
      BY <2>1, <2>3, <3>1, CardFacts
    <3> QED
      BY <3>2
  <2>5. LockHeld'
    BY <2>1 DEF CardInv, LockHeld
  <2>6. ASSUME NEW i \in Importers PROVE InMemory(i)'
    <3>1. PICK b : b = mine[i].merged
      OBVIOUS
    <3>2. InMemory(i) /\ mine'[i] = mine[i] /\ pc'[i] = pc[i] /\ shown' = shown /\ ledger' = ledger
      BY <2>1, CardFacts
    <3>3. pc[i] \in {"merging", "write", "readback"} => BookOK(b)'
      BY <2>3, <3>1, <3>2 DEF InMemory
    <3>4. mine'[i].merged = b
      BY <3>1, <3>2
    <3>5. pc[i] \in {"merging", "write", "readback"} => BookOK(mine[i].merged)'
      BY <3>3, <3>4
    <3>6. Submitted(mine[i].bundle)' <=> Submitted(mine[i].bundle)
      BY <3>2 DEF Submitted
    <3> QED
      BY <3>2, <3>5, <3>6 DEF InMemory
  <2> QED
    BY <2>2, <2>4, <2>5, <2>6 DEF CardInv
<1> QED
  BY <1>1, <1>2 DEF Next

\* The state has its type, and what holds of the ledger on disk holds of every
\* ledger in memory.
THEOREM CardInvariant == Spec => [](TypeOK /\ CardInv)
<1>1. Init => CardInv
  BY CardInit
<1>2. CardInv /\ [Next]_vars => CardInv'
  BY CardStep
<1>3. CardInv => TypeOK
  <2>1. ASSUME CardInv PROVE Sources(ledger) \subseteq DOMAIN shown
    BY <2>1, CardFacts, BookFacts
  <2> QED
    BY <2>1, CardFacts DEF TypeOK, CardTyped, Places, BookOK, BookTyped, Transaction
<1> QED
  BY <1>1, <1>2, <1>3, PTL DEF Spec

\* No mix of readable documents, in any order, with any failure, makes a ledger
\* that _validate_ledger refuses, or a readback that differs from the write.
THEOREM NothingDamagedAlways == Spec => []NothingDamaged
<1>1. CardInv => NothingDamaged
  BY DEF CardInv, BookOK, InMemory, NothingDamaged
<1> QED
  BY <1>1, CardInvariant, PTL

\* A pending and a posted record that may be one purchase are both in the ledger
\* only when the posted one was itself seen pending on its own date.
THEOREM AmbiguityRefusedAlways == Spec => []AmbiguityRefused
<1>1. CardInv => AmbiguityRefused
  BY DEF CardInv, BookOK, Refused, AmbiguityRefused
<1> QED
  BY <1>1, CardInvariant, PTL

\* Importing a retained document again is accepted and changes nothing.
THEOREM ReplayChangesNothingAlways == Spec => []ReplayChangesNothing
<1>1. ASSUME CardInv PROVE ReplayChangesNothing
  <2>1. PICK book : book = ledger
    OBVIOUS
  <2>2. ShownTyped /\ BookOK(book)
    BY <1>1, <2>1, CardFacts
  <2>3. \A d \in Sources(book) : ~Ambiguous(book, d) /\ Merge(book, d) = book
    BY <2>2, Replayed
  <2> QED
    BY <2>1, <2>3 DEF ReplayChangesNothing
<1> QED
  BY <1>1, CardInvariant, PTL
-----------------------------------------------------------------------------
\* Rows numbered from one, joined with rows numbered from one, are as many as
\* the larger of the two.
LEMMA CountsCover ==
  ASSUME NEW X, IsFiniteSet(X), \A x, y \in X : x.occ = y.occ => x = y,
         NEW Y, IsFiniteSet(Y), \A x, y \in Y : x.occ = y.occ => x = y,
         NEW Z, IsFiniteSet(Z), \A x, y \in Z : x.occ = y.occ => x = y,
         \A x \in X : x.occ \in Nat \ {0}, \A y \in Y : y.occ \in Nat \ {0},
         \A x \in X : \A k \in 1..x.occ : \E w \in X : w.occ = k,
         \A y \in Y : \A k \in 1..y.occ : \E w \in Y : w.occ = k,
         \A z \in Z : (\E x \in X : x.occ = z.occ) \/ (\E y \in Y : y.occ = z.occ),
         \A x \in X : \E z \in Z : z.occ = x.occ,
         \A y \in Y : \E z \in Z : z.occ = y.occ
  PROVE  /\ Cardinality(X) \in Nat /\ Cardinality(Y) \in Nat
         /\ Cardinality(Z) = Book!Larger(Cardinality(X), Cardinality(Y))
<1> DEFINE A == {x.occ : x \in X}
           B == {y.occ : y \in Y}
           C == {z.occ : z \in Z}
<1>1. A \in SUBSET (Nat \ {0}) /\ B \in SUBSET (Nat \ {0}) /\ C = A \union B
  OBVIOUS
<1>2. (\A a \in A : 1..a \subseteq A) /\ (\A b \in B : 1..b \subseteq B)
  OBVIOUS
<1>3. /\ IsFiniteSet(A) /\ Cardinality(A) = Cardinality(X)
      /\ IsFiniteSet(B) /\ Cardinality(B) = Cardinality(Y)
      /\ Cardinality(C) = Cardinality(Z)
  <2>1. IsFiniteSet(A) /\ Cardinality(A) = Cardinality(X)
    BY AsManyOccurrences
  <2>2. IsFiniteSet(B) /\ Cardinality(B) = Cardinality(Y)
    BY AsManyOccurrences
  <2>3. Cardinality(C) = Cardinality(Z)
    BY AsManyOccurrences
  <2> QED
    BY <2>1, <2>2, <2>3
<1> HIDE DEF A, B, C
<1>4. /\ Cardinality(A) \in Nat /\ Cardinality(B) \in Nat
      /\ Cardinality(A \union B) =
           IF Cardinality(A) < Cardinality(B) THEN Cardinality(B) ELSE Cardinality(A)
  BY <1>1, <1>2, <1>3, LargerOfTwo
<1> QED
  BY <1>1, <1>3, <1>4 DEF Book!Larger

\* What the counts of a slot are.
Tallies == [Slots -> [all : Nat, posted : Nat]]

\* The posted rows of a slot.
Posted(rows, s) == {r \in In(rows, s) : r.status = "posted"}

\* Rows are counted with natural numbers.
LEMMA TallyIs ==
  ASSUME NEW rows, IsFiniteSet(rows)
  PROVE  /\ Tally(rows) \in Tallies
         /\ \A s \in Slots : /\ Tally(rows)[s].all = Cardinality(In(rows, s))
                             /\ Tally(rows)[s].posted = Cardinality(Posted(rows, s))
<1>1. ASSUME NEW s \in Slots
      PROVE  Cardinality(In(rows, s)) \in Nat /\ Cardinality(Posted(rows, s)) \in Nat
  <2>1. In(rows, s) \subseteq rows /\ Posted(rows, s) \subseteq rows
    BY DEF In, Posted
  <2> QED
    BY <2>1, FS_Subset, FS_CardinalityType
<1>2. Tally(rows) = [s \in Slots |-> [all    |-> Cardinality(In(rows, s)),
                                      posted |-> Cardinality(Posted(rows, s))]]
  BY DEF Tally, Posted
<1> QED
  BY <1>1, <1>2 DEF Tallies

\* The records of a merged ledger are the most that the ledger or the document
\* shows, in every slot, and so are the posted ones.
LEMMA MergeCovers ==
  ASSUME ShownTyped, NEW book, BookOK(book), NEW d \in DOMAIN shown
  PROVE  Tally(Merge(book, d).rows) = Book!Cover(Tally(book.rows), Tally(shown[d]))
<1> DEFINE m == Merge(book, d)
<1>1. Joined(book, d, m)
  BY MergeJoins
<1> HIDE DEF m
<1>2. /\ \A u, v \in m.rows : Same(u, v) => u = v
      /\ \A u \in m.rows : (\E t \in book.rows : Same(t, u)) \/ (\E r \in shown[d] : Same(r, u))
      /\ \A t \in book.rows : \E u \in m.rows : Same(t, u)
      /\ \A r \in shown[d] : \E u \in m.rows : Same(r, u)
      /\ \A u \in m.rows : u.status = "posted" <=>
           \/ \E t \in book.rows : Same(t, u) /\ t.status = "posted"
           \/ \E r \in shown[d] : Same(r, u) /\ r.status = "posted"
  BY <1>1, JoinedRows
<1>3. /\ IsFiniteSet(book.rows) /\ \A t \in book.rows : t.occ \in Nat \ {0}
      /\ \A t, w \in book.rows : Same(t, w) => t = w
      /\ \A t \in book.rows : \A k \in 1..t.occ : \E w \in book.rows : Slot(w) = Slot(t) /\ w.occ = k
      /\ \A t, w \in book.rows :
           Slot(t) = Slot(w) /\ t.occ < w.occ /\ w.status = "posted" => t.status = "posted"
  BY DEF BookOK, BookTyped, Numbered, Transaction
<1>4. /\ IsFiniteSet(shown[d]) /\ \A r \in shown[d] : r.occ \in Nat \ {0}
      /\ \A r, q \in shown[d] : Same(r, q) => r = q
      /\ \A r \in shown[d] : \A k \in 1..r.occ : \E q \in shown[d] : Slot(q) = Slot(r) /\ q.occ = k
      /\ \A r, q \in shown[d] : Slot(r) = Slot(q) => r.status = q.status
  BY DocumentRows DEF ShownTyped, Row
<1>5. IsFiniteSet(m.rows)
  BY <1>1 DEF Joined, BookTyped
<1>6. ASSUME NEW s \in Slots
      PROVE  Tally(m.rows)[s].all = Book!Larger(Tally(book.rows)[s].all, Tally(shown[d])[s].all)
  <2> DEFINE X == In(book.rows, s)
             Y == In(shown[d], s)
             Z == In(m.rows, s)
  <2>1. /\ X \subseteq book.rows /\ Y \subseteq shown[d] /\ Z \subseteq m.rows
        /\ \A t \in book.rows : t \in X <=> Slot(t) = s
        /\ \A r \in shown[d] : r \in Y <=> Slot(r) = s
        /\ \A u \in m.rows : u \in Z <=> Slot(u) = s
    BY DEF In
  <2> HIDE DEF X, Y, Z
  <2>2. IsFiniteSet(X) /\ IsFiniteSet(Y) /\ IsFiniteSet(Z)
    BY <1>3, <1>4, <1>5, <2>1, FS_Subset
  <2>3. /\ \A x, y \in X : x.occ = y.occ => x = y
        /\ \A x, y \in Y : x.occ = y.occ => x = y
        /\ \A x, y \in Z : x.occ = y.occ => x = y
    BY <1>2, <1>3, <1>4, <2>1 DEF Same
  <2>4. (\A x \in X : x.occ \in Nat \ {0}) /\ (\A y \in Y : y.occ \in Nat \ {0})
    BY <1>3, <1>4, <2>1
  <2>5. /\ \A x \in X : \A k \in 1..x.occ : \E w \in X : w.occ = k
        /\ \A y \in Y : \A k \in 1..y.occ : \E w \in Y : w.occ = k
    BY <1>3, <1>4, <2>1
  <2>6. \A z \in Z : (\E x \in X : x.occ = z.occ) \/ (\E y \in Y : y.occ = z.occ)
    BY <1>2, <2>1 DEF Same
  <2>7. (\A x \in X : \E z \in Z : z.occ = x.occ) /\ (\A y \in Y : \E z \in Z : z.occ = y.occ)
    BY <1>2, <2>1 DEF Same
  <2>8. Cardinality(Z) = Book!Larger(Cardinality(X), Cardinality(Y))
    BY <2>2, <2>3, <2>4, <2>5, <2>6, <2>7, CountsCover
  <2> QED
    BY <1>3, <1>4, <1>5, <2>8, TallyIs DEF X, Y, Z
<1>7. ASSUME NEW s \in Slots
      PROVE  Tally(m.rows)[s].posted =
               Book!Larger(Tally(book.rows)[s].posted, Tally(shown[d])[s].posted)
  <2> DEFINE X == Posted(book.rows, s)
             Y == Posted(shown[d], s)
             Z == Posted(m.rows, s)
  <2>1. /\ X \subseteq book.rows /\ Y \subseteq shown[d] /\ Z \subseteq m.rows
        /\ \A t \in book.rows : t \in X <=> Slot(t) = s /\ t.status = "posted"
        /\ \A r \in shown[d] : r \in Y <=> Slot(r) = s /\ r.status = "posted"
        /\ \A u \in m.rows : u \in Z <=> Slot(u) = s /\ u.status = "posted"
    BY DEF In, Posted
  <2> HIDE DEF X, Y, Z
  <2>2. IsFiniteSet(X) /\ IsFiniteSet(Y) /\ IsFiniteSet(Z)
    BY <1>3, <1>4, <1>5, <2>1, FS_Subset
  <2>3. /\ \A x, y \in X : x.occ = y.occ => x = y
        /\ \A x, y \in Y : x.occ = y.occ => x = y
        /\ \A x, y \in Z : x.occ = y.occ => x = y
    BY <1>2, <1>3, <1>4, <2>1 DEF Same
  <2>4. (\A x \in X : x.occ \in Nat \ {0}) /\ (\A y \in Y : y.occ \in Nat \ {0})
    BY <1>3, <1>4, <2>1
  <2>5. ASSUME NEW x \in X, NEW k \in 1..x.occ PROVE \E w \in X : w.occ = k
    <3>1. x \in book.rows /\ Slot(x) = s /\ x.status = "posted" /\ x.occ \in Nat
      BY <1>3, <2>1
    <3>2. PICK w \in book.rows : Slot(w) = Slot(x) /\ w.occ = k
      BY <1>3, <3>1
    <3>3. w = x \/ w.occ < x.occ
      <4>1. w.occ = x.occ \/ w.occ < x.occ
        BY <3>1, <3>2
      <4> QED
        BY <1>3, <3>1, <3>2, <4>1 DEF Same
    <3>4. w.status = "posted"
      BY <1>3, <3>1, <3>2, <3>3
    <3> QED
      BY <2>1, <3>1, <3>2, <3>4
  <2>6. ASSUME NEW y \in Y, NEW k \in 1..y.occ PROVE \E w \in Y : w.occ = k
    <3>1. y \in shown[d] /\ Slot(y) = s /\ y.status = "posted"
      BY <2>1
    <3>2. PICK w \in shown[d] : Slot(w) = Slot(y) /\ w.occ = k
      BY <1>4, <3>1
    <3>3. w.status = "posted"
      BY <1>4, <3>1, <3>2
    <3> QED
      BY <2>1, <3>1, <3>2, <3>3
  <2>7. \A z \in Z : (\E x \in X : x.occ = z.occ) \/ (\E y \in Y : y.occ = z.occ)
    BY <1>2, <2>1 DEF Same
  <2>8. (\A x \in X : \E z \in Z : z.occ = x.occ) /\ (\A y \in Y : \E z \in Z : z.occ = y.occ)
    BY <1>2, <2>1 DEF Same
  <2>9. Cardinality(Z) = Book!Larger(Cardinality(X), Cardinality(Y))
    BY <2>2, <2>3, <2>4, <2>5, <2>6, <2>7, <2>8, CountsCover
  <2> QED
    BY <1>3, <1>4, <1>5, <2>9, TallyIs DEF X, Y, Z
<1>8. Tally(m.rows) \in Tallies
  BY <1>5, TallyIs
<1>9. Tally(m.rows) = [s \in Slots |-> [all |-> Tally(m.rows)[s].all,
                                        posted |-> Tally(m.rows)[s].posted]]
  BY <1>8 DEF Tallies
<1> QED
  BY <1>6, <1>7, <1>9 DEF Book!Cover, m
-----------------------------------------------------------------------------
DocTallies == {Tally(rows) : rows \in Readable}

\* e is, in every slot, the most of the first n.
Most(docs, n, e) ==
  \A s \in Slots :
    /\ \E k \in 1..n : docs[k][s].all = e[s].all
    /\ \A k \in 1..n : docs[k][s].all <= e[s].all
    /\ \E k \in 1..n : docs[k][s].posted = e[s].posted
    /\ \A k \in 1..n : docs[k][s].posted <= e[s].posted

\* n documents may together show e.
Attained(n, e) == e \in Tallies /\ \E docs \in [1..n -> DocTallies] : Most(docs, n, e)

\* Documents are counted with natural numbers.
LEMMA DocTallyIs ==
  ASSUME NEW t \in DocTallies
  PROVE  t \in Tallies
<1>1. PICK rows \in Readable : t = Tally(rows)
  BY DEF DocTallies
<1> QED
  BY <1>1, DocumentRows, TallyIs

\* One document shows what it shows.
LEMMA AttainedOne ==
  ASSUME NEW t \in DocTallies
  PROVE  Attained(1, t)
<1> DEFINE docs == [k \in 1..1 |-> t]
<1>1. docs \in [1..1 -> DocTallies] /\ \A k \in 1..1 : docs[k] = t
  OBVIOUS
<1>2. t \in Tallies
  BY DocTallyIs
<1> HIDE DEF docs
<1>3. Most(docs, 1, t)
  BY <1>1, <1>2 DEF Most, Tallies
<1> QED
  BY <1>1, <1>2, <1>3 DEF Attained

\* What covers two counts.
LEMMA CoverIs ==
  ASSUME NEW e \in Tallies, NEW f \in Tallies
  PROVE  /\ Book!Cover(e, f) \in Tallies
         /\ \A s \in Slots : /\ Book!Cover(e, f)[s].all = Book!Larger(e[s].all, f[s].all)
                             /\ Book!Cover(e, f)[s].posted = Book!Larger(e[s].posted, f[s].posted)
<1>1. ASSUME NEW s \in Slots
      PROVE  /\ Book!Larger(e[s].all, f[s].all) \in Nat
             /\ Book!Larger(e[s].posted, f[s].posted) \in Nat
  BY DEF Tallies, Book!Larger
<1>2. Book!Cover(e, f) =
        [s \in Slots |-> [all    |-> Book!Larger(e[s].all, f[s].all),
                          posted |-> Book!Larger(e[s].posted, f[s].posted)]]
  BY DEF Book!Cover
<1> QED
  BY <1>1, <1>2 DEF Tallies

\* One document after another covers what the documents cover together.
LEMMA CoverTogether ==
  ASSUME NEW l \in Tallies, NEW e \in Tallies, NEW t \in Tallies
  PROVE  Book!Cover(Book!Cover(l, e), t) = Book!Cover(l, Book!Cover(e, t))
<1> DEFINE a == Book!Cover(l, e)
           b == Book!Cover(e, t)
<1>1. /\ a \in Tallies /\ b \in Tallies
      /\ \A s \in Slots : /\ a[s].all = Book!Larger(l[s].all, e[s].all)
                          /\ a[s].posted = Book!Larger(l[s].posted, e[s].posted)
      /\ \A s \in Slots : /\ b[s].all = Book!Larger(e[s].all, t[s].all)
                          /\ b[s].posted = Book!Larger(e[s].posted, t[s].posted)
  BY CoverIs
<1> HIDE DEF a, b
<1>2. ASSUME NEW s \in Slots
      PROVE  /\ Book!Larger(a[s].all, t[s].all) = Book!Larger(l[s].all, b[s].all)
             /\ Book!Larger(a[s].posted, t[s].posted) = Book!Larger(l[s].posted, b[s].posted)
  BY <1>1 DEF Book!Larger, Tallies
<1>3. Book!Cover(a, t) = Book!Cover(l, b)
  BY <1>2 DEF Book!Cover
<1> QED
  BY <1>3 DEF a, b

\* One document more.
LEMMA AttainedMore ==
  ASSUME NEW n \in Nat \ {0}, NEW e, Attained(n, e), NEW t \in DocTallies
  PROVE  Attained(n + 1, Book!Cover(e, t))
<1>1. PICK docs \in [1..n -> DocTallies] : Most(docs, n, e)
  BY DEF Attained
<1> DEFINE more == [k \in 1..(n + 1) |-> IF k = n + 1 THEN t ELSE docs[k]]
           f == Book!Cover(e, t)
<1>2. more \in [1..(n + 1) -> DocTallies] /\ more[n + 1] = t /\ \A k \in 1..n : more[k] = docs[k]
  OBVIOUS
<1>3. e \in Tallies /\ t \in Tallies
  BY DocTallyIs DEF Attained
<1>4. /\ f \in Tallies
      /\ \A s \in Slots : f[s].all = Book!Larger(e[s].all, t[s].all)
                          /\ f[s].posted = Book!Larger(e[s].posted, t[s].posted)
  BY <1>3, CoverIs
<1>5. \A k \in 1..n : docs[k] \in Tallies
  BY DocTallyIs
<1>6. 1..n \subseteq 1..(n + 1) /\ n + 1 \in 1..(n + 1) /\ \A k \in 1..(n + 1) : k \in 1..n \/ k = n + 1
  OBVIOUS
<1> HIDE DEF more, f
<1>7. ASSUME NEW s \in Slots
      PROVE  /\ \E k \in 1..(n + 1) : more[k][s].all = f[s].all
             /\ \A k \in 1..(n + 1) : more[k][s].all <= f[s].all
  <2>1. /\ \E k \in 1..n : docs[k][s].all = e[s].all
        /\ \A k \in 1..n : docs[k][s].all <= e[s].all
    BY <1>1 DEF Most
  <2>2. e[s].all \in Nat /\ t[s].all \in Nat /\ \A k \in 1..n : docs[k][s].all \in Nat
    BY <1>3, <1>5 DEF Tallies
  <2>3. /\ f[s].all = e[s].all \/ f[s].all = t[s].all
        /\ e[s].all <= f[s].all /\ t[s].all <= f[s].all /\ f[s].all \in Nat
    BY <1>4, <2>2 DEF Book!Larger
  <2>4. \E k \in 1..(n + 1) : more[k][s].all = f[s].all
    BY <1>2, <1>6, <2>1, <2>3
  <2>5. ASSUME NEW k \in 1..(n + 1) PROVE more[k][s].all <= f[s].all
    <3>1. CASE k = n + 1
      BY <1>2, <2>3, <3>1
    <3>2. CASE k \in 1..n
      <4>1. more[k] = docs[k] /\ docs[k][s].all \in Nat /\ docs[k][s].all <= e[s].all
        BY <1>2, <2>1, <2>2, <3>2
      <4> QED
        BY <2>2, <2>3, <4>1
    <3> QED
      BY <1>6, <3>1, <3>2
  <2> QED
    BY <2>4, <2>5
<1>8. ASSUME NEW s \in Slots
      PROVE  /\ \E k \in 1..(n + 1) : more[k][s].posted = f[s].posted
             /\ \A k \in 1..(n + 1) : more[k][s].posted <= f[s].posted
  <2>1. /\ \E k \in 1..n : docs[k][s].posted = e[s].posted
        /\ \A k \in 1..n : docs[k][s].posted <= e[s].posted
    BY <1>1 DEF Most
  <2>2. e[s].posted \in Nat /\ t[s].posted \in Nat /\ \A k \in 1..n : docs[k][s].posted \in Nat
    BY <1>3, <1>5 DEF Tallies
  <2>3. /\ f[s].posted = e[s].posted \/ f[s].posted = t[s].posted
        /\ e[s].posted <= f[s].posted /\ t[s].posted <= f[s].posted /\ f[s].posted \in Nat
    BY <1>4, <2>2 DEF Book!Larger
  <2>4. \E k \in 1..(n + 1) : more[k][s].posted = f[s].posted
    BY <1>2, <1>6, <2>1, <2>3
  <2>5. ASSUME NEW k \in 1..(n + 1) PROVE more[k][s].posted <= f[s].posted
    <3>1. CASE k = n + 1
      BY <1>2, <2>3, <3>1
    <3>2. CASE k \in 1..n
      <4>1. more[k] = docs[k] /\ docs[k][s].posted \in Nat /\ docs[k][s].posted <= e[s].posted
        BY <1>2, <2>1, <2>2, <3>2
      <4> QED
        BY <2>2, <2>3, <4>1
    <3> QED
      BY <1>6, <3>1, <3>2
  <2> QED
    BY <2>4, <2>5
<1>9. Most(more, n + 1, f)
  BY <1>7, <1>8 DEF Most
<1> QED
  BY <1>2, <1>4, <1>9 DEF Attained, f

\* A document may be shown twice.
LEMMA AttainedPadded ==
  ASSUME NEW n \in Nat \ {0}, NEW e, Attained(n, e), NEW N \in Nat, n <= N
  PROVE  Attained(N, e)
<1>1. PICK docs \in [1..n -> DocTallies] : Most(docs, n, e)
  BY DEF Attained
<1> DEFINE pad == [k \in 1..N |-> IF k \in 1..n THEN docs[k] ELSE docs[1]]
<1>2. /\ pad \in [1..N -> DocTallies] /\ 1..n \subseteq 1..N
      /\ \A k \in 1..n : pad[k] = docs[k]
      /\ \A k \in 1..N : \E j \in 1..n : pad[k] = docs[j]
  OBVIOUS
<1> HIDE DEF pad
<1>3. Most(pad, N, e)
  BY <1>1, <1>2 DEF Most
<1> QED
  BY <1>2, <1>3 DEF Attained

\* The largest of a set of numbers.
LEMMA MaxIs ==
  ASSUME NEW S \in SUBSET Nat, NEW x \in S, \A y \in S : y <= x
  PROVE  Max(S) = x
<1>1. \A y \in S : x >= y
  OBVIOUS
<1>2. Max(S) \in S /\ \A y \in S : Max(S) >= y
  BY <1>1 DEF Max
<1>3. Max(S) >= x /\ Max(S) <= x /\ Max(S) \in Nat /\ x \in Nat
  BY <1>2
<1> QED
  BY <1>3

\* What as many documents as a bundle has may show is evidence of one import.
LEMMA AttainedIsBundled ==
  ASSUME NEW e, Attained(MaxBundle, e)
  PROVE  e \in Bundled
<1>1. e \in Tallies
  BY DEF Attained
<1>2. PICK docs \in [1..MaxBundle -> DocTallies] : Most(docs, MaxBundle, e)
  BY DEF Attained
<1>3. \A k \in 1..MaxBundle : docs[k] \in Tallies
  BY DocTallyIs
<1>4. ASSUME NEW s \in Slots
      PROVE  /\ Max({docs[k][s].all : k \in 1..MaxBundle}) = e[s].all
             /\ Max({docs[k][s].posted : k \in 1..MaxBundle}) = e[s].posted
  <2> DEFINE A == {docs[k][s].all : k \in 1..MaxBundle}
             P == {docs[k][s].posted : k \in 1..MaxBundle}
  <2>1. A \in SUBSET Nat /\ P \in SUBSET Nat
    BY <1>3 DEF Tallies
  <2>2. e[s].all \in A /\ e[s].posted \in P
    BY <1>2 DEF Most
  <2>3. (\A y \in A : y <= e[s].all) /\ (\A y \in P : y <= e[s].posted)
    BY <1>2 DEF Most
  <2> HIDE DEF A, P
  <2>4. Max(A) = e[s].all /\ Max(P) = e[s].posted
    BY <2>1, <2>2, <2>3, MaxIs
  <2> QED
    BY <2>4 DEF A, P
<1>5. e = [s \in Slots |-> [all |-> e[s].all, posted |-> e[s].posted]]
  BY <1>1 DEF Tallies
<1>6. e = [s \in Slots |-> [all    |-> Max({docs[k][s].all : k \in 1..MaxBundle}),
                            posted |-> Max({docs[k][s].posted : k \in 1..MaxBundle})]]
  BY <1>4, <1>5
<1> QED
  BY <1>2, <1>6 DEF Bundled, DocTallies

\* What the bundle of an importer has shown so far.
Progress(i) ==
  pc[i] \in {"merging", "write"} =>
    \/ mine[i].merged = ledger /\ Len(mine[i].bundle) <= MaxBundle
    \/ \E n \in 1..MaxBundle : \E e \in Tallies :
         /\ n + Len(mine[i].bundle) <= MaxBundle
         /\ Attained(n, e)
         /\ Tally(mine[i].merged.rows) = Book!Cover(Tally(ledger.rows), e)

\* An importer that does nothing shows nothing.
LEMMA OthersProgress ==
  ASSUME NEW j \in Importers, Progress(j), pc'[j] = pc[j], mine'[j] = mine[j], ledger' = ledger
  PROVE  Progress(j)'
BY DEF Progress, Tally, Book!Cover

\* Each document merged adds what it shows.
LEMMA MergeProgress ==
  ASSUME CardInv, NEW i \in Importers, Progress(i), MergeNext(i)
  PROVE  Progress(i)'
<1> DEFINE d == mine[i].bundle[1]
           rest == Tail(mine[i].bundle)
           book == mine[i].merged
           merged == Merge(book, d)
<1>1. /\ BookOK(ledger) /\ InMemory(i) /\ ShownTyped
      /\ pc \in [Importers -> Places]
      /\ DOMAIN mine = Importers /\ mine = [j \in Importers |-> mine[j]]
  BY CardFacts
<1>2. pc[i] = "merging" /\ ledger' = ledger
  BY DEF MergeNext
<1>3. BookOK(book) /\ mine[i].bundle \in Seq(DOMAIN shown) /\ mine[i].bundle # <<>>
  BY <1>1, <1>2 DEF InMemory
<1>4. /\ d \in DOMAIN shown /\ rest \in Seq(DOMAIN shown) /\ Head(mine[i].bundle) = d
      /\ Len(rest) \in Nat /\ Len(mine[i].bundle) = Len(rest) + 1
  <2> DEFINE b == mine[i].bundle
  <2>1. b \in Seq(DOMAIN shown) /\ b # <<>>
    BY <1>3
  <2> HIDE DEF b
  <2>2. /\ b[1] \in DOMAIN shown /\ Tail(b) \in Seq(DOMAIN shown) /\ Head(b) = b[1]
        /\ Len(Tail(b)) = Len(b) - 1 /\ Len(b) \in Nat \ {0}
    BY <2>1
  <2> QED
    BY <2>2 DEF b
<1>5. shown[d] \in Readable /\ Tally(shown[d]) \in DocTallies /\ Tally(shown[d]) \in Tallies
  <2>1. shown[d] \in Readable
    BY <1>1, <1>4 DEF ShownTyped
  <2> QED
    BY <2>1, DocTallyIs DEF DocTallies
<1>6. Tally(merged.rows) = Book!Cover(Tally(book.rows), Tally(shown[d]))
  <2>1. PICK b : b = book
    OBVIOUS
  <2>2. PICK e : e = d
    OBVIOUS
  <2> HIDE DEF d, book
  <2>3. Tally(Merge(b, e).rows) = Book!Cover(Tally(b.rows), Tally(shown[e]))
    BY <1>1, <1>3, <1>4, <2>1, <2>2, MergeCovers
  <2> QED
    BY <2>1, <2>2, <2>3
<1>7. Tally(ledger.rows) \in Tallies
  BY <1>1, TallyIs DEF BookOK, BookTyped
<1> DEFINE t == Tally(shown[d])
           l == Tally(ledger.rows)
<1> HIDE DEF d, rest, merged, book, t, l
<1>8. CASE pc'[i] = "review"
  BY <1>8 DEF Progress
<1>9. CASE pc'[i] = "damaged"
  BY <1>9 DEF Progress
<1>10. CASE mine' = [mine EXCEPT ![i] = [bundle |-> rest, merged |-> merged]]
  <2>1. mine'[i].bundle = rest /\ mine'[i].merged = merged
    BY <1>1, <1>10
  <2>2. \E n \in 1..MaxBundle : \E e \in Tallies :
          n + Len(rest) <= MaxBundle /\ Attained(n, e) /\ Tally(merged.rows) = Book!Cover(l, e)
    <3>1. t \in DocTallies /\ t \in Tallies /\ l \in Tallies
          /\ Tally(merged.rows) = Book!Cover(Tally(book.rows), t)
      BY <1>5, <1>6, <1>7 DEF t, l
    <3>2. MaxBundle \in Nat \ {0} /\ Len(rest) \in Nat /\ Len(mine[i].bundle) = Len(rest) + 1
      BY <1>4, CardAssumption
    <3>3. CASE book = ledger /\ Len(mine[i].bundle) <= MaxBundle
      <4>1. Attained(1, t) /\ 1 \in 1..MaxBundle /\ 1 + Len(rest) <= MaxBundle
        BY <3>1, <3>2, <3>3, AttainedOne
      <4>2. Tally(merged.rows) = Book!Cover(l, t)
        BY <3>1, <3>3 DEF l
      <4> QED
        BY <3>1, <4>1, <4>2
    <3>4. CASE \E n \in 1..MaxBundle : \E e \in Tallies :
                 /\ n + Len(mine[i].bundle) <= MaxBundle
                 /\ Attained(n, e)
                 /\ Tally(book.rows) = Book!Cover(l, e)
      <4>1. PICK n \in 1..MaxBundle, e \in Tallies :
              /\ n + Len(mine[i].bundle) <= MaxBundle
              /\ Attained(n, e)
              /\ Tally(book.rows) = Book!Cover(l, e)
        BY <3>4
      <4>2. n \in Nat \ {0} /\ n + 1 \in 1..MaxBundle /\ n + 1 + Len(rest) <= MaxBundle
        BY <3>2, <4>1
      <4>3. Attained(n + 1, Book!Cover(e, t)) /\ Book!Cover(e, t) \in Tallies
        BY <3>1, <4>1, <4>2, AttainedMore, CoverIs
      <4>4. Tally(merged.rows) = Book!Cover(l, Book!Cover(e, t))
        BY <3>1, <4>1, CoverTogether
      <4> QED
        BY <4>2, <4>3, <4>4
    <3> QED
      BY <1>2, <3>3, <3>4 DEF Progress, book, l
  <2>3. Tally(ledger.rows)' = l /\ Tally(mine[i].merged.rows)' = Tally(merged.rows)
    BY <1>2, <2>1 DEF l, Tally
  <2>4. PICK n \in 1..MaxBundle, e \in Tallies :
          n + Len(rest) <= MaxBundle /\ Attained(n, e) /\ Tally(merged.rows) = Book!Cover(l, e)
    BY <2>2
  <2>5. Book!Cover(Tally(ledger.rows), e)' = Book!Cover(l, e)
    BY <2>3 DEF Book!Cover
  <2>6. Attained(n, e)'
    BY <2>4 DEF Attained, Most, DocTallies
  <2> QED
    BY <2>1, <2>3, <2>4, <2>5, <2>6 DEF Progress
<1>11. \/ pc'[i] = "review" \/ pc'[i] = "damaged"
       \/ mine' = [mine EXCEPT ![i] = [bundle |-> rest, merged |-> merged]]
  BY <1>1, <1>4 DEF MergeNext, Goto, rest, merged, book
<1> QED
  BY <1>8, <1>9, <1>10, <1>11

\* Only a write changes the ledger.
LEMMA NextProgress ==
  ASSUME CardInv, \A i \in Importers : Progress(i), [Next]_vars
  PROVE  /\ \A i \in Importers : Progress(i)'
         /\ [Book!Import]_(Tally(ledger.rows))
<1>1. /\ CardTyped /\ ShownTyped /\ BookOK(ledger) /\ \A j \in Importers : InMemory(j)
      /\ pc \in [Importers -> Places]
      /\ DOMAIN mine = Importers /\ mine = [j \in Importers |-> mine[j]]
      /\ \A j \in Importers : mine[j] = [bundle |-> mine[j].bundle, merged |-> mine[j].merged]
      /\ \A j \in Importers : lock = j <=> pc[j] \in Held
  BY CardFacts
<1>2. ASSUME ledger' = ledger PROVE [Book!Import]_(Tally(ledger.rows))
  BY <1>2 DEF Tally
<1>3. ASSUME NEW i \in Importers, ledger' = ledger, Progress(i)',
             \A j \in Importers \ {i} : pc'[j] = pc[j] /\ mine'[j] = mine[j]
      PROVE  /\ \A j \in Importers : Progress(j)'
             /\ [Book!Import]_(Tally(ledger.rows))
  <2>1. ASSUME NEW j \in Importers, j # i PROVE Progress(j)'
    <3>1. Progress(j) /\ pc'[j] = pc[j] /\ mine'[j] = mine[j]
      BY <1>3, <2>1
    <3> QED
      BY <1>3, <3>1, OthersProgress
  <2> QED
    BY <1>2, <1>3, <2>1
<1>4. ASSUME NEW i \in Importers, pc'[i] \notin {"merging", "write"} PROVE Progress(i)'
  BY <1>4 DEF Progress
<1>5. ASSUME NEW i \in Importers, Submit(i)
      PROVE  /\ \A j \in Importers : Progress(j)'
             /\ [Book!Import]_(Tally(ledger.rows))
  <2>1. /\ ledger' = ledger /\ pc' = [pc EXCEPT ![i] = "submitted"]
        /\ \E b \in Bundles : mine' = [mine EXCEPT ![i].bundle = b]
    BY <1>5 DEF Submit, Goto
  <2>2. pc'[i] = "submitted" /\ \A j \in Importers \ {i} : pc'[j] = pc[j] /\ mine'[j] = mine[j]
    BY <1>1, <2>1
  <2> QED
    BY <1>3, <1>4, <2>1, <2>2
<1>6. ASSUME NEW i \in Importers, Load(i)
      PROVE  /\ \A j \in Importers : Progress(j)'
             /\ [Book!Import]_(Tally(ledger.rows))
  <2>1. /\ ledger' = ledger /\ pc[i] = "submitted"
        /\ \/ pc' = [pc EXCEPT ![i] = "review"] /\ mine' = mine
           \/ pc' = [pc EXCEPT ![i] = "merging"] /\ mine' = [mine EXCEPT ![i].merged = ledger]
    BY <1>6 DEF Load, Goto
  <2>2. \A j \in Importers \ {i} : pc'[j] = pc[j] /\ mine'[j] = mine[j]
    BY <1>1, <2>1
  <2>3. CASE pc' = [pc EXCEPT ![i] = "review"] /\ mine' = mine
    BY <1>1, <1>3, <1>4, <2>1, <2>2, <2>3
  <2>4. CASE pc' = [pc EXCEPT ![i] = "merging"] /\ mine' = [mine EXCEPT ![i].merged = ledger]
    <3>1. Submitted(mine[i].bundle)
      BY <1>1, <2>1 DEF InMemory
    <3>2. mine'[i] = [mine[i] EXCEPT !.merged = ledger]
      BY <1>1, <2>4
    <3>3. mine'[i].merged = ledger /\ mine'[i].bundle = mine[i].bundle
      BY <1>1, <3>2
    <3>4. Len(mine[i].bundle) <= MaxBundle
      BY <3>1, CardAssumption DEF Submitted
    <3>5. Progress(i)'
      BY <2>1, <3>3, <3>4 DEF Progress
    <3> QED
      BY <1>3, <2>1, <2>2, <3>5
  <2> QED
    BY <2>1, <2>3, <2>4
<1>7. ASSUME NEW i \in Importers, MergeNext(i)
      PROVE  /\ \A j \in Importers : Progress(j)'
             /\ [Book!Import]_(Tally(ledger.rows))
  <2>1. Progress(i)'
    BY <1>7, MergeProgress
  <2>2. ledger' = ledger /\ \A j \in Importers \ {i} : pc'[j] = pc[j] /\ mine'[j] = mine[j]
    BY <1>1, <1>7 DEF MergeNext, Goto
  <2> QED
    BY <1>3, <2>1, <2>2
<1>8. ASSUME NEW i \in Importers, Write(i)
      PROVE  /\ \A j \in Importers : Progress(j)'
             /\ [Book!Import]_(Tally(ledger.rows))
  <2>1. pc[i] = "write" /\ ledger' = mine[i].merged /\ pc' = [pc EXCEPT ![i] = "readback"]
    BY <1>8 DEF Write, Goto
  <2>2. ASSUME NEW j \in Importers PROVE Progress(j)'
    <3>1. j # i => pc[j] \notin Held
      BY <1>1, <2>1 DEF Held
    <3>2. pc'[j] \notin {"merging", "write"}
      BY <1>1, <2>1, <3>1 DEF Held
    <3> QED
      BY <1>4, <3>2
  <2>3. [Book!Import]_(Tally(ledger.rows))
    <3>1. CASE mine[i].merged = ledger
      BY <1>2, <2>1, <3>1
    <3>2. CASE \E n \in 1..MaxBundle : \E e \in Tallies :
                 /\ n + Len(mine[i].bundle) <= MaxBundle
                 /\ Attained(n, e)
                 /\ Tally(mine[i].merged.rows) = Book!Cover(Tally(ledger.rows), e)
      <4>1. PICK n \in 1..MaxBundle, e \in Tallies :
              /\ Attained(n, e)
              /\ Tally(mine[i].merged.rows) = Book!Cover(Tally(ledger.rows), e)
        BY <3>2
      <4>2. n \in Nat \ {0} /\ MaxBundle \in Nat /\ n <= MaxBundle
        BY CardAssumption
      <4>3. Attained(MaxBundle, e)
        BY <4>1, <4>2, AttainedPadded
      <4>4. e \in Bundled
        BY <4>3, AttainedIsBundled
      <4>5. Tally(ledger.rows)' = Tally(mine[i].merged.rows)
        BY <2>1 DEF Tally
      <4> QED
        BY <4>1, <4>4, <4>5 DEF Book!Import
    <3> QED
      BY <2>1, <3>1, <3>2 DEF Progress
  <2> QED
    BY <2>2, <2>3
<1>9. ASSUME NEW i \in Importers, Readback(i) \/ Refuse(i) \/ Fail(i)
      PROVE  /\ \A j \in Importers : Progress(j)'
             /\ [Book!Import]_(Tally(ledger.rows))
  <2>1. /\ ledger' = ledger
        /\ \/ Leave(i)
           \/ pc' = [pc EXCEPT ![i] = "damaged"] /\ mine' = mine
    BY <1>9 DEF Readback, Refuse, Fail, Goto
  <2>2. /\ pc'[i] \notin {"merging", "write"}
        /\ \A j \in Importers \ {i} : pc'[j] = pc[j] /\ mine'[j] = mine[j]
    BY <1>1, <2>1 DEF Leave, Goto
  <2> QED
    BY <1>3, <1>4, <2>1, <2>2
<1>10. CASE UNCHANGED vars
  <2>1. ledger' = ledger /\ pc' = pc /\ mine' = mine
    BY <1>10 DEF vars
  <2>2. ASSUME NEW i \in Importers PROVE Progress(i)'
    <3>1. Progress(i) /\ pc'[i] = pc[i] /\ mine'[i] = mine[i]
      BY <2>1
    <3> QED
      BY <2>1, <3>1, OthersProgress
  <2> QED
    BY <1>2, <2>1, <2>2
<1> QED
  BY <1>5, <1>6, <1>7, <1>8, <1>9, <1>10 DEF Next

\* The ledger is the least record that covers every imported document: bundles
\* are atomic, no importer undoes another's, and one purchase that several
\* documents show is one record.
THEOREM LedgerRefinesBook == Spec => RefinesCardBook
<1>1. Init => (\A i \in Importers : Progress(i)) /\ Book!Init
  <2>1. ASSUME Init PROVE Book!Init
    <3>1. Tally({}) \in Tallies
          /\ \A s \in Slots : /\ Tally({})[s].all = Cardinality(In({}, s))
                              /\ Tally({})[s].posted = Cardinality(Posted({}, s))
      BY FS_EmptySet, TallyIs
    <3>2. \A s \in Slots : In({}, s) = {} /\ Posted({}, s) = {}
      BY DEF In, Posted
    <3>3. \A s \in Slots : Tally({})[s].all = 0 /\ Tally({})[s].posted = 0
      BY <3>1, <3>2, FS_EmptySet
    <3>4. Tally({}) = [s \in Slots |-> [all |-> Tally({})[s].all, posted |-> Tally({})[s].posted]]
      BY <3>1 DEF Tallies
    <3>5. Tally({}) = [s \in Slots |-> [all |-> 0, posted |-> 0]]
      BY <3>3, <3>4
    <3>6. ledger.rows = {}
      BY <2>1 DEF Init, Empty
    <3> QED
      BY <3>5, <3>6 DEF Book!Init
  <2>2. ASSUME Init PROVE \A i \in Importers : Progress(i)
    BY <2>2 DEF Init, Progress
  <2> QED
    BY <2>1, <2>2
<1>2. CardInv /\ (\A i \in Importers : Progress(i)) /\ [Next]_vars =>
        (\A i \in Importers : Progress(i)') /\ [Book!Import]_(Tally(ledger.rows))
  BY NextProgress
<1>3. (\A i \in Importers : Progress(i)') <=> (\A i \in Importers : Progress(i))'
  OBVIOUS
<1>4. Spec => [](\A i \in Importers : Progress(i))
  BY <1>1, <1>2, <1>3, CardInvariant, PTL DEF Spec
<1> QED
  BY <1>1, <1>2, <1>4, CardInvariant, PTL DEF Spec, RefinesCardBook, Book!Spec
=============================================================================
