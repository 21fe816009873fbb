------------------------- MODULE InvestmentProofs -------------------------
(***************************************************************************)
(* Proofs about the investment ledger: its type, what an import and the    *)
(* transactions view may rely on, and that it implements AtomicLedger; and *)
(* about the merge of Schwab trades: that every trade is counted once.     *)
(* Nothing is assumed of the number of threads, statements, edits,         *)
(* requests, faults and revisions, and of the trades, workbooks and        *)
(* exports no more than SchwabAssumption says.                             *)
(***************************************************************************)
EXTENDS InvestmentLedger, SchwabTrades, FiniteSetTheorems, SequenceTheorems, WellFoundedInduction, TLAPS

-----------------------------------------------------------------------------
(* The ledger and its readers *)

\* The thread is inside market_store_file_lock.
Holding(t) ==
  \/ pc[t] \in {"evidence", "save", "readback", "rmtree", "load"}
  \/ pc[t] = "invalidate" /\ mine[t].item \in Statements

LockHeld == \A t \in Threads : lock = t <=> Holding(t)

\* What a request is about.
RightItem(t) ==
  /\ pc[t] \in {"import", "evidence", "readback"} => mine[t].item \in Statements
  /\ pc[t] = "edit" => mine[t].item \in Edits
  /\ pc[t] = "save" => mine[t].item \in Items
  /\ pc[t] \in {"clear", "rmtree", "exists", "empty"} => mine[t].item = NoItem

TypeInv == TypeOK /\ \A t \in Threads : RightItem(t)

\* What a writer has in memory is the ledger with its item, then the ledger.
InMemory(t) ==
  /\ pc[t] \in {"evidence", "save"} => mine[t].rows = Ledger.rows \union {mine[t].item}
  /\ pc[t] = "save" => {mine[t].item} \intersect Statements \subseteq evidence \union lost
  /\ pc[t] = "readback" \/ (pc[t] = "invalidate" /\ mine[t].item \in Statements) =>
       Ledger.exists /\ Ledger.rows = mine[t].rows
  /\ pc[t] = "rmtree" => ~Ledger.exists

Working == \A t \in Threads : InMemory(t)

AbsentEmpty == \A g \in 1 .. Len(saved) : ~saved[g].exists => saved[g].rows = {}

LedgerInv == TypeInv /\ LockHeld /\ Working /\ AbsentEmpty /\ LedgerHasEvidence
-----------------------------------------------------------------------------
\* The projection shows the rows of the generation its stamp names.
Names(v, g) ==
  /\ saved[g].rows = v.rows
  /\ v.stamp = IF saved[g].exists THEN g ELSE 0

\* A projection that has been published was labelled with the private evidence
\* it was computed from, and with prices no older than those it shows.
Labelled(v) ==
  /\ v.basis = v.private /\ v.private <= private
  /\ v.quotes <= v.prices /\ v.prices <= prices

CacheTrue == \A c \in cache : Labelled(c) /\ \E g \in 1 .. Len(saved) : Names(c, g)

\* What was current when a request began is not newer than what is current.
Began(t) ==
  /\ mine[t].since.saved <= Len(saved) /\ (pc[t] # "idle" => 1 <= mine[t].since.saved)
  /\ mine[t].since.private <= private
  /\ mine[t].since.prices <= prices

\* Where a request has a view.
Viewing ==
  {"cached", "private", "prices", "again", "load", "fresh", "quotes", "finger", "publish", "serve"}

\* What a request knows of its view at each step.
ViewKnown(t) ==
  LET v == mine[t].view
      since == mine[t].since
  IN
  /\ pc[t] = "cached" =>
       \E g \in since.saved .. Len(saved) : v.stamp = IF saved[g].exists THEN g ELSE 0
  /\ pc[t] \in {"private", "prices", "again", "fresh", "quotes", "finger", "publish", "serve"} =>
       \E g \in since.saved .. Len(saved) : Names(v, g)
  /\ pc[t] \in {"private", "prices", "again"} => Labelled(v)
  /\ pc[t] = "load" => v.private \in since.private .. private
  /\ pc[t] \in {"prices", "again", "fresh", "quotes", "finger", "publish", "serve"} =>
       v.basis \in since.private .. private
  /\ pc[t] \in {"fresh", "quotes", "finger", "publish"} => v.private <= v.basis
  /\ pc[t] \in {"finger", "publish"} => v.quotes \in since.prices .. prices
  /\ pc[t] = "publish" => v.quotes <= v.prices /\ v.prices <= prices
  /\ pc[t] \in {"again", "serve"} => (v.quotes = v.prices => v.quotes \in since.prices .. prices)

ViewInv == LedgerInv /\ CacheTrue /\ \A t \in Threads : Began(t) /\ ViewKnown(t)
-----------------------------------------------------------------------------
MineType == [item : Items \union {NoItem}, rows : SUBSET Items, keys : SUBSET Statements,
             view : Projection, since : [saved : Nat, private : Nat, prices : Nat]]

\* TypeOK but for what the threads hold, in three parts.
DiskTyped ==
  /\ saved \in Seq(Generation) /\ saved # << >> /\ hot \in BOOLEAN
  /\ evidence \subseteq Statements /\ lost \subseteq Statements

CacheTyped == cache \subseteq Projection /\ \A c, d \in cache : c = d

ControlTyped ==
  /\ prices \in Nat /\ private \in Nat /\ served \in Nat /\ faults \in Nat
  /\ lock \in Threads \union {NoThread}
  /\ pc \in [Threads -> Labels]

\* The file, its fingerprint and what may be appended to it are typed.
LEMMA GenerationType ==
  ASSUME TypeOK
  PROVE  /\ Absent \in Generation /\ Ledger \in Generation
         /\ Stamp \in Nat /\ Len(saved) \in Nat \ {0}
         /\ \A x \in Generation : Append(saved, x) \in Seq(Generation) /\ Append(saved, x) # << >>
<1>1. Absent \in Generation
  BY DEF Absent, Generation
<1>2. Len(saved) \in Nat \ {0} /\ Ledger \in Generation
  BY DEF TypeOK, Ledger
<1>3. Stamp \in Nat
  BY <1>2 DEF Stamp
<1>4. ASSUME NEW x \in Generation
      PROVE  Append(saved, x) \in Seq(Generation) /\ Append(saved, x) # << >>
  BY DEF TypeOK
<1> QED
  BY <1>1, <1>2, <1>3, <1>4

\* An idle thread holds a typed record,
LEMMA NothingTyped == Nothing \in MineType
<1>1. Blank \in Projection
  BY DEF Blank, Projection
<1> QED
  BY <1>1 DEF Nothing, MineType

\* and so does one that accepts a request, gets a view or loads the ledger.
LEMMA MineKept ==
  ASSUME TypeOK, NEW t \in Threads
  PROVE  /\ [mine EXCEPT ![t] = Nothing] \in [Threads -> MineType]
         /\ \A item \in Items \union {NoItem} :
              [mine EXCEPT ![t] =
                [Nothing EXCEPT
                   !.item = item,
                   !.since = [saved |-> Len(saved), private |-> private, prices |-> prices]]]
                \in [Threads -> MineType]
         /\ \A v \in Projection : [mine EXCEPT ![t].view = v] \in [Threads -> MineType]
         /\ \A rows \in SUBSET Items, keys \in SUBSET Statements :
              [mine EXCEPT ![t].rows = rows, ![t].keys = keys] \in [Threads -> MineType]
<1>1. mine \in [Threads -> MineType] /\ mine[t] \in MineType
  BY DEF TypeOK, MineType
<1>3. Nothing \in MineType
  BY NothingTyped
<1>4. ASSUME NEW v \in Projection PROVE [mine[t] EXCEPT !.view = v] \in MineType
  BY <1>1 DEF MineType
<1>5. ASSUME NEW rows \in SUBSET Items, NEW keys \in SUBSET Statements
      PROVE  [mine[t] EXCEPT !.rows = rows, !.keys = keys] \in MineType
  BY <1>1 DEF MineType
<1>6. ASSUME NEW item \in Items \union {NoItem}
      PROVE  [Nothing EXCEPT
                !.item = item,
                !.since = [saved |-> Len(saved), private |-> private, prices |-> prices]]
               \in MineType
  BY <1>3, GenerationType DEF TypeOK, Nothing, MineType
<1> QED
  BY <1>1, <1>3, <1>4, <1>5, <1>6

\* The views that a request makes on its way are projections.
LEMMA ViewKept ==
  ASSUME TypeOK, NEW t \in Threads
  PROVE  /\ mine[t].view \in Projection /\ mine[t].item \in Items \union {NoItem}
         /\ mine[t].rows \in SUBSET Items /\ [exists |-> TRUE, rows |-> mine[t].rows] \in Generation
         /\ Ledger.rows \union ({mine[t].item} \intersect Items) \in SUBSET Items
         /\ [Blank EXCEPT !.private = private] \in Projection
         /\ [mine[t].view EXCEPT !.stamp = Stamp] \in Projection
         /\ [mine[t].view EXCEPT !.quotes = prices] \in Projection
         /\ [mine[t].view EXCEPT !.prices = prices] \in Projection
         /\ [mine[t].view EXCEPT !.rows = Ledger.rows, !.stamp = Stamp, !.basis = private]
              \in Projection
<1>1. mine[t] \in MineType
  BY DEF TypeOK, MineType
<1>2. /\ mine[t].view \in Projection /\ mine[t].item \in Items \union {NoItem}
      /\ mine[t].rows \in SUBSET Items
  BY <1>1 DEF MineType
<1>3. Stamp \in Nat /\ Ledger.rows \in SUBSET Items /\ prices \in Nat /\ private \in Nat
  BY GenerationType DEF TypeOK, Generation
<1>4. [exists |-> TRUE, rows |-> mine[t].rows] \in Generation
  BY <1>2 DEF Generation
<1> QED
  BY <1>2, <1>3, <1>4 DEF Projection, Blank

\* Only thread t moves.
Alone(t) == \A u \in Threads \ {t} : pc'[u] = pc[u] /\ mine'[u] = mine[u]

\* A step of one thread leaves the others alone.
LEMMA OthersKept ==
  ASSUME TypeOK, NEW t \in Threads, Request(t) \/ Write(t) \/ View(t)
  PROVE  Alone(t)
<1> USE DEF TypeOK, Goto, Reply, See, Alone
<1>1. CASE Request(t)
  BY <1>1 DEF Request, Accept
<1>2. CASE Write(t)
  <2>1. CASE Load(t) \/ Materialize(t) \/ Save(t)
    BY <2>1 DEF Load, Materialize, Save
  <2>2. CASE Invalidate(t) \/ Readback(t) \/ BackgroundRefresh(t) \/ Unlink(t) \/ RemoveEvidence(t)
    BY <2>2 DEF Invalidate, Readback, BackgroundRefresh, Unlink, RemoveEvidence
  <2> QED
    BY <1>2, <2>1, <2>2 DEF Write
<1>3. CASE View(t)
  <2>1. CASE Exists(t) \/ TakeStamp(t) \/ Miss(t) \/ LoadView(t)
    BY <2>1 DEF Exists, TakeStamp, Miss, LoadView
  <2>2. CASE ReadCache(t)
    BY <2>2 DEF ReadCache
  <2>3. CASE CheckCached(t)
    BY <2>3 DEF CheckCached, Check
  <2>4. CASE RefreshView(t) \/ ReadPrices(t) \/ StampPrices(t) \/ Publish(t) \/ Serve(t)
    BY <2>4 DEF RefreshView, ReadPrices, StampPrices, Publish, Serve
  <2> QED
    BY <1>3, <2>1, <2>2, <2>3, <2>4 DEF View
<1> QED
  BY <1>1, <1>2, <1>3

\* Every variable keeps its type, and every request its subject.
LEMMA TypeStep == TypeInv /\ [Next]_vars => TypeInv'
<1> SUFFICES ASSUME TypeInv, [Next]_vars PROVE TypeInv'
  OBVIOUS
<1>t. TypeOK /\ mine \in [Threads -> MineType]
  BY DEF TypeInv, TypeOK, MineType
<1>r. \A t \in Threads : RightItem(t)
  BY DEF TypeInv
<1>a. ASSUME DiskTyped', CacheTyped', ControlTyped', mine' \in [Threads -> MineType],
             \A t \in Threads : RightItem(t)'
      PROVE  TypeInv'
  BY <1>a DEF TypeInv, TypeOK, MineType, DiskTyped, CacheTyped, ControlTyped
<1>d. DiskTyped /\ CacheTyped /\ ControlTyped
  BY <1>t DEF TypeOK, DiskTyped, CacheTyped, ControlTyped
<1> USE LedgerAssumption DEF disk, inputs, Fault, Goto, Reply, Acquire, Release, See, Labels
<1>1. ASSUME NEW t \in Threads, Request(t) PROVE TypeInv'
  <2>a. PICK l \in {"import", "edit", "clear", "exists"}, item \in Items \union {NoItem} :
          /\ Accept(t, l, item)
          /\ l = "import" => item \in Statements
          /\ l = "edit" => item \in Edits
          /\ l \in {"clear", "exists"} => item = NoItem
    BY <1>1 DEF Request, Items
  <2>1. DiskTyped'
    BY <2>a, <1>d DEF Accept, DiskTyped
  <2>2. CacheTyped'
    BY <2>a, <1>d DEF Accept, CacheTyped
  <2>3. ControlTyped'
    BY <2>a, <1>d DEF Accept, ControlTyped
  <2>4. mine' \in [Threads -> MineType]
    BY <2>a, <1>t, MineKept, ViewKept DEF Accept
  <2>5. \A u \in Threads : RightItem(u)'
    BY <2>a, <1>t, <1>r DEF Accept, RightItem, TypeOK, Items, Nothing
  <2> QED
    BY <2>1, <2>2, <2>3, <2>4, <2>5, <1>a
<1>2. ASSUME NEW t \in Threads, Load(t) PROVE TypeInv'
  <2>1. DiskTyped' /\ CacheTyped' /\ ControlTyped'
    BY <1>2, <1>d DEF Load, DiskTyped, CacheTyped, ControlTyped
  <2>4. mine' \in [Threads -> MineType]
    <3>1. CASE Loadable /\ (pc[t] = "edit" => Ledger.rows # {})
      <4>1. mine[t].item \in Items
        BY <1>2, <1>r DEF Load, RightItem, Items
      <4>2. Ledger.rows \union {mine[t].item} \in SUBSET Items
        BY <4>1, <1>t, GenerationType DEF Generation
      <4>3. Ledger.rows \intersect Statements \in SUBSET Statements
        OBVIOUS
      <4>4. mine' = [mine EXCEPT ![t].rows = Ledger.rows \union {mine[t].item},
                                 ![t].keys = Ledger.rows \intersect Statements]
        BY <1>2, <3>1 DEF Load
      <4> QED
        BY <1>t, <4>2, <4>3, <4>4, MineKept
    <3>2. CASE ~(Loadable /\ (pc[t] = "edit" => Ledger.rows # {}))
      BY <1>2, <1>t, <3>2, MineKept DEF Load
    <3> QED
      BY <3>1, <3>2
  <2>5. \A u \in Threads : RightItem(u)'
    <3>1. Alone(t)
      BY <1>2, <1>t, OthersKept DEF Write, View
    <3>2. pc'[t] = "idle" \/ (/\ pc'[t] = IF pc[t] = "import" THEN "evidence" ELSE "save"
                              /\ mine'[t].item = mine[t].item)
      BY <1>2, <1>t DEF Load, TypeOK
    <3>3. RightItem(t)'
      BY <1>2, <1>r, <3>2 DEF Load, RightItem, Items
    <3> QED
      BY <3>1, <3>3, <1>r DEF Alone, RightItem
  <2> QED
    BY <2>1, <2>4, <2>5, <1>a
<1>3. ASSUME NEW t \in Threads, Materialize(t) PROVE TypeInv'
  <2>1. DiskTyped'
    BY <1>3, <1>d, <1>t, <1>r, GenerationType, ViewKept DEF Materialize, DiskTyped, RightItem
  <2>2. CacheTyped'
    BY <1>3, <1>d DEF Materialize, CacheTyped
  <2>3. ControlTyped'
    BY <1>3, <1>d DEF Materialize, ControlTyped
  <2>4. mine' \in [Threads -> MineType]
    BY <1>3, <1>t, MineKept, ViewKept DEF Materialize
  <2>5. \A u \in Threads : RightItem(u)'
    <3>1. Alone(t)
      BY <1>3, <1>t, OthersKept DEF Write, View
    <3>2. RightItem(t)'
      BY <1>3, <1>t, <1>r DEF Materialize, RightItem, TypeOK, Items, Nothing
    <3> QED
      BY <3>1, <3>2, <1>r DEF Alone, RightItem
  <2> QED
    BY <2>1, <2>2, <2>3, <2>4, <2>5, <1>a
<1>4. ASSUME NEW t \in Threads, Save(t) PROVE TypeInv'
  <2>1. DiskTyped'
    BY <1>4, <1>d, <1>t, <1>r, GenerationType, ViewKept DEF Save, DiskTyped, RightItem
  <2>2. CacheTyped'
    BY <1>4, <1>d DEF Save, CacheTyped
  <2>3. ControlTyped'
    BY <1>4, <1>d DEF Save, ControlTyped
  <2>4. mine' \in [Threads -> MineType]
    BY <1>4, <1>t, MineKept, ViewKept DEF Save
  <2>5. \A u \in Threads : RightItem(u)'
    <3>1. Alone(t)
      BY <1>4, <1>t, OthersKept DEF Write, View
    <3>2. RightItem(t)'
      BY <1>4, <1>t, <1>r DEF Save, RightItem, TypeOK, Items, Nothing
    <3> QED
      BY <3>1, <3>2, <1>r DEF Alone, RightItem
  <2> QED
    BY <2>1, <2>2, <2>3, <2>4, <2>5, <1>a
<1>5. ASSUME NEW t \in Threads, Invalidate(t) PROVE TypeInv'
  <2>1. DiskTyped'
    BY <1>5, <1>d DEF Invalidate, DiskTyped
  <2>2. CacheTyped'
    BY <1>5, <1>d, <1>t, ViewKept DEF Invalidate, CacheTyped
  <2>3. ControlTyped'
    BY <1>5, <1>d DEF Invalidate, ControlTyped
  <2>4. mine' \in [Threads -> MineType]
    BY <1>5, <1>t, MineKept, ViewKept DEF Invalidate
  <2>5. \A u \in Threads : RightItem(u)'
    <3>1. Alone(t)
      BY <1>5, <1>t, OthersKept DEF Write, View
    <3>2. RightItem(t)'
      BY <1>5, <1>t, <1>r DEF Invalidate, RightItem, TypeOK, Items, Nothing
    <3> QED
      BY <3>1, <3>2, <1>r DEF Alone, RightItem
  <2> QED
    BY <2>1, <2>2, <2>3, <2>4, <2>5, <1>a
<1>6. ASSUME NEW t \in Threads, Readback(t) PROVE TypeInv'
  <2>1. DiskTyped' /\ CacheTyped' /\ ControlTyped'
    BY <1>6, <1>d DEF Readback, Verified, DiskTyped, CacheTyped, ControlTyped
  <2>4. mine' \in [Threads -> MineType]
    BY <1>6, <1>t, MineKept, ViewKept DEF Readback, Verified
  <2>5. \A u \in Threads : RightItem(u)'
    <3>1. Alone(t)
      BY <1>6, <1>t, OthersKept DEF Write, View
    <3>2. RightItem(t)'
      BY <1>6, <1>t, <1>r DEF Readback, Verified, RightItem, TypeOK, Items, Nothing
    <3> QED
      BY <3>1, <3>2, <1>r DEF Alone, RightItem
  <2> QED
    BY <2>1, <2>4, <2>5, <1>a
<1>7. ASSUME NEW t \in Threads, BackgroundRefresh(t) PROVE TypeInv'
  <2>1. DiskTyped' /\ CacheTyped' /\ ControlTyped'
    BY <1>7, <1>d DEF BackgroundRefresh, Refresh, DiskTyped, CacheTyped, ControlTyped
  <2>4. mine' \in [Threads -> MineType]
    BY <1>7, <1>t, MineKept, ViewKept DEF BackgroundRefresh, Refresh
  <2>5. \A u \in Threads : RightItem(u)'
    <3>1. Alone(t)
      BY <1>7, <1>t, OthersKept DEF Write, View
    <3>2. RightItem(t)'
      BY <1>7, <1>t, <1>r DEF BackgroundRefresh, Refresh, RightItem, TypeOK, Items, Nothing
    <3> QED
      BY <3>1, <3>2, <1>r DEF Alone, RightItem
  <2> QED
    BY <2>1, <2>4, <2>5, <1>a
<1>8. ASSUME NEW t \in Threads, Unlink(t) PROVE TypeInv'
  <2>1. DiskTyped'
    BY <1>8, <1>d, <1>t, <1>r, GenerationType, ViewKept DEF Unlink, DiskTyped, RightItem
  <2>2. CacheTyped'
    BY <1>8, <1>d DEF Unlink, CacheTyped
  <2>3. ControlTyped'
    BY <1>8, <1>d DEF Unlink, ControlTyped
  <2>4. mine' \in [Threads -> MineType]
    BY <1>8, <1>t, MineKept, ViewKept DEF Unlink
  <2>5. \A u \in Threads : RightItem(u)'
    <3>1. Alone(t)
      BY <1>8, <1>t, OthersKept DEF Write, View
    <3>2. RightItem(t)'
      BY <1>8, <1>t, <1>r DEF Unlink, RightItem, TypeOK, Items, Nothing
    <3> QED
      BY <3>1, <3>2, <1>r DEF Alone, RightItem
  <2> QED
    BY <2>1, <2>2, <2>3, <2>4, <2>5, <1>a
<1>9. ASSUME NEW t \in Threads, RemoveEvidence(t) PROVE TypeInv'
  <2>1. DiskTyped'
    BY <1>9, <1>d, <1>t, <1>r, GenerationType, ViewKept DEF RemoveEvidence, DiskTyped, RightItem
  <2>2. CacheTyped'
    BY <1>9, <1>d DEF RemoveEvidence, CacheTyped
  <2>3. ControlTyped'
    BY <1>9, <1>d DEF RemoveEvidence, ControlTyped
  <2>4. mine' \in [Threads -> MineType]
    BY <1>9, <1>t, MineKept, ViewKept DEF RemoveEvidence
  <2>5. \A u \in Threads : RightItem(u)'
    <3>1. Alone(t)
      BY <1>9, <1>t, OthersKept DEF Write, View
    <3>2. RightItem(t)'
      BY <1>9, <1>t, <1>r DEF RemoveEvidence, RightItem, TypeOK, Items, Nothing
    <3> QED
      BY <3>1, <3>2, <1>r DEF Alone, RightItem
  <2> QED
    BY <2>1, <2>2, <2>3, <2>4, <2>5, <1>a
<1>10. ASSUME NEW t \in Threads, Exists(t) PROVE TypeInv'
  <2>1. DiskTyped' /\ CacheTyped' /\ ControlTyped'
    BY <1>10, <1>d DEF Exists, DiskTyped, CacheTyped, ControlTyped
  <2>4. mine' \in [Threads -> MineType]
    BY <1>10, <1>t, MineKept, ViewKept DEF Exists
  <2>5. \A u \in Threads : RightItem(u)'
    <3>1. Alone(t)
      BY <1>10, <1>t, OthersKept DEF Write, View
    <3>2. RightItem(t)'
      BY <1>10, <1>t, <1>r DEF Exists, RightItem, TypeOK, Items, Nothing
    <3> QED
      BY <3>1, <3>2, <1>r DEF Alone, RightItem
  <2> QED
    BY <2>1, <2>4, <2>5, <1>a
<1>11. ASSUME NEW t \in Threads, TakeStamp(t) PROVE TypeInv'
  <2>1. DiskTyped' /\ CacheTyped' /\ ControlTyped'
    BY <1>11, <1>d DEF TakeStamp, DiskTyped, CacheTyped, ControlTyped
  <2>4. mine' \in [Threads -> MineType]
    BY <1>11, <1>t, MineKept, ViewKept DEF TakeStamp
  <2>5. \A u \in Threads : RightItem(u)'
    <3>1. Alone(t)
      BY <1>11, <1>t, OthersKept DEF Write, View
    <3>2. RightItem(t)'
      BY <1>11, <1>t, <1>r DEF TakeStamp, RightItem, TypeOK, Items, Nothing
    <3> QED
      BY <3>1, <3>2, <1>r DEF Alone, RightItem
  <2> QED
    BY <2>1, <2>4, <2>5, <1>a
<1>12. ASSUME NEW t \in Threads, ReadCache(t) PROVE TypeInv'
  <2>1. DiskTyped' /\ CacheTyped' /\ ControlTyped'
    BY <1>12, <1>d DEF ReadCache, DiskTyped, CacheTyped, ControlTyped
  <2>4. mine' \in [Threads -> MineType]
    <3>1. CASE mine' = mine
      BY <1>t, <3>1
    <3>2. ASSUME NEW c \in cache, See(t, c) PROVE mine' \in [Threads -> MineType]
      BY <1>t, <1>d, <3>2, MineKept DEF CacheTyped
    <3> QED
      BY <1>12, <3>1, <3>2 DEF ReadCache
  <2>5. \A u \in Threads : RightItem(u)'
    <3>1. Alone(t)
      BY <1>12, <1>t, OthersKept DEF Write, View
    <3>2. RightItem(t)'
      BY <1>12, <1>t, <1>r DEF ReadCache, RightItem, TypeOK, Items, Nothing
    <3> QED
      BY <3>1, <3>2, <1>r DEF Alone, RightItem
  <2> QED
    BY <2>1, <2>4, <2>5, <1>a
<1>13. ASSUME NEW t \in Threads, CheckCached(t) PROVE TypeInv'
  <2>1. DiskTyped' /\ CacheTyped' /\ ControlTyped'
    BY <1>13, <1>d DEF CheckCached, Check, DiskTyped, CacheTyped, ControlTyped
  <2>4. mine' \in [Threads -> MineType]
    BY <1>13, <1>t, MineKept, ViewKept DEF CheckCached, Check
  <2>5. \A u \in Threads : RightItem(u)'
    <3>1. Alone(t)
      BY <1>13, <1>t, OthersKept DEF Write, View
    <3>2. RightItem(t)'
      BY <1>13, <1>t, <1>r DEF CheckCached, Check, RightItem, TypeOK, Items, Nothing
    <3> QED
      BY <3>1, <3>2, <1>r DEF Alone, RightItem
  <2> QED
    BY <2>1, <2>4, <2>5, <1>a
<1>14. ASSUME NEW t \in Threads, Miss(t) PROVE TypeInv'
  <2>1. DiskTyped' /\ CacheTyped' /\ ControlTyped'
    BY <1>14, <1>d DEF Miss, DiskTyped, CacheTyped, ControlTyped
  <2>4. mine' \in [Threads -> MineType]
    BY <1>14, <1>t, MineKept, ViewKept DEF Miss
  <2>5. \A u \in Threads : RightItem(u)'
    <3>1. Alone(t)
      BY <1>14, <1>t, OthersKept DEF Write, View
    <3>2. RightItem(t)'
      BY <1>14, <1>t, <1>r DEF Miss, RightItem, TypeOK, Items, Nothing
    <3> QED
      BY <3>1, <3>2, <1>r DEF Alone, RightItem
  <2> QED
    BY <2>1, <2>4, <2>5, <1>a
<1>15. ASSUME NEW t \in Threads, LoadView(t) PROVE TypeInv'
  <2>1. DiskTyped' /\ CacheTyped' /\ ControlTyped'
    BY <1>15, <1>d DEF LoadView, Loadable, DiskTyped, CacheTyped, ControlTyped
  <2>4. mine' \in [Threads -> MineType]
    <3>1. CASE Loadable
      <4> DEFINE v == [mine[t].view EXCEPT !.rows = Ledger.rows, !.stamp = Stamp, !.basis = private]
      <4>1. mine' = [mine EXCEPT ![t].view = v]
        BY <1>15, <3>1 DEF LoadView
      <4>2. v \in Projection
        BY <1>t, ViewKept
      <4> QED
        BY <1>t, <4>1, <4>2, MineKept
    <3>2. CASE ~Loadable
      BY <1>15, <1>t, <3>2, MineKept DEF LoadView
    <3> QED
      BY <3>1, <3>2
  <2>5. \A u \in Threads : RightItem(u)'
    <3>1. Alone(t)
      BY <1>15, <1>t, OthersKept DEF Write, View
    <3>2. RightItem(t)'
      BY <1>15, <1>t, <1>r DEF LoadView, Loadable, RightItem, TypeOK, Items, Nothing
    <3> QED
      BY <3>1, <3>2, <1>r DEF Alone, RightItem
  <2> QED
    BY <2>1, <2>4, <2>5, <1>a
<1>16. ASSUME NEW t \in Threads, RefreshView(t) PROVE TypeInv'
  <2>1. DiskTyped' /\ CacheTyped' /\ ControlTyped'
    BY <1>16, <1>d DEF RefreshView, Refresh, DiskTyped, CacheTyped, ControlTyped
  <2>4. mine' \in [Threads -> MineType]
    BY <1>16, <1>t, MineKept, ViewKept DEF RefreshView, Refresh
  <2>5. \A u \in Threads : RightItem(u)'
    <3>1. Alone(t)
      BY <1>16, <1>t, OthersKept DEF Write, View
    <3>2. RightItem(t)'
      BY <1>16, <1>t, <1>r DEF RefreshView, Refresh, RightItem, TypeOK, Items, Nothing
    <3> QED
      BY <3>1, <3>2, <1>r DEF Alone, RightItem
  <2> QED
    BY <2>1, <2>4, <2>5, <1>a
<1>17. ASSUME NEW t \in Threads, ReadPrices(t) PROVE TypeInv'
  <2>1. DiskTyped' /\ CacheTyped' /\ ControlTyped'
    BY <1>17, <1>d DEF ReadPrices, DiskTyped, CacheTyped, ControlTyped
  <2>4. mine' \in [Threads -> MineType]
    BY <1>17, <1>t, MineKept, ViewKept DEF ReadPrices
  <2>5. \A u \in Threads : RightItem(u)'
    <3>1. Alone(t)
      BY <1>17, <1>t, OthersKept DEF Write, View
    <3>2. RightItem(t)'
      BY <1>17, <1>t, <1>r DEF ReadPrices, RightItem, TypeOK, Items, Nothing
    <3> QED
      BY <3>1, <3>2, <1>r DEF Alone, RightItem
  <2> QED
    BY <2>1, <2>4, <2>5, <1>a
<1>18. ASSUME NEW t \in Threads, StampPrices(t) PROVE TypeInv'
  <2>1. DiskTyped' /\ CacheTyped' /\ ControlTyped'
    BY <1>18, <1>d DEF StampPrices, DiskTyped, CacheTyped, ControlTyped
  <2>4. mine' \in [Threads -> MineType]
    BY <1>18, <1>t, MineKept, ViewKept DEF StampPrices
  <2>5. \A u \in Threads : RightItem(u)'
    <3>1. Alone(t)
      BY <1>18, <1>t, OthersKept DEF Write, View
    <3>2. RightItem(t)'
      BY <1>18, <1>t, <1>r DEF StampPrices, RightItem, TypeOK, Items, Nothing
    <3> QED
      BY <3>1, <3>2, <1>r DEF Alone, RightItem
  <2> QED
    BY <2>1, <2>4, <2>5, <1>a
<1>19. ASSUME NEW t \in Threads, Publish(t) PROVE TypeInv'
  <2>1. DiskTyped'
    BY <1>19, <1>d DEF Publish, DiskTyped
  <2>2. CacheTyped'
    <3>1. cache' = cache \/ cache' = {mine[t].view}
      BY <1>19 DEF Publish
    <3>2. UNCHANGED inputs
      BY <1>19 DEF Publish
    <3> QED
      BY <1>d, <1>t, <3>1, ViewKept DEF CacheTyped
  <2>3. ControlTyped'
    BY <1>19, <1>d DEF Publish, ControlTyped
  <2>4. mine' \in [Threads -> MineType]
    BY <1>19, <1>t, MineKept, ViewKept DEF Publish
  <2>5. \A u \in Threads : RightItem(u)'
    <3>1. Alone(t)
      BY <1>19, <1>t, OthersKept DEF Write, View
    <3>2. RightItem(t)'
      BY <1>19, <1>t, <1>r DEF Publish, RightItem, TypeOK, Items, Nothing
    <3> QED
      BY <3>1, <3>2, <1>r DEF Alone, RightItem
  <2> QED
    BY <2>1, <2>2, <2>3, <2>4, <2>5, <1>a
<1>20. ASSUME NEW t \in Threads, Serve(t) PROVE TypeInv'
  <2>1. DiskTyped' /\ CacheTyped' /\ ControlTyped'
    BY <1>20, <1>d DEF Serve, DiskTyped, CacheTyped, ControlTyped
  <2>4. mine' \in [Threads -> MineType]
    BY <1>20, <1>t, MineKept, ViewKept DEF Serve
  <2>5. \A u \in Threads : RightItem(u)'
    <3>1. Alone(t)
      BY <1>20, <1>t, OthersKept DEF Write, View
    <3>2. RightItem(t)'
      BY <1>20, <1>t, <1>r DEF Serve, RightItem, TypeOK, Items, Nothing
    <3> QED
      BY <3>1, <3>2, <1>r DEF Alone, RightItem
  <2> QED
    BY <2>1, <2>4, <2>5, <1>a
<1>21. CASE RevisePrivate
  <2>1. DiskTyped' /\ CacheTyped' /\ ControlTyped'
    BY <1>21, <1>d DEF RevisePrivate, DiskTyped, CacheTyped, ControlTyped
  <2>4. mine' \in [Threads -> MineType]
    BY <1>21, <1>t DEF RevisePrivate
  <2>5. \A u \in Threads : RightItem(u)'
    BY <1>21, <1>t, <1>r DEF RevisePrivate, RightItem, TypeOK, Items, Nothing
  <2> QED
    BY <2>1, <2>4, <2>5, <1>a
<1>22. CASE LoseEvidence
  <2>1. DiskTyped'
    BY <1>22, <1>d, <1>t, GenerationType DEF LoseEvidence, DiskTyped
  <2>2. CacheTyped'
    BY <1>22, <1>d DEF LoseEvidence, CacheTyped
  <2>3. ControlTyped'
    BY <1>22, <1>d DEF LoseEvidence, ControlTyped
  <2>4. mine' \in [Threads -> MineType]
    BY <1>22, <1>t DEF LoseEvidence
  <2>5. \A u \in Threads : RightItem(u)'
    BY <1>22, <1>t, <1>r DEF LoseEvidence, RightItem, TypeOK, Items, Nothing
  <2> QED
    BY <2>1, <2>2, <2>3, <2>4, <2>5, <1>a
<1>23. CASE Crash
  <2>1. DiskTyped'
    BY <1>23, <1>d, <1>t, GenerationType DEF Crash, DiskTyped
  <2>2. CacheTyped'
    BY <1>23, <1>d DEF Crash, CacheTyped
  <2>3. ControlTyped'
    BY <1>23, <1>d DEF Crash, ControlTyped
  <2>4. mine' \in [Threads -> MineType]
    BY <1>23, NothingTyped DEF Crash
  <2>5. \A u \in Threads : RightItem(u)'
    BY <1>23, <1>t, <1>r DEF Crash, RightItem, TypeOK, Items, Nothing
  <2> QED
    BY <2>1, <2>2, <2>3, <2>4, <2>5, <1>a
<1>24. CASE UNCHANGED vars
  <2>1. DiskTyped' /\ CacheTyped' /\ ControlTyped'
    BY <1>24, <1>d DEF vars, DiskTyped, CacheTyped, ControlTyped
  <2>4. mine' \in [Threads -> MineType]
    BY <1>24, <1>t DEF vars
  <2>5. \A u \in Threads : RightItem(u)'
    BY <1>24, <1>t, <1>r DEF vars, RightItem, TypeOK, Items, Nothing
  <2> QED
    BY <2>1, <2>4, <2>5, <1>a
<1> QED
  BY <1>1, <1>2, <1>3, <1>4, <1>5, <1>6, <1>7, <1>8, <1>9, <1>10, <1>11, <1>12, <1>13, <1>14,
     <1>15, <1>16, <1>17, <1>18, <1>19, <1>20, <1>21, <1>22, <1>23, <1>24
  DEF Next, Write, View

\* An appended generation is the last one, and the others stay.
LEMMA Grown ==
  ASSUME TypeOK, NEW x \in Generation, saved' = Append(saved, x)
  PROVE  /\ Len(saved') = Len(saved) + 1 /\ Ledger' = x
         /\ \A g \in 1 .. Len(saved) : saved'[g] = saved[g]
BY DEF TypeOK, Ledger

\* The lock stays where it was, is taken or is given back.
LockMoves(t) ==
  \/ lock' = lock /\ (Holding(t)' <=> Holding(t))
  \/ lock = NoThread /\ lock' = t /\ Holding(t)'
  \/ lock = t /\ lock' = NoThread /\ ~Holding(t)'

\* The ledger is as it was and no evidence has disappeared untold.
Kept == saved' = saved /\ evidence \union lost \subseteq evidence' \union lost'

\* The lock is that of the one thread that works on the ledger: what it has in
\* memory is still true when it commits and when it reads back.
LEMMA LedgerStep == LedgerInv /\ [Next]_vars => LedgerInv'
<1> SUFFICES ASSUME LedgerInv, [Next]_vars
             PROVE  (LockHeld /\ Working /\ AbsentEmpty /\ LedgerHasEvidence)'
  BY TypeStep DEF LedgerInv
<1>t. TypeOK /\ TypeInv /\ TypeOK' /\ TypeInv'
  BY TypeStep DEF LedgerInv, TypeInv
<1>i. LockHeld /\ Working /\ AbsentEmpty /\ LedgerHasEvidence
  BY DEF LedgerInv
<1>k. ASSUME Kept PROVE (AbsentEmpty /\ LedgerHasEvidence)'
  BY <1>i, <1>k DEF Kept, AbsentEmpty, LedgerHasEvidence, Ledger
<1>q. ASSUME NEW t \in Threads, Alone(t), LockMoves(t), InMemory(t)', Kept \/ lock = t \/ lock' = t
      PROVE  (LockHeld /\ Working)'
  <2>1. LockHeld'
    BY <1>q, <1>i, LedgerAssumption DEF LockHeld, Alone, LockMoves, Holding
  <2>2. ASSUME NEW u \in Threads \ {t} PROVE InMemory(u)'
    <3>1. InMemory(u) /\ pc'[u] = pc[u] /\ mine'[u] = mine[u]
      BY <1>q, <1>i DEF Working, Alone
    <3>2. CASE Kept
      BY <3>1, <3>2 DEF InMemory, Kept, Ledger
    <3>3. CASE lock = t \/ lock' = t
      BY <2>1, <3>1, <3>3, <1>i DEF InMemory, LockHeld, Holding
    <3> QED
      BY <1>q, <3>2, <3>3
  <2> QED
    BY <1>q, <2>1, <2>2 DEF Working
<1>o. ASSUME NEW t \in Threads, Request(t) \/ Write(t) \/ View(t) PROVE Alone(t)
  BY <1>o, <1>t, OthersKept
<1>m. ASSUME NEW t \in Threads
      PROVE  /\ InMemory(t) /\ RightItem(t) /\ (lock = t <=> Holding(t))
             /\ pc \in [Threads -> Labels] /\ mine \in [Threads -> MineType]
  BY <1>i, <1>t DEF Working, LockHeld, TypeInv, TypeOK, MineType
<1> USE LedgerAssumption DEF disk, Goto, Reply, Acquire, Release, See
<1>r. ASSUME NEW t \in Threads, Request(t)
      PROVE  (LockHeld /\ Working /\ AbsentEmpty /\ LedgerHasEvidence)'
  <2>1. Kept
    BY <1>r DEF Request, Accept, Kept
  <2>2. LockMoves(t)
    BY <1>r, <1>m DEF Request, Accept, LockMoves, Holding, RightItem, Nothing
  <2>3. InMemory(t)'
    BY <1>r, <1>m, <2>1 DEF Request, Accept, InMemory, RightItem, Kept, Ledger, Nothing
  <2> QED
    BY <1>r, <1>k, <1>q, <1>o, <2>1, <2>2, <2>3 DEF Write, View
<1>1. ASSUME NEW t \in Threads, Load(t)
      PROVE  (LockHeld /\ Working /\ AbsentEmpty /\ LedgerHasEvidence)'
  <2>1. Kept
    BY <1>1 DEF Load, Kept
  <2>2. LockMoves(t)
    BY <1>1, <1>m DEF Load, LockMoves, Holding, RightItem, Nothing
  <2>3. InMemory(t)'
    <3>1. CASE Loadable /\ (pc[t] = "edit" => Ledger.rows # {})
      <4>1. mine' = [mine EXCEPT ![t].rows = Ledger.rows \union {mine[t].item},
                                 ![t].keys = Ledger.rows \intersect Statements]
        BY <1>1, <3>1 DEF Load
      <4>2. mine'[t].rows = Ledger.rows \union {mine[t].item} /\ mine'[t].item = mine[t].item
        BY <1>m, <4>1 DEF MineType
      <4>3. pc'[t] = IF pc[t] = "import" THEN "evidence" ELSE "save"
        BY <1>1, <1>m, <3>1 DEF Load
      <4>4. Ledger' = Ledger
        BY <2>1 DEF Kept, Ledger
      <4>5. pc'[t] = "save" => mine[t].item \notin Statements
        BY <1>1, <1>m, <4>3 DEF Load, RightItem
      <4> QED
        BY <4>2, <4>3, <4>4, <4>5 DEF InMemory
    <3>2. CASE ~(Loadable /\ (pc[t] = "edit" => Ledger.rows # {}))
      BY <1>1, <1>m, <3>2 DEF Load, InMemory
    <3> QED
      BY <3>1, <3>2
  <2> QED
    BY <1>1, <1>k, <1>q, <1>o, <2>1, <2>2, <2>3 DEF Write, View
<1>2. ASSUME NEW t \in Threads, Materialize(t)
      PROVE  (LockHeld /\ Working /\ AbsentEmpty /\ LedgerHasEvidence)'
  <2>1. Kept
    BY <1>2 DEF Materialize, Kept
  <2>2. LockMoves(t)
    BY <1>2, <1>m DEF Materialize, LockMoves, Holding, RightItem, Nothing
  <2>3. InMemory(t)'
    BY <1>2, <1>m, <2>1 DEF Materialize, InMemory, RightItem, Kept, Ledger, Nothing
  <2> QED
    BY <1>2, <1>k, <1>q, <1>o, <2>1, <2>2, <2>3 DEF Write, View
<1>3. ASSUME NEW t \in Threads, Save(t)
      PROVE  (LockHeld /\ Working /\ AbsentEmpty /\ LedgerHasEvidence)'
  <2>1. lock = t /\ mine[t].item \in Items /\ mine[t].rows = Ledger.rows \union {mine[t].item}
        /\ {mine[t].item} \intersect Statements \subseteq evidence \union lost
    BY <1>3, <1>m DEF Save, RightItem, InMemory, Holding
  <2>2. UNCHANGED <<evidence, lost>>
    BY <1>3 DEF Save
  <2> DEFINE next == [exists |-> TRUE, rows |-> mine[t].rows]
  <2>3. next \in Generation
    BY <1>t, ViewKept
  <2>4. CASE Fault /\ UNCHANGED saved /\ Release /\ Reply(t)
    <3>1. LockMoves(t)
      BY <1>m, <2>1, <2>4 DEF LockMoves, Holding, Labels
    <3>2. InMemory(t)'
      BY <1>m, <2>4 DEF InMemory
    <3>3. Kept
      BY <2>2, <2>4 DEF Kept
    <3> QED
      BY <1>3, <1>k, <1>q, <1>o, <3>1, <3>2, <3>3 DEF Write
  <2>5. CASE /\ saved' = Append(saved, next) \/ (next = Ledger /\ UNCHANGED saved)
             /\ Goto(t, "invalidate") /\ UNCHANGED mine
             /\ IF mine[t].item \in Edits THEN Release ELSE UNCHANGED lock
    <3>1. Ledger' = next
      BY <1>t, <2>3, <2>5, Grown DEF Ledger
    <3>2. Ledger'.exists /\ Ledger'.rows = mine[t].rows
      BY <3>1
    <3>3. pc'[t] = "invalidate" /\ mine'[t] = mine[t]
      BY <1>m, <2>5
    <3>4. LockMoves(t)
      <4>1. CASE mine[t].item \in Edits
        BY <2>1, <2>5, <3>3, <4>1 DEF LockMoves, Holding
      <4>2. CASE mine[t].item \notin Edits
        BY <1>m, <2>1, <2>5, <3>3, <4>2 DEF LockMoves, Holding, Items
      <4> QED
        BY <4>1, <4>2
    <3>5. InMemory(t)'
      BY <3>2, <3>3 DEF InMemory
    <3>6. AbsentEmpty'
      <4>1. CASE saved' = Append(saved, next)
        <5>1. /\ Len(saved') = Len(saved) + 1 /\ Ledger' = next
              /\ \A g \in 1 .. Len(saved) : saved'[g] = saved[g]
          BY <1>t, <2>3, <4>1, Grown
        <5> QED
          BY <1>i, <1>t, <5>1, GenerationType DEF AbsentEmpty, Ledger
      <4>2. CASE UNCHANGED saved
        BY <1>i, <4>2 DEF AbsentEmpty
      <4> QED
        BY <2>5, <4>1, <4>2
    <3>7. LedgerHasEvidence'
      BY <1>i, <2>1, <2>2, <3>2 DEF LedgerHasEvidence
    <3> QED
      BY <1>3, <1>q, <1>o, <2>1, <3>4, <3>5, <3>6, <3>7 DEF Write
  <2> QED
    BY <1>3, <2>4, <2>5 DEF Save
<1>4. ASSUME NEW t \in Threads, Invalidate(t)
      PROVE  (LockHeld /\ Working /\ AbsentEmpty /\ LedgerHasEvidence)'
  <2>1. Kept
    BY <1>4 DEF Invalidate, Kept
  <2>2. LockMoves(t)
    BY <1>4, <1>m DEF Invalidate, LockMoves, Holding, RightItem, Nothing
  <2>3. InMemory(t)'
    BY <1>4, <1>m, <2>1 DEF Invalidate, InMemory, RightItem, Kept, Ledger, Nothing
  <2> QED
    BY <1>4, <1>k, <1>q, <1>o, <2>1, <2>2, <2>3 DEF Write, View
<1>5. ASSUME NEW t \in Threads, Readback(t)
      PROVE  (LockHeld /\ Working /\ AbsentEmpty /\ LedgerHasEvidence)'
  <2>1. Kept
    BY <1>5 DEF Readback, Verified, Kept
  <2>2. LockMoves(t)
    BY <1>5, <1>m DEF Readback, Verified, LockMoves, Holding, RightItem, Nothing
  <2>3. InMemory(t)'
    BY <1>5, <1>m, <2>1 DEF Readback, Verified, InMemory, RightItem, Kept, Ledger, Nothing
  <2> QED
    BY <1>5, <1>k, <1>q, <1>o, <2>1, <2>2, <2>3 DEF Write, View
<1>6. ASSUME NEW t \in Threads, BackgroundRefresh(t)
      PROVE  (LockHeld /\ Working /\ AbsentEmpty /\ LedgerHasEvidence)'
  <2>1. Kept
    BY <1>6 DEF BackgroundRefresh, Refresh, Kept
  <2>2. LockMoves(t)
    BY <1>6, <1>m DEF BackgroundRefresh, Refresh, LockMoves, Holding, RightItem, Nothing
  <2>3. InMemory(t)'
    BY <1>6, <1>m, <2>1 DEF BackgroundRefresh, Refresh, InMemory, RightItem, Kept, Ledger, Nothing
  <2> QED
    BY <1>6, <1>k, <1>q, <1>o, <2>1, <2>2, <2>3 DEF Write, View
<1>7. ASSUME NEW t \in Threads, Unlink(t)
      PROVE  (LockHeld /\ Working /\ AbsentEmpty /\ LedgerHasEvidence)'
  <2>1. lock = NoThread /\ lock' = t /\ pc'[t] = "rmtree" /\ mine'[t] = mine[t]
    BY <1>7, <1>m DEF Unlink
  <2>2. LockMoves(t)
    BY <2>1 DEF LockMoves, Holding
  <2>3. Ledger' = Absent \/ (saved' = saved /\ ~Ledger.exists)
    BY <1>7, <1>t, GenerationType, Grown DEF Unlink
  <2>4. ~Ledger'.exists
    BY <2>3 DEF Absent, Ledger
  <2>5. InMemory(t)'
    BY <2>1, <2>4 DEF InMemory
  <2>6. AbsentEmpty'
    <3>1. CASE saved' = Append(saved, Absent)
      <4>1. /\ Len(saved') = Len(saved) + 1 /\ Ledger' = Absent
            /\ \A g \in 1 .. Len(saved) : saved'[g] = saved[g]
        BY <1>t, <3>1, GenerationType, Grown
      <4> QED
        BY <1>i, <1>t, <4>1, GenerationType DEF AbsentEmpty, Ledger, Absent
    <3>2. CASE saved' = saved
      BY <1>i, <3>2 DEF AbsentEmpty
    <3> QED
      BY <1>7, <3>1, <3>2 DEF Unlink
  <2>7. Ledger'.rows = {}
    <3>1. saved' \in Seq(Generation) /\ saved' # << >>
      BY <1>t DEF TypeOK
    <3>2. Len(saved') \in 1 .. Len(saved')
      BY <3>1
    <3> QED
      BY <2>4, <2>6, <3>2 DEF AbsentEmpty, Ledger
  <2>8. LedgerHasEvidence'
    BY <2>7 DEF LedgerHasEvidence
  <2> QED
    BY <1>7, <1>q, <1>o, <2>1, <2>2, <2>5, <2>6, <2>8 DEF Write
<1>8. ASSUME NEW t \in Threads, RemoveEvidence(t)
      PROVE  (LockHeld /\ Working /\ AbsentEmpty /\ LedgerHasEvidence)'
  <2>1. lock = t /\ ~Ledger.exists
    BY <1>8, <1>m DEF RemoveEvidence, InMemory, Holding
  <2>2. saved' = saved /\ lock' = NoThread
    BY <1>8 DEF RemoveEvidence
  <2>3. pc'[t] = "idle" \/ (pc'[t] = "invalidate" /\ mine'[t] = mine[t])
    BY <1>8, <1>m DEF RemoveEvidence
  <2>4. mine[t].item = NoItem
    BY <1>8, <1>m DEF RemoveEvidence, RightItem
  <2>5. LockMoves(t) /\ InMemory(t)'
    BY <2>1, <2>2, <2>3, <2>4 DEF LockMoves, Holding, InMemory
  <2>6. Ledger.rows = {}
    BY <1>i, <1>t, <2>1, GenerationType DEF AbsentEmpty, Ledger
  <2>7. (AbsentEmpty /\ LedgerHasEvidence)'
    BY <1>i, <2>2, <2>6 DEF AbsentEmpty, LedgerHasEvidence, Ledger
  <2> QED
    BY <1>8, <1>q, <1>o, <2>1, <2>5, <2>7 DEF Write
<1>9. ASSUME NEW t \in Threads, Exists(t)
      PROVE  (LockHeld /\ Working /\ AbsentEmpty /\ LedgerHasEvidence)'
  <2>1. Kept
    BY <1>9 DEF Exists, Kept
  <2>2. LockMoves(t)
    BY <1>9, <1>m DEF Exists, LockMoves, Holding, RightItem, Nothing
  <2>3. InMemory(t)'
    BY <1>9, <1>m, <2>1 DEF Exists, InMemory, RightItem, Kept, Ledger, Nothing
  <2> QED
    BY <1>9, <1>k, <1>q, <1>o, <2>1, <2>2, <2>3 DEF Write, View
<1>10. ASSUME NEW t \in Threads, TakeStamp(t)
       PROVE  (LockHeld /\ Working /\ AbsentEmpty /\ LedgerHasEvidence)'
  <2>1. Kept
    BY <1>10 DEF TakeStamp, Kept
  <2>2. LockMoves(t)
    BY <1>10, <1>m DEF TakeStamp, LockMoves, Holding, RightItem, Nothing
  <2>3. InMemory(t)'
    BY <1>10, <1>m, <2>1 DEF TakeStamp, InMemory, RightItem, Kept, Ledger, Nothing
  <2> QED
    BY <1>10, <1>k, <1>q, <1>o, <2>1, <2>2, <2>3 DEF Write, View
<1>11. ASSUME NEW t \in Threads, ReadCache(t)
       PROVE  (LockHeld /\ Working /\ AbsentEmpty /\ LedgerHasEvidence)'
  <2>1. Kept
    BY <1>11 DEF ReadCache, Kept
  <2>2. LockMoves(t)
    BY <1>11, <1>m DEF ReadCache, LockMoves, Holding, RightItem, Nothing
  <2>3. InMemory(t)'
    BY <1>11, <1>m, <2>1 DEF ReadCache, InMemory, RightItem, Kept, Ledger, Nothing
  <2> QED
    BY <1>11, <1>k, <1>q, <1>o, <2>1, <2>2, <2>3 DEF Write, View
<1>12. ASSUME NEW t \in Threads, CheckCached(t)
       PROVE  (LockHeld /\ Working /\ AbsentEmpty /\ LedgerHasEvidence)'
  <2>1. Kept
    BY <1>12 DEF CheckCached, Check, Kept
  <2>2. LockMoves(t)
    BY <1>12, <1>m DEF CheckCached, Check, LockMoves, Holding, RightItem, Nothing
  <2>3. InMemory(t)'
    BY <1>12, <1>m, <2>1 DEF CheckCached, Check, InMemory, RightItem, Kept, Ledger, Nothing
  <2> QED
    BY <1>12, <1>k, <1>q, <1>o, <2>1, <2>2, <2>3 DEF Write, View
<1>13. ASSUME NEW t \in Threads, Miss(t)
       PROVE  (LockHeld /\ Working /\ AbsentEmpty /\ LedgerHasEvidence)'
  <2>1. Kept
    BY <1>13 DEF Miss, Kept
  <2>2. LockMoves(t)
    BY <1>13, <1>m DEF Miss, LockMoves, Holding, RightItem, Nothing
  <2>3. InMemory(t)'
    BY <1>13, <1>m, <2>1 DEF Miss, InMemory, RightItem, Kept, Ledger, Nothing
  <2> QED
    BY <1>13, <1>k, <1>q, <1>o, <2>1, <2>2, <2>3 DEF Write, View
<1>14. ASSUME NEW t \in Threads, LoadView(t)
       PROVE  (LockHeld /\ Working /\ AbsentEmpty /\ LedgerHasEvidence)'
  <2>1. Kept
    BY <1>14 DEF LoadView, Loadable, Kept
  <2>2. LockMoves(t)
    BY <1>14, <1>m DEF LoadView, Loadable, LockMoves, Holding, RightItem, Nothing
  <2>3. InMemory(t)'
    BY <1>14, <1>m, <2>1 DEF LoadView, Loadable, InMemory, RightItem, Kept, Ledger, Nothing
  <2> QED
    BY <1>14, <1>k, <1>q, <1>o, <2>1, <2>2, <2>3 DEF Write, View
<1>15. ASSUME NEW t \in Threads, RefreshView(t)
       PROVE  (LockHeld /\ Working /\ AbsentEmpty /\ LedgerHasEvidence)'
  <2>1. Kept
    BY <1>15 DEF RefreshView, Refresh, Kept
  <2>2. LockMoves(t)
    BY <1>15, <1>m DEF RefreshView, Refresh, LockMoves, Holding, RightItem, Nothing
  <2>3. InMemory(t)'
    BY <1>15, <1>m, <2>1 DEF RefreshView, Refresh, InMemory, RightItem, Kept, Ledger, Nothing
  <2> QED
    BY <1>15, <1>k, <1>q, <1>o, <2>1, <2>2, <2>3 DEF Write, View
<1>16. ASSUME NEW t \in Threads, ReadPrices(t)
       PROVE  (LockHeld /\ Working /\ AbsentEmpty /\ LedgerHasEvidence)'
  <2>1. Kept
    BY <1>16 DEF ReadPrices, Kept
  <2>2. LockMoves(t)
    BY <1>16, <1>m DEF ReadPrices, LockMoves, Holding, RightItem, Nothing
  <2>3. InMemory(t)'
    BY <1>16, <1>m, <2>1 DEF ReadPrices, InMemory, RightItem, Kept, Ledger, Nothing
  <2> QED
    BY <1>16, <1>k, <1>q, <1>o, <2>1, <2>2, <2>3 DEF Write, View
<1>17. ASSUME NEW t \in Threads, StampPrices(t)
       PROVE  (LockHeld /\ Working /\ AbsentEmpty /\ LedgerHasEvidence)'
  <2>1. Kept
    BY <1>17 DEF StampPrices, Kept
  <2>2. LockMoves(t)
    BY <1>17, <1>m DEF StampPrices, LockMoves, Holding, RightItem, Nothing
  <2>3. InMemory(t)'
    BY <1>17, <1>m, <2>1 DEF StampPrices, InMemory, RightItem, Kept, Ledger, Nothing
  <2> QED
    BY <1>17, <1>k, <1>q, <1>o, <2>1, <2>2, <2>3 DEF Write, View
<1>18. ASSUME NEW t \in Threads, Publish(t)
       PROVE  (LockHeld /\ Working /\ AbsentEmpty /\ LedgerHasEvidence)'
  <2>1. Kept
    BY <1>18 DEF Publish, Kept
  <2>2. LockMoves(t)
    BY <1>18, <1>m DEF Publish, LockMoves, Holding, RightItem, Nothing
  <2>3. InMemory(t)'
    BY <1>18, <1>m, <2>1 DEF Publish, InMemory, RightItem, Kept, Ledger, Nothing
  <2> QED
    BY <1>18, <1>k, <1>q, <1>o, <2>1, <2>2, <2>3 DEF Write, View
<1>19. ASSUME NEW t \in Threads, Serve(t)
       PROVE  (LockHeld /\ Working /\ AbsentEmpty /\ LedgerHasEvidence)'
  <2>1. Kept
    BY <1>19 DEF Serve, Kept
  <2>2. LockMoves(t)
    BY <1>19, <1>m DEF Serve, LockMoves, Holding, RightItem, Nothing
  <2>3. InMemory(t)'
    BY <1>19, <1>m, <2>1 DEF Serve, InMemory, RightItem, Kept, Ledger, Nothing
  <2> QED
    BY <1>19, <1>k, <1>q, <1>o, <2>1, <2>2, <2>3 DEF Write, View
<1>21. CASE RevisePrivate
  <2>1. Kept /\ UNCHANGED <<lock, pc, mine>>
    BY <1>21 DEF RevisePrivate, Kept
  <2>2. (LockHeld /\ Working)'
    BY <1>i, <2>1 DEF LockHeld, Working, Holding, InMemory, Kept, Ledger
  <2> QED
    BY <1>k, <2>1, <2>2
<1>22. CASE LoseEvidence
  <2>1. Kept /\ UNCHANGED <<lock, pc, mine>>
    BY <1>22 DEF LoseEvidence, Kept
  <2>2. (LockHeld /\ Working)'
    BY <1>i, <2>1 DEF LockHeld, Working, Holding, InMemory, Kept, Ledger
  <2> QED
    BY <1>k, <2>1, <2>2
<1>23. CASE Crash
  <2>1. lock' = NoThread /\ (\A u \in Threads : pc'[u] = "idle") /\ UNCHANGED <<evidence, lost>>
    BY <1>23 DEF Crash
  <2>2. (LockHeld /\ Working)'
    BY <2>1 DEF LockHeld, Working, Holding, InMemory
  <2>3. CASE saved' = saved
    BY <1>k, <2>1, <2>2, <2>3 DEF Kept
  <2>4. CASE saved' = Append(saved, Ledger)
    <3>1. /\ Len(saved') = Len(saved) + 1 /\ Ledger' = Ledger
          /\ \A g \in 1 .. Len(saved) : saved'[g] = saved[g]
      BY <1>t, <2>4, GenerationType, Grown
    <3>2. AbsentEmpty'
      BY <1>i, <1>t, <3>1, GenerationType DEF AbsentEmpty, Ledger
    <3>3. LedgerHasEvidence'
      BY <1>i, <2>1, <3>1 DEF LedgerHasEvidence
    <3> QED
      BY <2>2, <3>2, <3>3
  <2> QED
    BY <1>23, <2>3, <2>4 DEF Crash
<1>24. CASE UNCHANGED vars
  <2>1. Kept /\ UNCHANGED <<lock, pc, mine>>
    BY <1>24 DEF vars, Kept
  <2>2. (LockHeld /\ Working)'
    BY <1>i, <2>1 DEF LockHeld, Working, Holding, InMemory, Kept, Ledger
  <2> QED
    BY <1>k, <2>1, <2>2
<1> QED
  BY <1>r, <1>1, <1>2, <1>3, <1>4, <1>5, <1>6, <1>7, <1>8, <1>9, <1>10, <1>11, <1>12, <1>13,
     <1>14, <1>15, <1>16, <1>17, <1>18, <1>19, <1>21, <1>22, <1>23, <1>24
  DEF Next, Write, View

\* The ledger starts with nothing, or with one statement and its evidence.
LEMMA ViewStart == Init => ViewInv
<1> SUFFICES ASSUME Init PROVE ViewInv
  OBVIOUS
<1>1. DiskTyped /\ AbsentEmpty /\ LedgerHasEvidence
  <2>1. PICK x \in Generation :
          /\ saved = <<x>> /\ (x = Absent \/ x.exists)
          /\ x.rows \intersect Statements \subseteq evidence /\ evidence \subseteq Statements
    <3>1. CASE saved = <<Absent>> /\ evidence = {}
      BY <3>1 DEF Absent, Generation
    <3>2. ASSUME NEW s \in Statements, saved = <<[exists |-> TRUE, rows |-> {s}]>>, evidence = {s}
          PROVE  \E x \in Generation :
                   /\ saved = <<x>> /\ (x = Absent \/ x.exists)
                   /\ x.rows \intersect Statements \subseteq evidence
                   /\ evidence \subseteq Statements
      <4> DEFINE x == [exists |-> TRUE, rows |-> {s}]
      <4>1. x \in Generation
        BY DEF Generation, Items
      <4> QED
        BY <3>2, <4>1
    <3> QED
      BY <3>1, <3>2 DEF Init
  <2>2. Len(saved) = 1 /\ saved[1] = x /\ saved \in Seq(Generation) /\ saved # << >> /\ Ledger = x
    BY <2>1 DEF Ledger
  <2>3. AbsentEmpty
    BY <2>1, <2>2 DEF AbsentEmpty, Absent
  <2> QED
    BY <2>1, <2>2, <2>3 DEF Init, DiskTyped, LedgerHasEvidence
<1>2. CacheTyped /\ ControlTyped /\ mine \in [Threads -> MineType]
  BY LedgerAssumption, NothingTyped DEF Init, CacheTyped, ControlTyped, Labels
<1>3. TypeInv
  BY <1>1, <1>2 DEF Init, TypeInv, TypeOK, MineType, DiskTyped, CacheTyped, ControlTyped, RightItem
<1>4. LockHeld /\ Working
  BY LedgerAssumption DEF Init, LockHeld, Working, Holding, InMemory
<1>5. CacheTrue
  BY DEF Init, CacheTrue
<1>6. ASSUME NEW t \in Threads PROVE Began(t) /\ ViewKnown(t)
  <2>1. pc[t] = "idle" /\ mine[t].since = [saved |-> 0, private |-> 0, prices |-> 0]
    BY DEF Init, Nothing
  <2>2. Len(saved) \in Nat /\ private = 1 /\ prices = 1
    BY <1>1 DEF Init, DiskTyped
  <2> QED
    BY <2>1, <2>2 DEF Began, ViewKnown
<1> QED
  BY <1>1, <1>3, <1>4, <1>5, <1>6 DEF ViewInv, LedgerInv

\* The ledger invariant holds throughout.
THEOREM LedgerInvariant == Spec => []LedgerInv
<1>1. Init => LedgerInv
  BY ViewStart DEF ViewInv
<1> QED
  BY <1>1, LedgerStep, PTL DEF Spec

\* Whatever fails or dies, the ledger names no evidence that was not on disk
\* before (merge_and_write_investment_payload, clear_investment_store), and from
\* its commit to its readback an import sees the ledger it wrote.
THEOREM ImportSoundAlways == Spec => []ImportSound
<1>1. LedgerInv => LedgerHasEvidence
  BY DEF LedgerInv
<1>2. LedgerInv => ReadbackOwn
  BY DEF LedgerInv, LockHeld, Working, InMemory, Holding, ReadbackOwn
<1>3. LedgerInv => ImportSound
  BY <1>1, <1>2 DEF ImportSound
<1> QED
  BY LedgerInvariant, <1>3, PTL

\* A step of the ledger is one request's addition, a clear, or a stutter.
LEMMA AtomicStep == LedgerInv /\ LedgerInv' /\ [Next]_vars => [Atomic!Next]_Ledger
<1> SUFFICES ASSUME LedgerInv, LedgerInv', [Next]_vars PROVE Atomic!Next \/ Ledger' = Ledger
  OBVIOUS
<1>t. TypeOK
  BY DEF LedgerInv, TypeInv
<1>1. CASE saved' = saved
  BY <1>1 DEF Ledger
<1>2. ASSUME NEW t \in Threads, Save(t) PROVE Atomic!Next \/ Ledger' = Ledger
  <2>1. mine[t].item \in Items /\ mine[t].rows = Ledger.rows \union {mine[t].item}
    BY <1>2 DEF Save, LedgerInv, TypeInv, Working, RightItem, InMemory
  <2> DEFINE next == [exists |-> TRUE, rows |-> mine[t].rows]
  <2>2. saved' = saved \/ saved' = Append(saved, next)
    BY <1>2 DEF Save
  <2>3. CASE saved' = Append(saved, next)
    <3>1. Ledger' = [exists |-> TRUE, rows |-> Ledger.rows \union {mine[t].item}]
      BY <1>t, <2>1, <2>3, ViewKept, Grown
    <3> QED
      BY <2>1, <3>1 DEF Atomic!Next, Atomic!Add
  <2> QED
    BY <1>1, <2>2, <2>3
<1>3. ASSUME NEW t \in Threads, Unlink(t) PROVE Atomic!Next \/ Ledger' = Ledger
  <2>1. CASE saved' = Append(saved, Absent)
    <3>1. Ledger' = Absent
      BY <1>t, <2>1, GenerationType, Grown
    <3> QED
      BY <3>1 DEF Atomic!Next, Atomic!Clear, Atomic!Absent, Absent
  <2> QED
    BY <1>1, <1>3, <2>1 DEF Unlink
<1>4. CASE Crash
  <2>1. CASE saved' = Append(saved, Ledger)
    BY <1>t, <2>1, GenerationType, Grown
  <2> QED
    BY <1>1, <1>4, <2>1 DEF Crash
<1>5. ASSUME NEW t \in Threads, Request(t) PROVE saved' = saved
  BY <1>5 DEF Request, Accept, disk
<1>6. ASSUME NEW t \in Threads, Write(t), ~Save(t), ~Unlink(t) PROVE saved' = saved
  BY <1>6 DEF Write, Load, Materialize, Invalidate, Readback, BackgroundRefresh, RemoveEvidence,
     disk
<1>7. ASSUME NEW t \in Threads, View(t) PROVE saved' = saved
  BY <1>7 DEF View, Exists, TakeStamp, ReadCache, CheckCached, Check, Miss, LoadView, RefreshView,
              ReadPrices, StampPrices, Publish, Serve, disk
<1>8. CASE RevisePrivate \/ LoseEvidence \/ UNCHANGED vars
  BY <1>1, <1>8 DEF RevisePrivate, LoseEvidence, vars, disk
<1> QED
  BY <1>1, <1>2, <1>3, <1>4, <1>5, <1>6, <1>7, <1>8 DEF Next

\* The ledger implements AtomicLedger: every change of the file is the addition
\* of one request's item to what was there at that instant, or a clear.
THEOREM LedgerRefinesAtomic == Spec => RefinesAtomicLedger
<1>1. Init => Atomic!Init
  <2>1. ASSUME Init, NEW s \in Statements, saved = <<[exists |-> TRUE, rows |-> {s}]>>
        PROVE  Ledger = [exists |-> TRUE, rows |-> {s}] /\ {s} \in SUBSET Items
    BY <2>1 DEF Ledger, Items
  <2>2. ASSUME saved = <<Absent>> PROVE Ledger = Absent
    BY <2>2 DEF Ledger
  <2> QED
    BY <2>1, <2>2 DEF Init, Atomic!Init, Atomic!Absent, Absent
<1> QED
  BY <1>1, LedgerInvariant, AtomicStep, PTL DEF Spec, RefinesAtomicLedger, Atomic!Spec

\* Generations and revisions only grow.
Onward ==
  /\ Len(saved') \in Nat /\ Len(saved) <= Len(saved')
  /\ \A g \in 1 .. Len(saved) : saved'[g] = saved[g]
  /\ private' \in Nat /\ private <= private'
  /\ prices' \in Nat /\ prices <= prices'

\* A step of the system leaves the generations and revisions there were.
LEMMA OnwardStep ==
  ASSUME LedgerInv, [Next]_vars
  PROVE  Onward
<1>t. TypeOK /\ Len(saved) \in Nat /\ private \in Nat /\ prices \in Nat
  BY GenerationType DEF LedgerInv, TypeInv, TypeOK
<1>1. saved' = saved \/ \E x \in Generation : saved' = Append(saved, x)
  <2>1. ASSUME NEW t \in Threads, Request(t) \/ View(t) PROVE saved' = saved
    BY <2>1 DEF Request, Accept, View, Exists, TakeStamp, ReadCache, CheckCached, Check, Miss,
       LoadView,
                RefreshView, ReadPrices, StampPrices, Publish, Serve, disk
  <2>2. ASSUME NEW t \in Threads, Write(t), ~Save(t), ~Unlink(t) PROVE saved' = saved
    BY <2>2 DEF Write, Load, Materialize, Invalidate, Readback, BackgroundRefresh, RemoveEvidence,
       disk
  <2>3. ASSUME NEW t \in Threads, Save(t) \/ Unlink(t)
        PROVE  saved' = saved \/ \E x \in Generation : saved' = Append(saved, x)
    BY <1>t, <2>3, ViewKept, GenerationType DEF Save, Unlink
  <2>4. CASE Crash
    BY <1>t, <2>4, GenerationType DEF Crash
  <2>5. CASE RevisePrivate \/ LoseEvidence \/ UNCHANGED vars
    BY <2>5 DEF RevisePrivate, LoseEvidence, vars, disk
  <2> QED
    BY <2>1, <2>2, <2>3, <2>4, <2>5 DEF Next
<1>2. /\ Len(saved') \in Nat /\ Len(saved) <= Len(saved')
      /\ \A g \in 1 .. Len(saved) : saved'[g] = saved[g]
  <2>1. CASE saved' = saved
    BY <1>t, <2>1
  <2>2. ASSUME NEW x \in Generation, saved' = Append(saved, x)
        PROVE  /\ Len(saved') \in Nat /\ Len(saved) <= Len(saved')
               /\ \A g \in 1 .. Len(saved) : saved'[g] = saved[g]
    BY <1>t, <2>2, Grown
  <2> QED
    BY <1>1, <2>1, <2>2
<1>3. private' \in {private, private + 1} /\ prices' \in {prices, prices + 1}
  <2>1. ASSUME NEW t \in Threads, Request(t) \/ Write(t) \/ View(t)
        PROVE  private' = private /\ prices' \in {prices, prices + 1}
    <3>1. CASE Request(t) \/ Write(t)
      BY <3>1 DEF Request, Accept, Write, Load, Materialize, Save, Invalidate, Readback,
         BackgroundRefresh,
                  Refresh, Unlink, RemoveEvidence, inputs
    <3>2. CASE View(t)
      BY <3>2 DEF View, Exists, TakeStamp, ReadCache, CheckCached, Check, Miss, LoadView,
                  RefreshView, Refresh, ReadPrices, StampPrices, Publish, Serve, inputs
    <3> QED
      BY <2>1, <3>1, <3>2
  <2> QED
    BY <2>1 DEF Next, RevisePrivate, LoseEvidence, Crash, vars, inputs
<1> QED
  BY <1>t, <1>2, <1>3 DEF Onward

\* What a thread that does not move knows stays true.
LEMMA KnownKept ==
  ASSUME TypeOK, Onward, NEW u \in Threads, Began(u), ViewKnown(u),
         pc'[u] = pc[u], mine'[u] = mine[u]
  PROVE  Began(u)' /\ ViewKnown(u)'
<1> DEFINE v == mine[u].view
           since == mine[u].since
<1>1. /\ since.saved \in Nat /\ since.private \in Nat /\ since.prices \in Nat
      /\ v.stamp \in Nat /\ v.private \in Nat /\ v.basis \in Nat
      /\ v.prices \in Nat /\ v.quotes \in Nat
      /\ Len(saved) \in Nat /\ private \in Nat /\ prices \in Nat
  BY GenerationType DEF TypeOK, Projection
<1>0. v' = v /\ since' = since /\ pc'[u] = pc[u]
  OBVIOUS
<1>3. ASSUME NEW g \in since.saved .. Len(saved), 1 <= since.saved
      PROVE  /\ g \in since.saved .. Len(saved') /\ saved'[g] = saved[g]
             /\ Names(v, g) => Names(v, g)'
  BY <1>0, <1>1, <1>3 DEF Onward, Names
<1>4. pc[u] # "idle" => 1 <= since.saved
  BY DEF Began
<1>5. /\ since.saved <= Len(saved) /\ since.private <= private /\ since.prices <= prices
  BY DEF Began
<1>6. /\ Len(saved') \in Nat /\ Len(saved) <= Len(saved')
      /\ private' \in Nat /\ private <= private' /\ prices' \in Nat /\ prices <= prices'
  BY DEF Onward
<1>7. Began(u)'
  <2> HIDE DEF v, since
  <2>1. since.saved <= Len(saved') /\ since.private <= private' /\ since.prices <= prices'
    BY <1>1, <1>5, <1>6
  <2> QED
    BY <1>0, <1>4, <2>1 DEF Began, since
<1>8. ViewKnown(u)'
  <2>1. pc[u] = "cached" =>
          \E g \in since.saved .. Len(saved') : v.stamp = IF saved'[g].exists THEN g ELSE 0
    BY <1>3, <1>4 DEF ViewKnown
  <2>2. pc[u] \in {"private", "prices", "again", "fresh", "quotes", "finger", "publish", "serve"} =>
          \E g \in since.saved .. Len(saved') : Names(v, g)'
    BY <1>3, <1>4 DEF ViewKnown
  <2>3. Labelled(v) => Labelled(v)'
    BY <1>0, <1>1, <1>6 DEF Labelled
  <2>4. \A n \in Nat : /\ n \in since.private .. private => n \in since.private .. private'
                       /\ n \in since.prices .. prices => n \in since.prices .. prices'
                       /\ n <= prices => n <= prices'
    BY <1>1, <1>6
  <2> HIDE DEF v, since
  <2> QED
    BY <1>0, <1>1, <2>1, <2>2, <2>3, <2>4 DEF ViewKnown, v, since
<1> QED
  BY <1>7, <1>8

\* Entries that stay in the cache stay true.
LEMMA CacheKept ==
  ASSUME TypeOK, Onward, CacheTrue, cache' \subseteq cache
  PROVE  CacheTrue'
<1>1. ASSUME NEW c \in cache
      PROVE  Labelled(c)' /\ \E g \in 1 .. Len(saved') : Names(c, g)'
  <2>1. PICK g \in 1 .. Len(saved) : Names(c, g)
    BY DEF CacheTrue
  <2>2. g \in 1 .. Len(saved') /\ Names(c, g)'
    BY <2>1, GenerationType DEF Onward, Names
  <2>3. /\ c.private \in Nat /\ c.prices \in Nat
        /\ private \in Nat /\ prices \in Nat
    BY DEF TypeOK, Projection
  <2>4. Labelled(c)'
    BY <2>3 DEF CacheTrue, Labelled, Onward
  <2> QED
    BY <2>2, <2>4
<1> QED
  BY <1>1 DEF CacheTrue

\* A view shows what its labels say, and what was current while it was made.
LEMMA ViewStep == ViewInv /\ [Next]_vars => ViewInv'
<1> SUFFICES ASSUME ViewInv, [Next]_vars
             PROVE  (CacheTrue /\ \A t \in Threads : Began(t) /\ ViewKnown(t))'
  BY LedgerStep DEF ViewInv
<1>t. /\ LedgerInv /\ TypeOK /\ CacheTrue
      /\ mine \in [Threads -> MineType] /\ pc \in [Threads -> Labels]
  BY DEF ViewInv, LedgerInv, TypeInv, TypeOK, MineType
<1>o. Onward
  BY <1>t, OnwardStep
<1>q. ASSUME NEW t \in Threads, Alone(t), cache' \subseteq cache \/ CacheTrue',
             Began(t)', ViewKnown(t)'
      PROVE  (CacheTrue /\ \A u \in Threads : Began(u) /\ ViewKnown(u))'
  <2>1. ASSUME NEW u \in Threads \ {t} PROVE Began(u)' /\ ViewKnown(u)'
    <3>1. Began(u) /\ ViewKnown(u)
      BY DEF ViewInv
    <3> QED
      BY <1>q, <1>t, <1>o, <3>1, KnownKept DEF Alone
  <2>2. CacheTrue'
    BY <1>q, <1>t, <1>o, CacheKept
  <2> QED
    BY <1>q, <2>1, <2>2
<1>a. ASSUME NEW t \in Threads, Request(t) \/ Write(t) \/ View(t) PROVE Alone(t)
  BY <1>a, <1>t, OthersKept
<1>n. /\ Len(saved) \in Nat \ {0} /\ Stamp \in Nat /\ prices \in Nat /\ private \in Nat
      /\ Stamp = IF saved[Len(saved)].exists THEN Len(saved) ELSE 0
  BY <1>t, GenerationType DEF TypeOK, Stamp, Ledger
<1>m. ASSUME NEW t \in Threads
      PROVE  /\ Began(t) /\ ViewKnown(t)
             /\ mine[t].since.saved \in Nat /\ mine[t].since.private \in Nat
             /\ mine[t].since.prices \in Nat /\ mine[t].view.stamp \in Nat
             /\ mine[t].view.private \in Nat /\ mine[t].view.basis \in Nat
             /\ mine[t].view.prices \in Nat /\ mine[t].view.quotes \in Nat
  BY <1>t DEF ViewInv, TypeOK, Projection
<1>i. ASSUME NEW t \in Threads, pc'[t] = "idle", mine'[t] = Nothing PROVE Began(t)' /\ ViewKnown(t)'
  BY <1>i, <1>o, <1>n DEF Began, ViewKnown, Nothing, Onward
\* A request that has no view yet.
<1>w. ASSUME NEW t \in Threads, mine'[t].since = mine[t].since, pc[t] # "idle",
             pc'[t] \notin Viewing
      PROVE  Began(t)' /\ ViewKnown(t)'
  <2>1. Began(t)'
    <3> DEFINE since == mine[t].since
    <3>1. /\ since.saved <= Len(saved) /\ since.private <= private /\ since.prices <= prices
          /\ since.saved \in Nat /\ since.private \in Nat /\ since.prices \in Nat /\ 1 <= since.saved
      BY <1>w, <1>m DEF Began
    <3>2. /\ Len(saved') \in Nat /\ Len(saved) <= Len(saved')
          /\ private' \in Nat /\ private <= private' /\ prices' \in Nat /\ prices <= prices'
      BY <1>o DEF Onward
    <3> HIDE DEF since
    <3>3. since.saved <= Len(saved') /\ since.private <= private' /\ since.prices <= prices'
      BY <1>n, <3>1, <3>2
    <3> QED
      BY <1>w, <3>1, <3>3 DEF Began, since
  <2>2. ViewKnown(t)'
    BY <1>w DEF ViewKnown, Viewing
  <2> QED
    BY <2>1, <2>2
<1> USE DEF Goto, Reply, See
<1>1. ASSUME NEW t \in Threads, Request(t)
      PROVE  (CacheTrue /\ \A u \in Threads : Began(u) /\ ViewKnown(u))'
  <2>1. PICK l \in {"import", "edit", "clear", "exists"}, item \in Items \union {NoItem} :
          Accept(t, l, item)
    BY <1>1 DEF Request, Items
  <2>2. /\ pc'[t] = l /\ UNCHANGED <<disk, cache, inputs>>
        /\ mine'[t].since = [saved |-> Len(saved), private |-> private, prices |-> prices]
    BY <1>t, <2>1 DEF Accept, Nothing
  <2>3. Began(t)' /\ ViewKnown(t)'
    BY <1>n, <2>2 DEF Began, ViewKnown, disk, inputs
  <2> QED
    BY <1>1, <1>a, <1>q, <2>2, <2>3
<1>2. ASSUME NEW t \in Threads, Write(t) \/ Exists(t)
      PROVE  (CacheTrue /\ \A u \in Threads : Began(u) /\ ViewKnown(u))'
  <2>1. cache' \subseteq cache
    BY <1>2 DEF Write, Load, Materialize, Save, Invalidate, Readback, BackgroundRefresh, Refresh,
       Unlink, RemoveEvidence, Exists
  <2>2. \/ pc'[t] = "idle" /\ mine'[t] = Nothing
        \/ mine'[t].since = mine[t].since /\ pc[t] # "idle" /\ pc'[t] \notin Viewing
    <3>1. CASE Load(t) \/ Materialize(t) \/ Save(t) \/ Invalidate(t)
      BY <1>t, <3>1 DEF Load, Materialize, Save, Invalidate, MineType, Viewing
    <3>2. CASE Readback(t) \/ BackgroundRefresh(t) \/ Unlink(t) \/ RemoveEvidence(t) \/ Exists(t)
      BY <1>t, <3>2 DEF Readback, BackgroundRefresh, Unlink, RemoveEvidence, Exists, Viewing
    <3> QED
      BY <1>2, <3>1, <3>2 DEF Write
  <2> QED
    BY <1>2, <1>a, <1>i, <1>q, <1>w, <2>1, <2>2 DEF Write, View
<1>3. ASSUME NEW t \in Threads, TakeStamp(t)
      PROVE  (CacheTrue /\ \A u \in Threads : Began(u) /\ ViewKnown(u))'
  <2>1. /\ pc[t] # "idle" /\ pc'[t] = "cached" /\ UNCHANGED <<disk, cache, inputs>>
        /\ mine'[t].view.stamp = Stamp /\ mine'[t].since = mine[t].since
    BY <1>3, <1>t, ViewKept DEF TakeStamp, MineType, Projection
  <2>2. Len(saved) \in mine[t].since.saved .. Len(saved)
    BY <1>m, <1>n DEF Began
  <2>3. Began(t)' /\ ViewKnown(t)'
    BY <1>m, <1>n, <2>1, <2>2 DEF Began, ViewKnown, disk, inputs
  <2> QED
    BY <1>3, <1>a, <1>q, <2>1, <2>3 DEF View
<1>4. ASSUME NEW t \in Threads, ReadCache(t)
      PROVE  (CacheTrue /\ \A u \in Threads : Began(u) /\ ViewKnown(u))'
  <2>1. UNCHANGED <<disk, cache, inputs>>
    BY <1>4 DEF ReadCache
  <2>2. CASE pc'[t] = "miss" /\ mine' = mine
    BY <1>4, <1>a, <1>q, <1>w, <2>1, <2>2 DEF ReadCache, View, Viewing
  <2>3. ASSUME NEW c \in cache, c.stamp = mine[t].view.stamp, See(t, c), pc'[t] = "private"
        PROVE  Began(t)' /\ ViewKnown(t)'
    <3>1. mine'[t].view = c /\ mine'[t].since = mine[t].since
      BY <1>t, <2>3 DEF MineType
    <3>2. Labelled(c)
      BY <1>t DEF CacheTrue
    <3>3. PICK h \in 1 .. Len(saved) : Names(c, h)
      BY <1>t DEF CacheTrue
    <3>4. PICK g \in mine[t].since.saved .. Len(saved) :
            mine[t].view.stamp = IF saved[g].exists THEN g ELSE 0
      BY <1>4, <1>m DEF ReadCache, ViewKnown
    <3>5. g \in 1 .. Len(saved)
      BY <1>4, <1>m, <1>n, <3>4 DEF ReadCache, Began
    <3>6. Names(c, g)
      <4>1. CASE saved[g].exists
        <5>1. c.stamp = g
          BY <2>3, <3>4, <4>1
        <5>2. g # 0 /\ c.stamp = IF saved[h].exists THEN h ELSE 0
          BY <3>3, <3>5 DEF Names
        <5>3. g = h
          BY <5>1, <5>2
        <5> QED
          BY <3>3, <5>3
      <4>2. CASE ~saved[g].exists
        <5>0. c.stamp = 0
          BY <2>3, <3>4, <4>2
        <5>1. ~saved[h].exists
          <6>1. h # 0 /\ c.stamp = IF saved[h].exists THEN h ELSE 0
            BY <3>3 DEF Names
          <6> QED
            BY <5>0, <6>1
        <5>2. saved[h].rows = {} /\ saved[g].rows = {}
          BY <1>t, <3>3, <3>5, <4>2, <5>1 DEF LedgerInv, AbsentEmpty
        <5> QED
          BY <5>0, <3>3, <4>2, <5>1, <5>2 DEF Names
      <4> QED
        BY <4>1, <4>2
    <3>7. saved' = saved /\ private' = private /\ prices' = prices
      BY <2>1 DEF disk, inputs
    <3>8. Began(t)'
      BY <1>4, <1>m, <3>1, <3>7 DEF Began, ReadCache
    <3>9. ViewKnown(t)'
      BY <2>3, <3>1, <3>2, <3>4, <3>6, <3>7 DEF ViewKnown, Names, Labelled
    <3> QED
      BY <3>8, <3>9
  <2> QED
    <3>1. \/ pc'[t] = "miss" /\ mine' = mine
          \/ pc'[t] = "private" /\ \E c \in cache : c.stamp = mine[t].view.stamp /\ See(t, c)
      BY <1>4, <1>t DEF ReadCache
    <3> QED
      BY <1>4, <1>a, <1>q, <2>1, <2>2, <2>3, <3>1 DEF View
<1>5. ASSUME NEW t \in Threads, CheckCached(t)
      PROVE  (CacheTrue /\ \A u \in Threads : Began(u) /\ ViewKnown(u))'
  <2>1. UNCHANGED <<disk, cache, inputs>> /\ mine' = mine
    BY <1>5 DEF CheckCached, Check
  <2>2. \/ pc'[t] = "miss"
        \/ pc[t] = "private" /\ pc'[t] = "prices" /\ mine[t].view.private = private
        \/ pc[t] = "prices" /\ pc'[t] = "again" /\ mine[t].view.prices = prices
        \/ pc[t] = "again" /\ pc'[t] = "serve" /\ mine[t].view.private = private
    BY <1>5, <1>t DEF CheckCached, Check
  <2>3. pc[t] \in {"private", "prices", "again"}
    BY <1>5 DEF CheckCached, Check
  <2>4. Began(t)'
    BY <1>m, <2>1, <2>3 DEF Began, disk, inputs
  <2>5. ViewKnown(t)'
    <3>1. saved' = saved /\ private' = private /\ prices' = prices /\ mine'[t] = mine[t]
      BY <2>1 DEF disk, inputs
    <3>2. CASE pc'[t] = "miss"
      BY <3>2 DEF ViewKnown
    <3>3. CASE pc[t] = "private" /\ pc'[t] = "prices" /\ mine[t].view.private = private
      <4>1. /\ Labelled(mine[t].view)
            /\ \E g \in mine[t].since.saved .. Len(saved) : Names(mine[t].view, g)
        BY <1>m, <3>3 DEF ViewKnown
      <4>2. mine[t].view.basis \in mine[t].since.private .. private
        BY <1>m, <1>n, <3>3, <4>1 DEF Labelled, Began
      <4> QED
        BY <3>1, <3>3, <4>1, <4>2 DEF ViewKnown, Names, Labelled
    <3>4. CASE pc[t] = "prices" /\ pc'[t] = "again" /\ mine[t].view.prices = prices
      <4>1. /\ Labelled(mine[t].view)
            /\ \E g \in mine[t].since.saved .. Len(saved) : Names(mine[t].view, g)
            /\ mine[t].view.basis \in mine[t].since.private .. private
        BY <1>m, <3>4 DEF ViewKnown
      <4>2. prices \in mine[t].since.prices .. prices
        BY <1>m, <1>n DEF Began
      <4> QED
        BY <3>1, <3>4, <4>1, <4>2 DEF ViewKnown, Names, Labelled
    <3>5. CASE pc[t] = "again" /\ pc'[t] = "serve"
      BY <1>m, <1>n, <3>1, <3>5 DEF ViewKnown, Began, Names, Labelled
    <3> QED
      BY <2>2, <3>2, <3>3, <3>4, <3>5
  <2> QED
    BY <1>5, <1>a, <1>q, <2>1, <2>4, <2>5 DEF View
<1>6. ASSUME NEW t \in Threads, Miss(t)
      PROVE  (CacheTrue /\ \A u \in Threads : Began(u) /\ ViewKnown(u))'
  <2>1. /\ pc[t] # "idle" /\ pc'[t] = "load" /\ UNCHANGED <<disk, cache, inputs>>
        /\ mine'[t].view.private = private /\ mine'[t].since = mine[t].since
    BY <1>6, <1>t DEF Miss, MineType, Blank
  <2>3. Began(t)' /\ ViewKnown(t)'
    BY <1>m, <1>n, <2>1 DEF Began, ViewKnown, disk, inputs
  <2> QED
    BY <1>6, <1>a, <1>q, <2>1, <2>3 DEF View
<1>7. ASSUME NEW t \in Threads, LoadView(t)
      PROVE  (CacheTrue /\ \A u \in Threads : Began(u) /\ ViewKnown(u))'
  <2>1. UNCHANGED <<disk, cache, inputs>> /\ pc[t] = "load"
    BY <1>7 DEF LoadView
  <2>2. CASE Loadable
    <3> DEFINE v == [mine[t].view EXCEPT !.rows = Ledger.rows, !.stamp = Stamp, !.basis = private]
    <3>1. mine' = [mine EXCEPT ![t].view = v] /\ pc'[t] = "fresh"
      BY <1>7, <1>t, <2>2 DEF LoadView
    <3>2. mine'[t].view = v /\ mine'[t].since = mine[t].since
      BY <1>t, <3>1 DEF MineType
    <3>3. /\ mine'[t].view.rows = Ledger.rows /\ mine'[t].view.stamp = Stamp
          /\ mine'[t].view.basis = private /\ mine'[t].view.private = mine[t].view.private
      BY <1>t, <3>2 DEF TypeOK, Projection
    <3>4. Len(saved) \in mine[t].since.saved .. Len(saved)
      BY <1>m, <1>n DEF Began
    <3>5. Began(t)'
      BY <1>m, <2>1, <3>2 DEF Began, disk, inputs
    <3>6. saved' = saved /\ private' = private /\ prices' = prices
      BY <2>1 DEF disk, inputs
    <3>7. \E g \in mine[t].since.saved .. Len(saved) :
            /\ saved[g].rows = mine'[t].view.rows
            /\ mine'[t].view.stamp = IF saved[g].exists THEN g ELSE 0
      BY <1>n, <3>3, <3>4 DEF Ledger
    <3>8. /\ mine'[t].view.basis \in mine[t].since.private .. private
          /\ mine'[t].view.private <= mine'[t].view.basis
      BY <1>m, <1>n, <2>1, <3>3 DEF ViewKnown, Began
    <3>9. ViewKnown(t)'
      BY <3>1, <3>2, <3>6, <3>7, <3>8 DEF ViewKnown, Names
    <3> QED
      BY <1>7, <1>a, <1>q, <2>1, <3>5, <3>9 DEF View
  <2>3. CASE ~Loadable
    BY <1>7, <1>t, <1>a, <1>i, <1>q, <2>1, <2>3 DEF LoadView, View
  <2> QED
    BY <2>2, <2>3
<1>8. ASSUME NEW t \in Threads, RefreshView(t)
      PROVE  (CacheTrue /\ \A u \in Threads : Began(u) /\ ViewKnown(u))'
  <2>1. /\ pc[t] = "fresh" /\ pc'[t] = "quotes" /\ UNCHANGED <<disk, cache>>
        /\ mine'[t] = mine[t] /\ private' = private
    BY <1>8, <1>t DEF RefreshView, Refresh
  <2>2. prices' \in Nat /\ prices <= prices'
    BY <1>o DEF Onward
  <2>3. Began(t)' /\ ViewKnown(t)'
    <3>1. saved' = saved
      BY <2>1 DEF disk
    <3>2. Began(t)'
      BY <1>m, <1>n, <2>1, <2>2, <3>1 DEF Began
    <3>3. /\ \E g \in mine[t].since.saved .. Len(saved) : Names(mine[t].view, g)
          /\ mine[t].view.basis \in mine[t].since.private .. private
          /\ mine[t].view.private <= mine[t].view.basis
      BY <1>m, <2>1 DEF ViewKnown
    <3>4. ViewKnown(t)'
      BY <2>1, <3>1, <3>3 DEF ViewKnown, Names
    <3> QED
      BY <3>2, <3>4
  <2> QED
    BY <1>8, <1>a, <1>q, <2>1, <2>3 DEF View
<1>9. ASSUME NEW t \in Threads, ReadPrices(t)
      PROVE  (CacheTrue /\ \A u \in Threads : Began(u) /\ ViewKnown(u))'
  <2>1. /\ pc[t] = "quotes" /\ pc'[t] = "finger" /\ UNCHANGED <<disk, cache, inputs>>
        /\ mine'[t].view = [mine[t].view EXCEPT !.quotes = prices] /\ mine'[t].since = mine[t].since
    BY <1>9, <1>t DEF ReadPrices, MineType
  <2>2. /\ mine'[t].view.quotes = prices /\ mine'[t].view.rows = mine[t].view.rows
        /\ mine'[t].view.stamp = mine[t].view.stamp /\ mine'[t].view.basis = mine[t].view.basis
        /\ mine'[t].view.private = mine[t].view.private
    BY <1>t, <2>1 DEF TypeOK, Projection
  <2>3. Began(t)' /\ ViewKnown(t)'
    <3>1. saved' = saved /\ private' = private /\ prices' = prices
      BY <2>1 DEF disk, inputs
    <3>2. /\ \E g \in mine[t].since.saved .. Len(saved) : Names(mine[t].view, g)
          /\ mine[t].view.basis \in mine[t].since.private .. private
          /\ mine[t].view.private <= mine[t].view.basis
      BY <1>m, <2>1 DEF ViewKnown
    <3>3. Began(t)'
      BY <1>m, <2>1, <3>1 DEF Began
    <3>4. mine[t].since.prices <= prices
      BY <3>1, <3>3, <2>1 DEF Began
    <3>5. prices \in mine[t].since.prices .. prices
      BY <1>m, <1>n, <3>4
    <3>6. ViewKnown(t)'
      BY <2>1, <2>2, <3>1, <3>2, <3>5 DEF ViewKnown, Names
    <3> QED
      BY <3>3, <3>6
  <2> QED
    BY <1>9, <1>a, <1>q, <2>1, <2>3 DEF View
<1>10. ASSUME NEW t \in Threads, StampPrices(t)
       PROVE  (CacheTrue /\ \A u \in Threads : Began(u) /\ ViewKnown(u))'
  <2>1. /\ pc[t] = "finger" /\ pc'[t] \in {"publish", "serve"} /\ UNCHANGED <<disk, cache, inputs>>
        /\ mine'[t].view = [mine[t].view EXCEPT !.prices = prices] /\ mine'[t].since = mine[t].since
    BY <1>10, <1>t DEF StampPrices, MineType
  <2>2. /\ mine'[t].view.quotes = mine[t].view.quotes /\ mine'[t].view.rows = mine[t].view.rows
        /\ mine'[t].view.stamp = mine[t].view.stamp /\ mine'[t].view.basis = mine[t].view.basis
        /\ mine'[t].view.private = mine[t].view.private /\ mine'[t].view.prices = prices
    BY <1>t, <2>1 DEF TypeOK, Projection
  <2>3. Began(t)' /\ ViewKnown(t)'
    <3>1. saved' = saved /\ private' = private /\ prices' = prices
      BY <2>1 DEF disk, inputs
    <3>2. /\ \E g \in mine[t].since.saved .. Len(saved) : Names(mine[t].view, g)
          /\ mine[t].view.basis \in mine[t].since.private .. private
          /\ mine[t].view.private <= mine[t].view.basis
          /\ mine[t].view.quotes \in mine[t].since.prices .. prices
      BY <1>m, <2>1 DEF ViewKnown
    <3>3. mine[t].view.quotes <= prices /\ prices <= prices
      BY <1>m, <1>n, <3>2
    <3>4. Began(t)'
      BY <1>m, <2>1, <3>1 DEF Began
    <3>5. ViewKnown(t)'
      BY <2>1, <2>2, <3>1, <3>2, <3>3 DEF ViewKnown, Names
    <3> QED
      BY <3>4, <3>5
  <2> QED
    BY <1>10, <1>a, <1>q, <2>1, <2>3 DEF View
<1>11. ASSUME NEW t \in Threads, Publish(t)
       PROVE  (CacheTrue /\ \A u \in Threads : Began(u) /\ ViewKnown(u))'
  <2>1. /\ pc[t] = "publish" /\ pc'[t] = "serve" /\ UNCHANGED <<disk, inputs>> /\ mine'[t] = mine[t]
    BY <1>11, <1>t DEF Publish
  <2>2. Began(t)' /\ ViewKnown(t)'
    BY <1>m, <1>n, <2>1 DEF Began, ViewKnown, Names, disk, inputs
  <2>3. CASE cache' = {mine[t].view} /\ mine[t].view.private = private
    <3>1. Labelled(mine[t].view)
      BY <1>m, <1>n, <2>1, <2>3 DEF ViewKnown, Labelled, Began
    <3>2. \E g \in 1 .. Len(saved) : Names(mine[t].view, g)
      BY <1>m, <1>n, <2>1 DEF ViewKnown, Began
    <3>3. CacheTrue'
      BY <2>1, <2>3, <3>1, <3>2 DEF CacheTrue, Labelled, Names, disk, inputs
    <3> QED
      BY <1>11, <1>a, <1>q, <2>2, <3>3 DEF View
  <2>4. CASE cache' = cache
    BY <1>11, <1>a, <1>q, <2>2, <2>4 DEF View
  <2> QED
    BY <1>11, <2>3, <2>4 DEF Publish
<1>12. ASSUME NEW t \in Threads, Serve(t)
       PROVE  (CacheTrue /\ \A u \in Threads : Began(u) /\ ViewKnown(u))'
  <2>1. pc'[t] = "idle" /\ mine'[t] = Nothing /\ cache' = cache
    BY <1>12, <1>t DEF Serve
  <2> QED
    BY <1>12, <1>a, <1>i, <1>q, <2>1 DEF View
<1>13. CASE RevisePrivate
  <2>1. UNCHANGED <<cache, pc, mine>>
    BY <1>13 DEF RevisePrivate
  <2>2. \A u \in Threads : Began(u)' /\ ViewKnown(u)'
    BY <1>t, <1>o, <1>m, <2>1, KnownKept
  <2> QED
    BY <1>t, <1>o, <2>1, <2>2, CacheKept
<1>14. CASE LoseEvidence
  <2>1. UNCHANGED <<cache, pc, mine>>
    BY <1>14 DEF LoseEvidence
  <2>2. \A u \in Threads : Began(u)' /\ ViewKnown(u)'
    BY <1>t, <1>o, <1>m, <2>1, KnownKept
  <2> QED
    BY <1>t, <1>o, <2>1, <2>2, CacheKept
<1>15. CASE UNCHANGED vars
  <2>1. UNCHANGED <<cache, pc, mine>>
    BY <1>15 DEF vars
  <2>2. \A u \in Threads : Began(u)' /\ ViewKnown(u)'
    BY <1>t, <1>o, <1>m, <2>1, KnownKept
  <2> QED
    BY <1>t, <1>o, <2>1, <2>2, CacheKept
<1>16. CASE Crash
  <2>1. cache' = cache /\ \A u \in Threads : pc'[u] = "idle" /\ mine'[u] = Nothing
    BY <1>16 DEF Crash
  <2> QED
    BY <1>t, <1>o, <1>i, <2>1, CacheKept
<1> QED
  BY <1>1, <1>2, <1>3, <1>4, <1>5, <1>6, <1>7, <1>8, <1>9, <1>10, <1>11, <1>12, <1>13, <1>14,
     <1>15, <1>16
  DEF Next, Write, View

\* A view, cached or not, shows the rows of the version it names, one that was
\* current while the request ran, and so its private evidence and prices
\* (investment_get_transactions, write_investment_transactions_cache).
THEOREM ViewCurrentAlways == Spec => []ViewCurrent
<1>1. ViewInv => ViewCurrent
  BY DEF ViewInv, ViewKnown, ViewCurrent, Names
<1> QED
  BY ViewStart, ViewStep, <1>1, PTL DEF Spec

-----------------------------------------------------------------------------
(* The reconciliation of Schwab trades: its inductive invariant *)

CsvRow == [id : [trade : Trade, fee : {0, 1}], occ : Nat, report : Report \union {Original}]

\* Two rows of one report, and a row of the ledger that tells what a workbook's does.
Agree(m, n) == m.ref = n.ref /\ m.trade = n.trade /\ Signature(m) = Signature(n)
Tells(n, m) == Agree(m, n) /\ (m.limit => n.limit)

\* The reports of a ledger, waiting or archived.
InLedger(csv, reports) == reports \union {o.report : o \in Linked(csv)}

OneRow(csv) == \A o, p \in csv : Execution(o) = Execution(p) => o = p
OneReport(reports) == \A m, n \in reports : m.ref = n.ref => m = n
OneLink(csv) == \A o, p \in Linked(csv) : o.report.ref = p.report.ref => o = p
Apart(csv, reports) == \A m \in reports : \A o \in Linked(csv) : o.report.ref # m.ref
Placed(csv) == \A o \in Linked(csv) : o \in Scope(o.report, csv)
Unscoped(csv, reports) == \A m \in reports : Scope(m, csv) = {}

Told == \A m \in UNION books : \E n \in InLedger(official, manual) : Tells(n, m)
Sourced == \A n \in InLedger(official, manual) : \E m \in UNION books : Agree(m, n)

\* A ledger that may be merged with a file.
LedgerOK(csv, reports) ==
  /\ csv \subseteq CsvRow /\ IsFiniteSet(csv) /\ reports \subseteq Report /\ IsFiniteSet(reports)
  /\ OneRow(csv) /\ OneReport(reports) /\ OneLink(csv)
  /\ Apart(csv, reports) /\ Placed(csv) /\ Unscoped(csv, reports)

\* A file.
FileOK(csv, reports) ==
  /\ csv \subseteq CsvRow /\ IsFiniteSet(csv) /\ reports \subseteq Report /\ IsFiniteSet(reports)
  /\ OneRow(csv) /\ OneReport(reports) /\ Linked(csv) = {}

SchwabInv ==
  /\ world \in Worlds /\ books \subseteq world.books /\ exports \subseteq Exports
  /\ LedgerOK(official, manual)
  /\ Told /\ Sourced
  /\ Executions(official) = Executions(UNION {CsvRows(e) : e \in exports})

-----------------------------------------------------------------------------
(* What an accepted reconciliation has matched *)

Accepted(old, new, reports, more) ==
  /\ LedgerOK(old, reports) /\ FileOK(new, more)
  /\ ~Refused(old, new, reports, more)

Matched(match, old, new, reports, more) ==
  /\ DOMAIN match = {m \in First(reports, more) : Scope(m, old \union new) # {}}
  /\ \A m \in DOMAIN match : \E o \in Scope(m, old \union new) : match[m] = {Execution(o)}
  /\ \A m, n \in DOMAIN match : match[m] = match[n] => m = n
  /\ \A m \in DOMAIN match : \A o \in Linked(old) :
       Execution(o) \in match[m] <=> o.report.ref = m.ref
  /\ \A m \in reports \union more : \A o \in LinkedTo(old, m.ref) :
       Recovers(m, o.report) /\ o \in Scope(m, old)
  /\ \A m, n \in reports \union more : m.ref = n.ref => Signature(m) = Signature(n)

\* A finite set with one element.
LEMMA OneElement ==
  ASSUME NEW S, IsFiniteSet(S), Cardinality(S) = 1
  PROVE  \E x : S = {x}
BY FS_Singleton

\* The values of a function on a finite set; as many if it is one to one.
LEMMA ValuesFinite ==
  ASSUME NEW S, IsFiniteSet(S), NEW f, f = [x \in S |-> f[x]]
  PROVE  /\ IsFiniteSet({f[x] : x \in S})
         /\ (\A x, y \in S : f[x] = f[y] => x = y) =>
              Cardinality({f[x] : x \in S}) = Cardinality(S)
<1> DEFINE T == {f[x] : x \in S}
<1>1. f \in [S -> T]
  OBVIOUS
<1>2. f \in Surjection(S, T)
  BY <1>1 DEF Surjection
<1>3. ASSUME \A x, y \in S : f[x] = f[y] => x = y
      PROVE  f \in Injection(S, T)
  BY <1>1, <1>3 DEF Injection, IsInjective
<1> HIDE DEF T
<1>4. IsFiniteSet(T) /\ (Cardinality(T) = Cardinality(S) <=> f \in Injection(S, T))
  BY <1>2, FS_Surjection
<1> QED
  BY <1>3, <1>4 DEF T

\* The executions of a part of the rows are finitely many.
LEMMA ExecutionsFinite ==
  ASSUME NEW csv, IsFiniteSet(csv)
  PROVE  IsFiniteSet(Executions(csv))
<1> DEFINE f == [o \in csv |-> Execution(o)]
<1>1. Executions(csv) = {f[o] : o \in csv}
  BY DEF Executions
<1>2. f = [o \in csv |-> f[o]]
  OBVIOUS
<1> HIDE DEF f
<1> QED
  BY <1>1, <1>2, ValuesFinite

\* Of the rows with one reference the ledger's comes first.
LEMMA FirstIs ==
  ASSUME NEW reports, NEW more, OneReport(reports), OneReport(more)
  PROVE  /\ First(reports, more) \subseteq reports \union more
         /\ reports \subseteq First(reports, more)
         /\ OneReport(First(reports, more))
         /\ \A m \in more : m \in First(reports, more) <=>
              m \in reports \/ \A n \in reports : n.ref # m.ref
BY DEF First, OneReport

\* Every report that has trades in its scope is matched with one of them.
LEMMA MatchedOK ==
  ASSUME NEW old, NEW new, NEW reports, NEW more, Accepted(old, new, reports, more)
  PROVE  Matched(Matches(First(reports, more), old \union new), old, new, reports, more)
<1> DEFINE all == old \union new
           F == First(reports, more)
           within == {m \in F : Scope(m, all) # {}}
           exact == {m \in within : Exact(m, all) # {}}
           claimed == {e[1] : e \in UNION {Exact(m, all) : m \in exact}}
           match == Matches(F, all)
<1>1. match = [m \in within |->
                 IF m \in exact THEN Exact(m, all)
                 ELSE IF m.limit THEN Better(m, all, claimed) ELSE {}]
  BY DEF Matches
<1>2. /\ ~ \E m \in reports \union more : \E o \in LinkedTo(all, m.ref) :
             ~Recovers(m, o.report) \/ o \notin Scope(m, all)
      /\ ~ \E m, n \in reports \union more : m.ref = n.ref /\ Signature(m) # Signature(n)
      /\ ~ \E m \in DOMAIN match :
             \/ Cardinality(match[m]) # 1
             \/ \E o \in Linked(all) : Execution(o) \in match[m] /\ o.report.ref # m.ref
             \/ \E n \in DOMAIN match \ {m} : match[n] = match[m]
  BY DEF Accepted, Refused
<1>3. F \subseteq reports \union more
  BY FirstIs DEF Accepted, LedgerOK, FileOK
<1>4. Linked(all) = Linked(old) /\ \A ref : LinkedTo(all, ref) = LinkedTo(old, ref)
  BY DEF Accepted, FileOK, Linked, LinkedTo
<1>5. IsFiniteSet(all)
  BY FS_Union DEF Accepted, LedgerOK, FileOK
<1>6. \A m \in reports \union more : \A o \in LinkedTo(old, m.ref) :
        Recovers(m, o.report) /\ o \in Scope(m, all) /\ o \in Scope(m, old)
  BY <1>2, <1>4 DEF Scope, LinkedTo, Linked
<1>7. DOMAIN match = within
  BY <1>1
<1>8. ASSUME NEW m \in within
      PROVE  \E o \in Scope(m, all) : match[m] = {Execution(o)}
  <2>1. Cardinality(match[m]) = 1
    BY <1>2, <1>7
  <2>2. CASE m \in exact
    <3> DEFINE part == {o \in Scope(m, all) : SameFill(o.id.trade, m)} \union LinkedTo(all, m.ref)
    <3>1. match[m] = Executions(part)
      BY <1>1, <2>2 DEF Exact
    <3>2. part \subseteq Scope(m, all)
      BY <1>3, <1>4, <1>6
    <3>3. IsFiniteSet(part)
      BY <1>5, <3>2, FS_Subset DEF Scope
    <3>4. PICK e : match[m] = {e}
      BY <2>1, <3>1, <3>3, ExecutionsFinite, OneElement
    <3> QED
      BY <3>1, <3>2, <3>4 DEF Executions
  <2>3. CASE m \notin exact /\ m.limit
    <3> DEFINE part == {o \in Scope(m, all) :
                          /\ o.id.trade.quantity = m.quantity /\ Improves(m, o.id.trade.price)
                          /\ o.id \notin claimed
                          /\ \A q \in Linked(all) : q.id # o.id}
    <3>1. match[m] = Executions(part)
      BY <1>1, <2>3 DEF Better
    <3>2. part \subseteq Scope(m, all)
      OBVIOUS
    <3>3. IsFiniteSet(part)
      BY <1>5, <3>2, FS_Subset DEF Scope
    <3>4. PICK e : match[m] = {e}
      BY <2>1, <3>1, <3>3, ExecutionsFinite, OneElement
    <3> QED
      BY <3>1, <3>2, <3>4 DEF Executions
  <2>4. CASE m \notin exact /\ ~m.limit
    <3>1. match[m] = {}
      BY <1>1, <2>4
    <3> QED
      BY <2>1, <3>1, FS_EmptySet
  <2> QED
    BY <2>2, <2>3, <2>4
<1>9. ASSUME NEW m \in within, NEW o \in Linked(old)
      PROVE  Execution(o) \in match[m] <=> o.report.ref = m.ref
  <2>1. ASSUME o.report.ref = m.ref
        PROVE  Execution(o) \in match[m]
    <3>1. o \in LinkedTo(all, m.ref)
      BY <1>4, <2>1 DEF LinkedTo
    <3>2. Execution(o) \in Exact(m, all)
      BY <3>1 DEF Exact, Executions
    <3> QED
      BY <1>1, <3>2
  <2> QED
    BY <1>2, <1>4, <1>7, <2>1
<1> QED
  BY <1>2, <1>6, <1>7, <1>8, <1>9 DEF Matched

\* A row after the reconciliation: matched rows without an archive get one.
LEMMA ArchivedIs ==
  ASSUME NEW old, NEW new, NEW reports, NEW more, NEW match,
         Accepted(old, new, reports, more), Matched(match, old, new, reports, more),
         NEW o \in old \union new
  PROVE  LET p == Archived(o, match)
         IN  /\ p \in CsvRow /\ p.id = o.id /\ p.occ = o.occ
             /\ o.report # Original => p = o
             /\ (\A m \in DOMAIN match : Execution(o) \notin match[m]) => p = o
             /\ \A m \in DOMAIN match :
                  o.report = Original /\ Execution(o) \in match[m] => p.report = m
             /\ p.report = o.report \/ \E m \in DOMAIN match :
                  o.report = Original /\ Execution(o) \in match[m] /\ p.report = m
<1> DEFINE p == Archived(o, match)
           m0 == CHOOSE m \in DOMAIN match : Execution(o) \in match[m]
<1>1. o \in CsvRow
  BY DEF Accepted, LedgerOK, FileOK
<1>2. DOMAIN match \subseteq Report
  <2>1. DOMAIN match \subseteq First(reports, more)
    BY DEF Matched
  <2> QED
    BY <2>1, FirstIs DEF Accepted, LedgerOK, FileOK
<1>3. CASE o.report = Original /\ \E m \in DOMAIN match : Execution(o) \in match[m]
  <2>1. m0 \in DOMAIN match /\ Execution(o) \in match[m0]
    BY <1>3
  <2>2. p = [o EXCEPT !.report = m0]
    BY <1>3 DEF Archived
  <2>3. \A m \in DOMAIN match : Execution(o) \in match[m] => m = m0
    <3>1. /\ \A m \in DOMAIN match : \E e : match[m] = {e}
          /\ \A m, n \in DOMAIN match : match[m] = match[n] => m = n
      BY DEF Matched
    <3> HIDE DEF m0
    <3> QED
      BY <2>1, <3>1
  <2> HIDE DEF m0
  <2>4. p \in CsvRow /\ p.id = o.id /\ p.occ = o.occ /\ p.report = m0
    BY <1>1, <1>2, <2>1, <2>2 DEF CsvRow
  <2> QED
    BY <1>3, <2>1, <2>3, <2>4
<1>4. CASE ~(o.report = Original /\ \E m \in DOMAIN match : Execution(o) \in match[m])
  <2>1. p = o
    BY <1>4 DEF Archived
  <2> QED
    BY <1>1, <1>4, <2>1
<1> QED
  BY <1>3, <1>4

\* The broker's rows after the merge are those of both sides, one per execution.
LEMMA MergedIs ==
  ASSUME NEW old, NEW new, NEW reports, NEW more, NEW match,
         Accepted(old, new, reports, more), Matched(match, old, new, reports, more)
  PROVE  LET csv == MergedCsv(Annotated(old, match), Annotated(new, match))
         IN  /\ csv \subseteq CsvRow /\ IsFiniteSet(csv)
             /\ \A p \in csv : \E o \in old \union new :
                  p = Archived(o, match) /\ Execution(o) = Execution(p) /\ o.id = p.id
             /\ \A o \in old : Archived(o, match) \in csv
             /\ \A o \in old \union new : \E p \in csv : Execution(p) = Execution(o)
             /\ OneRow(csv)
             /\ Executions(csv) = Executions(old) \union Executions(new)
<1> DEFINE A(o) == Archived(o, match)
           csv == MergedCsv(Annotated(old, match), Annotated(new, match))
<1>1. \A o \in old \union new : A(o) \in CsvRow /\ Execution(A(o)) = Execution(o) /\ A(o).id = o.id
  <2> SUFFICES ASSUME NEW o \in old \union new
               PROVE  A(o) \in CsvRow /\ Execution(A(o)) = Execution(o) /\ A(o).id = o.id
    OBVIOUS
  <2>1. LET p == Archived(o, match)
        IN  p \in CsvRow /\ p.id = o.id /\ p.occ = o.occ
    BY ArchivedIs
  <2> QED
    BY <2>1 DEF Execution
<1>2. /\ csv \subseteq {A(o) : o \in old \union new}
      /\ \A o \in old : A(o) \in csv
      /\ \A o \in new : (\A q \in old : Execution(q) # Execution(o)) => A(o) \in csv
      /\ \A p \in csv : \/ \E o \in old : p = A(o)
                       \/ \E o \in new : p = A(o) /\ \A q \in old : Execution(q) # Execution(o)
  <2>1. Executions(Annotated(old, match)) = Executions(old)
    BY <1>1 DEF Executions, Annotated
  <2>2. csv = {A(o) : o \in old} \union {p \in {A(o) : o \in new} : Execution(p) \notin Executions(old)}
    BY <2>1 DEF MergedCsv, Annotated
  <2>3. \A p : Execution(p) \in Executions(old) <=> \E q \in old : Execution(q) = Execution(p)
    BY DEF Executions
  <2> HIDE DEF csv
  <2> QED
    BY <1>1, <2>2, <2>3
<1> HIDE DEF csv, A
<1>3. csv \subseteq CsvRow
  BY <1>1, <1>2
<1>4. IsFiniteSet(csv)
  <2> DEFINE f == [o \in old \union new |-> A(o)]
  <2>1. IsFiniteSet(old \union new)
    BY FS_Union DEF Accepted, LedgerOK, FileOK
  <2>2. f = [o \in old \union new |-> f[o]]
    OBVIOUS
  <2>3. {f[o] : o \in old \union new} = {A(o) : o \in old \union new}
    OBVIOUS
  <2> HIDE DEF f
  <2>4. IsFiniteSet({A(o) : o \in old \union new})
    BY <2>1, <2>2, <2>3, ValuesFinite
  <2> QED
    BY <1>2, <2>4, FS_Subset
<1>5. \A p \in csv : \E o \in old \union new : p = A(o) /\ Execution(o) = Execution(p) /\ o.id = p.id
  BY <1>1, <1>2
<1>6. \A o \in old \union new : \E p \in csv : Execution(p) = Execution(o)
  BY <1>1, <1>2
<1>7. OneRow(csv)
  <2> SUFFICES ASSUME NEW p \in csv, NEW q \in csv, Execution(p) = Execution(q)
               PROVE  p = q
    BY DEF OneRow
  <2>1. OneRow(old) /\ OneRow(new)
    BY DEF Accepted, LedgerOK, FileOK
  <2>2. CASE \E o \in old : p = A(o)
    BY <1>1, <1>2, <2>1, <2>2 DEF OneRow
  <2>3. CASE \E o \in new : p = A(o) /\ \A r \in old : Execution(r) # Execution(o)
    BY <1>1, <1>2, <2>1, <2>3 DEF OneRow
  <2> QED
    BY <1>2, <2>2, <2>3
<1>8. Executions(csv) = Executions(old) \union Executions(new)
  BY <1>5, <1>6 DEF Executions
<1> QED
  BY <1>2, <1>3, <1>4, <1>5, <1>6, <1>7, <1>8 DEF csv, A

\* A broker row with an archive had it before, or was matched with the report.
LEMMA LinksAre ==
  ASSUME NEW old, NEW new, NEW reports, NEW more, NEW match,
         Accepted(old, new, reports, more), Matched(match, old, new, reports, more)
  PROVE  LET csv == MergedCsv(Annotated(old, match), Annotated(new, match))
         IN  /\ \A o \in Linked(old) : o \in Linked(csv)
             /\ \A p \in Linked(csv) :
                  p \in Linked(old) \/ (p.report \in DOMAIN match /\ match[p.report] = {Execution(p)})
             /\ \A m \in DOMAIN match : \E p \in Linked(csv) :
                  p.report = m \/ (p \in Linked(old) /\ p.report.ref = m.ref /\ Recovers(m, p.report))
<1> DEFINE csv == MergedCsv(Annotated(old, match), Annotated(new, match))
<1>1. /\ csv \subseteq CsvRow
      /\ \A p \in csv : \E o \in old \union new :
           p = Archived(o, match) /\ Execution(o) = Execution(p) /\ o.id = p.id
      /\ \A o \in old : Archived(o, match) \in csv
      /\ \A o \in old \union new : \E p \in csv : Execution(p) = Execution(o)
  BY MergedIs
<1> HIDE DEF csv
<1>2. Linked(new) = {} /\ Original \notin Report
  BY SchwabAssumption DEF Accepted, FileOK
<1>3. DOMAIN match \subseteq reports \union more
  <2>1. DOMAIN match \subseteq First(reports, more)
    BY DEF Matched
  <2> QED
    BY <2>1, FirstIs DEF Accepted, LedgerOK, FileOK
<1>4. DOMAIN match \subseteq Report
  BY <1>3 DEF Accepted, LedgerOK, FileOK
<1>5. ASSUME NEW o \in Linked(old)
      PROVE  o \in Linked(csv)
  <2>1. o \in old /\ o.report # Original
    BY DEF Linked
  <2>2. Archived(o, match) = o
    BY <2>1, ArchivedIs
  <2> QED
    BY <1>1, <2>1, <2>2 DEF Linked
<1>6. ASSUME NEW p \in Linked(csv)
      PROVE  p \in Linked(old) \/ (p.report \in DOMAIN match /\ match[p.report] = {Execution(p)})
  <2>1. p \in csv /\ p.report # Original
    BY DEF Linked
  <2>2. PICK o \in old \union new : p = Archived(o, match) /\ Execution(o) = Execution(p)
    BY <1>1, <2>1
  <2>3. CASE o.report # Original
    <3>1. p = o
      BY <2>2, <2>3, ArchivedIs
    <3>2. ~(o \in new)
      <4>1. ASSUME o \in new  PROVE o \in Linked(new)
        BY <2>3, <4>1 DEF Linked
      <4> QED
        BY <1>2, <4>1
    <3>3. p \in Linked(old)
      BY <2>3, <3>1, <3>2 DEF Linked
    <3> QED
      BY <3>3
  <2>4. CASE o.report = Original
    <3>1. PICK m \in DOMAIN match : Execution(o) \in match[m] /\ p.report = m
      BY <2>1, <2>2, <2>4, ArchivedIs
    <3>2. \E e : match[m] = {e}
      BY DEF Matched
    <3> QED
      BY <2>2, <3>1, <3>2
  <2> QED
    BY <2>3, <2>4
<1>7. ASSUME NEW m \in DOMAIN match
      PROVE  \E p \in Linked(csv) :
               p.report = m \/ (p \in Linked(old) /\ p.report.ref = m.ref /\ Recovers(m, p.report))
  <2>1. PICK x \in old \union new : match[m] = {Execution(x)}
    BY DEF Matched, Scope
  <2>2. PICK p \in csv : Execution(p) = Execution(x)
    BY <1>1
  <2>3. PICK o \in old \union new : p = Archived(o, match) /\ Execution(o) = Execution(p)
    BY <1>1
  <2>4. CASE o.report = Original
    <3>1. p.report = m
      BY <2>1, <2>2, <2>3, <2>4, ArchivedIs
    <3> QED
      BY <1>2, <1>4, <3>1 DEF Linked
  <2>5. CASE o.report # Original
    <3>1. o \in Linked(old) /\ p = o
      BY <1>2, <2>3, <2>5, ArchivedIs DEF Linked
    <3>2. o.report.ref = m.ref
      BY <2>1, <2>2, <2>3, <3>1 DEF Matched
    <3>3. o \in LinkedTo(old, m.ref)
      BY <3>1, <3>2 DEF LinkedTo
    <3>4. Recovers(m, o.report)
      BY <1>3, <3>3 DEF Matched
    <3>5. p \in Linked(csv)
      BY <1>5, <3>1
    <3> QED
      BY <3>1, <3>2, <3>4, <3>5
  <2> QED
    BY <2>4, <2>5
<1> QED
  BY <1>5, <1>6, <1>7 DEF csv

-----------------------------------------------------------------------------
(* The reports that wait *)

\* Reports that tell of one row have one scope.
LEMMA SameScope ==
  ASSUME NEW m, NEW n, Signature(m) = Signature(n), NEW csv
  PROVE  Scope(m, csv) = Scope(n, csv)
<1>1. m.side = n.side /\ m.day = n.day /\ m.source = n.source
  BY DEF Signature
<1> QED
  BY <1>1 DEF Scope, EligibleDates

\* The scope of a report is about the days and sides of the executions.
LEMMA ScopeOf ==
  ASSUME NEW m, NEW csv, NEW more,
         \A p \in csv : \E o \in more : o.id = p.id, Scope(m, more) = {}
  PROVE  Scope(m, csv) = {}
<1> SUFFICES ASSUME NEW p \in Scope(m, csv)  PROVE FALSE
  OBVIOUS
<1>1. p \in csv /\ p.id.trade.side = m.side /\ p.id.trade.day \in EligibleDates(m)
  BY DEF Scope
<1>2. PICK o \in more : o.id = p.id
  BY <1>1
<1>3. o \in Scope(m, more)
  BY <1>1, <1>2 DEF Scope
<1> QED
  BY <1>3

\* One row per reference: the file's, with the evidence of the ledger's.
LEMMA MergedManualIs ==
  ASSUME NEW reports, NEW more, reports \subseteq Report, more \subseteq Report,
         IsFiniteSet(reports), IsFiniteSet(more), OneReport(reports), OneReport(more)
  PROVE  LET both == MergedManual(reports, more)
         IN  /\ both \subseteq Report /\ IsFiniteSet(both) /\ OneReport(both)
             /\ \A x \in both : \E y \in reports \union more : Agree(x, y)
             /\ \A y \in more : \E x \in both : Tells(x, y)
             /\ \A y \in reports : \E x \in both :
                  \/ x = y
                  \/ \E w \in more : w.ref = y.ref /\ Agree(x, w) /\ (y.limit => x.limit)
             /\ \A x \in both :
                  \/ x \in reports /\ \A w \in more : w.ref # x.ref
                  \/ \E w \in more :
                       x = [w EXCEPT !.limit = @ \/ \E m \in reports : m.ref = w.ref /\ m.limit]
<1> DEFINE Stays == {m \in reports : \A n \in more : n.ref # m.ref}
           With(w) == [w EXCEPT !.limit = @ \/ \E m \in reports : m.ref = w.ref /\ m.limit]
           both == MergedManual(reports, more)
<1>1. both = Stays \union {With(w) : w \in more}
  BY DEF MergedManual
<1>2. ASSUME NEW w \in more
      PROVE  /\ With(w) \in Report /\ Agree(With(w), w) /\ Tells(With(w), w)
             /\ \A y \in reports : y.ref = w.ref /\ y.limit => With(w).limit
  <2>1. w \in Report
    OBVIOUS
  <2> DEFINE some == \E m \in reports : m.ref = w.ref /\ m.limit
  <2>2. some \in BOOLEAN /\ (\A y \in reports : y.ref = w.ref /\ y.limit => some)
    OBVIOUS
  <2>3. With(w) = [w EXCEPT !.limit = w.limit \/ some]
    OBVIOUS
  <2> HIDE DEF some, With
  <2>4. /\ With(w) \in Report /\ With(w).ref = w.ref /\ With(w).trade = w.trade
        /\ With(w).side = w.side /\ With(w).day = w.day /\ With(w).source = w.source
        /\ With(w).quantity = w.quantity /\ With(w).price = w.price
        /\ With(w).limit = (w.limit \/ some)
    BY <2>1, <2>2, <2>3 DEF Report
  <2> QED
    BY <2>2, <2>4 DEF Agree, Tells, Signature
<1>3. IsFiniteSet(both)
  <2> DEFINE f == [w \in more |-> With(w)]
  <2>1. f = [w \in more |-> f[w]] /\ {f[w] : w \in more} = {With(w) : w \in more}
    OBVIOUS
  <2> HIDE DEF f
  <2>2. IsFiniteSet({With(w) : w \in more})
    BY <2>1, ValuesFinite
  <2>3. IsFiniteSet(Stays)
    BY FS_Subset
  <2> HIDE DEF With, Stays
  <2>4. IsFiniteSet(Stays \union {With(w) : w \in more})
    BY <2>2, <2>3, FS_Union
  <2> QED
    BY <1>1, <2>4
<1> HIDE DEF With, both
<1>4. \A x \in both : (x \in reports /\ \A w \in more : w.ref # x.ref) \/ \E w \in more : x = With(w)
  BY <1>1
<1>5. \A w \in more : With(w).ref = w.ref
  BY <1>2 DEF Agree
<1>6. OneReport(both)
  <2> SUFFICES ASSUME NEW x \in both, NEW y \in both, x.ref = y.ref  PROVE x = y
    BY DEF OneReport
  <2> QED
    BY <1>4, <1>5 DEF OneReport
<1>7. both \subseteq Report
  BY <1>2, <1>4
<1>8. \A x \in both : \E y \in reports \union more : Agree(x, y)
  BY <1>2, <1>4 DEF Agree
<1>9. \A y \in more : \E x \in both : Tells(x, y)
  BY <1>1, <1>2
<1>10. ASSUME NEW y \in reports
       PROVE  \E x \in both :
                \/ x = y
                \/ \E w \in more : w.ref = y.ref /\ Agree(x, w) /\ (y.limit => x.limit)
  <2>1. CASE y \in Stays
    BY <1>1, <2>1
  <2>2. CASE y \notin Stays
    <3>1. PICK w \in more : w.ref = y.ref
      BY <2>2
    <3>2. With(w) \in both
      BY <1>1
    <3> QED
      BY <1>2, <3>1, <3>2
  <2> QED
    BY <2>1, <2>2
<1> QED
  BY <1>3, <1>4, <1>6, <1>7, <1>8, <1>9, <1>10 DEF both, With

-----------------------------------------------------------------------------
(* What an accepted reconciliation leaves *)

\* One kind of file at a time; a reference names one trade.
Merging(old, new, reports, more) ==
  /\ Accepted(old, new, reports, more)
  /\ new = {} \/ more = {}
  /\ \A w \in more : \A n \in InLedger(old, reports) : w.ref = n.ref => w.trade = n.trade

\* The reports of either side that were not matched.
Left(ms, match) == {m \in ms : \A n \in DOMAIN match : n.ref # m.ref}

\* An accepted reconciliation merges what it matched and what it left.
LEMMA ReconciledIs ==
  ASSUME NEW old, NEW new, NEW reports, NEW more, Merging(old, new, reports, more)
  PROVE  \E match :
           /\ Matched(match, old, new, reports, more)
           /\ Reconciled(old, new, reports, more) =
                [official |-> MergedCsv(Annotated(old, match), Annotated(new, match)),
                 manual   |-> MergedManual(Left(reports, match), Left(more, match))]
<1> DEFINE match == Matches(First(reports, more), old \union new)
<1>1. Matched(match, old, new, reports, more)
  BY MatchedOK DEF Merging
<1> WITNESS match
<1> QED
  BY <1>1 DEF Reconciled, Left

\* A report of the ledger that was not matched has no trades in its scope, and a
\* report of the file with its reference was not matched either.
LEMMA LeftUnscoped ==
  ASSUME NEW old, NEW new, NEW reports, NEW more, NEW match,
         Merging(old, new, reports, more), Matched(match, old, new, reports, more),
         NEW m \in Left(reports, match) \union Left(more, match)
  PROVE  Scope(m, old \union new) = {}
<1> DEFINE F == First(reports, more)
<1>1. /\ F \subseteq reports \union more /\ reports \subseteq F
      /\ \A w \in more : w \in F <=> w \in reports \/ \A n \in reports : n.ref # w.ref
  BY FirstIs DEF Merging, Accepted, LedgerOK, FileOK
<1>2. DOMAIN match = {n \in F : Scope(n, old \union new) # {}}
  BY DEF Matched
<1> HIDE DEF F
<1>3. CASE m \in F
  BY <1>2, <1>3 DEF Left
<1>4. CASE m \notin F
  <2>1. PICK n \in reports : m \in more /\ n.ref = m.ref
    BY <1>1, <1>4 DEF Left
  <2>2. Signature(n) = Signature(m)
    BY <2>1 DEF Matched
  <2>3. n \notin DOMAIN match
    BY <2>1 DEF Left
  <2>4. Scope(n, old \union new) = {}
    BY <1>1, <1>2, <2>1, <2>3
  <2> QED
    BY <2>2, <2>4, SameScope
<1> QED
  BY <1>3, <1>4

\* The ledger after an accepted import is one that may be merged again.
LEMMA ReconciledOK ==
  ASSUME NEW old, NEW new, NEW reports, NEW more, Merging(old, new, reports, more)
  PROVE  LET r == Reconciled(old, new, reports, more)
         IN  /\ LedgerOK(r.official, r.manual)
             /\ Executions(r.official) = Executions(old) \union Executions(new)
<1>1. PICK match :
        /\ Matched(match, old, new, reports, more)
        /\ Reconciled(old, new, reports, more) =
             [official |-> MergedCsv(Annotated(old, match), Annotated(new, match)),
              manual   |-> MergedManual(Left(reports, match), Left(more, match))]
  BY ReconciledIs
<1> DEFINE csv == MergedCsv(Annotated(old, match), Annotated(new, match))
           W1 == Left(reports, match)
           W2 == Left(more, match)
           both == MergedManual(W1, W2)
           F == First(reports, more)
<1>2. Accepted(old, new, reports, more) /\ LedgerOK(old, reports) /\ FileOK(new, more)
  BY DEF Merging, Accepted
<1>3. /\ csv \subseteq CsvRow /\ IsFiniteSet(csv) /\ OneRow(csv)
      /\ \A p \in csv : \E o \in old \union new : o.id = p.id
      /\ \A o \in old \union new : \E p \in csv : Execution(p) = Execution(o)
      /\ Executions(csv) = Executions(old) \union Executions(new)
  BY <1>1, <1>2, MergedIs
<1>4. /\ \A o \in Linked(old) : o \in Linked(csv)
      /\ \A p \in Linked(csv) :
           p \in Linked(old) \/ (p.report \in DOMAIN match /\ match[p.report] = {Execution(p)})
  BY <1>1, <1>2, LinksAre
<1>5. /\ W1 \subseteq reports /\ W2 \subseteq more /\ W1 \subseteq Report /\ W2 \subseteq Report
      /\ IsFiniteSet(W1) /\ IsFiniteSet(W2) /\ OneReport(W1) /\ OneReport(W2)
  <2>1. W1 \subseteq reports /\ W2 \subseteq more
    BY DEF Left
  <2> QED
    BY <1>2, <2>1, FS_Subset DEF LedgerOK, FileOK, OneReport
<1>6. /\ both \subseteq Report /\ IsFiniteSet(both) /\ OneReport(both)
      /\ \A x \in both : \E y \in W1 \union W2 : Agree(x, y)
  BY <1>5, MergedManualIs
<1>7. F \subseteq reports \union more /\ OneReport(F) /\ DOMAIN match = {m \in F : Scope(m, old \union new) # {}}
  BY <1>1, <1>2, FirstIs DEF LedgerOK, FileOK, Matched
<1>8. /\ \A y \in W1 \union W2 : \A n \in DOMAIN match : n.ref # y.ref
      /\ \A y \in W1 \union W2 : Scope(y, old \union new) = {}
  <2>1. ASSUME NEW y \in W1 \union W2
        PROVE  Scope(y, old \union new) = {}
    BY <1>1, LeftUnscoped
  <2> QED
    BY <2>1 DEF Left
<1>9. \A m \in reports \union more : \A o \in LinkedTo(old, m.ref) :
         Recovers(m, o.report) /\ o \in Scope(m, old)
  BY <1>1 DEF Matched
<1>20. Executions(csv) = Executions(old) \union Executions(new)
  BY <1>3
<1> HIDE DEF csv, W1, W2, both, F
<1>10. OneLink(csv)
  <2> SUFFICES ASSUME NEW p \in Linked(csv), NEW q \in Linked(csv), p.report.ref = q.report.ref
               PROVE  p = q
    BY DEF OneLink
  <2>1. p \in csv /\ q \in csv
    BY DEF Linked
  <2>2. ASSUME NEW a \in Linked(csv), NEW b \in Linked(csv), a.report.ref = b.report.ref,
               a \in Linked(old), b.report \in DOMAIN match, match[b.report] = {Execution(b)}
        PROVE  Execution(a) = Execution(b)
    <3>1. Execution(a) \in match[b.report]
      BY <1>1, <2>2 DEF Matched
    <3> QED
      BY <2>2, <3>1
  <2>3. CASE p \in Linked(old) /\ q \in Linked(old)
    BY <1>2, <2>3 DEF LedgerOK, OneLink
  <2>4. CASE p.report \in DOMAIN match /\ q.report \in DOMAIN match
             /\ match[p.report] = {Execution(p)} /\ match[q.report] = {Execution(q)}
    <3>1. p.report = q.report
      BY <1>7, <2>4 DEF OneReport
    <3>2. Execution(p) = Execution(q)
      BY <2>4, <3>1
    <3> QED
      BY <1>3, <2>1, <3>2 DEF OneRow
  <2> QED
    BY <1>3, <1>4, <2>1, <2>2, <2>3, <2>4 DEF OneRow
<1>11. Apart(csv, both)
  <2> SUFFICES ASSUME NEW x \in both, NEW p \in Linked(csv), p.report.ref = x.ref
               PROVE  FALSE
    BY DEF Apart
  <2>1. PICK y \in W1 \union W2 : x.ref = y.ref
    BY <1>6 DEF Agree
  <2>2. CASE p \in Linked(old)
    <3>1. p \in LinkedTo(old, y.ref)
      BY <2>1, <2>2 DEF LinkedTo
    <3>2. p \in Scope(y, old)
      BY <1>5, <1>9, <3>1
    <3>3. p \in Scope(y, old \union new)
      BY <3>2 DEF Scope
    <3> QED
      BY <1>8, <3>3
  <2>3. CASE p.report \in DOMAIN match
    BY <1>8, <2>1, <2>3
  <2> QED
    BY <1>4, <2>2, <2>3
<1>12. Unscoped(csv, both)
  <2> SUFFICES ASSUME NEW x \in both  PROVE Scope(x, csv) = {}
    BY DEF Unscoped
  <2>1. PICK y \in W1 \union W2 : Agree(x, y)
    BY <1>6
  <2>2. Scope(y, csv) = {}
    BY <1>3, <1>8, ScopeOf
  <2> QED
    BY <2>1, <2>2, SameScope DEF Agree
<1>13. Placed(csv)
  <2> SUFFICES ASSUME NEW p \in Linked(csv)  PROVE p \in Scope(p.report, csv)
    BY DEF Placed
  <2>1. p \in csv
    BY DEF Linked
  <2>2. CASE p \in Linked(old)
    <3>1. p \in Scope(p.report, old)
      BY <1>2, <2>2 DEF LedgerOK, Placed
    <3> QED
      BY <2>1, <3>1 DEF Scope
  <2>3. CASE p.report \in DOMAIN match /\ match[p.report] = {Execution(p)}
    <3>1. PICK o \in Scope(p.report, old \union new) : match[p.report] = {Execution(o)}
      BY <1>1, <2>3 DEF Matched
    <3>2. Execution(o) = Execution(p)
      BY <2>3, <3>1
    <3>3. o.id = p.id
      BY <3>2 DEF Execution
    <3> QED
      BY <2>1, <3>1, <3>3 DEF Scope
  <2> QED
    BY <1>4, <2>2, <2>3
<1>14. LedgerOK(csv, both)
  BY <1>3, <1>6, <1>10, <1>11, <1>12, <1>13 DEF LedgerOK
<1> QED
  BY <1>1, <1>14, <1>20 DEF csv, both, W1, W2

\* A report that agrees with itself tells of itself.
LEMMA TellsOrder ==
  /\ \A m : Tells(m, m) /\ Agree(m, m)
  /\ \A m, n, x : Tells(x, n) /\ Tells(n, m) => Tells(x, m)
  /\ \A m, n, x : Agree(x, n) /\ Agree(n, m) => Agree(x, m)
BY DEF Tells, Agree

\* Nothing that was told is lost, and nothing is in the ledger that was not told.
LEMMA ReconciledTells ==
  ASSUME NEW old, NEW new, NEW reports, NEW more, Merging(old, new, reports, more)
  PROVE  LET r == Reconciled(old, new, reports, more)
         IN  /\ \A n \in InLedger(old, reports) \union more :
                  \E x \in InLedger(r.official, r.manual) : Tells(x, n)
             /\ \A x \in InLedger(r.official, r.manual) :
                  \E n \in InLedger(old, reports) \union more : Agree(x, n)
<1>1. PICK match :
        /\ Matched(match, old, new, reports, more)
        /\ Reconciled(old, new, reports, more) =
             [official |-> MergedCsv(Annotated(old, match), Annotated(new, match)),
              manual   |-> MergedManual(Left(reports, match), Left(more, match))]
  BY ReconciledIs
<1> DEFINE csv == MergedCsv(Annotated(old, match), Annotated(new, match))
           W1 == Left(reports, match)
           W2 == Left(more, match)
           both == MergedManual(W1, W2)
           F == First(reports, more)
<1>2. Accepted(old, new, reports, more) /\ LedgerOK(old, reports) /\ FileOK(new, more)
  BY DEF Merging, Accepted
<1>3. csv \subseteq CsvRow
  BY <1>1, <1>2, MergedIs
<1>4. /\ \A o \in Linked(old) : o \in Linked(csv)
      /\ \A p \in Linked(csv) :
           p \in Linked(old) \/ (p.report \in DOMAIN match /\ match[p.report] = {Execution(p)})
      /\ \A m \in DOMAIN match : \E p \in Linked(csv) :
           p.report = m \/ (p \in Linked(old) /\ p.report.ref = m.ref /\ Recovers(m, p.report))
  BY <1>1, <1>2, LinksAre
<1>5. /\ W1 \subseteq reports /\ W2 \subseteq more /\ W1 \subseteq Report /\ W2 \subseteq Report
      /\ IsFiniteSet(W1) /\ IsFiniteSet(W2) /\ OneReport(W1) /\ OneReport(W2)
  <2>1. W1 \subseteq reports /\ W2 \subseteq more
    BY DEF Left
  <2> QED
    BY <1>2, <2>1, FS_Subset DEF LedgerOK, FileOK, OneReport
<1>6. /\ \A x \in both : \E y \in W1 \union W2 : Agree(x, y)
      /\ \A y \in W2 : \E x \in both : Tells(x, y)
      /\ \A y \in W1 : \E x \in both :
           \/ x = y
           \/ \E w \in W2 : w.ref = y.ref /\ Agree(x, w) /\ (y.limit => x.limit)
  BY <1>5, MergedManualIs
<1>7. /\ F \subseteq reports \union more /\ reports \subseteq F /\ OneReport(F)
      /\ DOMAIN match = {m \in F : Scope(m, old \union new) # {}}
  BY <1>1, <1>2, FirstIs DEF LedgerOK, FileOK, Matched
<1>8. /\ \A m \in reports : m \in W1 \/ m \in DOMAIN match
      /\ \A m \in more : m \in W2 \/ \E d \in DOMAIN match : d.ref = m.ref
  <2>1. \A m \in reports : m \in W1 \/ \E d \in DOMAIN match : d.ref = m.ref
    BY DEF Left
  <2>2. \A m \in reports : \A d \in DOMAIN match : d.ref = m.ref => d = m
    BY <1>7 DEF OneReport
  <2> QED
    BY <2>1, <2>2 DEF Left
<1>9. /\ InLedger(csv, both) = both \union {p.report : p \in Linked(csv)}
      /\ InLedger(old, reports) = reports \union {o.report : o \in Linked(old)}
  BY DEF InLedger
<1>10. \A m, n \in reports \union more : m.ref = n.ref => Signature(m) = Signature(n)
  BY <1>1 DEF Matched
<1> HIDE DEF csv, W1, W2, both, F
<1>11. ASSUME NEW n \in InLedger(old, reports)
       PROVE  \E x \in InLedger(csv, both) : Tells(x, n)
  <2>1. CASE n \in {o.report : o \in Linked(old)}
    BY <1>4, <1>9, <2>1, TellsOrder
  <2>2. CASE n \in W1
    <3>1. PICK x \in both :
            \/ x = n
            \/ \E w \in W2 : w.ref = n.ref /\ Agree(x, w) /\ (n.limit => x.limit)
      BY <1>6, <2>2
    <3>2. CASE x = n
      BY <1>9, <3>2, TellsOrder
    <3>3. CASE \E w \in W2 : w.ref = n.ref /\ Agree(x, w) /\ (n.limit => x.limit)
      <4>1. PICK w \in W2 : w.ref = n.ref /\ Agree(x, w) /\ (n.limit => x.limit)
        BY <3>3
      <4>2. w \in more /\ n \in reports
        BY <1>5, <2>2
      <4>3. w.trade = n.trade
        BY <4>1, <4>2 DEF Merging
      <4>4. Signature(w) = Signature(n)
        BY <1>10, <4>1, <4>2
      <4>5. Tells(x, n)
        BY <4>1, <4>3, <4>4 DEF Tells, Agree
      <4> QED
        BY <1>9, <4>5
    <3> QED
      BY <3>1, <3>2, <3>3
  <2>3. CASE n \in reports /\ n \in DOMAIN match
    <3>1. PICK p \in Linked(csv) : p.report = n \/ (p \in Linked(old) /\ p.report.ref = n.ref)
      BY <1>4, <2>3
    <3>2. ~(p \in Linked(old) /\ p.report.ref = n.ref)
      BY <1>2, <2>3 DEF LedgerOK, Apart
    <3> QED
      BY <1>9, <3>1, <3>2, TellsOrder
  <2> QED
    BY <1>8, <1>9, <2>1, <2>2, <2>3
<1>12. ASSUME NEW n \in more
       PROVE  \E x \in InLedger(csv, both) : Tells(x, n)
  <2>1. CASE n \in W2
    BY <1>6, <1>9, <2>1
  <2>2. CASE \E d \in DOMAIN match : d.ref = n.ref
    <3>1. PICK d \in DOMAIN match : d.ref = n.ref
      BY <2>2
    <3>2. new = {}
      BY DEF Merging
    <3>3. d \notin reports
      <4>1. Scope(d, old) # {}
        BY <1>7, <3>2
      <4> QED
        BY <1>2, <4>1 DEF LedgerOK, Unscoped
    <3>4. d = n
      BY <1>2, <1>7, <3>1, <3>3 DEF FileOK, OneReport
    <3>5. PICK p \in Linked(csv) :
            p.report = n \/ (p \in Linked(old) /\ p.report.ref = n.ref /\ Recovers(n, p.report))
      BY <1>4, <3>4
    <3>6. CASE p.report = n
      BY <1>9, <3>6, TellsOrder
    <3>7. CASE Recovers(n, p.report)
      <4> DEFINE a == p.report
      <4>1. a \in Report
        BY <1>3 DEF Linked, CsvRow
      <4>2. n = [a EXCEPT !.limit = n.limit] /\ (n.limit => a.limit)
        BY <3>7 DEF Recovers
      <4> HIDE DEF a
      <4>3. /\ a.ref = n.ref /\ a.trade = n.trade /\ a.side = n.side /\ a.day = n.day
            /\ a.source = n.source /\ a.quantity = n.quantity /\ a.price = n.price
        BY <4>1, <4>2 DEF Report
      <4>4. Tells(a, n)
        BY <4>2, <4>3 DEF Tells, Agree, Signature
      <4> QED
        BY <1>9, <4>4 DEF a
    <3> QED
      BY <3>5, <3>6, <3>7
  <2> QED
    BY <1>8, <2>1, <2>2
<1>13. ASSUME NEW x \in InLedger(csv, both)
       PROVE  \E n \in InLedger(old, reports) \union more : Agree(x, n)
  <2>1. CASE x \in both
    BY <1>5, <1>6, <1>9, <2>1
  <2>2. CASE \E p \in Linked(csv) : x = p.report
    <3>1. PICK p \in Linked(csv) : x = p.report
      BY <2>2
    <3>2. p \in Linked(old) \/ p.report \in DOMAIN match
      BY <1>4
    <3> QED
      BY <1>7, <1>9, <3>1, <3>2, TellsOrder
  <2> QED
    BY <1>9, <2>1, <2>2
<1> QED
  BY <1>1, <1>11, <1>12, <1>13 DEF csv, both, W1, W2

-----------------------------------------------------------------------------
(* Files *)

\* A row of an export.
RowOf(t, e) ==
  LET Id(u) == [trade |-> world.trades[u], fee |-> IF u \in e.revised THEN 1 ELSE 0]
  IN  [id |-> Id(t), occ |-> Cardinality({u \in Covered(e) : u <= t /\ Id(u) = Id(t)}),
       report |-> Original]

\* An export has a row for each trade it covers.
LEMMA CsvRowsAre == \A e : CsvRows(e) = {RowOf(t, e) : t \in Covered(e)}
BY DEF CsvRows, RowOf

\* A world has finitely many trades, each with a day.
LEMMA CoveredFinite ==
  ASSUME world \in Worlds, NEW e
  PROVE  /\ IsFiniteSet(Covered(e)) /\ Covered(e) \subseteq Trades
         /\ Trades \subseteq Nat /\ IsFiniteSet(Trades)
         /\ \A t \in Trades : world.trades[t] \in Trade
<1>1. world.trades \in Seq(Trade)
  BY SchwabAssumption
<1>2. Trades = 1..Len(world.trades) /\ Len(world.trades) \in Nat
  BY <1>1 DEF Trades
<1>3. IsFiniteSet(Trades)
  BY <1>2, FS_Interval
<1>4. Covered(e) \subseteq Trades
  BY DEF Covered, Until
<1>5. \A t \in Trades : world.trades[t] \in Trade
  BY <1>1, <1>2
<1> QED
  BY <1>2, <1>3, <1>4, <1>5, FS_Subset

\* The rows of an export are a file: one per execution, without archives.
LEMMA ExportOK ==
  ASSUME world \in Worlds, NEW e
  PROVE  FileOK(CsvRows(e), {})
<1>1. /\ IsFiniteSet(Covered(e)) /\ Covered(e) \subseteq Trades
      /\ \A t \in Trades : world.trades[t] \in Trade
  BY CoveredFinite
<1>2. CsvRows(e) = {RowOf(t, e) : t \in Covered(e)}
  BY CsvRowsAre
<1>3. ASSUME NEW t \in Covered(e)
      PROVE  RowOf(t, e) \in CsvRow /\ RowOf(t, e).report = Original
  <2> DEFINE Id(u) == [trade |-> world.trades[u], fee |-> IF u \in e.revised THEN 1 ELSE 0]
             like == {u \in Covered(e) : u <= t /\ Id(u) = Id(t)}
  <2>1. IsFiniteSet(like)
    BY <1>1, FS_Subset
  <2>2. Cardinality(like) \in Nat
    BY <2>1, FS_CardinalityType
  <2>3. RowOf(t, e) = [id |-> Id(t), occ |-> Cardinality(like), report |-> Original]
    BY DEF RowOf
  <2>4. Id(t) \in [trade : Trade, fee : {0, 1}]
    BY <1>1
  <2> HIDE DEF like, Id
  <2> QED
    BY <2>2, <2>3, <2>4 DEF CsvRow
<1>4. IsFiniteSet(CsvRows(e))
  <2> DEFINE f == [t \in Covered(e) |-> RowOf(t, e)]
  <2>1. f = [t \in Covered(e) |-> f[t]] /\ {f[t] : t \in Covered(e)} = CsvRows(e)
    BY <1>2
  <2> HIDE DEF f
  <2> QED
    BY <1>1, <2>1, ValuesFinite
<1>5. CsvRows(e) \subseteq CsvRow /\ \A o \in CsvRows(e) : o.report = Original
  BY <1>2, <1>3
<1>6. OneRow(CsvRows(e))
  BY <1>5 DEF OneRow, Execution, CsvRow
<1>7. Linked(CsvRows(e)) = {}
  BY <1>5 DEF Linked
<1> QED
  BY <1>4, <1>5, <1>6, <1>7, FS_EmptySet DEF FileOK, OneReport

\* A workbook is a file: one row per reference.
LEMMA BookOK ==
  ASSUME world \in Worlds, NEW b \in world.books
  PROVE  FileOK({}, b)
<1>1. IsFiniteSet(b) /\ b \subseteq Report /\ OneReport(b)
  BY SchwabAssumption DEF OneReport
<1> QED
  BY <1>1, FS_EmptySet DEF FileOK, OneRow, Linked

\* What is in the ledger was told, so that a reference names one trade in both.
LEMMA OneTrade ==
  ASSUME SchwabInv, NEW b \in world.books, NEW w \in b, NEW n \in InLedger(official, manual),
         w.ref = n.ref
  PROVE  w.trade = n.trade
<1>1. PICK m \in UNION books : Agree(m, n)
  BY DEF SchwabInv, Sourced
<1>2. m \in UNION world.books /\ w \in UNION world.books
  BY DEF SchwabInv
<1>3. \A x, y \in UNION world.books : x.ref = y.ref <=> x.trade = y.trade
  BY SchwabAssumption DEF SchwabInv
<1> QED
  BY <1>1, <1>2, <1>3 DEF Agree

-----------------------------------------------------------------------------
(* The invariant *)

\* The empty ledger may be merged with any file.
LEMMA SchwabStart == SchwabInit => SchwabInv
<1> SUFFICES ASSUME SchwabInit  PROVE SchwabInv
  OBVIOUS
<1>1. /\ world \in Worlds /\ official = {} /\ manual = {} /\ exports = {} /\ books = {}
  BY DEF SchwabInit
<1>2. Linked({}) = {}
  BY DEF Linked
<1>3. LedgerOK({}, {})
  BY <1>2, FS_EmptySet DEF LedgerOK, OneRow, OneReport, OneLink, Apart, Placed, Unscoped
<1>4. Told /\ Sourced
  BY <1>1, <1>2 DEF Told, Sourced, InLedger
<1>5. Executions({}) = {} /\ UNION {CsvRows(e) : e \in {}} = {}
  BY DEF Executions
<1> QED
  BY <1>1, <1>3, <1>4, <1>5 DEF SchwabInv

\* What an import adds to what was told.
LEMMA TellingKept ==
  ASSUME SchwabInv, NEW new, NEW more, Merging(official, new, manual, more),
         LET r == Reconciled(official, new, manual, more)
         IN  official' = r.official /\ manual' = r.manual,
         UNION books' = (UNION books) \union more
  PROVE  Told' /\ Sourced'
<1>1. /\ \A n \in InLedger(official, manual) \union more :
           \E x \in InLedger(official', manual') : Tells(x, n)
      /\ \A x \in InLedger(official', manual') :
           \E n \in InLedger(official, manual) \union more : Agree(x, n)
  BY ReconciledTells
<1>2. Told /\ Sourced
  BY DEF SchwabInv
<1>3. Told'
  <2> SUFFICES ASSUME NEW m \in UNION books'
               PROVE  \E n \in InLedger(official', manual') : Tells(n, m)
    BY DEF Told
  <2>1. CASE m \in more
    BY <1>1, <2>1
  <2>2. CASE m \in UNION books
    BY <1>1, <1>2, <2>2, TellsOrder DEF Told
  <2> QED
    BY <2>1, <2>2
<1>4. Sourced'
  <2> SUFFICES ASSUME NEW x \in InLedger(official', manual')
               PROVE  \E m \in UNION books' : Agree(m, x)
    BY DEF Sourced
  <2>1. PICK n \in InLedger(official, manual) \union more : Agree(x, n)
    BY <1>1
  <2>2. CASE n \in more
    BY <2>1, <2>2 DEF Agree
  <2>3. CASE n \in InLedger(official, manual)
    <3>1. PICK m \in UNION books : Agree(m, n)
      BY <1>2, <2>3 DEF Sourced
    <3> QED
      BY <2>1, <3>1 DEF Agree
  <2> QED
    BY <2>2, <2>3
<1> QED
  BY <1>3, <1>4

\* An accepted export leaves a ledger that may be merged again.
LEMMA ImportExportStep ==
  ASSUME SchwabInv, NEW e \in Exports, ImportExport(e)
  PROVE  SchwabInv'
<1> DEFINE new == CsvRows(e)
           r == Reconciled(official, new, manual, {})
<1>1. /\ official' = r.official /\ manual' = r.manual /\ exports' = exports \union {e}
      /\ world' = world /\ books' = books /\ ~Refused(official, new, manual, {})
  BY DEF ImportExport
<1>2. Merging(official, new, manual, {})
  BY <1>1, ExportOK DEF Merging, Accepted, SchwabInv
<1>3. /\ LedgerOK(r.official, r.manual)
      /\ Executions(r.official) = Executions(official) \union Executions(new)
  BY <1>2, ReconciledOK
<1>4. Told' /\ Sourced'
  BY <1>1, <1>2, TellingKept
<1>5. \A f : (CsvRows(f))' = CsvRows(f)
  BY <1>1 DEF CsvRows, Covered, Until, Trades
<1>6. Executions(official)' = Executions(UNION {CsvRows(f) : f \in exports})'
  <2>1. Executions(official) = Executions(UNION {CsvRows(f) : f \in exports})
    BY DEF SchwabInv
  <2>2. UNION {CsvRows(f) : f \in exports \union {e}} = (UNION {CsvRows(f) : f \in exports}) \union new
    <3> DEFINE S == {CsvRows(f) : f \in exports}
               T == {CsvRows(f) : f \in exports \union {e}}
    <3>1. T = S \union {new}
      OBVIOUS
    <3> HIDE DEF S, T
    <3>2. UNION T = (UNION S) \union new
      BY <3>1
    <3> QED
      BY <3>2 DEF S, T
  <2>3. \A S, T : Executions(S \union T) = Executions(S) \union Executions(T)
    BY DEF Executions
  <2>4. Executions(official') = Executions(UNION {CsvRows(f) : f \in exports \union {e}})
    <3>1. Executions(official') = Executions(official) \union Executions(new)
      BY <1>1, <1>3
    <3> QED
      BY <2>1, <2>2, <2>3, <3>1
  <2> QED
    BY <1>1, <1>5, <2>4
<1>7. /\ world' \in Worlds /\ books' \subseteq world'.books /\ exports' \subseteq Exports
  BY <1>1 DEF SchwabInv
<1>8. LedgerOK(official, manual)'
  BY <1>1, <1>3
<1> QED
  BY <1>4, <1>6, <1>7, <1>8 DEF SchwabInv

\* An accepted workbook leaves a ledger that may be merged again.
LEMMA ImportBookStep ==
  ASSUME SchwabInv, NEW b \in world.books, ImportBook(b)
  PROVE  SchwabInv'
<1> DEFINE r == Reconciled(official, {}, manual, b)
<1>1. /\ official' = r.official /\ manual' = r.manual /\ books' = books \union {b}
      /\ world' = world /\ exports' = exports /\ ~Refused(official, {}, manual, b)
  BY DEF ImportBook
<1>2. Merging(official, {}, manual, b)
  <2>1. \A w \in b : \A n \in InLedger(official, manual) : w.ref = n.ref => w.trade = n.trade
    BY OneTrade
  <2> QED
    BY <1>1, <2>1, BookOK DEF Merging, Accepted, SchwabInv
<1>3. /\ LedgerOK(r.official, r.manual)
      /\ Executions(r.official) = Executions(official) \union Executions({})
  BY <1>2, ReconciledOK
<1>4. Told' /\ Sourced'
  <2>1. UNION books' = (UNION books) \union b
    BY <1>1
  <2> QED
    BY <1>1, <1>2, <2>1, TellingKept
<1>5. \A f : (CsvRows(f))' = CsvRows(f)
  BY <1>1 DEF CsvRows, Covered, Until, Trades
<1>6. Executions(official)' = Executions(UNION {CsvRows(f) : f \in exports})'
  <2>1. Executions(official) = Executions(UNION {CsvRows(f) : f \in exports}) /\ Executions({}) = {}
    BY DEF SchwabInv, Executions
  <2> QED
    BY <1>1, <1>3, <1>5, <2>1
<1>7. /\ world' \in Worlds /\ books' \subseteq world'.books /\ exports' \subseteq Exports
  BY <1>1 DEF SchwabInv
<1>8. LedgerOK(official, manual)'
  BY <1>1, <1>3
<1> QED
  BY <1>4, <1>6, <1>7, <1>8 DEF SchwabInv

\* However many files are imported, the ledger may be merged with the next: one row
\* per execution, per report and per archive, every report told and none invented.
THEOREM SchwabInvariant == SchwabSpec => []SchwabInv
<1>1. SchwabInit => SchwabInv
  BY SchwabStart
<1>2. SchwabInv /\ [SchwabNext]_schwabVars => SchwabInv'
  <2> SUFFICES ASSUME SchwabInv, [SchwabNext]_schwabVars  PROVE SchwabInv'
    OBVIOUS
  <2>1. CASE \E e \in Exports : ImportExport(e)
    BY <2>1, ImportExportStep
  <2>2. CASE \E b \in world.books : ImportBook(b)
    BY <2>2, ImportBookStep
  <2>3. CASE UNCHANGED schwabVars
    <3>1. /\ world' = world /\ official' = official /\ manual' = manual
          /\ exports' = exports /\ books' = books
      BY <2>3 DEF schwabVars
    <3>2. \A f : (CsvRows(f))' = CsvRows(f)
      BY <3>1 DEF CsvRows, Covered, Until, Trades
    <3> QED
      BY <3>1, <3>2 DEF SchwabInv, Told, Sourced, InLedger
  <2> QED
    BY <2>1, <2>2, <2>3 DEF SchwabNext
<1> QED
  BY <1>1, <1>2, PTL DEF SchwabSpec

-----------------------------------------------------------------------------
(* Each report once *)

\* A set whose elements are all equal counts for one, if it has any.
LEMMA AtMostOne ==
  ASSUME NEW S, \A x, y \in S : x = y
  PROVE  Cardinality(S) = IF S = {} THEN 0 ELSE 1
<1>1. CASE S = {}
  BY <1>1, FS_EmptySet
<1>2. CASE S # {}
  <2>1. PICK x \in S : TRUE
    BY <1>2
  <2>2. S = {x}
    BY <2>1
  <2> QED
    BY <1>2, <2>2, FS_Singleton
<1> QED
  BY <1>1, <1>2

\* A report that was told waits or is archived, once and never both.
LEMMA ReportsOnce == SchwabInv => EachReportOnce
<1> SUFFICES ASSUME SchwabInv, NEW m \in UNION books
             PROVE  Cardinality({n \in manual : n.ref = m.ref})
                      + Cardinality(LinkedTo(official, m.ref)) = 1
  BY DEF EachReportOnce, SchwabInv
<1> DEFINE waiting == {n \in manual : n.ref = m.ref}
           archived == LinkedTo(official, m.ref)
<1>1. OneReport(manual) /\ OneLink(official) /\ Apart(official, manual)
  BY DEF SchwabInv, LedgerOK
<1>2. \A x, y \in waiting : x = y
  BY <1>1 DEF OneReport
<1>3. \A x, y \in archived : x = y
  BY <1>1 DEF OneLink, LinkedTo
<1>4. waiting = {} \/ archived = {}
  BY <1>1 DEF Apart, LinkedTo
<1>5. waiting # {} \/ archived # {}
  <2>1. PICK n \in InLedger(official, manual) : Tells(n, m)
    BY DEF SchwabInv, Told
  <2> QED
    BY <2>1 DEF InLedger, Tells, Agree, LinkedTo
<1> HIDE DEF waiting, archived
<1>6. /\ Cardinality(waiting) = IF waiting = {} THEN 0 ELSE 1
      /\ Cardinality(archived) = IF archived = {} THEN 0 ELSE 1
  BY <1>2, <1>3, AtMostOne
<1>7. Cardinality(waiting) + Cardinality(archived) = 1
  BY <1>4, <1>5, <1>6
<1> QED
  BY <1>7 DEF waiting, archived

-----------------------------------------------------------------------------
(* An import again *)

\* An export that was imported shows nothing the ledger does not have.
LEMMA ExportAgain ==
  ASSUME SchwabInv, NEW e \in exports, ~Refused(official, CsvRows(e), manual, {})
  PROVE  Unchanged(Reconciled(official, CsvRows(e), manual, {}))
<1> DEFINE new == CsvRows(e)
<1>1. Merging(official, new, manual, {})
  BY ExportOK DEF Merging, Accepted, SchwabInv
<1>2. PICK match :
        /\ Matched(match, official, new, manual, {})
        /\ Reconciled(official, new, manual, {}) =
             [official |-> MergedCsv(Annotated(official, match), Annotated(new, match)),
              manual   |-> MergedManual(Left(manual, match), Left({}, match))]
  BY <1>1, ReconciledIs
<1>3. Executions(new) \subseteq Executions(official)
  BY DEF SchwabInv, Executions
<1>4. \A p \in official \union new : \E o \in official : Execution(o) = Execution(p) /\ o.id = p.id
  <2>1. \A p \in new : \E o \in official : Execution(o) = Execution(p)
    BY <1>3 DEF Executions
  <2> QED
    BY <2>1 DEF Execution
<1> HIDE DEF new
<1>5. DOMAIN match = {}
  <2> SUFFICES ASSUME NEW m \in DOMAIN match  PROVE FALSE
    OBVIOUS
  <2>1. m \in manual /\ Scope(m, official \union new) # {}
    BY <1>2 DEF Matched, First
  <2>2. Scope(m, official) = {}
    BY <2>1 DEF SchwabInv, LedgerOK, Unscoped
  <2>3. Scope(m, official \union new) = {}
    BY <1>4, <2>2, ScopeOf
  <2> QED
    BY <2>1, <2>3
<1>6. \A o : Archived(o, match) = o
  BY <1>5 DEF Archived
<1>7. Annotated(official, match) = official /\ Annotated(new, match) = new
  BY <1>6 DEF Annotated
<1>8. MergedCsv(official, new) = official
  <2>1. \A p \in new : Execution(p) \in Executions(official)
    BY <1>4 DEF Executions
  <2> QED
    BY <2>1 DEF MergedCsv
<1>9. MergedManual(Left(manual, match), Left({}, match)) = manual
  BY <1>5 DEF Left, MergedManual
<1> QED
  BY <1>2, <1>7, <1>8, <1>9 DEF Unchanged, new

\* A workbook that was imported was told in full: the reports that were replaced
\* have their archive, and those that wait have as much evidence.
LEMMA BookAgain ==
  ASSUME SchwabInv, NEW b \in books, ~Refused(official, {}, manual, b)
  PROVE  Unchanged(Reconciled(official, {}, manual, b))
<1>1. Merging(official, {}, manual, b)
  <2>1. b \in world.books
    BY DEF SchwabInv
  <2>2. \A w \in b : \A n \in InLedger(official, manual) : w.ref = n.ref => w.trade = n.trade
    BY <2>1, OneTrade
  <2> QED
    BY <2>1, <2>2, BookOK DEF Merging, Accepted, SchwabInv
<1>2. PICK match :
        /\ Matched(match, official, {}, manual, b)
        /\ Reconciled(official, {}, manual, b) =
             [official |-> MergedCsv(Annotated(official, match), Annotated({}, match)),
              manual   |-> MergedManual(Left(manual, match), Left(b, match))]
  BY <1>1, ReconciledIs
<1>3. /\ OneRow(official) /\ OneReport(manual) /\ Unscoped(official, manual)
      /\ manual \subseteq Report /\ b \subseteq Report
      /\ \A w \in b : \E n \in InLedger(official, manual) : Tells(n, w)
  BY <1>1 DEF SchwabInv, LedgerOK, Told, Merging, Accepted, FileOK
<1>4. official \union {} = official
  OBVIOUS
<1>5. \A d \in DOMAIN match : d \in b \union manual /\ Scope(d, official) # {}
  BY <1>2, <1>4 DEF Matched, First
<1>6. \A d \in DOMAIN match : \A n \in manual : n.ref # d.ref
  <2> SUFFICES ASSUME NEW d \in DOMAIN match, NEW n \in manual, n.ref = d.ref  PROVE FALSE
    OBVIOUS
  <2>1. Signature(n) = Signature(d)
    BY <1>2, <1>5 DEF Matched
  <2> QED
    BY <1>3, <1>5, <2>1, SameScope DEF Unscoped
<1>7. \A o \in official : Archived(o, match) = o
  <2> SUFFICES ASSUME NEW o \in official, o.report = Original,
                      NEW d \in DOMAIN match, Execution(o) \in match[d]
               PROVE  FALSE
    BY DEF Archived
  <2>1. d \in b
    BY <1>5, <1>6
  <2>2. PICK n \in InLedger(official, manual) : n.ref = d.ref
    BY <1>3, <2>1 DEF Tells, Agree
  <2>3. PICK p \in Linked(official) : p.report.ref = d.ref
    BY <1>6, <2>2 DEF InLedger
  <2>4. Execution(p) \in match[d] /\ \E x : match[d] = {x}
    BY <1>2, <2>3 DEF Matched
  <2>5. p \in official /\ Execution(p) = Execution(o) /\ p.report # Original
    BY <2>3, <2>4 DEF Linked
  <2> QED
    BY <1>3, <2>5 DEF OneRow
<1>8. MergedCsv(Annotated(official, match), Annotated({}, match)) = official
  <2>1. Annotated(official, match) = official /\ Annotated({}, match) = {}
    BY <1>7 DEF Annotated
  <2> QED
    BY <2>1 DEF MergedCsv
<1>9. Left(manual, match) = manual
  BY <1>6 DEF Left
<1> DEFINE W == Left(b, match)
           With(w) == [w EXCEPT !.limit = @ \/ \E m \in manual : m.ref = w.ref /\ m.limit]
           Plain(m) == [m EXCEPT !.book = 0]
           both == MergedManual(manual, W)
<1>10. ASSUME NEW w \in W
       PROVE  \E n \in manual : n.ref = w.ref /\ Plain(With(w)) = Plain(n)
  <2>1. w \in b /\ w \in Report
    BY <1>3 DEF Left
  <2>2. PICK n \in InLedger(official, manual) : Tells(n, w)
    BY <1>3, <2>1
  <2>3. Scope(w, official) = {}
    BY <1>1, <1>2, <1>4, LeftUnscoped
  <2>4. \A o \in LinkedTo(official, w.ref) : o \in Scope(w, official)
    BY <1>2, <2>1 DEF Matched
  <2>5. n \in manual
    BY <2>2, <2>3, <2>4 DEF InLedger, Tells, Agree, LinkedTo
  <2>6. /\ n \in Report /\ n.ref = w.ref /\ n.trade = w.trade /\ Signature(n) = Signature(w)
        /\ w.limit => n.limit
    BY <1>3, <2>2, <2>5 DEF Tells, Agree
  <2>7. /\ n.side = w.side /\ n.day = w.day /\ n.source = w.source
        /\ n.quantity = w.quantity /\ n.price = w.price
    BY <2>6 DEF Signature
  <2>8. (\E m \in manual : m.ref = w.ref /\ m.limit) = n.limit
    BY <1>3, <2>5, <2>6 DEF OneReport, Report
  <2>9. With(w) = [w EXCEPT !.limit = n.limit]
    BY <2>1, <2>6, <2>8 DEF Report
  <2>10. Plain([w EXCEPT !.limit = n.limit]) = Plain(n)
    BY <2>1, <2>6, <2>7 DEF Report
  <2> QED
    BY <2>5, <2>6, <2>9, <2>10
<1>11. both = {m \in manual : \A w \in W : w.ref # m.ref} \union {With(w) : w \in W}
  BY DEF MergedManual
<1> HIDE DEF W, With, Plain, both
<1>12. \A x \in both : \E n \in manual : Plain(x) = Plain(n)
  BY <1>10, <1>11
<1>13. \A n \in manual : \E x \in both : Plain(x) = Plain(n)
  <2> SUFFICES ASSUME NEW n \in manual  PROVE \E x \in both : Plain(x) = Plain(n)
    OBVIOUS
  <2>1. CASE \A w \in W : w.ref # n.ref
    BY <1>11, <2>1
  <2>2. CASE \E w \in W : w.ref = n.ref
    <3>1. PICK w \in W : w.ref = n.ref
      BY <2>2
    <3>2. PICK m \in manual : m.ref = w.ref /\ Plain(With(w)) = Plain(m)
      BY <1>10
    <3>3. m = n
      BY <1>3, <3>1, <3>2 DEF OneReport
    <3> QED
      BY <1>11, <3>2, <3>3
  <2> QED
    BY <2>1, <2>2
<1>14. Content(both) = Content(manual)
  <2>1. Content(both) = {Plain(x) : x \in both} /\ Content(manual) = {Plain(n) : n \in manual}
    BY DEF Content, Plain
  <2> QED
    BY <1>12, <1>13, <2>1
<1> QED
  BY <1>2, <1>8, <1>9, <1>14 DEF Unchanged, W, both

\* What was imported changes nothing when it is imported again.
LEMMA ReplaysHarmless == SchwabInv => ReplayHarmless
BY ExportAgain, BookAgain DEF ReplayHarmless

-----------------------------------------------------------------------------
(* Each trade once *)

\* What is known of a report in the ledger: it is one of the accepted workbooks'.
LEMMA ReportOfTrade ==
  ASSUME SchwabInv
  PROVE  /\ \A n \in InLedger(official, manual) :
              /\ n.trade \in Trades /\ \E m \in UNION books : m.trade = n.trade
              /\ n.side = world.trades[n.trade].side /\ n.day = world.trades[n.trade].day
              /\ n.source \in {n.day, n.day + 1}
         /\ \A m, n \in InLedger(official, manual) : m.trade = n.trade => m.ref = n.ref
         /\ {m.trade : m \in UNION books} \subseteq Trades
<1>1. /\ \A m \in UNION world.books :
           /\ m.trade \in Trades
           /\ m.side = world.trades[m.trade].side /\ m.day = world.trades[m.trade].day
           /\ m.source \in {m.day, m.day + 1}
      /\ \A m, n \in UNION world.books : m.ref = n.ref <=> m.trade = n.trade
  BY SchwabAssumption DEF SchwabInv, Trades
<1>2. UNION books \subseteq UNION world.books
  BY DEF SchwabInv
<1>3. ASSUME NEW n \in InLedger(official, manual)
      PROVE  \E m \in UNION books :
               /\ m.trade = n.trade /\ m.ref = n.ref
               /\ m.side = n.side /\ m.day = n.day /\ m.source = n.source
  BY DEF SchwabInv, Sourced, Agree, Signature
<1>4. ASSUME NEW n \in InLedger(official, manual)
      PROVE  /\ n.trade \in Trades /\ \E m \in UNION books : m.trade = n.trade
             /\ n.side = world.trades[n.trade].side /\ n.day = world.trades[n.trade].day
             /\ n.source \in {n.day, n.day + 1}
  <2>1. PICK m \in UNION books :
               /\ m.trade = n.trade /\ m.ref = n.ref
               /\ m.side = n.side /\ m.day = n.day /\ m.source = n.source
    BY <1>3
  <2>2. m \in UNION world.books
    BY <1>2
  <2>3. /\ m.trade \in Trades
        /\ m.side = world.trades[m.trade].side /\ m.day = world.trades[m.trade].day
        /\ m.source \in {m.day, m.day + 1}
    BY <1>1, <2>2
  <2> QED
    BY <2>1, <2>3
<1>5. \A m, n \in InLedger(official, manual) : m.trade = n.trade => m.ref = n.ref
  <2> SUFFICES ASSUME NEW m \in InLedger(official, manual), NEW n \in InLedger(official, manual),
                      m.trade = n.trade
               PROVE  m.ref = n.ref
    OBVIOUS
  <2>1. PICK x \in UNION books : x.trade = m.trade /\ x.ref = m.ref
    BY <1>3
  <2>2. PICK y \in UNION books : y.trade = n.trade /\ y.ref = n.ref
    BY <1>3
  <2>3. x \in UNION world.books /\ y \in UNION world.books
    BY <1>2
  <2> QED
    BY <1>1, <2>1, <2>2, <2>3
<1>6. {m.trade : m \in UNION books} \subseteq Trades
  BY <1>1, <1>2
<1> QED
  BY <1>4, <1>5, <1>6

\* The broker's rows of the ledger are the rows of the exports.
LEMMA RowsShown ==
  ASSUME SchwabInv
  PROVE  /\ \A o \in official : \E e \in exports : \E t \in Covered(e) :
              Execution(o) = Execution(RowOf(t, e)) /\ o.id.trade = world.trades[t]
         /\ \A e \in exports : \A t \in Covered(e) : \E o \in official :
              Execution(o) = Execution(RowOf(t, e)) /\ o.id.trade = world.trades[t]
<1> DEFINE shown == UNION {CsvRows(e) : e \in exports}
<1>1. Executions(official) = Executions(shown)
  BY DEF SchwabInv
<1>2. \A p : p \in shown <=> \E e \in exports : \E t \in Covered(e) : p = RowOf(t, e)
  BY CsvRowsAre
<1>3. \A t, e : RowOf(t, e).id.trade = world.trades[t]
  BY DEF RowOf
<1>4. \A o, p : Execution(o) = Execution(p) => o.id = p.id
  BY DEF Execution
<1> HIDE DEF shown
<1>5. \A o \in official : \E p \in shown : Execution(o) = Execution(p)
  BY <1>1 DEF Executions
<1>6. \A p \in shown : \E o \in official : Execution(o) = Execution(p)
  BY <1>1 DEF Executions
<1>7. ASSUME NEW o \in official
      PROVE  \E e \in exports : \E t \in Covered(e) :
               Execution(o) = Execution(RowOf(t, e)) /\ o.id.trade = world.trades[t]
  <2>1. PICK p \in shown : Execution(o) = Execution(p)
    BY <1>5
  <2>2. PICK e \in exports : \E t \in Covered(e) : p = RowOf(t, e)
    BY <1>2
  <2>2a. PICK t \in Covered(e) : p = RowOf(t, e)
    BY <2>2
  <2>3. o.id = p.id /\ p.id.trade = world.trades[t]
    BY <1>3, <1>4, <2>1, <2>2a
  <2> QED
    BY <2>1, <2>2a, <2>3
<1>8. ASSUME NEW e \in exports, NEW t \in Covered(e)
      PROVE  \E o \in official :
               Execution(o) = Execution(RowOf(t, e)) /\ o.id.trade = world.trades[t]
  <2>1. PICK o \in official : Execution(o) = Execution(RowOf(t, e))
    BY <1>2, <1>6
  <2>2. o.id = RowOf(t, e).id
    BY <1>4, <2>1
  <2> QED
    BY <1>3, <2>1, <2>2
<1> QED
  BY <1>7, <1>8

\* The broker's rows are as many as their executions.
LEMMA OnePerExecution ==
  ASSUME SchwabInv
  PROVE  Cardinality(Executions(official)) = Cardinality(official)
<1> DEFINE h == [o \in official |-> Execution(o)]
<1>1. h = [o \in official |-> h[o]] /\ Executions(official) = {h[o] : o \in official}
  BY DEF Executions
<1>2. \A o, p \in official : h[o] = h[p] => o = p
  BY DEF SchwabInv, LedgerOK, OneRow
<1> HIDE DEF h
<1>3. IsFiniteSet(official)
  BY DEF SchwabInv, LedgerOK
<1> QED
  BY <1>1, <1>2, <1>3, ValuesFinite

\* Exports that reach back to the first trade and revise the same number like
\* trades alike, so that the broker's rows are as many as the trades they show.
LEMMA RowsOfTrades ==
  ASSUME SchwabInv, \A e, f \in exports : e.from = 1 /\ e.revised = f.revised
  PROVE  Cardinality(official) = Cardinality(UNION {Covered(e) : e \in exports})
<1> DEFINE C == UNION {Covered(e) : e \in exports}
<1>1. PICK R : \A e \in exports : e.revised = R
  OBVIOUS
<1>2. /\ C \subseteq Trades /\ IsFiniteSet(C)
      /\ Trades \subseteq Nat /\ IsFiniteSet(Trades)
      /\ \A t \in Trades : world.trades[t] \in Trade
  <2>1. \A e : Covered(e) \subseteq Trades
    BY CoveredFinite DEF SchwabInv
  <2>2. C \subseteq Trades
    BY <2>1
  <2>3. /\ Trades \subseteq Nat /\ IsFiniteSet(Trades)
        /\ \A t \in Trades : world.trades[t] \in Trade
    BY CoveredFinite DEF SchwabInv
  <2> HIDE DEF C
  <2> QED
    BY <2>2, <2>3, FS_Subset
<1> DEFINE Id(t) == [trade |-> world.trades[t], fee |-> IF t \in R THEN 1 ELSE 0]
           Like(t) == {u \in Trades : u <= t /\ Id(u) = Id(t)}
           g == [t \in C |-> <<Id(t), Cardinality(Like(t))>>]
<1>3. ASSUME NEW e \in exports, NEW t \in Covered(e)
      PROVE  Execution(RowOf(t, e)) = <<Id(t), Cardinality(Like(t))>>
  <2>1. e.from = 1 /\ e.revised = R
    BY <1>1
  <2>2. t \in Trades /\ world.trades[t].day <= e.to
    BY DEF Covered, Until
  <2>3. \A u \in Trades : Id(u) = Id(t) => u \in Covered(e)
    <3> SUFFICES ASSUME NEW u \in Trades, Id(u) = Id(t)  PROVE u \in Covered(e)
      OBVIOUS
    <3>1. world.trades[u] = world.trades[t]
      OBVIOUS
    <3>2. world.trades[u].day >= 1
      BY <1>2 DEF Trade, Day
    <3> QED
      BY <2>1, <2>2, <3>1, <3>2 DEF Covered, Until
  <2>4. {u \in Covered(e) : u <= t /\ Id(u) = Id(t)} = Like(t)
    BY <2>3 DEF Covered, Until
  <2>5. Execution(RowOf(t, e)) = <<Id(t), Cardinality({u \in Covered(e) : u <= t /\ Id(u) = Id(t)})>>
    BY <2>1 DEF Execution, RowOf
  <2> QED
    BY <2>4, <2>5
<1> HIDE DEF Id
<1>4. ASSUME NEW t \in Trades
      PROVE  IsFiniteSet(Like(t)) /\ t \in Like(t)
  <2>1. Like(t) \subseteq Trades
    OBVIOUS
  <2>2. t <= t
    BY <1>2
  <2> QED
    BY <1>2, <2>1, <2>2, FS_Subset
<1>5. ASSUME NEW t \in Trades, NEW u \in Trades, Id(t) = Id(u), t < u
      PROVE  Cardinality(Like(t)) # Cardinality(Like(u))
  <2>1. ASSUME NEW x \in Like(t)
        PROVE  x \in Like(u)
    <3>1. x \in Nat /\ t \in Nat /\ u \in Nat /\ x <= t
      BY <1>2
    <3>2. x <= u
      BY <1>5, <3>1
    <3> QED
      BY <1>5, <3>2
  <2>2. u \notin Like(t)
    <3>1. t \in Nat /\ u \in Nat
      BY <1>2
    <3>2. ~(u <= t)
      BY <1>5, <3>1
    <3> QED
      BY <3>2
  <2>3. Like(t) \subseteq Like(u) /\ Like(t) # Like(u)
    BY <1>4, <2>1, <2>2
  <2> HIDE DEF Like
  <2> QED
    BY <1>4, <2>3, FS_Subset
<1> HIDE DEF Like
<1>6. \A t, u \in C : g[t] = g[u] => t = u
  <2> SUFFICES ASSUME NEW t \in C, NEW u \in C, g[t] = g[u], t # u  PROVE FALSE
    OBVIOUS
  <2>1. Id(t) = Id(u) /\ Cardinality(Like(t)) = Cardinality(Like(u))
    OBVIOUS
  <2>2. t \in Nat /\ u \in Nat /\ t \in Trades /\ u \in Trades
    BY <1>2
  <2>3. t < u \/ u < t
    BY <2>2
  <2> QED
    BY <1>5, <2>1, <2>2, <2>3
<1>7. Executions(official) = {g[t] : t \in C}
  <2>1. \A o \in official : \E t \in C : Execution(o) = g[t]
    <3> SUFFICES ASSUME NEW o \in official  PROVE \E t \in C : Execution(o) = g[t]
      OBVIOUS
    <3>1. PICK e \in exports : \E t \in Covered(e) : Execution(o) = Execution(RowOf(t, e))
      BY RowsShown
    <3>1a. PICK t \in Covered(e) : Execution(o) = Execution(RowOf(t, e))
      BY <3>1
    <3> QED
      BY <1>3, <3>1a
  <2>2. \A t \in C : \E o \in official : Execution(o) = g[t]
    <3> SUFFICES ASSUME NEW t \in C  PROVE \E o \in official : Execution(o) = g[t]
      OBVIOUS
    <3>1. PICK e \in exports : t \in Covered(e)
      OBVIOUS
    <3>2. PICK o \in official : Execution(o) = Execution(RowOf(t, e))
      BY <3>1, RowsShown
    <3> QED
      BY <1>3, <3>1, <3>2
  <2> HIDE DEF g, C
  <2> QED
    BY <2>1, <2>2 DEF Executions
<1>8. g = [t \in C |-> g[t]]
  OBVIOUS
<1> HIDE DEF g
<1>9. Cardinality(Executions(official)) = Cardinality(C)
  BY <1>2, <1>6, <1>7, <1>8, ValuesFinite
<1>10. Cardinality(Executions(official)) = Cardinality(official)
  BY OnePerExecution
<1> QED
  BY <1>9, <1>10

\* The reports that wait are of as many trades, which no export has shown; the
\* trades of all others were shown by one.
LEMMA WaitingTrades ==
  ASSUME SchwabInv, \A e \in exports : e.from = 1
  PROVE  LET shown == UNION {Covered(e) : e \in exports}
             waiting == {n.trade : n \in manual}
         IN  /\ IsFiniteSet(waiting) /\ Cardinality(waiting) = Cardinality(manual)
             /\ shown \intersect waiting = {}
             /\ shown \union {m.trade : m \in UNION books} = shown \union waiting
<1> DEFINE shown == UNION {Covered(e) : e \in exports}
           waiting == {n.trade : n \in manual}
           told == {m.trade : m \in UNION books}
<1>1. /\ IsFiniteSet(manual) /\ OneReport(manual) /\ Unscoped(official, manual) /\ Placed(official)
      /\ manual \subseteq InLedger(official, manual)
  BY DEF SchwabInv, LedgerOK, InLedger
<1>2. IsFiniteSet(waiting) /\ Cardinality(waiting) = Cardinality(manual)
  <2> DEFINE f == [n \in manual |-> n.trade]
  <2>1. f = [n \in manual |-> f[n]] /\ waiting = {f[n] : n \in manual}
    OBVIOUS
  <2>2. \A m, n \in manual : f[m] = f[n] => m = n
    BY <1>1, ReportOfTrade DEF OneReport
  <2> HIDE DEF f, waiting
  <2> QED
    BY <1>1, <2>1, <2>2, ValuesFinite
<1>3. shown \intersect waiting = {}
  <2> SUFFICES ASSUME NEW n \in manual, NEW e \in exports, n.trade \in Covered(e)
               PROVE  FALSE
    OBVIOUS
  <2>1. PICK o \in official : o.id.trade = world.trades[n.trade]
    BY RowsShown
  <2>2. o.id.trade.side = n.side /\ o.id.trade.day = n.day
    BY <1>1, <2>1, ReportOfTrade
  <2>3. o \in Scope(n, official)
    BY <2>2 DEF Scope, EligibleDates
  <2> QED
    BY <1>1, <2>3 DEF Unscoped
<1>4. waiting \subseteq told
  BY <1>1, ReportOfTrade
<1>5. told \subseteq shown \union waiting
  <2> SUFFICES ASSUME NEW m \in UNION books  PROVE m.trade \in shown \union waiting
    OBVIOUS
  <2>1. PICK n \in InLedger(official, manual) : n.trade = m.trade
    BY DEF SchwabInv, Told, Tells, Agree
  <2>2. CASE n \in manual
    BY <2>1, <2>2
  <2>3. CASE \E o \in Linked(official) : n = o.report
    <3>1. PICK o \in Linked(official) : n = o.report
      BY <2>3
    <3>2. o \in official /\ o.id.trade.day \in {n.day, n.source}
      BY <1>1, <3>1 DEF Placed, Scope, EligibleDates
    <3>3. PICK e \in exports : \E t \in Covered(e) : o.id.trade = world.trades[t]
      BY <3>2, RowsShown
    <3>3a. PICK t \in Covered(e) : o.id.trade = world.trades[t]
      BY <3>3
    <3>4. /\ n.trade \in Trades /\ n.day = world.trades[n.trade].day
          /\ n.source \in {n.day, n.day + 1}
      BY ReportOfTrade
    <3>5. /\ \A u \in Trades : world.trades[u] \in Trade
          /\ t \in Trades /\ world.trades[t].day <= e.to
      BY CoveredFinite DEF SchwabInv, Covered, Until
    <3>6. n.day \in Nat /\ n.day >= 1 /\ o.id.trade.day >= n.day
      BY <3>2, <3>4, <3>5 DEF Trade, Day
    <3>7. e.to \in Nat /\ e.from = 1
      BY SchwabAssumption DEF SchwabInv
    <3>8. world.trades[t].day \in Nat
      BY <3>5 DEF Trade, Day
    <3>9. world.trades[n.trade].day <= e.to /\ world.trades[n.trade].day >= e.from
      BY <3>3a, <3>4, <3>5, <3>6, <3>7, <3>8
    <3>10. n.trade \in Covered(e)
      BY <3>4, <3>9 DEF Covered, Until
    <3> QED
      BY <2>1, <3>10
  <2> QED
    BY <2>2, <2>3 DEF InLedger
<1>6. shown \union told = shown \union waiting
  BY <1>4, <1>5
<1> QED
  BY <1>2, <1>3, <1>6

\* If the broker's rows are as many as the trades the exports showed, the rows
\* that wait being as many as those only reported, each trade is counted once.
LEMMA RowsCounted ==
  ASSUME SchwabInv, \A e \in exports : e.from = 1,
         Cardinality(official) = Cardinality(UNION {Covered(e) : e \in exports})
  PROVE  RowsCount
<1> DEFINE shown == UNION {Covered(e) : e \in exports}
           waiting == {n.trade : n \in manual}
<1>1. Cardinality(official) = Cardinality(shown)
  OBVIOUS
<1>2. /\ IsFiniteSet(waiting) /\ Cardinality(waiting) = Cardinality(manual)
      /\ shown \intersect waiting = {}
      /\ shown \union {m.trade : m \in UNION books} = shown \union waiting
  BY WaitingTrades
<1>3. IsFiniteSet(shown)
  <2>1. IsFiniteSet(Trades) /\ \A e : Covered(e) \subseteq Trades
    BY CoveredFinite DEF SchwabInv
  <2>2. shown \subseteq Trades
    BY <2>1
  <2> QED
    BY <2>1, <2>2, FS_Subset
<1> HIDE DEF shown, waiting
<1>4. Cardinality(shown \union waiting) = Cardinality(shown) + Cardinality(waiting)
  <2>1. Cardinality(shown) \in Nat /\ Cardinality(waiting) \in Nat
    BY <1>2, <1>3, FS_CardinalityType
  <2>2. /\ Cardinality(shown \intersect waiting) = 0
        /\ Cardinality(shown \union waiting) =
             Cardinality(shown) + Cardinality(waiting) - Cardinality(shown \intersect waiting)
    BY <1>2, <1>3, FS_Union, FS_EmptySet
  <2> QED
    BY <2>1, <2>2
<1>5. Cardinality((UNION {Covered(e) : e \in exports}) \union {m.trade : m \in UNION books})
        = Cardinality(official) + Cardinality(manual)
  BY <1>1, <1>2, <1>4 DEF shown
<1> QED
  BY <1>5 DEF RowsCount

LEMMA TradesCounted == SchwabInv => EachTradeOnce
BY RowsOfTrades, RowsCounted DEF EachTradeOnce

\* After any number of imports each report is in the ledger once, each trade is
\* counted once while exports reach back to the first and revise nothing, and an
\* import of what was imported is refused or harmless.
THEOREM TradesOnceAlways == SchwabSpec => []TradesOnce
<1>1. SchwabInv => TradesOnce
  BY ReportsOnce, TradesCounted, ReplaysHarmless DEF TradesOnce
<1> QED
  BY <1>1, SchwabInvariant, PTL

-----------------------------------------------------------------------------
(* Sums.  The positions are sums over sets of rows and of trades.  What they   *)
(* add up to is proved by induction about sets: the library's induction        *)
(* theorems about predicates take an operator, this one a set.                 *)

\* A set of numbers that has 0, and n + 1 with each n, has them all: induction
\* about a set, from its least missing number.
LEMMA AllNumbers ==
  ASSUME NEW A, 0 \in A, \A n \in Nat : n \in A => n + 1 \in A
  PROVE  Nat \subseteq A
<1> SUFFICES ASSUME Nat \ A # {}  PROVE FALSE
  OBVIOUS
<1> DEFINE T == Nat \ A
           R == OpToRel(<, Nat)
<1>1. PICK x \in T : \A y \in T : ~(<<y, x>> \in R)
  <2>1. T \subseteq Nat /\ T # {} /\ IsWellFoundedOn(R, Nat)
    BY NatLessThanWellFounded
  <2> HIDE DEF T, R
  <2> QED
    BY <2>1, WFMin
<1>2. x \in Nat /\ x # 0 /\ x - 1 \in Nat /\ x = (x - 1) + 1
  OBVIOUS
<1>3. <<x - 1, x>> \in R
  BY <1>2 DEF OpToRel
<1> HIDE DEF R
<1>4. x - 1 \in A
  BY <1>1, <1>2, <1>3
<1>5. (x - 1) + 1 \in A
  BY <1>2, <1>4
<1> QED
  BY <1>2, <1>5

\* A set of parts of a finite set that has the empty one, and each part that
\* it has without any one of its elements, has them all.
LEMMA AllParts ==
  ASSUME NEW S, IsFiniteSet(S), NEW A, {} \in A,
         \A s \in SUBSET S : s # {} /\ (\A x \in s : s \ {x} \in A) => s \in A
  PROVE  SUBSET S \subseteq A
<1> DEFINE L == {n \in Nat : \A s \in SUBSET S : Cardinality(s) = n => s \in A}
<1>1. \A s \in SUBSET S : IsFiniteSet(s) /\ Cardinality(s) \in Nat
  BY FS_Subset, FS_CardinalityType
<1>2. 0 \in L
  BY <1>1, FS_EmptySet
<1>3. ASSUME NEW n \in Nat, n \in L
      PROVE  n + 1 \in L
  <2> SUFFICES ASSUME NEW s \in SUBSET S, Cardinality(s) = n + 1  PROVE s \in A
    OBVIOUS
  <2>1. s # {}
    BY <1>1, FS_EmptySet
  <2>2. ASSUME NEW x \in s  PROVE s \ {x} \in A
    <3>1. Cardinality(s \ {x}) = Cardinality(s) - 1
      BY <1>1, FS_RemoveElement
    <3>2. Cardinality(s \ {x}) = n
      BY <3>1
    <3> QED
      BY <1>3, <3>2
  <2> QED
    BY <2>1, <2>2
<1> HIDE DEF L
<1>4. Nat \subseteq L
  BY <1>2, <1>3, AllNumbers
<1> QED
  BY <1>1, <1>4 DEF L

\* What is summed next.
Some(s) == CHOOSE x \in s : TRUE

\* A function that sums f over the parts in P.
Sums(g, f, P) ==
  g = [s \in P |-> IF s = {} THEN 0 ELSE f[Some(s)] + g[s \ {Some(s)}]]

\* A function that sums f over the parts of S.
SumsOf(g, f, S) == Sums(g, f, SUBSET S)

LEMMA SumsExist ==
  ASSUME NEW f, NEW S, IsFiniteSet(S)
  PROVE  \E g : Sums(g, f, SUBSET S)
<1> DEFINE Upto(n) == {s \in SUBSET S : Cardinality(s) <= n}
           A == {n \in Nat : \E g : Sums(g, f, Upto(n))}
<1>1. \A s \in SUBSET S : IsFiniteSet(s) /\ Cardinality(s) \in Nat
  BY FS_Subset, FS_CardinalityType
<1>2. \A s : s # {} => Some(s) \in s
  BY DEF Some
<1>3. \A s \in SUBSET S : s # {} =>
        s \ {Some(s)} \in SUBSET S /\ Cardinality(s \ {Some(s)}) = Cardinality(s) - 1
  BY <1>1, <1>2, FS_RemoveElement
<1>4. 0 \in A
  <2> DEFINE g == [s \in Upto(0) |-> 0]
  <2>1. \A s \in Upto(0) : s = {}
    BY <1>1, FS_EmptySet
  <2>2. Sums(g, f, Upto(0))
    BY <2>1 DEF Sums
  <2> QED
    BY <2>2
<1>5. ASSUME NEW n \in Nat, n \in A
      PROVE  n + 1 \in A
  <2>1. PICK g : Sums(g, f, Upto(n))
    BY <1>5
  <2> DEFINE h == [s \in Upto(n + 1) |-> IF s = {} THEN 0 ELSE f[Some(s)] + g[s \ {Some(s)}]]
  <2>2. ASSUME NEW s \in Upto(n)
        PROVE  s \in Upto(n + 1) /\ h[s] = g[s]
    <3>1. s \in Upto(n + 1)
      BY <1>1
    <3>2. g[s] = IF s = {} THEN 0 ELSE f[Some(s)] + g[s \ {Some(s)}]
      BY <2>1 DEF Sums
    <3>3. h[s] = IF s = {} THEN 0 ELSE f[Some(s)] + g[s \ {Some(s)}]
      BY <3>1
    <3> QED
      BY <3>1, <3>2, <3>3
  <2>3. ASSUME NEW s \in Upto(n + 1), s # {}
        PROVE  s \ {Some(s)} \in Upto(n)
    BY <1>1, <1>3, <2>3
  <2> HIDE DEF Upto
  <2>4. Sums(h, f, Upto(n + 1))
    <3> DEFINE k == [s \in Upto(n + 1) |-> IF s = {} THEN 0 ELSE f[Some(s)] + h[s \ {Some(s)}]]
    <3>1. \A s \in Upto(n + 1) : s # {} => h[s \ {Some(s)}] = g[s \ {Some(s)}]
      BY <2>2, <2>3
    <3> HIDE DEF h
    <3>2. \A s \in Upto(n + 1) : h[s] = k[s]
      BY <3>1 DEF h
    <3>3. h = [s \in Upto(n + 1) |-> h[s]]
      BY DEF h
    <3>4. h = k
      BY <3>2, <3>3
    <3> QED
      BY <3>4 DEF Sums
  <2> QED
    BY <2>4
<1> HIDE DEF A
<1>6. Nat \subseteq A
  BY <1>4, <1>5, AllNumbers
<1>7. Upto(Cardinality(S)) = SUBSET S
  BY <1>1, FS_Subset
<1>8. Cardinality(S) \in A
  BY <1>1, <1>6
<1> QED
  BY <1>7, <1>8 DEF A

Alike(f, h, T) == \A x \in T : f[x] = h[x]

\* Sums of like values agree.
LEMMA SumsAgree ==
  ASSUME NEW f, NEW h, NEW S, NEW T \in SUBSET S, IsFiniteSet(T), Alike(f, h, T),
         NEW g, SumsOf(g, f, S), NEW k, SumsOf(k, h, T)
  PROVE  \A s \in SUBSET T : g[s] = k[s]
<1> DEFINE A == {s \in SUBSET T : g[s] = k[s]}
<1>1. /\ \A s \in SUBSET T : g[s] = IF s = {} THEN 0 ELSE f[Some(s)] + g[s \ {Some(s)}]
      /\ \A s \in SUBSET T : k[s] = IF s = {} THEN 0 ELSE h[Some(s)] + k[s \ {Some(s)}]
  BY DEF Sums, SumsOf
<1>2. {} \in A
  BY <1>1
<1>3. ASSUME NEW s \in SUBSET T, s # {}, \A x \in s : s \ {x} \in A
      PROVE  s \in A
  <2>1. Some(s) \in s
    BY <1>3 DEF Some
  <2>2. f[Some(s)] = h[Some(s)] /\ g[s \ {Some(s)}] = k[s \ {Some(s)}]
    BY <1>3, <2>1 DEF Alike
  <2>3. g[s] = f[Some(s)] + g[s \ {Some(s)}] /\ k[s] = h[Some(s)] + k[s \ {Some(s)}]
    BY <1>1, <1>3
  <2> QED
    BY <2>2, <2>3
<1> HIDE DEF A
<1>4. SUBSET T \subseteq A
  BY <1>2, <1>3, AllParts
<1> QED
  BY <1>4 DEF A

LEMMA SumIs ==
  ASSUME NEW f, NEW S, IsFiniteSet(S)
  PROVE  \E g : SumsOf(g, f, S) /\ SumFunctionOnSet(f, S) = g[S]
<1> DEFINE g == CHOOSE g : SumsOf(g, f, S)
<1>1. \E x : SumsOf(x, f, S)
  BY SumsExist DEF SumsOf
<1>2. SumsOf(g, f, S)
  BY <1>1
<1>3. SumFunctionOnSet(f, S) = g[S]
  BY DEF SumFunctionOnSet, FoldFunctionOnSet, MapThenFoldSet, Sums, SumsOf, Some
<1> HIDE DEF g
<1> QED
  BY <1>2, <1>3

LEMMA SumFirst ==
  ASSUME NEW f, NEW S, IsFiniteSet(S)
  PROVE  SumFunctionOnSet(f, S) =
           IF S = {} THEN 0 ELSE f[Some(S)] + SumFunctionOnSet(f, S \ {Some(S)})
<1> DEFINE T == S \ {Some(S)}
<1>1. IsFiniteSet(T) /\ T \subseteq S
  BY FS_Subset
<1>2. PICK g : SumsOf(g, f, S) /\ SumFunctionOnSet(f, S) = g[S]
  BY SumIs
<1>3. g[S] = IF S = {} THEN 0 ELSE f[Some(S)] + g[T]
  BY <1>2 DEF Sums, SumsOf
<1> HIDE DEF T
<1>4. PICK k : SumsOf(k, f, T) /\ SumFunctionOnSet(f, T) = k[T]
  BY <1>1, SumIs
<1>5. \A s \in SUBSET T : g[s] = k[s]
  <2>1. Alike(f, f, T) /\ T \in SUBSET S /\ IsFiniteSet(T)
    BY <1>1 DEF Alike
  <2>2. SumsOf(g, f, S) /\ SumsOf(k, f, T)
    BY <1>2, <1>4
  <2> QED
    BY <2>1, <2>2, SumsAgree
<1>6. g[T] = k[T]
  BY <1>5
<1> QED
  BY <1>2, <1>3, <1>4, <1>6 DEF T

\* Functions with the same values have the same sum.
LEMMA SumSame ==
  ASSUME NEW f, NEW h, NEW S, IsFiniteSet(S), \A x \in S : f[x] = h[x]
  PROVE  SumFunctionOnSet(f, S) = SumFunctionOnSet(h, S)
<1>1. PICK g : SumsOf(g, f, S) /\ SumFunctionOnSet(f, S) = g[S]
  BY SumIs
<1>2. PICK k : SumsOf(k, h, S) /\ SumFunctionOnSet(h, S) = k[S]
  BY SumIs
<1>3. Alike(f, h, S) /\ S \in SUBSET S
  BY DEF Alike
<1>4. \A s \in SUBSET S : g[s] = k[s]
  BY <1>1, <1>2, <1>3, SumsAgree
<1> QED
  BY <1>1, <1>2, <1>4

\* A sum of integers is one.
LEMMA SumType ==
  ASSUME NEW f, NEW S, IsFiniteSet(S), \A x \in S : f[x] \in Int
  PROVE  \A s \in SUBSET S : SumFunctionOnSet(f, s) \in Int
<1> DEFINE sum(s) == SumFunctionOnSet(f, s)
           A == {s \in SUBSET S : sum(s) \in Int}
<1>1. \A s \in SUBSET S : sum(s) = IF s = {} THEN 0 ELSE f[Some(s)] + sum(s \ {Some(s)})
  BY FS_Subset, SumFirst
<1> HIDE DEF sum
<1>2. {} \in A
  <2>1. {} \in SUBSET S
    OBVIOUS
  <2>2. sum({}) = 0
    BY <1>1, <2>1
  <2> QED
    BY <2>2
<1>3. ASSUME NEW s \in SUBSET S, s # {}, \A x \in s : s \ {x} \in A
      PROVE  s \in A
  <2>1. Some(s) \in s
    BY <1>3 DEF Some
  <2>2. sum(s) = f[Some(s)] + sum(s \ {Some(s)}) /\ sum(s \ {Some(s)}) \in Int
    BY <1>1, <1>3, <2>1
  <2> QED
    BY <2>1, <2>2
<1> HIDE DEF A
<1>4. SUBSET S \subseteq A
  BY <1>2, <1>3, AllParts
<1> QED
  BY <1>4 DEF A, sum

\* The order does not matter: a sum is any one of the values and the sum of the rest.
LEMMA SumTake ==
  ASSUME NEW f, NEW S, IsFiniteSet(S), \A x \in S : f[x] \in Int
  PROVE  \A x \in S : SumFunctionOnSet(f, S) = f[x] + SumFunctionOnSet(f, S \ {x})
<1> DEFINE sum(s) == SumFunctionOnSet(f, s)
           A == {s \in SUBSET S : \A x \in s : sum(s) = f[x] + sum(s \ {x})}
<1>1. /\ \A s \in SUBSET S : sum(s) = IF s = {} THEN 0 ELSE f[Some(s)] + sum(s \ {Some(s)})
      /\ \A s \in SUBSET S : sum(s) \in Int
  <2>1. \A s \in SUBSET S : IsFiniteSet(s)
    BY FS_Subset
  <2> QED
    BY <2>1, SumFirst, SumType
<1> HIDE DEF sum
<1>2. {} \in A
  OBVIOUS
<1>3. ASSUME NEW s \in SUBSET S, s # {}, \A x \in s : s \ {x} \in A
      PROVE  s \in A
  <2> DEFINE c == Some(s)
  <2>1. c \in s
    BY <1>3 DEF Some
  <2> HIDE DEF c
  <2>2. sum(s) = f[c] + sum(s \ {c}) /\ f[c] \in Int
    BY <1>1, <1>3, <2>1 DEF c
  <2>3. ASSUME NEW x \in s, x # c
        PROVE  sum(s) = f[x] + sum(s \ {x})
    <3> DEFINE rest == (s \ {c}) \ {x}
    <3>1. rest = (s \ {x}) \ {c} /\ x \in s \ {c} /\ c \in s \ {x}
      BY <2>1, <2>3
    <3>2. s \ {c} \in A /\ s \ {x} \in A
      BY <1>3, <2>1
    <3>3. sum(s \ {c}) = f[x] + sum(rest) /\ sum(s \ {x}) = f[c] + sum(rest)
      BY <3>1, <3>2
    <3>4. rest \in SUBSET S /\ f[x] \in Int
      OBVIOUS
    <3> HIDE DEF rest
    <3>5. sum(rest) \in Int
      BY <1>1, <3>4
    <3> QED
      BY <2>2, <3>3, <3>4, <3>5
  <2> QED
    BY <2>2, <2>3
<1> HIDE DEF A
<1>4. SUBSET S \subseteq A
  BY <1>2, <1>3, AllParts
<1>5. S \in A
  BY <1>4
<1> QED
  BY <1>5 DEF A, sum

\* A sum over the values of a one-to-one function is the sum over what it maps.
LEMMA SumOver ==
  ASSUME NEW S, IsFiniteSet(S), NEW h, NEW f, NEW k,
         \A x, y \in S : h[x] = h[y] => x = y,
         \A x \in S : f[h[x]] \in Int /\ k[x] = f[h[x]]
  PROVE  SumFunctionOnSet(f, {h[x] : x \in S}) = SumFunctionOnSet(k, S)
<1> DEFINE Values(s) == {h[x] : x \in s}
           A == {s \in SUBSET S : SumFunctionOnSet(f, Values(s)) = SumFunctionOnSet(k, s)}
<1>1. \A s \in SUBSET S : IsFiniteSet(s) /\ IsFiniteSet(Values(s))
  <2> SUFFICES ASSUME NEW s \in SUBSET S  PROVE IsFiniteSet(s) /\ IsFiniteSet(Values(s))
    OBVIOUS
  <2>1. IsFiniteSet(s)
    BY FS_Subset
  <2> DEFINE g == [x \in s |-> h[x]]
  <2>2. g = [x \in s |-> g[x]] /\ {g[x] : x \in s} = Values(s)
    OBVIOUS
  <2> HIDE DEF g, Values
  <2> QED
    BY <2>1, <2>2, ValuesFinite
<1>2. {} \in A
  <2>1. Values({}) = {} /\ IsFiniteSet({})
    BY FS_EmptySet
  <2>2. SumFunctionOnSet(f, {}) = 0 /\ SumFunctionOnSet(k, {}) = 0
    BY <2>1, SumFirst
  <2> QED
    BY <2>1, <2>2
<1>3. ASSUME NEW s \in SUBSET S, s # {}, \A x \in s : s \ {x} \in A
      PROVE  s \in A
  <2>1. PICK x \in s : TRUE
    BY <1>3
  <2>2. Values(s) \ {h[x]} = Values(s \ {x}) /\ h[x] \in Values(s)
    OBVIOUS
  <2>3. SumFunctionOnSet(f, Values(s \ {x})) = SumFunctionOnSet(k, s \ {x})
    BY <1>3
  <2>4. (\A v \in Values(s) : f[v] \in Int) /\ (\A y \in s : k[y] \in Int)
    OBVIOUS
  <2> HIDE DEF Values
  <2>5. SumFunctionOnSet(f, Values(s)) = f[h[x]] + SumFunctionOnSet(f, Values(s) \ {h[x]})
    BY <1>1, <2>2, <2>4, SumTake
  <2>6. SumFunctionOnSet(k, s) = k[x] + SumFunctionOnSet(k, s \ {x})
    BY <1>1, <2>4, SumTake
  <2> QED
    BY <2>2, <2>3, <2>5, <2>6
<1> HIDE DEF A
<1>4. SUBSET S \subseteq A
  BY <1>2, <1>3, AllParts
<1>5. S \in A
  BY <1>4
<1> QED
  BY <1>5 DEF A

-----------------------------------------------------------------------------
(* Rows of an export *)

\* What identifies the row of a trade in an export, and the like rows up to it.
IdOf(t, e) == [trade |-> world.trades[t], fee |-> IF t \in e.revised THEN 1 ELSE 0]
LikeOf(t, e) == {u \in Covered(e) : u <= t /\ IdOf(u, e) = IdOf(t, e)}

LEMMA RowIs ==
  ASSUME world \in Worlds, NEW e
  PROVE  /\ \A t : RowOf(t, e) =
              [id |-> IdOf(t, e), occ |-> Cardinality(LikeOf(t, e)), report |-> Original]
         /\ \A t : Execution(RowOf(t, e)) = <<IdOf(t, e), Cardinality(LikeOf(t, e))>>
         /\ \A t \in Covered(e) : IsFiniteSet(LikeOf(t, e)) /\ t \in LikeOf(t, e) /\ t \in Nat
<1>1. \A t : RowOf(t, e) =
        [id |-> IdOf(t, e), occ |-> Cardinality(LikeOf(t, e)), report |-> Original]
  BY DEF RowOf, IdOf, LikeOf
<1>2. IsFiniteSet(Covered(e)) /\ Covered(e) \subseteq Nat
  BY CoveredFinite
<1>3. ASSUME NEW t \in Covered(e)
      PROVE  IsFiniteSet(LikeOf(t, e)) /\ t \in LikeOf(t, e) /\ t \in Nat
  <2>1. LikeOf(t, e) \subseteq Covered(e)
    BY DEF LikeOf
  <2>2. t \in Nat /\ t <= t
    BY <1>2
  <2>3. t \in LikeOf(t, e)
    BY <2>2 DEF LikeOf
  <2> QED
    BY <1>2, <2>1, <2>2, <2>3, FS_Subset
<1> QED
  BY <1>1, <1>3 DEF Execution

\* Like trades of an export have different rows.
LEMMA RowsApart ==
  ASSUME world \in Worlds, NEW e
  PROVE  \A t, u \in Covered(e) : Execution(RowOf(t, e)) = Execution(RowOf(u, e)) => t = u
<1>1. /\ \A t : Execution(RowOf(t, e)) = <<IdOf(t, e), Cardinality(LikeOf(t, e))>>
      /\ \A t \in Covered(e) : IsFiniteSet(LikeOf(t, e)) /\ t \in LikeOf(t, e) /\ t \in Nat
  BY RowIs
<1>2. ASSUME NEW t \in Covered(e), NEW u \in Covered(e), IdOf(t, e) = IdOf(u, e), t < u
      PROVE  Cardinality(LikeOf(t, e)) # Cardinality(LikeOf(u, e))
  <2>1. t \in Nat /\ u \in Nat /\ \A x \in Covered(e) : x \in Nat
    BY <1>1
  <2>2. \A x \in LikeOf(t, e) : x \in LikeOf(u, e)
    BY <1>2, <2>1 DEF LikeOf
  <2>3. u \notin LikeOf(t, e)
    BY <1>2, <2>1 DEF LikeOf
  <2>4. LikeOf(t, e) \subseteq LikeOf(u, e) /\ LikeOf(t, e) # LikeOf(u, e)
    BY <1>1, <2>2, <2>3
  <2> QED
    BY <1>1, <2>4, FS_Subset
<1> SUFFICES ASSUME NEW t \in Covered(e), NEW u \in Covered(e), t # u,
                    Execution(RowOf(t, e)) = Execution(RowOf(u, e))
             PROVE  FALSE
  OBVIOUS
<1>3. IdOf(t, e) = IdOf(u, e) /\ Cardinality(LikeOf(t, e)) = Cardinality(LikeOf(u, e))
  BY <1>1
<1>4. t < u \/ u < t
  BY <1>1
<1> QED
  BY <1>2, <1>3, <1>4

-----------------------------------------------------------------------------
(* Shares *)

\* The shares that a set of executions adds up to.
Shares(E) == SumFunctionOnSet([x \in E |-> Signed(x[1].trade)], E)

LEMMA SignedInt ==
  /\ \A t \in Trade : Signed(t) \in Int /\ Signed(t) # 0
  /\ \A m \in Report : Signed(m) \in Int
BY DEF Signed, Trade, Report

\* Rows hold the shares of their executions.
LEMMA SharesOfRows ==
  ASSUME NEW rows, rows \subseteq CsvRow, IsFiniteSet(rows), OneRow(rows)
  PROVE  SumFunction([o \in rows |-> Signed(o.id.trade)]) = Shares(Executions(rows))
<1> DEFINE h == [o \in rows |-> Execution(o)]
           E == Executions(rows)
           f == [x \in E |-> Signed(x[1].trade)]
           k == [o \in rows |-> Signed(o.id.trade)]
<1>1. {h[o] : o \in rows} = E
  BY DEF Executions
<1>2. \A o, p \in rows : h[o] = h[p] => o = p
  BY DEF OneRow
<1>3. \A o \in rows : f[h[o]] \in Int /\ k[o] = f[h[o]]
  <2> SUFFICES ASSUME NEW o \in rows  PROVE f[h[o]] \in Int /\ k[o] = f[h[o]]
    OBVIOUS
  <2>1. h[o] \in E /\ h[o][1] = o.id
    BY <1>1 DEF Execution
  <2>2. o.id.trade \in Trade
    BY DEF CsvRow
  <2> QED
    BY <2>1, <2>2, SignedInt
<1> HIDE DEF h, E, f
<1>4. SumFunctionOnSet(f, {h[o] : o \in rows}) = SumFunctionOnSet(k, rows)
  <2> HIDE DEF k
  <2> QED
    BY <1>2, <1>3, SumOver
<1> QED
  BY <1>1, <1>4 DEF SumFunction, Shares, E, f

\* The rows of an export hold the shares of the trades it covers.
LEMMA SharesOfExport ==
  ASSUME world \in Worlds, NEW e
  PROVE  Shares(Executions(CsvRows(e))) =
           SumFunction([t \in Covered(e) |-> Signed(world.trades[t])])
<1> DEFINE C == Covered(e)
           h == [t \in C |-> Execution(RowOf(t, e))]
           E == Executions(CsvRows(e))
           f == [x \in E |-> Signed(x[1].trade)]
           k == [t \in C |-> Signed(world.trades[t])]
<1>1. {h[t] : t \in C} = E
  BY CsvRowsAre DEF Executions
<1>2. \A t, u \in C : h[t] = h[u] => t = u
  BY RowsApart
<1>3. \A t \in C : f[h[t]] \in Int /\ k[t] = f[h[t]]
  <2> SUFFICES ASSUME NEW t \in C  PROVE f[h[t]] \in Int /\ k[t] = f[h[t]]
    OBVIOUS
  <2>1. h[t] \in E /\ h[t] = Execution(RowOf(t, e))
    BY <1>1
  <2>1a. Execution(RowOf(t, e)) = <<IdOf(t, e), Cardinality(LikeOf(t, e))>>
    BY RowIs
  <2>1b. h[t][1].trade = world.trades[t]
    BY <2>1, <2>1a DEF IdOf
  <2>2. world.trades[t] \in Trade
    BY CoveredFinite
  <2> QED
    BY <2>1, <2>1b, <2>2, SignedInt
<1>4. IsFiniteSet(C)
  BY CoveredFinite
<1> HIDE DEF h, E, f, C
<1>5. SumFunctionOnSet(f, {h[t] : t \in C}) = SumFunctionOnSet(k, C)
  <2> HIDE DEF k
  <2> QED
    BY <1>2, <1>3, <1>4, SumOver
<1> QED
  BY <1>1, <1>5 DEF SumFunction, Shares, E, f, C

\* One execution more adds its shares.
LEMMA SharesAdd ==
  ASSUME NEW E, IsFiniteSet(E), NEW y, y \notin E, \A x \in E \union {y} : x[1].trade \in Trade
  PROVE  Shares(E \union {y}) = Shares(E) + Signed(y[1].trade) /\ Shares(E) \in Int
<1> DEFINE T == E \union {y}
           f == [x \in T |-> Signed(x[1].trade)]
           k == [x \in E |-> Signed(x[1].trade)]
<1>1. IsFiniteSet(T) /\ T \ {y} = E /\ y \in T
  BY FS_AddElement
<1>2. (\A x \in T : f[x] \in Int) /\ (\A x \in E : k[x] \in Int /\ f[x] = k[x])
  BY SignedInt
<1>3. f[y] = Signed(y[1].trade) /\ f[y] \in Int
  BY SignedInt
<1>4. Shares(T) = SumFunctionOnSet(f, T) /\ Shares(E) = SumFunctionOnSet(k, E)
  BY DEF Shares
<1> HIDE DEF T, f, k
<1>5. SumFunctionOnSet(f, T) = f[y] + SumFunctionOnSet(f, T \ {y})
  BY <1>1, <1>2, SumTake
<1>6. SumFunctionOnSet(f, E) = SumFunctionOnSet(k, E)
  BY <1>2, SumSame
<1>7. SumFunctionOnSet(k, E) \in Int
  <2>1. \A s \in SUBSET E : SumFunctionOnSet(k, s) \in Int
    BY <1>2, SumType
  <2> QED
    BY <2>1
<1>8. Shares(T) = Signed(y[1].trade) + Shares(E)
  BY <1>1, <1>3, <1>4, <1>5, <1>6
<1>9. Shares(E) \in Int /\ Signed(y[1].trade) \in Int
  BY <1>3, <1>4, <1>7
<1> HIDE DEF Shares
<1>10. Shares(T) = Shares(E) + Signed(y[1].trade)
  BY <1>8, <1>9
<1> QED
  BY <1>9, <1>10 DEF T

-----------------------------------------------------------------------------
(* A trade that was revised *)

\* A finite set of numbers has a largest one.
LEMMA Largest ==
  ASSUME NEW S, S \subseteq Nat, IsFiniteSet(S), S # {}
  PROVE  \E m \in S : \A n \in S : n <= m
<1> DEFINE A == {s \in SUBSET S : s = {} \/ \E m \in s : \A n \in s : n <= m}
<1>1. {} \in A
  OBVIOUS
<1>2. ASSUME NEW s \in SUBSET S, s # {}, \A x \in s : s \ {x} \in A
      PROVE  s \in A
  <2>1. PICK x \in s : TRUE
    BY <1>2
  <2>2. s \ {x} \in A /\ x \in Nat
    BY <1>2
  <2>3. CASE s \ {x} = {}
    <3>1. \A n \in s : n <= x
      BY <2>2, <2>3
    <3> QED
      BY <3>1
  <2>4. CASE s \ {x} # {}
    <3>1. PICK m \in s \ {x} : \A n \in s \ {x} : n <= m
      BY <2>2, <2>4
    <3>2. CASE x <= m
      BY <3>1, <3>2
    <3>3. CASE ~(x <= m)
      <4>1. m \in Nat /\ \A n \in s : n \in Nat
        OBVIOUS
      <4>2. \A n \in s : n <= x
        BY <2>2, <3>1, <3>3, <4>1
      <4> QED
        BY <4>2
    <3> QED
      BY <3>2, <3>3
  <2> QED
    BY <2>3, <2>4
<1> HIDE DEF A
<1>3. SUBSET S \subseteq A
  BY <1>1, <1>2, AllParts
<1>4. S \in A
  BY <1>3
<1> QED
  BY <1>4 DEF A

\* Two exports that differ in one revised trade have one execution more than
\* the one of them that revises nothing: like rows are numbered anew.
LEMMA OneMore ==
  ASSUME world \in Worlds, NEW a, NEW b, a.from = b.from, a.to = b.to, a.revised = {},
         NEW x \in Covered(a), b.revised = {x}
  PROVE  LET y == Execution(RowOf(x, b))
         IN  /\ Executions(CsvRows(b)) \subseteq Executions(CsvRows(a)) \union {y}
             /\ y \in Executions(CsvRows(b)) /\ y \notin Executions(CsvRows(a))
             /\ y[1].trade = world.trades[x]
<1> DEFINE C == Covered(a)
           y == Execution(RowOf(x, b))
<1>1. Covered(b) = C
  BY DEF Covered
<1>2. /\ \A p : p \in Executions(CsvRows(a)) <=> \E t \in C : p = Execution(RowOf(t, a))
      /\ \A p : p \in Executions(CsvRows(b)) <=> \E t \in C : p = Execution(RowOf(t, b))
  BY <1>1, CsvRowsAre DEF Executions
<1>3. /\ \A t : Execution(RowOf(t, a)) = <<IdOf(t, a), Cardinality(LikeOf(t, a))>>
      /\ \A t : Execution(RowOf(t, b)) = <<IdOf(t, b), Cardinality(LikeOf(t, b))>>
      /\ \A t \in C : IsFiniteSet(LikeOf(t, a)) /\ t \in LikeOf(t, a) /\ t \in Nat
  BY RowIs
<1>4. /\ \A t : IdOf(t, a) = [trade |-> world.trades[t], fee |-> 0]
      /\ \A t : t # x => IdOf(t, b) = [trade |-> world.trades[t], fee |-> 0]
      /\ IdOf(x, b) = [trade |-> world.trades[x], fee |-> 1]
  BY DEF IdOf
<1>5. /\ \A t \in C : LikeOf(t, a) = {u \in C : u <= t /\ IdOf(u, a) = IdOf(t, a)}
      /\ \A t \in C : LikeOf(t, b) = {u \in C : u <= t /\ IdOf(u, b) = IdOf(t, b)}
  BY <1>1 DEF LikeOf
<1> HIDE DEF C, y
<1>6. \A t, u : t # x /\ u # x => (IdOf(u, b) = IdOf(t, b) <=> IdOf(u, a) = IdOf(t, a))
  BY <1>4
<1>7. \A t : t # x => IdOf(t, b) = IdOf(t, a) /\ IdOf(x, b) # IdOf(t, b)
  <2>1. \A t : [trade |-> world.trades[x], fee |-> 1] # [trade |-> world.trades[t], fee |-> 0]
    <3> SUFFICES ASSUME NEW t,
                        [trade |-> world.trades[x], fee |-> 1] = [trade |-> world.trades[t], fee |-> 0]
                 PROVE  FALSE
      OBVIOUS
    <3>1. [trade |-> world.trades[x], fee |-> 1].fee = [trade |-> world.trades[t], fee |-> 0].fee
      OBVIOUS
    <3> QED
      BY <3>1
  <2> QED
    BY <1>4, <2>1
<1>8. x \in C
  BY DEF C
<1>9. y \notin Executions(CsvRows(a))
  <2> SUFFICES ASSUME NEW t \in C, y = Execution(RowOf(t, a))  PROVE FALSE
    BY <1>2
  <2>1. IdOf(x, b) = IdOf(t, a)
    BY <1>3 DEF y
  <2>2. IdOf(x, b).fee = 1 /\ IdOf(t, a).fee = 0
    BY <1>4
  <2> QED
    BY <2>1, <2>2
<1>10. ASSUME NEW t \in C, t # x
       PROVE  Execution(RowOf(t, b)) \in Executions(CsvRows(a))
  <2>1. CASE ~(x \in LikeOf(t, a))
    <3>1. \A u \in C : u \in LikeOf(t, b) <=> u \in LikeOf(t, a)
      BY <1>5, <1>6, <1>7, <1>8, <1>10, <2>1
    <3>2. LikeOf(t, b) = LikeOf(t, a)
      BY <1>5, <3>1
    <3>3. Execution(RowOf(t, b)) = Execution(RowOf(t, a))
      BY <1>3, <1>7, <1>10, <3>2
    <3> QED
      BY <1>2, <3>3
  <2>2. CASE x \in LikeOf(t, a)
    <3>1. LikeOf(t, b) = LikeOf(t, a) \ {x}
      <4>1. \A u \in C : u \in LikeOf(t, b) <=> u \in LikeOf(t, a) /\ u # x
        BY <1>5, <1>6, <1>7, <1>10
      <4> QED
        BY <1>5, <4>1
    <3>2. PICK p \in LikeOf(t, a) \ {t} : \A n \in LikeOf(t, a) \ {t} : n <= p
      <4>1. LikeOf(t, a) \ {t} \subseteq Nat
        BY <1>3, <1>5
      <4>2. IsFiniteSet(LikeOf(t, a) \ {t}) /\ LikeOf(t, a) \ {t} # {}
        BY <1>3, <1>10, <2>2, FS_Subset
      <4> QED
        BY <4>1, <4>2, Largest
    <3>3. p \in C /\ p \in Nat /\ t \in Nat /\ p < t /\ IdOf(p, a) = IdOf(t, a)
      BY <1>3, <1>5, <3>2
    <3>4. LikeOf(p, a) = LikeOf(t, a) \ {t}
      <4>1. \A u \in C : u \in LikeOf(p, a) <=> u \in LikeOf(t, a) /\ u # t
        <5> SUFFICES ASSUME NEW u \in C
                     PROVE  u \in LikeOf(p, a) <=> u \in LikeOf(t, a) /\ u # t
          OBVIOUS
        <5>1. u \in Nat
          BY <1>3
        <5>2. u \in LikeOf(p, a) <=> u <= p /\ IdOf(u, a) = IdOf(t, a)
          BY <1>5, <3>3
        <5>3. u \in LikeOf(t, a) <=> u <= t /\ IdOf(u, a) = IdOf(t, a)
          BY <1>5
        <5>4. u \in LikeOf(t, a) /\ u # t => u <= p
          BY <3>2
        <5> QED
          BY <3>3, <5>1, <5>2, <5>3, <5>4
      <4> QED
        BY <1>5, <3>3, <4>1
    <3>5. Cardinality(LikeOf(t, b)) = Cardinality(LikeOf(p, a))
      <4>1. IsFiniteSet(LikeOf(t, a)) /\ t \in LikeOf(t, a)
        BY <1>3
      <4>2. /\ Cardinality(LikeOf(t, a) \ {x}) = Cardinality(LikeOf(t, a)) - 1
            /\ Cardinality(LikeOf(t, a) \ {t}) = Cardinality(LikeOf(t, a)) - 1
        BY <2>2, <4>1, FS_RemoveElement
      <4> QED
        BY <3>1, <3>4, <4>2
    <3>6. Execution(RowOf(t, b)) = Execution(RowOf(p, a))
      BY <1>3, <1>7, <1>10, <3>3, <3>5
    <3> QED
      BY <1>2, <3>3, <3>6
  <2> QED
    BY <2>1, <2>2
<1>11. Executions(CsvRows(b)) \subseteq Executions(CsvRows(a)) \union {y}
  BY <1>2, <1>10 DEF y
<1>12. y \in Executions(CsvRows(b))
  BY <1>2, <1>8 DEF y
<1>13. y[1].trade = world.trades[x]
  BY <1>3, <1>4 DEF y
<1> QED
  BY <1>9, <1>11, <1>12, <1>13 DEF y

\* Rows of the days up to a day, beside reports that wait from then on, hold the
\* shares of their executions.
LEMMA HeldIs ==
  ASSUME NEW rows, rows \subseteq CsvRow, IsFiniteSet(rows), OneRow(rows), NEW day,
         \A o \in rows : o.id.trade.day <= day, NEW reports, \A m \in reports : ~(m.day <= day)
  PROVE  Held(rows, reports, day) = Shares(Executions(rows)) /\ Held(rows, reports, day) \in Int
<1> DEFINE until == {o \in rows : o.id.trade.day <= day}
           waiting == {m \in reports : m.day <= day}
           k == [o \in rows |-> Signed(o.id.trade)]
<1>1. until = rows /\ waiting = {}
  OBVIOUS
<1>2. SumFunction([m \in waiting |-> Signed(m)]) = 0
  <2>1. \A f : SumFunctionOnSet(f, {}) = 0
    BY SumFirst, FS_EmptySet
  <2> QED
    BY <1>1, <2>1 DEF SumFunction
<1>3. SumFunction(k) = Shares(Executions(rows))
  BY SharesOfRows
<1>4. SumFunction(k) \in Int
  <2>1. \A o \in rows : k[o] \in Int
    BY SignedInt DEF CsvRow
  <2> HIDE DEF k
  <2>2. \A s \in SUBSET rows : SumFunctionOnSet(k, s) \in Int
    BY <2>1, SumType
  <2>3. DOMAIN k = rows
    BY DEF k
  <2> QED
    BY <2>2, <2>3 DEF SumFunction
<1>5. Held(rows, reports, day) =
        SumFunction([o \in until |-> Signed(o.id.trade)]) + SumFunction([m \in waiting |-> Signed(m)])
  BY DEF Held
<1>6. Held(rows, reports, day) = SumFunction(k) + 0
  BY <1>1, <1>2, <1>5
<1> HIDE DEF k
<1> QED
  BY <1>3, <1>4, <1>6

\* An export that reaches back to the first trade adds up to the position.
LEMMA ExportHeld ==
  ASSUME world \in Worlds, NEW e, e.from = 1
  PROVE  /\ Covered(e) = Until(e.to)
         /\ Shares(Executions(CsvRows(e))) = Position(e.to) /\ Position(e.to) \in Int
         /\ Held(CsvRows(e), {}, e.to) = Position(e.to)
<1>1. \A t \in Trades : world.trades[t] \in Trade
  BY CoveredFinite
<1>2. Covered(e) = Until(e.to)
  <2>1. \A t \in Until(e.to) : world.trades[t].day >= e.from
    BY <1>1 DEF Until, Trade, Day
  <2> QED
    BY <2>1 DEF Covered
<1>3. Shares(Executions(CsvRows(e))) = Position(e.to)
  BY <1>2, SharesOfExport DEF Position
<1>4. CsvRows(e) \subseteq CsvRow /\ IsFiniteSet(CsvRows(e)) /\ OneRow(CsvRows(e))
  BY ExportOK DEF FileOK
<1>5. \A o \in CsvRows(e) : o.id.trade.day <= e.to
  <2> SUFFICES ASSUME NEW t \in Covered(e)  PROVE RowOf(t, e).id.trade.day <= e.to
    BY CsvRowsAre
  <2>1. RowOf(t, e).id.trade = world.trades[t]
    BY DEF RowOf
  <2>2. world.trades[t].day <= e.to
    BY DEF Covered, Until
  <2> QED
    BY <2>1, <2>2
<1>6. /\ Held(CsvRows(e), {}, e.to) = Shares(Executions(CsvRows(e)))
      /\ Held(CsvRows(e), {}, e.to) \in Int
  BY <1>4, <1>5, HeldIs
<1> QED
  BY <1>2, <1>3, <1>6

\* A trade that an accepted export shows and another one revises is not imported
\* a second time: the merged ledger would hold its shares twice.
LEMMA RevisionRefused ==
  ASSUME SchwabInv, NEW e \in exports, NEW g \in Exports, e.from = 1, g.from = 1, e.to = g.to,
         Executions(official) = Executions(CsvRows(e)), NEW x \in Covered(g),
         \/ e.revised = {} /\ g.revised = {x}
         \/ e.revised = {x} /\ g.revised = {},
         Position(g.to) # 0, snapshot <= g.to, ~Refused(official, CsvRows(g), manual, {})
  PROVE  LET r == Reconciled(official, CsvRows(g), manual, {})
         IN  HoldingsRefuse(g, r.official, r.manual)
<1> DEFINE new == CsvRows(g)
           r == Reconciled(official, new, manual, {})
           D == g.to
<1>1. world \in Worlds /\ \A t \in Trades : world.trades[t] \in Trade
  BY CoveredFinite DEF SchwabInv
<1>2. /\ Covered(g) = Until(D) /\ Covered(e) = Until(D)
      /\ Shares(Executions(new)) = Position(D) /\ Shares(Executions(CsvRows(e))) = Position(D)
      /\ Position(D) \in Int /\ Held(new, {}, D) = Position(D)
  BY <1>1, ExportHeld
<1>3. Merging(official, new, manual, {})
  BY <1>1, ExportOK DEF Merging, Accepted, SchwabInv
<1>4. /\ LedgerOK(r.official, r.manual)
      /\ Executions(r.official) = Executions(CsvRows(e)) \union Executions(new)
  BY <1>3, ReconciledOK
<1>5. /\ \A o \in r.official : \E t \in Until(D) : o.id.trade = world.trades[t]
      /\ \A t \in Until(D) : \E o \in r.official : o.id.trade = world.trades[t]
  <2>1. /\ \A p : p \in Executions(CsvRows(e)) <=> \E t \in Until(D) : p = Execution(RowOf(t, e))
        /\ \A p : p \in Executions(new) <=> \E t \in Until(D) : p = Execution(RowOf(t, g))
    BY <1>2, CsvRowsAre DEF Executions
  <2>2. \A t, f : Execution(RowOf(t, f))[1].trade = world.trades[t]
    BY DEF Execution, RowOf
  <2>3. \A o : Execution(o)[1] = o.id
    BY DEF Execution
  <2> HIDE DEF r, D, new
  <2>4. ASSUME NEW o \in r.official
        PROVE  \E t \in Until(D) : o.id.trade = world.trades[t]
    <3>1. Execution(o) \in Executions(CsvRows(e)) \union Executions(new)
      BY <1>4 DEF Executions
    <3> QED
      BY <2>1, <2>2, <2>3, <3>1
  <2>5. ASSUME NEW t \in Until(D)
        PROVE  \E o \in r.official : o.id.trade = world.trades[t]
    <3>1. Execution(RowOf(t, g)) \in Executions(r.official)
      BY <1>4, <2>1
    <3>2. PICK o \in r.official : Execution(o) = Execution(RowOf(t, g))
      BY <3>1 DEF Executions
    <3> QED
      BY <2>2, <2>3, <3>2
  <2> QED
    BY <2>4, <2>5
<1>6. \A o \in r.official : o.id.trade.day <= D
  BY <1>5 DEF Until
<1>7. ASSUME NEW m \in r.manual
      PROVE  ~(m.day <= D)
  <2>1. PICK n \in InLedger(official, manual) : Agree(m, n)
    <3>1. \A z \in InLedger(r.official, r.manual) :
            \E n \in InLedger(official, manual) \union {} : Agree(z, n)
      BY <1>3, ReconciledTells
    <3>2. m \in InLedger(r.official, r.manual)
      BY DEF InLedger
    <3> QED
      BY <3>1, <3>2
  <2>2. m.side = n.side /\ m.day = n.day /\ m.source = n.source
    BY <2>1 DEF Agree, Signature
  <2>3. /\ n.trade \in Trades
        /\ n.side = world.trades[n.trade].side /\ n.day = world.trades[n.trade].day
    BY <2>1, ReportOfTrade
  <2> SUFFICES ASSUME m.day <= D  PROVE FALSE
    OBVIOUS
  <2>4. n.trade \in Until(D)
    BY <2>2, <2>3 DEF Until
  <2>5. PICK o \in r.official : o.id.trade = world.trades[n.trade]
    BY <1>5, <2>4
  <2>6. o \in Scope(m, r.official)
    BY <2>2, <2>3, <2>5 DEF Scope, EligibleDates
  <2> QED
    BY <1>4, <2>6 DEF LedgerOK, Unscoped
<1>8. Held(r.official, r.manual, D) = Shares(Executions(r.official))
  <2>1. r.official \subseteq CsvRow /\ IsFiniteSet(r.official) /\ OneRow(r.official)
    BY <1>4 DEF LedgerOK
  <2> HIDE DEF r, D
  <2> QED
    BY <1>6, <1>7, <2>1, HeldIs
<1>9. Shares(Executions(r.official)) # Position(D)
  <2>1. ASSUME NEW a, NEW b, Covered(a) = Until(D), Covered(b) = Until(D), a.from = b.from, a.to = b.to,
               a.revised = {}, b.revised = {x}, Shares(Executions(CsvRows(a))) = Position(D),
               Executions(r.official) = Executions(CsvRows(a)) \union Executions(CsvRows(b))
        PROVE  Shares(Executions(r.official)) # Position(D)
    <3> DEFINE y == Execution(RowOf(x, b))
               E == Executions(CsvRows(a))
    <3>1. /\ Executions(CsvRows(b)) \subseteq E \union {y}
          /\ y \in Executions(CsvRows(b)) /\ y \notin E /\ y[1].trade = world.trades[x]
      BY <1>1, <1>2, <2>1, OneMore
    <3>2. Executions(r.official) = E \union {y}
      BY <2>1, <3>1
    <3>3. IsFiniteSet(E) /\ \A z \in E \union {y} : z[1].trade \in Trade
      <4>1. CsvRows(a) \subseteq CsvRow /\ IsFiniteSet(CsvRows(a))
        BY <1>1, ExportOK DEF FileOK
      <4>2. IsFiniteSet(E)
        BY <4>1, ExecutionsFinite
      <4>3. \A z \in E : z[1].trade \in Trade
        BY <4>1 DEF Executions, Execution, CsvRow
      <4>4. world.trades[x] \in Trade
        BY <1>1, <1>2 DEF Until
      <4> QED
        BY <3>1, <4>2, <4>3, <4>4
    <3> HIDE DEF y, E, r, D
    <3>4. Shares(E \union {y}) = Shares(E) + Signed(y[1].trade) /\ Shares(E) \in Int
      BY <3>1, <3>3, SharesAdd
    <3>5. Signed(y[1].trade) \in Int /\ Signed(y[1].trade) # 0
      BY <3>3, SignedInt
    <3>6. Shares(E) = Position(D)
      BY <2>1 DEF E
    <3> HIDE DEF Shares
    <3>7. Shares(E \union {y}) # Position(D)
      BY <3>4, <3>5, <3>6
    <3> QED
      BY <3>2, <3>7
  <2> HIDE DEF r
  <2>2. CASE e.revised = {} /\ g.revised = {x}
    BY <1>2, <1>4, <2>1, <2>2
  <2>3. CASE e.revised = {x} /\ g.revised = {}
    <3>1. Executions(r.official) = Executions(new) \union Executions(CsvRows(e))
      BY <1>4
    <3> QED
      BY <1>2, <2>1, <2>3, <3>1
  <2> QED
    BY <2>2, <2>3
<1> QED
  BY <1>2, <1>8, <1>9 DEF HoldingsRefuse

-----------------------------------------------------------------------------
(* Each trade once, revised or not *)

\* Of exports that show another fee of a trade the holdings check compares all.
Comparable(all) ==
  \A e, f \in all :
    /\ e.from = 1
    /\ \/ e.revised = f.revised
       \/ e.to = f.to /\ Position(e.to) # 0 /\ Cardinality(e.revised \union f.revised) = 1

\* The holdings check is made for each of those that were accepted, which show
\* the same rows.
RevisionInv ==
  /\ SchwabInv
  /\ snapshot = 0 \/ \E e \in exports : e.to = snapshot
  /\ Comparable(exports) =>
       \A e, f \in exports : e.revised = f.revised \/ CsvRows(e) = CsvRows(f)

\* Exports of the same days that revise the same of the trades they cover are alike.
LEMMA SameRows ==
  ASSUME NEW e, NEW f, e.from = f.from, e.to = f.to,
         \A t \in Covered(e) : t \in e.revised <=> t \in f.revised
  PROVE  CsvRows(e) = CsvRows(f) /\ Covered(e) = Covered(f)
<1>1. Covered(e) = Covered(f)
  BY DEF Covered
<1>2. \A t \in Covered(e) : RowOf(t, e) = RowOf(t, f)
  <2> SUFFICES ASSUME NEW t \in Covered(e)  PROVE RowOf(t, e) = RowOf(t, f)
    OBVIOUS
  <2>1. \A u \in Covered(e) : IdOf(u, e) = IdOf(u, f)
    BY DEF IdOf
  <2>2. LikeOf(t, e) = LikeOf(t, f)
    BY <1>1, <2>1 DEF LikeOf
  <2>3. /\ RowOf(t, e) = [id |-> IdOf(t, e), occ |-> Cardinality(LikeOf(t, e)), report |-> Original]
        /\ RowOf(t, f) = [id |-> IdOf(t, f), occ |-> Cardinality(LikeOf(t, f)), report |-> Original]
    BY DEF RowOf, IdOf, LikeOf
  <2> QED
    BY <2>1, <2>2, <2>3
<1>3. CsvRows(e) = {RowOf(t, e) : t \in Covered(e)} /\ CsvRows(f) = {RowOf(t, f) : t \in Covered(f)}
  BY CsvRowsAre
<1> QED
  BY <1>1, <1>2, <1>3

\* Comparable exports of which two differ are of the same days and revise one
\* trade or none.
LEMMA TwoRevisions ==
  ASSUME NEW all, all \subseteq Exports, Comparable(all),
         NEW e \in all, NEW f \in all, e.revised # f.revised
  PROVE  \E x :
           /\ \/ e.revised = {} /\ f.revised = {x}
              \/ e.revised = {x} /\ f.revised = {}
           /\ Position(e.to) # 0
           /\ \A h \in all : h.from = 1 /\ h.to = e.to /\ h.revised \in {e.revised, f.revised}
<1>1. \A h, k \in all :
        /\ h.from = 1
        /\ h.revised # k.revised =>
             h.to = k.to /\ Position(h.to) # 0 /\ \E z : h.revised \union k.revised = {z}
  <2> SUFFICES ASSUME NEW h \in all, NEW k \in all
               PROVE  /\ h.from = 1
                      /\ h.revised # k.revised =>
                           h.to = k.to /\ Position(h.to) # 0 /\ \E z : h.revised \union k.revised = {z}
    OBVIOUS
  <2>1. /\ h.from = 1
        /\ h.revised # k.revised =>
             h.to = k.to /\ Position(h.to) # 0 /\ Cardinality(h.revised \union k.revised) = 1
    BY DEF Comparable
  <2>2. IsFiniteSet(h.revised) /\ IsFiniteSet(k.revised)
    BY SchwabAssumption
  <2>3. IsFiniteSet(h.revised \union k.revised)
    BY <2>2, FS_Union
  <2>4. Cardinality(h.revised \union k.revised) = 1 => \E z : h.revised \union k.revised = {z}
    BY <2>3, OneElement
  <2> QED
    BY <2>1, <2>4
<1>2. PICK x : e.revised \union f.revised = {x}
  BY <1>1
<1>3. \/ e.revised = {} /\ f.revised = {x}
      \/ e.revised = {x} /\ f.revised = {}
  BY <1>2
<1>4. ASSUME NEW h \in all
      PROVE  h.from = 1 /\ h.to = e.to /\ h.revised \in {e.revised, f.revised}
  <2>1. h.from = 1 /\ e.to = f.to
    BY <1>1
  <2>2. h.to = e.to
    <3>1. CASE h.revised # e.revised
      BY <1>1, <3>1
    <3>2. CASE h.revised # f.revised
      BY <1>1, <2>1, <3>2
    <3> QED
      BY <3>1, <3>2
  <2>3. h.revised \in {e.revised, f.revised}
    <3> SUFFICES ASSUME h.revised # e.revised, h.revised # f.revised  PROVE FALSE
      OBVIOUS
    <3>1. (\E z : h.revised \union e.revised = {z}) /\ (\E z : h.revised \union f.revised = {z})
      BY <1>1
    <3>2. h.revised \union {x} = {x}
      BY <1>3, <3>1
    <3>3. h.revised = {} \/ h.revised = {x}
      BY <3>2
    <3> QED
      BY <1>3, <3>3
  <2> QED
    BY <2>1, <2>2, <2>3
<1>5. Position(e.to) # 0
  BY <1>1
<1> QED
  BY <1>3, <1>4, <1>5

LEMMA RevisionStart == SchwabInit => RevisionInv
BY SchwabStart DEF SchwabInit, RevisionInv

\* An accepted export leaves rows that the comparable exports show alike.
LEMMA RevisionExportStep ==
  ASSUME RevisionInv, NEW g \in Exports, ImportExport(g)
  PROVE  RevisionInv'
<1> DEFINE new == CsvRows(g)
           r == Reconciled(official, new, manual, {})
<1>1. /\ exports' = exports \union {g} /\ world' = world
      /\ ~Refused(official, new, manual, {}) /\ ~HoldingsRefuse(g, r.official, r.manual)
      /\ snapshot' = IF Position(g.to) # 0 THEN Max({snapshot, g.to}) ELSE snapshot
  BY DEF ImportExport
<1> HIDE DEF r, new
<1>2. SchwabInv /\ SchwabInv'
  BY ImportExportStep DEF RevisionInv
<1>3. exports \subseteq Exports /\ \A h \in Exports : h.to \in Nat
  BY <1>2, SchwabAssumption DEF SchwabInv
<1>4. snapshot' = 0 \/ \E e \in exports' : e.to = snapshot'
  <2>1. snapshot = 0 \/ \E e \in exports : e.to = snapshot
    BY DEF RevisionInv
  <2>2. snapshot \in Nat /\ g.to \in Nat
    BY <1>3, <2>1
  <2>3. Max({snapshot, g.to}) \in {snapshot, g.to}
    <3>1. \E z \in {snapshot, g.to} : \A y \in {snapshot, g.to} : z >= y
      BY <2>2
    <3> QED
      BY <3>1 DEF Max
  <2> QED
    BY <1>1, <2>1, <2>3
<1>5. /\ \A d : (Position(d))' = Position(d)
      /\ \A f : (CsvRows(f))' = CsvRows(f)
  BY <1>1 DEF Position, CsvRows, Covered, Until, Trades
<1>6. (Comparable(exports))' => Comparable(exports \union {g})
  BY <1>1, <1>5 DEF Comparable
<1>7. ASSUME Comparable(exports \union {g}), NEW e \in exports, e.revised # g.revised
      PROVE  CsvRows(e) = CsvRows(g)
  <2>1. PICK x :
          /\ \/ e.revised = {} /\ g.revised = {x}
             \/ e.revised = {x} /\ g.revised = {}
          /\ Position(e.to) # 0
          /\ \A h \in exports \union {g} :
               h.from = 1 /\ h.to = e.to /\ h.revised \in {e.revised, g.revised}
    <3> DEFINE all == exports \union {g}
    <3>1. all \subseteq Exports /\ Comparable(all) /\ e \in all /\ g \in all
      BY <1>3, <1>7
    <3>2. e.revised # g.revised
      BY <1>7
    <3> HIDE DEF all
    <3>3. \E x :
            /\ \/ e.revised = {} /\ g.revised = {x}
               \/ e.revised = {x} /\ g.revised = {}
            /\ Position(e.to) # 0
            /\ \A h \in all : h.from = 1 /\ h.to = e.to /\ h.revised \in {e.revised, g.revised}
      BY <3>1, <3>2, TwoRevisions
    <3> QED
      BY <3>3 DEF all
  <2>2. e.from = 1 /\ g.from = 1 /\ e.to = g.to
    BY <2>1
  <2>3. CASE x \notin Covered(e)
    <3>1. \A t \in Covered(e) : t \in e.revised <=> t \in g.revised
      BY <2>1, <2>3
    <3> QED
      BY <2>2, <3>1, SameRows
  <2>4. CASE x \in Covered(e) /\ CsvRows(e) # CsvRows(g)
    <3>1. Comparable(exports)
      BY <1>7 DEF Comparable
    <3>2. \A h \in exports : CsvRows(h) = CsvRows(e)
      <4> SUFFICES ASSUME NEW h \in exports  PROVE CsvRows(h) = CsvRows(e)
        OBVIOUS
      <4>1. h.revised = e.revised \/ CsvRows(h) = CsvRows(e)
        BY <3>1 DEF RevisionInv
      <4>2. h.from = e.from /\ h.to = e.to
        BY <2>1
      <4> QED
        BY <4>1, <4>2, SameRows
    <3>3. Executions(official) = Executions(CsvRows(e))
      <4>1. UNION {CsvRows(h) : h \in exports} = CsvRows(e)
        BY <3>2
      <4> QED
        BY <1>2, <4>1 DEF SchwabInv
    <3>4. snapshot <= g.to
      <4>1. snapshot = 0 \/ snapshot = g.to
        BY <2>1, <2>2 DEF RevisionInv
      <4> QED
        BY <1>3, <4>1
    <3>5. x \in Covered(g)
      BY <2>2, <2>4 DEF Covered
    <3>6. HoldingsRefuse(g, r.official, r.manual)
      BY <1>1, <1>2, <2>1, <2>2, <3>3, <3>4, <3>5, RevisionRefused DEF r, new
    <3> QED
      BY <1>1, <3>6
  <2> QED
    BY <2>3, <2>4
<1>8. ASSUME Comparable(exports \union {g}), NEW e \in exports \union {g}, NEW f \in exports \union {g}
      PROVE  e.revised = f.revised \/ CsvRows(e) = CsvRows(f)
  <2>1. Comparable(exports)
    BY <1>8 DEF Comparable
  <2>2. CASE e \in exports /\ f \in exports
    BY <2>1, <2>2 DEF RevisionInv
  <2>3. CASE e = g \/ f = g
    BY <1>7, <1>8, <2>3
  <2> QED
    BY <2>2, <2>3
<1>9. (Comparable(exports))' =>
        \A e, f \in exports' : e.revised = f.revised \/ (CsvRows(e))' = (CsvRows(f))'
  BY <1>1, <1>5, <1>6, <1>8
<1> QED
  BY <1>2, <1>4, <1>9 DEF RevisionInv

\* A workbook is of no export, and no import changes what happened.
LEMMA RevisionOtherStep ==
  ASSUME RevisionInv, SchwabInv', exports' = exports, world' = world, snapshot' = snapshot
  PROVE  RevisionInv'
<1>1. /\ \A d : (Position(d))' = Position(d)
      /\ \A f : (CsvRows(f))' = CsvRows(f)
  BY DEF Position, CsvRows, Covered, Until, Trades
<1>2. (Comparable(exports))' => Comparable(exports)
  BY <1>1 DEF Comparable
<1>3. (Comparable(exports))' =>
        \A e, f \in exports' : e.revised = f.revised \/ (CsvRows(e))' = (CsvRows(f))'
  BY <1>1, <1>2 DEF RevisionInv
<1> QED
  BY <1>3 DEF RevisionInv

\* However many files are imported, comparable exports that were accepted show
\* the same rows, or revise the same trades.
THEOREM RevisionInvariant == SchwabSpec => []RevisionInv
<1>1. SchwabInit => RevisionInv
  BY RevisionStart
<1>2. RevisionInv /\ SchwabInv' /\ [SchwabNext]_schwabVars => RevisionInv'
  <2> SUFFICES ASSUME RevisionInv, SchwabInv', [SchwabNext]_schwabVars  PROVE RevisionInv'
    OBVIOUS
  <2>1. CASE \E e \in Exports : ImportExport(e)
    BY <2>1, RevisionExportStep
  <2>2. CASE \E b \in world.books : ImportBook(b)
    BY <2>2, RevisionOtherStep DEF ImportBook
  <2>3. CASE UNCHANGED schwabVars
    BY <2>3, RevisionOtherStep DEF schwabVars
  <2> QED
    BY <2>1, <2>2, <2>3 DEF SchwabNext
<1> QED
  BY <1>1, <1>2, SchwabInvariant, PTL DEF SchwabSpec

\* Comparable exports that were accepted show each trade once.
LEMMA RevisionsCounted == RevisionInv => RevisionsCaught
<1> SUFFICES ASSUME RevisionInv, Comparable(exports)  PROVE RowsCount
  BY DEF RevisionsCaught, Comparable
<1>1. SchwabInv /\ world \in Worlds /\ exports \subseteq Exports
  BY DEF RevisionInv, SchwabInv
<1>2. \A e \in exports : e.from = 1
  BY DEF Comparable
<1>3. CASE \A e, f \in exports : e.revised = f.revised
  <2>1. Cardinality(official) = Cardinality(UNION {Covered(e) : e \in exports})
    BY <1>1, <1>2, <1>3, RowsOfTrades
  <2> QED
    BY <1>1, <1>2, <2>1, RowsCounted
<1>4. CASE ~ \A e, f \in exports : e.revised = f.revised
  <2>1. PICK e \in exports, f \in exports : e.revised # f.revised
    BY <1>4
  <2>2. \A h \in exports : h.from = 1 /\ h.to = e.to /\ h.revised \in {e.revised, f.revised}
    BY <1>1, <2>1, TwoRevisions
  <2>3. CsvRows(e) = CsvRows(f)
    BY <2>1 DEF RevisionInv
  <2>4. \A h \in exports : CsvRows(h) = CsvRows(e) /\ Covered(h) = Covered(e)
    <3> SUFFICES ASSUME NEW h \in exports  PROVE CsvRows(h) = CsvRows(e) /\ Covered(h) = Covered(e)
      OBVIOUS
    <3>1. h.from = e.from /\ h.to = e.to /\ f.from = e.from /\ f.to = e.to
      BY <2>2
    <3>2. Covered(h) = Covered(e)
      BY <3>1 DEF Covered
    <3>3. h.revised = e.revised \/ h.revised = f.revised
      BY <2>2
    <3> QED
      BY <2>3, <3>1, <3>2, <3>3, SameRows
  <2>5. Executions(official) = Executions(CsvRows(e))
    <3>1. UNION {CsvRows(h) : h \in exports} = CsvRows(e)
      BY <2>4
    <3> QED
      BY <1>1, <3>1 DEF SchwabInv
  <2>6. UNION {Covered(h) : h \in exports} = Covered(e)
    BY <2>4
  <2>7. Cardinality(Executions(CsvRows(e))) = Cardinality(Covered(e))
    <3> DEFINE h == [t \in Covered(e) |-> Execution(RowOf(t, e))]
    <3>1. h = [t \in Covered(e) |-> h[t]] /\ {h[t] : t \in Covered(e)} = Executions(CsvRows(e))
      BY CsvRowsAre DEF Executions
    <3>2. \A t, u \in Covered(e) : h[t] = h[u] => t = u
      BY <1>1, RowsApart
    <3>3. IsFiniteSet(Covered(e))
      BY <1>1, CoveredFinite
    <3> HIDE DEF h
    <3> QED
      BY <3>1, <3>2, <3>3, ValuesFinite
  <2>8. Cardinality(official) = Cardinality(UNION {Covered(h) : h \in exports})
    BY <1>1, <2>5, <2>6, <2>7, OnePerExecution
  <2> QED
    BY <1>1, <1>2, <2>8, RowsCounted
<1> QED
  BY <1>3, <1>4

\* After any number of imports each trade is counted once although an export
\* shows another fee of it, where the holdings check compares the two.
THEOREM RevisionsCaughtAlways == SchwabSpec => []RevisionsCaught
BY RevisionsCounted, RevisionInvariant, PTL
=============================================================================
