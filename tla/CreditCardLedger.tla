-------------------------- MODULE CreditCardLedger --------------------------
(***************************************************************************)
(* The credit-card ledger of one account (credit_cards.sqlite3): account   *)
(* pages pasted in the browser, statement PDFs and transaction CSVs are    *)
(* merged into one list of transactions.  Importers are request threads    *)
(* and maintenance processes; a thread lock and a file lock of the ledger  *)
(* let one of them in at a time.                                           *)
(*                                                                         *)
(* A document is a set of rows.  The match key of a row (account, card,    *)
(* kind, currency, amount, normalised description) is one value; amounts,  *)
(* wording, posting dates and optional details are left out.  What a       *)
(* document shows is chosen when it is first submitted.                    *)
(***************************************************************************)
EXTENDS Integers, Sequences, FiniteSets, FiniteSetsExt, Functions

CONSTANTS Importers,   \* request threads and maintenance runs
          Nobody,      \* holds no lock
          Pages,       \* account pages
          Statements,  \* monthly statement PDFs
          Csvs,        \* transaction CSVs
          Webpage,     \* the origin of every page row's identity
          Days,        \* transaction dates, as day numbers
          Keys,        \* match keys
          MaxOcc,      \* bound: like transactions on one day
          MaxRows,     \* bound: rows of a document
          MaxBundle,   \* bound: files of a bundle
          MaxImports,  \* bound: imports submitted
          MaxFaults    \* bound: failed writes and kills

ASSUME CardAssumption ==
  /\ Nobody \notin Importers
  /\ Pages \intersect (Statements \union Csvs) = {}
  /\ Statements \intersect Csvs = {}
  /\ Webpage \notin Statements \union Csvs
  /\ Days \subseteq Nat
  /\ {MaxOcc, MaxRows, MaxImports, MaxFaults} \subseteq Nat
  /\ MaxBundle \in Nat \ {0}

Files == Statements \union Csvs
Documents == Pages \union Files
Status == {"pending", "posted"}

VARIABLES shown,    \* the rows of every document submitted so far
          ledger,   \* the committed ledger: transactions and captures
          lock,     \* the importer inside the ledger lock
          pc,       \* where each importer is
          mine,     \* its bundle, and its merged ledger
          imports,  \* imports submitted so far
          faults    \* failed writes and kills so far

vars == <<shown, ledger, lock, pc, mine, imports, faults>>

Row == [day : Days, key : Keys, occ : 1..MaxOcc, status : Status]

Slots == Days \X Keys
Slot(r) == <<r.day, r.key>>
In(rows, s) == {r \in rows : Slot(r) = s}

\* Documents the parsers accept: occurrences number the rows of a slot from
\* one, and a page never shows one slot both pending and posted.
Readable ==
  {rows \in SUBSET Row :
     /\ rows # {} /\ IsFiniteSet(rows) /\ Cardinality(rows) <= MaxRows
     /\ \A s \in Slots :
          /\ {r.occ : r \in In(rows, s)} = 1..Cardinality(In(rows, s))
          /\ Cardinality({r.status : r \in In(rows, s)}) <= 1}

AllPosted == {rows \in Readable : \A r \in rows : r.status = "posted"}

Contents(d) == IF d \in Pages THEN Readable ELSE AllPosted

\* Row identities: a digest of what a page row says, or a row of one file.
Id(d, r) == <<IF d \in Pages THEN Webpage ELSE d, r.day, r.key, r.occ>>

Ids(d) == {Id(d, r) : r \in shown[d]}

Empty == [rows |-> {}, captures |-> <<>>]
Sources(book) == Range(book.captures)

Nothing == [bundle |-> <<>>, merged |-> Empty]

Init ==
  /\ shown = << >>
  /\ ledger = Empty
  /\ lock = Nobody
  /\ pc = [i \in Importers |-> "idle"]
  /\ mine = [i \in Importers |-> Nothing]
  /\ imports = 0
  /\ faults = 0

\* How many records, and how many posted ones, each slot has.
Tally(rows) ==
  [s \in Slots |-> [all    |-> Cardinality(In(rows, s)),
                    posted |-> Cardinality({r \in In(rows, s) : r.status = "posted"})]]

-----------------------------------------------------------------------------
(* Merging one document *)

\* Pending and posted rows of one key, one to seven days apart.
CrossDateMatch(r, q) ==
  /\ r.key = q.key
  /\ r.status = "pending" /\ q.status = "posted"
  /\ q.day - r.day \in 1..7

EitherWay(r, q) == CrossDateMatch(r, q) \/ CrossDateMatch(q, r)

\* How many like rows come before r.
Rank(r, rows) == Cardinality({q \in In(rows, Slot(r)) : q.occ < r.occ})

Known(book, d, r) == {t \in book.rows : Id(d, r) \in t.ids}

\* Mutant of Consumed: records that rows already stand for are free again.
NoneConsumed(book, d) == {}

\* The records that rows of the document already stand for.
Consumed(book, d) == UNION {Known(book, d, q) : q \in shown[d]}

\* Files, and pages once the ledger has evidence from files, also match rows
\* of the same date and key: unmatched rows in their order with the records no
\* row has consumed, the lowest occurrence first.
ByDateAndKey(book, d, r) ==
  LET unmatched == {q \in shown[d] : Known(book, d, q) = {}}
      free == In(book.rows \ Consumed(book, d), Slot(r))
  IN  IF d \in Files \/ \E t \in book.rows : t.sources \intersect Files # {}
        THEN {t \in free : Rank(t, free) = Rank(r, unmatched)}
        ELSE {}

Match(book, d, r) ==
  IF Known(book, d, r) # {} THEN Known(book, d, r) ELSE ByDateAndKey(book, d, r)

\* Mutant of Ambiguous: the rows of the document are not compared.
AmbiguousAgainstLedger(book, d) ==
  \E r \in shown[d] : Match(book, d, r) = {} /\ \E t \in book.rows : EitherWay(r, t)

\* A pending and a posted row may be one purchase: the document is refused.
Ambiguous(book, d) ==
  \/ \E r \in shown[d] : Match(book, d, r) = {} /\ \E t \in book.rows : EitherWay(r, t)
  \/ \E r, q \in shown[d] : CrossDateMatch(r, q)

\* The record t with the rows that match it: evidence is kept, pending becomes
\* posted, and nothing turns a posted record back.
Absorb(t, d, hits) ==
  LET news == {r \in hits : t.status = "pending" /\ r.status = "posted"}
  IN  [t EXCEPT !.ids = @ \union {Id(d, r) : r \in hits},
                !.sources = IF hits = {} THEN @ ELSE @ \union {d},
                !.status = IF news = {} THEN @ ELSE "posted",
                !.occ = IF news = {} THEN @ ELSE (CHOOSE r \in news : TRUE).occ]

Record(d, r) ==
  [id |-> Id(d, r), day |-> r.day, key |-> r.key, occ |-> r.occ, status |-> r.status,
   ids |-> {Id(d, r)}, sources |-> {d}]

\* Mutant of Capture: a document is captured each time it is imported.
CaptureAgain(book, d) == Append(book.captures, d)

Capture(book, d) ==
  IF d \in Sources(book) THEN book.captures ELSE Append(book.captures, d)

\* _merge_capture of a document that is not ambiguous.
Merge(book, d) ==
  [rows     |-> {Absorb(t, d, {r \in shown[d] : t \in Match(book, d, r)}) : t \in book.rows}
                \union {Record(d, r) : r \in {q \in shown[d] : Match(book, d, q) = {}}},
   captures |-> Capture(book, d)]

-----------------------------------------------------------------------------
(* _validate_ledger *)

\* The rows of the document d that the record t stands for.
Attested(t, d) == {r \in shown[d] : Id(d, r) \in t.ids}

ValidRecord(book, t) ==
  LET evidence == UNION {Attested(t, d) : d \in t.sources}
  IN  /\ t.id \in t.ids
      /\ t.sources # {} /\ t.sources \subseteq Sources(book)
      /\ \A d \in t.sources : Cardinality(Attested(t, d)) = 1
      /\ t.ids = UNION {{Id(d, r) : r \in Attested(t, d)} : d \in t.sources}
      /\ \A r \in evidence : Slot(r) = Slot(t)
      /\ t.status = IF \E r \in evidence : r.status = "posted" THEN "posted" ELSE "pending"
      /\ \E r \in evidence : r.status = t.status /\ r.occ = t.occ

Valid(book) ==
  /\ book.captures # <<>> => Sources(book) \ Csvs # {}
  /\ \A t \in book.rows : ValidRecord(book, t)
  /\ \A t, u \in book.rows : t.ids \intersect u.ids # {} => t = u
  /\ UNION {t.ids : t \in book.rows} = UNION {Ids(d) : d \in Sources(book)}

-----------------------------------------------------------------------------
(* Importing *)

Goto(i, l) == pc' = [pc EXCEPT ![i] = l]

Leave(i) ==
  /\ Goto(i, "idle")
  /\ mine' = [mine EXCEPT ![i] = Nothing]
  /\ lock' = IF lock = i THEN Nobody ELSE lock

\* One page, or files: statements first, then CSVs.
Bundles ==
  {<<p>> : p \in Pages}
  \union {b \in UNION {[1..n -> Files] : n \in 1..MaxBundle} :
            \A m, n \in DOMAIN b : m < n => b[m] # b[n] /\ (b[m] \in Csvs => b[n] \in Csvs)}

\* A page is pasted, or a bundle of files is submitted.
Submit(i) ==
  /\ pc[i] = "idle"
  /\ imports < MaxImports
  /\ imports' = imports + 1
  /\ \E b \in Bundles :
       /\ \E new \in [Range(b) \ DOMAIN shown -> Contents(b[1])] :
            shown' = [d \in DOMAIN shown \union DOMAIN new |->
                        IF d \in DOMAIN new THEN new[d] ELSE shown[d]]
       /\ mine' = [mine EXCEPT ![i].bundle = b]
  /\ Goto(i, "submitted")
  /\ UNCHANGED <<ledger, lock, faults>>

\* A CSV belongs to the account of a statement it comes with, or of a page or
\* statement the ledger retains.
Bound(b) ==
  Range(b) \subseteq Csvs => Sources(ledger) \ Csvs # {}

\* Mutant of Load: the ledger is read before the lock.
LoadEarly(i) ==
  /\ pc[i] = "submitted"
  /\ lock' = lock
  /\ \/ ~Bound(mine[i].bundle) /\ Goto(i, "review") /\ UNCHANGED mine
     \/ /\ Bound(mine[i].bundle) /\ Goto(i, "merging")
        /\ mine' = [mine EXCEPT ![i].merged = ledger]
  /\ UNCHANGED <<shown, ledger, imports, faults>>

\* Inside the lock: the ledger is loaded, and the bundle bound to its account.
Load(i) ==
  /\ pc[i] = "submitted"
  /\ lock = Nobody /\ lock' = i
  /\ \/ ~Bound(mine[i].bundle) /\ Goto(i, "review") /\ UNCHANGED mine
     \/ /\ Bound(mine[i].bundle) /\ Goto(i, "merging")
        /\ mine' = [mine EXCEPT ![i].merged = ledger]
  /\ UNCHANGED <<shown, ledger, imports, faults>>

\* One round of _merge_file_captures, in memory: it stops at the first document
\* that is ambiguous, or that makes a ledger _validate_ledger refuses.  A ledger
\* that the bundle has not changed is not written.
MergeNext(i) ==
  LET d == Head(mine[i].bundle)
      rest == Tail(mine[i].bundle)
      merged == Merge(mine[i].merged, d)
  IN  /\ pc[i] = "merging"
      /\ \/ Ambiguous(mine[i].merged, d) /\ Goto(i, "review") /\ UNCHANGED mine
         \/ /\ ~Ambiguous(mine[i].merged, d) /\ ~Valid(merged)
            /\ Goto(i, "damaged") /\ UNCHANGED mine
         \/ /\ ~Ambiguous(mine[i].merged, d) /\ Valid(merged)
            /\ Goto(i, CASE rest # <<>> -> "merging"
                         [] rest = <<>> /\ merged = ledger -> "readback"
                         [] rest = <<>> /\ merged # ledger -> "write")
            /\ mine' = [mine EXCEPT ![i] = [bundle |-> rest, merged |-> merged]]
      /\ UNCHANGED <<shown, ledger, lock, imports, faults>>

\* _atomic_write: one transaction of the document store.
Write(i) ==
  /\ pc[i] = "write"
  /\ ledger' = mine[i].merged
  /\ Goto(i, "readback")
  /\ UNCHANGED <<shown, lock, mine, imports, faults>>

\* The ledger is loaded again, and compared with what was merged.
Readback(i) ==
  /\ pc[i] = "readback"
  /\ IF ledger = mine[i].merged
       THEN Leave(i)
       ELSE Goto(i, "damaged") /\ UNCHANGED <<lock, mine>>
  /\ UNCHANGED <<shown, ledger, imports, faults>>

\* The import is answered with a refusal or an error.
Refuse(i) ==
  /\ pc[i] \in {"review", "damaged"}
  /\ Leave(i)
  /\ UNCHANGED <<shown, ledger, imports, faults>>

\* The write fails, or the importer is killed; the operating system releases
\* the file lock.
Fail(i) ==
  /\ faults < MaxFaults
  /\ faults' = faults + 1
  /\ pc[i] \in {"merging", "write", "readback"}
  /\ Leave(i)
  /\ UNCHANGED <<shown, ledger, imports>>

Next ==
  \E i \in Importers :
    Submit(i) \/ Load(i) \/ MergeNext(i) \/ Write(i) \/ Readback(i) \/ Refuse(i) \/ Fail(i)

Spec == Init /\ [][Next]_vars

-----------------------------------------------------------------------------
(* Properties *)

\* Type of the state.
TypeOK ==
  /\ DOMAIN shown \subseteq Documents
  /\ \A d \in DOMAIN shown : shown[d] \in Contents(d)
  /\ \A t \in ledger.rows : t.day \in Days /\ t.key \in Keys /\ t.status \in Status
  /\ Sources(ledger) \subseteq DOMAIN shown
  /\ lock \in Importers \union {Nobody}
  /\ pc \in [Importers -> {"idle", "submitted", "merging", "write", "readback", "review", "damaged"}]
  /\ imports \in 0..MaxImports
  /\ faults \in 0..MaxFaults

\* No mix of readable documents, in any order, with any failure, makes a
\* ledger that _validate_ledger refuses: neither the one on disk nor a merge
\* in progress, and no readback differs from what was written.
NothingDamaged ==
  /\ Valid(ledger)
  /\ \A i \in Importers : pc[i] # "damaged"

\* "Ambiguous matches fail closed" (docs/ARCHITECTURE.md): a pending and a
\* posted record that may be one purchase are both in the ledger only when the
\* posted one was itself seen pending on its own date.
AmbiguityRefused ==
  \A t, u \in ledger.rows :
    CrossDateMatch(t, u) =>
      \E d \in u.sources : \E r \in Attested(u, d) : r.status = "pending"

\* Importing a retained document again is accepted and changes nothing.
ReplayChangesNothing ==
  \A d \in Sources(ledger) : ~Ambiguous(ledger, d) /\ Merge(ledger, d) = ledger

\* What one import may show: the most that the documents of a bundle show.
Bundled ==
  LET tallies == {Tally(rows) : rows \in Readable}
  IN  {[s \in Slots |-> [all    |-> Max({docs[k][s].all : k \in 1..MaxBundle}),
                        posted |-> Max({docs[k][s].posted : k \in 1..MaxBundle})]] :
         docs \in [1..MaxBundle -> tallies]}

Book == INSTANCE CardBook WITH
  Evidence <- Bundled,
  recorded <- Tally(ledger.rows)

\* The ledger is the least record that covers every imported document: bundles
\* are atomic, no importer undoes another's, and one purchase that several
\* documents show is one record.
RefinesCardBook == Book!Spec

\* "Cross-source matching preserves source-row aliases and occurrence
\* multiplicity" (docs/ARCHITECTURE.md): statements cover disjoint posting
\* periods, so each row of each retained statement is a record of its own.
StatementsAddUp ==
  LET statementRows ==
        UNION {{<<d, r>> : r \in shown[d]} : d \in Sources(ledger) \intersect Statements}
  IN  Cardinality({t \in ledger.rows : t.status = "posted"}) >= Cardinality(statementRows)
=============================================================================
