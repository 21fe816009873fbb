---------------------------- MODULE SchwabTrades ----------------------------
(***************************************************************************)
(* Trades of one Schwab account and ticker: rows of manual workbooks, which *)
(* report a trade before the broker does, and rows of the broker's CSV     *)
(* exports, which replace them (merge/schwab_provisional.py, the merge of  *)
(* merge/reconciliation.py and merge/schwab_position_validation.py).       *)
(*                                                                         *)
(* Imports run one at a time, and one that is refused changes nothing      *)
(* (InvestmentLedger).  A trade is a day of the broker's calendar, a side, *)
(* a quantity and a price; what the broker may revise beside them, fee and *)
(* net amount, is one number.  Exports tell days, not times.  A workbook   *)
(* row has a reference, its day in the ledger and its day in Hong Kong,    *)
(* which may be the next one.  Positions are those at the end of a day.    *)
(* Links of older versions, without an archived row, are left out.         *)
(***************************************************************************)
EXTENDS Integers, FiniteSets, Sequences, FiniteSetsExt

CONSTANTS
  Worlds,   \* what happened, and the workbooks about it: [trades, books]
  Exports,  \* the CSV exports: [from, to : days, revised : trades with a new fee]
  Original  \* of a CSV row that replaced no report

Day == Nat \ {0}
Side == {"buy", "sell"}
Trade == [day : Day, side : Side, quantity : Nat \ {0}, price : Nat]

\* A row of a workbook.
Report ==
  [ref : Nat, book : Nat, trade : Nat, side : Side, quantity : Nat,
   day : Day, source : Day, price : Nat, limit : BOOLEAN]

\* A reference names one trade, which no other does, and one row of a workbook.
\* In Hong Kong it is the day of the trade or the next.  A file is finite.
ASSUME SchwabAssumption ==
  /\ Original \notin Report
  /\ Exports \subseteq [from : Day, to : Nat, revised : SUBSET Nat]
  /\ \A e \in Exports : IsFiniteSet(e.revised)
  /\ \A w \in Worlds :
       /\ w.trades \in Seq(Trade)
       /\ \A b \in w.books : IsFiniteSet(b) /\ b \subseteq Report
       /\ \A m \in UNION w.books :
            /\ m.trade \in DOMAIN w.trades
            /\ m.side = w.trades[m.trade].side /\ m.day = w.trades[m.trade].day
            /\ m.source \in {m.day, m.day + 1}
       /\ \A m, n \in UNION w.books : m.ref = n.ref <=> m.trade = n.trade
       /\ \A b \in w.books : \A m, n \in b : m.ref = n.ref => m = n

VARIABLES
  world,     \* the trades and workbooks of this behaviour
  official,  \* CSV rows of the ledger: [id, occ, report]
  manual,    \* workbook rows of the ledger
  snapshot,  \* day of the selected Positions file
  exports,   \* CSV exports accepted so far
  books      \* workbooks accepted so far

schwabVars == <<world, official, manual, snapshot, exports, books>>

Trades == DOMAIN world.trades
Until(day) == {t \in Trades : world.trades[t].day <= day}
Covered(export) == {t \in Until(export.to) : world.trades[t].day >= export.from}

\* The rows of an export; like ones are numbered.
CsvRows(export) ==
  LET Id(t) == [trade |-> world.trades[t], fee |-> IF t \in export.revised THEN 1 ELSE 0]
      Like(t) == {u \in Covered(export) : u <= t /\ Id(u) = Id(t)}
  IN  {[id |-> Id(t), occ |-> Cardinality(Like(t)), report |-> Original] : t \in Covered(export)}

Linked(rows) == {o \in rows : o.report # Original}
LinkedTo(rows, ref) == {o \in Linked(rows) : o.report.ref = ref}

SchwabInit ==
  /\ world \in Worlds
  /\ official = {} /\ manual = {} /\ snapshot = 0
  /\ exports = {} /\ books = {}

-----------------------------------------------------------------------------
(* Reconciliation of a ledger with the rows of a file: old and new are CSV *)
(* rows, reports are workbook rows of either                               *)

\* A row of the ledger and the like row of the file are one execution.
Execution(o) == <<o.id, o.occ>>
Executions(rows) == {Execution(o) : o \in rows}

EligibleDates(m) == {m.day, m.source}
LinkedDates(o) == {o.id.trade.day} \union EligibleDates(o.report)

SameFill(r, s) == <<r.side, r.quantity, r.price>> = <<s.side, s.quantity, s.price>>

\* Near a replaced report there is a second execution of its economics, or one
\* of the two sides shows trades but not the one that replaced it.
Conflicting(old, new) ==
  LET Near(o, rows) == {q \in rows : /\ q.id.trade.side = o.id.trade.side
                                     /\ q.id.trade.day \in LinkedDates(o)}
      Twice(o) == {q \in Near(o, old \union new) : SameFill(q.id.trade, o.id.trade)}
      Lost(o, rows) == Near(o, rows) # {} /\ \A q \in Near(o, rows) : q.id # o.id
  IN  \/ \E o \in Linked(old \union new) : Cardinality(Executions(Twice(o))) > 1
      \/ \E o \in Linked(old) : Lost(o, new)
      \/ \E o \in Linked(new) : Lost(o, old)

\* What the rows of one reference must agree on.
Signature(m) == <<m.side, m.day, m.source, m.quantity, m.price>>

Scope(m, rows) ==
  {o \in rows : o.id.trade.side = m.side /\ o.id.trade.day \in EligibleDates(m)}

\* The executions at the price of a report, and the one it was matched with.
Exact(m, rows) ==
  Executions({o \in Scope(m, rows) : SameFill(o.id.trade, m)} \union LinkedTo(rows, m.ref))

Improves(m, price) == IF m.side = "buy" THEN price < m.price ELSE price > m.price

\* Executions at a better price that no other report has.
Better(m, rows, claimed) ==
  Executions({o \in Scope(m, rows) :
                /\ o.id.trade.quantity = m.quantity /\ Improves(m, o.id.trade.price)
                /\ o.id \notin claimed
                /\ \A q \in Linked(rows) : q.id # o.id})

\* A workbook row comes back as the archived one: the same row of the same
\* workbook, perhaps without evidence that was entered since.
Recovers(m, archived) ==
  m = [archived EXCEPT !.limit = m.limit] /\ (m.limit => archived.limit)

\* Each report that has trades in its scope, with the executions it may be:
\* those at its price first; for limit orders, then, those left at a better one.
Matches(reports, rows) ==
  LET within == {m \in reports : Scope(m, rows) # {}}
      exact == {m \in within : Exact(m, rows) # {}}
      claimed == {e[1] : e \in UNION {Exact(m, rows) : m \in exact}}
  IN  [m \in within |->
         IF m \in exact THEN Exact(m, rows)
         ELSE IF m.limit THEN Better(m, rows, claimed) ELSE {}]

\* One row per reference: the ledger's, if it has one.
First(reports, more) == reports \union {m \in more : \A n \in reports : n.ref # m.ref}

\* The reconciliation fails for review.
Refused(old, new, reports, more) ==
  LET rows == old \union new
      all == reports \union more
      match == Matches(First(reports, more), rows)
  IN  \/ Conflicting(old, new)
      \/ \E m \in all : \E o \in LinkedTo(rows, m.ref) :
           ~Recovers(m, o.report) \/ o \notin Scope(m, rows)
      \/ \E m, n \in all : m.ref = n.ref /\ Signature(m) # Signature(n)
      \/ \E m \in DOMAIN match :
           \/ Cardinality(match[m]) # 1
           \/ \E o \in Linked(rows) : Execution(o) \in match[m] /\ o.report.ref # m.ref
           \/ \E n \in DOMAIN match \ {m} : match[n] = match[m]

\* Reports that were matched are archived in the CSV rows they are matched with,
\* unless the row has an archive.
Archived(o, match) ==
  IF o.report = Original /\ \E m \in DOMAIN match : Execution(o) \in match[m]
  THEN [o EXCEPT !.report = CHOOSE m \in DOMAIN match : Execution(o) \in match[m]]
  ELSE o

Annotated(rows, match) == {Archived(o, match) : o \in rows}

\* Mutant of MergedCsv: the file's row replaces the ledger's.
MergedCsvFresh(old, new) ==
  new \union {o \in old : Execution(o) \notin Executions(new)}

\* _merge_non_grant_transactions: one CSV row per execution, which keeps the
\* report that either side has; one workbook row per reference, in which the
\* file's evidence replaces the ledger's and missing evidence does not.
MergedCsv(old, new) ==
  old \union {o \in new : Execution(o) \notin Executions(old)}

MergedManual(reports, more) ==
  {m \in reports : \A n \in more : n.ref # m.ref} \union
  {[n EXCEPT !.limit = @ \/ \E m \in reports : m.ref = n.ref /\ m.limit] : n \in more}

-----------------------------------------------------------------------------
(* Imports *)

Signed(t) == IF t.side = "buy" THEN t.quantity ELSE -t.quantity

Held(rows, reports, day) ==
  LET until == {o \in rows : o.id.trade.day <= day}
      waiting == {m \in reports : m.day <= day}
  IN  SumFunction([o \in until |-> Signed(o.id.trade)]) +
      SumFunction([m \in waiting |-> Signed(m)])

\* The position the broker shows: every trade counts, exported or not.
Position(day) == SumFunction([t \in Until(day) |-> Signed(world.trades[t])])

\* Mutant of HoldingsRefuse: the result of the export alone is taken over.
HoldingsOfExport(export, rows, reports) ==
  /\ snapshot <= export.to
  /\ Held(CsvRows(export), {}, export.to) # Position(export.to)
  /\ Held(rows, reports, export.to) # Position(export.to)

\* The merged ledger must hold the position that the export itself adds up to;
\* an export that does not, one without holdings, and one older than the
\* selected snapshot say nothing.
HoldingsRefuse(export, rows, reports) ==
  /\ Held(CsvRows(export), {}, export.to) = Position(export.to)
  /\ Position(export.to) # 0
  /\ snapshot <= export.to
  /\ Held(rows, reports, export.to) # Position(export.to)

\* Mutant of Reconciled: reports are matched in the ledger only.
ReconciledLedger(old, new, reports, more) ==
  LET match == Matches(First(reports, more), old \union new)
      waiting == {m \in reports : \A n \in DOMAIN match : n.ref # m.ref}
  IN  [official |-> MergedCsv(Annotated(old, match), Annotated(new, match)),
       manual   |-> MergedManual(waiting, more)]

\* reconcile_schwab_provisional_trades and the merge.
Reconciled(old, new, reports, more) ==
  LET match == Matches(First(reports, more), old \union new)
      Waiting(ms) == {m \in ms : \A n \in DOMAIN match : n.ref # m.ref}
  IN  [official |-> MergedCsv(Annotated(old, match), Annotated(new, match)),
       manual   |-> MergedManual(Waiting(reports), Waiting(more))]

ImportExport(export) ==
  LET new == CsvRows(export)
      merged == Reconciled(official, new, manual, {})
  IN  /\ ~Refused(official, new, manual, {})
      /\ ~HoldingsRefuse(export, merged.official, merged.manual)
      /\ official' = merged.official /\ manual' = merged.manual
      /\ snapshot' = IF Position(export.to) # 0 THEN Max({snapshot, export.to}) ELSE snapshot
      /\ exports' = exports \union {export}
      /\ UNCHANGED <<world, books>>

ImportBook(book) ==
  LET merged == Reconciled(official, {}, manual, book)
  IN  /\ ~Refused(official, {}, manual, book)
      /\ official' = merged.official /\ manual' = merged.manual
      /\ books' = books \union {book}
      /\ UNCHANGED <<world, snapshot, exports>>

SchwabNext ==
  \/ \E export \in Exports : ImportExport(export)
  \/ \E book \in world.books : ImportBook(book)

SchwabSpec == SchwabInit /\ [][SchwabNext]_schwabVars

-----------------------------------------------------------------------------
(* Properties *)

\* Every report of an accepted workbook is in the ledger once: as a row of its
\* own, or archived in the one broker row that replaced it.  What the accepted
\* exports show is in it, and nothing else that claims to be of the broker.
EachReportOnce ==
  /\ \A m \in UNION books :
       Cardinality({n \in manual : n.ref = m.ref}) + Cardinality(LinkedTo(official, m.ref)) = 1
  /\ Executions(official) = Executions(UNION {CsvRows(e) : e \in exports})

\* As long as exports reach back to the first trade and revise nothing, each
\* trade that was reported or exported is counted once.
RowsCount ==
  Cardinality(official) + Cardinality(manual) =
    Cardinality((UNION {Covered(e) : e \in exports}) \union {m.trade : m \in UNION books})

EachTradeOnce ==
  (\A e, f \in exports : e.from = 1 /\ e.revised = f.revised) => RowsCount

\* Workbook rows without the name of their workbook, which the newest one gives.
Content(reports) == {[m EXCEPT !.book = 0] : m \in reports}
Unchanged(merged) ==
  merged.official = official /\ Content(merged.manual) = Content(manual)

\* Another import of what was imported is refused or changes nothing.
ReplayHarmless ==
  /\ \A e \in exports :
       \/ Refused(official, CsvRows(e), manual, {})
       \/ Unchanged(Reconciled(official, CsvRows(e), manual, {}))
  /\ \A b \in books :
       Refused(official, {}, manual, b) \/ Unchanged(Reconciled(official, {}, manual, b))

\* A trade of the Schwab account is in the ledger once, however it got there,
\* and importing a file again does not change that.
TradesOnce == EachReportOnce /\ EachTradeOnce /\ ReplayHarmless

\* A trade that an export revised is told from a second one by the holdings
\* check, where that is made: between exports up to the same day, at the end of
\* which a position is held.
RevisionsCaught ==
  (\A e, f \in exports :
     /\ e.from = 1
     /\ \/ e.revised = f.revised
        \/ e.to = f.to /\ Position(e.to) # 0 /\ Cardinality(e.revised \union f.revised) = 1) =>
    RowsCount

\* "Reimporting the same official files or the original manual record remains
\* idempotent" (docs/KNOWN_ISSUES.md): when every broker row replaced the report
\* of its own trade, the newest export, which shows them all, is accepted again.
ReimportAccepted ==
  (\A o \in Linked(official) : o.id.trade = world.trades[o.report.trade]) =>
    \A e \in exports :
      e.from = 1 /\ e.to = snapshot => ~Refused(official, CsvRows(e), manual, {})
=============================================================================
