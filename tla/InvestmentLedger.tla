-------------------------- MODULE InvestmentLedger --------------------------
(***************************************************************************)
(* The investment ledger (settings_store/investment.sqlite3), its evidence *)
(* files and the derived transactions cache, used by the request threads   *)
(* of the web server: broker imports, manual edits, clearing, and the      *)
(* transactions view.                                                      *)
(*                                                                         *)
(* market_store_file_lock(INVESTMENT_STORE_PATH) is re-entrant, so only    *)
(* its outermost acquisition is a step.  The cache has a lock of its own,  *)
(* held for one file operation each time: these operations are single      *)
(* steps here.  A file fingerprint (path, existence, size, mtime_ns) is    *)
(* the number of the generation it belongs to, 0 when the file is missing. *)
(***************************************************************************)
EXTENDS Naturals, Sequences, FiniteSets

CONSTANTS Threads,      \* request threads of the web server
          NoThread,     \* nobody
          Statements,   \* broker statements; each brings one evidence file
          Edits,        \* manual transfer bindings, attributions, tickers
          NoItem,       \* the subject of a request that adds nothing
          MaxRequests,  \* bound: requests accepted
          MaxFaults,    \* bound: disk errors, lost evidence files, server kills
          MaxPrices,    \* bound: revisions of the price stores
          MaxPrivate    \* bound: revisions of the private evidence store

ASSUME LedgerAssumption ==
  /\ NoThread \notin Threads
  /\ NoItem \notin Statements \union Edits
  /\ Statements \intersect Edits = {}
  /\ {MaxRequests, MaxFaults, MaxPrices, MaxPrivate} \subseteq Nat

Items == Statements \union Edits

VARIABLES saved,    \* every generation of the ledger file, the last one current
          hot,      \* a killed commit has left its rollback journal
          evidence, \* the files in investment_evidence/
          lost,     \* files that vanished from there (history)
          cache,    \* the derived transactions cache: no entry or one
          prices,   \* revision of the price stores
          private,  \* revision of the private evidence store
          lock,     \* the thread that holds the ledger lock
          pc,       \* where each thread is
          mine,     \* what each thread holds in memory
          served,   \* requests so far
          faults    \* disk errors, losses and kills so far

disk == <<saved, hot, evidence, lost>>
inputs == <<prices, private>>
vars == <<disk, cache, inputs, lock, pc, mine, served, faults>>

Absent == [exists |-> FALSE, rows |-> {}]

\* The ledger file as it is now.
Ledger == saved[Len(saved)]

\* build_file_fingerprint of the ledger.
Stamp == IF Ledger.exists THEN Len(saved) ELSE 0

\* Read-only connections cannot roll a journal back (investment_sqlite._connect).
Loadable == ~(hot /\ Ledger.exists)

\* A projection of the ledger with the fingerprints it is labelled with: basis
\* is the private evidence it was computed from, quotes the prices in it.
Blank == [rows |-> {}, stamp |-> 0, private |-> 0, basis |-> 0, prices |-> 0, quotes |-> 0]

\* since: the generations and revisions current when the request began.
Nothing == [item |-> NoItem, rows |-> {}, keys |-> {}, view |-> Blank,
            since |-> [saved |-> 0, private |-> 0, prices |-> 0]]

Goto(t, l) == pc' = [pc EXCEPT ![t] = l]

\* The request is answered.
Reply(t) == Goto(t, "idle") /\ mine' = [mine EXCEPT ![t] = Nothing]

Acquire(t) == lock = NoThread /\ lock' = t

Release == lock' = NoThread

See(t, view) == mine' = [mine EXCEPT ![t].view = view]

\* There is no ledger yet, or the server has imported a statement before.
Init ==
  /\ \/ saved = <<Absent>> /\ evidence = {}
     \/ \E s \in Statements : saved = <<[exists |-> TRUE, rows |-> {s}]>> /\ evidence = {s}
  /\ hot = FALSE
  /\ lost = {}
  /\ cache = {}
  /\ prices = 1
  /\ private = 1
  /\ lock = NoThread
  /\ pc = [t \in Threads |-> "idle"]
  /\ mine = [t \in Threads |-> Nothing]
  /\ served = 0
  /\ faults = 0

\* A valid request has arrived.
Accept(t, l, item) ==
  /\ pc[t] = "idle"
  /\ served < MaxRequests
  /\ served' = served + 1
  /\ Goto(t, l)
  /\ mine' = [mine EXCEPT ![t] =
       [Nothing EXCEPT !.item = item,
                       !.since = [saved |-> Len(saved), private |-> private, prices |-> prices]]]
  /\ UNCHANGED <<disk, cache, inputs, lock, faults>>

Request(t) ==
  \/ \E s \in Statements : Accept(t, "import", s)
  \/ \E e \in Edits : Accept(t, "edit", e)
  \/ Accept(t, "clear", NoItem)
  \/ Accept(t, "exists", NoItem)

\* A disk operation raises, a file is lost, or the server is killed.
Fault == faults < MaxFaults /\ faults' = faults + 1

-----------------------------------------------------------------------------
(* Writers *)

\* Mutant of Load: the ledger is read before the lock is there.
LoadEarly(t) ==
  /\ pc[t] \in {"import", "edit"}
  /\ pc[t] = "edit" => Ledger.rows # {}
  /\ lock' = t
  /\ Goto(t, IF pc[t] = "import" THEN "evidence" ELSE "save")
  /\ mine' = [mine EXCEPT ![t].rows = Ledger.rows \union {mine[t].item}]
  /\ UNCHANGED <<disk, cache, inputs, served, faults>>

\* merge_and_write_investment_payload takes the lock, notes the evidence keys
\* the ledger already has; update_investment_store_payload loads and merges.
\* An edit is refused when the record it names is not in the ledger.
Load(t) ==
  /\ pc[t] \in {"import", "edit"}
  /\ lock = NoThread
  /\ IF Loadable /\ (pc[t] = "edit" => Ledger.rows # {})
       THEN /\ lock' = t
            /\ Goto(t, IF pc[t] = "import" THEN "evidence" ELSE "save")
            /\ mine' = [mine EXCEPT ![t].rows = Ledger.rows \union {mine[t].item},
                                    ![t].keys = Ledger.rows \intersect Statements]
       ELSE /\ Reply(t)
            /\ UNCHANGED lock
  /\ UNCHANGED <<disk, cache, inputs, served, faults>>

\* _verify_investment_source_artifacts_locked with allow_missing_storage_keys.
Verified(t, files) == mine[t].rows \intersect Statements \subseteq files \union mine[t].keys

\* Mutant of Materialize: a failed write is only logged.
MaterializeLogging(t) ==
  /\ pc[t] = "evidence"
  /\ \/ evidence' = evidence \union {mine[t].item} /\ UNCHANGED faults
     \/ Fault /\ UNCHANGED evidence
  /\ Goto(t, "save")
  /\ UNCHANGED <<saved, hot, lost, cache, inputs, lock, mine, served>>

\* materialize_investment_source_artifacts writes the uploaded bytes first.
Materialize(t) ==
  /\ pc[t] = "evidence"
  /\ \/ /\ evidence' = evidence \union {mine[t].item}
        /\ lost' = lost \ {mine[t].item}
        /\ Goto(t, "save")
        /\ UNCHANGED <<lock, mine, faults>>
     \/ /\ Fault
        /\ Release
        /\ Reply(t)
        /\ UNCHANGED <<evidence, lost>>
  /\ UNCHANGED <<saved, hot, cache, inputs, served>>

\* Mutant of Save: an import, too, gives the lock back with its update.
SaveReleasing(t) ==
  /\ pc[t] = "save"
  /\ saved' = Append(saved, [exists |-> TRUE, rows |-> mine[t].rows])
  /\ Goto(t, "invalidate")
  /\ Release
  /\ UNCHANGED <<hot, evidence, lost, cache, inputs, mine, served, faults>>

\* investment_sqlite.save_payload: one transaction, or an exclusive link of a
\* new database.  A save that changes no block need not touch the file.  An
\* import keeps the lock; an edit has left its update and gives it back.
Save(t) ==
  /\ pc[t] = "save"
  /\ LET next == [exists |-> TRUE, rows |-> mine[t].rows] IN
     \/ /\ \/ saved' = Append(saved, next)
           \/ next = Ledger /\ UNCHANGED saved
        /\ Goto(t, "invalidate")
        /\ IF mine[t].item \in Edits THEN Release ELSE UNCHANGED lock
        /\ UNCHANGED <<mine, faults>>
     \/ /\ Fault
        /\ Release
        /\ Reply(t)
        /\ UNCHANGED saved
  /\ UNCHANGED <<hot, evidence, lost, cache, inputs, served>>

\* invalidate_investment_transactions_cache swallows an OSError.
Invalidate(t) ==
  /\ pc[t] \in {"invalidate", "empty"}
  /\ \/ cache' = {} /\ UNCHANGED faults
     \/ Fault /\ UNCHANGED cache
  /\ IF mine[t].item \in Statements
       THEN Goto(t, "readback") /\ UNCHANGED mine
       ELSE Reply(t)
  /\ UNCHANGED <<disk, inputs, lock, served>>

\* The import reads its own commit back, compares and verifies it, and gives
\* the lock back in any case; a failure is reported although it is committed.
Readback(t) ==
  /\ pc[t] = "readback"
  /\ Release
  /\ IF Loadable /\ Ledger.rows = mine[t].rows /\ Verified(t, evidence)
       THEN Goto(t, "refresh") /\ UNCHANGED mine
       ELSE Reply(t)
  /\ UNCHANGED <<disk, cache, inputs, served, faults>>

\* The price stores get a new revision, or the download brings nothing.
Refresh ==
  /\ \/ prices < MaxPrices /\ prices' = prices + 1
     \/ UNCHANGED prices
  /\ UNCHANGED private

\* background_refresh of an import that has been answered.
BackgroundRefresh(t) ==
  /\ pc[t] = "refresh"
  /\ Refresh
  /\ Reply(t)
  /\ UNCHANGED <<disk, cache, lock, served, faults>>

\* clear_investment_store unlinks the ledger, not a journal beside it ...
Unlink(t) ==
  /\ pc[t] = "clear"
  /\ Acquire(t)
  /\ saved' = IF Ledger.exists THEN Append(saved, Absent) ELSE saved
  /\ Goto(t, "rmtree")
  /\ UNCHANGED <<hot, evidence, lost, cache, inputs, mine, served, faults>>

\* ... and removes the evidence, perhaps some of it, before it gives the lock
\* back.
RemoveEvidence(t) ==
  /\ pc[t] = "rmtree"
  /\ Release
  /\ \/ evidence' = {} /\ Goto(t, "invalidate") /\ UNCHANGED <<mine, faults>>
     \/ Fault /\ Reply(t) /\ evidence' \in SUBSET evidence
  /\ UNCHANGED <<saved, hot, lost, cache, inputs, served>>

-----------------------------------------------------------------------------
(* investment_get_transactions *)

\* A missing ledger is answered with an empty payload.
Exists(t) ==
  /\ pc[t] = "exists"
  /\ Goto(t, IF Ledger.exists THEN "stamp" ELSE "empty")
  /\ UNCHANGED <<disk, cache, inputs, lock, mine, served, faults>>

\* The fingerprint of the ledger, taken without its lock.
TakeStamp(t) ==
  /\ pc[t] = "stamp"
  /\ See(t, [mine[t].view EXCEPT !.stamp = Stamp])
  /\ Goto(t, "cached")
  /\ UNCHANGED <<disk, cache, inputs, lock, served, faults>>

\* read_investment_transactions_cache up to its ledger fingerprint.
ReadCache(t) ==
  /\ pc[t] = "cached"
  /\ LET fresh == {c \in cache : c.stamp = mine[t].view.stamp} IN
     IF fresh = {}
       THEN Goto(t, "miss") /\ UNCHANGED mine
       ELSE /\ Goto(t, "private")
            /\ \E c \in fresh : See(t, c)
  /\ UNCHANGED <<disk, cache, inputs, lock, served, faults>>

\* A fingerprint of the entry is compared with the file as it is now.
Check(t, from, holds, to) ==
  /\ pc[t] = from
  /\ Goto(t, IF holds THEN to ELSE "miss")
  /\ UNCHANGED <<disk, cache, inputs, lock, mine, served, faults>>

\* Mutant of CheckCached: entries do not depend on the private evidence.
CheckCachedPrices(t) ==
  \/ Check(t, "private", TRUE, "prices")
  \/ Check(t, "prices", mine[t].view.prices = prices, "again")
  \/ Check(t, "again", TRUE, "serve")

\* Private evidence, the price stores, and private evidence again once the
\* payload has been normalized.
CheckCached(t) ==
  \/ Check(t, "private", mine[t].view.private = private, "prices")
  \/ Check(t, "prices", mine[t].view.prices = prices, "again")
  \/ Check(t, "again", mine[t].view.private = private, "serve")

\* A miss notes the private evidence before it loads anything.
Miss(t) ==
  /\ pc[t] = "miss"
  /\ Acquire(t)
  /\ See(t, [Blank EXCEPT !.private = private])
  /\ Goto(t, "load")
  /\ UNCHANGED <<disk, cache, inputs, served, faults>>

\* load_normalized_investment_payload and the fingerprint of what it read.
LoadView(t) ==
  /\ pc[t] = "load"
  /\ Release
  /\ IF Loadable
       THEN /\ See(t, [mine[t].view EXCEPT !.rows = Ledger.rows, !.stamp = Stamp, !.basis = private])
            /\ Goto(t, "fresh")
       ELSE Reply(t)
  /\ UNCHANGED <<disk, cache, inputs, served, faults>>

\* ensure_latest_investment_daily_caches.
RefreshView(t) ==
  /\ pc[t] = "fresh"
  /\ Refresh
  /\ Goto(t, "quotes")
  /\ UNCHANGED <<disk, cache, lock, mine, served, faults>>

\* load_investment_price_histories.
ReadPrices(t) ==
  /\ pc[t] = "quotes"
  /\ See(t, [mine[t].view EXCEPT !.quotes = prices])
  /\ Goto(t, "finger")
  /\ UNCHANGED <<disk, cache, inputs, lock, served, faults>>

\* build_investment_price_store_fingerprints, after the prices were read.  A
\* projection with a failed refresh, price or rate is served, not cached.
StampPrices(t) ==
  /\ pc[t] = "finger"
  /\ See(t, [mine[t].view EXCEPT !.prices = prices])
  /\ Goto(t, "publish") \/ Goto(t, "serve")
  /\ UNCHANGED <<disk, cache, inputs, lock, served, faults>>

\* The ledger and the private evidence are looked at again under the ledger
\* lock before write_investment_transactions_cache.
Publish(t) ==
  /\ pc[t] = "publish"
  /\ lock = NoThread
  /\ IF mine[t].view.stamp = Stamp /\ mine[t].view.private = private
       THEN cache' = {mine[t].view} \/ UNCHANGED cache
       ELSE UNCHANGED cache
  /\ Goto(t, "serve")
  /\ UNCHANGED <<disk, inputs, lock, mine, served, faults>>

Serve(t) ==
  /\ pc[t] = "serve"
  /\ Reply(t)
  /\ UNCHANGED <<disk, cache, inputs, lock, served, faults>>

-----------------------------------------------------------------------------
(* The environment *)

\* The private evidence store is replaced by its own tools.
RevisePrivate ==
  /\ private < MaxPrivate
  /\ private' = private + 1
  /\ UNCHANGED <<disk, cache, prices, lock, pc, mine, served, faults>>

\* Evidence is local data; a file may be missing on this device.
LoseEvidence ==
  /\ Fault
  /\ \E s \in evidence :
       /\ evidence' = evidence \ {s}
       /\ lost' = lost \union {s}
  /\ UNCHANGED <<saved, hot, cache, inputs, lock, pc, mine, served>>

\* The server is killed.  A commit that had begun to overwrite pages leaves a
\* hot journal; the file may carry a new mtime by then.
Crash ==
  /\ Fault
  /\ \/ UNCHANGED <<saved, hot>>
     \/ /\ Ledger.exists /\ \E t \in Threads : pc[t] = "save"
        /\ hot' = TRUE
        /\ saved' = Append(saved, Ledger) \/ UNCHANGED saved
  /\ lock' = NoThread
  /\ pc' = [t \in Threads |-> "idle"]
  /\ mine' = [t \in Threads |-> Nothing]
  /\ UNCHANGED <<evidence, lost, cache, inputs, served>>

Write(t) ==
  \/ Load(t) \/ Materialize(t) \/ Save(t) \/ Invalidate(t) \/ Readback(t)
  \/ BackgroundRefresh(t) \/ Unlink(t) \/ RemoveEvidence(t)

View(t) ==
  \/ Exists(t) \/ TakeStamp(t) \/ ReadCache(t) \/ CheckCached(t) \/ Miss(t) \/ LoadView(t)
  \/ RefreshView(t) \/ ReadPrices(t) \/ StampPrices(t) \/ Publish(t) \/ Serve(t)

Next ==
  \/ \E t \in Threads : Request(t) \/ Write(t) \/ View(t)
  \/ RevisePrivate \/ LoseEvidence \/ Crash

Spec == Init /\ [][Next]_vars

-----------------------------------------------------------------------------
Labels ==
  {"idle", "import", "edit", "clear", "evidence", "save", "invalidate", "readback", "refresh",
   "rmtree", "exists", "empty", "stamp", "cached", "private", "prices", "again", "miss", "load",
   "fresh", "quotes", "finger", "publish", "serve"}

Generation == [exists : BOOLEAN, rows : SUBSET Items]

Projection == [rows : SUBSET Items, stamp : Nat, private : Nat, basis : Nat, prices : Nat,
               quotes : Nat]

\* The type of every variable; the cache has at most one entry.
TypeOK ==
  /\ saved \in Seq(Generation) /\ saved # << >>
  /\ hot \in BOOLEAN
  /\ evidence \subseteq Statements /\ lost \subseteq Statements
  /\ cache \subseteq Projection /\ \A c, d \in cache : c = d
  /\ prices \in Nat /\ private \in Nat
  /\ lock \in Threads \union {NoThread}
  /\ pc \in [Threads -> Labels]
  /\ mine \in [Threads -> [item : Items \union {NoItem}, rows : SUBSET Items,
                           keys : SUBSET Statements, view : Projection,
                           since : [saved : Nat, private : Nat, prices : Nat]]]
  /\ served \in Nat
  /\ faults \in Nat

\* "Import commit ... retain their existing SHA-256 ... requirements": whatever
\* fails or dies, the ledger never names evidence that was not on disk before.
LedgerHasEvidence == Ledger.rows \intersect Statements \subseteq evidence \union lost

\* "Keep a later legitimate writer outside this import's readback boundary.":
\* from its commit to its readback an import sees the ledger it wrote.
ReadbackOwn ==
  \A t \in Threads :
    pc[t] = "readback" => Ledger.exists /\ Ledger.rows = mine[t].rows /\ lock = t

\* What an import reports is true: the ledger it read back is the one it wrote,
\* with evidence on disk for what the ledger names.
ImportSound == LedgerHasEvidence /\ ReadbackOwn

\* "Bind the payload and version to one committed ledger snapshot.", "an older
\* projection must not be labelled with a newer auxiliary-evidence revision":
\* a view, cached or not, shows the rows of the version it names, one that was
\* current while the request ran, computed from private evidence and prices
\* current while it ran.  Prices replaced between being read and being
\* fingerprinted are the exception (quotes # prices): such an entry is served.
ViewCurrent ==
  \A t \in Threads : pc[t] = "serve" =>
    LET v == mine[t].view IN
    /\ \E g \in mine[t].since.saved .. Len(saved) :
         /\ saved[g].rows = v.rows
         /\ v.stamp = IF saved[g].exists THEN g ELSE 0
    /\ v.basis \in mine[t].since.private .. private
    /\ v.quotes = v.prices => v.quotes \in mine[t].since.prices .. prices

Atomic == INSTANCE AtomicLedger WITH ledger <- Ledger

\* The ledger implements the abstract one: every change adds one request's
\* item to what was there at that instant, or clears.
RefinesAtomicLedger == Atomic!Spec

\* "A failed transaction leaves the preceding committed snapshot available.":
\* a ledger that no thread is writing can be read.
LedgerReadable == lock = NoThread => Loadable
=============================================================================
