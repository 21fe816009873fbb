---------------------------- MODULE ObjectStore ----------------------------
(***************************************************************************)
(* app/core/object_sqlite.py: one path holding a structured document       *)
(* ("object") or an ordered event stream ("jsonl"), used by threads and    *)
(* processes that share no lock.  A new path is published by building a    *)
(* private temporary database and hard-linking it into place; an existing  *)
(* one is changed in a BEGIN IMMEDIATE transaction under SQLite's rollback *)
(* journal, and read in a deferred transaction over a read-only            *)
(* connection.  Any process may be killed between two steps.               *)
(*                                                                         *)
(* "db" is the committed content of the path: what SQLite returns once a   *)
(* hot journal, if there is one, has been rolled back.  Payloads are named *)
(* after the call that wrote them, so equal payloads of different calls    *)
(* stay distinguishable.                                                   *)
(***************************************************************************)
EXTENDS Naturals, Sequences

CONSTANTS Procs,       \* callers: application threads, training workers
          NoProc,      \* nobody
          Ops,         \* which of the five calls they make
          MaxCalls,    \* bound: calls one caller makes
          MaxBatch,    \* bound: events in one append_jsonl call
          MaxCrashes   \* bound: processes killed

Operations == {"write_object", "create_object", "append_jsonl",
               "read_object", "read_jsonl"}

ASSUME ObjectStoreAssumption ==
  /\ NoProc \notin Procs
  /\ Ops \subseteq Operations
  /\ MaxCalls \in Nat /\ MaxBatch \in Nat /\ MaxCrashes \in Nat

VARIABLES db,       \* the document at the path, Absent when there is no file
          journal,  \* "hot" when a dead writer left a journal to roll back
          owner,    \* the writer that holds SQLite's RESERVED lock
          readers,  \* the readers that hold SQLite's SHARED lock
          pc,       \* where each caller is in _save or _load
          req,      \* the call it is making
          seen,     \* the document its transaction has read
          res,      \* the outcome of its last call
          acked,    \* history: requests whose caller was told they succeeded
          calls,    \* calls made so far, per caller
          crashes   \* processes killed so far

vars == <<db, journal, owner, readers, pc, req, seen, res, acked, calls, crashes>>

Absent == [kind |-> "absent", recs |-> << >>]

NoRequest == [op |-> "none", recs |-> << >>]

KindOf(op) == IF op \in {"append_jsonl", "read_jsonl"} THEN "jsonl" ELSE "object"

IsRead(op) == op \in {"read_object", "read_jsonl"}

\* The payloads of the n-th call of p: nothing, one document or some events.
Payload(p, n, size) == [i \in 1..size |-> <<p, n, i>>]

Sizes(op) == IF IsRead(op) THEN {0} ELSE IF op = "append_jsonl" THEN 0..MaxBatch ELSE {1}

CallsOf(p, n) == UNION {{[op |-> op, recs |-> Payload(p, n, size)] : size \in Sizes(op)} : op \in Ops}

Requests == UNION {CallsOf(p, n) : p \in Procs, n \in 0..MaxCalls}

\* _write: an event stream keeps its previous records, a document does not.
Applied(previous, r) ==
  [kind |-> KindOf(r.op),
   recs |-> IF r.op = "append_jsonl" THEN previous \o r.recs ELSE r.recs]

Goto(p, l) == pc' = [pc EXCEPT ![p] = l]

\* The call has its outcome; what is left is to return it or to raise.
Finish(p, outcome) ==
  /\ Goto(p, "return")
  /\ res' = [res EXCEPT ![p] = outcome]

\* A writer in COMMIT holds PENDING, then EXCLUSIVE: no new SHARED lock.
Committing == \E q \in Procs : pc[q] \in {"pending", "flush"}

Init ==
  /\ db = Absent
  /\ journal = "none"
  /\ owner = NoProc
  /\ readers = {}
  /\ pc = [p \in Procs |-> "idle"]
  /\ req = [p \in Procs |-> NoRequest]
  /\ seen = [p \in Procs |-> Absent]
  /\ res = [p \in Procs |-> "none"]
  /\ acked = {}
  /\ calls = [p \in Procs |-> 0]
  /\ crashes = 0

-----------------------------------------------------------------------------
\* One of the five calls is made.
Call(p) ==
  /\ pc[p] = "idle"
  /\ calls[p] < MaxCalls
  /\ \E r \in CallsOf(p, calls[p]) : req' = [req EXCEPT ![p] = r]
  /\ calls' = [calls EXCEPT ![p] = @ + 1]
  /\ Goto(p, "exists")
  /\ UNCHANGED <<db, journal, owner, readers, seen, res, acked, crashes>>

\* path.exists(): a missing document cannot be read and is published by a
\* writer; one that is there is opened, unless it should have been created.
CheckPath(p) ==
  /\ pc[p] = "exists"
  /\ \/ db = Absent /\ IsRead(req[p].op) /\ Finish(p, "missing")
     \/ db = Absent /\ ~IsRead(req[p].op) /\ Goto(p, "link") /\ UNCHANGED res
     \/ db # Absent /\ req[p].op = "create_object" /\ Finish(p, "exists")
     \/ db # Absent /\ IsRead(req[p].op) /\ Goto(p, "open") /\ UNCHANGED res
     \/ /\ db # Absent
        /\ req[p].op \in {"write_object", "append_jsonl"}
        /\ Goto(p, "begin")
        /\ UNCHANGED res
  /\ UNCHANGED <<db, journal, owner, readers, req, seen, acked, calls, crashes>>

\* Mutant of Link: os.replace instead of os.link, which never finds an owner.
LinkReplacing(p) ==
  /\ pc[p] = "link"
  /\ db' = Applied(<< >>, req[p])
  /\ Finish(p, "ok")
  /\ UNCHANGED <<journal, owner, readers, req, seen, acked, calls, crashes>>

\* os.link publishes the database built under a private name only when the
\* path is still free; a writer that lost the race falls back to the
\* transaction, a creator reports that the path has an owner.
Link(p) ==
  /\ pc[p] = "link"
  /\ \/ /\ db = Absent
        /\ db' = Applied(<< >>, req[p])
        /\ Finish(p, "ok")
     \/ /\ db # Absent
        /\ req[p].op = "create_object"
        /\ Finish(p, "exists")
        /\ UNCHANGED db
     \/ /\ db # Absent
        /\ req[p].op # "create_object"
        /\ Goto(p, "begin")
        /\ UNCHANGED <<db, res>>
  /\ UNCHANGED <<journal, owner, readers, req, seen, acked, calls, crashes>>

\* A writable connection rolls a hot journal back, BEGIN IMMEDIATE takes the
\* RESERVED lock, and _read loads the previous records.
Begin(p) ==
  /\ pc[p] = "begin"
  /\ owner = NoProc
  /\ owner' = p
  /\ journal' = "none"
  /\ seen' = [seen EXCEPT ![p] = db]
  /\ Goto(p, "txn")
  /\ UNCHANGED <<db, readers, req, res, acked, calls, crashes>>

\* Mutant of RejectKind: the caller retries a refused document.
RejectRetry(p) ==
  /\ pc[p] = "txn"
  /\ seen[p].kind # KindOf(req[p].op)
  /\ owner' = NoProc
  /\ Goto(p, "begin")
  /\ UNCHANGED <<db, journal, readers, req, seen, res, acked, calls, crashes>>

\* _read refuses a database of the other kind; the transaction rolls back.
RejectKind(p) ==
  /\ pc[p] = "txn"
  /\ seen[p].kind # KindOf(req[p].op)
  /\ owner' = NoProc
  /\ Finish(p, "rejected")
  /\ UNCHANGED <<db, journal, readers, req, seen, acked, calls, crashes>>

\* COMMIT asks for the EXCLUSIVE lock and keeps new readers out.
Prepare(p) ==
  /\ pc[p] = "txn"
  /\ seen[p].kind = KindOf(req[p].op)
  /\ Goto(p, "pending")
  /\ UNCHANGED <<db, journal, owner, readers, req, seen, res, acked, calls, crashes>>

\* The last reader has left: the journal is synced, pages are overwritten.
Flush(p) ==
  /\ pc[p] = "pending"
  /\ readers = {}
  /\ Goto(p, "flush")
  /\ UNCHANGED <<db, journal, owner, readers, req, seen, res, acked, calls, crashes>>

\* Deleting the journal is the instant the transaction commits.
Commit(p) ==
  /\ pc[p] = "flush"
  /\ db' = Applied(seen[p].recs, req[p])
  /\ owner' = NoProc
  /\ Finish(p, "ok")
  /\ UNCHANGED <<journal, readers, req, seen, acked, calls, crashes>>

\* The 30 second busy timeout expires while another connection is in the way;
\* "with connection" rolls an unfinished transaction back.
BusyTimeout(p) ==
  /\ \/ pc[p] = "begin" /\ owner # NoProc
     \/ pc[p] = "pending" /\ readers # {}
     \/ pc[p] = "open" /\ Committing
  /\ owner' = IF owner = p THEN NoProc ELSE owner
  /\ Finish(p, "busy")
  /\ UNCHANGED <<db, journal, readers, req, seen, acked, calls, crashes>>

\* _load begins a deferred transaction; the first query takes the SHARED lock,
\* which a read-only connection (URI mode=ro) cannot do over a hot journal:
\* SQLITE_READONLY_ROLLBACK.  The manifest row is read first.
Open(p) ==
  /\ pc[p] = "open"
  /\ ~Committing
  /\ \/ journal = "hot" /\ Finish(p, "unreadable") /\ UNCHANGED <<readers, seen>>
     \/ /\ journal # "hot"
        /\ db.kind # KindOf(req[p].op)
        /\ Finish(p, "rejected")
        /\ UNCHANGED <<readers, seen>>
     \/ /\ journal # "hot"
        /\ db.kind = KindOf(req[p].op)
        /\ readers' = readers \union {p}
        /\ seen' = [seen EXCEPT ![p] = db]
        /\ Goto(p, "fetch")
        /\ UNCHANGED res
  /\ UNCHANGED <<db, journal, owner, req, acked, calls, crashes>>

\* The records are fetched and compared with the manifest; the connection
\* closes.
Fetch(p) ==
  /\ pc[p] = "fetch"
  /\ Finish(p, IF seen[p] = db THEN "snapshot" ELSE "damaged")
  /\ readers' = readers \ {p}
  /\ UNCHANGED <<db, journal, owner, req, seen, acked, calls, crashes>>

\* The caller gets the result or the exception.
Return(p) ==
  /\ pc[p] = "return"
  /\ acked' = IF res[p] = "ok" THEN acked \union {req[p]} ELSE acked
  /\ Goto(p, "idle")
  /\ UNCHANGED <<db, journal, owner, readers, req, seen, res, calls, crashes>>

\* The process is killed.  The kernel drops its locks; a transaction that had
\* begun to overwrite pages leaves its journal behind.
Crash(p) ==
  /\ pc[p] # "idle"
  /\ crashes < MaxCrashes
  /\ crashes' = crashes + 1
  /\ journal' = IF pc[p] = "flush" THEN "hot" ELSE journal
  /\ owner' = IF owner = p THEN NoProc ELSE owner
  /\ readers' = readers \ {p}
  /\ Goto(p, "idle")
  /\ UNCHANGED <<db, req, seen, res, acked, calls>>

Step(p) ==
  \/ CheckPath(p) \/ Link(p) \/ Begin(p) \/ RejectKind(p) \/ Prepare(p)
  \/ Flush(p) \/ Commit(p) \/ BusyTimeout(p) \/ Open(p) \/ Fetch(p) \/ Return(p)

Next == \E p \in Procs : Call(p) \/ Step(p) \/ Crash(p)

Spec == Init /\ [][Next]_vars

\* A running caller is never stopped forever by the scheduler; SQLite's busy
\* handler gives up after its timeout.
FairSpec == Spec /\ \A p \in Procs : WF_vars(Step(p))

-----------------------------------------------------------------------------
Labels == {"idle", "exists", "link", "begin", "txn", "pending", "flush",
           "open", "fetch", "return"}

Outcomes == {"none", "missing", "exists", "ok", "rejected", "busy",
             "unreadable", "snapshot", "damaged"}

Record == Procs \X Nat \X Nat

Document == [kind : {"absent", "object", "jsonl"}, recs : Seq(Record)]

Request == [op : Operations \union {"none"}, recs : Seq(Record)]

\* The type of every variable.
TypeOK ==
  /\ db \in Document
  /\ journal \in {"none", "hot"}
  /\ owner \in Procs \union {NoProc}
  /\ readers \subseteq Procs
  /\ pc \in [Procs -> Labels]
  /\ req \in [Procs -> Request]
  /\ seen \in [Procs -> Document]
  /\ res \in [Procs -> Outcomes]
  /\ acked \subseteq Request
  /\ calls \in [Procs -> Nat]
  /\ crashes \in Nat

Events(s) == {s[i] : i \in 1..Len(s)}

\* An append that was reported successful is in the stream, whoever created
\* the path meanwhile and whoever died: no acknowledged event is ever lost.
AckedEventsKept ==
  \A r \in acked : r.op = "append_jsonl" => Events(r.recs) \subseteq Events(db.recs)

\* At most one create_object call is ever told that it owns the path: the
\* claim a training worker's exclusive worker.sqlite3 relies on.
OneCreator ==
  \A a, b \in acked : a.op = "create_object" /\ b.op = "create_object" => a = b

\* From BEGIN IMMEDIATE to the end of COMMIT nobody else writes, and what the
\* transaction read (_read's previous records, from which ordinals and the
\* root digest are computed) is still what the database holds.
TransactionIsolated ==
  \A p \in Procs :
    pc[p] \in {"txn", "pending", "flush"} => owner = p /\ seen[p] = db

\* A reader never finds a manifest and records of different commits, which
\* _read would report as a damaged store.
ReadsConsistent == \A p \in Procs : res[p] # "damaged"

\* Every call ends: it returns, raises, or its process is killed.
CallsEnd == \A p \in Procs : []<>(pc[p] = "idle")

\* The document behaves as the atomic store of AtomicStore.
Phase(p) ==
  CASE pc[p] = "idle" -> "idle"
    [] pc[p] = "return" /\ res[p] = "ok" -> "applied"
    [] pc[p] = "return" /\ res[p] = "snapshot" -> "observed"
    [] pc[p] = "return" /\ res[p] \notin {"ok", "snapshot"} -> "refused"
    [] OTHER -> "pending"

Atomic == INSTANCE AtomicStore
            WITH store <- db,
                 phase <- [p \in Procs |-> Phase(p)],
                 got <- [p \in Procs |-> IF Phase(p) = "observed" THEN seen[p] ELSE Absent]

\* Every behaviour of the file protocol is one of the atomic store.
RefinesAtomicStore == Atomic!Spec
=============================================================================
