---------------------------- MODULE AtomicStore ----------------------------
(***************************************************************************)
(* What one structured SQLite document (app/core/object_sqlite.py)         *)
(* promises its callers: every call takes effect at one instant or not at  *)
(* all, a document keeps the kind it was created with, an event stream     *)
(* only grows at its end, an exclusive creation never replaces an owner, a *)
(* read returns the document of one instant, and what a call reports       *)
(* agrees with what it did.                                                *)
(***************************************************************************)
EXTENDS Sequences

CONSTANTS Procs,    \* the threads and processes that use the document
          Requests  \* the calls they may make: records [op, recs]

VARIABLES store,    \* Absent, or the committed document [kind, recs]
          req,      \* the call each process is making
          phase,    \* how far that call has come
          got       \* the document a finished read returns

vars == <<store, req, phase, got>>

Absent == [kind |-> "absent", recs |-> << >>]

NoRequest == [op |-> "none", recs |-> << >>]

KindOf(op) == IF op \in {"append_jsonl", "read_jsonl"} THEN "jsonl" ELSE "object"

IsRead(op) == op \in {"read_jsonl", "read_object"}

\* The document after request r has been applied to document d.
Applied(d, r) ==
  [kind |-> KindOf(r.op),
   recs |-> IF r.op = "append_jsonl" THEN d.recs \o r.recs ELSE r.recs]

Init ==
  /\ store = Absent
  /\ req = [p \in Procs |-> NoRequest]
  /\ phase = [p \in Procs |-> "idle"]
  /\ got = [p \in Procs |-> Absent]

Invoke(p) ==
  /\ phase[p] = "idle"
  /\ phase' = [phase EXCEPT ![p] = "pending"]
  /\ \E r \in Requests : req' = [req EXCEPT ![p] = r]
  /\ UNCHANGED <<store, got>>

\* A writing call takes effect: an absent document is created, one of the same
\* kind is replaced or extended, an exclusive creation needs an absent one.
Apply(p) ==
  /\ phase[p] = "pending"
  /\ ~IsRead(req[p].op)
  /\ store.kind \in {"absent", KindOf(req[p].op)}
  /\ req[p].op = "create_object" => store = Absent
  /\ store' = Applied(store, req[p])
  /\ phase' = [phase EXCEPT ![p] = "applied"]
  /\ UNCHANGED <<req, got>>

\* A reading call observes the whole document.
Observe(p) ==
  /\ phase[p] = "pending"
  /\ IsRead(req[p].op)
  /\ store.kind = KindOf(req[p].op)
  /\ got' = [got EXCEPT ![p] = store]
  /\ phase' = [phase EXCEPT ![p] = "observed"]
  /\ UNCHANGED <<store, req>>

\* The call is refused and has no effect, now or later.
Refuse(p) ==
  /\ phase[p] = "pending"
  /\ phase' = [phase EXCEPT ![p] = "refused"]
  /\ UNCHANGED <<store, req, got>>

\* The caller learns the outcome, or dies without learning it.
Leave(p) ==
  /\ phase[p] # "idle"
  /\ phase' = [phase EXCEPT ![p] = "idle"]
  /\ got' = [got EXCEPT ![p] = Absent]
  /\ UNCHANGED <<store, req>>

Next ==
  \E p \in Procs : Invoke(p) \/ Apply(p) \/ Observe(p) \/ Refuse(p) \/ Leave(p)

Spec == Init /\ [][Next]_vars
=============================================================================
