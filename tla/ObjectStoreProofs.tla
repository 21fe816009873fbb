------------------------- MODULE ObjectStoreProofs -------------------------
(***************************************************************************)
(* Theorems about ObjectStore for any number of callers, calls and batch   *)
(* sizes, proved from one inductive invariant, and the refinement of       *)
(* AtomicStore.                                                            *)
(***************************************************************************)
EXTENDS ObjectStore, SequenceTheorems, TLAPS

Writing == {"txn", "pending", "flush"}

Succeeded(p) == pc[p] = "return" /\ res[p] = "ok"

\* A file that was published stays, and only its existence leads to a
\* connection: nobody in a transaction can see the path disappear.
Published ==
  /\ db.kind = "absent" => db = Absent
  /\ \A p \in Procs :
       pc[p] \in Writing \union {"begin", "open", "fetch"} => db.kind # "absent"

\* Which call can be where, and what it has checked by then.
CallsInPlace ==
  \A p \in Procs :
    /\ pc[p] # "idle" => req[p].op \in Operations
    /\ pc[p] = "link" => ~IsRead(req[p].op)
    /\ pc[p] \in Writing \union {"begin"} => req[p].op \in {"write_object", "append_jsonl"}
    /\ pc[p] \in {"pending", "flush"} => seen[p].kind = KindOf(req[p].op)
    /\ pc[p] \in {"open", "fetch"} => IsRead(req[p].op)
    /\ pc[p] = "fetch" => seen[p].kind = KindOf(req[p].op)

\* SHARED is held from the manifest to the last record, and nobody flushes
\* meanwhile.
ReadersShare ==
  \A p \in Procs :
    /\ pc[p] = "fetch" => p \in readers /\ seen[p] = db
    /\ pc[p] = "flush" => readers = {}

\* An append that succeeded, reported or about to be, is in an event stream.
StreamKept ==
  /\ \A r \in acked : r.op = "append_jsonl" =>
       db.kind = "jsonl" /\ Events(r.recs) \subseteq Events(db.recs)
  /\ \A p \in Procs : Succeeded(p) /\ req[p].op = "append_jsonl" =>
       db.kind = "jsonl" /\ Events(req[p].recs) \subseteq Events(db.recs)

\* A creation that succeeded found the path free, so it is the only one.
Creator ==
  /\ \A r \in acked : r.op = "create_object" => db.kind # "absent"
  /\ \A p \in Procs : Succeeded(p) /\ req[p].op = "create_object" =>
       /\ db.kind # "absent"
       /\ \A r \in acked : r.op # "create_object"
       /\ \A q \in Procs : Succeeded(q) /\ req[q].op = "create_object" => q = p

IInv ==
  /\ TypeOK
  /\ TransactionIsolated
  /\ ReadsConsistent
  /\ Published
  /\ CallsInPlace
  /\ ReadersShare
  /\ StreamKept
  /\ OneCreator
  /\ Creator

-----------------------------------------------------------------------------
\* The requests of the model are requests: an operation and a payload of
\* records named after the call.
LEMMA CallsTyped ==
  ASSUME NEW p \in Procs, NEW n \in Nat, NEW r \in CallsOf(p, n)
  PROVE  r \in Request /\ r.op \in Operations
<1>1. PICK op \in Ops : \E size \in Sizes(op) : r = [op |-> op, recs |-> Payload(p, n, size)]
  BY DEF CallsOf
<1>. PICK size \in Sizes(op) : r = [op |-> op, recs |-> Payload(p, n, size)]
  BY <1>1
<1>2. op \in Operations
  BY ObjectStoreAssumption
<1>3. size \in Nat
  BY ObjectStoreAssumption DEF Sizes
<1>4. Payload(p, n, size) \in Seq(Record)
  BY <1>3 DEF Payload, Record
<1> QED
  BY <1>2, <1>4 DEF Request

\* Applying a request to a document of records gives a document of records.
LEMMA AppliedTyped ==
  ASSUME NEW s \in Seq(Record), NEW r \in Request
  PROVE  Applied(s, r) \in Document
<1>1. s \o r.recs \in Seq(Record)
  BY ConcatProperties DEF Request
<1> QED
  BY <1>1 DEF Applied, Document, Request, KindOf

\* The events of a concatenation are the events of its parts.
LEMMA EventsConcat ==
  ASSUME NEW s \in Seq(Record), NEW t \in Seq(Record)
  PROVE  Events(s \o t) = Events(s) \union Events(t)
<1>1. /\ Len(s \o t) = Len(s) + Len(t)
      /\ \A i \in 1..Len(s) + Len(t) : (s \o t)[i] = IF i <= Len(s) THEN s[i] ELSE t[i - Len(s)]
  BY ConcatProperties
<1>2. Len(s) \in Nat /\ Len(t) \in Nat
  OBVIOUS
<1>3. Events(s \o t) \subseteq Events(s) \union Events(t)
  BY <1>1, <1>2 DEF Events
<1>4. Events(s) \subseteq Events(s \o t)
  BY <1>1, <1>2 DEF Events
<1>5. ASSUME NEW j \in 1..Len(t)
      PROVE  t[j] \in Events(s \o t)
  <2>1. Len(s) + j \in 1..Len(s \o t) /\ (s \o t)[Len(s) + j] = t[j]
    BY <1>1, <1>2
  <2> QED
    BY <2>1 DEF Events
<1> QED
  BY <1>3, <1>4, <1>5 DEF Events

-----------------------------------------------------------------------------
\* Every variable keeps its type.
THEOREM TypeCorrect == Spec => []TypeOK
<1>1. Init => TypeOK
  BY DEF Init, TypeOK, Absent, NoRequest, Document, Request, Labels, Outcomes
<1>2. TypeOK /\ [Next]_vars => TypeOK'
  <2> SUFFICES ASSUME TypeOK, [Next]_vars PROVE TypeOK'
    OBVIOUS
  <2> USE DEF TypeOK
  <2>1. ASSUME NEW p \in Procs, Call(p) PROVE TypeOK'
    <3>1. PICK r \in CallsOf(p, calls[p]) : req' = [req EXCEPT ![p] = r]
      BY <2>1 DEF Call
    <3>2. r \in Request
      BY CallsTyped
    <3> QED
      BY <2>1, <3>1, <3>2 DEF Call, Goto, Labels
  <2>2. ASSUME NEW p \in Procs, CheckPath(p) PROVE TypeOK'
    BY <2>2 DEF CheckPath, Goto, Finish, Labels, Outcomes
  <2>3. ASSUME NEW p \in Procs, Link(p) PROVE TypeOK'
    <3>1. << >> \in Seq(Record) /\ req[p] \in Request
      OBVIOUS
    <3>2. Applied(<< >>, req[p]) \in Document
      BY <3>1, AppliedTyped
    <3> QED
      BY <2>3, <3>2 DEF Link, Goto, Finish, Labels, Outcomes
  <2>4. ASSUME NEW p \in Procs, Begin(p) PROVE TypeOK'
    BY <2>4 DEF Begin, Goto, Labels
  <2>5. ASSUME NEW p \in Procs, RejectKind(p) PROVE TypeOK'
    BY <2>5 DEF RejectKind, Goto, Finish, Labels, Outcomes
  <2>6. ASSUME NEW p \in Procs, Prepare(p) PROVE TypeOK'
    BY <2>6 DEF Prepare, Goto, Labels
  <2>7. ASSUME NEW p \in Procs, Flush(p) PROVE TypeOK'
    BY <2>7 DEF Flush, Goto, Labels
  <2>8. ASSUME NEW p \in Procs, Commit(p) PROVE TypeOK'
    <3>1. Applied(seen[p].recs, req[p]) \in Document
      BY AppliedTyped DEF Document
    <3> QED
      BY <2>8, <3>1 DEF Commit, Goto, Finish, Labels, Outcomes
  <2>9. ASSUME NEW p \in Procs, BusyTimeout(p) PROVE TypeOK'
    BY <2>9 DEF BusyTimeout, Goto, Finish, Labels, Outcomes
  <2>10. ASSUME NEW p \in Procs, Open(p) PROVE TypeOK'
    BY <2>10 DEF Open, Goto, Finish, Labels, Outcomes
  <2>11. ASSUME NEW p \in Procs, Fetch(p) PROVE TypeOK'
    BY <2>11 DEF Fetch, Goto, Finish, Labels, Outcomes
  <2>12. ASSUME NEW p \in Procs, Return(p) PROVE TypeOK'
    BY <2>12 DEF Return, Goto, Labels
  <2>13. ASSUME NEW p \in Procs, Crash(p) PROVE TypeOK'
    BY <2>13 DEF Crash, Goto, Labels
  <2>14. CASE UNCHANGED vars
    BY <2>14 DEF vars
  <2> QED
    BY <2>1, <2>2, <2>3, <2>4, <2>5, <2>6, <2>7, <2>8, <2>9, <2>10, <2>11,
       <2>12, <2>13, <2>14 DEF Next, Step
<1> QED
  BY <1>1, <1>2, PTL DEF Spec
-----------------------------------------------------------------------------
\* The strengthening holds initially.
LEMMA IInvInit == Init => IInv
<1> SUFFICES ASSUME Init PROVE IInv
  OBVIOUS
<1>1. TypeOK
  BY DEF Init, TypeOK, Absent, NoRequest, Document, Request, Labels, Outcomes
<1> QED
  BY <1>1 DEF Init, IInv, TransactionIsolated, ReadsConsistent, Published, CallsInPlace,
     ReadersShare, StreamKept, OneCreator, Creator, Writing, Succeeded, Absent

\* The strengthening is preserved by every step.
LEMMA IInvNext == IInv /\ TypeOK' /\ [Next]_vars => IInv'
<1> SUFFICES ASSUME IInv, TypeOK', [Next]_vars PROVE IInv'
  OBVIOUS
<1> USE DEF IInv
<1>1. ASSUME NEW p \in Procs, Call(p) PROVE IInv'
  <2>1. TransactionIsolated'
    BY <1>1 DEF TypeOK, Call, Goto, TransactionIsolated
  <2>2. ReadsConsistent'
    BY <1>1 DEF TypeOK, Call, Goto, ReadsConsistent
  <2>3. Published'
    BY <1>1 DEF TypeOK, Call, Goto, Published, Writing
  <2>4. CallsInPlace'
    <3>1. PICK r \in CallsOf(p, calls[p]) : req' = [req EXCEPT ![p] = r]
      BY <1>1 DEF Call
    <3>2. r.op \in Operations
      BY CallsTyped DEF TypeOK
    <3> QED
      BY <1>1, <3>1, <3>2 DEF TypeOK, Call, Goto, CallsInPlace, Writing
  <2>5. ReadersShare'
    BY <1>1 DEF TypeOK, Call, Goto, ReadersShare
  <2>6. StreamKept'
    BY <1>1 DEF TypeOK, Call, Goto, StreamKept, Succeeded
  <2>7. OneCreator'
    BY <1>1 DEF TypeOK, Call, Goto, OneCreator
  <2>8. Creator'
    BY <1>1 DEF TypeOK, Call, Goto, Creator, Succeeded
  <2> QED
    BY <2>1, <2>2, <2>3, <2>4, <2>5, <2>6, <2>7, <2>8
<1>2. ASSUME NEW p \in Procs, CheckPath(p) PROVE IInv'
  <2>1. TransactionIsolated'
    BY <1>2 DEF TypeOK, CheckPath, Goto, Finish, TransactionIsolated
  <2>2. ReadsConsistent'
    BY <1>2 DEF TypeOK, CheckPath, Goto, Finish, ReadsConsistent
  <2>3. Published'
    BY <1>2 DEF TypeOK, CheckPath, Goto, Finish, Published, Writing, Absent
  <2>4. CallsInPlace'
    BY <1>2 DEF TypeOK, CheckPath, Goto, Finish, CallsInPlace, Writing, IsRead, Operations
  <2>5. ReadersShare'
    BY <1>2 DEF TypeOK, CheckPath, Goto, Finish, ReadersShare
  <2>6. StreamKept'
    BY <1>2 DEF TypeOK, CheckPath, Goto, Finish, StreamKept, Succeeded
  <2>7. OneCreator'
    BY <1>2 DEF TypeOK, CheckPath, Goto, Finish, OneCreator
  <2>8. Creator'
    BY <1>2 DEF TypeOK, CheckPath, Goto, Finish, Creator, Succeeded
  <2> QED
    BY <2>1, <2>2, <2>3, <2>4, <2>5, <2>6, <2>7, <2>8
<1>3. ASSUME NEW p \in Procs, Link(p) PROVE IInv'
  <2>a. db' = db \/ (db = Absent /\ db' = Applied(<< >>, req[p]))
    BY <1>3 DEF Link
  <2>b. db'.kind # "absent"
    BY <1>3 DEF Link, Applied, KindOf, Published
  <2>c. db' # db => \A q \in Procs : pc[q] \notin Writing \union {"begin", "open", "fetch"}
    BY <2>a DEF Published, Absent
  <2>1. TransactionIsolated'
    BY <1>3, <2>c DEF TypeOK, Link, Goto, Finish, TransactionIsolated, Writing
  <2>2. ReadsConsistent'
    BY <1>3 DEF TypeOK, Link, Goto, Finish, ReadsConsistent
  <2>3. Published'
    BY <1>3, <2>b, <2>c DEF TypeOK, Link, Goto, Finish, Published, Writing
  <2>4. CallsInPlace'
    BY <1>3 DEF TypeOK, Link, Goto, Finish, CallsInPlace, Writing, IsRead, Operations
  <2>5. ReadersShare'
    BY <1>3, <2>c DEF TypeOK, Link, Goto, Finish, ReadersShare
  <2>6. StreamKept'
    <3>1. CASE db # Absent
      BY <1>3, <3>1 DEF TypeOK, Link, Goto, Finish, StreamKept, Succeeded
    <3>2. CASE db = Absent
      <4>a. db' = Applied(<< >>, req[p])
        BY <1>3, <3>2 DEF Link
      <4>1. << >> \in Seq(Record) /\ req[p].recs \in Seq(Record)
        BY DEF TypeOK, Request
      <4>2. req[p].op = "append_jsonl" =>
              db'.kind = "jsonl" /\ Events(req[p].recs) \subseteq Events(db'.recs)
        BY <4>1, <4>a, EventsConcat DEF Applied, KindOf
      <4>3. \A r \in acked : r.op # "append_jsonl"
        BY <3>2 DEF StreamKept, Absent
      <4>4. \A q \in Procs : Succeeded(q) => req[q].op # "append_jsonl"
        BY <3>2 DEF StreamKept, Absent
      <4> QED
        BY <1>3, <3>2, <4>2, <4>3, <4>4 DEF TypeOK, Link, Goto, Finish, StreamKept, Succeeded
    <3> QED
      BY <3>1, <3>2
  <2>7. OneCreator'
    BY <1>3 DEF TypeOK, Link, Goto, Finish, OneCreator
  <2>8. Creator'
    <3>1. CASE db # Absent
      BY <1>3, <2>b, <3>1 DEF TypeOK, Link, Goto, Finish, Creator, Succeeded, Published
    <3>2. CASE db = Absent
      <4>1. /\ \A r \in acked : r.op # "create_object"
            /\ \A q \in Procs : Succeeded(q) => req[q].op # "create_object"
        BY <3>2 DEF Creator, Absent
      <4> QED
        BY <1>3, <2>b, <3>2, <4>1 DEF TypeOK, Link, Goto, Finish, Creator, Succeeded
    <3> QED
      BY <3>1, <3>2
  <2> QED
    BY <2>1, <2>2, <2>3, <2>4, <2>5, <2>6, <2>7, <2>8
<1>4. ASSUME NEW p \in Procs, Begin(p) PROVE IInv'
  <2>1. TransactionIsolated'
    BY <1>4, ObjectStoreAssumption DEF TypeOK, Begin, Goto, TransactionIsolated
  <2>2. ReadsConsistent'
    BY <1>4 DEF TypeOK, Begin, Goto, ReadsConsistent
  <2>3. Published'
    BY <1>4 DEF TypeOK, Begin, Goto, Published, Writing
  <2>4. CallsInPlace'
    BY <1>4 DEF TypeOK, Begin, Goto, CallsInPlace, Writing
  <2>5. ReadersShare'
    BY <1>4 DEF TypeOK, Begin, Goto, ReadersShare
  <2>6. StreamKept'
    BY <1>4 DEF TypeOK, Begin, Goto, StreamKept, Succeeded
  <2>7. OneCreator'
    BY <1>4 DEF TypeOK, Begin, Goto, OneCreator
  <2>8. Creator'
    BY <1>4 DEF TypeOK, Begin, Goto, Creator, Succeeded
  <2> QED
    BY <2>1, <2>2, <2>3, <2>4, <2>5, <2>6, <2>7, <2>8
<1>5. ASSUME NEW p \in Procs, RejectKind(p) PROVE IInv'
  <2>1. TransactionIsolated'
    BY <1>5 DEF TypeOK, RejectKind, Goto, Finish, TransactionIsolated
  <2>2. ReadsConsistent'
    BY <1>5 DEF TypeOK, RejectKind, Goto, Finish, ReadsConsistent
  <2>3. Published'
    BY <1>5 DEF TypeOK, RejectKind, Goto, Finish, Published, Writing
  <2>4. CallsInPlace'
    BY <1>5 DEF TypeOK, RejectKind, Goto, Finish, CallsInPlace, Writing
  <2>5. ReadersShare'
    BY <1>5 DEF TypeOK, RejectKind, Goto, Finish, ReadersShare
  <2>6. StreamKept'
    BY <1>5 DEF TypeOK, RejectKind, Goto, Finish, StreamKept, Succeeded, CallsInPlace
  <2>7. OneCreator'
    BY <1>5 DEF TypeOK, RejectKind, Goto, Finish, OneCreator
  <2>8. Creator'
    BY <1>5 DEF TypeOK, RejectKind, Goto, Finish, Creator, Succeeded
  <2> QED
    BY <2>1, <2>2, <2>3, <2>4, <2>5, <2>6, <2>7, <2>8
<1>6. ASSUME NEW p \in Procs, Prepare(p) PROVE IInv'
  <2>1. TransactionIsolated'
    BY <1>6 DEF TypeOK, Prepare, Goto, TransactionIsolated
  <2>2. ReadsConsistent'
    BY <1>6 DEF TypeOK, Prepare, Goto, ReadsConsistent
  <2>3. Published'
    BY <1>6 DEF TypeOK, Prepare, Goto, Published, Writing
  <2>4. CallsInPlace'
    BY <1>6 DEF TypeOK, Prepare, Goto, CallsInPlace, Writing
  <2>5. ReadersShare'
    BY <1>6 DEF TypeOK, Prepare, Goto, ReadersShare, TransactionIsolated
  <2>6. StreamKept'
    BY <1>6 DEF TypeOK, Prepare, Goto, StreamKept, Succeeded
  <2>7. OneCreator'
    BY <1>6 DEF TypeOK, Prepare, Goto, OneCreator
  <2>8. Creator'
    BY <1>6 DEF TypeOK, Prepare, Goto, Creator, Succeeded
  <2> QED
    BY <2>1, <2>2, <2>3, <2>4, <2>5, <2>6, <2>7, <2>8
<1>7. ASSUME NEW p \in Procs, Flush(p) PROVE IInv'
  <2>1. TransactionIsolated'
    BY <1>7 DEF TypeOK, Flush, Goto, TransactionIsolated
  <2>2. ReadsConsistent'
    BY <1>7 DEF TypeOK, Flush, Goto, ReadsConsistent
  <2>3. Published'
    BY <1>7 DEF TypeOK, Flush, Goto, Published, Writing
  <2>4. CallsInPlace'
    BY <1>7 DEF TypeOK, Flush, Goto, CallsInPlace, Writing
  <2>5. ReadersShare'
    BY <1>7 DEF TypeOK, Flush, Goto, ReadersShare, TransactionIsolated
  <2>6. StreamKept'
    BY <1>7 DEF TypeOK, Flush, Goto, StreamKept, Succeeded
  <2>7. OneCreator'
    BY <1>7 DEF TypeOK, Flush, Goto, OneCreator
  <2>8. Creator'
    BY <1>7 DEF TypeOK, Flush, Goto, Creator, Succeeded
  <2> QED
    BY <2>1, <2>2, <2>3, <2>4, <2>5, <2>6, <2>7, <2>8
<1>8. ASSUME NEW p \in Procs, Commit(p) PROVE IInv'
  <2>a. /\ req[p].op \in {"write_object", "append_jsonl"}
        /\ seen[p] = db
        /\ db.kind = KindOf(req[p].op)
    BY <1>8 DEF Commit, CallsInPlace, TransactionIsolated, Writing
  <2>b. db' = Applied(db.recs, req[p]) /\ db'.kind = db.kind
    BY <1>8, <2>a DEF Commit, Applied
  <2>c. db.kind # "absent"
    BY <1>8 DEF Commit, Published, Writing
  <2>1. TransactionIsolated'
    BY <1>8 DEF TypeOK, Commit, Goto, Finish, TransactionIsolated
  <2>2. ReadsConsistent'
    BY <1>8 DEF TypeOK, Commit, Goto, Finish, ReadsConsistent
  <2>3. Published'
    BY <1>8, <2>b, <2>c DEF TypeOK, Commit, Goto, Finish, Published, Writing
  <2>4. CallsInPlace'
    BY <1>8 DEF TypeOK, Commit, Goto, Finish, CallsInPlace, Writing
  <2>5. ReadersShare'
    BY <1>8 DEF TypeOK, Commit, Goto, Finish, ReadersShare, TransactionIsolated
  <2>6. StreamKept'
    <3>1. db.recs \in Seq(Record) /\ req[p].recs \in Seq(Record)
      BY DEF TypeOK, Request, Document
    <3>2. CASE req[p].op = "append_jsonl"
      <4>1. Events(db'.recs) = Events(db.recs) \union Events(req[p].recs)
        BY <2>b, <3>1, <3>2, EventsConcat DEF Applied
      <4>2. db'.kind = "jsonl"
        BY <2>a, <2>b, <3>2 DEF KindOf
      <4> QED
        BY <1>8, <4>1, <4>2 DEF TypeOK, Commit, Goto, Finish, StreamKept, Succeeded
    <3>3. CASE req[p].op = "write_object"
      <4>1. db.kind = "object"
        BY <2>a, <3>3 DEF KindOf
      <4> QED
        BY <1>8, <3>3, <4>1 DEF TypeOK, Commit, Goto, Finish, StreamKept, Succeeded
    <3> QED
      BY <2>a, <3>2, <3>3
  <2>7. OneCreator'
    BY <1>8 DEF TypeOK, Commit, Goto, Finish, OneCreator
  <2>8. Creator'
    BY <1>8, <2>a, <2>b, <2>c DEF TypeOK, Commit, Goto, Finish, Creator, Succeeded
  <2> QED
    BY <2>1, <2>2, <2>3, <2>4, <2>5, <2>6, <2>7, <2>8
<1>9. ASSUME NEW p \in Procs, BusyTimeout(p) PROVE IInv'
  <2>1. TransactionIsolated'
    BY <1>9 DEF TypeOK, BusyTimeout, Goto, Finish, TransactionIsolated
  <2>2. ReadsConsistent'
    BY <1>9 DEF TypeOK, BusyTimeout, Goto, Finish, ReadsConsistent
  <2>3. Published'
    BY <1>9 DEF TypeOK, BusyTimeout, Goto, Finish, Published, Writing
  <2>4. CallsInPlace'
    BY <1>9 DEF TypeOK, BusyTimeout, Goto, Finish, CallsInPlace, Writing
  <2>5. ReadersShare'
    BY <1>9 DEF TypeOK, BusyTimeout, Goto, Finish, ReadersShare
  <2>6. StreamKept'
    BY <1>9 DEF TypeOK, BusyTimeout, Goto, Finish, StreamKept, Succeeded
  <2>7. OneCreator'
    BY <1>9 DEF TypeOK, BusyTimeout, Goto, Finish, OneCreator
  <2>8. Creator'
    BY <1>9 DEF TypeOK, BusyTimeout, Goto, Finish, Creator, Succeeded
  <2> QED
    BY <2>1, <2>2, <2>3, <2>4, <2>5, <2>6, <2>7, <2>8
<1>10. ASSUME NEW p \in Procs, Open(p) PROVE IInv'
  <2>1. TransactionIsolated'
    BY <1>10 DEF TypeOK, Open, Goto, Finish, TransactionIsolated
  <2>2. ReadsConsistent'
    BY <1>10 DEF TypeOK, Open, Goto, Finish, ReadsConsistent
  <2>3. Published'
    BY <1>10 DEF TypeOK, Open, Goto, Finish, Published, Writing
  <2>4. CallsInPlace'
    BY <1>10 DEF TypeOK, Open, Goto, Finish, CallsInPlace, Writing
  <2>5. ReadersShare'
    BY <1>10 DEF TypeOK, Open, Goto, Finish, ReadersShare, Committing
  <2>6. StreamKept'
    BY <1>10 DEF TypeOK, Open, Goto, Finish, StreamKept, Succeeded
  <2>7. OneCreator'
    BY <1>10 DEF TypeOK, Open, Goto, Finish, OneCreator
  <2>8. Creator'
    BY <1>10 DEF TypeOK, Open, Goto, Finish, Creator, Succeeded
  <2> QED
    BY <2>1, <2>2, <2>3, <2>4, <2>5, <2>6, <2>7, <2>8
<1>11. ASSUME NEW p \in Procs, Fetch(p) PROVE IInv'
  <2>1. TransactionIsolated'
    BY <1>11 DEF TypeOK, Fetch, Goto, Finish, TransactionIsolated
  <2>2. ReadsConsistent'
    BY <1>11 DEF TypeOK, Fetch, Goto, Finish, ReadsConsistent, ReadersShare
  <2>3. Published'
    BY <1>11 DEF TypeOK, Fetch, Goto, Finish, Published, Writing
  <2>4. CallsInPlace'
    BY <1>11 DEF TypeOK, Fetch, Goto, Finish, CallsInPlace, Writing
  <2>5. ReadersShare'
    BY <1>11 DEF TypeOK, Fetch, Goto, Finish, ReadersShare
  <2>6. StreamKept'
    BY <1>11 DEF TypeOK, Fetch, Goto, Finish, StreamKept, Succeeded
  <2>7. OneCreator'
    BY <1>11 DEF TypeOK, Fetch, Goto, Finish, OneCreator
  <2>8. Creator'
    BY <1>11 DEF TypeOK, Fetch, Goto, Finish, Creator, Succeeded
  <2> QED
    BY <2>1, <2>2, <2>3, <2>4, <2>5, <2>6, <2>7, <2>8
<1>12. ASSUME NEW p \in Procs, Return(p) PROVE IInv'
  <2>1. TransactionIsolated'
    BY <1>12 DEF TypeOK, Return, Goto, TransactionIsolated
  <2>2. ReadsConsistent'
    BY <1>12 DEF TypeOK, Return, Goto, ReadsConsistent
  <2>3. Published'
    BY <1>12 DEF TypeOK, Return, Goto, Published, Writing
  <2>4. CallsInPlace'
    BY <1>12 DEF TypeOK, Return, Goto, CallsInPlace, Writing
  <2>5. ReadersShare'
    BY <1>12 DEF TypeOK, Return, Goto, ReadersShare
  <2>6. StreamKept'
    BY <1>12 DEF TypeOK, Return, Goto, StreamKept, Succeeded
  <2>7. OneCreator'
    BY <1>12 DEF TypeOK, Return, Goto, OneCreator, Creator, Succeeded
  <2>8. Creator'
    BY <1>12 DEF TypeOK, Return, Goto, Creator, Succeeded
  <2> QED
    BY <2>1, <2>2, <2>3, <2>4, <2>5, <2>6, <2>7, <2>8
<1>13. ASSUME NEW p \in Procs, Crash(p) PROVE IInv'
  <2>1. TransactionIsolated'
    BY <1>13 DEF TypeOK, Crash, Goto, TransactionIsolated
  <2>2. ReadsConsistent'
    BY <1>13 DEF TypeOK, Crash, Goto, ReadsConsistent
  <2>3. Published'
    BY <1>13 DEF TypeOK, Crash, Goto, Published, Writing
  <2>4. CallsInPlace'
    BY <1>13 DEF TypeOK, Crash, Goto, CallsInPlace, Writing
  <2>5. ReadersShare'
    BY <1>13 DEF TypeOK, Crash, Goto, ReadersShare
  <2>6. StreamKept'
    BY <1>13 DEF TypeOK, Crash, Goto, StreamKept, Succeeded
  <2>7. OneCreator'
    BY <1>13 DEF TypeOK, Crash, Goto, OneCreator
  <2>8. Creator'
    BY <1>13 DEF TypeOK, Crash, Goto, Creator, Succeeded
  <2> QED
    BY <2>1, <2>2, <2>3, <2>4, <2>5, <2>6, <2>7, <2>8
<1>14. CASE UNCHANGED vars
  BY <1>14 DEF vars, TypeOK, TransactionIsolated, ReadsConsistent, Published, CallsInPlace,
     ReadersShare, StreamKept, OneCreator, Creator, Writing, Succeeded
<1> QED
  BY <1>1, <1>2, <1>3, <1>4, <1>5, <1>6, <1>7, <1>8, <1>9, <1>10, <1>11, <1>12, <1>13, <1>14
  DEF Next, Step

-----------------------------------------------------------------------------
\* The strengthening is an invariant.
THEOREM Inductive == Spec => []IInv
<1>1. Init => IInv
  BY IInvInit
<1>2. IInv /\ TypeOK' /\ [Next]_vars => IInv'
  BY IInvNext
<1> QED
  BY <1>1, <1>2, TypeCorrect, PTL DEF Spec

\* No acknowledged event is ever lost, for any number of callers and crashes.
THEOREM NoAckedEventLost == Spec => []AckedEventsKept
<1>1. IInv => AckedEventsKept
  BY DEF IInv, StreamKept, AckedEventsKept
<1> QED
  BY <1>1, Inductive, PTL

\* At most one exclusive creation of a path is ever acknowledged.
THEOREM CreationExclusive == Spec => []OneCreator
<1>1. IInv => OneCreator
  BY DEF IInv
<1> QED
  BY <1>1, Inductive, PTL

\* A transaction is alone, and its reading is current until it commits.
THEOREM Isolation == Spec => []TransactionIsolated
<1>1. IInv => TransactionIsolated
  BY DEF IInv
<1> QED
  BY <1>1, Inductive, PTL

\* No reader ever meets a manifest and records of different commits.
THEOREM NoTornRead == Spec => []ReadsConsistent
<1>1. IInv => ReadsConsistent
  BY DEF IInv
<1> QED
  BY <1>1, Inductive, PTL
-----------------------------------------------------------------------------
(***************************************************************************)
(* ObjectStore implements AtomicStore: the link that wins and the deletion *)
(* of the journal are the instants a writing call takes effect, the last   *)
(* query of a reader the instant it observes, and every other step is      *)
(* invisible.                                                              *)
(***************************************************************************)

phases == [p \in Procs |-> Phase(p)]

Got(p) == IF Phase(p) = "observed" THEN seen[p] ELSE Absent

gots == [p \in Procs |-> Got(p)]

\* A step of caller p leaves the other callers where they are.
OnlyCaller(p) ==
  \A q \in Procs : q # p => pc'[q] = pc[q] /\ res'[q] = res[q] /\ seen'[q] = seen[q]

\* Then it changes the abstract state of that caller only.
LEMMA OthersKeepPhase ==
  ASSUME NEW p \in Procs, OnlyCaller(p)
  PROVE  /\ phases' = [phases EXCEPT ![p] = Phase(p)']
         /\ gots' = [gots EXCEPT ![p] = Got(p)']
<1>1. \A q \in Procs : q # p => Phase(q)' = Phase(q)
  BY DEF Phase, OnlyCaller
<1>2. \A q \in Procs : q # p => Got(q)' = Got(q)
  BY <1>1 DEF OnlyCaller, Got
<1> QED
  BY <1>1, <1>2 DEF phases, gots

\* A step inside a call is invisible.
LEMMA Stutters ==
  ASSUME NEW p \in Procs, OnlyCaller(p), UNCHANGED <<db, req>>,
         Phase(p) = "pending", Phase(p)' = "pending"
  PROVE  UNCHANGED Atomic!vars
<1>1. phases' = phases
  BY OthersKeepPhase DEF phases
<1>2. gots' = gots
  BY OthersKeepPhase DEF gots, Got
<1> QED
  BY <1>1, <1>2 DEF Atomic!vars, phases, gots, Got

\* A step that ends a call without effect is a refusal.
LEMMA Refuses ==
  ASSUME NEW p \in Procs, OnlyCaller(p), UNCHANGED <<db, req>>,
         Phase(p) = "pending", Phase(p)' = "refused"
  PROVE  Atomic!Next
<1>1. phases[p] = "pending" /\ phases' = [phases EXCEPT ![p] = "refused"]
  BY OthersKeepPhase DEF phases
<1>2. gots' = gots
  BY OthersKeepPhase DEF gots, Got
<1> QED
  BY <1>1, <1>2 DEF Atomic!Next, Atomic!Refuse, phases, gots, Got

\* A step that ends a call with its effect is its linearization point.
LEMMA Applies ==
  ASSUME NEW p \in Procs, OnlyCaller(p), UNCHANGED req,
         Phase(p) = "pending", Phase(p)' = "applied",
         ~IsRead(req[p].op), db.kind \in {"absent", KindOf(req[p].op)},
         req[p].op = "create_object" => db = Absent,
         db' = Applied(db.recs, req[p])
  PROVE  Atomic!Next
<1>1. phases[p] = "pending" /\ phases' = [phases EXCEPT ![p] = "applied"]
  BY OthersKeepPhase DEF phases
<1>2. gots' = gots
  BY OthersKeepPhase DEF gots, Got
<1>3. db' = Atomic!Applied(db, req[p])
  BY DEF Applied, Atomic!Applied, KindOf, Atomic!KindOf
<1>4. /\ ~Atomic!IsRead(req[p].op)
      /\ db.kind \in {"absent", Atomic!KindOf(req[p].op)}
      /\ req[p].op = "create_object" => db = Atomic!Absent
  BY DEF IsRead, Atomic!IsRead, KindOf, Atomic!KindOf, Absent, Atomic!Absent
<1>5. Atomic!Apply(p)
  BY <1>1, <1>2, <1>3, <1>4 DEF Atomic!Apply, phases, gots, Got
<1> QED
  BY <1>5 DEF Atomic!Next

\* The caller learns the outcome or dies.
LEMMA Leaves ==
  ASSUME NEW p \in Procs, OnlyCaller(p), UNCHANGED <<db, req>>,
         Phase(p) # "idle", Phase(p)' = "idle"
  PROVE  Atomic!Next
<1>1. phases[p] # "idle" /\ phases' = [phases EXCEPT ![p] = "idle"]
  BY OthersKeepPhase DEF phases
<1>2. gots' = [gots EXCEPT ![p] = Atomic!Absent]
  BY OthersKeepPhase DEF gots, Got, Absent, Atomic!Absent
<1>3. Atomic!Leave(p)
  BY <1>1, <1>2 DEF Atomic!Leave, phases, gots, Got
<1> QED
  BY <1>3 DEF Atomic!Next

-----------------------------------------------------------------------------
\* The empty path is the absent document.
LEMMA RefinementInit == Init => Atomic!Init
  BY DEF Init, Atomic!Init, Phase, Absent, Atomic!Absent, NoRequest, Atomic!NoRequest

\* Every step of the file protocol is a step of the atomic store or invisible.
LEMMA RefinementNext ==
  IInv /\ TypeOK' /\ [Next]_vars => [Atomic!Next]_(Atomic!vars)
<1> SUFFICES ASSUME IInv, TypeOK', [Next]_vars PROVE [Atomic!Next]_(Atomic!vars)
  OBVIOUS
<1> TypeOK
  BY DEF IInv
<1>1. ASSUME NEW p \in Procs, Call(p) PROVE Atomic!Next
  <2>1. Phase(p) = "idle" /\ Phase(p)' = "pending" /\ OnlyCaller(p)
    BY <1>1 DEF Call, Goto, Phase, TypeOK, OnlyCaller
  <2>2. phases[p] = "idle" /\ phases' = [phases EXCEPT ![p] = "pending"]
    BY <2>1, OthersKeepPhase DEF phases
  <2>3. gots' = gots
    BY <2>1, OthersKeepPhase DEF gots, Got
  <2>4. \E r \in Requests : req' = [req EXCEPT ![p] = r]
    <3>1. calls[p] \in 0..MaxCalls
      BY <1>1, ObjectStoreAssumption DEF Call, TypeOK
    <3>2. CallsOf(p, calls[p]) \subseteq Requests
      BY <3>1 DEF Requests
    <3> QED
      BY <1>1, <3>2 DEF Call
  <2>5. Atomic!Invoke(p)
    BY <1>1, <2>2, <2>3, <2>4 DEF Call, Atomic!Invoke, phases, gots, Got
  <2> QED
    BY <2>5 DEF Atomic!Next
<1>2. ASSUME NEW p \in Procs, CheckPath(p) PROVE Atomic!Next \/ UNCHANGED Atomic!vars
  <2>1. OnlyCaller(p) /\ Phase(p) = "pending" /\ Phase(p)' \in {"pending", "refused"}
    BY <1>2 DEF CheckPath, Goto, Finish, Phase, TypeOK, OnlyCaller
  <2> QED
    BY <1>2, <2>1, Stutters, Refuses DEF CheckPath
<1>3. ASSUME NEW p \in Procs, Link(p) PROVE Atomic!Next \/ UNCHANGED Atomic!vars
  <2>1. OnlyCaller(p) /\ Phase(p) = "pending"
    BY <1>3 DEF Link, Goto, Finish, Phase, TypeOK, OnlyCaller
  <2>2. CASE db = Absent
    <3>1. Phase(p)' = "applied" /\ db' = Applied(db.recs, req[p])
      BY <1>3, <2>2 DEF Link, Finish, Goto, Phase, TypeOK, Absent
    <3>2. ~IsRead(req[p].op) /\ db.kind = "absent"
      BY <1>3, <2>2 DEF Link, IInv, CallsInPlace, Absent
    <3> QED
      BY <1>3, <2>1, <2>2, <3>1, <3>2, Applies DEF Link
  <2>3. CASE db # Absent
    <3>1. Phase(p)' \in {"pending", "refused"}
      BY <1>3, <2>3 DEF Link, Finish, Goto, Phase, TypeOK
    <3> QED
      BY <1>3, <2>1, <2>3, <3>1, Stutters, Refuses DEF Link
  <2> QED
    BY <2>2, <2>3
<1>4. ASSUME NEW p \in Procs, Begin(p) PROVE UNCHANGED Atomic!vars
  <2>1. OnlyCaller(p) /\ Phase(p) = "pending" /\ Phase(p)' = "pending"
    BY <1>4 DEF Begin, Goto, Phase, TypeOK, OnlyCaller
  <2> QED
    BY <1>4, <2>1, Stutters DEF Begin
<1>5. ASSUME NEW p \in Procs, RejectKind(p) PROVE Atomic!Next
  <2>1. OnlyCaller(p) /\ Phase(p) = "pending" /\ Phase(p)' = "refused"
    BY <1>5 DEF RejectKind, Goto, Finish, Phase, TypeOK, OnlyCaller
  <2> QED
    BY <1>5, <2>1, Refuses DEF RejectKind
<1>6. ASSUME NEW p \in Procs, Prepare(p) PROVE UNCHANGED Atomic!vars
  <2>1. OnlyCaller(p) /\ Phase(p) = "pending" /\ Phase(p)' = "pending"
    BY <1>6 DEF Prepare, Goto, Phase, TypeOK, OnlyCaller
  <2> QED
    BY <1>6, <2>1, Stutters DEF Prepare
<1>7. ASSUME NEW p \in Procs, Flush(p) PROVE UNCHANGED Atomic!vars
  <2>1. OnlyCaller(p) /\ Phase(p) = "pending" /\ Phase(p)' = "pending"
    BY <1>7 DEF Flush, Goto, Phase, TypeOK, OnlyCaller
  <2> QED
    BY <1>7, <2>1, Stutters DEF Flush
<1>8. ASSUME NEW p \in Procs, Commit(p) PROVE Atomic!Next
  <2>1. OnlyCaller(p) /\ Phase(p) = "pending" /\ Phase(p)' = "applied"
    BY <1>8 DEF Commit, Goto, Finish, Phase, TypeOK, OnlyCaller
  <2>2. /\ req[p].op \in {"write_object", "append_jsonl"}
        /\ seen[p] = db
        /\ db.kind = KindOf(req[p].op)
    BY <1>8 DEF Commit, IInv, CallsInPlace, TransactionIsolated, Writing
  <2> QED
    BY <1>8, <2>1, <2>2, Applies DEF Commit, IsRead
<1>9. ASSUME NEW p \in Procs, BusyTimeout(p) PROVE Atomic!Next
  <2>1. OnlyCaller(p) /\ Phase(p) = "pending" /\ Phase(p)' = "refused"
    BY <1>9 DEF BusyTimeout, Goto, Finish, Phase, TypeOK, OnlyCaller
  <2> QED
    BY <1>9, <2>1, Refuses DEF BusyTimeout
<1>10. ASSUME NEW p \in Procs, Open(p) PROVE Atomic!Next \/ UNCHANGED Atomic!vars
  <2>1. OnlyCaller(p) /\ Phase(p) = "pending" /\ Phase(p)' \in {"pending", "refused"}
    BY <1>10 DEF Open, Goto, Finish, Phase, TypeOK, OnlyCaller
  <2> QED
    BY <1>10, <2>1, Stutters, Refuses DEF Open
<1>11. ASSUME NEW p \in Procs, Fetch(p) PROVE Atomic!Next
  <2>1. OnlyCaller(p) /\ Phase(p) = "pending" /\ Phase(p)' = "observed"
    BY <1>11 DEF Fetch, Goto, Finish, Phase, TypeOK, OnlyCaller, IInv, ReadersShare
  <2>2. phases[p] = "pending" /\ phases' = [phases EXCEPT ![p] = "observed"]
    BY <2>1, OthersKeepPhase DEF phases
  <2>3. seen'[p] = db
    BY <1>11 DEF Fetch, IInv, ReadersShare
  <2>4. gots' = [gots EXCEPT ![p] = db]
    BY <2>1, <2>3, OthersKeepPhase DEF Got
  <2>5. Atomic!IsRead(req[p].op) /\ db.kind = Atomic!KindOf(req[p].op)
    BY <1>11 DEF Fetch, IInv, CallsInPlace, ReadersShare, Atomic!IsRead, IsRead, Atomic!KindOf,
       KindOf
  <2>6. Atomic!Observe(p)
    BY <1>11, <2>2, <2>4, <2>5 DEF Fetch, Atomic!Observe, phases, gots, Got
  <2> QED
    BY <2>6 DEF Atomic!Next
<1>12. ASSUME NEW p \in Procs, Return(p) \/ Crash(p) PROVE Atomic!Next
  <2>1. OnlyCaller(p) /\ Phase(p) # "idle" /\ Phase(p)' = "idle"
    BY <1>12 DEF Return, Crash, Goto, Phase, TypeOK, OnlyCaller
  <2> QED
    BY <1>12, <2>1, Leaves DEF Return, Crash
<1>13. CASE UNCHANGED vars
  <2>1. phases' = phases /\ gots' = gots
    BY <1>13 DEF vars, phases, gots, Phase, Got
  <2> QED
    BY <1>13, <2>1 DEF vars, Atomic!vars, phases, gots, Got
<1> QED
  BY <1>1, <1>2, <1>3, <1>4, <1>5, <1>6, <1>7, <1>8, <1>9, <1>10, <1>11, <1>12,
     <1>13 DEF Next, Step

\* The store implements the atomic store, whatever the number of callers.
THEOREM Refinement == Spec => RefinesAtomicStore
<1>1. Init => Atomic!Init
  BY RefinementInit
<1>2. IInv /\ TypeOK' /\ [Next]_vars => [Atomic!Next]_(Atomic!vars)
  BY RefinementNext
<1> QED
  BY <1>1, <1>2, TypeCorrect, Inductive, PTL DEF Spec, RefinesAtomicStore, Atomic!Spec
-----------------------------------------------------------------------------
\* The steps from a place in a call to its end, of which waiting is none.
StepsAhead(l) ==
  CASE l = "exists"              -> 7
    [] l = "link"                -> 6
    [] l = "begin"               -> 5
    [] l = "txn"                 -> 4
    [] l \in {"pending", "open"} -> 3
    [] l \in {"flush", "fetch"}  -> 2
    [] l = "return"              -> 1
    [] OTHER                     -> 0

\* Every step of a caller is taken from what its call has ahead, and nothing but
\* a new call adds to it.
CallAdvances ==
  \A p \in Procs :
    /\ Step(p) => StepsAhead(pc'[p]) < StepsAhead(pc[p])
    /\ ~Call(p) => StepsAhead(pc'[p]) <= StepsAhead(pc[p])

\* (its values)
LEMMA StepsAheadIs ==
  /\ StepsAhead("exists") = 7 /\ StepsAhead("link") = 6 /\ StepsAhead("begin") = 5
  /\ StepsAhead("txn") = 4 /\ StepsAhead("pending") = 3 /\ StepsAhead("open") = 3
  /\ StepsAhead("flush") = 2 /\ StepsAhead("fetch") = 2 /\ StepsAhead("return") = 1
  /\ StepsAhead("idle") = 0
BY DEF StepsAhead

\* (and their range)
LEMMA StepsAheadNat == \A l \in Labels : StepsAhead(l) \in 0..7
BY DEF StepsAhead, Labels

\* A step of a call brings it nearer to its end and moves no other call.
LEMMA StepAdvances ==
  ASSUME TypeOK, NEW p \in Procs, Step(p)
  PROVE  /\ StepsAhead(pc'[p]) < StepsAhead(pc[p])
         /\ \A q \in Procs \ {p} : pc'[q] = pc[q]
<1>t. pc \in [Procs -> Labels]
  BY DEF TypeOK
<1>1. CASE CheckPath(p)
  BY <1>t, <1>1, StepsAheadIs DEF CheckPath, Goto, Finish
<1>2. CASE Link(p)
  BY <1>t, <1>2, StepsAheadIs DEF Link, Goto, Finish
<1>3. CASE Begin(p)
  BY <1>t, <1>3, StepsAheadIs DEF Begin, Goto, Finish
<1>4. CASE RejectKind(p)
  BY <1>t, <1>4, StepsAheadIs DEF RejectKind, Goto, Finish
<1>5. CASE Prepare(p)
  BY <1>t, <1>5, StepsAheadIs DEF Prepare, Goto, Finish
<1>6. CASE Flush(p)
  BY <1>t, <1>6, StepsAheadIs DEF Flush, Goto, Finish
<1>7. CASE Commit(p)
  BY <1>t, <1>7, StepsAheadIs DEF Commit, Goto, Finish
<1>8. CASE BusyTimeout(p)
  BY <1>t, <1>8, StepsAheadIs DEF BusyTimeout, Goto, Finish
<1>9. CASE Open(p)
  BY <1>t, <1>9, StepsAheadIs DEF Open, Goto, Finish
<1>10. CASE Fetch(p)
  BY <1>t, <1>10, StepsAheadIs DEF Fetch, Goto, Finish
<1>11. CASE Return(p)
  BY <1>t, <1>11, StepsAheadIs DEF Return, Goto, Finish
<1> QED
  BY <1>1, <1>2, <1>3, <1>4, <1>5, <1>6, <1>7, <1>8, <1>9, <1>10, <1>11 DEF Step

\* A call returns after at most seven steps of its caller, whatever the others
\* do: a refused or a lost attempt is never made again (_save, _load).
THEOREM CallAdvancesAlways == Spec => [][CallAdvances]_vars
<1>1. TypeOK /\ [Next]_vars => [CallAdvances]_vars
  <2> SUFFICES ASSUME TypeOK, Next, NEW p \in Procs
               PROVE  /\ Step(p) => StepsAhead(pc'[p]) < StepsAhead(pc[p])
                      /\ ~Call(p) => StepsAhead(pc'[p]) <= StepsAhead(pc[p])
    BY DEF CallAdvances
  <2>1. pc \in [Procs -> Labels] /\ StepsAhead(pc[p]) \in 0..7
    BY StepsAheadNat DEF TypeOK
  <2>2. PICK q \in Procs : Call(q) \/ Step(q) \/ Crash(q)
    BY DEF Next
  <2>3. Step(p) => StepsAhead(pc'[p]) < StepsAhead(pc[p])
    BY StepAdvances
  <2>4. ASSUME q = p, ~Call(p)  PROVE StepsAhead(pc'[p]) <= StepsAhead(pc[p])
    <3>1. CASE Step(p)
      <4>1. StepsAhead(pc'[p]) < StepsAhead(pc[p])
        BY <3>1, StepAdvances
      <4>2. pc'[p] \in Labels
        BY <2>1, <3>1 DEF Step, CheckPath, Link, Begin, RejectKind, Prepare, Flush, Commit,
           BusyTimeout, Open, Fetch, Return, Goto, Finish, Labels
      <4> QED
        BY <2>1, <4>1, <4>2, StepsAheadNat
    <3>2. CASE Crash(p)
      BY <2>1, <3>2, StepsAheadIs DEF Crash, Goto
    <3> QED
      BY <2>2, <2>4, <3>1, <3>2
  <2>5. ASSUME q # p  PROVE pc'[p] = pc[p]
    <3>1. CASE Step(q)
      BY <2>5, <3>1, StepAdvances
    <3>2. CASE Call(q) \/ Crash(q)
      BY <2>1, <2>5, <3>2 DEF Call, Crash, Goto
    <3> QED
      BY <2>2, <3>1, <3>2
  <2> QED
    BY <2>1, <2>3, <2>4, <2>5
<1> QED
  BY <1>1, TypeCorrect, PTL DEF Spec
=============================================================================
