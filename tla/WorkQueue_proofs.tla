-------------------------- MODULE WorkQueue_proofs --------------------------
(***************************************************************************)
(* Theorems about the two tables, for every set of keys, scan results,     *)
(* libraries and paths.                                                    *)
(***************************************************************************)
EXTENDS WorkQueue, TLAPS

\* What each row satisfies on its own; the invariants are its consequences.
RowOK(row) ==
    /\ row.status = "failed" => row.attempts > 0
    /\ row.err = "limit" => row.status = "done"
    /\ ~row.due => row.status \in {"failed", "deferred"}
    /\ row.status = "deferred" => row.priority # PriorityScan
    /\ row.status = "absent" => row.links = {}

\* A typed row that satisfies RowOK and is linked to scan results in P.
GoodRow(row, P) == row \in Row /\ RowOK(row) /\ row.links \subseteq P

QueueInv ==
    /\ wq \in [Key -> Row]
    /\ sr \in [ScanResult -> ScanStatus]
    /\ \A k \in Key : GoodRow(wq[k], Present)

\* The empty row is a good row.
LEMMA NoRowGood == \A P : GoodRow(NoRow, P)
  BY QueueAssumption DEF GoodRow, RowOK, NoRow, Row, Priority, PriorityScan,
     PriorityMiss, PriorityWebhook, Status

\* Rows stay typed when typed columns are replaced.
LEMMA ExceptRow ==
  ASSUME NEW row \in Row, NEW paths \in SUBSET Path,
         NEW links \in SUBSET ScanResult, NEW prio \in Priority,
         NEW due \in BOOLEAN, NEW err \in {"none", "limit", "cause"}
  PROVE  [row EXCEPT !.paths = paths, !.links = links, !.priority = prio,
                     !.due = due, !.err = err] \in Row
  BY DEF Row

\* Enqueue turns a good row into a good row, whatever its status.
LEMMA UpsertedGood ==
  ASSUME NEW P, NEW row, GoodRow(row, P), row.status # "absent",
         NEW dests \in SUBSET Path,
         NEW prio \in {PriorityScan, PriorityWebhook},
         NEW link, link \subseteq P, link \subseteq ScanResult
  PROVE  GoodRow(Upserted(row, dests, prio, link), P)
<1> DEFINE u == Upserted(row, dests, prio, link)
           paths == IF row.status \in {"done", "processing"} THEN row.paths
                    ELSE dests
           p == IF prio >= PriorityWebhook THEN prio
                ELSE IF row.status = "deferred" \/ row.priority > prio
                THEN row.priority ELSE prio
           due == IF \/ row.status = "pending"
                     \/ /\ row.status \in {"failed", "deferred"}
                        /\ prio >= PriorityWebhook
                  THEN TRUE ELSE row.due
           err == IF row.status = "pending" THEN "none" ELSE row.err
<1>1. row \in Row /\ RowOK(row) /\ row.links \subseteq P
  BY DEF GoodRow
<1>2. u = [row EXCEPT !.paths = paths, !.links = row.links \cup link,
                      !.priority = p, !.due = due, !.err = err]
  BY DEF Upserted
<1>3. p \in Priority /\ (row.status = "deferred" => p # PriorityScan)
  BY <1>1 DEF Row, RowOK, Priority, PriorityScan, PriorityMiss, PriorityWebhook
<1>4. due \in BOOLEAN /\ (row.due => due)
  BY <1>1 DEF Row
<1>5. paths \in SUBSET Path /\ err \in {"none", "limit", "cause"}
  BY <1>1 DEF Row
<1>10. row.links \cup link \in SUBSET ScanResult
  BY <1>1 DEF Row
<1>11. (row.err = "limit" /\ row.status = "done") \/ err \in {"none", "cause"}
  BY <1>1 DEF Row, RowOK
<1> HIDE DEF u, paths, p, due, err
<1>6. u \in Row
  BY <1>1, <1>2, <1>3, <1>4, <1>5, <1>10, ExceptRow
<1>7. /\ u.status = row.status /\ u.attempts = row.attempts
      /\ u.links = row.links \cup link /\ u.priority = p
      /\ u.due = due /\ u.err = err
  BY <1>1, <1>2 DEF Row
<1>8. GoodRow(u, P)
  BY <1>1, <1>3, <1>4, <1>6, <1>7, <1>11 DEF GoodRow, RowOK
<1> QED BY <1>8 DEF u

\* A new row is a good row.
LEMMA InsertedGood ==
  ASSUME NEW P, NEW dests \in SUBSET Path,
         NEW prio \in {PriorityScan, PriorityWebhook},
         NEW link, link \subseteq P, link \subseteq ScanResult,
         NEW stamp \in Gen \cup {0}
  PROVE  GoodRow(Inserted(dests, prio, link, stamp), P)
<1> DEFINE r == Inserted(dests, prio, link, stamp)
<1>1. NoRow \in Row
  BY NoRowGood DEF GoodRow
<1>2. prio \in Priority
  BY DEF Priority
<1>3. r \in Row
  BY <1>1, <1>2 DEF Inserted, Row, Status
<1>4. /\ r.status = "pending" /\ r.err = "none" /\ r.due = TRUE
      /\ r.links = link
  BY DEF Inserted, NoRow
<1> QED BY <1>3, <1>4 DEF GoodRow, RowOK

\* The prefix shared by the row-local operations: one row becomes another good
\* row and no scan result disappears.
LEMMA OneRow ==
  ASSUME QueueInv, NEW k \in Key, NEW r, GoodRow(r, Present),
         wq' = [wq EXCEPT ![k] = r],
         sr' \in [ScanResult -> ScanStatus],
         \A s \in ScanResult : sr[s] # "absent" => sr'[s] # "absent"
  PROVE  QueueInv'
<1>1. Present \subseteq Present'
  BY DEF Present
<1>2. \A j \in Key : wq'[j] = IF j = k THEN r ELSE wq[j]
  BY DEF QueueInv
<1>3. \A j \in Key : GoodRow(wq'[j], Present)
  BY <1>2 DEF QueueInv
<1>4. \A j \in Key : GoodRow(wq'[j], Present')
  BY <1>1, <1>3 DEF GoodRow
<1>5. wq' \in [Key -> Row]
  BY DEF QueueInv, GoodRow
<1> QED BY <1>4, <1>5 DEF QueueInv

\* The scan results a completing row writes back stay where they are.
LEMMA WriteBackTyped ==
  ASSUME QueueInv, NEW k \in Key, WriteBack(k)
  PROVE  /\ sr' \in [ScanResult -> ScanStatus]
         /\ \A s \in ScanResult : sr[s] # "absent" => sr'[s] # "absent"
  BY DEF WriteBack, QueueInv, ScanStatus

\* The claim and the worker's closing updates keep every row well formed.
LEMMA RowOps ==
  ASSUME QueueInv, NEW k \in Key,
         \/ Dequeue(k) \/ Complete(k) \/ Release(k) \/ Fail(k) \/ Defer(k)
         \/ RetireMiss(k) \/ Elapse(k)
  PROVE  QueueInv'
<1>1. GoodRow(wq[k], Present)
  BY DEF QueueInv
<1>2. wq[k] \in Row /\ RowOK(wq[k]) /\ wq[k].links \subseteq Present
  BY <1>1 DEF GoodRow
<1>3. sr \in [ScanResult -> ScanStatus]
  BY DEF QueueInv
<1>4. CASE Dequeue(k)
  <2> DEFINE r == [wq[k] EXCEPT !.status = "processing"]
  <2>1. GoodRow(r, Present)
    BY <1>2, <1>4 DEF GoodRow, RowOK, Row, Status, Dequeue, Ready, Retryable
  <2> QED BY <1>3, <1>4, <2>1, OneRow DEF Dequeue
<1>5. CASE Complete(k)
  <2> DEFINE r == [wq[k] EXCEPT !.status = "done", !.err = "none"]
  <2>1. GoodRow(r, Present)
    BY <1>2, <1>5 DEF GoodRow, RowOK, Row, Status, Complete
  <2> QED BY <1>5, <2>1, OneRow, WriteBackTyped DEF Complete
<1>6. CASE Release(k)
  <2> DEFINE r == [wq[k] EXCEPT !.status = "pending", !.err = "none"]
  <2>1. GoodRow(r, Present)
    BY <1>2, <1>6 DEF GoodRow, RowOK, Row, Status, Release
  <2> QED BY <1>3, <1>6, <2>1, OneRow DEF Release
<1>7. CASE Fail(k)
  <2> DEFINE a == Bump(wq[k].attempts, AttemptBound)
             r == [wq[k] EXCEPT !.status = "failed", !.attempts = a,
                                !.due = FALSE, !.err = "cause"]
  <2>1. a \in 0 .. AttemptBound /\ a > 0
    BY <1>2, QueueAssumption DEF Row, Bump
  <2>2. GoodRow(r, Present)
    <3> HIDE DEF a
    <3> QED BY <1>2, <1>7, <2>1 DEF GoodRow, RowOK, Row, Status, Fail
  <2>3. wq' = [wq EXCEPT ![k] = r] /\ sr' = sr
    BY <1>7 DEF Fail
  <2> HIDE DEF r
  <2> QED BY <1>3, <2>2, <2>3, OneRow
<1>8. CASE Defer(k)
  <2> DEFINE m == Bump(wq[k].miss, MissBound)
             r == [wq[k] EXCEPT !.status = "deferred", !.miss = m,
                                !.priority = PriorityMiss,
                                !.due = FALSE, !.err = "cause"]
  <2>1. m \in 0 .. MissBound
    BY <1>2, QueueAssumption DEF Row, Bump
  <2>2. GoodRow(r, Present)
    <3> HIDE DEF m
    <3>1. PriorityMiss \in Priority /\ PriorityMiss # PriorityScan
      BY DEF Priority, PriorityMiss, PriorityScan
    <3>2. r \in Row
      BY <1>2, <2>1, <3>1 DEF Row, Status
    <3>3. /\ r.status = "deferred" /\ r.err = "cause" /\ r.priority = PriorityMiss
          /\ r.links = wq[k].links
      BY <1>2 DEF Row
    <3> QED BY <1>2, <3>1, <3>2, <3>3 DEF GoodRow, RowOK
  <2>3. wq' = [wq EXCEPT ![k] = r] /\ sr' = sr
    BY <1>8 DEF Defer
  <2> HIDE DEF r
  <2> QED BY <1>3, <2>2, <2>3, OneRow
<1>9. CASE RetireMiss(k)
  <2> DEFINE r == [wq[k] EXCEPT !.status = "done", !.err = "limit"]
  <2>1. GoodRow(r, Present)
    BY <1>2, <1>9 DEF GoodRow, RowOK, Row, Status, RetireMiss
  <2> QED BY <1>9, <2>1, OneRow, WriteBackTyped DEF RetireMiss
<1>10. CASE Elapse(k)
  <2> DEFINE r == [wq[k] EXCEPT !.due = TRUE]
  <2>1. r \in Row
    BY <1>2 DEF Row
  <2>2. /\ r.status = wq[k].status /\ r.attempts = wq[k].attempts
        /\ r.err = wq[k].err /\ r.due = TRUE
        /\ r.priority = wq[k].priority /\ r.links = wq[k].links
    BY <1>2 DEF Row
  <2>3. wq' = [wq EXCEPT ![k] = r] /\ sr' = sr
    BY <1>10 DEF Elapse
  <2> HIDE DEF r
  <2>4. GoodRow(r, Present)
    BY <1>2, <2>1, <2>2 DEF GoodRow, RowOK
  <2> QED BY <1>3, <2>3, <2>4, OneRow
<1> QED BY <1>4, <1>5, <1>6, <1>7, <1>8, <1>9, <1>10

\* Enqueue, inserting or updating, keeps every row well formed.
LEMMA EnqueueStep ==
  ASSUME QueueInv, NEW k \in Key, NEW dests \in SUBSET Path,
         NEW prio \in {PriorityScan, PriorityWebhook},
         NEW link \in SUBSET ScanResult, NEW stamp \in Gen \cup {0},
         Enqueue(k, dests, prio, link, stamp)
  PROVE  QueueInv'
<1> DEFINE r == IF wq[k].status = "absent"
                THEN Inserted(dests, prio, link, stamp)
                ELSE Upserted(wq[k], dests, prio, link)
<1>1. GoodRow(wq[k], Present) /\ sr \in [ScanResult -> ScanStatus]
  BY DEF QueueInv
<1>2. link \subseteq Present /\ wq' = [wq EXCEPT ![k] = r] /\ sr' = sr
  BY DEF Enqueue
<1>3. GoodRow(r, Present)
  <2>1. CASE wq[k].status = "absent"
    BY <1>2, <2>1, InsertedGood
  <2>2. CASE wq[k].status # "absent"
    BY <1>1, <1>2, <2>2, UpsertedGood
  <2> QED BY <2>1, <2>2
<1> HIDE DEF r
<1> QED BY <1>1, <1>2, <1>3, OneRow

\* The two stamps touch no column the invariant is about but their own.
LEMMA StampStep ==
  ASSUME QueueInv, NEW k \in Key,
         \/ \E v \in {"yes", "no"} : SetInstrumentalResult(k, v)
         \/ \E o \in {"lyrics", "instrumental"} : SetOutcomeType(k, o)
  PROVE  QueueInv'
<1>1. wq[k] \in Row /\ RowOK(wq[k]) /\ wq[k].links \subseteq Present
  BY DEF QueueInv, GoodRow
<1>2. sr \in [ScanResult -> ScanStatus]
  BY DEF QueueInv
<1>3. CASE \E v \in {"yes", "no"} : SetInstrumentalResult(k, v)
  <2>1. PICK v \in {"yes", "no"} : SetInstrumentalResult(k, v)
    BY <1>3
  <2> DEFINE r == [wq[k] EXCEPT !.instr = v]
  <2>2. GoodRow(r, Present)
    BY <1>1 DEF GoodRow, RowOK, Row
  <2> QED BY <1>2, <2>1, <2>2, OneRow DEF SetInstrumentalResult
<1>4. CASE \E o \in {"lyrics", "instrumental"} : SetOutcomeType(k, o)
  <2>1. PICK o \in {"lyrics", "instrumental"} : SetOutcomeType(k, o)
    BY <1>4
  <2> DEFINE r == [wq[k] EXCEPT !.outcome = o]
  <2>2. GoodRow(r, Present)
    BY <1>1 DEF GoodRow, RowOK, Row
  <2> QED BY <1>2, <2>1, <2>2, OneRow DEF SetOutcomeType
<1> QED BY <1>3, <1>4

\* Rows a recheck or a reconcile puts back are good rows of the miss tier.
LEMMA RequeuedGood ==
  ASSUME NEW P, NEW row, GoodRow(row, P)
  PROVE  GoodRow(Requeued(row), P)
<1>1. PriorityMiss \in Priority /\ PriorityMiss # PriorityScan
  BY DEF Priority, PriorityMiss, PriorityScan
<1>2. row \in Row /\ row.links \subseteq P
  BY DEF GoodRow
<1>3. Requeued(row) \in Row
  BY <1>1, <1>2 DEF Requeued, Row, Status
<1>4. /\ Requeued(row).status = "deferred" /\ Requeued(row).err = "none"
      /\ Requeued(row).priority = PriorityMiss
      /\ Requeued(row).links = row.links
  BY <1>2 DEF Requeued, Row
<1> QED BY <1>1, <1>2, <1>3, <1>4 DEF GoodRow, RowOK

\* The webhook's deletion, queue retry and an instrumental reset keep the
\* rows well formed.
LEMMA OperatorRowStep ==
  ASSUME QueueInv, NEW k \in Key,
         Cleanup(k) \/ Retry(k) \/ ResetInstrumental(k)
  PROVE  QueueInv'
<1>1. GoodRow(wq[k], Present) /\ sr \in [ScanResult -> ScanStatus]
  BY DEF QueueInv
<1>2. wq[k] \in Row /\ RowOK(wq[k]) /\ wq[k].links \subseteq Present
  BY <1>1 DEF GoodRow
<1>3. CASE Cleanup(k)
  <2>1. wq' = [wq EXCEPT ![k] = NoRow] /\ sr' = sr
    BY <1>3 DEF Cleanup
  <2> QED BY <1>1, <2>1, NoRowGood, OneRow
<1>4. CASE Retry(k)
  <2> DEFINE r == [wq[k] EXCEPT !.status = "pending", !.attempts = 0,
                                !.due = TRUE, !.err = "none"]
  <2>1. r \in Row
    <3>1. 0 \in 0 .. AttemptBound
      BY QueueAssumption
    <3> QED BY <1>2, <3>1 DEF Row, Status
  <2>2. r.status = "pending" /\ r.err = "none" /\ r.due = TRUE
        /\ r.links = wq[k].links
    BY <1>2 DEF Row
  <2>3. GoodRow(r, Present)
    BY <1>2, <2>1, <2>2 DEF GoodRow, RowOK
  <2>4. wq' = [wq EXCEPT ![k] = r]
    BY <1>4 DEF Retry
  <2>5. /\ sr' \in [ScanResult -> ScanStatus]
        /\ \A s \in ScanResult : sr[s] # "absent" => sr'[s] # "absent"
    BY <1>1, <1>4 DEF Retry, ScanStatus
  <2> HIDE DEF r
  <2> QED BY <2>3, <2>4, <2>5, OneRow
<1>5. CASE ResetInstrumental(k)
  <2> DEFINE q == Requeued(wq[k])
             r == [q EXCEPT !.instr = "null", !.outcome = "null"]
  <2>1. GoodRow(q, Present)
    BY <1>1, RequeuedGood
  <2>2. wq' = [wq EXCEPT ![k] = r]
    BY <1>5 DEF ResetInstrumental
  <2> HIDE DEF q
  <2>4. q \in Row /\ RowOK(q) /\ q.links \subseteq Present
    BY <2>1 DEF GoodRow
  <2>5. r \in Row
    BY <2>4 DEF Row
  <2>6. /\ r.status = q.status /\ r.attempts = q.attempts /\ r.err = q.err
        /\ r.due = q.due /\ r.priority = q.priority /\ r.links = q.links
    BY <2>4 DEF Row
  <2>3. GoodRow(r, Present)
    <3> HIDE DEF r
    <3> QED BY <2>4, <2>5, <2>6 DEF GoodRow, RowOK
  <2>7. /\ sr' \in [ScanResult -> ScanStatus]
        /\ \A s \in ScanResult : sr[s] # "absent" => sr'[s] # "absent"
    BY <1>1, <1>5 DEF ResetInstrumental, ScanStatus
  <2> HIDE DEF r
  <2> QED BY <2>2, <2>3, <2>7, OneRow
<1> QED BY <1>3, <1>4, <1>5

\* The prefix shared by the operations on many rows.
LEMMA AllRows ==
  ASSUME NEW f, wq' = [k \in Key |-> f[k]],
         sr' \in [ScanResult -> ScanStatus],
         \A k \in Key : GoodRow(f[k], Present')
  PROVE  QueueInv'
<1>1. \A k \in Key : wq'[k] = f[k]
  OBVIOUS
<1>2. wq' \in [Key -> Row]
  BY DEF GoodRow
<1> QED BY <1>1, <1>2 DEF QueueInv

\* The bulk rechecks and queue clear keep every row well formed.
LEMMA RecheckStep ==
  ASSUME QueueInv, NEW scope \in Library \cup {"all"},
         RecheckDeferred(scope) \/ RecheckRetired(scope) \/ ClearDone
  PROVE  QueueInv'
<1>1. sr \in [ScanResult -> ScanStatus] /\ \A k \in Key : GoodRow(wq[k], Present)
  BY DEF QueueInv
<1>2. CASE RecheckDeferred(scope)
  <2> DEFINE hit == {k \in Key : wq[k].status = "deferred" /\ InScope(k, scope)}
             f == [k \in Key |-> IF k \in hit THEN [wq[k] EXCEPT !.due = TRUE]
                                 ELSE wq[k]]
  <2>1. ASSUME NEW k \in Key
        PROVE  GoodRow([wq[k] EXCEPT !.due = TRUE], Present)
    <3> DEFINE r == [wq[k] EXCEPT !.due = TRUE]
    <3>1. wq[k] \in Row /\ RowOK(wq[k]) /\ wq[k].links \subseteq Present
      BY <1>1 DEF GoodRow
    <3>2. r \in Row
      BY <3>1 DEF Row
    <3>3. RowOK(r) /\ r.links \subseteq Present
      BY <3>1 DEF RowOK, Row
    <3> QED  BY <3>2, <3>3 DEF GoodRow
  <2>2. \A k \in Key : GoodRow(f[k], Present)
    BY <1>1, <2>1
  <2>3. wq' = f /\ sr' = sr
    BY <1>2 DEF RecheckDeferred
  <2>4. Present' = Present
    BY <2>3 DEF Present
  <2>5. wq' = [k \in Key |-> f[k]]
    BY <2>3
  <2> HIDE DEF f
  <2> QED BY <1>1, <2>2, <2>3, <2>4, <2>5, AllRows
<1>3. CASE RecheckRetired(scope)
  <2> DEFINE hit == {k \in Key : /\ wq[k].status = "done" /\ wq[k].err = "limit"
                                 /\ InScope(k, scope)}
             f == [k \in Key |-> IF k \in hit THEN Requeued(wq[k]) ELSE wq[k]]
  <2>1. /\ sr' \in [ScanResult -> ScanStatus]
        /\ \A s \in ScanResult : sr[s] # "absent" => sr'[s] # "absent"
    BY <1>1, <1>3 DEF RecheckRetired, ScanStatus
  <2>2. Present \subseteq Present'
    BY <2>1 DEF Present
  <2>3. \A k \in Key : GoodRow(f[k], Present)
    BY <1>1, RequeuedGood
  <2>4. wq' = [k \in Key |-> f[k]]
    BY <1>3 DEF RecheckRetired
  <2>5. \A k \in Key : GoodRow(f[k], Present')
    BY <2>2, <2>3 DEF GoodRow
  <2> HIDE DEF f
  <2> QED BY <2>1, <2>4, <2>5, AllRows
<1>4. CASE ClearDone
  <2> DEFINE f == [k \in Key |-> IF wq[k].status = "done" THEN NoRow ELSE wq[k]]
  <2>1. wq' = f /\ sr' = sr
    BY <1>4 DEF ClearDone
  <2>2. \A k \in Key : GoodRow(f[k], Present)
    BY <1>1, NoRowGood
  <2>3. Present' = Present
    BY <2>1 DEF Present
  <2>4. wq' = [k \in Key |-> f[k]]
    BY <2>1
  <2> HIDE DEF f
  <2> QED BY <1>1, <2>1, <2>2, <2>3, <2>4, AllRows
<1> QED BY <1>2, <1>3, <1>4

\* A row that loses the links of a deleted library is a good row for what is
\* left of the scan results.
LEMMA DropLinksGood ==
  ASSUME NEW P, NEW gone, NEW row, GoodRow(row, P)
  PROVE  GoodRow(DropLinks(row, gone), P \ gone)
<1>1. row \in Row /\ RowOK(row) /\ row.links \subseteq P
  BY DEF GoodRow
<1>2. row.links \ gone \in SUBSET ScanResult
  BY <1>1 DEF Row
<1>3. DropLinks(row, gone) \in Row
  BY <1>1, <1>2 DEF DropLinks, Row
<1>4. /\ DropLinks(row, gone).links = row.links \ gone
      /\ DropLinks(row, gone).status = row.status
      /\ DropLinks(row, gone).attempts = row.attempts
      /\ DropLinks(row, gone).err = row.err
      /\ DropLinks(row, gone).due = row.due
      /\ DropLinks(row, gone).priority = row.priority
  BY <1>1 DEF DropLinks, Row
<1> QED BY <1>1, <1>3, <1>4 DEF GoodRow, RowOK

\* A row cut down by cancelByLibrary is well formed.
LEMMA CancelledGood ==
  ASSUME NEW P, NEW row, GoodRow(row, P), NEW lib
  PROVE  GoodRow(Cancelled(row, lib), P)
<1> DEFINE keep == {PathOf[s] : s \in row.links \ OfLibrary(lib)}
           cut == [row EXCEPT !.paths = row.paths \cap keep]
<1>1. row \in Row /\ RowOK(row) /\ row.links \subseteq P
  BY DEF GoodRow
<1>2. row.paths \cap keep \in SUBSET Path
  BY <1>1 DEF Row
<1>3. Cancelled(row, lib) \in {NoRow, row, cut}
  BY DEF Cancelled
<1>4. GoodRow(cut, P)
  <2> HIDE DEF keep
  <2>1. cut \in Row
    BY <1>1, <1>2 DEF Row
  <2>2. /\ cut.links = row.links /\ cut.status = row.status
        /\ cut.attempts = row.attempts /\ cut.err = row.err
        /\ cut.due = row.due /\ cut.priority = row.priority
    BY <1>1 DEF Row
  <2> QED BY <1>1, <2>1, <2>2 DEF GoodRow, RowOK
<1> HIDE DEF cut
<1> QED BY <1>3, <1>4, NoRowGood

\* Deleting a library's scan results leaves no link to them behind.
LEMMA LibraryOps ==
  ASSUME QueueInv, NEW lib \in Library, ScanClear(lib) \/ LibraryRemove(lib)
  PROVE  QueueInv'
<1>1. sr \in [ScanResult -> ScanStatus] /\ \A k \in Key : GoodRow(wq[k], Present)
  BY DEF QueueInv
<1>2. sr' = [s \in ScanResult |-> IF LibOf[s] = lib THEN "absent" ELSE sr[s]]
  BY DEF ScanClear, LibraryRemove
<1>3. sr' \in [ScanResult -> ScanStatus]
  BY <1>1, <1>2 DEF ScanStatus
<1>4. Present' = Present \ OfLibrary(lib)
  BY <1>2 DEF Present, OfLibrary
<1>5. CASE ScanClear(lib)
  <2> DEFINE f == [k \in Key |-> DropLinks(Cancelled(wq[k], lib), OfLibrary(lib))]
  <2>1. \A k \in Key : GoodRow(f[k], Present')
    BY <1>1, <1>4, CancelledGood, DropLinksGood
  <2>2. wq' = [k \in Key |-> f[k]]
    BY <1>5 DEF ScanClear
  <2> HIDE DEF f
  <2> QED BY <1>3, <2>1, <2>2, AllRows
<1>6. CASE LibraryRemove(lib)
  <2> DEFINE f == [k \in Key |-> DropLinks(wq[k], OfLibrary(lib))]
  <2>1. \A k \in Key : GoodRow(f[k], Present')
    BY <1>1, <1>4, DropLinksGood
  <2>2. wq' = [k \in Key |-> f[k]]
    BY <1>6 DEF LibraryRemove
  <2> HIDE DEF f
  <2> QED BY <1>3, <2>1, <2>2, AllRows
<1> QED BY <1>5, <1>6

\* A scan's upserts and SetStatus only change scan results, never remove one.
LEMMA ScanOps ==
  ASSUME QueueInv, ScanStep
  PROVE  QueueInv'
<1>1. sr \in [ScanResult -> ScanStatus] /\ \A k \in Key : GoodRow(wq[k], Present)
  BY DEF QueueInv
<1>2. wq' = wq
  BY DEF ScanStep, Upsert, SetStatus
<1>3. /\ sr' \in [ScanResult -> ScanStatus]
      /\ \A s \in ScanResult : sr[s] # "absent" => sr'[s] # "absent"
  BY <1>1 DEF ScanStep, Upsert, SetStatus, ScanStatus
<1>4. Present \subseteq Present'
  BY <1>3 DEF Present
<1> QED BY <1>1, <1>2, <1>3, <1>4 DEF QueueInv, GoodRow

-----------------------------------------------------------------------------
\* Every operation of the queue and of the scan repository keeps the
\* invariant of the rows.
LEMMA QueueInductive ==
  ASSUME QueueInv, [QueueNext]_queueVars
  PROVE  QueueInv'
<1>1. CASE UNCHANGED queueVars
  BY <1>1 DEF queueVars, QueueInv, Present
<1>2. CASE \E k \in Key : RowStep(k)
  <2>1. PICK k \in Key : RowStep(k)
    BY <1>2
  <2>2. CASE \E p \in Path, prio \in {PriorityScan, PriorityWebhook},
                link \in {{}} \cup {{s} : s \in ScanResult},
                stamp \in Gen \cup {0} : Enqueue(k, {p}, prio, link, stamp)
    BY <2>2, EnqueueStep
  <2> QED BY <2>1, <2>2, RowOps, StampStep, OperatorRowStep DEF RowStep
<1>3. CASE ScanStep
  BY <1>3, ScanOps
<1>4. CASE BulkStep
  BY <1>4, RecheckStep, LibraryOps DEF BulkStep
<1> QED BY <1>1, <1>2, <1>3, <1>4 DEF QueueNext

\* The inductive invariant of the two tables.
THEOREM QueueInvariant == QueueSpec => []QueueInv
<1>1. QueueInit => QueueInv
  BY NoRowGood DEF QueueInit, QueueInv, GoodRow, ScanStatus
<1>2. QueueInv /\ [QueueNext]_queueVars => QueueInv'
  BY QueueInductive
<1> QED BY <1>1, <1>2, PTL DEF QueueSpec

\* Whatever calls arrive in whatever order, both tables keep their types.
THEOREM QueueTyped == QueueSpec => []QueueTypeOK
<1>1. QueueInv => QueueTypeOK
  BY DEF QueueInv, QueueTypeOK
<1> QED BY <1>1, QueueInvariant, PTL

\* Failed rows have a failed attempt on record, only done rows carry the
\* miss-limit sentinel, and only failed or deferred rows wait.
THEOREM QueueStatusShape == QueueSpec => []StatusShape
<1>1. QueueInv => StatusShape
  BY DEF QueueInv, GoodRow, RowOK, StatusShape
<1> QED BY <1>1, QueueInvariant, PTL

\* A deferred row never sits in the scan tier.
THEOREM QueueDeferredBehindScan == QueueSpec => []DeferredBehindScan
<1>1. QueueInv => DeferredBehindScan
  BY DEF QueueInv, GoodRow, RowOK, DeferredBehindScan
<1> QED BY <1>1, QueueInvariant, PTL

\* Links never dangle.
THEOREM QueueLinksResolve == QueueSpec => []LinksResolve
<1>1. QueueInv => LinksResolve
  BY DEF QueueInv, GoodRow, RowOK, LinksResolve
<1> QED BY <1>1, QueueInvariant, PTL

-----------------------------------------------------------------------------
\* A row of the table still names a file to write: cancelByLibrary deletes a
\* row it leaves without destinations, and no other operation empties the
\* list, so a claimed item always has something to write.
HasPaths(row) == row.status # "absent" => row.paths # {}

Destined == \A k \in Key : HasPaths(wq[k])

\* A step that keeps a row's destinations and creates no row, or that drops
\* the row, keeps the destinations of all rows.
LEMMA RowPaths ==
  ASSUME QueueInv, Destined, NEW k \in Key, NEW r,
         wq' = [wq EXCEPT ![k] = r], HasPaths(r)
  PROVE  Destined'
  BY DEF QueueInv, Destined

\* Enqueue inserts a row with its destination, or overwrites destinations
\* with one, or keeps the ones there are.
LEMMA EnqueuePaths ==
  ASSUME QueueInv, Destined, NEW k \in Key, NEW p, NEW prio, NEW link,
         NEW stamp, Enqueue(k, {p}, prio, link, stamp)
  PROVE  Destined'
<1>1. wq[k] \in Row /\ HasPaths(wq[k])
  BY DEF QueueInv, Destined
<1>2. CASE wq[k].status = "absent"
  <2>1. wq' = [wq EXCEPT ![k] = Inserted({p}, prio, link, stamp)]
    BY <1>2 DEF Enqueue
  <2>2. Inserted({p}, prio, link, stamp).paths = {p}
    BY DEF Inserted, NoRow
  <2> QED BY <2>1, <2>2, RowPaths DEF HasPaths
<1>3. CASE wq[k].status # "absent"
  <2>1. wq' = [wq EXCEPT ![k] = Upserted(wq[k], {p}, prio, link)]
    BY <1>3 DEF Enqueue
  <2>2. Upserted(wq[k], {p}, prio, link).paths \in {wq[k].paths, {p}}
    BY <1>1 DEF Upserted, Row
  <2> QED BY <1>1, <1>3, <2>1, <2>2, RowPaths DEF HasPaths
<1> QED BY <1>2, <1>3

\* The other operations on one row keep its destinations or delete it.
LEMMA RowOpPaths ==
  ASSUME QueueInv, Destined, NEW k \in Key,
         \/ Dequeue(k) \/ Complete(k) \/ Release(k) \/ Fail(k) \/ Defer(k)
         \/ RetireMiss(k) \/ Elapse(k) \/ Cleanup(k) \/ Retry(k)
         \/ ResetInstrumental(k)
         \/ \E v \in {"yes", "no"} : SetInstrumentalResult(k, v)
         \/ \E o \in {"lyrics", "instrumental"} : SetOutcomeType(k, o)
  PROVE  Destined'
<1>1. wq[k] \in Row /\ HasPaths(wq[k]) /\ wq \in [Key -> Row]
  BY DEF QueueInv, Destined
<1>2. wq' = [wq EXCEPT ![k] = wq'[k]]
  BY <1>1 DEF Dequeue, Complete, Release, Fail, Defer, RetireMiss, Elapse,
     Cleanup, Retry, ResetInstrumental, SetInstrumentalResult, SetOutcomeType
<1>3. CASE Cleanup(k)
  BY <1>1, <1>2, <1>3, RowPaths DEF Cleanup, HasPaths, NoRow
<1>4. CASE Elapse(k)
  <2>1. wq'[k].paths = wq[k].paths /\ wq'[k].status = wq[k].status
    BY <1>1, <1>4 DEF Elapse, Row
  <2> QED BY <1>1, <1>2, <2>1, RowPaths DEF HasPaths
<1>5. CASE ~Cleanup(k) /\ ~Elapse(k)
  <2>1. wq[k].status # "absent"
    BY <1>5 DEF Dequeue, Ready, Retryable, Complete, Release, Fail, Defer,
       RetireMiss, Retry, ResetInstrumental, SetInstrumentalResult,
       SetOutcomeType
  <2>2. wq'[k].paths = wq[k].paths
    <3>1. CASE Dequeue(k) \/ Complete(k) \/ Release(k) \/ RetireMiss(k)
      <4>1. CASE Dequeue(k)
        BY <1>1, <4>1 DEF Dequeue, Row
      <4>2. CASE Complete(k)
        BY <1>1, <4>2 DEF Complete, Row
      <4>3. CASE Release(k)
        BY <1>1, <4>3 DEF Release, Row
      <4>4. CASE RetireMiss(k)
        BY <1>1, <4>4 DEF RetireMiss, Row
      <4> QED BY <3>1, <4>1, <4>2, <4>3, <4>4
    <3>2. CASE Fail(k)
      <4> DEFINE r == [wq[k] EXCEPT !.status = "failed",
                         !.attempts = Bump(wq[k].attempts, AttemptBound),
                         !.due = FALSE, !.err = "cause"]
      <4>1. wq'[k] = r
        BY <1>1, <3>2 DEF Fail
      <4>2. r.paths = wq[k].paths
        BY <1>1 DEF Row
      <4> QED BY <4>1, <4>2
    <3>3. CASE Defer(k)
      <4> DEFINE r == [wq[k] EXCEPT !.status = "deferred",
                         !.miss = Bump(wq[k].miss, MissBound),
                         !.priority = PriorityMiss,
                         !.due = FALSE, !.err = "cause"]
      <4>1. wq'[k] = r
        BY <1>1, <3>3 DEF Defer
      <4>2. r.paths = wq[k].paths
        BY <1>1 DEF Row
      <4> QED BY <4>1, <4>2
    <3>4. CASE Retry(k)
      <4> DEFINE r == [wq[k] EXCEPT !.status = "pending", !.attempts = 0,
                                    !.due = TRUE, !.err = "none"]
      <4>1. wq'[k] = r
        BY <1>1, <3>4 DEF Retry
      <4>2. r.paths = wq[k].paths
        BY <1>1 DEF Row
      <4> QED BY <4>1, <4>2
    <3>5. CASE ResetInstrumental(k)
      <4> DEFINE q == Requeued(wq[k])
                 r == [q EXCEPT !.instr = "null", !.outcome = "null"]
      <4>1. wq'[k] = r
        BY <1>1, <3>5 DEF ResetInstrumental
      <4>2. q.paths = wq[k].paths /\ DOMAIN q = DOMAIN wq[k]
        BY <1>1 DEF Requeued, Row
      <4>3. r.paths = q.paths
        BY <1>1, <4>2 DEF Requeued, Row
      <4> QED BY <4>1, <4>2, <4>3
    <3>6. CASE \/ \E v \in {"yes", "no"} : SetInstrumentalResult(k, v)
               \/ \E o \in {"lyrics", "instrumental"} : SetOutcomeType(k, o)
      BY <1>1, <3>6 DEF SetInstrumentalResult, SetOutcomeType, Row
    <3> QED BY <1>5, <3>1, <3>2, <3>3, <3>4, <3>5, <3>6
  <2> QED BY <1>1, <1>2, <2>1, <2>2, RowPaths DEF HasPaths
<1> QED BY <1>3, <1>4, <1>5

\* Deleting a library leaves no row without destinations.
LEMMA LibraryPaths ==
  ASSUME NEW row \in Row, HasPaths(row), NEW lib
  PROVE  /\ HasPaths(DropLinks(row, OfLibrary(lib)))
         /\ HasPaths(DropLinks(Cancelled(row, lib), OfLibrary(lib)))
<1> DEFINE keep == {PathOf[s] : s \in row.links \ OfLibrary(lib)}
           cut == [row EXCEPT !.paths = row.paths \cap keep]
<1>1. NoRow \in Row /\ HasPaths(NoRow)
  BY NoRowGood DEF GoodRow, NoRow, HasPaths
<1>2. ASSUME NEW r \in Row, NEW gone, HasPaths(r)
      PROVE  HasPaths(DropLinks(r, gone))
  <2>1. /\ DropLinks(r, gone).paths = r.paths
        /\ DropLinks(r, gone).status = r.status
    BY DEF DropLinks, Row
  <2> QED BY <1>2, <2>1 DEF HasPaths
<1>3. \/ Cancelled(row, lib) = row
      \/ Cancelled(row, lib) = NoRow
      \/ Cancelled(row, lib) = cut /\ row.paths \cap keep # {}
  BY DEF Cancelled
<1>4. cut \in Row /\ (row.paths \cap keep # {} => HasPaths(cut))
  <2> HIDE DEF keep
  <2>1. row.paths \cap keep \in SUBSET Path
    BY DEF Row
  <2>2. cut \in Row /\ cut.paths = row.paths \cap keep
    BY <2>1 DEF Row
  <2> HIDE DEF cut
  <2> QED BY <2>2 DEF HasPaths
<1>5. Cancelled(row, lib) \in Row /\ HasPaths(Cancelled(row, lib))
  <2> HIDE DEF keep, cut
  <2> QED BY <1>1, <1>3, <1>4
<1> QED BY <1>2, <1>5

\* The operations on many rows at once.
LEMMA BulkPaths ==
  ASSUME QueueInv, Destined, BulkStep
  PROVE  Destined'
<1>1. wq \in [Key -> Row] /\ \A k \in Key : HasPaths(wq[k])
  BY DEF QueueInv, Destined
<1>2. ASSUME NEW scope, RecheckDeferred(scope) \/ RecheckRetired(scope),
             NEW k \in Key
      PROVE  HasPaths(wq'[k])
  <2>1. wq'[k] \in {wq[k], [wq[k] EXCEPT !.due = TRUE], Requeued(wq[k])}
    BY <1>2 DEF RecheckDeferred, RecheckRetired
  <2>2. [wq[k] EXCEPT !.due = TRUE].paths = wq[k].paths
    BY <1>1 DEF Row
  <2>3. [wq[k] EXCEPT !.due = TRUE].status = wq[k].status
    BY <1>1 DEF Row
  <2>4. Requeued(wq[k]).paths = wq[k].paths
    BY <1>1 DEF Requeued, Row
  <2>5. wq'[k] = Requeued(wq[k]) /\ wq'[k] # wq[k] => wq[k].status # "absent"
    BY <1>2 DEF RecheckDeferred, RecheckRetired
  <2> QED BY <1>1, <2>1, <2>2, <2>3, <2>4, <2>5 DEF HasPaths
<1>3. ASSUME NEW lib, ScanClear(lib) \/ LibraryRemove(lib), NEW k \in Key
      PROVE  HasPaths(wq'[k])
  <2>1. \/ wq'[k] = DropLinks(Cancelled(wq[k], lib), OfLibrary(lib))
        \/ wq'[k] = DropLinks(wq[k], OfLibrary(lib))
    BY <1>3 DEF ScanClear, LibraryRemove
  <2> QED BY <1>1, <2>1, LibraryPaths
<1>4. ASSUME ClearDone, NEW k \in Key
      PROVE  HasPaths(wq'[k])
  <2>1. wq'[k] = NoRow \/ wq'[k] = wq[k]
    BY <1>4 DEF ClearDone
  <2> QED BY <1>1, <2>1 DEF HasPaths, NoRow
<1> QED BY <1>2, <1>3, <1>4 DEF BulkStep, Destined

\* Every operation keeps the destinations of every row.
LEMMA DestinedStep ==
  ASSUME QueueInv, Destined, [QueueNext]_queueVars
  PROVE  Destined'
<1>1. CASE UNCHANGED queueVars \/ ScanStep
  BY <1>1 DEF queueVars, ScanStep, Upsert, SetStatus, Destined
<1>2. CASE \E k \in Key : RowStep(k)
  BY <1>2, EnqueuePaths, RowOpPaths DEF RowStep
<1>3. CASE BulkStep
  BY <1>3, BulkPaths
<1> QED BY <1>1, <1>2, <1>3 DEF QueueNext

\* Whatever scans, webhooks, cancellations and deletions interleave, a row in
\* the table has a destination: cancelByLibrary (queue.go) deletes the row it
\* would leave with none.
THEOREM QueueDestined == QueueSpec => []Destined
<1>1. QueueInit => Destined
  BY DEF QueueInit, Destined, HasPaths, NoRow
<1>2. QueueInv /\ Destined /\ [QueueNext]_queueVars => Destined'
  BY DestinedStep
<1> QED BY <1>1, <1>2, QueueInvariant, PTL DEF QueueSpec

=============================================================================
