------------------------ MODULE ProcessorStoreProofs ------------------------
(***************************************************************************)
(* Theorems about the ids and the stores of TransactionProcessor: which    *)
(* journal line and which record a call has left behind at each point of   *)
(* process_impl, under every interleaving, fault and restart; and from it, *)
(* that the processor implements the atomic ledger.                        *)
(***************************************************************************)
EXTENDS TransactionProcessorProofs

\* No two calls in progress share an id.
CallIds ==
    \A t, u \in Thread :
        pc[t] # "idle" /\ pc[u] # "idle" /\ id[t] = id[u] => t = u

\* The journal line, or the record, of a call.
Journaled(t, s) == \E i \in DOMAIN wal : wal[i] = CallRecord(t, s)

Stored(t) == \E i \in DOMAIN records : records[i] = CallRecord(t, "Committed")

\* What a call has left in the stores, by where it is.
CallTrace(t) ==
    /\ pc[t] \in {"lock", "load", "wal"} => id[t] \notin Ids(wal)
    /\ pc[t] \in {"save", "commit"} => Journaled(t, "Validated")
    /\ pc[t] = "record" => /\ Journaled(t, "Committed")
                           /\ id[t] \notin Ids(records)
    /\ pc[t] = "audit_ok" => Stored(t)
    /\ result[t] = "success" => pc[t] = "idle"

RecordsCommitted == \A i \in DOMAIN records : records[i].state = "Committed"

StoreInv ==
    /\ CallIds
    /\ \A t \in Thread : CallTrace(t)
    /\ UniqueIds
    /\ RecordsCommitted
    /\ RecordsAreJournaled
    /\ SuccessIsRecorded

LEMMA StoreInit == Init => StoreInv
BY DEF Init, StoreInv, CallIds, CallTrace, UniqueIds, RecordsCommitted,
       RecordsAreJournaled, SuccessIsRecorded

-----------------------------------------------------------------------------
\* Flipping the line of an intent makes it the committed record.
LEMMA FlippedRecord ==
    ASSUME NEW t
    PROVE  Flipped(CallRecord(t, "Validated")) = CallRecord(t, "Committed")
BY DEF Flipped, CallRecord, project_transaction

\* The steps that leave both stores alone.  A call moves on within the part of
\* process_impl that has the same trace, or leaves.
Moves(t) ==
    \E l \in Label :
        /\ pc' = [pc EXCEPT ![t] = l]
        /\ \/ pc[t] \in {"lock", "load"} /\ l \in {"lock", "load", "wal", "audit_fail"}
           \/ pc[t] = "save" /\ l = "commit"
           \/ pc[t] # "idle" /\ l = "catch"
        /\ result' = result

Answers(t) ==
    /\ pc[t] # "idle"
    /\ pc' = [pc EXCEPT ![t] = "idle"]
    /\ \E r \in {"success", "failure", "threw"} :
          /\ result' = [result EXCEPT ![t] = r]
          /\ r = "success" => pc[t] = "audit_ok"

LEMMA StoreSteps ==
    ASSUME TypeInv, Next
    PROVE  \/ \E t \in Thread, x \in Txns : ProcessOne(t, x)
           \/ \E t \in Thread : Moves(t) /\ UNCHANGED <<wal, records, id, txn>>
           \/ \E t \in Thread : Answers(t) /\ UNCHANGED <<wal, records, id, txn>>
           \/ \E t \in Thread : AppendIntent(t)
           \/ \E t \in Thread : MarkCommitted(t) \/ MarkCommittedFails(t)
           \/ \E t \in Thread : AppendRecord(t)
           \/ CrashRestart
<1> USE DEF TypeInv, DataOK
<1>1. ASSUME NEW t \in Thread, NEW a \in AccountId, LockAccount(t, a)
      PROVE  Moves(t) /\ UNCHANGED <<wal, records, id, txn>>
  BY <1>1 DEF LockAccount, Goto, Moves, Label
<1>2. ASSUME NEW t \in Thread, Load(t) \/ ApplySave(t)
      PROVE  Moves(t) /\ UNCHANGED <<wal, records, id, txn>>
  BY <1>2 DEF Load, ApplySave, Goto, Moves, Label
<1>3. ASSUME NEW t \in Thread,
             \/ ApplyThrows(t) \/ CallFails(t) \/ SaveFails(t) \/ AuditThrows(t)
      PROVE  Moves(t) /\ UNCHANGED <<wal, records, id, txn>>
  BY <1>3 DEF ApplyThrows, CallFails, SaveFails, SavePrefix, AuditThrows, Throw,
              Moves, Label
<1>4. ASSUME NEW t \in Thread,
             AuditCompleted(t) \/ AuditFailed(t) \/ CatchAuditThrows(t)
      PROVE  Answers(t) /\ UNCHANGED <<wal, records, id, txn>>
  BY <1>4 DEF AuditCompleted, AuditFailed, CatchAuditThrows, Return, Answers
<1> QED
  BY <1>1, <1>2, <1>3, <1>4 DEF Next, Calls, Advance, Fault

\* CallTrace is kept by a step that leaves the stores and t's call alone.
LEMMA TraceKept ==
    ASSUME NEW t \in Thread, CallTrace(t),
           UNCHANGED <<wal, records>>, id'[t] = id[t], txn'[t] = txn[t],
           pc'[t] = pc[t], result'[t] = result[t]
    PROVE  CallTrace(t)'
<1>1. /\ Journaled(t, "Validated")' <=> Journaled(t, "Validated")
      /\ Journaled(t, "Committed")' <=> Journaled(t, "Committed")
      /\ Stored(t)' <=> Stored(t)
  BY DEF Journaled, Stored, CallRecord
<1>2. Ids(wal)' = Ids(wal) /\ Ids(records)' = Ids(records)
  BY DEF Ids
<1> QED
  BY <1>1, <1>2 DEF CallTrace

\* Unique ids, the records and the answers do not depend on where calls are.
LEMMA StoresKept ==
    ASSUME StoreInv, UNCHANGED <<wal, records, id, txn>>,
           \A t \in Thread : result'[t] = "success" => result[t] = "success"
    PROVE  /\ UniqueIds'
           /\ RecordsCommitted'
           /\ RecordsAreJournaled'
           /\ SuccessIsRecorded'
BY DEF StoreInv, UniqueIds, RecordsCommitted, RecordsAreJournaled,
       SuccessIsRecorded

LEMMA BeginStores ==
    ASSUME TypeInv, StoreInv, NEW t \in Thread, NEW x \in Txns, ProcessOne(t, x)
    PROVE  StoreInv'
<1>1. /\ pc[t] = "idle" /\ pc' = [pc EXCEPT ![t] = "lock"]
      /\ id' = [id EXCEPT ![t] = next_id]
      /\ result' = [result EXCEPT ![t] = "none"]
      /\ txn' = [txn EXCEPT ![t] = x]
      /\ UNCHANGED <<wal, records>>
  BY DEF ProcessOne, Goto
<1>2. /\ pc \in [Thread -> Label] /\ id \in [Thread -> 0..MaxTxns]
      /\ result \in [Thread -> {"none", "success", "failure", "threw"}]
      /\ txn \in [Thread -> Txns \cup {NoTxn}]
      /\ next_id \in Nat
  BY MaxTxnsAssumption DEF TypeInv, DataOK
<1>3. next_id \notin Ids(wal)
  BY <1>2 DEF TypeInv, IdBound, Ids
<1>4. \A u \in Thread : pc[u] # "idle" => id[u] < next_id
  BY <1>2 DEF TypeInv, IdBound
<1>5. CallIds'
  BY <1>1, <1>2, <1>4 DEF StoreInv, CallIds
<1>6. ASSUME NEW u \in Thread
      PROVE  CallTrace(u)'
  <2>1. CASE u = t
    BY <1>1, <1>2, <1>3, <2>1 DEF CallTrace, Ids
  <2>2. CASE u # t
    <3>1. /\ pc'[u] = pc[u] /\ id'[u] = id[u] /\ txn'[u] = txn[u]
          /\ result'[u] = result[u]
      BY <1>1, <1>2, <2>2
    <3> QED
      BY <1>1, <3>1, TraceKept DEF StoreInv
  <2> QED
    BY <2>1, <2>2
<1>7. UniqueIds' /\ RecordsCommitted' /\ RecordsAreJournaled'
  BY <1>1 DEF StoreInv, UniqueIds, RecordsCommitted, RecordsAreJournaled
<1>8. SuccessIsRecorded'
  BY <1>1, <1>2 DEF StoreInv, SuccessIsRecorded
<1> QED
  BY <1>5, <1>6, <1>7, <1>8 DEF StoreInv

LEMMA MoveStores ==
    ASSUME TypeInv, StoreInv, NEW t \in Thread, Moves(t),
           UNCHANGED <<wal, records, id, txn>>
    PROVE  StoreInv'
<1>1. pc \in [Thread -> Label]
  BY DEF TypeInv, DataOK
<1>2. \A u \in Thread : pc'[u] # "idle" => pc[u] # "idle"
  BY <1>1 DEF Moves
<1>3. CallIds'
  BY <1>2 DEF StoreInv, CallIds
<1>4. ASSUME NEW u \in Thread
      PROVE  CallTrace(u)'
  <2>1. CASE u = t
    <3>1. PICK l \in Label :
             /\ pc'[t] = l
             /\ \/ pc[t] \in {"lock", "load"} /\ l \in {"lock", "load", "wal", "audit_fail"}
                \/ pc[t] = "save" /\ l = "commit"
                \/ pc[t] # "idle" /\ l = "catch"
             /\ result' = result
      BY <1>1 DEF Moves
    <3>2. CallTrace(t)
      BY DEF StoreInv
    <3> QED
      BY <2>1, <3>1, <3>2 DEF CallTrace, Ids, Journaled, Stored, CallRecord
  <2>2. CASE u # t
    BY <1>1, <2>2, TraceKept DEF Moves, StoreInv
  <2> QED
    BY <2>1, <2>2
<1>5. UniqueIds' /\ RecordsCommitted' /\ RecordsAreJournaled' /\ SuccessIsRecorded'
  BY StoresKept DEF Moves
<1> QED
  BY <1>3, <1>4, <1>5 DEF StoreInv

\* A call that answers "success" stored its record before.
LEMMA AnswerStores ==
    ASSUME TypeInv, StoreInv, NEW t \in Thread, Answers(t),
           UNCHANGED <<wal, records, id, txn>>
    PROVE  StoreInv'
<1>1. /\ pc \in [Thread -> Label]
      /\ result \in [Thread -> {"none", "success", "failure", "threw"}]
  BY DEF TypeInv, DataOK
<1>2. PICK r \in {"success", "failure", "threw"} :
         /\ pc[t] # "idle"
         /\ pc' = [pc EXCEPT ![t] = "idle"]
         /\ result' = [result EXCEPT ![t] = r]
         /\ r = "success" => pc[t] = "audit_ok"
  BY DEF Answers
<1>3. CallIds'
  BY <1>1, <1>2 DEF StoreInv, CallIds
<1>4. ASSUME NEW u \in Thread
      PROVE  CallTrace(u)'
  <2>1. CASE u = t
    BY <1>1, <1>2, <2>1 DEF CallTrace
  <2>2. CASE u # t
    BY <1>1, <1>2, <2>2, TraceKept DEF StoreInv
  <2> QED
    BY <2>1, <2>2
<1>5. UniqueIds' /\ RecordsCommitted' /\ RecordsAreJournaled'
  BY DEF StoreInv, UniqueIds, RecordsCommitted, RecordsAreJournaled
<1>6. ASSUME NEW u \in Thread, result'[u] = "success"
      PROVE  \E i \in DOMAIN records : /\ records[i].id = id[u]
                                       /\ materialize_transaction(records[i]) = txn[u]
  <2>1. CASE u = t
    <3>1. pc[t] = "audit_ok"
      BY <1>1, <1>2, <1>6, <2>1
    <3>2. Stored(t)
      BY <3>1 DEF StoreInv, CallTrace
    <3>3. /\ CallRecord(t, "Committed").id = id[t]
          /\ materialize_transaction(CallRecord(t, "Committed")) = txn[t]
      BY <3>1, CallRecordMeaning DEF TransactionState
    <3> QED
      BY <2>1, <3>2, <3>3 DEF Stored
  <2>2. CASE u # t
    BY <1>1, <1>2, <1>6, <2>2 DEF StoreInv, SuccessIsRecorded
  <2> QED
    BY <2>1, <2>2
<1>7. SuccessIsRecorded'
  BY <1>6 DEF SuccessIsRecorded
<1> QED
  BY <1>3, <1>4, <1>5, <1>7 DEF StoreInv

-----------------------------------------------------------------------------
\* While t runs, no other running call has its id.
LEMMA OthersDiffer ==
    ASSUME StoreInv, NEW t \in Thread, pc[t] # "idle",
           NEW u \in Thread, u # t, pc[u] # "idle"
    PROVE  id[u] # id[t]
BY DEF StoreInv, CallIds

LEMMA IntentStores ==
    ASSUME TypeInv, StoreInv, NEW t \in Thread, AppendIntent(t)
    PROVE  StoreInv'
<1> DEFINE r == CallRecord(t, "Validated")
           n == Len(wal) + 1
<1>1. /\ pc[t] = "wal" /\ pc' = [pc EXCEPT ![t] = "save"]
      /\ wal' = Append(wal, r)
      /\ UNCHANGED <<records, id, txn, result>>
  BY DEF AppendIntent, Goto, CallRecord
<1>2. pc \in [Thread -> Label] /\ wal \in Seq(TransactionRecord)
  BY DEF TypeInv, DataOK
<1>3. r \in TransactionRecord /\ r.id = id[t]
  BY <1>1, CallRecordMeaning DEF TransactionState
<1>4. r' = r
  BY <1>1 DEF CallRecord
<1> HIDE DEF r
<1>5. /\ DOMAIN wal' = DOMAIN wal \cup {n}
      /\ n \notin DOMAIN wal
      /\ \A i \in DOMAIN wal : wal'[i] = wal[i]
      /\ wal'[n] = r
  BY <1>1, <1>2, <1>3, AppendMeaning
<1> HIDE DEF n
<1>6. id[t] \notin Ids(wal)
  BY <1>1 DEF StoreInv, CallTrace
<1>7. Ids(wal') = Ids(wal) \cup {id[t]}
  BY <1>3, <1>5 DEF Ids
<1>8. CallIds'
  BY <1>1, <1>2 DEF StoreInv, CallIds
<1>9. ASSUME NEW u \in Thread, NEW s, Journaled(u, s)
      PROVE  Journaled(u, s)'
  BY <1>1, <1>5, <1>9 DEF Journaled, CallRecord
<1>10. ASSUME NEW u \in Thread
       PROVE  CallTrace(u)'
  <2>1. CASE u = t
    <3>1. pc'[t] = "save" /\ result'[t] # "success"
      BY <1>1, <1>2 DEF StoreInv, CallTrace
    <3>2. Journaled(t, "Validated")'
      BY <1>4, <1>5 DEF Journaled, r
    <3> QED
      BY <2>1, <3>1, <3>2 DEF CallTrace
  <2>2. CASE u # t
    <3>1. pc'[u] = pc[u] /\ id'[u] = id[u] /\ result'[u] = result[u]
      BY <1>1, <1>2, <2>2
    <3>2. CallTrace(u) /\ (Stored(u)' <=> Stored(u)) /\ Ids(records)' = Ids(records)
      BY <1>1 DEF StoreInv, Stored, CallRecord, Ids
    <3>3. pc[u] # "idle" => id[u] # id[t]
      BY <1>1, <2>2, OthersDiffer
    <3>4. id[u] \notin Ids(wal) /\ pc[u] # "idle" => id'[u] \notin Ids(wal)'
      BY <1>7, <3>1, <3>3 DEF Ids
    <3> QED
      BY <1>9, <3>1, <3>2, <3>4 DEF CallTrace
  <2> QED
    BY <2>1, <2>2
<1>11. UniqueIds'
  <2>1. \A i \in DOMAIN wal : wal[i].id # id[t]
    BY <1>6 DEF Ids
  <2> QED
    BY <1>1, <1>3, <1>5, <2>1 DEF StoreInv, UniqueIds
<1>12. RecordsAreJournaled'
  BY <1>1, <1>5 DEF StoreInv, RecordsAreJournaled
<1>13. RecordsCommitted' /\ SuccessIsRecorded'
  BY <1>1 DEF StoreInv, RecordsCommitted, SuccessIsRecorded
<1> QED
  BY <1>8, <1>10, <1>11, <1>12, <1>13 DEF StoreInv

\* The commit marker, written or not: it reaches the line of this call only.
LEMMA MarkStores ==
    ASSUME TypeInv, StoreInv, NEW t \in Thread,
           MarkCommitted(t) \/ MarkCommittedFails(t)
    PROVE  StoreInv'
<1>1. /\ pc[t] = "commit"
      /\ UNCHANGED <<records, id, txn, result>>
      /\ \/ pc' = [pc EXCEPT ![t] = "record"] /\ wal' = Marked(id[t])
         \/ pc' = [pc EXCEPT ![t] = "catch"] /\ wal' \in {wal, Marked(id[t])}
  BY DEF MarkCommitted, MarkCommittedFails, Goto, Throw
<1>2. pc \in [Thread -> Label] /\ wal \in Seq(TransactionRecord)
  BY DEF TypeInv, DataOK
<1>3. /\ DOMAIN wal' = DOMAIN wal
      /\ \A i \in DOMAIN wal :
            /\ wal'[i].id = wal[i].id
            /\ wal'[i] \in {wal[i], Flipped(wal[i])}
            /\ wal[i].id # id[t] => wal'[i] = wal[i]
  BY <1>1, <1>2, MarkedMeaning
<1>4. Ids(wal)' = Ids(wal) /\ Ids(records)' = Ids(records)
  BY <1>1, <1>3 DEF Ids
<1>5. PICK k \in DOMAIN wal : wal[k] = CallRecord(t, "Validated")
  BY <1>1 DEF StoreInv, CallTrace, Journaled
<1>6. wal[k].id = id[t] /\ wal[k].state = "Validated"
  BY <1>1, <1>5, CallRecordMeaning DEF TransactionState
<1>7. \A j \in DOMAIN wal : wal[j].id = id[t] <=> j = k
  BY <1>6 DEF StoreInv, UniqueIds
<1>8. CallIds'
  BY <1>1, <1>2 DEF StoreInv, CallIds
<1>9. id[t] \notin Ids(records)
  BY <1>6, <1>7
  DEF StoreInv, RecordsAreJournaled, RecordsCommitted, Ids
<1>10. ASSUME NEW u \in Thread, u # t
       PROVE  CallTrace(u)'
  <2>1. pc'[u] = pc[u] /\ id'[u] = id[u] /\ txn'[u] = txn[u] /\ result'[u] = result[u]
    BY <1>1, <1>2, <1>10
  <2>2. CallTrace(u) /\ (Stored(u)' <=> Stored(u))
    BY <1>1 DEF StoreInv, Stored, CallRecord
  <2>3. ASSUME pc[u] # "idle", NEW s \in TransactionState, Journaled(u, s)
        PROVE  Journaled(u, s)'
    <3>1. PICK i \in DOMAIN wal : wal[i] = CallRecord(u, s)
      BY <2>3 DEF Journaled
    <3>2. wal[i].id # id[t]
      BY <1>1, <1>10, <2>3, <3>1, CallRecordMeaning, OthersDiffer
    <3>3. CallRecord(u, s)' = CallRecord(u, s)
      BY <1>1 DEF CallRecord
    <3> QED
      BY <1>3, <3>1, <3>2, <3>3 DEF Journaled
  <2> QED
    BY <1>4, <2>1, <2>2, <2>3 DEF CallTrace, TransactionState
<1>11. CallTrace(t)'
  <2>1. result'[t] # "success"
    BY <1>1 DEF StoreInv, CallTrace
  <2>2. CASE pc' = [pc EXCEPT ![t] = "record"] /\ wal' = Marked(id[t])
    <3>1. wal'[k] = CallRecord(t, "Committed")
      BY <1>2, <1>5, <1>7, <2>2, MarkedMeaning, FlippedRecord
    <3>2. CallRecord(t, "Committed")' = CallRecord(t, "Committed")
      BY <1>1 DEF CallRecord
    <3>3. Journaled(t, "Committed")'
      BY <1>3, <3>1, <3>2 DEF Journaled
    <3>4. pc'[t] = "record" /\ id'[t] \notin Ids(records)'
      BY <1>1, <1>2, <1>4, <1>9, <2>2
    <3> QED
      BY <2>1, <3>3, <3>4 DEF CallTrace
  <2>3. CASE pc' = [pc EXCEPT ![t] = "catch"]
    BY <1>2, <2>1, <2>3 DEF CallTrace
  <2> QED
    BY <1>1, <2>2, <2>3
<1>12. UniqueIds'
  BY <1>1, <1>3 DEF StoreInv, UniqueIds
<1>13. RecordsAreJournaled'
  <2> SUFFICES ASSUME NEW i \in DOMAIN records
               PROVE  \E j \in DOMAIN wal' : wal'[j] = records[i]
    BY <1>1 DEF RecordsAreJournaled
  <2>1. PICK j \in DOMAIN wal : wal[j] = records[i]
    BY DEF StoreInv, RecordsAreJournaled
  <2>2. wal[j] \in TransactionRecord /\ wal[j].state = "Committed"
    BY <1>2, <2>1 DEF StoreInv, RecordsCommitted
  <2>3. j # k
    BY <1>6, <2>2
  <2> QED
    BY <1>3, <1>7, <2>1, <2>3
<1>14. RecordsCommitted' /\ SuccessIsRecorded'
  BY <1>1 DEF StoreInv, RecordsCommitted, SuccessIsRecorded
<1> QED
  BY <1>8, <1>10, <1>11, <1>12, <1>13, <1>14 DEF StoreInv

LEMMA RecordStores ==
    ASSUME TypeInv, StoreInv, NEW t \in Thread, AppendRecord(t)
    PROVE  StoreInv'
<1> DEFINE r == CallRecord(t, "Committed")
           n == Len(records) + 1
<1>1. /\ pc[t] = "record" /\ pc' = [pc EXCEPT ![t] = "audit_ok"]
      /\ records' = Append(records, r)
      /\ UNCHANGED <<wal, id, txn, result>>
  BY DEF AppendRecord, Recorded, Goto, CallRecord
<1>2. pc \in [Thread -> Label] /\ records \in Seq(TransactionRecord)
  BY DEF TypeInv, DataOK
<1>3. r \in TransactionRecord /\ r.id = id[t] /\ r.state = "Committed"
  BY <1>1, CallRecordMeaning DEF TransactionState
<1>4. r' = r
  BY <1>1 DEF CallRecord
<1>5. Journaled(t, "Committed") /\ id[t] \notin Ids(records)
  BY <1>1 DEF StoreInv, CallTrace
<1>6. \E j \in DOMAIN wal : wal[j] = r
  BY <1>5 DEF Journaled
<1> HIDE DEF r
<1>7. /\ DOMAIN records' = DOMAIN records \cup {n}
      /\ n \notin DOMAIN records
      /\ \A i \in DOMAIN records : records'[i] = records[i]
      /\ records'[n] = r
  BY <1>1, <1>2, <1>3, AppendMeaning
<1> HIDE DEF n
<1>8. Ids(records') = Ids(records) \cup {id[t]}
  BY <1>3, <1>7 DEF Ids
<1>9. CallIds'
  BY <1>1, <1>2 DEF StoreInv, CallIds
<1>10. ASSUME NEW u \in Thread
       PROVE  CallTrace(u)'
  <2>1. CASE u = t
    <3>1. pc'[t] = "audit_ok" /\ result'[t] # "success"
      BY <1>1, <1>2 DEF StoreInv, CallTrace
    <3>2. Stored(t)'
      BY <1>4, <1>7 DEF Stored, r
    <3> QED
      BY <2>1, <3>1, <3>2 DEF CallTrace
  <2>2. CASE u # t
    <3>1. pc'[u] = pc[u] /\ id'[u] = id[u] /\ result'[u] = result[u]
      BY <1>1, <1>2, <2>2
    <3>2. /\ CallTrace(u)
          /\ Journaled(u, "Validated")' <=> Journaled(u, "Validated")
          /\ Journaled(u, "Committed")' <=> Journaled(u, "Committed")
          /\ Ids(wal)' = Ids(wal)
      BY <1>1 DEF StoreInv, Journaled, CallRecord, Ids
    <3>3. Stored(u) => Stored(u)'
      BY <1>1, <1>7 DEF Stored, CallRecord
    <3>4. pc[u] # "idle" => id[u] # id[t]
      BY <1>1, <2>2, OthersDiffer
    <3>5. id[u] \notin Ids(records) /\ pc[u] # "idle" => id'[u] \notin Ids(records)'
      BY <1>8, <3>1, <3>4 DEF Ids
    <3> QED
      BY <3>1, <3>2, <3>3, <3>5 DEF CallTrace
  <2> QED
    BY <2>1, <2>2
<1>11. UniqueIds'
  <2>1. \A i \in DOMAIN records : records[i].id # id[t]
    BY <1>5 DEF Ids
  <2> QED
    BY <1>1, <1>3, <1>7, <2>1 DEF StoreInv, UniqueIds
<1>12. RecordsAreJournaled'
  BY <1>1, <1>6, <1>7 DEF StoreInv, RecordsAreJournaled
<1>13. RecordsCommitted' /\ SuccessIsRecorded'
  BY <1>1, <1>3, <1>7 DEF StoreInv, RecordsCommitted, SuccessIsRecorded
<1> QED
  BY <1>9, <1>10, <1>11, <1>12, <1>13 DEF StoreInv

-----------------------------------------------------------------------------
\* A restart forgets the calls and keeps the stores.
LEMMA RestartStores ==
    ASSUME StoreInv, CrashRestart
    PROVE  StoreInv'
<1>1. /\ UNCHANGED <<wal, records>>
      /\ \A t \in Thread : pc'[t] = "idle" /\ result'[t] = "none"
  BY DEF CrashRestart
<1>2. UniqueIds' /\ RecordsCommitted' /\ RecordsAreJournaled'
  BY <1>1 DEF StoreInv, UniqueIds, RecordsCommitted, RecordsAreJournaled
<1> QED
  BY <1>1, <1>2 DEF StoreInv, CallIds, CallTrace, SuccessIsRecorded

LEMMA StoreStep == TypeInv /\ StoreInv /\ [Next]_vars => StoreInv'
<1>1. ASSUME TypeInv, StoreInv, Next
      PROVE  StoreInv'
  BY <1>1, StoreSteps, BeginStores, MoveStores, AnswerStores, IntentStores,
     MarkStores, RecordStores, RestartStores
<1>2. ASSUME StoreInv, UNCHANGED vars
      PROVE  StoreInv'
  <2>1. \A t \in Thread : CallTrace(t)'
    BY <1>2, TraceKept DEF vars, StoreInv
  <2> QED
    BY <1>2, <2>1, StoresKept DEF vars, StoreInv, CallIds
<1> QED
  BY <1>1, <1>2

LEMMA StoreInvariant == Spec => [](TypeInv /\ StoreInv)
BY TypeInit, TypeStep, StoreInit, StoreStep, PTL DEF Spec

\* No two journal lines and no two records share an id, however calls, failed
\* writes and restarts over a history read in part interleave.
THEOREM IdsStayUnique == Spec => []UniqueIds
<1>1. StoreInv => UniqueIds
  BY DEF StoreInv
<1> QED
  BY <1>1, StoreInvariant, PTL

\* Write-ahead: every record of the repository is a Committed journal line.
THEOREM RecordsStayJournaled == Spec => []RecordsAreJournaled
<1>1. StoreInv => RecordsAreJournaled
  BY DEF StoreInv
<1> QED
  BY <1>1, StoreInvariant, PTL

\* A caller told "success" finds its own transaction, under its id, recorded.
THEOREM SuccessStaysRecorded == Spec => []SuccessIsRecorded
<1>1. StoreInv => SuccessIsRecorded
  BY DEF StoreInv
<1> QED
  BY <1>1, StoreInvariant, PTL

-----------------------------------------------------------------------------
(* The processor implements the atomic ledger: every step of process_impl  *)
(* is one commit of the ledger or leaves it alone, for every set of        *)
(* threads, accounts and transactions.  Assumed: no save and no commit     *)
(* marker fails and the process does not die, as in the run                *)
(* processor_ledger.  Reads, journal appends, records and audits may fail. *)

\* The ledger's copy of the bank rules is the bank's.
LEMMA LedgerRules ==
    ASSUME NEW x, NEW accts
    PROVE  /\ Ledger!apply_throws(x, accts) <=> apply_throws(x, accts)
           /\ Ledger!apply(x, accts) = apply(x, accts)
BY DEF Ledger!apply_throws, Ledger!apply, Ledger!validate, Ledger!plus_throws,
       Ledger!can_withdraw, Ledger!can_subtract, Ledger!withdraw,
       Ledger!deposit, Ledger!debit_account, Ledger!credit_account,
       apply_throws, apply, validate, plus_throws, can_withdraw, can_subtract,
       withdraw, deposit, debit_account, credit_account

\* The rules look at the involved accounts only: what they say of the accounts
\* a call has read they say of the repository.
LEMMA RulesAreLocal ==
    ASSUME NEW x \in Transaction, NEW read,
           DOMAIN read = involved_accounts(x), DOMAIN read \subseteq Opened,
           accounts \in [Opened -> Account],
           \A a \in DOMAIN read : read[a] = accounts[a]
    PROVE  /\ apply_throws(x, accounts) <=> apply_throws(x, read)
           /\ apply(x, accounts) =
                 [a \in Opened |->
                    IF a \in DOMAIN read THEN apply(x, read)[a] ELSE accounts[a]]
<1>1. /\ debit_account(x) # NoAccount => debit_account(x) \in DOMAIN read
      /\ credit_account(x) # NoAccount => credit_account(x) \in DOMAIN read
      /\ NoAccount \notin Opened
      /\ DOMAIN accounts = Opened
  BY InitAccountsAssumption, NoAccountAssumption DEF involved_accounts, Opened
<1>2. validate(x, accounts) <=> validate(x, read)
  BY <1>1, NoAccountAssumption
  DEF Transaction, Deposit, Withdraw, Transfer, validate, can_withdraw,
      debit_account, credit_account
<1>3. apply_throws(x, accounts) <=> apply_throws(x, read)
  BY <1>1, <1>2 DEF apply_throws
<1>4. \A a \in Opened \ DOMAIN read : a # debit_account(x) /\ a # credit_account(x)
  BY <1>1
<1> QED
  BY <1>1, <1>3, <1>4 DEF apply

-----------------------------------------------------------------------------
(* The set of transactions in effect.                                      *)

LedgerEntry(t) == [id |-> id[t], txn |-> txn[t]]

LineEntry(r) == [id |-> r.id, txn |-> materialize_transaction(r)]

\* What is in effect, member by member.
LEMMA ViewMeaning ==
    ASSUME NEW e
    PROVE  e \in CommittedView <=>
              \/ \E i \in DOMAIN wal : /\ wal[i].state = "Committed"
                                       /\ e = LineEntry(wal[i])
              \/ \E t \in Thread : pc[t] = "commit" /\ e = LedgerEntry(t)
BY DEF CommittedView, LineEntry, LedgerEntry

\* A step that neither flips a line nor moves a call into or out of "commit".
LEMMA ViewKept ==
    ASSUME DOMAIN wal \subseteq DOMAIN wal',
           \A i \in DOMAIN wal : wal'[i] = wal[i],
           \A i \in DOMAIN wal' \ DOMAIN wal : wal'[i].state # "Committed",
           \A t \in Thread : pc'[t] = "commit" <=> pc[t] = "commit",
           \A t \in Thread : pc[t] = "commit" => id'[t] = id[t] /\ txn'[t] = txn[t]
    PROVE  CommittedView' = CommittedView
<1>1. ASSUME NEW e
      PROVE  e \in CommittedView' <=> e \in CommittedView
  <2>1. e \in CommittedView' <=>
           \/ \E i \in DOMAIN wal' : /\ wal'[i].state = "Committed"
                                     /\ e = LineEntry(wal'[i])
           \/ \E t \in Thread : pc'[t] = "commit" /\ e = LedgerEntry(t)'
    BY DEF CommittedView, LineEntry, LedgerEntry
  <2>2. \A t \in Thread : pc[t] = "commit" => LedgerEntry(t)' = LedgerEntry(t)
    BY DEF LedgerEntry
  <2> QED
    BY <2>1, <2>2, ViewMeaning
<1> QED
  BY <1>1

\* A call about to mark its line has an entry of its own: no line in effect and
\* no other call has its id.
LEMMA EntryIsFresh ==
    ASSUME TypeInv, StoreInv, NEW t \in Thread, pc[t] \in {"save", "commit"}
    PROVE  /\ \A i \in DOMAIN wal : wal[i].state = "Committed" => wal[i].id # id[t]
           /\ \A u \in Thread \ {t} : pc[u] = "commit" => id[u] # id[t]
<1>1. PICK k \in DOMAIN wal : wal[k] = CallRecord(t, "Validated")
  BY DEF StoreInv, CallTrace, Journaled
<1>2. wal[k].id = id[t] /\ wal[k].state = "Validated"
  BY <1>1, CallRecordMeaning DEF TransactionState
<1>3. \A i \in DOMAIN wal : wal[i].id = id[t] => i = k
  BY <1>2 DEF StoreInv, UniqueIds
<1> QED
  BY <1>2, <1>3, OthersDiffer

\* The save is the commit.
LEMMA SaveCommits ==
    ASSUME TypeInv, LoadInv, StoreInv, NEW t \in Thread, ApplySave(t)
    PROVE  Ledger!Commit(id[t], txn[t]) /\ id[t] \in 1..MaxTxns /\ txn[t] \in Txns
<1>1. /\ pc[t] = "save" /\ pc' = [pc EXCEPT ![t] = "commit"]
      /\ ~apply_throws(txn[t], loaded[t])
      /\ accounts' = Saved(t, DOMAIN loaded[t])
      /\ UNCHANGED <<wal, id, txn>>
  BY DEF ApplySave, Goto
<1>2. /\ txn[t] \in Transaction
      /\ DOMAIN loaded[t] = involved_accounts(txn[t])
      /\ DOMAIN loaded[t] \subseteq Opened
      /\ accounts \in [Opened -> Account]
      /\ \A a \in DOMAIN loaded[t] : loaded[t][a] = accounts[a]
      /\ pc \in [Thread -> Label]
  BY <1>1, BusyInvolved, InitAccountsAssumption
  DEF LoadInv, TypeInv, DataOK, Opened
<1>3. /\ apply_throws(txn[t], accounts) <=> apply_throws(txn[t], loaded[t])
      /\ apply(txn[t], accounts) =
            [a \in Opened |-> IF a \in DOMAIN loaded[t]
                              THEN apply(txn[t], loaded[t])[a] ELSE accounts[a]]
  BY <1>2, RulesAreLocal
<1>4. accounts' = apply(txn[t], accounts) /\ ~apply_throws(txn[t], accounts)
  BY <1>1, <1>3 DEF Saved
<1>5. id[t] \in 1..MaxTxns /\ txn[t] \in Txns
  <2>1. id[t] \in 0..MaxTxns /\ id[t] \in 1..(next_id - 1) /\ next_id \in 1..(MaxTxns + 1)
    BY <1>1 DEF TypeInv, DataOK, IdBound
  <2> QED
    BY <1>1, <2>1, MaxTxnsAssumption DEF TypeInv, BusyTxn
<1>6. \A e \in CommittedView : e.id # id[t]
  BY <1>1, ViewMeaning, EntryIsFresh DEF LineEntry, LedgerEntry
<1>7. CommittedView' = CommittedView \cup {LedgerEntry(t)}
  <2>1. ASSUME NEW e
        PROVE  e \in CommittedView' <=> e \in CommittedView \/ e = LedgerEntry(t)
    <3>1. e \in CommittedView' <=>
             \/ \E i \in DOMAIN wal : /\ wal[i].state = "Committed"
                                      /\ e = LineEntry(wal[i])
             \/ \E u \in Thread : pc'[u] = "commit" /\ e = LedgerEntry(u)
      BY <1>1 DEF CommittedView, LineEntry, LedgerEntry
    <3>2. \A u \in Thread : pc'[u] = "commit" <=> pc[u] = "commit" \/ u = t
      BY <1>1, <1>2
    <3> QED
      BY <3>1, <3>2, ViewMeaning
  <2> QED
    BY <2>1
<1> QED
  BY <1>4, <1>5, <1>6, <1>7, LedgerRules
  DEF Ledger!Commit, Ledger!Entry, LedgerEntry

\* The marker makes the line say what holds since the save.
LEMMA MarkIsSilent ==
    ASSUME TypeInv, StoreInv, NEW t \in Thread, MarkCommitted(t)
    PROVE  CommittedView' = CommittedView
<1>1. /\ pc[t] = "commit" /\ pc' = [pc EXCEPT ![t] = "record"]
      /\ wal' = Marked(id[t])
      /\ UNCHANGED <<id, txn>>
  BY DEF MarkCommitted, Goto
<1>2. pc \in [Thread -> Label] /\ wal \in Seq(TransactionRecord)
  BY DEF TypeInv, DataOK
<1>3. PICK k \in DOMAIN wal : wal[k] = CallRecord(t, "Validated")
  BY <1>1 DEF StoreInv, CallTrace, Journaled
<1>4. /\ wal[k].id = id[t] /\ wal[k].state = "Validated"
      /\ materialize_transaction(wal[k]) = txn[t]
  BY <1>1, <1>3, CallRecordMeaning DEF TransactionState
<1>5. \A j \in DOMAIN wal : wal[j].id = id[t] <=> j = k
  BY <1>4 DEF StoreInv, UniqueIds
<1>6. /\ DOMAIN wal' = DOMAIN wal
      /\ \A i \in DOMAIN wal \ {k} : wal'[i] = wal[i]
      /\ wal'[k] = Flipped(wal[k])
      /\ wal[k] \in TransactionRecord
  <2>1. /\ DOMAIN Marked(id[t]) = DOMAIN wal
        /\ \A i \in DOMAIN wal : wal[i].id # id[t] => Marked(id[t])[i] = wal[i]
        /\ Marked(id[t])[k] = Flipped(wal[k])
    BY <1>2, <1>5, MarkedMeaning
  <2>2. wal[k] \in TransactionRecord
    BY <1>2
  <2> QED
    BY <1>1, <1>5, <2>1, <2>2
<1>7. /\ wal'[k].state = "Committed"
      /\ LineEntry(wal'[k]) = LedgerEntry(t)
  BY <1>4, <1>6, FlippedType DEF LineEntry, LedgerEntry
<1>8. ASSUME NEW e
      PROVE  e \in CommittedView' <=> e \in CommittedView
  <2>1. e \in CommittedView' <=>
           \/ \E i \in DOMAIN wal' : /\ wal'[i].state = "Committed"
                                     /\ e = LineEntry(wal'[i])
           \/ \E u \in Thread : pc'[u] = "commit" /\ e = LedgerEntry(u)
    BY <1>1 DEF CommittedView, LineEntry, LedgerEntry
  <2>2. (\E i \in DOMAIN wal' : /\ wal'[i].state = "Committed"
                                /\ e = LineEntry(wal'[i]))
        <=> \/ \E i \in DOMAIN wal : /\ wal[i].state = "Committed"
                                     /\ e = LineEntry(wal[i])
            \/ e = LedgerEntry(t)
    BY <1>4, <1>6, <1>7
  <2>3. \A u \in Thread : pc[u] = "commit" <=> pc'[u] = "commit" \/ u = t
    BY <1>1, <1>2
  <2> QED
    BY <2>1, <2>2, <2>3, ViewMeaning
<1> QED
  BY <1>8

-----------------------------------------------------------------------------
\* Every other step of a call leaves the ledger alone.
LEMMA OtherIsSilent ==
    ASSUME TypeInv, StoreInv, NEW t \in Thread,
           \/ \E x \in Txns : ProcessOne(t, x)
           \/ \E a \in AccountId : LockAccount(t, a)
           \/ Load(t) \/ AppendIntent(t) \/ ApplyThrows(t) \/ AppendRecord(t)
           \/ AuditCompleted(t) \/ AuditFailed(t)
           \/ AuditThrows(t) \/ CatchAuditThrows(t) \/ CallFails(t)
    PROVE  UNCHANGED <<accounts, CommittedView>>
<1>1. /\ accounts' = accounts
      /\ pc[t] # "commit"
      /\ \E l \in Label \ {"commit"} : pc' = [pc EXCEPT ![t] = l]
      /\ \A u \in Thread \ {t} : id'[u] = id[u] /\ txn'[u] = txn[u]
      /\ wal' = wal \/ wal' = Append(wal, CallRecord(t, "Validated"))
      /\ wal' = wal \/ pc[t] # "idle"
  BY DEF ProcessOne, LockAccount, Load, AppendIntent, ApplyThrows, AppendRecord,
         AuditCompleted, AuditFailed, AuditThrows, CatchAuditThrows, CallFails,
         Goto, Return, Throw, Label, CallRecord, TypeInv, DataOK
<1>2. pc \in [Thread -> Label] /\ wal \in Seq(TransactionRecord)
  BY DEF TypeInv, DataOK
<1>3. /\ DOMAIN wal \subseteq DOMAIN wal'
      /\ \A i \in DOMAIN wal : wal'[i] = wal[i]
      /\ \A i \in DOMAIN wal' \ DOMAIN wal : wal'[i].state # "Committed"
  <2>1. CASE wal' = wal
    BY <2>1
  <2>2. CASE pc[t] # "idle" /\ wal' = Append(wal, CallRecord(t, "Validated"))
    <3>1. /\ CallRecord(t, "Validated") \in TransactionRecord
          /\ CallRecord(t, "Validated").state = "Validated"
      BY <2>2, CallRecordMeaning DEF TransactionState
    <3> QED
      BY <1>2, <2>2, <3>1, AppendMeaning
  <2> QED
    BY <1>1, <2>1, <2>2
<1>4. \A u \in Thread : pc'[u] = "commit" <=> pc[u] = "commit"
  BY <1>1, <1>2
<1>5. CommittedView' = CommittedView
  BY <1>1, <1>3, <1>4, ViewKept
<1> QED
  BY <1>1, <1>5

\* Each step of the processor is a commit of the ledger or a stutter.
LEMMA LedgerStep ==
    ASSUME Faults \cap {"save", "commit", "crash"} = {},
           TypeInv, LoadInv, StoreInv, [Next]_vars
    PROVE  [Ledger!Next]_(Ledger!vars)
<1>1. ASSUME NEW t \in Thread, ApplySave(t)
      PROVE  Ledger!Next
  BY <1>1, SaveCommits DEF Ledger!Next
<1>2. ASSUME NEW t \in Thread, MarkCommitted(t)
      PROVE  UNCHANGED Ledger!vars
  BY <1>2, MarkIsSilent DEF MarkCommitted, Ledger!vars
<1>3. ASSUME NEW t \in Thread, SaveFails(t) \/ MarkCommittedFails(t)
      PROVE  FALSE
  BY <1>3 DEF SaveFails, MarkCommittedFails
<1>4. ~CrashRestart
  BY DEF CrashRestart
<1>5. CASE UNCHANGED vars
  <2>1. CommittedView' = CommittedView
    BY <1>5 DEF vars, CommittedView
  <2> QED
    BY <1>5, <2>1 DEF vars, Ledger!vars
<1>6. ASSUME NEW t \in Thread,
             \/ \E x \in Txns : ProcessOne(t, x)
             \/ \E a \in AccountId : LockAccount(t, a)
             \/ Load(t) \/ AppendIntent(t) \/ ApplyThrows(t) \/ AppendRecord(t)
             \/ AuditCompleted(t) \/ AuditFailed(t)
             \/ AuditThrows(t) \/ CatchAuditThrows(t) \/ CallFails(t)
      PROVE  UNCHANGED Ledger!vars
  BY <1>6, OtherIsSilent DEF Ledger!vars
<1> QED
  BY <1>1, <1>2, <1>3, <1>4, <1>5, <1>6 DEF Next, Calls, Advance, Fault

LEMMA LedgerInit == Init => Ledger!Init
<1> SUFFICES ASSUME Init PROVE Ledger!Init
  OBVIOUS
<1>1. CommittedView = {}
  BY DEF Init, CommittedView
<1> QED
  BY <1>1 DEF Init, Ledger!Init

\* process_impl, with any number of threads, accounts and transactions, is an
\* atomic ledger: each call changes its accounts at one instant, by the bank
\* rules in the state of that instant, under an id of its own, or not at all.
THEOREM ProcessorImplementsLedger ==
    ASSUME Faults \cap {"save", "commit", "crash"} = {}
    PROVE  Spec => LedgerSpec
<1>1. TypeInv /\ LoadInv /\ StoreInv /\ [Next]_vars => [Ledger!Next]_(Ledger!vars)
  BY LedgerStep
<1>2. Spec => [](TypeInv /\ LoadInv)
  BY TypeInit, TypeStep, LockInit, LockStep, LoadInit, LoadStep, PTL DEF Spec
<1> QED
  BY <1>1, <1>2, LedgerInit, StoreInvariant, PTL
  DEF Spec, LedgerSpec, Ledger!Spec
=============================================================================
