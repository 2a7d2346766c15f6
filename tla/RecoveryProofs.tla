--------------------------- MODULE RecoveryProofs ---------------------------
(***************************************************************************)
(* Theorems about Recovery.  The snapshot file: whatever the snapshot      *)
(* store fails at and wherever the process dies, path_ never holds a torn  *)
(* document and load() gives back the last checkpoint.  The journal file:  *)
(* a reader finds in it what the processor wrote.  Replay: the snapshot    *)
(* and the Committed lines behind its fence rebuild the saved accounts.    *)
(***************************************************************************)
EXTENDS Recovery, ProcessorStoreProofs

J == INSTANCE WalLoggerProofs
        WITH TxnId <- 1..MaxTxns, MaxCells <- 4 * MaxTxns, Faults <- WalFaults

\* NoFile, Part and Nothing stand for what is not a whole snapshot.
MarkersAreNotSnapshots ==
    \A n, accts : [lsn |-> n, accounts |-> accts] \notin {NoFile, Part, Nothing}

\* Whole: a document json::parse accepts.
Whole(s) == s \notin {NoFile, Part, Nothing}

SnapshotInv ==
    /\ store_pc \in {"idle", "write", "rename", "return"}
    /\ path # Part /\ path # Nothing
    /\ store_pc \in {"write", "rename", "return"} => Whole(given)
    /\ store_pc = "rename" => tmp = given
    /\ store_pc = "return" => path = given
    /\ kept # Nothing /\ store_pc # "return" => Whole(kept) /\ path = kept

LEMMA SnapshotStarts == RecoveryInit => SnapshotInv
BY FilesAssumption DEF RecoveryInit, Store!Init, SnapshotInv

\* One operation of the store, or its death.
LEMMA SnapshotStep ==
    ASSUME MarkersAreNotSnapshots, SnapshotInv,
           [RecoveryNext]_recoveryVars
    PROVE  SnapshotInv'
<1>1. CASE UNCHANGED storeVars
  BY <1>1 DEF SnapshotInv, storeVars, Whole
<1>2. CASE Checkpoint
  BY <1>2 DEF Checkpoint, Store!OpenTmp, SnapshotInv, Whole,
              MarkersAreNotSnapshots
<1>3. CASE Store!WriteTmp
  BY <1>3 DEF Store!WriteTmp, SnapshotInv, Whole
<1>4. CASE Store!WriteFails
  BY <1>4 DEF Store!WriteFails, Store!Leave, SnapshotInv, Whole
<1>5. CASE Store!Rename
  BY <1>5 DEF Store!Rename, SnapshotInv, Whole
<1>6. CASE Store!RenameFails
  BY <1>6 DEF Store!RenameFails, Store!Leave, SnapshotInv, Whole
<1>7. CASE Store!Return
  BY <1>7 DEF Store!Return, Store!Leave, SnapshotInv, Whole
<1>8. CASE Store!clear
  BY <1>8, FilesAssumption DEF Store!clear, SnapshotInv, Whole
<1>9. CASE Store!Crash
  BY <1>9 DEF Store!Crash, Store!Leave, SnapshotInv, Whole
<1> QED
  BY <1>1, <1>2, <1>3, <1>4, <1>5, <1>6, <1>7, <1>8, <1>9
  DEF RecoveryNext, SystemStep, Store!Step, Dies, recoveryVars

\* The inductive invariant of the snapshot file: what a store() in progress has
\* put where.
THEOREM SnapshotInvariant ==
    ASSUME MarkersAreNotSnapshots
    PROVE  RecoverySpec => []SnapshotInv
BY SnapshotStarts, SnapshotStep, PTL DEF RecoverySpec

\* SnapshotStore writes a temporary file and moves it: the file load() reads is
\* never cut short.
THEOREM SnapshotsAreNeverTorn ==
    ASSUME MarkersAreNotSnapshots
    PROVE  RecoverySpec => []NeverTorn
<1>1. SnapshotInv => NeverTorn
  BY DEF SnapshotInv, NeverTorn, Store!NeverTorn
<1> QED
  BY SnapshotInvariant, <1>1, PTL

\* A failed or interrupted store() leaves the last checkpoint for load().
THEOREM CheckpointsSurvive ==
    ASSUME MarkersAreNotSnapshots
    PROVE  RecoverySpec => []CheckpointSurvives
<1>1. SnapshotInv => CheckpointSurvives
  BY DEF SnapshotInv, Whole, CheckpointSurvives, Store!CheckpointSurvives,
         Store!load
<1> QED
  BY SnapshotInvariant, <1>1, PTL

-----------------------------------------------------------------------------
(* The journal file under the processor.                                   *)

\* The journal of module Recovery is that of the proofs about WalLogger.
LEMMA SameJournal ==
    /\ Journal!Init => J!Init
    /\ Journal!Open => J!Open
    /\ \A n : Journal!append(n) => J!append(n)
    /\ \A n, w : Journal!append_fails(n, w) => J!append_fails(n, w)
    /\ \A n, w : Journal!append_crash(n, w) => J!append_crash(n, w)
    /\ \A n : Journal!mark_committed(n) => J!mark_committed(n)
    /\ \A n : Journal!mark_committed_fails(n) => J!mark_committed_fails(n)
    /\ Journal!Crash => J!Crash
    /\ Journal!Recovered = J!Recovered
    /\ Journal!LineLength = 4
<1>1. Journal!Init => J!Init
  BY DEF Journal!Init, J!Init
<1>2. Journal!Open => J!Open
  BY Zenon
  DEF Journal!Open, J!Open, Journal!TailStart, J!TailStart, Journal!load_all,
      J!load_all, Journal!Parse, J!Parse, Journal!EntryAt, J!EntryAt,
      Journal!WellFormed, J!WellFormed, Journal!LineBefore, J!LineBefore,
      Journal!LineStart, J!LineStart, Journal!Entry, J!Entry, Journal!Loaded,
      J!Loaded, Journal!Readable, J!Readable, Journal!HasState, J!HasState,
      Journal!StateOf, J!StateOf, Journal!Newline, J!Newline
<1>3. \A n : Journal!append(n) => J!append(n)
  BY Zenon
  DEF Journal!append, J!append, Journal!AfterLine, J!AfterLine,
      Journal!LineLength, J!LineLength, Journal!Truncated, J!Truncated,
      Journal!WriteOffset, J!WriteOffset, Journal!Line, J!Line,
      Journal!IdCell, J!IdCell, Journal!StateCell, J!StateCell,
      Journal!PayloadCell, J!PayloadCell, Journal!Newline, J!Newline
<1>4. \A n, w : Journal!append_fails(n, w) => J!append_fails(n, w)
  BY Zenon
  DEF Journal!append_fails, J!append_fails, Journal!Truncated, J!Truncated,
      Journal!WriteOffset, J!WriteOffset, Journal!Line, J!Line,
      Journal!IdCell, J!IdCell, Journal!StateCell, J!StateCell,
      Journal!PayloadCell, J!PayloadCell, Journal!Newline, J!Newline
<1>5. \A n, w : Journal!append_crash(n, w) => J!append_crash(n, w)
  BY Zenon
  DEF Journal!append_crash, J!append_crash, Journal!Closed, J!Closed,
      Journal!Truncated, J!Truncated, Journal!WriteOffset, J!WriteOffset,
      Journal!Line, J!Line, Journal!IdCell, J!IdCell, Journal!StateCell,
      J!StateCell, Journal!PayloadCell, J!PayloadCell, Journal!Newline,
      J!Newline
<1>6. \A n : Journal!mark_committed(n) => J!mark_committed(n)
  BY Zenon
  DEF Journal!mark_committed, J!mark_committed, Journal!Marks, J!Marks,
      Journal!MarkedFile, J!MarkedFile, Journal!Overwritten, J!Overwritten,
      Journal!StateCell, J!StateCell, Journal!IdCell, J!IdCell, Journal!Text,
      J!Text
<1>7. \A n : Journal!mark_committed_fails(n) => J!mark_committed_fails(n)
  BY Zenon
  DEF Journal!mark_committed_fails, J!mark_committed_fails, Journal!Marks,
      J!Marks, Journal!MarkedFile, J!MarkedFile, Journal!Overwritten,
      J!Overwritten, Journal!StateCell, J!StateCell, Journal!IdCell, J!IdCell,
      Journal!Text, J!Text
<1>8. Journal!Crash => J!Crash
  BY Zenon
  DEF Journal!Crash, J!Crash, Journal!Closed, J!Closed, Journal!Marks,
      J!Marks, Journal!MarkedFile, J!MarkedFile, Journal!Overwritten,
      J!Overwritten, Journal!StateCell, J!StateCell, Journal!IdCell, J!IdCell,
      Journal!Text, J!Text
<1>9. Journal!Recovered = J!Recovered
  BY Zenon
  DEF Journal!Recovered, J!Recovered, Journal!load_all, J!load_all,
      Journal!Parse, J!Parse, Journal!EntryAt, J!EntryAt, Journal!WellFormed,
      J!WellFormed, Journal!LineBefore, J!LineBefore, Journal!LineStart,
      J!LineStart, Journal!Entry, J!Entry, Journal!Loaded, J!Loaded,
      Journal!Readable, J!Readable, Journal!HasState, J!HasState,
      Journal!StateOf, J!StateOf, Journal!Newline, J!Newline
<1>10. Journal!LineLength = 4
  BY DEF Journal!LineLength
<1> QED
  BY <1>1, <1>2, <1>3, <1>4, <1>5, <1>6, <1>7, <1>8, <1>9, <1>10

\* What WalLogger assumes of its constants.
LEMMA JournalConstants ==
    /\ 1..MaxTxns \subseteq Nat \ {0}
    /\ 4 * MaxTxns \in Nat
    /\ WalFaults \subseteq {"open", "append", "mark", "crash"}
BY MaxTxnsAssumption, WalFaultsAssumption

\* A step of the composition is one of the processor, or leaves it alone.
LEMMA ProcessorSteps ==
    ASSUME RecoveryNext
    PROVE  Next \/ UNCHANGED vars
<1>1. ASSUME NEW t \in Thread, JournalCall(t)
      PROVE  Next
  BY <1>1 DEF JournalCall, Next, Calls, Advance, Fault
<1>2. ASSUME NEW t \in Thread, OtherStep(t)
      PROVE  Next
  BY <1>2 DEF OtherStep, Next, Calls
<1>3. Dies => Next
  BY DEF Dies, Next
<1> QED
  BY <1>1, <1>2, <1>3 DEF RecoveryNext, SystemStep

\* Read from the file: what the processor's record says of it.
LineOf(r) == [id |-> r.id, state |-> r.state]

FileInv ==
    /\ J!WalInv
    /\ J!Recovered = [i \in DOMAIN wal |-> LineOf(wal[i])]

\* A step that leaves the journal's lines as they are, on both sides.
LEMMA LinesKept ==
    ASSUME FileInv, J!WalInv', J!RecordsKept, wal' = wal
    PROVE  FileInv'
BY DEF FileInv, J!RecordsKept

LEMMA IntentReachesFile ==
    ASSUME TypeInv, StoreInv, FileInv, NEW t \in Thread,
           AppendIntent(t), J!append(id[t])
    PROVE  FileInv'
<1>1. pc[t] = "wal" /\ id[t] \in 1..MaxTxns /\ id[t] \notin Ids(wal)
  <2>1. pc[t] = "wal" /\ id[t] \in 1..(next_id - 1) /\ next_id \in 1..(MaxTxns + 1)
    BY DEF AppendIntent, TypeInv, DataOK, IdBound
  <2>2. id[t] \in 1..MaxTxns
    BY <2>1, MaxTxnsAssumption
  <2> QED
    BY <2>1, <2>2 DEF StoreInv, CallTrace
<1> DEFINE n == id[t]
           x == [project_transaction(id[t], txn[t]) EXCEPT !.state = "Validated"]
<1>2. wal' = Append(wal, x) /\ LineOf(x) = J!NewLine(n)
  BY DEF AppendIntent, project_transaction, LineOf, J!NewLine
<1> HIDE DEF x
<1>3. /\ J!ReadsBack(J!Parse(file)) /\ J!FileOK
      /\ J!Recovered = J!load_all(J!Parse(file))
  <2>1. J!FileOK /\ J!Recovered = J!load_all(J!Parse(file))
    BY DEF FileInv, J!WalInv, J!Recovered
  <2>2. J!ReadsBack(J!Parse(file))
    BY <2>1, JournalConstants, J!RecoveredMeaning
  <2> QED
    BY <2>1, <2>2
<1>4. J!New(n, file)
  <2>1. ASSUME NEW k \in 1..Len(J!Parse(file))
        PROVE  J!Parse(file)[k].id # n
    <3>1. /\ k \in DOMAIN J!Recovered
          /\ J!Recovered[k].id = J!Parse(file)[k].id
      <4> DEFINE r == J!Recovered
      <4>1. /\ r \in Seq(J!LogRecord) /\ Len(r) = Len(J!Parse(file))
            /\ r[k] = J!RecordOf(J!Parse(file)[k])
        BY <1>3 DEF J!ReadsBack
      <4> HIDE DEF r
      <4>2. k \in DOMAIN r /\ r[k].id = J!Parse(file)[k].id
        BY <4>1 DEF J!RecordOf
      <4> QED
        BY <4>2 DEF r
    <3>2. k \in DOMAIN wal /\ J!Recovered[k].id = wal[k].id
      BY <3>1 DEF FileInv, LineOf
    <3> QED
      BY <1>1, <3>1, <3>2 DEF Ids
  <2> QED
    BY <2>1 DEF J!New
<1>5. J!WalInv' /\ J!RecordAdded(n)
  BY <1>1, <1>4, JournalConstants, J!AppendStep DEF FileInv
<1>6. J!Recovered' = [i \in DOMAIN wal' |-> LineOf(wal'[i])]
  <2> DEFINE r == J!Recovered
  <2>0. wal \in Seq(TransactionRecord)
    BY DEF TypeInv, DataOK
  <2>1. r = [i \in 1..Len(wal) |-> LineOf(wal[i])] /\ Len(wal) \in Nat
    BY <2>0 DEF FileInv
  <2>2. J!Recovered' = Append(r, LineOf(x))
    BY <1>2, <1>5 DEF J!RecordAdded
  <2> HIDE DEF r
  <2>3. Len(r) = Len(wal)
    BY <2>1
  <2>4. Append(r, LineOf(x)) = [i \in 1..(Len(wal) + 1) |->
                                   LineOf(Append(wal, x)[i])]
    BY <2>0, <2>1, <2>3
  <2>5. DOMAIN Append(wal, x) = 1..(Len(wal) + 1)
    BY <2>0
  <2> QED
    BY <1>2, <2>2, <2>4, <2>5
<1> QED
  BY <1>5, <1>6 DEF FileInv

\* A marker that reached the file, whether or not its call was told so.
LEMMA MarkReachesFile ==
    ASSUME TypeInv, StoreInv, FileInv, NEW t \in Thread,
           wal' = Marked(id[t]), J!WalInv', J!RecordCommitted(id[t])
    PROVE  FileInv'
<1> DEFINE n == id[t]
           r == J!Recovered
<1>1. J!WalInv' /\ J!RecordCommitted(n)
  OBVIOUS
<1>2. PICK k \in DOMAIN r :
        /\ r[k].id = n
        /\ r' = [r EXCEPT ![k].state = "Committed"]
  BY <1>1 DEF J!RecordCommitted
<1>3. r = [i \in DOMAIN wal |-> LineOf(wal[i])]
  BY DEF FileInv
<1>4. wal' = Marked(n)
  OBVIOUS
<1>5. /\ wal \in Seq(TransactionRecord)
      /\ \A i, j \in DOMAIN wal : wal[i].id = wal[j].id => i = j
  BY DEF TypeInv, DataOK, StoreInv, UniqueIds
<1> HIDE DEF r
<1>6. k \in DOMAIN wal /\ wal[k].id = n
  BY <1>2, <1>3 DEF LineOf
<1>7. \A i \in DOMAIN wal :
        (wal[i].id = n /\ \A j \in 1..(i - 1) : wal[j].id # n) <=> i = k
  <2>1. \A j \in 1..(k - 1) : wal[j].id # n
    BY <1>5, <1>6
  <2> QED
    BY <1>5, <1>6, <2>1
<1>8. wal' = [i \in DOMAIN wal |->
                 IF i = k THEN [wal[i] EXCEPT !.state = "Committed"] ELSE wal[i]]
  BY <1>4, <1>7 DEF Marked
<1>9. LineOf([wal[k] EXCEPT !.state = "Committed"])
        = [LineOf(wal[k]) EXCEPT !.state = "Committed"]
  <2>1. wal[k] \in TransactionRecord
    BY <1>5, <1>6
  <2> QED
    BY <2>1 DEF TransactionRecord, LineOf
<1>10. r' = [i \in DOMAIN wal' |-> LineOf(wal'[i])]
  BY <1>2, <1>3, <1>6, <1>8, <1>9
<1> QED
  BY <1>1, <1>10 DEF FileInv, r

LEMMA FileInit == RecoveryInit => FileInv
<1> SUFFICES ASSUME RecoveryInit PROVE FileInv
  OBVIOUS
<1>1. J!WalInv /\ J!Recovered = <<>>
  BY SameJournal, JournalConstants, J!WalInit DEF RecoveryInit
<1>2. wal = <<>>
  BY DEF RecoveryInit, Init
<1> QED
  BY <1>1, <1>2 DEF FileInv

\* Only wal_.append and wal_.mark_committed write the journal.
LEMMA OthersKeepWal ==
    ASSUME NEW t \in Thread, OtherStep(t)
    PROVE  wal' = wal /\ UNCHANGED journalVars
<1>1. pc[t] # "wal" /\ pc[t] # "commit" /\ UNCHANGED journalVars
  BY DEF OtherStep
<1>2. Advance(t) => wal' = wal
  BY <1>1 DEF Advance, LockAccount, Load, AppendIntent, ApplySave, ApplyThrows,
              MarkCommitted, AppendRecord, AuditCompleted, AuditFailed,
              AuditThrows, CatchAuditThrows
<1>3. Fault(t) => wal' = wal
  BY <1>1 DEF Fault, CallFails, SaveFails, MarkCommittedFails
<1>4. ASSUME NEW x \in Txns, ProcessOne(t, x) PROVE wal' = wal
  BY <1>4 DEF ProcessOne
<1> QED
  BY <1>1, <1>2, <1>3, <1>4 DEF OtherStep

LEMMA FileUntouched ==
    ASSUME FileInv, UNCHANGED journalVars, wal' = wal
    PROVE  FileInv'
<1>1. J!WalInv' /\ J!Recovered' = J!Recovered
  BY DEF FileInv, journalVars, J!WalInv, J!FileOK, J!HandleOK, J!IndexOK,
         J!Recovered
<1> QED
  BY <1>1 DEF FileInv

LEMMA DeathKeepsFile ==
    ASSUME TypeInv, FileInv, Dies
    PROVE  FileInv'
<1>1. wal' = wal
  BY DEF Dies, CrashRestart
<1>2. CASE Journal!Crash /\ file' = file
  <2>1. J!FileOK' /\ J!RecordsKept
    BY <1>2 DEF FileInv, J!WalInv, J!FileOK, J!RecordsKept, J!Recovered
  <2>2. J!Closed
    BY <1>2, SameJournal DEF J!Crash
  <2>3. J!WalInv'
    BY <2>1, <2>2, JournalConstants, J!ClosedStep
  <2> QED
    BY <1>1, <2>1, <2>3, LinesKept
<1>3. ASSUME NEW t \in Thread, NEW written \in 1..3, pc[t] = "wal",
             Journal!append_crash(id[t], written)
      PROVE  FileInv'
  <2>1. id[t] \in 1..MaxTxns
    <3>1. id[t] \in 1..(next_id - 1) /\ next_id \in 1..(MaxTxns + 1)
      BY <1>3 DEF TypeInv, DataOK, IdBound
    <3> QED
      BY <3>1, MaxTxnsAssumption
  <2>2. J!append_crash(id[t], written)
    BY <1>3, SameJournal
  <2>3. /\ J!FileOK /\ J!HandleOK /\ open /\ J!Closed
        /\ file' = J!Truncated \o SubSeq(J!Line(id[t], "Validated"), 1, written)
    BY <2>2 DEF J!append_crash, FileInv, J!WalInv
  <2>4. written \in 0..3
    BY <1>3
  <2>5. J!FileOK' /\ J!RecordsKept
    BY <2>1, <2>3, <2>4, JournalConstants, J!PartStep
  <2>6. J!WalInv'
    BY <2>3, <2>5, JournalConstants, J!ClosedStep
  <2> QED
    BY <1>1, <2>5, <2>6, LinesKept
<1>4. Journal!LineLength - 1 = 3
  BY SameJournal
<1> QED
  BY <1>2, <1>3, <1>4 DEF Dies

LEMMA FileStep ==
    ASSUME "append" \notin WalFaults, TypeInv, StoreInv, FileInv,
           [RecoveryNext]_recoveryVars
    PROVE  FileInv'
<1>1. CASE UNCHANGED recoveryVars
  BY <1>1, FileUntouched DEF recoveryVars, vars
<1>2. CASE Journal!Open /\ UNCHANGED <<vars, storeVars>>
  <2>1. J!Open /\ wal' = wal
    BY <1>2, SameJournal DEF vars
  <2>2. J!WalInv' /\ J!RecordsKept
    BY <2>1, JournalConstants, J!OpenStep DEF FileInv
  <2> QED
    BY <2>1, <2>2, LinesKept
<1>3. ASSUME NEW t \in Thread, JournalCall(t)
      PROVE  FileInv'
  <2>1. CASE AppendIntent(t) /\ Journal!append(id[t])
    BY <2>1, SameJournal, IntentReachesFile
  <2>2. ASSUME pc[t] = "wal", CallFails(t), NEW written \in 0..3,
               Journal!append_fails(id[t], written)
        PROVE  FileInv'
    <3>0. written = 0
      BY <2>2 DEF Journal!append_fails
    <3>1. J!append_fails(id[t], 0) /\ wal' = wal
      BY <2>2, <3>0, SameJournal DEF CallFails
    <3>2. id[t] \in 1..MaxTxns
      <4>1. id[t] \in 1..(next_id - 1) /\ next_id \in 1..(MaxTxns + 1)
        BY <2>2 DEF TypeInv, DataOK, IdBound
      <4> QED
        BY <4>1, MaxTxnsAssumption
    <3>3. J!WalInv' /\ J!RecordsKept
      BY <3>1, <3>2, JournalConstants, J!AppendFailsStep DEF FileInv
    <3> QED
      BY <3>1, <3>3, LinesKept
  <2>3. CASE MarkCommitted(t) /\ Journal!mark_committed(id[t])
    <3>1. J!mark_committed(id[t]) /\ wal' = Marked(id[t])
      BY <2>3, SameJournal DEF MarkCommitted
    <3>2. J!WalInv' /\ J!RecordCommitted(id[t])
      BY <3>1, JournalConstants, J!CommitStep DEF FileInv
    <3> QED
      BY <3>1, <3>2, MarkReachesFile
  <2>4. CASE /\ MarkCommittedFails(t) /\ Journal!mark_committed_fails(id[t])
             /\ wal' = wal <=> file' = file
    <3>1. /\ J!mark_committed_fails(id[t])
          /\ file' # file => wal' = Marked(id[t])
      BY <2>4, SameJournal DEF MarkCommittedFails
    <3>2. /\ J!WalInv'
          /\ file' = file => J!RecordsKept
          /\ file' # file => J!RecordCommitted(id[t])
      BY <3>1, JournalConstants, J!CommitFailsStep DEF FileInv
    <3>3. CASE file' = file
      BY <2>4, <3>2, <3>3, LinesKept
    <3>4. CASE file' # file
      BY <3>1, <3>2, <3>4, MarkReachesFile
    <3> QED
      BY <3>3, <3>4
  <2>5. Journal!LineLength - 1 = 3
    BY SameJournal
  <2> QED
    BY <1>3, <2>1, <2>2, <2>3, <2>4, <2>5 DEF JournalCall
<1>4. ASSUME NEW t \in Thread, OtherStep(t)
      PROVE  FileInv'
  BY <1>4, OthersKeepWal, FileUntouched
<1>5. CASE UNCHANGED <<vars, journalVars>>
  BY <1>5, FileUntouched DEF vars
<1>6. CASE Dies
  BY <1>6, DeathKeepsFile
<1> QED
  BY <1>1, <1>2, <1>3, <1>4, <1>5, <1>6 DEF RecoveryNext, SystemStep

\* The inductive invariant of the journal under the processor: that of
\* TransactionProcessor, that of WalLogger, and that the two agree.
THEOREM RecoveryInvariant ==
    ASSUME "append" \notin WalFaults
    PROVE  RecoverySpec => [](TypeInv /\ StoreInv /\ FileInv)
<1>1. RecoveryInit => TypeInv /\ StoreInv /\ FileInv
  BY TypeInit, StoreInit, FileInit DEF RecoveryInit
<1>2. ASSUME TypeInv, StoreInv, FileInv,
             [RecoveryNext]_recoveryVars
      PROVE  TypeInv' /\ StoreInv' /\ FileInv'
  <2>1. [Next]_vars
    BY <1>2, ProcessorSteps DEF recoveryVars, vars
  <2> QED
    BY <1>2, <2>1, TypeStep, StoreStep, FileStep
<1>3. TypeInv /\ StoreInv /\ FileInv
        /\ [RecoveryNext]_recoveryVars
      => (TypeInv /\ StoreInv /\ FileInv)'
  BY <1>2
<1> QED
  BY <1>1, <1>3, PTL DEF RecoverySpec

\* A reader of the file finds the journal the processor believes it wrote:
\* calls interleaved, appends that cannot open the file or die half-way, markers
\* that fail with the byte written or without it, deaths and restarts.  (The one
\* fault left out is the append that fails half-way in a process that lives on:
\* after it the statement is false, see finding_partial_append.)
THEOREM TheJournalIsTheFile ==
    ASSUME "append" \notin WalFaults
    PROVE  RecoverySpec => []JournalIsFile
<1>1. FileInv => JournalIsFile
  BY SameJournal DEF FileInv, LineOf, JournalIsFile
<1> QED
  BY RecoveryInvariant, <1>1, PTL

-----------------------------------------------------------------------------
(* Replay.                                                                 *)

TxnOf(r) == materialize_transaction(r)

\* The rules look at the involved accounts only, whatever else the accounts
\* they are given hold.
LEMMA RulesAgree ==
    ASSUME NEW x \in Transaction, NEW A, NEW B,
           DOMAIN A \subseteq Opened, DOMAIN B = Opened,
           ~apply_throws(x, A), \A a \in involved_accounts(x) : B[a] = A[a]
    PROVE  /\ ~apply_throws(x, B)
           /\ involved_accounts(x) \subseteq DOMAIN A
           /\ apply(x, B) =
                 [a \in Opened |-> IF a \in involved_accounts(x)
                                   THEN apply(x, A)[a] ELSE B[a]]
<1>1. NoAccount \notin Opened
  BY InitAccountsAssumption, NoAccountAssumption DEF Opened
<1>2. validate(x, A)
  BY DEF apply_throws
<1>3. involved_accounts(x) \subseteq DOMAIN A
  BY <1>2
  DEF involved_accounts, debit_account, credit_account, validate, Transaction,
      Deposit, Withdraw, Transfer
<1>4. /\ debit_account(x) # NoAccount =>
            debit_account(x) \in DOMAIN A /\ B[debit_account(x)] = A[debit_account(x)]
      /\ credit_account(x) # NoAccount =>
            credit_account(x) \in DOMAIN A /\ B[credit_account(x)] = A[credit_account(x)]
  BY <1>3 DEF involved_accounts
<1>5. validate(x, B)
  BY <1>2, <1>4, NoAccountAssumption
  DEF Transaction, Deposit, Withdraw, Transfer, validate, can_withdraw,
      debit_account, credit_account
<1>6. ~apply_throws(x, B)
  BY <1>4, <1>5 DEF apply_throws
<1>7. ASSUME NEW a \in Opened
      PROVE  apply(x, B)[a] = IF a \in involved_accounts(x)
                              THEN apply(x, A)[a] ELSE B[a]
  <2>1. CASE a \in involved_accounts(x)
    <3>1. a \in DOMAIN A /\ B[a] = A[a]
      BY <1>3, <2>1
    <3> QED
      BY <2>1, <3>1 DEF apply
  <2>2. CASE a \notin involved_accounts(x)
    <3>1. a # debit_account(x) /\ a # credit_account(x)
      BY <1>1, <2>2 DEF involved_accounts
    <3> QED
      BY <2>2, <3>1 DEF apply
  <2> QED
    BY <2>1, <2>2
<1>8. apply(x, B) = [a \in Opened |-> apply(x, B)[a]]
  BY DEF apply
<1> QED
  BY <1>3, <1>6, <1>7, <1>8

\* What one line does to the accounts.
LineReplayed(A, B, r) ==
    IF r.state = "Committed"
    THEN ~apply_throws(TxnOf(r), A) /\ B = apply(TxnOf(r), A)
    ELSE B = A

\* h[j] is what replaying the lines of w up to j on snapshot s gives, and
\* txn::apply accepts them all.
IsReplay(h, s, w) ==
    /\ s.lsn \in 0..Len(w)
    /\ \A j \in s.lsn..Len(w) : h[j] \in [Opened -> Account]
    /\ h[s.lsn] = s.accounts
    /\ \A j \in (s.lsn + 1)..Len(w) : LineReplayed(h[j - 1], h[j], w[j])

\* The saved accounts, without what calls have saved and not marked.
Settled(A) ==
    /\ \A a \in Opened :
          (\A t \in Thread : pc[t] = "commit" => a \notin involved_accounts(txn[t]))
             => A[a] = accounts[a]
    /\ \A t \in Thread : pc[t] = "commit" =>
          \A a \in involved_accounts(txn[t]) : A[a] = loaded[t][a]

Rebuilds(s) == \E h : IsReplay(h, s, wal) /\ Settled(h[Len(wal)])

Unmarked == {t \in Thread : pc[t] \in {"save", "commit"}}

\* The line of a call that has not marked it is behind the snapshot.
Behind(s) ==
    \A t \in Unmarked : \A i \in DOMAIN wal : wal[i].id = id[t] => s.lsn < i

LinesAreTxns == \A i \in DOMAIN wal : TxnOf(wal[i]) \in Transaction

\* Since a call wrote its intent nobody committed a line on its accounts.
CallsApart ==
    \A t \in Unmarked : \A i, j \in DOMAIN wal :
        wal[i].id = id[t] /\ i < j /\ wal[j].state = "Committed" =>
            involved_accounts(TxnOf(wal[j])) \cap involved_accounts(txn[t]) = {}

\* What a call that has saved found, and what it left.
CallSaved(t) ==
    /\ DOMAIN loaded[t] = involved_accounts(txn[t])
    /\ ~apply_throws(txn[t], loaded[t])
    /\ \A a \in involved_accounts(txn[t]) :
          accounts[a] = apply(txn[t], loaded[t])[a]

CallsSaved == \A t \in Thread : pc[t] = "commit" => CallSaved(t)

\* Every snapshot load() may give back, now or later.
Opening == [lsn |-> 0, accounts |-> InitAccounts]

Snapshots == {Opening} \cup {s \in {path, tmp, given} : Whole(s)}

CallsInv == LinesAreTxns /\ CallsApart /\ CallsSaved

\* A fence within the journal, before the line of every call in progress.
Fenced(s) == s.lsn \in 0..Len(wal) /\ Behind(s)

\* A snapshot as young as the last call that left something unmarked, or
\* younger, rebuilds the saved accounts.
ReplayInv ==
    /\ CallsInv
    /\ \A s \in Snapshots : Fenced(s) /\ (s.lsn >= doubt => Rebuilds(s))

\* What a step does to snapshots taken before it.
FencesKept == \A s : Fenced(s) => Fenced(s)'

ReplaysKept == \A s : Fenced(s) /\ Rebuilds(s) => Rebuilds(s)'

ProcessorInv == TypeInv /\ LockInv /\ LoadInv /\ StoreInv

-----------------------------------------------------------------------------
\* A step of the processor that neither writes the journal nor saves, nor ends
\* the call of a thread between save and marker.
Silent(t) ==
    /\ UNCHANGED <<accounts, wal>>
    /\ pc[t] # "commit" /\ pc'[t] \notin {"save", "commit"}
    /\ \A u \in Thread \ {t} :
          /\ pc'[u] = pc[u] /\ id'[u] = id[u]
          /\ txn'[u] = txn[u] /\ loaded'[u] = loaded[u]

SilentDeath ==
    /\ UNCHANGED <<accounts, wal>>
    /\ \A t \in Thread : pc[t] # "commit" /\ pc'[t] = "idle"

\* The marker of t reaches the file, and t is told so or not.
Marking(t) ==
    /\ pc[t] = "commit" /\ pc'[t] \notin {"save", "commit"}
    /\ wal' = Marked(id[t])
    /\ UNCHANGED <<accounts, id, txn>>
    /\ \A u \in Thread \ {t} : pc'[u] = pc[u] /\ loaded'[u] = loaded[u]

\* t gives up between its intent and its marker: a save that throws, perhaps
\* half-way, or a marker that is lost.
Abandoned(t) ==
    /\ pc[t] \in {"save", "commit"} /\ pc'[t] \notin {"save", "commit"}
    /\ UNCHANGED <<wal, id, txn>>
    /\ \A u \in Thread \ {t} : pc'[u] = pc[u] /\ loaded'[u] = loaded[u]
    /\ \/ accounts' = accounts
       \/ /\ pc[t] = "save"
          /\ \E S \in SUBSET DOMAIN loaded[t] : accounts' = Saved(t, S)

\* Every call is gone, some save perhaps cut short.
Death ==
    /\ wal' = wal
    /\ \A t \in Thread : pc'[t] = "idle"
    /\ accounts' = accounts \/ \E t \in Thread : pc[t] = "save"

LEMMA ReplaySteps ==
    ASSUME TypeInv, RecoveryNext
    PROVE  \/ UNCHANGED vars
           \/ \E t \in Thread : \/ AppendIntent(t) \/ ApplySave(t)
                                \/ Marking(t) \/ Silent(t) \/ Abandoned(t)
           \/ Death
<1> USE DEF TypeInv, DataOK, Label
<1>1. ASSUME NEW t \in Thread, JournalCall(t)
      PROVE  AppendIntent(t) \/ Marking(t) \/ Silent(t) \/ Abandoned(t)
  <2>1. CASE AppendIntent(t)
    BY <2>1
  <2>2. CASE pc[t] = "wal" /\ CallFails(t)
    BY <2>2 DEF CallFails, Throw, Silent
  <2>3. CASE MarkCommitted(t)
    BY <2>3 DEF MarkCommitted, Goto, Marking
  <2>4. CASE MarkCommittedFails(t)
    <3>1. /\ pc[t] = "commit" /\ pc'[t] = "catch"
          /\ UNCHANGED <<accounts, id, txn>>
          /\ \A u \in Thread \ {t} : pc'[u] = pc[u] /\ loaded'[u] = loaded[u]
          /\ wal' \in {wal, Marked(id[t])}
      BY <2>4 DEF MarkCommittedFails, Throw
    <3>2. CASE wal' = wal
      BY <3>1, <3>2 DEF Abandoned
    <3>3. CASE wal' = Marked(id[t])
      BY <3>1, <3>3 DEF Marking
    <3> QED
      BY <3>1, <3>2, <3>3
  <2> QED
    BY <1>1, <2>1, <2>2, <2>3, <2>4 DEF JournalCall
<1>2. ASSUME NEW t \in Thread, OtherStep(t)
      PROVE  ApplySave(t) \/ Silent(t) \/ Abandoned(t)
  <2>0. pc[t] \notin {"wal", "commit"}
    BY <1>2 DEF OtherStep
  <2>1. ASSUME NEW x \in Txns, ProcessOne(t, x) PROVE Silent(t)
    BY <2>1 DEF ProcessOne, Goto, Silent
  <2>2. ASSUME NEW a \in AccountId, LockAccount(t, a) PROVE Silent(t)
    BY <2>2 DEF LockAccount, Goto, Silent
  <2>3. CASE Load(t)
    BY <2>3 DEF Load, Goto, Silent
  <2>4. CASE ApplyThrows(t) \/ CallFails(t) \/ AuditThrows(t)
    BY <2>0, <2>4 DEF ApplyThrows, CallFails, AuditThrows, Throw, Silent
  <2>5. CASE AppendRecord(t)
    BY <2>5 DEF AppendRecord, Goto, Silent
  <2>6. CASE AuditCompleted(t) \/ AuditFailed(t) \/ CatchAuditThrows(t)
    BY <2>6 DEF AuditCompleted, AuditFailed, CatchAuditThrows, Return, Silent
  <2>7. ~AppendIntent(t) /\ ~MarkCommitted(t) /\ ~MarkCommittedFails(t)
    BY <2>0 DEF AppendIntent, MarkCommitted, MarkCommittedFails
  <2>8. CASE SaveFails(t)
    <3>1. /\ pc[t] = "save" /\ pc'[t] = "catch"
          /\ UNCHANGED <<wal, id, txn>>
          /\ \A u \in Thread \ {t} : pc'[u] = pc[u] /\ loaded'[u] = loaded[u]
      BY <2>8 DEF SaveFails, SavePrefix, Throw
    <3>2. PICK a \in DOMAIN loaded[t] :
            accounts' = Saved(t, {b \in DOMAIN loaded[t] : b < a})
      BY <2>8 DEF SaveFails, SavePrefix
    <3>3. {b \in DOMAIN loaded[t] : b < a} \in SUBSET DOMAIN loaded[t]
      OBVIOUS
    <3> QED
      BY <3>1, <3>2, <3>3 DEF Abandoned
  <2> QED
    BY <1>2, <2>1, <2>2, <2>3, <2>4, <2>5, <2>6, <2>7, <2>8
    DEF OtherStep, Advance, Fault
<1>3. Dies => Death
  BY DEF Dies, CrashRestart, SavePrefix, Death
<1> QED
  BY <1>1, <1>2, <1>3 DEF RecoveryNext, SystemStep

-----------------------------------------------------------------------------
\* A step that changes neither the lines nor the accounts, nor who is between
\* save and marker.
LEMMA ReplayKept ==
    ASSUME CallsInv, UNCHANGED <<accounts, wal>>,
           \A t \in Thread : pc[t] = "commit" <=> pc'[t] = "commit",
           \A t \in Thread : pc'[t] \in {"save", "commit"} =>
              /\ pc[t] \in {"save", "commit"}
              /\ id'[t] = id[t] /\ txn'[t] = txn[t] /\ loaded'[t] = loaded[t]
    PROVE  CallsInv' /\ FencesKept /\ ReplaysKept
<1>1. LinesAreTxns'
  BY DEF CallsInv, LinesAreTxns
<1>2. CallsApart'
  BY DEF CallsInv, CallsApart, Unmarked
<1>3. CallsSaved'
  BY DEF CallsInv, CallsSaved, CallSaved
<1>4. FencesKept
  BY DEF FencesKept, Fenced, Behind, Unmarked
<1>5. \A A : Settled(A) => Settled(A)'
  BY DEF Settled
<1>6. ReplaysKept
  BY <1>5 DEF ReplaysKept, Rebuilds
<1> QED
  BY <1>1, <1>2, <1>3, <1>4, <1>6 DEF CallsInv

\* The journal line of a call that has not marked it.
LEMMA OwnLine ==
    ASSUME ProcessorInv, NEW t \in Unmarked
    PROVE  \E k \in DOMAIN wal :
              /\ wal[k] = CallRecord(t, "Validated")
              /\ wal[k].id = id[t] /\ wal[k].state = "Validated"
              /\ TxnOf(wal[k]) = txn[t]
              /\ \A i \in DOMAIN wal : wal[i].id = id[t] => i = k
<1>1. pc[t] # "idle" /\ t \in Thread
  BY DEF Unmarked
<1>2. PICK k \in DOMAIN wal : wal[k] = CallRecord(t, "Validated")
  BY DEF ProcessorInv, StoreInv, CallTrace, Journaled, Unmarked
<1>3. /\ wal[k].id = id[t] /\ wal[k].state = "Validated"
      /\ TxnOf(wal[k]) = txn[t]
  BY <1>1, <1>2, CallRecordMeaning DEF ProcessorInv, TransactionState, TxnOf
<1> QED
  BY <1>2, <1>3 DEF ProcessorInv, StoreInv, UniqueIds

\* The accounts of two calls past their locks.
LEMMA UnmarkedApart ==
    ASSUME ProcessorInv, NEW t \in Unmarked, NEW u \in Unmarked, t # u
    PROVE  /\ involved_accounts(txn[t]) \cap involved_accounts(txn[u]) = {}
           /\ id[t] # id[u]
<1>1. t \in Thread /\ u \in Thread /\ pc[t] \in Holding /\ pc[u] \in Holding
      /\ pc[t] # "idle" /\ pc[u] # "idle"
  BY DEF Unmarked, Holding
<1> QED
  BY <1>1, Disjoint, BusyInvolved DEF ProcessorInv, StoreInv, CallIds

LEMMA ReplayIntent ==
    ASSUME ProcessorInv, CallsInv, NEW t \in Thread, AppendIntent(t)
    PROVE  CallsInv' /\ FencesKept /\ ReplaysKept
<1> DEFINE n == Len(wal) + 1
           x == CallRecord(t, "Validated")
<1>1. /\ pc[t] = "wal" /\ pc' = [pc EXCEPT ![t] = "save"]
      /\ wal' = Append(wal, x)
      /\ UNCHANGED <<accounts, id, txn, loaded>>
  BY DEF AppendIntent, Goto, CallRecord
<1>2. pc \in [Thread -> Label] /\ wal \in Seq(TransactionRecord) /\ TypeInv
  BY DEF ProcessorInv, TypeInv, DataOK
<1>3. /\ x \in TransactionRecord /\ x.id = id[t] /\ x.state = "Validated"
      /\ TxnOf(x) = txn[t] /\ txn[t] \in Transaction
  BY <1>1, <1>2, CallRecordMeaning, BusyInvolved DEF TransactionState, TxnOf
<1> HIDE DEF x
<1>4. /\ DOMAIN wal' = DOMAIN wal \cup {n} /\ n \notin DOMAIN wal
      /\ \A i \in DOMAIN wal : wal'[i] = wal[i]
      /\ wal'[n] = x
      /\ Len(wal') = n /\ Len(wal) \in Nat /\ DOMAIN wal = 1..Len(wal)
  BY <1>1, <1>2, <1>3, AppendMeaning
<1>5. /\ Unmarked' = Unmarked \cup {t} /\ t \notin Unmarked
      /\ \A u \in Thread : pc'[u] = "commit" <=> pc[u] = "commit"
  BY <1>1, <1>2 DEF Unmarked
<1>6. /\ \A i \in DOMAIN wal : wal[i].id # id[t]
      /\ \A u \in Unmarked : id[u] # id[t] /\ u # t
  BY <1>1, <1>5
  DEF ProcessorInv, StoreInv, CallTrace, CallIds, Ids, Unmarked
<1>7. LinesAreTxns'
  BY <1>3, <1>4 DEF CallsInv, LinesAreTxns
<1>8. CallsApart'
  <2> SUFFICES ASSUME NEW u \in Unmarked', NEW i \in DOMAIN wal',
                      NEW j \in DOMAIN wal', wal'[i].id = id[u], i < j,
                      wal'[j].state = "Committed"
               PROVE  involved_accounts(TxnOf(wal'[j]))
                        \cap involved_accounts(txn[u]) = {}
    BY <1>1 DEF CallsApart
  <2>1. j \in DOMAIN wal /\ wal'[j] = wal[j]
    BY <1>3, <1>4
  <2>2. i \in DOMAIN wal /\ wal'[i] = wal[i]
    BY <1>4, <2>1
  <2>3. u \in Unmarked
    BY <1>5, <1>6, <2>2
  <2> QED
    BY <2>1, <2>2, <2>3 DEF CallsInv, CallsApart
<1>9. CallsSaved'
  BY <1>1, <1>5 DEF CallsInv, CallsSaved, CallSaved
<1>10. ASSUME NEW s, Fenced(s)
       PROVE  Fenced(s)'
  <2>1. s.lsn \in 0..Len(wal) /\ s.lsn \in 0..Len(wal') /\ Behind(s)
    BY <1>4, <1>10 DEF Fenced
  <2> SUFFICES ASSUME NEW u \in Unmarked', NEW i \in DOMAIN wal',
                      wal'[i].id = id[u]
               PROVE  s.lsn < i
    BY <1>1, <2>1 DEF Behind, Fenced
  <2>2. CASE i = n
    BY <1>4, <2>1, <2>2
  <2>3. CASE i # n
    <3>1. i \in DOMAIN wal /\ wal[i].id = id[u]
      BY <1>4, <2>3
    <3>2. u \in Unmarked
      BY <1>5, <1>6, <3>1
    <3> QED
      BY <2>1, <3>1, <3>2 DEF Behind
  <2> QED
    BY <2>2, <2>3
<1>11. ASSUME NEW s, Rebuilds(s)
       PROVE  Rebuilds(s)'
  <2>1. PICK h : IsReplay(h, s, wal) /\ Settled(h[Len(wal)])
    BY <1>11 DEF Rebuilds
  <2> DEFINE g == [j \in 0..n |-> IF j = n THEN h[Len(wal)] ELSE h[j]]
  <2>2. /\ s.lsn \in 0..Len(wal)
        /\ \A j \in s.lsn..Len(wal) : h[j] \in [Opened -> Account]
        /\ h[s.lsn] = s.accounts
        /\ \A j \in (s.lsn + 1)..Len(wal) : LineReplayed(h[j - 1], h[j], wal[j])
    BY <2>1 DEF IsReplay
  <2>3. g[n] = h[Len(wal)] /\ \A j \in 0..Len(wal) : g[j] = h[j]
    BY <1>4
  <2> HIDE DEF g
  <2>4. IsReplay(g, s, wal')
    <3>1. s.lsn \in 0..n
      BY <1>4, <2>2
    <3>2. \A j \in s.lsn..n : g[j] \in [Opened -> Account]
      BY <1>4, <2>2, <2>3
    <3>3. g[s.lsn] = s.accounts
      BY <2>2, <2>3
    <3>4. ASSUME NEW j \in (s.lsn + 1)..n
          PROVE  LineReplayed(g[j - 1], g[j], wal'[j])
      <4>1. CASE j = n
        <5>1. j - 1 = Len(wal)
          BY <1>4, <4>1
        <5>2. g[j - 1] = h[Len(wal)] /\ g[j] = h[Len(wal)] /\ wal'[j] = x
          BY <1>4, <2>3, <4>1, <5>1
        <5> QED
          BY <1>3, <5>2 DEF LineReplayed
      <4>2. CASE j # n
        <5>1. j \in (s.lsn + 1)..Len(wal) /\ j \in DOMAIN wal
              /\ j \in 0..Len(wal) /\ j - 1 \in 0..Len(wal)
          BY <1>4, <2>2, <4>2
        <5> QED
          BY <1>4, <2>2, <2>3, <5>1
      <4> QED
        BY <4>1, <4>2
    <3> QED
      BY <1>4, <3>1, <3>2, <3>3, <3>4 DEF IsReplay
  <2>5. PICK m : m = n
    OBVIOUS
  <2>6. PICK A : A = h[Len(wal)]
    OBVIOUS
  <2>7. Settled(A)'
    BY <1>1, <1>5, <2>1, <2>6 DEF Settled
  <2>8. g[m] = A /\ m = Len(wal')
    BY <1>4, <2>3, <2>5, <2>6
  <2> QED
    BY <2>4, <2>7, <2>8 DEF Rebuilds
<1> QED
  BY <1>7, <1>8, <1>9, <1>10, <1>11 DEF CallsInv, FencesKept, ReplaysKept

\* The save of a call: until the marker its accounts are left out.
LEMMA ReplaySave ==
    ASSUME ProcessorInv, CallsInv, NEW t \in Thread, ApplySave(t)
    PROVE  CallsInv' /\ FencesKept /\ ReplaysKept
<1> DEFINE D == involved_accounts(txn[t])
<1>1. /\ pc[t] = "save" /\ pc' = [pc EXCEPT ![t] = "commit"]
      /\ ~apply_throws(txn[t], loaded[t])
      /\ accounts' = Saved(t, DOMAIN loaded[t])
      /\ UNCHANGED <<wal, id, txn, loaded>>
  BY DEF ApplySave, Goto
<1>2. pc \in [Thread -> Label] /\ TypeInv
  BY DEF ProcessorInv, TypeInv, DataOK
<1>3. /\ D \subseteq Opened /\ DOMAIN loaded[t] = D
      /\ \A a \in D : loaded[t][a] = accounts[a]
  BY <1>1 DEF ProcessorInv, TypeInv, DataOK, LoadInv
<1>4. /\ \A a \in D : accounts'[a] = apply(txn[t], loaded[t])[a]
      /\ \A a \in Opened \ D : accounts'[a] = accounts[a]
  BY <1>1, <1>3 DEF Saved
<1>5. /\ Unmarked' = Unmarked /\ t \in Unmarked
      /\ pc'[t] = "commit"
      /\ \A u \in Thread \ {t} : pc'[u] = pc[u]
      /\ \A u \in Thread : pc[u] = "commit" => u \in Unmarked /\ u # t
  BY <1>1, <1>2 DEF Unmarked
<1>6. \A u \in Unmarked \ {t} : involved_accounts(txn[u]) \cap D = {}
  BY <1>5, UnmarkedApart
<1> HIDE DEF D
<1>7. LinesAreTxns' /\ CallsApart'
  BY <1>1, <1>5 DEF CallsInv, LinesAreTxns, CallsApart
<1>8. CallsSaved'
  <2> SUFFICES ASSUME NEW u \in Thread, pc'[u] = "commit"
               PROVE  CallSaved(u)'
    BY DEF CallsSaved
  <2>1. CASE u = t
    BY <1>1, <1>3, <1>4, <2>1 DEF CallSaved, D
  <2>2. CASE u # t
    <3>1. pc[u] = "commit" /\ u \in Unmarked \ {t}
      BY <1>5, <2>2
    <3>2. CallSaved(u)
      BY <3>1 DEF CallsInv, CallsSaved
    <3>3. involved_accounts(txn[u]) \subseteq Opened \ D
      BY <1>2, <1>6, <3>1, <3>2 DEF CallSaved, TypeInv, DataOK
    <3> QED
      BY <1>1, <1>4, <3>2, <3>3 DEF CallSaved
  <2> QED
    BY <2>1, <2>2
<1>9. \A s : Fenced(s) => Fenced(s)'
  BY <1>1, <1>5 DEF Behind, Fenced
<1>10. ASSUME NEW A, Settled(A)
       PROVE  Settled(A)'
  <2>1. ASSUME NEW a \in Opened,
               \A u \in Thread : pc'[u] = "commit" => a \notin involved_accounts(txn[u])
        PROVE  A[a] = accounts'[a]
    <3>1. a \in Opened \ D
      BY <1>5, <2>1 DEF D
    <3>2. \A u \in Thread : pc[u] = "commit" => a \notin involved_accounts(txn[u])
      BY <1>5, <2>1
    <3> QED
      BY <1>4, <1>10, <3>1, <3>2 DEF Settled
  <2>2. ASSUME NEW u \in Thread, pc'[u] = "commit",
               NEW a \in involved_accounts(txn[u])
        PROVE  A[a] = loaded[u][a]
    <3>1. CASE u = t
      <4>1. a \in D /\ a \in Opened
        BY <1>3, <2>2, <3>1 DEF D
      <4>2. \A v \in Thread : pc[v] = "commit" => a \notin involved_accounts(txn[v])
        BY <1>5, <1>6, <4>1
      <4> QED
        BY <1>3, <1>10, <3>1, <4>1, <4>2 DEF Settled
    <3>2. CASE u # t
      BY <1>5, <1>10, <2>2, <3>2 DEF Settled
    <3> QED
      BY <3>1, <3>2
  <2> QED
    BY <1>1, <2>1, <2>2 DEF Settled
<1>11. \A s : Rebuilds(s) => Rebuilds(s)'
  BY <1>1, <1>10 DEF Rebuilds
<1> QED
  BY <1>7, <1>8, <1>9, <1>11 DEF CallsInv, FencesKept, ReplaysKept

\* A line that touches none of the accounts in D.
Elsewhere(r, D) ==
    r.state = "Committed" =>
        TxnOf(r) \in Transaction /\ involved_accounts(TxnOf(r)) \cap D = {}

\* A with the accounts in D taken from C.
Patched(A, D, C) == [a \in Opened |-> IF a \in D THEN C[a] ELSE A[a]]

LEMMA PatchedType ==
    ASSUME NEW A \in [Opened -> Account], NEW C \in [Opened -> Account], NEW D
    PROVE  Patched(A, D, C) \in [Opened -> Account]
BY DEF Patched

\* Such a line leaves those accounts alone ...
LEMMA LineLeaves ==
    ASSUME NEW A \in [Opened -> Account], NEW B, NEW r, NEW D,
           D \subseteq Opened, LineReplayed(A, B, r), Elsewhere(r, D)
    PROVE  \A a \in D : B[a] = A[a]
<1>1. CASE r.state # "Committed"
  BY <1>1 DEF LineReplayed
<1>2. CASE r.state = "Committed"
  <2>1. /\ TxnOf(r) \in Transaction /\ involved_accounts(TxnOf(r)) \cap D = {}
        /\ ~apply_throws(TxnOf(r), A) /\ B = apply(TxnOf(r), A)
    BY <1>2 DEF LineReplayed, Elsewhere
  <2>2. DOMAIN A = Opened
    OBVIOUS
  <2>3. B = [a \in Opened |-> IF a \in involved_accounts(TxnOf(r))
                              THEN apply(TxnOf(r), A)[a] ELSE A[a]]
    BY <2>1, <2>2, RulesAgree
  <2> QED
    BY <2>1, <2>3
<1> QED
  BY <1>1, <1>2

\* ... and does elsewhere what it did whatever they are.
LEMMA LineSame ==
    ASSUME NEW A \in [Opened -> Account], NEW B, NEW r, NEW D, NEW C,
           D \subseteq Opened, LineReplayed(A, B, r), Elsewhere(r, D)
    PROVE  LineReplayed(Patched(A, D, C), Patched(B, D, C), r)
<1> DEFINE P == Patched(A, D, C)
           Q == Patched(B, D, C)
<1>1. CASE r.state # "Committed"
  BY <1>1 DEF LineReplayed
<1>2. CASE r.state = "Committed"
  <2> DEFINE x == TxnOf(r)
             I == involved_accounts(x)
  <2>1. /\ x \in Transaction /\ I \cap D = {}
        /\ ~apply_throws(x, A) /\ B = apply(x, A)
    BY <1>2 DEF LineReplayed, Elsewhere
  <2>2. DOMAIN A = Opened /\ DOMAIN P = Opened
    BY DEF Patched
  <2> HIDE DEF x
  <2>3. /\ I \subseteq Opened
        /\ B = [a \in Opened |-> IF a \in I THEN apply(x, A)[a] ELSE A[a]]
    BY <2>1, <2>2, RulesAgree
  <2>4. \A a \in I : P[a] = A[a]
    BY <2>1, <2>3 DEF Patched
  <2>5. /\ ~apply_throws(x, P)
        /\ apply(x, P) = [a \in Opened |-> IF a \in I THEN apply(x, A)[a] ELSE P[a]]
    <3> HIDE DEF P
    <3> QED
      BY <2>1, <2>2, <2>4, RulesAgree
  <2>6. ASSUME NEW a \in Opened
        PROVE  Q[a] = IF a \in I THEN apply(x, A)[a] ELSE P[a]
    <3> HIDE DEF I
    <3> QED
      BY <2>1, <2>3 DEF Patched
  <2>7. Q = apply(x, P)
    <3>1. Q = [a \in Opened |-> Q[a]]
      BY DEF Patched
    <3> HIDE DEF Q, P, I
    <3> QED
      BY <2>5, <2>6, <3>1
  <2> QED
    BY <1>2, <2>5, <2>7 DEF LineReplayed, x
<1> QED
  BY <1>1, <1>2

LinesElsewhere(w, k, D) == \A j \in k..Len(w) : Elsewhere(w[j], D)

Unmoved(h, k, n, D) == \A j \in (k - 1)..n : \A a \in D : h[j][a] = h[n][a]

\* What a call holds has not moved since its line was written.
LEMMA HeldUnmoved ==
    ASSUME NEW h, NEW s, NEW w, Len(w) \in Nat, IsReplay(h, s, w),
           NEW k \in (s.lsn + 1)..Len(w), NEW D, D \subseteq Opened,
           LinesElsewhere(w, k, D)
    PROVE  Unmoved(h, k, Len(w), D)
<1> DEFINE n == Len(w)
           Same(j) == \A a \in D : h[j][a] = h[n][a]
           K == {m \in Nat : m <= n - (k - 1) => Same(n - m)}
<1>1. n \in Nat /\ s.lsn \in 0..n /\ k \in Nat /\ k <= n /\ s.lsn + 1 <= k
  BY DEF IsReplay
<1>2. 0 \in K
  BY <1>1
<1>3. ASSUME NEW m \in Nat, m \in K
      PROVE  m + 1 \in K
  <2> SUFFICES ASSUME m + 1 <= n - (k - 1) PROVE Same(n - (m + 1))
    OBVIOUS
  <2>1. PICK j : j = n - m
    OBVIOUS
  <2>2. /\ j \in k..n /\ j \in (s.lsn + 1)..n /\ j - 1 \in s.lsn..n
        /\ n - (m + 1) = j - 1
    BY <1>1, <2>1
  <2>3. Same(j)
    BY <1>1, <1>3, <2>1
  <2>4. /\ h[j - 1] \in [Opened -> Account]
        /\ LineReplayed(h[j - 1], h[j], w[j]) /\ Elsewhere(w[j], D)
    BY <2>2 DEF IsReplay, LinesElsewhere
  <2>5. \A a \in D : h[j][a] = h[j - 1][a]
    BY <2>4, LineLeaves
  <2> QED
    BY <2>2, <2>3, <2>5
<1>4. \A m \in Nat : m \in K
  <2> HIDE DEF K
  <2> QED
    BY <1>2, <1>3, JournalConstants, J!SetInduction
<1>5. ASSUME NEW j \in (k - 1)..n
      PROVE  Same(j)
  <2>1. n - j \in Nat /\ n - j <= n - (k - 1) /\ n - (n - j) = j
    BY <1>1
  <2>2. n - j \in K
    BY <1>4, <2>1
  <2> QED
    BY <2>1, <2>2
<1> QED
  BY <1>5 DEF Unmoved

\* At its marker a line does to the accounts before it what its call saved.
LEMMA LineOfCall ==
    ASSUME ProcessorInv, NEW t \in Thread, pc[t] = "commit", CallSaved(t),
           NEW A \in [Opened -> Account], NEW r,
           r.state = "Committed", TxnOf(r) = txn[t],
           \A a \in involved_accounts(txn[t]) : A[a] = loaded[t][a]
    PROVE  LineReplayed(A, Patched(A, involved_accounts(txn[t]), accounts), r)
<1> DEFINE x == txn[t]
           L == loaded[t]
           D == involved_accounts(txn[t])
<1>1. /\ x \in Transaction /\ DOMAIN L = D /\ D \subseteq Opened
      /\ ~apply_throws(x, L)
      /\ \A a \in D : accounts[a] = apply(x, L)[a]
      /\ DOMAIN A = Opened
  BY BusyInvolved DEF ProcessorInv, CallSaved, TypeInv, DataOK
<1>2. /\ ~apply_throws(x, A)
      /\ apply(x, A) = [a \in Opened |-> IF a \in D THEN apply(x, L)[a] ELSE A[a]]
  BY <1>1, RulesAgree
<1>3. apply(x, A) = Patched(A, D, accounts)
  <2> HIDE DEF x, L, D
  <2> QED
    BY <1>1, <1>2 DEF Patched
<1> QED
  BY <1>2, <1>3 DEF LineReplayed

\* g is the replay h, from line k on with the accounts in D taken from C.
PatchedFrom(g, h, n, k, D, C) ==
    g = [j \in 0..n |-> IF j < k THEN h[j] ELSE Patched(h[j], D, C)]

\* The marker puts the line in the middle of the journal: what was replayed
\* behind it is replayed as before, on other accounts.
LEMMA MarkReplayed ==
    ASSUME ProcessorInv, NEW t \in Thread, pc[t] = "commit", CallSaved(t),
           NEW h, NEW s, IsReplay(h, s, wal), Settled(h[Len(wal)]),
           NEW k \in DOMAIN wal, s.lsn < k,
           NEW w, Len(w) = Len(wal),
           \A i \in 1..Len(wal) : i # k => w[i] = wal[i],
           w[k].state = "Committed", TxnOf(w[k]) = txn[t],
           LinesElsewhere(wal, k, involved_accounts(txn[t])),
           wal[k].state # "Committed",
           NEW g, PatchedFrom(g, h, Len(wal), k, involved_accounts(txn[t]),
                              accounts)
    PROVE  IsReplay(g, s, w)
<1> DEFINE n == Len(wal)
           D == involved_accounts(txn[t])
           P(A) == Patched(A, D, accounts)
<1>1. /\ n \in Nat /\ DOMAIN wal = 1..n /\ accounts \in [Opened -> Account]
      /\ D \subseteq Opened
  BY DEF ProcessorInv, TypeInv, DataOK, CallSaved
<1>2. /\ s.lsn \in 0..n /\ s.lsn \in Nat
      /\ \A j \in s.lsn..n : h[j] \in [Opened -> Account]
      /\ h[s.lsn] = s.accounts
      /\ \A j \in (s.lsn + 1)..n : LineReplayed(h[j - 1], h[j], wal[j])
  BY <1>1 DEF IsReplay
<1>3. k \in (s.lsn + 1)..n /\ k - 1 \in s.lsn..n /\ k \in Nat
  BY <1>1, <1>2
<1>4. \A j \in 0..n : g[j] = IF j < k THEN h[j] ELSE P(h[j])
  BY DEF PatchedFrom
<1> HIDE DEF n, P
<1>5. \A j \in s.lsn..n : g[j] \in [Opened -> Account]
  <2> SUFFICES ASSUME NEW j \in s.lsn..n PROVE g[j] \in [Opened -> Account]
    OBVIOUS
  <2>1. j \in 0..n /\ h[j] \in [Opened -> Account]
    BY <1>1, <1>2
  <2>2. P(h[j]) \in [Opened -> Account]
    <3>1. PICK A \in [Opened -> Account] : A = h[j]
      BY <2>1
    <3>2. P(A) \in [Opened -> Account]
      BY <1>1, PatchedType DEF P
    <3> QED
      BY <3>1, <3>2
  <2> QED
    BY <1>4, <2>1, <2>2
<1>6. g[s.lsn] = s.accounts
  <2>1. s.lsn \in 0..n /\ s.lsn < k
    BY <1>2
  <2>2. g[s.lsn] = h[s.lsn]
    BY <1>4, <2>1
  <2> QED
    BY <1>2, <2>2
<1>7. \A a \in D : h[k - 1][a] = loaded[t][a]
  <2>0. Unmoved(h, k, Len(wal), D)
    <3>1. Len(wal) \in Nat /\ k \in (s.lsn + 1)..Len(wal)
      BY <1>1, <1>3 DEF n
    <3> QED
      BY <1>1, <3>1, HeldUnmoved
  <2>1. \A j \in (k - 1)..n : \A a \in D : h[j][a] = h[n][a]
    BY <2>0 DEF Unmoved, n
  <2>2. k - 1 \in (k - 1)..n
    BY <1>1, <1>3
  <2>3. \A a \in D : h[n][a] = loaded[t][a]
    BY DEF Settled, n
  <2> QED
    BY <2>1, <2>2, <2>3
<1>8. ASSUME NEW j \in (s.lsn + 1)..n
      PROVE  LineReplayed(g[j - 1], g[j], w[j])
  <2>1. /\ LineReplayed(h[j - 1], h[j], wal[j])
        /\ h[j - 1] \in [Opened -> Account]
        /\ j \in 1..n /\ j \in 0..n /\ j - 1 \in 0..n
    BY <1>1, <1>2
  <2>2. CASE j < k
    <3>1. g[j - 1] = h[j - 1] /\ g[j] = h[j] /\ w[j] = wal[j]
      BY <1>3, <1>4, <2>1, <2>2 DEF n
    <3> QED
      BY <2>1, <3>1
  <2>3. CASE j = k
    <3>1. wal[j].state # "Committed"
      BY <2>3
    <3>2. h[j] = h[j - 1]
      BY <2>1, <3>1 DEF LineReplayed
    <3>3. ~(j < k) /\ j - 1 < k
      BY <1>3, <2>3
    <3>4. g[j - 1] = h[j - 1] /\ g[j] = P(h[j])
      BY <1>4, <2>1, <3>3
    <3>5. LineReplayed(h[j - 1], P(h[j - 1]), w[j])
      BY <1>7, <2>1, <2>3, LineOfCall DEF P
    <3> QED
      BY <3>2, <3>4, <3>5
  <2>4. CASE j > k
    <3>1. g[j - 1] = P(h[j - 1]) /\ g[j] = P(h[j]) /\ w[j] = wal[j]
      BY <1>3, <1>4, <2>1, <2>4 DEF n
    <3>2. Elsewhere(wal[j], D)
      BY <1>3, <2>1, <2>4 DEF n, LinesElsewhere
    <3>3. LineReplayed(P(h[j - 1]), P(h[j]), wal[j])
      BY <1>1, <2>1, <3>2, LineSame DEF P
    <3> QED
      BY <3>1, <3>3
  <2> QED
    BY <1>3, <2>1, <2>2, <2>3, <2>4
<1> QED
  BY <1>2, <1>5, <1>6, <1>8 DEF IsReplay, n

LEMMA ReplayMark ==
    ASSUME ProcessorInv, CallsInv, NEW t \in Thread, Marking(t)
    PROVE  CallsInv' /\ FencesKept /\ ReplaysKept
<1> DEFINE n == Len(wal)
           D == involved_accounts(txn[t])
<1>1. /\ pc[t] = "commit" /\ pc'[t] \notin {"save", "commit"}
      /\ wal' = Marked(id[t])
      /\ UNCHANGED <<accounts, id, txn>>
      /\ \A u \in Thread \ {t} : pc'[u] = pc[u] /\ loaded'[u] = loaded[u]
  BY DEF Marking
<1>2. /\ pc \in [Thread -> Label] /\ TypeInv
      /\ wal \in Seq(TransactionRecord) /\ n \in Nat /\ DOMAIN wal = 1..n
  BY DEF ProcessorInv, TypeInv, DataOK
<1>3. t \in Unmarked /\ CallSaved(t)
  BY <1>1 DEF Unmarked, CallsInv, CallsSaved
<1>4. PICK k \in DOMAIN wal :
        /\ wal[k] = CallRecord(t, "Validated")
        /\ wal[k].id = id[t] /\ wal[k].state = "Validated"
        /\ TxnOf(wal[k]) = txn[t]
        /\ \A i \in DOMAIN wal : wal[i].id = id[t] => i = k
  BY <1>3, OwnLine
<1>5. /\ DOMAIN wal' = DOMAIN wal /\ Len(wal') = n
      /\ \A i \in DOMAIN wal : i # k => wal'[i] = wal[i]
      /\ wal'[k].state = "Committed" /\ wal'[k].id = id[t]
      /\ TxnOf(wal'[k]) = txn[t]
  <2>1. /\ Marked(id[t]) \in Seq(TransactionRecord)
        /\ DOMAIN Marked(id[t]) = DOMAIN wal
        /\ \A i \in DOMAIN wal : wal[i].id # id[t] => Marked(id[t])[i] = wal[i]
        /\ Marked(id[t])[k] = Flipped(wal[k])
    BY <1>2, <1>4, MarkedMeaning
  <2>2. /\ Flipped(wal[k]).state = "Committed" /\ Flipped(wal[k]).id = wal[k].id
        /\ TxnOf(Flipped(wal[k])) = TxnOf(wal[k])
    BY <1>2, FlippedType DEF TxnOf
  <2> QED
    BY <1>1, <1>2, <1>4, <2>1, <2>2
<1>6. /\ Unmarked' = Unmarked \ {t}
      /\ \A u \in Thread : pc'[u] = "commit" <=> pc[u] = "commit" /\ u # t
      /\ \A u \in Thread : pc[u] = "commit" => u \in Unmarked
  BY <1>1, <1>2 DEF Unmarked
<1>7. \A u \in Unmarked \ {t} : involved_accounts(txn[u]) \cap D = {} /\ id[u] # id[t]
  BY <1>3, UnmarkedApart
<1>8. txn[t] \in Transaction
  BY <1>1, <1>2, BusyInvolved
<1>9. LinesAreTxns'
  BY <1>4, <1>5, <1>8 DEF CallsInv, LinesAreTxns
<1>10. CallsApart'
  <2> SUFFICES ASSUME NEW u \in Unmarked', NEW i \in DOMAIN wal',
                      NEW j \in DOMAIN wal', wal'[i].id = id[u], i < j,
                      wal'[j].state = "Committed"
               PROVE  involved_accounts(TxnOf(wal'[j]))
                        \cap involved_accounts(txn[u]) = {}
    BY <1>1 DEF CallsApart
  <2>1. u \in Unmarked \ {t}
    BY <1>6
  <2>2. i \in DOMAIN wal /\ wal[i].id = id[u]
    BY <1>4, <1>5, <1>7, <2>1
  <2>3. CASE j = k
    BY <1>5, <1>7, <2>1, <2>3
  <2>4. CASE j # k
    BY <1>5, <2>1, <2>2, <2>4 DEF CallsInv, CallsApart
  <2> QED
    BY <2>3, <2>4
<1>11. CallsSaved'
  BY <1>1, <1>6 DEF CallsInv, CallsSaved, CallSaved
<1>12. \A s : Fenced(s) => Fenced(s)'
  BY <1>1, <1>4, <1>5, <1>6 DEF Behind, Fenced
<1>13. ASSUME NEW A \in [Opened -> Account], Settled(A)
       PROVE  Settled(Patched(A, involved_accounts(txn[t]), accounts))'
  <2>0. PICK B : B = Patched(A, D, accounts)
    OBVIOUS
  <2>1. ASSUME NEW a \in Opened,
               \A u \in Thread : pc'[u] = "commit" => a \notin involved_accounts(txn[u])
        PROVE  B[a] = accounts[a]
    <3>1. CASE a \in D
      BY <2>0, <3>1 DEF Patched
    <3>2. CASE a \notin D
      <4>1. \A u \in Thread : pc[u] = "commit" => a \notin involved_accounts(txn[u])
        BY <1>6, <2>1, <3>2
      <4>2. A[a] = accounts[a]
        BY <1>13, <4>1 DEF Settled
      <4> QED
        BY <2>0, <3>2, <4>2 DEF Patched
    <3> QED
      BY <3>1, <3>2
  <2>2. ASSUME NEW u \in Thread, pc'[u] = "commit",
               NEW a \in involved_accounts(txn[u])
        PROVE  B[a] = loaded[u][a]
    <3>1. u \in Unmarked \ {t} /\ pc[u] = "commit"
      BY <1>6, <2>2
    <3>2. a \notin D
      BY <1>7, <2>2, <3>1
    <3>3. a \in Opened
      <4>1. CallSaved(u)
        BY <3>1 DEF CallsInv, CallsSaved
      <4> QED
        BY <1>2, <2>2, <4>1 DEF CallSaved, TypeInv, DataOK
    <3>4. A[a] = loaded[u][a]
      BY <1>13, <2>2, <3>1 DEF Settled
    <3> QED
      BY <2>0, <3>2, <3>3, <3>4 DEF Patched
  <2>3. Settled(B)'
    BY <1>1, <1>6, <2>1, <2>2 DEF Settled
  <2>4. B = Patched(A, involved_accounts(txn[t]), accounts)'
    BY <1>1, <2>0 DEF Patched
  <2> QED
    BY <2>3, <2>4
<1>14. ASSUME NEW s, Fenced(s), Rebuilds(s)
       PROVE  Rebuilds(s)'
  <2>1. PICK h : IsReplay(h, s, wal) /\ Settled(h[Len(wal)])
    BY <1>14 DEF Rebuilds
  <2> DEFINE g == [j \in 0..Len(wal) |->
                     IF j < k THEN h[j]
                     ELSE Patched(h[j], involved_accounts(txn[t]), accounts)]
  <2>2. LinesElsewhere(wal, k, D)
    <3>1. ASSUME NEW j \in k..Len(wal), wal[j].state = "Committed"
          PROVE  /\ TxnOf(wal[j]) \in Transaction
                 /\ involved_accounts(TxnOf(wal[j])) \cap D = {}
      <4>1. j \in DOMAIN wal /\ k < j
        BY <1>2, <1>4, <3>1
      <4> QED
        BY <1>3, <1>4, <3>1, <4>1 DEF CallsInv, LinesAreTxns, CallsApart
    <3> QED
      BY <3>1 DEF Elsewhere, LinesElsewhere
  <2>3. s.lsn < k
    BY <1>3, <1>4, <1>14 DEF Behind, Fenced
  <2>4. \A i \in 1..Len(wal) : i # k => wal'[i] = wal[i]
    BY <1>2, <1>5
  <2>5. PICK w : w = wal'
    OBVIOUS
  <2>6. IsReplay(g, s, w)
    <3>1. /\ Len(w) = Len(wal) /\ w[k].state = "Committed"
          /\ TxnOf(w[k]) = txn[t] /\ wal[k].state # "Committed"
          /\ \A i \in 1..Len(wal) : i # k => w[i] = wal[i]
      BY <1>4, <1>5, <2>4, <2>5
    <3>2. PatchedFrom(g, h, Len(wal), k, involved_accounts(txn[t]), accounts)
      BY DEF PatchedFrom
    <3> HIDE DEF g
    <3> QED
      BY <1>1, <1>3, <2>1, <2>2, <2>3, <3>1, <3>2, MarkReplayed
  <2>7. h[n] \in [Opened -> Account] /\ k <= n
    BY <1>2, <2>1 DEF IsReplay
  <2>8. PICK A : A = h[n]
    OBVIOUS
  <2>9. PICK B : B = Patched(A, D, accounts)
    OBVIOUS
  <2>10. Settled(B)'
    <3>1. Settled(A) /\ A \in [Opened -> Account]
      BY <2>1, <2>7, <2>8
    <3>2. B = Patched(A, involved_accounts(txn[t]), accounts)'
      BY <1>1, <2>9 DEF Patched
    <3> QED
      BY <1>13, <3>1, <3>2
  <2>11. g[n] = B
    BY <1>2, <2>7, <2>8, <2>9
  <2>12. PICK m : m = n
    OBVIOUS
  <2>13. PICK f : f = g
    OBVIOUS
  <2>14. f[m] = B /\ m = Len(wal') /\ IsReplay(f, s, wal')
    BY <1>5, <2>5, <2>6, <2>11, <2>12, <2>13
  <2> QED
    BY <2>10, <2>14 DEF Rebuilds
<1> QED
  BY <1>9, <1>10, <1>11, <1>12, <1>14 DEF CallsInv, FencesKept, ReplaysKept

-----------------------------------------------------------------------------
(* Calls that leave something saved and not marked.                        *)

LEMMA AbandonedCalls ==
    ASSUME ProcessorInv, CallsInv, NEW t \in Thread, Abandoned(t)
    PROVE  CallsInv' /\ FencesKept
<1>1. /\ pc[t] \in {"save", "commit"} /\ pc'[t] \notin {"save", "commit"}
      /\ UNCHANGED <<wal, id, txn>>
      /\ \A u \in Thread \ {t} : pc'[u] = pc[u] /\ loaded'[u] = loaded[u]
  BY DEF Abandoned
<1>2. t \in Unmarked /\ Unmarked' = Unmarked \ {t}
  BY <1>1 DEF Unmarked
<1>3. LinesAreTxns' /\ CallsApart'
  BY <1>1, <1>2 DEF CallsInv, LinesAreTxns, CallsApart
<1>4. FencesKept
  BY <1>1, <1>2 DEF FencesKept, Fenced, Behind
<1>5. ASSUME NEW u \in Thread, pc'[u] = "commit"
      PROVE  CallSaved(u)'
  <2>1. u # t /\ pc[u] = "commit" /\ u \in Unmarked /\ CallSaved(u)
    BY <1>1, <1>5 DEF Unmarked, CallsInv, CallsSaved
  <2>2. \A a \in involved_accounts(txn[u]) : accounts'[a] = accounts[a]
    <3>1. CASE accounts' = accounts
      BY <3>1
    <3>2. ASSUME pc[t] = "save", NEW S \in SUBSET DOMAIN loaded[t],
                 accounts' = Saved(t, S)
          PROVE  \A a \in involved_accounts(txn[u]) : accounts'[a] = accounts[a]
      <4>1. DOMAIN loaded[t] = involved_accounts(txn[t])
        BY <3>2 DEF ProcessorInv, TypeInv, DataOK, LoadInv
      <4>2. involved_accounts(txn[t]) \cap involved_accounts(txn[u]) = {}
        BY <1>2, <2>1, UnmarkedApart
      <4>3. involved_accounts(txn[u]) \subseteq Opened
        BY <2>1 DEF CallSaved, ProcessorInv, TypeInv, DataOK
      <4> QED
        BY <3>2, <4>1, <4>2, <4>3 DEF Saved
    <3> QED
      BY <3>1, <3>2 DEF Abandoned
  <2> QED
    BY <1>1, <2>1, <2>2 DEF CallSaved
<1> QED
  BY <1>3, <1>4, <1>5 DEF CallsInv, CallsSaved

LEMMA DeadCalls ==
    ASSUME CallsInv, Death
    PROVE  CallsInv' /\ FencesKept
<1>1. wal' = wal /\ Unmarked' = {} /\ \A t \in Thread : pc'[t] # "commit"
  BY DEF Death, Unmarked
<1> QED
  BY <1>1 DEF CallsInv, LinesAreTxns, CallsApart, CallsSaved, FencesKept,
              Fenced, Behind

\* Unless a call leaves something in doubt, those steps are silent.
LEMMA NothingDoubtful ==
    ASSUME ~Doubtful
    PROVE  /\ \A t \in Thread : Abandoned(t) => Silent(t)
           /\ Death => SilentDeath
<1>1. ASSUME NEW t \in Thread, Abandoned(t)
      PROVE  Silent(t)
  <2>1. pc[t] = "save"
    BY <1>1 DEF Abandoned, Doubtful, LeavesDoubt
  <2>2. accounts' = accounts
    BY <1>1, <2>1 DEF Abandoned, Doubtful, LeavesDoubt
  <2> QED
    BY <1>1, <2>1, <2>2 DEF Abandoned, Silent
<1>2. ASSUME Death
      PROVE  SilentDeath
  <2>1. accounts' = accounts
    BY <1>2 DEF Death, Doubtful, LeavesDoubt
  <2>2. \A t \in Thread : pc[t] # "commit"
    BY <1>2 DEF Death, Doubtful, LeavesDoubt
  <2> QED
    BY <1>2, <2>1, <2>2 DEF Death, SilentDeath
<1> QED
  BY <1>1, <1>2

\* A call in doubt has its line behind every fence.
LEMMA DoubtfulFences ==
    ASSUME ProcessorInv, Doubtful, NEW s, Fenced(s)
    PROVE  s.lsn < Len(wal)
<1>1. PICK t \in Thread : LeavesDoubt(t)
  BY DEF Doubtful
<1>2. t \in Unmarked
  BY <1>1 DEF LeavesDoubt, Unmarked
<1>3. PICK k \in DOMAIN wal : wal[k].id = id[t]
  BY <1>2, OwnLine
<1>4. s.lsn < k /\ s.lsn \in 0..Len(wal)
  BY <1>2, <1>3 DEF Fenced, Behind
<1>5. wal \in Seq(TransactionRecord)
  BY DEF ProcessorInv, TypeInv, DataOK
<1>6. k \in 1..Len(wal) /\ Len(wal) \in Nat
  BY <1>5
<1> QED
  BY <1>4, <1>6

-----------------------------------------------------------------------------
\* What a reader of the file finds, line by line.
LEMMA FileLines ==
    ASSUME TypeInv, FileInv
    PROVE  /\ Len(J!Parse(file)) = Len(wal) /\ J!Clean(J!Parse(file))
           /\ \A i \in 1..Len(wal) : J!RecordOf(J!Parse(file)[i]) = LineOf(wal[i])
<1> DEFINE es == J!Parse(file)
<1>1. J!FileOK /\ J!Recovered = J!load_all(es) /\ J!Clean(es)
  BY DEF FileInv, J!WalInv, J!Recovered, J!FileOK, J!GoodFile
<1>2. J!ReadsBack(es)
  BY <1>1, JournalConstants, J!ReadBack
<1>3. wal \in Seq(TransactionRecord)
  BY DEF TypeInv, DataOK
<1> DEFINE r == J!Recovered
<1>4. /\ r \in Seq(J!LogRecord) /\ Len(r) = Len(es)
      /\ \A k \in 1..Len(es) : r[k] = J!RecordOf(es[k])
  BY <1>1, <1>2 DEF J!ReadsBack
<1>5. r = [i \in 1..Len(wal) |-> LineOf(wal[i])] /\ Len(wal) \in Nat
  BY <1>3 DEF FileInv
<1> HIDE DEF r, es
<1>6. Len(r) = Len(wal)
  BY <1>5
<1>7. \A i \in 1..Len(wal) : J!RecordOf(es[i]) = LineOf(wal[i])
  BY <1>4, <1>5, <1>6
<1> QED
  BY <1>1, <1>4, <1>6, <1>7 DEF es

LEMMA SameReading ==
    /\ Journal!Parse(file) = J!Parse(file)
    /\ \A es : Journal!load_all(es) = J!load_all(es)
<1>1. Journal!Parse(file) = J!Parse(file)
  BY Zenon
  DEF Journal!Parse, J!Parse, Journal!EntryAt, J!EntryAt,
      Journal!WellFormed, J!WellFormed, Journal!LineBefore, J!LineBefore,
      Journal!LineStart, J!LineStart, Journal!Entry, J!Entry,
      Journal!HasState, J!HasState,
      Journal!StateOf, J!StateOf, Journal!Newline, J!Newline
<1>2. \A es : Journal!load_all(es) = J!load_all(es)
  BY Zenon
  DEF Journal!load_all, J!load_all, Journal!Loaded, J!Loaded,
      Journal!Readable, J!Readable
<1> QED
  BY <1>1, <1>2

\* replay_from gives the journal's lines behind the fence.
LEMMA LinesBehind ==
    ASSUME TypeInv, FileInv, NEW n \in 0..Len(wal)
    PROVE  /\ Len(replay_from(n)) = Len(wal) - n
           /\ \A k \in 1..(Len(wal) - n) : replay_from(n)[k] = LineOf(wal[n + k])
<1> DEFINE es == J!Parse(file)
           fs == SubSeq(es, n + 1, Len(es))
           m == Len(wal) - n
<1>1. /\ Len(es) = Len(wal) /\ J!Clean(es) /\ Len(wal) \in Nat
      /\ \A i \in 1..Len(wal) : J!RecordOf(es[i]) = LineOf(wal[i])
  BY FileLines DEF TypeInv, DataOK
<1>2. es \in Seq(J!JournalEntry)
  BY <1>1 DEF J!Clean
<1>3. replay_from(n) = J!load_all(fs)
  BY SameReading DEF replay_from, Journal!replay_from
<1> HIDE DEF es
<1>4. /\ fs \in Seq(J!JournalEntry) /\ Len(fs) = m
      /\ \A k \in 1..m : fs[k] = es[n + k]
  BY <1>1, <1>2
<1>5. m \in Nat /\ \A k \in 1..m : n + k \in 1..Len(wal)
  BY <1>1
<1> HIDE DEF fs, m
<1>6. J!Clean(fs)
  BY <1>1, <1>4, <1>5 DEF J!Clean
<1>7. J!ReadsBack(fs)
  BY <1>6, JournalConstants, J!ReadBack
<1>8. /\ Len(J!load_all(fs)) = m
      /\ \A k \in 1..m : J!load_all(fs)[k] = J!RecordOf(fs[k])
  BY <1>4, <1>7 DEF J!ReadsBack
<1>9. \A k \in 1..m : J!RecordOf(fs[k]) = LineOf(wal[n + k])
  BY <1>1, <1>4, <1>5
<1> QED
  BY <1>3, <1>8, <1>9 DEF m

\* Recovery does with a line what the line stands for.
Accounts(A) == [accounts |-> A, broken |-> FALSE]

LEMMA LineMeaning ==
    ASSUME TypeInv, StoreInv, NEW i \in DOMAIN wal, NEW A, NEW B,
           LineReplayed(A, B, wal[i])
    PROVE  ReplayLine(Accounts(A), LineOf(wal[i])) = Accounts(B)
<1> DEFINE line == LineOf(wal[i])
<1>1. /\ wal[i] \in TransactionRecord
      /\ line.id = wal[i].id /\ line.state = wal[i].state
  BY DEF TypeInv, DataOK, LineOf
<1>2. (CHOOSE j \in DOMAIN wal : wal[j].id = line.id) = i
  BY <1>1 DEF StoreInv, UniqueIds
<1>3. Found(line) = wal[i]
  <2>1. Found(line) = [wal[i] EXCEPT !.state = wal[i].state]
    BY <1>1, <1>2 DEF Found
  <2> QED
    BY <1>1, <2>1 DEF TransactionRecord
<1>4. Accounts(A).accounts = A /\ Accounts(A).broken = FALSE
  BY DEF Accounts
<1> HIDE DEF line
<1>5. CASE wal[i].state # "Committed"
  BY <1>1, <1>5 DEF LineReplayed, ReplayLine, line
<1>6. CASE wal[i].state = "Committed"
  <2>1. ~apply_throws(TxnOf(wal[i]), A) /\ B = apply(TxnOf(wal[i]), A)
    BY <1>6 DEF LineReplayed
  <2>2. ReplayLine(Accounts(A), line) = Accounts(apply(TxnOf(wal[i]), A))
    BY <1>1, <1>3, <1>4, <1>6, <2>1 DEF ReplayLine, TxnOf, Accounts
  <2> QED
    BY <2>1, <2>2 DEF line
<1> QED
  BY <1>5, <1>6

\* The loop of a replay.
IsRun(u, lines, s) ==
    u = [k \in 0..Len(lines) |->
            IF k = 0 THEN s ELSE ReplayLine(u[k - 1], lines[k])]

LEMMA RunsAgree ==
    ASSUME NEW lines, Len(lines) \in Nat, NEW s, NEW g, IsRun(g, lines, s)
    PROVE  Replayed(lines, s) = g[Len(lines)]
<1> DEFINE n == Len(lines)
           u == CHOOSE f : IsRun(f, lines, s)
           K == {k \in Nat : k <= n => u[k] = g[k]}
<1>1. IsRun(u, lines, s)
  OBVIOUS
<1>2. Replayed(lines, s) = u[n]
  BY DEF Replayed, IsRun
<1> HIDE DEF u
<1>3. \A k \in 0..n : /\ u[k] = IF k = 0 THEN s ELSE ReplayLine(u[k - 1], lines[k])
                      /\ g[k] = IF k = 0 THEN s ELSE ReplayLine(g[k - 1], lines[k])
  BY <1>1 DEF IsRun
<1>4. 0 \in K
  BY <1>3
<1>5. ASSUME NEW k \in Nat, k \in K
      PROVE  k + 1 \in K
  <2> SUFFICES ASSUME k + 1 <= n PROVE u[k + 1] = g[k + 1]
    OBVIOUS
  <2>1. u[k] = g[k] /\ k + 1 \in 0..n /\ k + 1 # 0 /\ (k + 1) - 1 = k
    BY <1>5
  <2> QED
    BY <1>3, <2>1
<1>6. n \in K
  <2> HIDE DEF K
  <2> QED
    BY <1>4, <1>5, JournalConstants, J!SetInduction
<1> QED
  BY <1>2, <1>6

LEMMA RebuiltIsReplayed ==
    ASSUME TypeInv, StoreInv, FileInv, NEW s, NEW h, IsReplay(h, s, wal)
    PROVE  Replayed(replay_from(s.lsn), Accounts(s.accounts))
             = Accounts(h[Len(wal)])
<1> DEFINE n == s.lsn
           m == Len(wal) - n
           lines == replay_from(n)
           g == [k \in 0..m |-> Accounts(h[n + k])]
<1>1. /\ n \in 0..Len(wal) /\ Len(wal) \in Nat /\ n \in Nat /\ m \in Nat
      /\ n + m = Len(wal) /\ DOMAIN wal = 1..Len(wal)
      /\ h[n] = s.accounts
  BY DEF IsReplay, TypeInv, DataOK
<1>2. Len(lines) = m /\ \A k \in 1..m : lines[k] = LineOf(wal[n + k])
  BY <1>1, LinesBehind
<1> HIDE DEF lines
<1>3. ASSUME NEW k \in 1..m
      PROVE  ReplayLine(Accounts(h[n + (k - 1)]), lines[k]) = Accounts(h[n + k])
  <2>1. PICK j : j = n + k
    OBVIOUS
  <2>2. /\ j \in (n + 1)..Len(wal) /\ j \in DOMAIN wal /\ n + (k - 1) = j - 1
    BY <1>1, <2>1
  <2>3. LineReplayed(h[j - 1], h[j], wal[j])
    BY <2>2 DEF IsReplay
  <2>4. ReplayLine(Accounts(h[j - 1]), LineOf(wal[j])) = Accounts(h[j])
    BY <2>2, <2>3, LineMeaning
  <2> QED
    BY <1>2, <2>1, <2>2, <2>4
<1>4. IsRun(g, lines, Accounts(s.accounts))
  <2>1. \A k \in 0..m :
          g[k] = IF k = 0 THEN Accounts(s.accounts) ELSE ReplayLine(g[k - 1], lines[k])
    <3> TAKE k \in 0..m
    <3>1. CASE k = 0
      BY <1>1, <3>1
    <3>2. CASE k # 0
      <4>1. k \in 1..m /\ k - 1 \in 0..m
        BY <1>1, <3>2
      <4>2. g[k] = Accounts(h[n + k]) /\ g[k - 1] = Accounts(h[n + (k - 1)])
        BY <4>1
      <4> QED
        BY <1>3, <3>2, <4>1, <4>2
    <3> QED
      BY <3>1, <3>2
  <2>2. g = [k \in 0..m |-> g[k]]
    OBVIOUS
  <2> HIDE DEF g, m
  <2> QED
    BY <1>2, <2>1, <2>2 DEF IsRun
<1>5. g[m] = Accounts(h[Len(wal)])
  BY <1>1
<1> QED
  BY <1>1, <1>2, <1>4, <1>5, RunsAgree DEF lines

-----------------------------------------------------------------------------
\* A checkpoint is what replay rebuilds from it at once.
LEMMA CheckpointRebuilds ==
    ASSUME ProcessorInv, FileInv, open, Quiet,
           NEW s, s = [lsn |-> Len(entries), accounts |-> accounts]
    PROVE  Rebuilds(s) /\ Fenced(s)
<1>1. /\ Len(wal) \in Nat /\ accounts \in [Opened -> Account]
      /\ TypeInv
  BY DEF ProcessorInv, TypeInv, DataOK
<1>2. Len(entries) = Len(wal)
  <2>1. Len(entries) = Len(J!Parse(file))
    BY DEF FileInv, J!WalInv, J!IndexOK, J!Follows
  <2> QED
    BY <1>1, <2>1, FileLines
<1>3. s.lsn = Len(wal) /\ s.accounts = accounts
  BY <1>2
<1>4. Unmarked = {} /\ \A t \in Thread : pc[t] # "commit"
  BY DEF Quiet, Unmarked
<1> DEFINE h == [j \in 0..Len(wal) |-> accounts]
<1>5. IsReplay(h, s, wal)
  BY <1>1, <1>3 DEF IsReplay
<1>6. h[Len(wal)] = accounts
  BY <1>1
<1>7. Settled(h[Len(wal)])
  BY <1>4, <1>6 DEF Settled
<1> QED
  BY <1>1, <1>3, <1>4, <1>5, <1>7 DEF Rebuilds, Behind, Fenced

\* The snapshots a step leaves were there before, or are a new checkpoint.
LEMMA SnapshotsStep ==
    ASSUME RecoveryNext
    PROVE  \/ Snapshots' \subseteq Snapshots
           \/ /\ open /\ Quiet /\ UNCHANGED <<vars, journalVars>>
              /\ Snapshots' \subseteq Snapshots \cup
                    {[lsn |-> Len(entries), accounts |-> accounts]}
<1>1. CASE UNCHANGED storeVars
  BY <1>1 DEF storeVars, Snapshots, Opening
<1>2. CASE Checkpoint /\ open /\ Quiet /\ UNCHANGED <<vars, journalVars>>
  BY <1>2 DEF Checkpoint, Store!OpenTmp, Snapshots, Opening, Whole
<1>3. CASE Store!Step
  BY <1>3
  DEF Store!Step, Store!WriteTmp, Store!WriteFails, Store!Rename,
      Store!RenameFails, Store!Return, Store!clear, Store!Leave, Snapshots,
      Opening, Whole
<1>4. CASE Store!Crash
  BY <1>4 DEF Store!Crash, Store!Leave, Snapshots, Opening, Whole
<1> QED
  BY <1>1, <1>2, <1>3, <1>4 DEF RecoveryNext, SystemStep, Dies

\* Steps that end no call between save and marker.
LEMMA ReplaySilent ==
    ASSUME CallsInv
    PROVE  /\ UNCHANGED vars => CallsInv' /\ FencesKept /\ ReplaysKept
           /\ \A t \in Thread : Silent(t) => CallsInv' /\ FencesKept /\ ReplaysKept
           /\ SilentDeath => CallsInv' /\ FencesKept /\ ReplaysKept
<1>1. CASE UNCHANGED vars
  BY <1>1, ReplayKept DEF vars
<1>2. ASSUME NEW t \in Thread, Silent(t)
      PROVE  CallsInv' /\ FencesKept /\ ReplaysKept
  <2>1. UNCHANGED <<accounts, wal>>
    BY <1>2 DEF Silent
  <2>2. \A u \in Thread : pc[u] = "commit" <=> pc'[u] = "commit"
    BY <1>2 DEF Silent
  <2>3. \A u \in Thread : pc'[u] \in {"save", "commit"} =>
           /\ pc[u] \in {"save", "commit"}
           /\ id'[u] = id[u] /\ txn'[u] = txn[u] /\ loaded'[u] = loaded[u]
    BY <1>2 DEF Silent
  <2> QED
    BY <2>1, <2>2, <2>3, ReplayKept
<1>3. CASE SilentDeath
  BY <1>3, ReplayKept DEF SilentDeath
<1> QED
  BY <1>1, <1>2, <1>3

\* Whatever the processor does keeps every fence, and every snapshot rebuilding
\* unless a call leaves something in doubt.
LEMMA ReplayCalls ==
    ASSUME ProcessorInv, CallsInv, RecoveryNext
    PROVE  /\ CallsInv' /\ FencesKept
           /\ ~Doubtful => ReplaysKept
<1>1. TypeInv
  BY DEF ProcessorInv
<1>2. CASE UNCHANGED vars
  BY <1>2, ReplaySilent
<1>3. CASE \E t \in Thread : AppendIntent(t) \/ ApplySave(t) \/ Marking(t)
  BY <1>3, ReplayIntent, ReplaySave, ReplayMark
<1>4. CASE \E t \in Thread : Silent(t)
  BY <1>4, ReplaySilent
<1>5. CASE \E t \in Thread : Abandoned(t)
  <2>1. CallsInv' /\ FencesKept
    BY <1>5, AbandonedCalls
  <2>2. ~Doubtful => ReplaysKept
    BY <1>5, NothingDoubtful, ReplaySilent
  <2> QED
    BY <2>1, <2>2
<1>6. CASE Death
  <2>1. CallsInv' /\ FencesKept
    BY <1>6, DeadCalls
  <2>2. ~Doubtful => ReplaysKept
    BY <1>6, NothingDoubtful, ReplaySilent
  <2> QED
    BY <2>1, <2>2
<1> QED
  BY <1>1, <1>2, <1>3, <1>4, <1>5, <1>6, ReplaySteps

LEMMA ReplayStep ==
    ASSUME ProcessorInv, FileInv, ReplayInv, [RecoveryNext]_recoveryVars
    PROVE  ReplayInv'
<1>1. CASE UNCHANGED recoveryVars
  <2>1. CallsInv' /\ FencesKept /\ ReplaysKept
    BY <1>1, ReplaySilent DEF ReplayInv, recoveryVars
  <2>2. Snapshots' = Snapshots /\ doubt' = doubt
    BY <1>1 DEF recoveryVars, storeVars, Snapshots, Opening
  <2> QED
    BY <2>1, <2>2 DEF ReplayInv, FencesKept, ReplaysKept
<1>2. CASE RecoveryNext
  <2>1. /\ CallsInv' /\ FencesKept
        /\ ~Doubtful => ReplaysKept
    BY <1>2, ReplayCalls DEF ReplayInv
  <2>2. ASSUME NEW s \in Snapshots
        PROVE  Fenced(s)' /\ (s.lsn >= doubt' => Rebuilds(s)')
    <3>1. Fenced(s) /\ (s.lsn >= doubt => Rebuilds(s))
      BY DEF ReplayInv
    <3>2. Fenced(s)'
      BY <2>1, <3>1 DEF FencesKept
    <3>3. CASE ~Doubtful
      <4>1. doubt' = doubt
        BY <1>2, <3>3 DEF RecoveryNext
      <4> QED
        BY <2>1, <3>1, <3>2, <3>3, <4>1 DEF ReplaysKept
    <3>4. CASE Doubtful
      <4>1. doubt' = Len(wal) /\ s.lsn < Len(wal)
        BY <1>2, <3>1, <3>4, DoubtfulFences DEF RecoveryNext
      <4>2. s.lsn \in Int /\ Len(wal) \in Int
        BY <3>1 DEF Fenced, ProcessorInv, TypeInv, DataOK
      <4>3. ~(s.lsn >= doubt')
        BY <4>1, <4>2
      <4> QED
        BY <3>2, <4>3
    <3> QED
      BY <3>3, <3>4
  <2>3. ASSUME open, Quiet, UNCHANGED <<vars, journalVars>>,
               NEW s, s = [lsn |-> Len(entries), accounts |-> accounts]
        PROVE  Fenced(s)' /\ Rebuilds(s)'
    <3>1. Rebuilds(s) /\ Fenced(s)
      BY <2>3, CheckpointRebuilds
    <3>2. FencesKept /\ ReplaysKept
      BY <2>3, ReplaySilent DEF ReplayInv
    <3> QED
      BY <3>1, <3>2 DEF FencesKept, ReplaysKept
  <2>4. ASSUME NEW s \in Snapshots'
        PROVE  Fenced(s)' /\ (s.lsn >= doubt' => Rebuilds(s)')
    BY <1>2, <2>2, <2>3, <2>4, SnapshotsStep
  <2> QED
    BY <2>1, <2>4 DEF ReplayInv
<1> QED
  BY <1>1, <1>2

LEMMA ReplayInit == RecoveryInit => ReplayInv
<1> SUFFICES ASSUME RecoveryInit PROVE ReplayInv
  OBVIOUS
<1>1. /\ accounts = InitAccounts /\ wal = <<>> /\ Len(wal) = 0
      /\ DOMAIN wal = {}
      /\ pc = [t \in Thread |-> "idle"]
      /\ path = NoFile /\ tmp = NoFile /\ given = Nothing
  BY DEF RecoveryInit, Init, Store!Init
<1>2. Unmarked = {} /\ \A t \in Thread : pc[t] # "commit"
  BY <1>1 DEF Unmarked
<1>3. CallsInv
  BY <1>1, <1>2 DEF CallsInv, LinesAreTxns, CallsApart, CallsSaved
<1>4. Snapshots = {Opening}
  BY <1>1 DEF Snapshots, Whole
<1> DEFINE h == [j \in {0} |-> InitAccounts]
<1>5. Opening.lsn = 0 /\ Opening.accounts = InitAccounts
  BY DEF Opening
<1>6. InitAccounts \in [Opened -> Account]
  BY InitAccountsAssumption DEF Opened
<1>7. IsReplay(h, Opening, wal)
  BY <1>1, <1>5, <1>6 DEF IsReplay
<1>8. Settled(h[Len(wal)])
  BY <1>1, <1>2 DEF Settled
<1>9. Rebuilds(Opening) /\ Fenced(Opening)
  BY <1>1, <1>2, <1>5, <1>7, <1>8 DEF Rebuilds, Behind, Fenced
<1> QED
  BY <1>3, <1>4, <1>9 DEF ReplayInv

\* What load() gives back is one of the snapshots.
LEMMA LoadedIsSnapshot == LoadedSnapshot \in Snapshots
BY DEF LoadedSnapshot, Store!load, Snapshots, Opening, Whole

LEMMA ReplayRecovers ==
    ASSUME ProcessorInv, FileInv, ReplayInv
    PROVE  RecoversSavedAccounts
<1>0. SUFFICES ASSUME LoadedSnapshot.lsn >= doubt
               PROVE  /\ ~Recovered.broken
                      /\ \A a \in Opened \ InDoubt :
                            Recovered.accounts[a] = accounts[a]
  BY DEF RecoversSavedAccounts
<1>1. PICK s : s = LoadedSnapshot
  OBVIOUS
<1>2. PICK h : IsReplay(h, s, wal) /\ Settled(h[Len(wal)])
  BY <1>0, <1>1, LoadedIsSnapshot DEF ReplayInv, Rebuilds
<1>3. Recovered = Accounts(h[Len(wal)])
  <2>1. Replayed(replay_from(s.lsn), Accounts(s.accounts))
          = Accounts(h[Len(wal)])
    BY <1>2, RebuiltIsReplayed DEF ProcessorInv
  <2> QED
    BY <1>1, <2>1 DEF Recovered, Accounts
<1>4. Recovered.accounts = h[Len(wal)] /\ Recovered.broken = FALSE
  BY <1>3 DEF Accounts
<1>5. ASSUME NEW a \in Opened, a \notin InDoubt
      PROVE  h[Len(wal)][a] = accounts[a]
  <2>1. ASSUME NEW t \in Thread, pc[t] = "commit"
        PROVE  a \notin involved_accounts(txn[t])
    <3>1. Held(t) = involved_accounts(txn[t])
      BY <2>1 DEF ProcessorInv, LockInv, Holding
    <3> QED
      BY <1>5, <2>1, <3>1 DEF InDoubt
  <2> QED
    BY <1>2, <2>1 DEF Settled
<1> QED
  BY <1>4, <1>5

\* The inductive invariant of recovery: every snapshot that may be loaded, if it
\* was taken since a call last left accounts saved and unmarked, rebuilds with
\* the journal behind it the accounts without what is not marked yet.
THEOREM ReplayInvariant ==
    ASSUME "append" \notin WalFaults
    PROVE  RecoverySpec => [](ProcessorInv /\ FileInv /\ ReplayInv)
<1> DEFINE I == ProcessorInv /\ FileInv /\ ReplayInv
<1>1. RecoveryInit => I
  BY TypeInit, LockInit, LoadInit, StoreInit, FileInit, ReplayInit
  DEF RecoveryInit, ProcessorInv
<1>2. I /\ [RecoveryNext]_recoveryVars => I'
  <2> SUFFICES ASSUME I, [RecoveryNext]_recoveryVars
               PROVE  I'
    OBVIOUS
  <2>1. [Next]_vars
    BY ProcessorSteps DEF recoveryVars, vars
  <2>2. TypeInv /\ LockInv /\ LoadInv /\ StoreInv
    BY DEF ProcessorInv
  <2>3. ProcessorInv'
    BY <2>1, <2>2, TypeStep, LockStep, LoadStep, StoreStep DEF ProcessorInv
  <2>4. FileInv'
    BY <2>2, FileStep
  <2>5. ReplayInv'
    BY ReplayStep
  <2> QED
    BY <2>3, <2>4, <2>5
<1> QED
  BY <1>1, <1>2, PTL DEF RecoverySpec

\* A process that dies recovers, from its last checkpoint and the Committed
\* lines behind it, every saved account no call was about to mark, whatever
\* checkpoints, loads, saves, markers and records failed and wherever it died
\* before: except that after a half save, a lost marker or a death before the
\* marker this waits for the next checkpoint, and that an append failing half-way
\* in a process that lives on is left out.
THEOREM SavedAccountsAreRecovered ==
    ASSUME "append" \notin WalFaults
    PROVE  RecoverySpec => []RecoversSavedAccounts
<1>1. ProcessorInv /\ FileInv /\ ReplayInv => RecoversSavedAccounts
  BY ReplayRecovers
<1> QED
  BY <1>1, ReplayInvariant, PTL
=============================================================================
