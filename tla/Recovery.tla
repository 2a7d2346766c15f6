------------------------------ MODULE Recovery -------------------------------
(***************************************************************************)
(* Checkpoints and recovery: TransactionProcessor, WalLogger and           *)
(* SnapshotStore under the protocol of SnapshotStore.h and of              *)
(* tests/test_wal.cpp.  A snapshot holds all accounts and the journal's    *)
(* size (its fence); recovery opens the journal file, loads the snapshot,  *)
(* materializes every Committed record of replay_from(lsn) and applies it. *)
(*                                                                         *)
(* Every wal_ call of the processor is the call of the WalLogger object,   *)
(* so the file is written as the processor's threads interleave, and a     *)
(* death leaves it as the write under way left it; the next processor      *)
(* opens it.  The repository takes checkpoints in that test only, between  *)
(* two transactions; so does this model.  Any call of the processor or of  *)
(* the journal may fail and the process may die anywhere.  What a call has *)
(* saved when it ends without its commit marker (a half save, a failed     *)
(* marker, a death between the two) is not in the journal: `doubt' says    *)
(* since when, and a later checkpoint is what mends it.                    *)
(***************************************************************************)
EXTENDS TransactionProcessor

CONSTANTS
    NoFile,        \* no file at the snapshot's path
    Part,          \* a document cut short
    Nothing,       \* std::nullopt
    StoreFaults,   \* what may fail in the snapshot store
    WalFaults      \* what may fail in the journal

ASSUME FilesAssumption ==
    NoFile # Part /\ NoFile # Nothing /\ Part # Nothing

ASSUME WalFaultsAssumption ==
    WalFaults \subseteq {"open", "append", "mark", "crash"}

VARIABLES path, tmp, store_pc, given, kept
VARIABLES file, open, entries, next_offset, drop_tail, valid_length

Store == INSTANCE SnapshotStore
            WITH Faults <- StoreFaults, pc <- store_pc

Journal == INSTANCE WalLogger
            WITH TxnId <- 1..MaxTxns, MaxCells <- 4 * MaxTxns, Faults <- WalFaults

\* The journal's length when a call last left something saved and unmarked.
VARIABLE doubt

storeVars == <<path, tmp, store_pc, given, kept>>
journalVars == <<file, open, entries, next_offset, drop_tail, valid_length>>
recoveryVars == <<vars, storeVars, journalVars, doubt>>

\* No call of the processor is running.
Quiet == \A t \in Thread : pc[t] = "idle"

\* A call ends with accounts saved and no marker written.
LeavesDoubt(t) ==
    \/ pc[t] = "save" /\ pc'[t] \notin {"save", "commit"} /\ accounts' # accounts
    \/ pc[t] = "commit" /\ pc'[t] # "commit" /\ wal' = wal

Doubtful == \E t \in Thread : LeavesDoubt(t)

-----------------------------------------------------------------------------
\* snapshots.store({wal.size(), accounts}).
Checkpoint == Store!OpenTmp([lsn |-> Len(entries), accounts |-> accounts])

\* The calls of wal_: what becomes of the processor and of the journal.
JournalCall(t) ==
    \/ AppendIntent(t) /\ Journal!append(id[t])
    \/ /\ pc[t] = "wal" /\ CallFails(t)
       /\ \E written \in 0..(Journal!LineLength - 1) :
             Journal!append_fails(id[t], written)
    \/ MarkCommitted(t) /\ Journal!mark_committed(id[t])
    \/ /\ MarkCommittedFails(t) /\ Journal!mark_committed_fails(id[t])
       /\ wal' = wal <=> file' = file

OtherStep(t) ==
    /\ pc[t] \notin {"wal", "commit"}
    /\ Advance(t) \/ Fault(t) \/ \E x \in Txns : ProcessOne(t, x)
    /\ UNCHANGED journalVars

\* The process dies, perhaps inside an append.  (One that dies inside
\* mark_committed dies before it, or after it: the marker is one byte.)
Dies ==
    /\ CrashRestart
    /\ Store!Crash
    /\ \/ Journal!Crash /\ file' = file
       \/ \E t \in Thread, written \in 1..(Journal!LineLength - 1) :
             pc[t] = "wal" /\ Journal!append_crash(id[t], written)

RecoveryInit == Init /\ Store!Init /\ Journal!Init /\ doubt = 0

SystemStep ==
    \/ Journal!Open /\ UNCHANGED <<vars, storeVars>>
    \/ /\ open /\ store_pc = "idle"
       /\ \E t \in Thread : JournalCall(t) \/ OtherStep(t)
       /\ UNCHANGED storeVars
    \/ /\ open /\ Quiet
       /\ Checkpoint \/ Store!Step
       /\ UNCHANGED <<vars, journalVars>>
    \/ open /\ Dies

RecoveryNext ==
    /\ SystemStep
    /\ doubt' = IF Doubtful THEN Len(wal) ELSE doubt

RecoverySpec == RecoveryInit /\ [][RecoveryNext]_recoveryVars

-----------------------------------------------------------------------------
(* Recovery.                                                               *)

\* The record of a line the reader finds: the payload the processor gave it,
\* the state its header has.
Found(line) ==
    [wal[CHOOSE i \in DOMAIN wal : wal[i].id = line.id] EXCEPT !.state = line.state]

\* Mutant of replay_from: the record at the fence is replayed too.
replay_from_inclusive(lsn) ==
    Journal!replay_from(Journal!Parse(file), IF lsn = 0 THEN 0 ELSE lsn - 1)

replay_from(lsn) == Journal!replay_from(Journal!Parse(file), lsn)

\* One replayed line.  `broken' tells that txn::apply threw on the way.
ReplayLine(s, line) ==
    IF s.broken \/ line.state # "Committed" THEN s
    ELSE LET x == materialize_transaction(Found(line))
         IN  IF apply_throws(x, s.accounts) THEN [s EXCEPT !.broken = TRUE]
             ELSE [accounts |-> apply(x, s.accounts), broken |-> FALSE]

\* Replaying lines one after the other.
Replayed(lines, s) ==
    LET upto[k \in 0..Len(lines)] ==
            IF k = 0 THEN s ELSE ReplayLine(upto[k - 1], lines[k])
    IN  upto[Len(lines)]

\* Without a snapshot: the opened accounts, and the whole journal.
LoadedSnapshot ==
    IF Store!load = Nothing THEN [lsn |-> 0, accounts |-> InitAccounts]
    ELSE Store!load

\* What recovery would rebuild from the files as they are now.
Recovered ==
    Replayed(replay_from(LoadedSnapshot.lsn),
             [accounts |-> LoadedSnapshot.accounts, broken |-> FALSE])

-----------------------------------------------------------------------------
(* Properties.                                                             *)

\* Saved, but not marked yet.
InDoubt == UNION {Held(t) : t \in {u \in Thread : pc[u] = "commit"}}

\* "Recovery = load snapshot, then replay the WAL strictly after lsn": a
\* process that died now recovers the saved balance, status and version of
\* every account no call is between saving and marking, whatever became of
\* the checkpoints it took, and txn::apply accepts every line on the way.  Once
\* a call has left accounts saved and its line unmarked this waits for the
\* next checkpoint: from then on it holds again.
RecoversSavedAccounts ==
    LoadedSnapshot.lsn >= doubt =>
        /\ ~Recovered.broken
        /\ \A a \in Opened \ InDoubt : Recovered.accounts[a] = accounts[a]

\* The journal file holds the lines the processor's calls appended, in that
\* order, each Committed exactly when its call marked it: however the calls
\* interleave, wherever appends fail and the process dies, a reader of the
\* file sees what module TransactionProcessor calls `wal'.
JournalIsFile ==
    Journal!Recovered =
        [i \in DOMAIN wal |-> [id |-> wal[i].id, state |-> wal[i].state]]

\* "A crashed snapshot write can never leave a torn file behind".
NeverTorn == Store!NeverTorn

\* The last completed checkpoint is what load() gives back, whatever fails
\* while the next one is written.
CheckpointSurvives == Store!CheckpointSurvives
=============================================================================
