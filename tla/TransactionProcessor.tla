------------------------ MODULE TransactionProcessor ------------------------
(***************************************************************************)
(* TransactionProcessor::process_one / process_impl, called concurrently   *)
(* by a set of threads: account locks in ascending id order, load,         *)
(* validate, WAL intent, apply and save, WAL commit, record, audit, and    *)
(* the catch block every exception ends in.                                *)
(*                                                                         *)
(* One step is one critical section of the code: an account mutex being    *)
(* acquired, one WalLogger call (WalLogger::mutex_), one block under       *)
(* repos_mutex_.  Statements that only touch locals are merged into the    *)
(* step they precede; the guards' destructors run in one step, since an    *)
(* unlock only ever enables other threads.                                 *)
(*                                                                         *)
(* `wal' is the journal as a reader of the file would see it.  `Faults'    *)
(* names the calls that may throw and "crash", the death of the process    *)
(* followed by the construction of a new processor over the same stores    *)
(* (SQLite repositories and the journal file).                             *)
(***************************************************************************)
EXTENDS BankDomain, Sequences

CONSTANTS
    Thread,        \* callers of process_one, or pool consumers
    NoThread,      \* the owner of a free account mutex
    Txns,          \* the transactions callers may ask for
    InitAccounts,  \* the accounts opened before the processor runs
    MaxTxns,       \* bound: ids handed out by next_id_
    Faults         \* subset of FaultPoint

FaultPoint ==
    {"load", "wal", "save", "commit", "record", "audit", "read", "crash"}

ASSUME NoThreadAssumption == NoThread \notin Thread
ASSUME TxnsAssumption == Txns \subseteq Transaction
ASSUME InitAccountsAssumption ==
    /\ DOMAIN InitAccounts \subseteq AccountId
    /\ InitAccounts \in [DOMAIN InitAccounts -> Account]
ASSUME MaxTxnsAssumption == MaxTxns \in Nat
ASSUME FaultsAssumption == Faults \subseteq FaultPoint

VARIABLES
    accounts,       \* accounts_: the account repository
    wal,            \* wal_: the journal, a sequence of TransactionRecord
    records,        \* transactions_: the transaction repository
    audit,          \* audit_: the audit repository, a set of entries
    next_id,        \* next_id_
    next_audit_id,  \* next_audit_id_
    owner,          \* locks_: who holds each account mutex
    pc,             \* where each thread is in process_impl
    txn,            \* the argument txn of its call
    id,             \* the argument id of its call
    loaded,         \* the local `loaded': accounts read under the locks
    result          \* what its last finished call gave back

vars == <<accounts, wal, records, audit, next_id, next_audit_id, owner, pc,
          txn, id, loaded, result>>

Opened == DOMAIN InitAccounts

NoneLoaded == [a \in {} |-> 0]

NoTxn == [type |-> "None"]

Init ==
    /\ accounts = InitAccounts
    /\ wal = <<>>
    /\ records = <<>>
    /\ audit = {}
    /\ next_id = 1
    /\ next_audit_id = 1
    /\ owner = [a \in AccountId |-> NoThread]
    /\ pc = [t \in Thread |-> "idle"]
    /\ txn = [t \in Thread |-> NoTxn]
    /\ id = [t \in Thread |-> 0]
    /\ loaded = [t \in Thread |-> NoneLoaded]
    /\ result = [t \in Thread |-> "none"]

-----------------------------------------------------------------------------
Held(t) == {a \in AccountId : owner[a] = t}

Missing(t) == involved_accounts(txn[t]) \ Held(t)

Ids(s) == {s[i].id : i \in DOMAIN s}

\* Mutant of Released: the account mutexes are never unlocked.
Released_never(t) == owner

\* The lock table once t's guards are gone.
Released(t) == [a \in AccountId |-> IF owner[a] = t THEN NoThread ELSE owner[a]]

\* Leaving process_impl: the guards unlock, the caller gets r.
Return(t, r) ==
    /\ pc' = [pc EXCEPT ![t] = "idle"]
    /\ result' = [result EXCEPT ![t] = r]
    /\ loaded' = [loaded EXCEPT ![t] = NoneLoaded]
    /\ owner' = Released(t)

\* An exception inside the try block: unwinding releases the account locks
\* before the handler runs.
Throw(t) ==
    /\ pc' = [pc EXCEPT ![t] = "catch"]
    /\ loaded' = [loaded EXCEPT ![t] = NoneLoaded]
    /\ owner' = Released(t)

Goto(t, label) == pc' = [pc EXCEPT ![t] = label]

-----------------------------------------------------------------------------
\* process_one: a fresh id, then process_impl.
ProcessOne(t, x) ==
    /\ pc[t] = "idle"
    /\ next_id <= MaxTxns
    /\ next_id' = next_id + 1
    /\ id' = [id EXCEPT ![t] = next_id]
    /\ txn' = [txn EXCEPT ![t] = x]
    /\ result' = [result EXCEPT ![t] = "none"]
    /\ Goto(t, "lock")
    /\ UNCHANGED <<accounts, wal, records, audit, next_audit_id, owner, loaded>>

\* Mutant of FirstOf: the ids are not sorted.
FirstOf_unsorted(t, a) == TRUE

\* a comes first in what is left of `sorted'.
FirstOf(t, a) == \A b \in Missing(t) : a <= b

\* Mutant of Free: every caller gets a mutex of its own.
Free_always(a) == TRUE

\* Nobody holds the mutex of a.
Free(a) == owner[a] = NoThread

\* locks_.lock(account_id) for the next id of `sorted'.
LockAccount(t, a) ==
    /\ pc[t] = "lock"
    /\ a \in Missing(t)
    /\ FirstOf(t, a)
    /\ Free(a)
    /\ owner' = [owner EXCEPT ![a] = t]
    /\ Goto(t, IF Missing(t) = {a} THEN "load" ELSE "lock")
    /\ UNCHANGED <<accounts, wal, records, audit, next_id, next_audit_id, txn,
                   id, loaded, result>>

\* All involved accounts, read in one repos_mutex_ section, then validate.
Load(t) ==
    LET involved == involved_accounts(txn[t])
        found == [a \in involved \cap Opened |-> accounts[a]]
    IN  /\ pc[t] = "load"
        /\ loaded' = [loaded EXCEPT ![t] = found]
        /\ Goto(t, IF involved \subseteq Opened /\ validate(txn[t], found)
                   THEN "wal" ELSE "audit_fail")
        /\ UNCHANGED <<accounts, wal, records, audit, next_id, next_audit_id,
                       owner, txn, id, result>>

\* wal_.append of the intent.
AppendIntent(t) ==
    /\ pc[t] = "wal"
    /\ wal' = Append(wal, [project_transaction(id[t], txn[t])
                              EXCEPT !.state = "Validated"])
    /\ Goto(t, "save")
    /\ UNCHANGED <<accounts, records, audit, next_id, next_audit_id, owner, txn,
                   id, loaded, result>>

\* Mutant of Saved: the loop stops before the last account.
Saved_but_last(t, S) ==
    [a \in Opened |->
        IF a \in S /\ \E b \in S : a < b THEN apply(txn[t], loaded[t])[a]
        ELSE accounts[a]]

\* accounts_.save of the accounts in S, as apply left them.
Saved(t, S) ==
    [a \in Opened |->
        IF a \in S THEN apply(txn[t], loaded[t])[a] ELSE accounts[a]]

\* txn::apply, then accounts_.save of every loaded account.
ApplySave(t) ==
    /\ pc[t] = "save"
    /\ ~apply_throws(txn[t], loaded[t])
    /\ accounts' = Saved(t, DOMAIN loaded[t])
    /\ Goto(t, "commit")
    /\ UNCHANGED <<wal, records, audit, next_id, next_audit_id, owner, txn, id,
                   loaded, result>>

\* txn::apply throws: the credited balance would overflow.
ApplyThrows(t) ==
    /\ pc[t] = "save"
    /\ apply_throws(txn[t], loaded[t])
    /\ Throw(t)
    /\ UNCHANGED <<accounts, wal, records, audit, next_id, next_audit_id, txn,
                   id, result>>

\* The loop of accounts_.save cut short: only the accounts below some id.
SavePrefix(t) ==
    /\ pc[t] = "save"
    /\ ~apply_throws(txn[t], loaded[t])
    /\ \E a \in DOMAIN loaded[t] :
          accounts' = Saved(t, {b \in DOMAIN loaded[t] : b < a})

\* accounts_.save throws.
SaveFails(t) ==
    /\ "save" \in Faults
    /\ SavePrefix(t)
    /\ Throw(t)
    /\ UNCHANGED <<wal, records, audit, next_id, next_audit_id, txn, id, result>>

\* Mutant of Marked: the marker is forgotten.
Marked_never(n) == wal

\* The state byte of the first entry with this id becomes Committed.
Marked(n) ==
    [i \in DOMAIN wal |->
        IF wal[i].id = n /\ \A j \in 1..(i - 1) : wal[j].id # n
        THEN [wal[i] EXCEPT !.state = "Committed"]
        ELSE wal[i]]

\* wal_.mark_committed.
MarkCommitted(t) ==
    /\ pc[t] = "commit"
    /\ wal' = Marked(id[t])
    /\ Goto(t, "record")
    /\ UNCHANGED <<accounts, records, audit, next_id, next_audit_id, owner, txn,
                   id, loaded, result>>

\* The marker write fails, before or after the byte reached the file.
MarkCommittedFails(t) ==
    /\ pc[t] = "commit"
    /\ "commit" \in Faults
    /\ wal' \in {wal, Marked(id[t])}
    /\ Throw(t)
    /\ UNCHANGED <<accounts, records, audit, next_id, next_audit_id, txn, id,
                   result>>

\* Mutant of Recorded: the id is read from the counter again.
Recorded_latest_id(t) ==
    Append(records, [project_transaction(next_id - 1, txn[t])
                        EXCEPT !.state = "Committed"])

\* Mutant of Recorded: the record is forgotten.
Recorded_never(t) == records

\* The history with the record of this call.
Recorded(t) ==
    Append(records, [project_transaction(id[t], txn[t]) EXCEPT !.state = "Committed"])

\* transactions_.append of the committed record.
AppendRecord(t) ==
    /\ pc[t] = "record"
    /\ records' = Recorded(t)
    /\ Goto(t, "audit_ok")
    /\ UNCHANGED <<accounts, wal, audit, next_id, next_audit_id, owner, txn, id,
                   loaded, result>>

\* find_by_id, wal_.append or transactions_.append throws with no effect.
CallFails(t) ==
    /\ pc[t] \in {"load", "wal", "record"}
    /\ pc[t] \in Faults
    /\ Throw(t)
    /\ UNCHANGED <<accounts, wal, records, audit, next_id, next_audit_id, txn,
                   id, result>>

-----------------------------------------------------------------------------
\* The audit table's primary key already holds this id.
AuditIdTaken == \E e \in audit : e.id = next_audit_id

\* append_audit: allocate an id, insert.
append_audit(action) ==
    /\ ~AuditIdTaken
    /\ audit' = audit \cup {[id |-> next_audit_id, action |-> action]}
    /\ next_audit_id' = next_audit_id + 1

append_audit_throws ==
    /\ AuditIdTaken \/ "audit" \in Faults
    /\ audit' = audit
    /\ next_audit_id' = next_audit_id + 1

AuditCompleted(t) ==
    /\ pc[t] = "audit_ok"
    /\ append_audit("txn.completed")
    /\ Return(t, "success")
    /\ UNCHANGED <<accounts, wal, records, next_id, txn, id>>

\* The three txn.failed exits: account missing, validation, catch block.
AuditFailed(t) ==
    /\ pc[t] \in {"audit_fail", "catch"}
    /\ append_audit("txn.failed")
    /\ Return(t, "failure")
    /\ UNCHANGED <<accounts, wal, records, next_id, txn, id>>

\* Inside the try block the exception is caught ...
AuditThrows(t) ==
    /\ pc[t] \in {"audit_ok", "audit_fail"}
    /\ append_audit_throws
    /\ Throw(t)
    /\ UNCHANGED <<accounts, wal, records, next_id, txn, id, result>>

\* ... and inside the handler it leaves process_impl.
CatchAuditThrows(t) ==
    /\ pc[t] = "catch"
    /\ append_audit_throws
    /\ Return(t, "threw")
    /\ UNCHANGED <<accounts, wal, records, next_id, txn, id>>

-----------------------------------------------------------------------------
\* What transactions_.all() gives back: the ids in ascending order, cut short
\* without a word when a read fails.
Listed ==
    {S \in SUBSET Ids(records) :
        /\ S = Ids(records) \/ "read" \in Faults
        /\ \A n \in S, k \in Ids(records) \ S : n < k}

\* Mutant of StoredIds: the journal is not looked at.
StoredIds_records_only(listed) == listed

\* The ids the constructor finds in the two stores.
StoredIds(listed) == Ids(wal) \cup listed

\* The process dies and the constructor runs over the surviving stores:
\* next_id_ starts after the largest id found in either store, next_audit_id_
\* at 1.  A call may die between two of its accounts_.save.
CrashRestart ==
    /\ "crash" \in Faults
    /\ \E listed \in Listed : \E m \in StoredIds(listed) \cup {0} :
          /\ \A n \in StoredIds(listed) : n <= m
          /\ next_id' = m + 1
    /\ next_audit_id' = 1
    /\ owner' = [a \in AccountId |-> NoThread]
    /\ pc' = [t \in Thread |-> "idle"]
    /\ txn' = [t \in Thread |-> NoTxn]
    /\ id' = [t \in Thread |-> 0]
    /\ loaded' = [t \in Thread |-> NoneLoaded]
    /\ result' = [t \in Thread |-> "none"]
    /\ accounts' = accounts \/ \E t \in Thread : SavePrefix(t)
    /\ UNCHANGED <<wal, records, audit>>

\* What the code of a running call does when nothing outside fails.
Advance(t) ==
    \/ \E a \in AccountId : LockAccount(t, a)
    \/ Load(t)
    \/ AppendIntent(t)
    \/ ApplySave(t)
    \/ ApplyThrows(t)
    \/ MarkCommitted(t)
    \/ AppendRecord(t)
    \/ AuditCompleted(t)
    \/ AuditFailed(t)
    \/ AuditThrows(t)
    \/ CatchAuditThrows(t)

Fault(t) ==
    \/ CallFails(t)
    \/ SaveFails(t)
    \/ MarkCommittedFails(t)

Calls ==
    \E t \in Thread :
        \/ \E x \in Txns : ProcessOne(t, x)
        \/ Advance(t)
        \/ Fault(t)

Next == Calls \/ CrashRestart

Spec == Init /\ [][Next]_vars

\* A thread inside process_impl keeps running; nobody has to call it.
FairSpec == Spec /\ \A t \in Thread : WF_vars(Advance(t))

-----------------------------------------------------------------------------
(* Properties.                                                             *)

Label == {"idle", "lock", "load", "wal", "save", "commit", "record",
          "audit_ok", "audit_fail", "catch"}

\* What the stores, the counters and the locals of every call may hold.
DataOK ==
    /\ accounts \in [Opened -> Account]
    /\ wal \in Seq(TransactionRecord)
    /\ records \in Seq(TransactionRecord)
    /\ next_id \in 1..(MaxTxns + 1)
    /\ next_audit_id \in Nat \ {0}
    /\ owner \in [AccountId -> Thread \cup {NoThread}]
    /\ pc \in [Thread -> Label]
    /\ txn \in [Thread -> Txns \cup {NoTxn}]
    /\ id \in [Thread -> 0..MaxTxns]
    /\ loaded = [t \in Thread |-> loaded[t]]
    /\ \A t \in Thread : /\ DOMAIN loaded[t] \subseteq Opened
                         /\ loaded[t] \in [DOMAIN loaded[t] -> Account]
    /\ result \in [Thread -> {"none", "success", "failure", "threw"}]

\* The entries the processor audits (the services audit others).
AuditOK == audit \subseteq [id : Nat, action : {"txn.completed", "txn.failed"}]

\* The values each part of the state may take: balances stay within Money
\* whatever interleaving of deposits, withdrawals and transfers ran.
TypeOK == DataOK /\ AuditOK

\* Ascending lock order (decisions.md, section 5): a thread still acquiring
\* holds only ids below every id it has yet to take.
LockOrder ==
    \A t \in Thread : pc[t] = "lock" =>
        \A a \in Held(t), b \in Missing(t) : a < b

\* A thread waiting in locks_.lock on a mutex somebody holds.
Blocked(t) ==
    /\ pc[t] = "lock"
    /\ \E a \in Missing(t) :
          /\ FirstOf(t, a)
          /\ ~Free(a)

\* Deadlock freedom of the account locks: whenever some call is in progress,
\* some call in progress is not waiting for another one's mutex.
NoDeadlock ==
    (\E t \in Thread : pc[t] # "idle")
        => \E t \in Thread : pc[t] # "idle" /\ ~Blocked(t)

\* "The processor serializes writes under the account mutex, so no lost
\* updates occur": from the load to the save nobody else's save touches the
\* accounts a call has read.
NoLostUpdate ==
    \A t \in Thread : pc[t] \in {"wal", "save"} =>
        \A a \in DOMAIN loaded[t] : loaded[t][a] = accounts[a]

\* Every step that changes an account builds on its latest version and bumps
\* the version by exactly one, under every fault and across restarts: what
\* the version counter of Account is there to witness.
VersionStep ==
    [][\A a \in Opened : accounts'[a] # accounts[a] =>
          accounts'[a].version = accounts[a].version + 1]_vars

\* "Never reuse an id that already exists in either store": two journal lines,
\* or two transaction records, never share an id, restarts included.
UniqueIds ==
    /\ \A i, j \in DOMAIN wal : wal[i].id = wal[j].id => i = j
    /\ \A i, j \in DOMAIN records : records[i].id = records[j].id => i = j

\* Write-ahead: a transaction in the repository is Committed in the journal,
\* with the same legs and amount.
RecordsAreJournaled ==
    \A i \in DOMAIN records : \E j \in DOMAIN wal : wal[j] = records[i]

\* A caller told "success" finds its record, under its id, in the repository
\* (and so, by RecordsAreJournaled, Committed in the journal).
SuccessIsRecorded ==
    \A t \in Thread : result[t] = "success" =>
        \E i \in DOMAIN records :
            /\ records[i].id = id[t]
            /\ materialize_transaction(records[i]) = txn[t]

\* A caller told "failure" has no committed journal line under its id: it may
\* retry without the transaction happening twice.
FailureIsNotCommitted ==
    \A t \in Thread : result[t] = "failure" =>
        \A i \in DOMAIN wal : wal[i].id = id[t] => wal[i].state # "Committed"

\* "Never throws": process_one always gives its caller a Result.
NeverThrows == \A t \in Thread : result[t] # "threw"

\* Every call of process_one gives its caller an answer: neither waiting for
\* the account locks nor an exception on the way loses it.
EveryCallReturns ==
    \A t \in Thread : pc[t] # "idle" ~> pc[t] = "idle"
=============================================================================
