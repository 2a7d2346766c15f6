# Bank Management System: a TLA+ verification development

TLA+ models of the bank in this repository, the TLC configurations that check
them on small instances, and theorems about them checked by TLAPS. Paths below
are relative to the repository (`src/...` is the C++ source, `docs/...` its
documentation); modules and configurations are in this directory.

    tlc -workers 2 -config processor_faults.cfg MCProcessor   # one run
    tlapm TransactionProcessorProofs.tla                      # one proof module

`PROJECT.json` lists every run with the module it belongs to, the source lines
each definition stands for, the hazards of the code with the properties aimed
at them, and for every property a bug (a definition named `X_what`, next to the
definition `X` it replaces) that makes TLC report the property as violated.

## 1. The system

A bank keeps accounts in a repository (in memory or SQLite) and moves money by
deposits, withdrawals and transfers. `BankingService` is the entry point for
customers. It hands money to `TransactionProcessor`, which runs a transaction
under the mutexes of the accounts involved:

    lock accounts in id order -> load -> validate -> journal intent
      -> apply and save -> commit marker in the journal -> record -> audit

Any exception ends in one handler that audits a failure. The processor is also
an asynchronous engine: `submit()` reserves an id and queues a transaction for
a pool of consumers. `WalLogger` is an append-only text file with an index in
memory; commit markers are bytes overwritten in place. `SnapshotStore` keeps
the last checkpoint; recovery is "load the snapshot, replay the committed lines
after its LSN". `AuthService` keeps sessions.

| Component | State | Operations | Talks to |
|---|---|---|---|
| Domain rules | none | `validate`, `apply`, `project`/`materialize` | called by the processor and by recovery |
| `TransactionProcessor`, execution | id counters; account mutexes; locals of each call | `process_one`, `process_impl`, constructor | repositories under `repos_mutex_`, `WalLogger` |
| `TransactionProcessor`, lifecycle | `accepting_`, `started_`, `reserved_`, stop source | `submit`, `process_next`, `start`, `stop` | `TransactionQueue` (mutex, condition variable), `ThreadPool` (join) |
| `WalLogger` | file, `entries_`, `next_offset_`, interrupted tail | open, `append`, `mark_committed`, `load_all`, `replay_from` | the file system |
| `SnapshotStore` | a file and its temporary | `store`, `load`, `clear` | the file system |
| `Serializer`, `Json` | none | records to text and back | journal, snapshot |
| Repositories | maps and vectors, or SQLite tables | save, remove, append, queries | their callers' locks |
| `BankingService` | `op_mutex_`; the services' audit counter | deposit, withdraw, transfer, freeze, unfreeze, balance, history | processor, repositories, audit |
| `SessionManager`, `AuthService` | session table, clock | login, logout, validate | audit |
| `Customer`, `PasswordHasher` | none | hash and verify a PIN | login, repositories |
| `InterestService`, `Result`, output | none | a stub; wrappers | |

### What is hard here

* **Interleaving.** `repos_mutex_` protects single repository calls only; what
  keeps a load and the later save together is the account mutex. Service
  operations that bypass the processor (freeze) rely on `op_mutex_`. Reserved
  ids and queued transactions are two FIFOs popped under two mutexes.
* **Deadlock and lost wakeups.** Several mutexes per call; consumers asleep on
  a condition variable while `stop()` joins them.
* **Partial failure.** Journal, account store, record store and audit are
  written in sequence with no transaction around them, and the audit is written
  once more in the handler of any failure.
* **Crash and restart.** The process may die between any two writes, or inside
  one; ids, offsets and fences are computed anew from what survived.
* **Numbers.** Money is an `int64_t` that must not overflow, ids are `uint64_t`
  stored as `int64_t`.
* **Text.** Journal and snapshot go through a hand-written JSON printer and
  recursive-descent parser; a torn or damaged text must not be read as another
  value.

### What makes each component correct

* Processor: behaves like a ledger in which a transaction happens at one instant
  or not at all (`LedgerSpec`); no lost update (`NoLostUpdate`, `VersionStep`);
  no deadlock (`LockOrder`, `NoDeadlock`, `EveryCallReturns`); stores agree and
  ids are unique, across restarts (`UniqueIds`, `RecordsAreJournaled`,
  `SuccessIsRecorded`).
* Lifecycle: nothing accepted is lost or run twice, no two run under one id
  (`EachTicketOnce`, `IdsUsedOnce`, `ReservationsMatch`);
  `stop()` returns and drains (`StopReturns`, `RunningStopDrains`); no wakeup is
  lost (`QueuedIsProcessed`).
* Journal: what was reported Committed stays so for every later reader
  (`CommittedIsDurable`), LSNs keep their meaning (`LsnIsDurable`), readers see
  an append-only log (`JournalSpec`).
* Recovery: the file holds what the processor's calls wrote (`JournalIsFile`),
  and is the history of the accounts, so that a checkpoint and the lines after
  it rebuild them (`RecoversSavedAccounts`). Snapshot file: never torn
  (`NeverTorn`), never lost (`CheckpointSurvives`).
* Service: balances are the sums of histories (`BalanceMatchesHistory`), a
  frozen account keeps its balance (`FrozenKeepsBalance`), freezes and payments
  do not overwrite each other (`ServiceVersionStep`).
* Sessions: each ends exactly once (`SessionsAccountedFor`), none is replaced
  (`SessionKept`).
* Codec: an intact document is read as what was written, or not at all when an id
  does not fit (`TransactionRoundTrip`); a field that was lost or makes no sense
  makes its document unreadable, and one that became another valid value changes
  nothing but itself (`DamageStaysInItsField`, `EntriesSayWhatTheyHold`). JSON: a
  whole text is read back whole and a part of one not at all
  (`DocumentReadsWhole`), and the parser follows the grammar but in two named
  points (`ParsesTheGrammar`). Repositories: both engines hold the same
  (`SameCustomers`, `SameAccounts`, `SameTransactions`) and answer a query alike
  but for the millisecond it starts in (`FindsSinceItsMillisecond`).

## 2. The modules

    BankDomain
      |-- TransactionProcessor
      |     |-- ProcessorLedger  (refines AtomicLedger)
      |     |-- BankingService   (BankingServiceProofs)
      |     |-- Recovery         (with WalLogger and SnapshotStore)
      |     `-- TransactionProcessorProofs (the domain rules' theorems included)
      |           `-- ProcessorStoreProofs (with ProcessorLedger)
      |                 `-- RecoveryProofs (with Recovery and WalLoggerProofs)
      |-- AtomicLedger
      `-- Codec
            `-- Storage          (with Customers; StorageProofs)
                  `-- JsonText   (with Json and JsonGrammar)
    ProcessorLifecycle      WalLogger (refines AbstractJournal)      AuthService
      `-- ...Proofs                                                    `-- ...Proofs

`MC*` modules give the constants of a module values for TLC.

**BankDomain** (`src/domain`). The three transactions as records, the accounts
`txn::validate` is given as a function from the ids found. A C++ exception is a
predicate (`apply_throws`), since what matters is which steps it prevents.

**TransactionProcessor** (`src/concurrency/TransactionProcessor.cpp`,
`process_one` and the constructor). State: the stores (`accounts`, `wal`,
`records`, `audit`), the counters, `owner` of each account mutex, and the
position and locals of each calling thread. One action per critical section:
taking one account mutex, the load-and-validate section, the journal append,
the save section, the marker, the record, the audit. Leaving the function
unlocks all accounts in the same step, since an unlock only enables others.
`Faults` selects which calls may throw; `"crash"` lets the process die anywhere,
also between the two saves of a transfer, and runs the constructor over the
stores; `"read"` lets the constructor see only the beginning of the history, as
the loop of `SqliteTransactionRepository::all` ends at the first step that is
not a row, an error included. The journal is here what a reader of the file
would see; `Recovery` justifies that view (`JournalIsFile`).

**AtomicLedger, ProcessorLedger**. The promise and the refinement mapping: a
transaction commits at the step that saves its accounts; the set of committed
transactions is read off the journal and the calls that have saved and not yet
marked.

**ProcessorLifecycle**. `submit`, the queue, consumers, `process_next`, `start`,
`stop`. A queued transaction is represented by its ticket, the id `submit`
returned. `submit_mutex_` is a variable because `submit` and `stop` hold it
across several steps; `waiting` is the set of consumers inside the condition
variable, and `notify_one` removes one of them after the queue mutex is
released. `process_impl` is one step.

**WalLogger, AbstractJournal**. The file is a sequence of cells, one per field,
so that offsets, partial writes and misplaced markers mean what they mean in
the code. `Parse` is the constructor's loop, `load_all` that of `load_all`, both
as functions by recursion on the length; `Recovered` is what a reader finds.

**BankingService**. Every thread calls the service, as the documents ask
(`docs/services/decisions.md`, section 2). A money call is a processor call
under `op_mutex_`; freeze and unfreeze are a read and a later save, then an
audit entry whose failure nobody sees. `Restart` starts the service again over
the same stores: the ids of both audit counters begin where they began before,
and the log refuses those it has.

**SnapshotStore, Recovery**. `SnapshotStore` is the two files and the position
inside `store()`: opening and truncating the temporary, writing it, renaming,
returning, each with its failure. `Recovery` composes three modules: the
processor, a `WalLogger` and a `SnapshotStore`. A `wal_` call of the processor
and the corresponding action of `WalLogger` are one step, so the file is written
in the order in which the processor's threads reach it; the fence of a
checkpoint is the size of the index of that object. Checkpoints are taken
between two transactions, as the only caller, `tests/test_wal.cpp`, does. The
process may die in the middle of a call, of an append or of a checkpoint; the
next one opens the file. `Recovered` is what recovery would rebuild from the
files as they are now. `doubt` is a history variable: the length of the journal
when a call last ended with accounts saved and no marker written, because its
save stopped half-way, its marker failed, or the process died in between.

**AuthService**. The session table under its mutex, the clock, and the audit
entry that follows a login or logout as a step of its own. `untraced` is a
history variable: for each customer, how many sessions ended without an entry
(expired, or gone with their process), less those that began without one.
`Restart` keeps the audit log and nothing else.

**Codec, Customers, Storage**. `Codec` is the serializer's translation of both
record types, as functions between records and JSON values. `Customers` is the
stored form of a PIN: hex digits, the checks of `verify` and the exception it
swallows. `Storage` puts `Codec` under a stored document that may be damaged in
one field (`FieldValue`: the field is gone, or says any integer, any word of the
enumerations or an unknown one, or null), and sets the in-memory and the SQLite repositories against each other,
fed the same calls. The stores share no state, so each behaviour looks at one
(`store`).

**Json, JsonGrammar, JsonText**. `Json` is the printer and the parser over
sequences of bytes, function by function. `JsonGrammar` is the grammar they are
compared with, no translation of code (`Meanings`: every value a text may stand
for, found by cutting the text in all ways instead of reading it from the left).
`JsonText` has it twice: as JSON and `tests/test_json.cpp:83` have it, where
strings spell control bytes as escapes and numbers have no needless zeros
(`Grammar`), and without these two rules (`Widened`). It puts one more thing next to the stores: a text that `dump` wrote and that may be cut or edited
before `parse` reads it. It is a module of its own because `Json` is recursive,
and a module with theorems, or below one, may not be. The two halves of the codec
meet at the JSON value: what `Codec` writes and reads is what `dump` is given and
`parse` gives back.

## 3. The runs

| Run | Asks | Distinct states |
|---|---|---|
| `processor_ledger` | is the processor an atomic ledger; does every call return | 207k |
| `processor_faults` | locks, lost updates, ids and stores, every write failing, deaths and restarts | 798k |
| `lifecycle` | two consumers, a puller, two clients, two controllers: tickets, ids, draining, wakeups | 28k |
| `wal_recovery` | journal through failed markers, deaths, reopenings | 1k |
| `recovery` | processor, journal file and checkpoints together, saves and markers failing; replay at every instant | 499k |
| `banking` | service calls, freezes and restarts racing | 1,416k |
| `sessions` | session table, audit inserts failing, restarts | 133k |
| `storage` | the two engines against each other; every record of a 3-bit world, each field damaged; texts cut and edited | 597k |

What each shows, and which faults it leaves out:

* `processor_ledger`: `LedgerSpec` says that a call either changes its accounts
  at one step, exactly as `txn::apply` computes from the accounts of that
  moment, or changes nothing. Failing reads, journal appends and audits do not
  disturb it. A failing save does (half a transfer, see below), so saves,
  markers, records and deaths are left to the other run.
* `processor_faults`: what still holds then: locks, no lost update, versions
  counting changes, unique ids, records that are all in the journal. Only the
  audit and the load are left to the first run, as their failures write nothing
  but an exit.
* `lifecycle`: every accepted transaction is in exactly one place, and `stop()`
  of a running processor returns with the queue empty.
* `wal_recovery`: the file is safe against appends that fail before they write,
  failed markers, and a process that dies inside a write and reopens. A process
  that survives a failed append and goes on is `finding_partial_append`.
* `recovery`: `JournalIsFile` is the refinement step between the processor's
  `wal` and the file: appends that fail when the file cannot be opened, lines a
  death cuts short, and the index of the next process all leave it true.
  `RecoversSavedAccounts` holds at every instant, of every account
  no call is between saving and marking. Saves that stop half-way, failing
  markers and records, and deaths between save and marker are all in the run.
  What such a call saved is not in the journal as Committed, so replay cannot
  rebuild it, and may not be able to apply what was paid from it; the property
  then waits (`doubt`) for the next checkpoint and holds again from there on.
  Left out are partial appends of a process that lives on
  (`finding_partial_append`), and status changes, which the journal does not know.
* `banking`: loads, journal appends, status saves and their audits may fail,
  and the process may die and restart; a save or a record failing inside
  `process_one`, or a death between the two, separates balances from histories
  and is left out.
* `sessions`: every fault of its model. What the log says of a customer, with
  what `untraced` says the log could not know, is the number of sessions stored.
* `storage`: every fault of its model. `SameAccounts` says nothing of the values of
  accounts whose last save SQLite refused because no customer was their owner,
  which memory accepts, only that SQLite lists no account memory does not.
  `SameTransactions` compares all seven columns, and the order of SQLite's list.
  A document may have one field damaged into anything; nothing in the format
  detects a digit that became another, so the properties say what does hold:
  which damage is refused, and that the rest stays in its field.
  A text loses or gains a byte, has one changed, or is cut short; what the parser
  makes of it is what the grammar says, or a raw control byte or a leading zero is
  in it and it reads what the widened grammar says.

The `finding_*` runs each check one statement of the documentation or of a
comment that the code does not keep, and end in a counterexample:

| Run | What the trace shows |
|---|---|
| `finding_promised_ids` | two consumers swap the ids `submit()` returned |
| `finding_audit_throws` | an audit failure inside the handler escapes `process_one` |
| `finding_committed_failure` | after a restart a committed transaction is reported as failed, because its audit id is taken |
| `finding_partial_append` | after a failed append, a later Committed line is lost to readers |

### Other behaviours worth knowing

Met while modelling, and reproducible by adding the fault or the operation to the
run named; the runs above leave them out on purpose.

* *Half a transfer* (`banking`, `Faults` with `"save"`). The accounts of a
  transfer are saved one by one; if the second save throws, one account stays
  debited, the call fails and no record exists. `docs/services/build_order.md:95`
  expects that every failing path leaves balances and records unchanged, and
  `src/domain/TransactionOps.cpp:109` counts on a compensation that does not
  exist. `VersionStep` allows it: one account was changed, by one version.
* *Unmarked but applied* (`recovery`, without `doubt`). When `mark_committed`
  throws after the save, the process goes on with the applied balances; a later
  Committed payment may spend them, and replay then cannot apply it, until a
  checkpoint is taken. `docs/concurrency/decisions.md:61` says the accounts
  reconcile to the committed-only view.
* *Older entries in a query* (`src/persistence/SqliteAuditRepository.cpp:67`).
  `docs/services/tests.md:174` says of `FindSinceFilters` that entries older than
  the timestamp are excluded. The in-memory engine does so. SQLite stores and
  compares milliseconds, so it also gives back entries older than `since` within
  its millisecond; that it is these and no others is `FindsSinceItsMillisecond`.
* *What the JSON parser lets through* (`src/persistence/Json.cpp:257`).
  `tests/test_json.cpp:83` says a literal tab or newline in the input should not
  pass and that such characters must appear in strings as `\u` escapes, and
  `Json.h:53` that any malformed input gives nullopt. Inside quotes the parser
  copies any byte but a quote and a backslash, control bytes included (the test
  tries a newline outside quotes), and `parse_integer` takes numbers such as
  `007`. `ParsesTheGrammar` shows that these two are the only differences on the
  texts of the run; `dump` writes neither.
* *No checksum* (`src/persistence/Serializer.cpp:92`). An amount, an account id or
  a type damaged into another valid one is replayed as it stands, a snapshot's
  balance likewise; `SnapshotStore.cpp:62`'s untrustworthy snapshot is one with an
  entry that does not decode.
* *Unfreeze is not in the journal* (`src/services/BankingService.cpp:96`). A
  payment committed after an unfreeze cannot be replayed on a snapshot taken
  while the account was frozen; `docs/DESIGN_DECISIONS.md:38` describes recovery
  as snapshot plus committed lines.
* *`stop()` before `start()`* (`src/concurrency/TransactionProcessor.cpp:109`)
  refuses new work and leaves what was accepted in the queue;
  `docs/concurrency/decisions.md:42` says nothing accepted is silently dropped.
  `RunningStopDrains` is the statement for a running processor.
* *Logout with an expired token* (`src/services/SessionManager.cpp:57`) succeeds
  and is audited; `SessionManager.h:33` says it returns nothing.
* *Audit ids after a restart* (`src/services/AuditService.cpp:15`). The
  services' counter starts at 10^15 in every process, so the first entries
  after a restart are refused and dropped, among them the traces of freezes,
  logins and logouts; the operations themselves stand. `docs/services/decisions.md:109`
  calls seeding the counter a TODO.
* *Two mutexes for one audit log* (`src/services/AuditService.cpp:22`). The
  processor appends under `repos_mutex_`, the services under `audit_mutex`. A
  login and a deposit in two threads append to the same repository under
  different mutexes: SQLite serializes them, the in-memory vector does not. The
  models describe the SQLite engine, where an insert is one step.
* *No consumers* (`src/concurrency/TransactionProcessor.cpp:99`). A processor
  started with `worker_count_` 0 has no consumer task, so its `stop()` drains
  nothing; `lifecycle` has two.
* *A queue that closes* (`src/concurrency/TransactionProcessor.cpp:53`). The
  branch for a refused `enqueue` is unreachable today and kept "so a future
  close() path cannot corrupt the reservation pairing". It takes its id back
  only when that id is the front of `reserved_`; with another transaction still
  queued the id would stay and shift every later pairing.
* *Unknown owners* (`src/persistence/SqliteDatabase.cpp:23`). SQLite checks the
  foreign key of an account, the in-memory repository has none.
* *The least integer* (`src/persistence/Json.cpp:239`). `json::dump` writes
  -2^63 and `json::parse` refuses it. An id of 2^63 is the one that is written
  so; ids past it are refused by the serializer in any case.
* *Order of histories* (`src/persistence/SqliteTransactionRepository.cpp:46`).
  SQLite orders by id, the in-memory repository by append; two calls in flight
  may finish in the other order. `SameTransactions` states the order of SQLite's
  list and compares what the two contain; with one call in flight the orders
  agree.
* *Text behind a NUL byte* (`src/persistence/SqliteHelpers.cpp:59`). `column_text`
  builds a string from a C pointer, so text is cut at its first NUL byte. Salts and
  digests are hexadecimal and have none (`PeopleAssumption` asks the same of
  malformed salts); names and audit details are not modelled.

### Bounds, and why they are enough

* *Processor*: three ids (`MaxTxns`), two threads. Conflicts are between pairs
  of calls on pairs of accounts; the third call observes or breaks what two did.
  `MCInitAccounts` has an account that can pay once, one a deposit overflows
  (`MaxCents = 5` stands for the largest `int64_t`), and an id that is not opened
  (frozen and closed accounts are in `banking`). `processor_faults` has fewer
  transactions, as faults and deaths multiply the states: opposite transfers and
  a withdrawal only one of their orders covers.
* *Lifecycle*: two consumers and a puller make the three-way race for queue and
  ids; two starts reach stop-and-start-again; two controllers make `stop()` race
  `start()` and itself; three submissions keep every runner busy.
* *Journal*: three ids and 12 cells (three lines of four) before an append: a
  tail can follow two lines and be followed by one.
* *Recovery*: three transactions, of which an account pays once and again after
  each deposit, so that a line replayed twice or skipped shows; the journal's
  bound of cells is four per transaction, so that it never binds first.
* *Service*: three transactions, and status changes of accounts up to version 2:
  freeze, pay, unfreeze in all orders on one account.
* *Sessions*: two callers, customers and tokens, a clock of four values, a
  lifetime of one, calls while four audit ids are free: after a restart the
  log refuses some ids and accepts later ones.
* *Storage*: a 3-bit integer for 64 bits: `HalfRange` is 2^63 and ids lie on both
  sides of it; three clock ticks in a millisecond; four accounts, one of them
  account 0, three of them saved, under two owners, with two balances and versions; four hashes, two of them malformed;
  three transactions, two in flight; four audit entries over six instants.
* *Texts*: 12 stands for the largest integer, so that overflow is a matter of two
  digits; every prefix of every value, every text one edit away from one, and
  two for short ones, over 19 bytes that cover the cases of the parser, one of
  them a control byte. Bytes above 127 are not among them: the parser copies them
  like letters.

Thread and token symmetry is used in runs without liveness only. `banking`,
`sessions` and `recovery` have a `VIEW` that leaves out what neither a later
step nor a property reads: the last answer and the arguments of a call that is
over, the wording of audit entries whose ids are kept, and what a property only
uses summed up. Two states with one view have the same properties and the same
successors up to the view. Deadlock checking
is off because the bounds stop the systems; `NoDeadlock`, `EveryCallReturns`,
`StopReturns` and `QueuedIsProcessed` take its place.

### Fairness

`FairSpec` of the processor assumes weak fairness of what a thread inside
`process_impl` does next: a running thread keeps running. Nobody has to call.
A thread waiting for a mutex is not promised it, as `std::mutex` is not fair;
`EveryCallReturns` holds because the number of calls is bounded, so competitors
finally leave the lock alone. With endless callers `std::mutex` would allow
starvation, and the property does not claim otherwise. The lifecycle assumes
the same of clients inside `submit`, controllers inside `stop`, started
consumers and pullers holding a transaction; calling `start`, `stop`, `submit`
and `process_next` is optional, so `QueuedIsProcessed` speaks of a started
processor.

## 4. The proofs

Each theorem holds for every set of threads, accounts, transactions, customers
and tokens, and for every bound. Assumptions on constants are named in the
modules that declare them: account ids are naturals below a largest one, markers
such as `NoAccount` are not what they mark the absence of, initial accounts are
accounts, faults are known ones, the roles of the lifecycle are finite and
disjoint. `Storage` names what its stores may be given: ids of 64 bits
(`IdsAssumption`), rows and transactions of their types (`RowsAssumption`,
`PaymentsAssumption`), records and accounts as `uint64_t`, `Money` and the
enumerations admit them (`RecordsAssumption`, `SnapshotsAssumption`), customers
whose hash was made of their PIN, perhaps rewritten in capitals, or is malformed
(`PeopleAssumption`). What a theorem assumes beyond that stands in its statement and in the
last column.

| Module | Theorem | States | Assumes |
|---|---|---|---|
| `TransactionProcessorProofs` | `TransferConserves` | an applied transfer keeps the sum of its two balances | |
| | `RecordRoundTrip` | materializing a projected transaction gives it back | |
| | `TypeInvariant` | `[]TypeOK`; in particular no balance leaves the range of Money | |
| | `LockOrderHolds`, `DeadlockFreedom` | ascending acquisition; some running call is never blocked | |
| | `LostUpdateFreedom` | `[]NoLostUpdate` | |
| | `VersionsCountChanges` | `VersionStep`, partial saves and deaths included | |
| `ProcessorStoreProofs` | `IdsStayUnique` | `[]UniqueIds` under every fault and restart | |
| | `RecordsStayJournaled` | `[]RecordsAreJournaled` | |
| | `SuccessStaysRecorded` | `[]SuccessIsRecorded` | |
| | `ProcessorImplementsLedger` | `Spec => LedgerSpec` | no save, marker or process fails |
| `ProcessorLifecycleProofs` | `LifecycleInvariant`, `LifecycleTypesHold` | the inductive invariant; `[]TypeOK` | |
| | `ReservationsAlwaysMatch` | `[]ReservationsMatch` | |
| | `TicketsStayInOnePlace`, `IdsStayUsedOnce` | `[]EachTicketOnce`, `[]IdsUsedOnce` | |
| | `StopDrains` | `RunningStopDrains` | `Worker` is not empty |
| `WalLoggerProofs` | `WalInvariant`, `JournalTypesHold` | the inductive invariant; `[]TypeOK`, and every line read has an id, a payload and a state an append and its marker may have written (`OnlyAppendedLines`) | no append leaves part of a line in a process that lives on |
| | `CommitsAreDurable`, `LsnsAreDurable` | `[]CommittedIsDurable`, `[]LsnIsDurable` | the same |
| | `WalImplementsJournal` | `Spec => JournalSpec` | the same |
| `RecoveryProofs` | `RecoveryInvariant`, `TheJournalIsTheFile` | the inductive invariant of the composition; `[]JournalIsFile`, under all other faults and deaths | the same of the processor's appends |
| | `ReplayInvariant`, `SavedAccountsAreRecovered` | the inductive invariant of replay; `[]RecoversSavedAccounts`, which after something saved stayed unmarked speaks from the next checkpoint on | the same |
| | `SnapshotInvariant`, `SnapshotsAreNeverTorn`, `CheckpointsSurvive` | `[]NeverTorn`, `[]CheckpointSurvives` | the markers are not snapshots |
| `BankingServiceProofs` | `FrozenAccountsKeepBalance` | `FrozenKeepsBalance` | |
| | `ServiceVersionsCountChanges` | `ServiceVersionStep` | |
| | `BalancesMatchHistories` | `[]BalanceMatchesHistory` | no save, marker or record fails |
| `AuthServiceProofs` | `SessionsAreKept` | `SessionKept` | |
| | `SessionsStayAccountedFor` | `[]SessionsAccountedFor` | |
| `StorageProofs` | `DocumentInvariant` | the inductive invariant of a stored document | |
| | `TransactionsRoundTrip`, `DamageIsContained` | `[]TransactionRoundTrip`, `[]DamageStaysInItsField` | |
| | `SnapshotEntriesAreExact` | `[]EntriesSayWhatTheyHold` | |
| | `CustomerStoresAgree`, `CustomersAreTheSame` | the inductive invariant; `[]SameCustomers` | |
| | `AccountStoresAgree`, `AccountsAreTheSame` | the inductive invariant; `[]SameAccounts` | |
| | `TransactionStoresAgree`, `HistoriesAreTheSame` | the inductive invariant; `[]SameTransactions` | |
| | `AuditTrailsAgree`, `FindsStartAtTheMillisecond` | the inductive invariant; `[]FindsSinceItsMillisecond` | |

None of these properties is preserved by itself; the inductive invariants are:

* **Processor** (`TypeInv`, `LockInv`, `LoadInv`). `TypeInv` adds to the types
  that a call in progress has a transaction and a positive id (`BusyTxn`) and
  that every id in the journal is below `next_id`, every id in the history
  within the bound (`IdBound`, needed for the restart to stay within it, however
  much of the history the constructor reads). A withdrawal stays in Money
  because `apply_throws` contains `validate`, a deposit because it contains
  `plus_throws` (`ApplyType`). `LockInv` says what each call holds at each place:
  nothing before and after, all involved accounts between load and return, and
  while locking an initial part of them below all that is missing. Deadlock
  freedom follows by looking at the blocked call that waits for the largest
  account: its holder would have to wait for a larger one (`SomebodyRuns`).
  `LoadInv` says that between load and save `loaded` covers exactly the involved
  accounts and equals what the repository holds; two calls past their locks
  involve disjoint accounts (`Disjoint`), so one's save cannot touch what another
  has read.
* **Stores** (`StoreInv`). Per position of a call, what it has written: nothing
  under its id before the journal append, one Validated line before the marker,
  a Committed line and no record before the record, both after it. Calls in
  progress have different ids, all below `next_id`; the journal is append-only
  but for the flip of a state, so what is true of one call's line survives the
  others' steps.
* **Ledger**. The refinement maps a state to the accounts and the set of
  committed transactions (`CommittedView`: marked lines, and calls that have
  saved and not yet marked). A save is `Commit`, because what was loaded is what
  holds (`LoadInv`) and a rule only looks at its own accounts (`RulesAreLocal`);
  the marker changes nothing visible, as one disjunct of the view takes over from
  the other; all else stutters. A failing save is excluded because half a
  transfer may be stored, and failing markers and deaths because they remove a
  call that has saved from the view without a Committed line.
* **Lifecycle** (`LifecycleInv`): who holds `submit_mutex_`, when the pool
  exists, how many `consumer_loop` tasks there are (never handed out, running,
  or found the queue drained, which is what `StopDrains` needs), what every
  thread carries, and that an id is reserved, in one thread's hands, or used.
* **Journal** (`WalInv`). `CommittedIsDurable` compares the index of the open
  object with what a later reader finds, so the invariant has to say what the
  file is: `FileOK`, every line a reader parses is a whole journal line with an
  id of its own (`GoodFile`); `HandleOK`, the object's offset is the end of the
  last whole line and it knows of a tail exactly when there is one, so that the
  next append cuts it off; `IndexOK`, the index follows the lines one by one, the
  file being ahead by at most a marker that was written and reported an error. The
  steps then reduce to what one write does to `Parse`: a part of a line changes
  nothing (`PartAdded`), a line adds one entry, a marker changes one state and
  nobody's offset (`MarkAdded`). `Parse` and `load_all` are recursive functions,
  and those facts are again proved by `SetInduction`. An append that leaves part
  of a line in a living process breaks `HandleOK`, and the property itself:
  that is `finding_partial_append`, and why the theorems exclude it.
* **Recovery** (`FileInv`): `WalInv` of the file, and that the lines a reader
  finds are the processor's `wal`. Each call that reaches the file is the
  corresponding `WalLogger` action, so its lemma applies; a death in the middle
  of an append leaves a tail no reader sees and the processor did not count.
* **Replay** (`ReplayInv`). Which snapshots must rebuild the saved accounts is
  said by `doubt`; why they do is the argument. `RecoversSavedAccounts` compares a
  walk over the journal with the repository, and neither end determines the steps
  between. The invariant therefore says, of every snapshot `load()` may ever give
  back (the opening accounts, the stored one, the one being written), that there
  is a sequence of account states, one per line behind its fence, each following
  from the one before by the rule of a Committed line, that ends in `Settled`: the
  saved accounts, with what was loaded in place of what a call has saved and not
  yet marked. A save leaves that end alone, a new line extends the sequence by a
  step that changes nothing, and the marker is the hard case: it turns a line in
  the middle into one that is replayed. The line is behind every fence (`Behind`,
  as checkpoints wait for the calls), and since its call wrote it nobody has
  committed a line on its accounts (`CallsApart`, from the locks), so the new step
  commutes with all that follow (`MarkReplayed`) and carries the call's accounts
  from `loaded` to what it saved (`CallsSaved`). A call that ends in doubt has its
  line behind every fence, so `doubt` moves past all snapshots there are and
  nothing is claimed of them any more; one taken later holds what was saved.
  `Replayed` is a recursive function, and that it computes such a sequence is one
  more `SetInduction`.
* **Snapshot** (`SnapshotInv`): what a `store()` in progress has put where.
* **Service** (`ServiceInv`, `HistoryInv`). The processor's parts, and: whoever
  changes an account is inside `op_mutex_`, and a freeze read the account it
  will save in that critical section. `HistoryInv` relates the balance of each
  account to a sum over its history, and to that sum plus the effect of the one
  call that has saved and not yet recorded. The sum is a function by recursion on
  the length of the history; the facts about it are proved by a first-order
  induction over the naturals (`SetInduction`, from the well-foundedness of
  `<`: every nonempty set of naturals has a least element).
* **Sessions** (`SessionInv`): the types and the property itself, for each customer
  the entries of the log, the entries still to be written and `untraced` add up.
  Sums are cardinalities of finite sets, so `Thread` is assumed finite.
* **Documents** (`LineInv`, `EntryInv`): a stored document is what the encoder
  wrote, or that with one field gone or set to anything, or unreadable. The rest
  is about the codec's operators: which values each check of the readers accepts
  (`FieldValues`, `LegValues`, `FieldsKept`), that a cast to `int64_t` is negative
  exactly from 2^63 on and undone by the cast back (`Casts`), and hence which
  documents are read as what (`LineReads`, `EntryReads`). A damaged document that
  is read decodes to a record that encodes to it again (`LineSays`), so the
  damaged field holds a valid value and the others what was written
  (`DamagedLineReads`, `DamagedEntryReads`).
* **Customers** (`CustomerInv`): the table is the map, row for row; an upsert
  replaces the row of its own id only, as the cast of ids is injective
  (`CastsApart`). That a login accepts the customer's PIN and no other rests on
  the hexadecimal round trip (`HexRoundTrip`), for salts of any length and
  digits of either case.
* **Accounts** (`AccountInv`): the table is keyed by ids of the map, and holds the
  row of every account but the refused ones, for which it keeps an older row or
  none. `SameAccounts` compares two lists, one in the order of ids as `uint64_t`,
  one as `int64_t`: what a list in order of a key is (`OrderById`) is shown to
  exist and to contain each row once (`Orderable`, by `SetInduction` on the
  number of rows).
* **Histories** (`TransactionInv`): ids below `next_id`, a record for every row and
  a row for every record, no id twice. The in-memory query is a loop and a
  recursive function here; by `SetInduction` it copies each record that names the
  account once (`HistoryMeaning`). That the SQL query selects the same rows needs
  that NULL is no account (`LegStored`) and that a cast does not take one account
  for another.
* **Audit** (`AuditInv`): entries and rows correspond, with times cut to
  milliseconds. `FindsSinceItsMillisecond` follows as cutting keeps the order
  (`MillisecondsGrow`).

**Model-checked only.** Liveness, which is outside TLAPS's reach
(`EveryCallReturns`, `StopReturns`, `QueuedIsProcessed`), and the JSON texts
(`DocumentReadsWhole`, `ParsesTheGrammar`): printer, parser and grammar are
recursive over the text and its parts, and what such definitions compute cannot
be shown by induction with the provers at hand.
`RecoversSavedAccounts` is neither checked nor claimed
between a call that left something saved and unmarked and the next checkpoint,
where the code does not recover it (section 3).

## 5. Not modelled, and why

* `Result`, stream operators and message wording: no state to interleave.
  `InterestService` is a stub that does nothing. PBKDF2 is OpenSSL's; `Customers`
  takes it as a function that tells PINs and salts apart.
* `TransactionQueue::close`, short tasks on `ThreadPool`, `ScopedAccountLocks`:
  the program does not use them, tests do.
* Data the operating system loses after a flush (a TODO in `WalLogger.cpp`),
  read errors of SQLite other than the constructor's, opening a database,
  and concurrent appends to an in-memory audit log: see the notes in `PROJECT.json`, "hazards".
* `submit()` while `BankingService` runs, which the documents rule out.

## 6. Plan

Done, in this order: domain rules; processor with its ledger; lifecycle;
journal; service; sessions; snapshot file and recovery; codec and storage; JSON
and customers; the journal file under the processor; restarts of the services;
proofs of the domain rules, of the processor's locks, stores and ledger, of the
lifecycle, the snapshot file, the service and the sessions. What remains to be
modelled is the processor under `submit()` with `process_impl` opened up: its
two halves are checked apart, and share the id counter and nothing else.

The proofs of the journal file, of `JournalIsFile` and of `RecoversSavedAccounts`
followed, and last those of the codec and the repositories, for which the JSON
texts became a module of their own (`JsonText`). With them every safety property
of the runs is a theorem but the two about JSON texts.
