------------------------------- MODULE Storage -------------------------------
(***************************************************************************)
(* What each store gives back of what it was given.  The stores share no   *)
(* state, and a behaviour looks at one of them (`store'):                  *)
(*   accounts (with their customers), transactions, audit: the two         *)
(*     repository engines, in memory and SQLite, given the same calls      *)
(*     ("implementations swap in under the service layer without the       *)
(*     services knowing which engine is live", AccountRepository.h);       *)
(*   line, entry: one document of the journal or of a snapshot, encoded,   *)
(*     perhaps damaged in one field, decoded by whoever opens the file.    *)
(*   text: the text of such a document, in module JsonText.                *)
(*                                                                         *)
(* The calls are those the processor makes: accounts saved under their     *)
(* ids, transactions appended by calls of process_one that took their id   *)
(* earlier and finish in any order, audit entries whose id and time were   *)
(* taken before repos_mutex_.  A SQLite table is a set of rows with a      *)
(* primary key; integers are stored as int64_t, times in milliseconds; an  *)
(* account's owner is a foreign key.  SQLite's own failures are            *)
(* TransactionProcessor's Faults, not modelled here.                       *)
(***************************************************************************)
EXTENDS Codec, Customers, FiniteSets

CONSTANTS
    Payments,   \* the transactions callers run
    Callers,    \* how many calls of process_one are in flight at most
    MaxId,      \* bound: transaction ids handed out
    Actor,      \* the actors of audit entries
    MaxEntries, \* bound: audit ids handed out
    MaxTime,    \* bound: the clock
    SavedId,    \* the ids accounts are saved under
    CustomerId, \* the owners accounts may name
    People,     \* the customers that may be saved, with the PIN that fits
    Salts,      \* the salts of their hashes
    Rows,       \* the balances, statuses and versions accounts are saved with
    Records,    \* the transaction records a journal may be given
    Snapshots   \* the accounts a snapshot may be given

Id == 0..MaxAccountId    \* uint64_t

\* Transaction ids are counted from 1 and never come near 2^63.
ASSUME StorageBounds ==
    /\ Callers \in Nat /\ MaxTime \in Nat
    /\ MaxId \in Nat /\ MaxId < HalfRange
    /\ MaxEntries \in Nat /\ MaxEntries <= MaxAccountId

ASSUME NothingAssumption == Nothing \notin Int /\ NoAccount \notin Int

ASSUME IdsAssumption == SavedId \subseteq Id /\ CustomerId \subseteq Id

ASSUME PaymentsAssumption == Payments \subseteq Transaction

ASSUME RowsAssumption ==
    \A row \in Rows : row.status \in AccountStatus /\ row.version \in Id

\* A stored hash was made of the customer's PIN, or it is malformed; in neither
\* case has its salt a NUL byte, where SQLite's text would end.
ASSUME PeopleAssumption ==
    /\ Salts \subseteq Seq(0..255)
    /\ \A who \in People :
          /\ who.role \in DOMAIN RoleText
          /\ \/ \E salt \in Salts : IsHash(who.pin_hash, who.pin, salt)
             \/ /\ who.pin \notin Pin /\ Malformed(who.pin_hash)
                /\ \A i \in DOMAIN who.pin_hash.salt : who.pin_hash.salt[i] # 0

ASSUME RecordsAssumption ==
    /\ Records \subseteq
         [id : Id, timestamp : Nat, type : TransactionType,
          state : TransactionState, from : AccountId \cup {NoAccount},
          to : AccountId \cup {NoAccount}, amount : Money]
    /\ \A r \in Records : transaction_to_json(r) # NoDocument

ASSUME SnapshotsAssumption ==
    /\ Snapshots \subseteq [id : Id, owner : Id, balance : Money,
                           status : AccountStatus, version : Id]
    /\ \A s \in Snapshots : account_to_json(s) # NoDocument

VARIABLES
    store,               \* the store looked at
    customers,           \* InMemoryCustomerRepository::customers_
    accounts,            \* InMemoryAccountRepository::accounts_
    records,             \* InMemoryTransactionRepository::records_
    entries,             \* InMemoryAuditRepository::entries_
    customers_table, accounts_table, transactions_table, audit_log,   \* SQLite
    refused,             \* the accounts whose last save SQLite refused
    next_id, running,    \* ids taken, and the calls that have not appended yet
    next_audit_id, stamped,  \* the same for audit entries
    now,                 \* the clock
    original,            \* what was encoded
    doc,                 \* the stored document
    damaged              \* it is no longer what was written

accountVars == <<customers, accounts, customers_table, accounts_table, refused>>
transactionVars == <<records, transactions_table, next_id, running>>
auditVars == <<entries, audit_log, next_audit_id, stamped, now>>
documentVars == <<original, doc, damaged>>
vars == <<store, accountVars, transactionVars, auditVars, documentVars>>

Init ==
    /\ customers = <<>> /\ customers_table = {}
    /\ accounts = <<>> /\ accounts_table = {} /\ refused = {}
    /\ records = <<>> /\ transactions_table = {}
    /\ entries = <<>> /\ audit_log = {}
    /\ next_id = 1 /\ running = {}
    /\ next_audit_id = 1 /\ stamped = {}
    /\ now = 0
    /\ damaged = FALSE
    /\ \/ /\ store \in {"accounts", "transactions", "audit", "text"}
          /\ original = Nothing
          /\ doc = NoDocument
       \/ /\ store = "line"
          /\ original \in Records
          /\ doc = Stored(transaction_to_json(original))
       \/ /\ store = "entry"
          /\ original \in Snapshots
          /\ doc = Stored(account_to_json(original))

-----------------------------------------------------------------------------
(* Customers and accounts.                                                 *)

\* Mutant of Upserted: ON CONFLICT DO NOTHING.
Upserted_once(table, r) ==
    IF \E q \in table : q.id = r.id THEN table ELSE table \cup {r}

\* INSERT ... ON CONFLICT(id) DO UPDATE.
Upserted(table, r) == {q \in table : q.id # r.id} \cup {r}

\* insert_or_assign.
Assigned(map, k, v) ==
    [j \in DOMAIN map \cup {k} |-> IF j = k THEN v ELSE map[j]]

customer_row(c, who) ==
    [id |-> to_i64(c), pin_hash |-> who.pin_hash, role |-> RoleText[who.role]]

\* A std::string made of a C pointer: what is behind a NUL byte is lost.
column_text(t) ==
    LET nul == {i \in DOMAIN t : t[i] = 0}
    IN  IF nul = {} THEN t
        ELSE SubSeq(t, 1, (CHOOSE i \in nul : \A j \in nul : i <= j) - 1)

read_customer(r) ==
    [id |-> to_u64(r.id),
     pin_hash |-> [algorithm |-> r.pin_hash.algorithm,
                   salt |-> column_text(r.pin_hash.salt),
                   digest |-> r.pin_hash.digest],
     role |-> role_from_string(r.role)]

save_customer(c, who) ==
    /\ store = "accounts"
    /\ customers' = Assigned(customers, c, who)
    /\ customers_table' = Upserted(customers_table, customer_row(c, who))
    /\ UNCHANGED <<store, accounts, accounts_table, refused, transactionVars,
                   auditVars, documentVars>>

account_row(a, row, owner) ==
    [id |-> to_i64(a), owner_id |-> to_i64(owner),
     balance_cents |-> row.balance, status |-> StatusText[row.status],
     version |-> to_i64(row.version)]

read_account(r) ==
    [id |-> to_u64(r.id), owner |-> to_u64(r.owner_id),
     balance |-> r.balance_cents, status |-> FromText(StatusText, r.status),
     version |-> to_u64(r.version)]

\* owner_id ... REFERENCES customers(id), under PRAGMA foreign_keys=ON.
OwnerKnown(owner) == \E r \in customers_table : r.id = to_i64(owner)

\* SQLite refuses an account of an unknown owner, the other engine does not.
save(a, row, owner) ==
    LET account == [owner |-> owner, balance |-> row.balance,
                    status |-> row.status, version |-> row.version]
    IN  /\ store = "accounts"
        /\ accounts' = Assigned(accounts, a, account)
        /\ IF OwnerKnown(owner)
           THEN /\ accounts_table' = Upserted(accounts_table,
                                              account_row(a, row, owner))
                /\ refused' = refused \ {a}
           ELSE /\ accounts_table' = accounts_table
                /\ refused' = refused \cup {a}
        /\ UNCHANGED <<store, customers, customers_table, transactionVars,
                       auditVars, documentVars>>

remove(a) ==
    /\ store = "accounts"
    /\ accounts' = [b \in DOMAIN accounts \ {a} |-> accounts[b]]
    /\ accounts_table' = {q \in accounts_table : q.id # to_i64(a)}
    /\ refused' = refused \ {a}
    /\ UNCHANGED <<store, customers, customers_table, transactionVars, auditVars,
                   documentVars>>

\* The rows of S in the order of their ids.
OrderById(S) ==
    CHOOSE rows \in [1..Cardinality(S) -> S] :
        /\ \A r \in S : \E i \in DOMAIN rows : rows[i] = r
        /\ \A i, j \in DOMAIN rows : i < j => rows[i].id < rows[j].id

\* all(): the map in key order, the table ORDER BY id.
MemoryAccounts ==
    OrderById({[id |-> a, owner |-> accounts[a].owner,
                balance |-> accounts[a].balance, status |-> accounts[a].status,
                version |-> accounts[a].version] : a \in DOMAIN accounts})

SqliteAccounts ==
    LET rows == OrderById(accounts_table)
    IN  [i \in DOMAIN rows |-> read_account(rows[i])]

-----------------------------------------------------------------------------
(* Transactions.                                                           *)

\* Mutant of bind_integer_id: an absent leg is stored as account 0.
bind_integer_id_zero(a) == IF a = NoAccount THEN 0 ELSE to_i64(a)

\* An absent leg is stored as NULL, here Nothing.
bind_integer_id(a) == IF a = NoAccount THEN Nothing ELSE to_i64(a)
read_integer_id(v) == IF v = Nothing THEN NoAccount ELSE to_u64(v)

transaction_row(r) ==
    [id |-> to_i64(r.id), timestamp_ms |-> to_unix_ms(r.timestamp),
     type |-> TypeText[r.type], state |-> StateText[r.state],
     from_id |-> bind_integer_id(r.from), to_id |-> bind_integer_id(r.to),
     amount_cents |-> r.amount]

read_transaction(r) ==
    [id |-> to_u64(r.id), timestamp |-> from_unix_ms(r.timestamp_ms),
     type |-> FromText(TypeText, r.type), state |-> FromText(StateText, r.state),
     from |-> read_integer_id(r.from_id), to |-> read_integer_id(r.to_id),
     amount |-> r.amount_cents]

Record(id, t, x, state) ==
    [id |-> id, timestamp |-> t, type |-> x.type, state |-> state,
     from |-> debit_account(x), to |-> credit_account(x), amount |-> x.amount]

\* process_one takes its id; when it reads the clock has no bearing on it, so t
\* is any time ...
TakeId(x, t) ==
    /\ store = "transactions"
    /\ next_id <= MaxId
    /\ Cardinality(running) < Callers
    /\ next_id' = next_id + 1
    /\ running' = running \cup {Record(next_id, t, x, "Committed")}
    /\ UNCHANGED <<records, transactions_table, store, accountVars, auditVars,
                   documentVars>>

\* ... and transactions_.append comes much later.  SQLite refuses an id twice.
append_transaction(r) ==
    /\ r \in running
    /\ \A q \in transactions_table : q.id # to_i64(r.id)
    /\ running' = running \ {r}
    /\ records' = Append(records, r)
    /\ transactions_table' = transactions_table \cup {transaction_row(r)}
    /\ UNCHANGED <<next_id, store, accountVars, auditVars, documentVars>>

\* A call that fails leaves a gap in the ids.
CallFails(r) ==
    /\ r \in running
    /\ running' = running \ {r}
    /\ UNCHANGED <<records, transactions_table, next_id, store, accountVars,
                   auditVars, documentVars>>

\* for_account(a) of either engine.
MemoryHistory(a) ==
    LET after[n \in 0..Len(records)] ==
            IF n = 0 THEN <<>>
            ELSE IF a \in {records[n].from, records[n].to}
            THEN Append(after[n - 1], records[n]) ELSE after[n - 1]
    IN  after[Len(records)]

SelectedRows(a) ==
    {r \in transactions_table : r.from_id = to_i64(a) \/ r.to_id = to_i64(a)}

\* ... ORDER BY id: in the order the ids were taken, not of the appends.
SqliteHistory(a) ==
    LET rows == OrderById(SelectedRows(a))
    IN  [i \in DOMAIN rows |-> read_transaction(rows[i])]

-----------------------------------------------------------------------------
(* The audit trail.                                                        *)

Tick ==
    /\ store = "audit"
    /\ now < MaxTime
    /\ now' = now + 1
    /\ UNCHANGED <<entries, audit_log, next_audit_id, stamped, store, accountVars,
                   transactionVars, documentVars>>

\* append_audit takes an id and the time before it waits for repos_mutex_.
Stamp(who) ==
    /\ store = "audit"
    /\ next_audit_id <= MaxEntries
    /\ next_audit_id' = next_audit_id + 1
    /\ stamped' = stamped \cup
         {[id |-> next_audit_id, timestamp |-> now, actor_id |-> who]}
    /\ UNCHANGED <<entries, audit_log, now, store, accountVars, transactionVars,
                   documentVars>>

audit_row(e) ==
    [id |-> to_i64(e.id), timestamp_ms |-> to_unix_ms(e.timestamp),
     actor_id |-> e.actor_id]

read_audit(r) ==
    [id |-> to_u64(r.id), timestamp |-> from_unix_ms(r.timestamp_ms),
     actor_id |-> r.actor_id]

append_entry(e) ==
    /\ e \in stamped
    /\ \A q \in audit_log : q.id # to_i64(e.id)
    /\ stamped' = stamped \ {e}
    /\ entries' = Append(entries, e)
    /\ audit_log' = audit_log \cup {audit_row(e)}
    /\ UNCHANGED <<next_audit_id, now, store, accountVars, transactionVars,
                   documentVars>>

\* find({actor, since}) of either engine, as the entries it gives back.  An
\* omitted field is Nothing.  (The action filter works like the actor's.)
MemoryFind(who, since) ==
    {entries[i] : i \in {j \in DOMAIN entries :
        /\ who # Nothing => who = entries[j].actor_id
        /\ since # Nothing => ~(entries[j].timestamp < since)}}

\* Mutant of SqliteFind: `since' is exclusive.
SqliteFind_exclusive(who, since) ==
    {read_audit(r) : r \in {q \in audit_log :
        /\ who # Nothing => q.actor_id = who
        /\ since # Nothing => q.timestamp_ms > to_unix_ms(since)}}

SqliteFind(who, since) ==
    {read_audit(r) : r \in {q \in audit_log :
        /\ who # Nothing => q.actor_id = who
        /\ since # Nothing => q.timestamp_ms >= to_unix_ms(since)}}

-----------------------------------------------------------------------------
(* Damage to a stored document.                                            *)

Word ==
    {TypeText[v] : v \in TransactionType} \cup {StateText[v] : v \in TransactionState}
    \cup {StatusText[v] : v \in AccountStatus}

\* Whatever a field may say: an int64_t, a word some field knows or one none
\* does, null.
FieldValue ==
    {Number(i) : i \in (-HalfRange)..(HalfRange - 1)}
    \cup {Str(w) : w \in Word \cup {"unknown"}} \cup {Null}

\* The text is damaged in one field, or beyond parsing.
Damage ==
    /\ store \in {"line", "entry"}
    /\ ~damaged
    /\ damaged' = TRUE
    /\ \/ doc' = NoDocument
       \/ \E k \in (IF doc = NoDocument THEN {} ELSE DOMAIN doc) :
             \/ doc' = [j \in DOMAIN doc \ {k} |-> doc[j]]
             \/ \E v \in FieldValue : doc' = Stored([doc EXCEPT ![k] = v])
    /\ UNCHANGED <<original, store, accountVars, transactionVars, auditVars>>

-----------------------------------------------------------------------------
Next ==
    \/ \E c \in CustomerId, who \in People : save_customer(c, who)
    \/ \E a \in SavedId, row \in Rows, c \in CustomerId : save(a, row, c)
    \/ \E a \in SavedId : remove(a)
    \/ \E x \in Payments, t \in 0..MaxTime : TakeId(x, t)
    \/ \E r \in running : append_transaction(r) \/ CallFails(r)
    \/ \E who \in Actor : Stamp(who)
    \/ \E e \in stamped : append_entry(e)
    \/ Tick
    \/ Damage

Spec == Init /\ [][Next]_vars

-----------------------------------------------------------------------------
(* Properties.                                                             *)

Listed(s) == {s[i] : i \in DOMAIN s}

Settled(s) == {x \in Listed(s) : x.id \notin refused}

Ids(s) == {x.id : x \in Listed(s)}

\* Whatever was saved and removed before, ids on both sides of 2^63 included,
\* the engines list the same accounts with the same values, each once, except
\* those SQLite refused at their last save because nobody had saved their
\* owner: of these it lists an older value or none, and it lists no account the
\* in-memory engine does not.
SameAccounts ==
    /\ Settled(MemoryAccounts) = Settled(SqliteAccounts)
    /\ Ids(SqliteAccounts) \subseteq Ids(MemoryAccounts)
    /\ \A s \in {MemoryAccounts, SqliteAccounts} :
          \A i, j \in DOMAIN s : i < j => s[i].id # s[j].id

\* Both engines find the same customers, and whichever is live a login with
\* a customer's own PIN passes and with any other fails; one with a malformed
\* hash ("not a valid credential") has no PIN that passes.
SameCustomers ==
    /\ DOMAIN customers = {to_u64(r.id) : r \in customers_table}
    /\ \A r \in customers_table :
          LET found == read_customer(r)
              who   == customers[found.id]
          IN  /\ found.role = who.role
              /\ \A k \in {"algorithm", "salt", "digest"} :
                    found.pin_hash[k] = who.pin_hash[k]
              /\ \A p \in Pin : verify(p, found.pin_hash) <=> p = who.pin

Truncated(r) == [r EXCEPT !.timestamp = from_unix_ms(to_unix_ms(@))]

Legs(r) == {r.from, r.to} \ {NoAccount}

\* Neither engine loses a transaction or shows it to the wrong account (one with
\* no source is in nobody's debits, account 0 included), and SQLite gives back
\* every field, the timestamp to the millisecond.  The in-memory history is in
\* the order of the appends; SQLite's is in the order the ids were taken,
\* whatever order the calls finish in.
SameTransactions ==
    \A a \in AccountId :
        LET memory == MemoryHistory(a)
            sqlite == SqliteHistory(a)
        IN  /\ Listed(sqlite) = {Truncated(r) : r \in Listed(memory)}
            /\ Len(sqlite) = Len(memory)
            /\ \A i, j \in DOMAIN sqlite : i < j => sqlite[i].id < sqlite[j].id

\* find since a time.  The in-memory engine excludes what is older; SQLite, whose
\* times are whole milliseconds, answers as if asked since the beginning of that
\* millisecond, so it gives back a little more and misses nothing.
FindsSinceItsMillisecond ==
    \A who \in Actor \cup {Nothing}, since \in (0..MaxTime) \cup {Nothing} :
        LET asked == IF since = Nothing THEN Nothing
                     ELSE from_unix_ms(to_unix_ms(since))
        IN  SqliteFind(who, since) = {Truncated(e) : e \in MemoryFind(who, asked)}

\* A journaled transaction reads back as it was written, to the millisecond,
\* exactly when its account ids fit an int64_t and its own id is not 2^63
\* (which no text gives back): else the line is skipped, and it is never read
\* as another transaction.
TransactionRoundTrip ==
    store = "line" /\ ~damaged =>
        transaction_from_json(doc) =
            IF original.id # HalfRange /\ \A a \in Legs(original) : a < HalfRange
            THEN Truncated(original) ELSE Nothing

\* The codec knows no checksum, so a line damaged in one field may say something
\* else.  If it is read at all it is read as what it now says, and that is a
\* record an encoder could have written, the others of whose fields are as they
\* were: replay moves other money only if a leg, the amount or the type was
\* replaced by another valid one, never because a field was lost or made no sense.
DamageStaysInItsField ==
    store = "line" /\ damaged /\ transaction_from_json(doc) # Nothing =>
        LET r == transaction_from_json(doc)
        IN  /\ transaction_to_json(r) = doc
            /\ r.amount \in Money /\ Legs(r) \subseteq 0..(HalfRange - 1)
            /\ \E k \in DOMAIN r :
                  \A f \in DOMAIN r \ {k} : r[f] = Truncated(original)[f]

\* "A corrupt account entry makes the whole snapshot untrustworthy": an intact
\* entry is decoded as the account it was when its ids and its version fit an
\* int64_t, and not at all otherwise; one damaged in a field is refused, unless
\* that field says something valid: then this alone is taken for the account's.
EntriesSayWhatTheyHold ==
    store = "entry" =>
        LET s == account_from_json(doc)
        IN  IF ~damaged
            THEN s = IF {original.id, original.owner, original.version}
                        \subseteq 0..(HalfRange - 1)
                     THEN original ELSE Nothing
            ELSE s # Nothing =>
                    /\ account_to_json(s) = doc
                    /\ s.balance \in Money
                    /\ \E k \in DOMAIN s : \A f \in DOMAIN s \ {k} : s[f] = original[f]
=============================================================================
