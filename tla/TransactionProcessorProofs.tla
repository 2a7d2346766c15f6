--------------------- MODULE TransactionProcessorProofs ---------------------
(***************************************************************************)
(* Theorems about TransactionProcessor, for every set of threads, accounts *)
(* and transactions, every bound and every combination of faults.  The     *)
(* first part is about the bank rules alone, module BankDomain.            *)
(***************************************************************************)
EXTENDS ProcessorLedger, WellFoundedInduction, TLAPS

\* Every transaction of the variant names at least one account.
LEMMA InvolvedType ==
    ASSUME NEW x \in Transaction
    PROVE  /\ involved_accounts(x) \subseteq AccountId
           /\ involved_accounts(x) # {}
<1> USE NoAccountAssumption DEF involved_accounts, debit_account, credit_account
<1>1. CASE x \in Deposit
  BY <1>1 DEF Deposit
<1>2. CASE x \in Withdraw
  BY <1>2 DEF Withdraw
<1>3. CASE x \in Transfer
  BY <1>3 DEF Transfer
<1> QED
  BY <1>1, <1>2, <1>3 DEF Transaction

LEMMA AmountType ==
    ASSUME NEW x \in Transaction
    PROVE  x.amount \in Money
BY DEF Transaction, Deposit, Withdraw, Transfer

\* validate only looks at the involved accounts, and admits only amounts the
\* debited account covers.
LEMMA ValidateMeaning ==
    ASSUME NEW x \in Transaction, NEW accts, validate(x, accts)
    PROVE  /\ involved_accounts(x) \subseteq DOMAIN accts
           /\ x.amount > 0
           /\ debit_account(x) # NoAccount =>
                 x.amount <= accts[debit_account(x)].balance
           /\ debit_account(x) # credit_account(x)
<1> USE NoAccountAssumption
    DEF involved_accounts, debit_account, credit_account, can_subtract,
        can_withdraw
<1>1. CASE x \in Deposit
  BY <1>1 DEF Deposit, validate
<1>2. CASE x \in Withdraw
  BY <1>2 DEF Withdraw, validate
<1>3. CASE x \in Transfer
  BY <1>3 DEF Transfer, validate
<1> QED
  BY <1>1, <1>2, <1>3 DEF Transaction

\* Account::withdraw of a covered amount, and Account::deposit of a positive
\* amount that does not overflow.
LEMMA WithdrawMeaning ==
    ASSUME NEW acct \in Account, NEW n \in Nat, n <= acct.balance
    PROVE  /\ withdraw(acct, n) \in Account
           /\ withdraw(acct, n).balance = acct.balance - n
           /\ withdraw(acct, n).version = acct.version + 1
<1>1. acct.balance - n \in Money
  BY MaxCentsAssumption DEF Account, Money
<1> QED
  BY <1>1 DEF Account, withdraw

LEMMA DepositMeaning ==
    ASSUME NEW acct \in Account, NEW n \in Nat, n > 0,
           n <= MaxCents - acct.balance
    PROVE  /\ deposit(acct, n) \in Account
           /\ deposit(acct, n).balance = acct.balance + n
           /\ deposit(acct, n).version = acct.version + 1
<1>1. acct.balance + n \in Money /\ n # 0
  BY MaxCentsAssumption DEF Account, Money
<1> QED
  BY <1>1 DEF Account, deposit

\* apply, when it does not throw, leaves representable balances and bumps the
\* version of exactly the accounts the transaction involves.
LEMMA ApplyType ==
    ASSUME NEW x \in Transaction,
           NEW S \in SUBSET AccountId,
           NEW accts \in [S -> Account],
           ~apply_throws(x, accts)
    PROVE  /\ apply(x, accts) \in [S -> Account]
           /\ \A a \in S \ involved_accounts(x) : apply(x, accts)[a] = accts[a]
           /\ \A a \in involved_accounts(x) :
                 /\ a \in S
                 /\ apply(x, accts)[a].version = accts[a].version + 1
<1> DEFINE d == debit_account(x)  c == credit_account(x)
<1>1. /\ x.amount \in Nat /\ x.amount > 0
      /\ d # NoAccount => d \in S /\ x.amount <= accts[d].balance
      /\ c # NoAccount => c \in S /\ x.amount <= MaxCents - accts[c].balance
      /\ d # c
      /\ involved_accounts(x) = {d, c} \ {NoAccount}
  <2>1. validate(x, accts) /\ (c # NoAccount => ~plus_throws(accts[c].balance, x.amount))
    BY DEF apply_throws
  <2>2. x.amount \in Nat
    BY AmountType, MaxCentsAssumption DEF Money
  <2>3. c # NoAccount => c \in involved_accounts(x)
    BY DEF involved_accounts
  <2>4. c # NoAccount => accts[c].balance \in Nat
    BY <2>1, <2>3, ValidateMeaning, MaxCentsAssumption DEF Account, Money
  <2> QED
    BY <2>1, <2>2, <2>3, <2>4, ValidateMeaning, MaxCentsAssumption
    DEF involved_accounts, plus_throws
<1>2. ASSUME NEW a \in S
      PROVE  /\ apply(x, accts)[a] \in Account
             /\ a \notin {d, c} => apply(x, accts)[a] = accts[a]
             /\ a \in {d, c} => apply(x, accts)[a].version = accts[a].version + 1
  <2>1. accts[a] \in Account /\ a # NoAccount
    BY NoAccountAssumption
  <2>2. CASE a = d
    <3>1. apply(x, accts)[a] = withdraw(accts[a], x.amount)
      BY <2>2 DEF apply
    <3> QED
      BY <3>1, <2>1, <2>2, <1>1, WithdrawMeaning
  <2>3. CASE a = c
    <3>1. apply(x, accts)[a] = deposit(accts[a], x.amount)
      BY <2>3, <1>1 DEF apply
    <3> QED
      BY <3>1, <2>1, <2>3, <1>1, DepositMeaning
  <2>4. CASE a \notin {d, c}
    BY <2>1, <2>4 DEF apply
  <2> QED
    BY <2>2, <2>3, <2>4
<1>3. apply(x, accts) \in [S -> Account]
  BY <1>2 DEF apply
<1> QED
  BY <1>1, <1>2, <1>3, NoAccountAssumption

\* A transfer neither creates nor destroys money.
THEOREM TransferConserves ==
    ASSUME NEW x \in Transfer,
           NEW S \in SUBSET AccountId,
           NEW accts \in [S -> Account],
           ~apply_throws(x, accts)
    PROVE  apply(x, accts)[x.from].balance + apply(x, accts)[x.to].balance
             = accts[x.from].balance + accts[x.to].balance
<1>1. x \in Transaction /\ x.type = "Transfer" /\ x.amount \in Nat
  BY MaxCentsAssumption DEF Transaction, Transfer, Money
<1>2. validate(x, accts) /\ debit_account(x) = x.from /\ credit_account(x) = x.to
  BY <1>1 DEF apply_throws, debit_account, credit_account
<1>3. x.from \in S /\ x.to \in S /\ x.from # x.to /\ x.amount # 0
  BY <1>1, <1>2 DEF validate
<1>4. /\ apply(x, accts)[x.from] = withdraw(accts[x.from], x.amount)
      /\ apply(x, accts)[x.to] = deposit(accts[x.to], x.amount)
  BY <1>2, <1>3 DEF apply
<1> QED
  BY <1>1, <1>3, <1>4, MaxCentsAssumption DEF withdraw, deposit, Account, Money

\* A transaction survives the projection into a TransactionRecord: the journal
\* and the repository lose neither a leg nor the amount.
THEOREM RecordRoundTrip ==
    ASSUME NEW x \in Transaction, NEW n \in Nat, NEW s \in TransactionState
    PROVE  LET r == [project_transaction(n, x) EXCEPT !.state = s]
           IN  /\ r \in TransactionRecord
               /\ ~materialize_throws(r)
               /\ materialize_transaction(r) = x
               /\ r.id = n
               /\ r.state = s
<1> USE NoAccountAssumption
    DEF project_transaction, debit_account, credit_account, TransactionRecord,
        materialize_throws, materialize_transaction, TransactionType
<1>1. CASE x \in Deposit
  BY <1>1 DEF Deposit
<1>2. CASE x \in Withdraw
  BY <1>2 DEF Withdraw
<1>3. CASE x \in Transfer
  BY <1>3 DEF Transfer
<1> QED
  BY <1>1, <1>2, <1>3 DEF Transaction

-----------------------------------------------------------------------------
(* The processor's invariants.                                             *)

\* A call in progress is about one of the transactions asked for.
BusyTxn == \A t \in Thread : pc[t] # "idle" => txn[t] \in Txns

\* next_id_ is ahead of every id the journal or a running call has.  (That it
\* is ahead of the records too follows from RecordsAreJournaled.)
IdBound ==
    /\ \A i \in DOMAIN wal : wal[i].id \in 1..(next_id - 1)
    /\ \A i \in DOMAIN records : records[i].id \in 1..MaxTxns
    /\ \A t \in Thread : pc[t] # "idle" => id[t] \in 1..(next_id - 1)

TypeInv == DataOK /\ BusyTxn /\ IdBound

-----------------------------------------------------------------------------
(* The operators of the module.                                            *)

LEMMA AccountIdNat == AccountId \subseteq Nat
BY AccountIdAssumption

LEMMA BusyInvolved ==
    ASSUME TypeInv, NEW t \in Thread, pc[t] # "idle"
    PROVE  /\ txn[t] \in Transaction
           /\ involved_accounts(txn[t]) \subseteq AccountId
           /\ involved_accounts(txn[t]) # {}
BY InvolvedType, TxnsAssumption DEF TypeInv, BusyTxn

\* The record of a call, with the state it carries.
CallRecord(t, s) == [project_transaction(id[t], txn[t]) EXCEPT !.state = s]

LEMMA CallRecordMeaning ==
    ASSUME TypeInv, NEW t \in Thread, pc[t] # "idle",
           NEW s \in TransactionState
    PROVE  /\ CallRecord(t, s) \in TransactionRecord
           /\ materialize_transaction(CallRecord(t, s)) = txn[t]
           /\ CallRecord(t, s).id = id[t]
           /\ CallRecord(t, s).state = s
<1>1. id[t] \in Nat
  BY MaxTxnsAssumption DEF TypeInv, DataOK
<1> QED
  BY <1>1, BusyInvolved, RecordRoundTrip DEF CallRecord

\* Appending to a sequence.
LEMMA AppendMeaning ==
    ASSUME NEW S, NEW w \in Seq(S), NEW e \in S
    PROVE  /\ Append(w, e) \in Seq(S)
           /\ DOMAIN Append(w, e) = DOMAIN w \cup {Len(w) + 1}
           /\ Len(w) + 1 \notin DOMAIN w
           /\ \A i \in DOMAIN w : Append(w, e)[i] = w[i] /\ w[i] \in S
           /\ Append(w, e)[Len(w) + 1] = e
OBVIOUS

\* A journal line whose state byte has been flipped.
Flipped(r) == [r EXCEPT !.state = "Committed"]

LEMMA FlippedType ==
    ASSUME NEW r \in TransactionRecord
    PROVE  /\ Flipped(r) \in TransactionRecord
           /\ Flipped(r).id = r.id
           /\ Flipped(r).state = "Committed"
           /\ materialize_transaction(Flipped(r)) = materialize_transaction(r)
BY DEF Flipped, TransactionRecord, TransactionState, materialize_transaction

\* mark_committed keeps every line and every id; when the id is on one line
\* only, it flips that line and no other.
LEMMA MarkedMeaning ==
    ASSUME wal \in Seq(TransactionRecord), NEW n
    PROVE  /\ Marked(n) \in Seq(TransactionRecord)
           /\ DOMAIN Marked(n) = DOMAIN wal
           /\ \A i \in DOMAIN wal :
                 /\ Marked(n)[i].id = wal[i].id
                 /\ Marked(n)[i] \in {wal[i], Flipped(wal[i])}
                 /\ wal[i].id # n => Marked(n)[i] = wal[i]
           /\ \A i \in DOMAIN wal :
                 (\A j \in DOMAIN wal : wal[j].id = n <=> j = i)
                    => Marked(n)[i] = Flipped(wal[i])
<1>1. \A i \in DOMAIN wal : wal[i] \in TransactionRecord
  OBVIOUS
<1>2. \A i \in DOMAIN wal :
         /\ Flipped(wal[i]) \in TransactionRecord
         /\ Flipped(wal[i]).id = wal[i].id
  BY <1>1, FlippedType
<1>3. Marked(n) = [i \in DOMAIN wal |->
                     IF wal[i].id = n /\ \A j \in 1..(i - 1) : wal[j].id # n
                     THEN Flipped(wal[i]) ELSE wal[i]]
  BY DEF Marked, Flipped
<1>4. Marked(n) \in [1..Len(wal) -> TransactionRecord]
  BY <1>1, <1>2, <1>3
<1>5. Marked(n) \in Seq(TransactionRecord)
  BY <1>4
<1>6. \A i \in DOMAIN wal : \A j \in 1..(i - 1) : j \in DOMAIN wal /\ j # i
  OBVIOUS
<1> QED
  BY <1>2, <1>3, <1>5, <1>6

\* Saving applied accounts leaves an account repository of valid accounts.
LEMMA SavedType ==
    ASSUME TypeInv, NEW t \in Thread, pc[t] # "idle",
           ~apply_throws(txn[t], loaded[t]),
           NEW S \in SUBSET DOMAIN loaded[t]
    PROVE  Saved(t, S) \in [Opened -> Account]
<1>1. txn[t] \in Transaction
  BY BusyInvolved
<1>2. /\ DOMAIN loaded[t] \subseteq Opened
      /\ Opened \subseteq AccountId
      /\ loaded[t] \in [DOMAIN loaded[t] -> Account]
      /\ accounts \in [Opened -> Account]
  BY InitAccountsAssumption DEF TypeInv, DataOK, Opened
<1>3. apply(txn[t], loaded[t]) \in [DOMAIN loaded[t] -> Account]
  BY <1>1, <1>2, ApplyType
<1> QED
  BY <1>2, <1>3 DEF Saved

-----------------------------------------------------------------------------
LEMMA SavePrefixType ==
    ASSUME TypeInv, NEW t \in Thread, SavePrefix(t)
    PROVE  accounts' \in [Opened -> Account]
<1>1. PICK a \in DOMAIN loaded[t] :
         accounts' = Saved(t, {b \in DOMAIN loaded[t] : b < a})
  BY DEF SavePrefix
<1> QED
  BY <1>1, SavedType DEF SavePrefix

LEMMA TypeInit == Init => TypeInv
<1> SUFFICES ASSUME Init PROVE TypeInv
  OBVIOUS
<1>1. DataOK
  BY NoThreadAssumption, InitAccountsAssumption, MaxTxnsAssumption
  DEF Init, DataOK, Opened, Label, NoneLoaded
<1> QED
  BY <1>1 DEF Init, TypeInv, BusyTxn, IdBound

LEMMA TypeStep == TypeInv /\ [Next]_vars => TypeInv'
<1> SUFFICES ASSUME TypeInv, [Next]_vars PROVE TypeInv'
  OBVIOUS
<1> USE DEF TypeInv
<1>1. ASSUME NEW t \in Thread, NEW x \in Txns, ProcessOne(t, x)
      PROVE  TypeInv'
  <2>1. DataOK'
    BY <1>1, MaxTxnsAssumption DEF ProcessOne, Goto, DataOK, Label
  <2>2. BusyTxn'
    BY <1>1 DEF ProcessOne, Goto, DataOK, BusyTxn
  <2>3. IdBound'
    BY <1>1, MaxTxnsAssumption DEF ProcessOne, Goto, DataOK, IdBound
  <2> QED
    BY <2>1, <2>2, <2>3
<1>2. ASSUME NEW t \in Thread, NEW a \in AccountId, LockAccount(t, a)
      PROVE  TypeInv'
  BY <1>2 DEF LockAccount, Goto, DataOK, Label, BusyTxn, IdBound
<1>3. ASSUME NEW t \in Thread, Load(t)
      PROVE  TypeInv'
  BY <1>3 DEF Load, Goto, DataOK, Label, BusyTxn, IdBound
<1>4. ASSUME NEW t \in Thread, AppendIntent(t)
      PROVE  TypeInv'
  <2> DEFINE r == CallRecord(t, "Validated")
  <2>1. /\ r \in TransactionRecord
        /\ r.id = id[t]
        /\ wal' = Append(wal, r)
    BY <1>4, CallRecordMeaning DEF AppendIntent, CallRecord, TransactionState
  <2> HIDE DEF r
  <2>2. DataOK'
    BY <1>4, <2>1 DEF AppendIntent, Goto, DataOK, Label
  <2>3. wal \in Seq(TransactionRecord) /\ id[t] \in 1..(next_id - 1)
    BY <1>4 DEF AppendIntent, DataOK, IdBound
  <2>4. \A i \in DOMAIN wal' : wal'[i].id \in 1..(next_id - 1)
    BY <2>1, <2>3, AppendMeaning DEF IdBound
  <2>5. BusyTxn' /\ IdBound'
    BY <1>4, <2>4 DEF AppendIntent, Goto, DataOK, BusyTxn, IdBound
  <2> QED
    BY <2>2, <2>5
<1>5. ASSUME NEW t \in Thread, ApplySave(t)
      PROVE  TypeInv'
  <2>1. accounts' \in [Opened -> Account]
    BY <1>5, SavedType DEF ApplySave
  <2> QED
    BY <1>5, <2>1 DEF ApplySave, Goto, DataOK, Label, BusyTxn, IdBound
<1>6. ASSUME NEW t \in Thread, MarkCommitted(t)
      PROVE  TypeInv'
  <2>1. wal' \in Seq(TransactionRecord) /\ DOMAIN wal' = DOMAIN wal
        /\ \A i \in DOMAIN wal : wal'[i].id = wal[i].id
    BY <1>6, MarkedMeaning DEF MarkCommitted, DataOK
  <2> QED
    BY <1>6, <2>1 DEF MarkCommitted, Goto, DataOK, Label, BusyTxn, IdBound
<1>7. ASSUME NEW t \in Thread, AppendRecord(t)
      PROVE  TypeInv'
  <2> DEFINE r == CallRecord(t, "Committed")
  <2>1. /\ r \in TransactionRecord
        /\ r.id = id[t]
        /\ records' = Append(records, r)
    BY <1>7, CallRecordMeaning
    DEF AppendRecord, Recorded, CallRecord, TransactionState
  <2> HIDE DEF r
  <2>2. DataOK'
    BY <1>7, <2>1 DEF AppendRecord, Goto, DataOK, Label
  <2>3. records \in Seq(TransactionRecord) /\ id[t] \in 1..(next_id - 1)
    BY <1>7 DEF AppendRecord, DataOK, IdBound
  <2>4. \A i \in DOMAIN records' : records'[i].id \in 1..MaxTxns
    BY <1>7, <2>1, <2>3, AppendMeaning, MaxTxnsAssumption DEF IdBound, DataOK
  <2>5. BusyTxn' /\ IdBound'
    BY <1>7, <2>4 DEF AppendRecord, Goto, DataOK, BusyTxn, IdBound
  <2> QED
    BY <2>2, <2>5
\* Every way out of the try block or the handler, whatever it did before.
<1> DEFINE Exit(t) ==
      /\ pc[t] # "idle"
      /\ pc' \in {[pc EXCEPT ![t] = "idle"], [pc EXCEPT ![t] = "catch"]}
      /\ owner' = Released(t)
      /\ loaded' = [loaded EXCEPT ![t] = NoneLoaded]
      /\ UNCHANGED <<records, next_id, txn, id>>
<1>8. ASSUME NEW t \in Thread, Exit(t),
             accounts' \in [Opened -> Account],
             wal' \in {wal, Marked(id[t])},
             next_audit_id' \in {next_audit_id, next_audit_id + 1},
             \/ result' = result
             \/ \E r \in {"success", "failure", "threw"} :
                   result' = [result EXCEPT ![t] = r]
      PROVE  TypeInv'
  <2>1. wal' \in Seq(TransactionRecord) /\ DOMAIN wal' = DOMAIN wal
        /\ \A i \in DOMAIN wal : wal'[i].id = wal[i].id
    BY <1>8, MarkedMeaning DEF DataOK
  <2>2. owner' \in [AccountId -> Thread \cup {NoThread}]
    BY <1>8 DEF DataOK, Released
  <2>3. /\ loaded' = [u \in Thread |-> loaded'[u]]
        /\ \A u \in Thread : /\ DOMAIN loaded'[u] \subseteq Opened
                             /\ loaded'[u] \in [DOMAIN loaded'[u] -> Account]
    BY <1>8 DEF DataOK, NoneLoaded
  <2>4. result' \in [Thread -> {"none", "success", "failure", "threw"}]
    BY <1>8 DEF DataOK
  <2>5. pc' \in [Thread -> Label] /\ \A u \in Thread : pc'[u] # "idle" => pc[u] # "idle"
    BY <1>8 DEF DataOK, Label
  <2>6. DataOK'
    BY <1>8, <2>1, <2>2, <2>3, <2>4, <2>5 DEF DataOK
  <2> QED
    BY <1>8, <2>1, <2>5, <2>6 DEF BusyTxn, IdBound
<1>9. ASSUME NEW t \in Thread, ApplyThrows(t) \/ CallFails(t)
      PROVE  TypeInv'
  BY <1>8, <1>9 DEF ApplyThrows, CallFails, Throw, DataOK
<1>10. ASSUME NEW t \in Thread, SaveFails(t)
       PROVE  TypeInv'
  <2>1. accounts' \in [Opened -> Account]
    BY <1>10, SavePrefixType DEF SaveFails
  <2> QED
    BY <1>8, <1>10, <2>1 DEF SaveFails, SavePrefix, Throw, DataOK
<1>11. ASSUME NEW t \in Thread, MarkCommittedFails(t)
       PROVE  TypeInv'
  BY <1>8, <1>11 DEF MarkCommittedFails, Throw, DataOK
<1>12. ASSUME NEW t \in Thread, AuditCompleted(t) \/ AuditFailed(t)
       PROVE  TypeInv'
  BY <1>8, <1>12 DEF AuditCompleted, AuditFailed, append_audit, Return, DataOK
<1>13. ASSUME NEW t \in Thread, AuditThrows(t) \/ CatchAuditThrows(t)
       PROVE  TypeInv'
  BY <1>8, <1>13
  DEF AuditThrows, CatchAuditThrows, append_audit_throws, Return, Throw, DataOK
<1>14. CASE CrashRestart
  <2>1. PICK listed \in Listed :
           \E m \in StoredIds(listed) \cup {0} :
              /\ \A n \in StoredIds(listed) : n <= m
              /\ next_id' = m + 1
    BY <1>14 DEF CrashRestart
  <2> DEFINE found == StoredIds(listed)
  <2>2. PICK m \in found \cup {0} : (\A n \in found : n <= m) /\ next_id' = m + 1
    BY <2>1
  <2>3. found \subseteq 1..MaxTxns /\ Ids(wal) \subseteq found
    <3>1. next_id - 1 \in 0..MaxTxns
      BY MaxTxnsAssumption DEF DataOK
    <3>2. Ids(wal) \subseteq 1..(next_id - 1)
      BY DEF Ids, IdBound
    <3>3. Ids(records) \subseteq 1..MaxTxns
      BY DEF Ids, IdBound
    <3>4. found = Ids(wal) \cup listed /\ listed \subseteq Ids(records)
      BY DEF StoredIds, Listed
    <3> QED
      BY <3>1, <3>2, <3>3, <3>4, MaxTxnsAssumption
  <2> HIDE DEF found
  <2>4. m \in 0..MaxTxns
    BY <2>3, MaxTxnsAssumption
  <2>5. accounts' \in [Opened -> Account]
    BY <1>14, SavePrefixType DEF CrashRestart, DataOK
  <2>6. DataOK'
    BY <1>14, <2>2, <2>5, <2>4, MaxTxnsAssumption
    DEF CrashRestart, DataOK, Label, NoneLoaded
  <2>7. \A i \in DOMAIN wal : wal[i].id \in 1..m
    <3>1. \A n \in found : n \in 1..m
      BY <2>2, <2>3, <2>4, MaxTxnsAssumption
    <3>2. \A i \in DOMAIN wal : wal[i].id \in found
      BY <2>3 DEF Ids
    <3> QED
      BY <3>1, <3>2
  <2> QED
    BY <1>14, <2>2, <2>6, <2>7, <2>4 DEF CrashRestart, BusyTxn, IdBound, DataOK
<1>15. CASE UNCHANGED vars
  BY <1>15 DEF vars, DataOK, BusyTxn, IdBound
<1> QED
  BY <1>1, <1>2, <1>3, <1>4, <1>5, <1>6, <1>7, <1>9, <1>10, <1>11, <1>12,
     <1>13, <1>14, <1>15
  DEF Next, Calls, Advance, Fault

\* What the processor adds to the audit log.
LEMMA AuditStep == TypeInv /\ AuditOK /\ [Next]_vars => AuditOK'
<1> SUFFICES ASSUME TypeInv, AuditOK, [Next]_vars PROVE AuditOK'
  OBVIOUS
<1>1. ASSUME NEW t \in Thread, AuditCompleted(t) \/ AuditFailed(t)
      PROVE  AuditOK'
  <2>1. next_audit_id \in Nat
    BY DEF TypeInv, DataOK
  <2>2. PICK action \in {"txn.completed", "txn.failed"} :
           audit' = audit \cup {[id |-> next_audit_id, action |-> action]}
    BY <1>1 DEF AuditCompleted, AuditFailed, append_audit
  <2> QED
    BY <2>1, <2>2 DEF AuditOK
<1>2. ASSUME NEW t \in Thread, AuditThrows(t) \/ CatchAuditThrows(t)
      PROVE  audit' = audit
  BY <1>2 DEF AuditThrows, CatchAuditThrows, append_audit_throws
<1>3. ASSUME NEW t \in Thread,
             \/ \E x \in Txns : ProcessOne(t, x)
             \/ \E a \in AccountId : LockAccount(t, a)
             \/ Load(t) \/ AppendIntent(t) \/ ApplySave(t) \/ ApplyThrows(t)
             \/ MarkCommitted(t) \/ AppendRecord(t) \/ Fault(t)
      PROVE  audit' = audit
  BY <1>3 DEF ProcessOne, LockAccount, Load, AppendIntent, ApplySave, ApplyThrows,
              MarkCommitted, AppendRecord, Fault, CallFails, SaveFails,
              MarkCommittedFails
<1> QED
  BY <1>1, <1>2, <1>3 DEF Next, Calls, Advance, CrashRestart, vars, AuditOK

\* Balances stay representable, versions and ids stay counters, every local of
\* every call keeps its shape: under any interleaving, fault and restart.
THEOREM TypeInvariant == Spec => []TypeOK
<1>1. Init => AuditOK
  BY DEF Init, AuditOK
<1>2. TypeInv /\ AuditOK => TypeOK
  BY DEF TypeInv, TypeOK
<1> QED
  BY <1>1, <1>2, TypeInit, TypeStep, AuditStep, PTL DEF Spec

-----------------------------------------------------------------------------
(* The account locks.                                                      *)

\* Between the last lock and the release of the guards.
Holding == {"load", "wal", "save", "commit", "record", "audit_ok", "audit_fail"}

\* Which account mutexes each call holds.
LockInv ==
    \A t \in Thread :
       /\ pc[t] \in {"idle", "catch"} => Held(t) = {}
       /\ pc[t] = "lock" =>
             /\ Held(t) \subseteq involved_accounts(txn[t])
             /\ Missing(t) # {}
             /\ \A a \in Held(t), b \in Missing(t) : a < b
       /\ pc[t] \in Holding => Held(t) = involved_accounts(txn[t])

LEMMA LockInit == Init => LockInv
BY NoThreadAssumption DEF Init, LockInv, Held, Holding

\* How any step changes pc, the lock table and the arguments of the calls.
LEMMA StepShape ==
    ASSUME Next
    PROVE  \/ \E t \in Thread, x \in Txns : ProcessOne(t, x)
           \/ \E t \in Thread, a \in AccountId : LockAccount(t, a)
           \/ \E t \in Thread, l \in Holding :
                 /\ pc[t] \in Holding
                 /\ pc' = [pc EXCEPT ![t] = l]
                 /\ UNCHANGED <<owner, txn>>
           \/ \E t \in Thread, l \in {"idle", "catch"} :
                 /\ pc' = [pc EXCEPT ![t] = l]
                 /\ owner' = Released(t)
                 /\ txn' = txn
           \/ CrashRestart
<1>1. ASSUME NEW t \in Thread,
             \/ Load(t) \/ AppendIntent(t) \/ ApplySave(t)
             \/ MarkCommitted(t) \/ AppendRecord(t)
      PROVE  \E l \in Holding : /\ pc[t] \in Holding
                                /\ pc' = [pc EXCEPT ![t] = l]
                                /\ UNCHANGED <<owner, txn>>
  BY <1>1 DEF Load, AppendIntent, ApplySave, MarkCommitted, AppendRecord, Goto,
              Holding
<1>2. ASSUME NEW t \in Thread,
             \/ ApplyThrows(t) \/ CallFails(t) \/ SaveFails(t)
             \/ MarkCommittedFails(t) \/ AuditThrows(t)
      PROVE  /\ pc' = [pc EXCEPT ![t] = "catch"]
             /\ owner' = Released(t)
             /\ txn' = txn
  BY <1>2 DEF ApplyThrows, CallFails, SaveFails, MarkCommittedFails,
              AuditThrows, Throw
<1>3. ASSUME NEW t \in Thread,
             AuditCompleted(t) \/ AuditFailed(t) \/ CatchAuditThrows(t)
      PROVE  /\ pc' = [pc EXCEPT ![t] = "idle"]
             /\ owner' = Released(t)
             /\ txn' = txn
  BY <1>3 DEF AuditCompleted, AuditFailed, CatchAuditThrows, Return
<1> QED
  BY <1>1, <1>2, <1>3 DEF Next, Calls, Advance, Fault

LEMMA LockStep == TypeInv /\ LockInv /\ [Next]_vars => LockInv'
<1> SUFFICES ASSUME TypeInv, LockInv, [Next]_vars PROVE LockInv'
  OBVIOUS
<1>1. ASSUME NEW t \in Thread, NEW x \in Txns, ProcessOne(t, x)
      PROVE  LockInv'
  <2>1. /\ pc[t] = "idle" /\ pc' = [pc EXCEPT ![t] = "lock"]
        /\ owner' = owner /\ txn' = [txn EXCEPT ![t] = x]
    BY <1>1 DEF ProcessOne, Goto
  <2>2. Held(t) = {}
    BY <2>1 DEF LockInv
  <2>3. \A u \in Thread : Held(u)' = Held(u)
    BY <2>1 DEF Held
  <2>4. Missing(t)' # {}
    BY <2>1, <2>2, <2>3, InvolvedType, TxnsAssumption
    DEF Missing, TypeInv, DataOK
  <2>5. \A u \in Thread \ {t} : pc'[u] = pc[u] /\ txn'[u] = txn[u]
                                /\ Missing(u)' = Missing(u)
    BY <2>1, <2>3 DEF TypeInv, DataOK, Missing
  <2> QED
    BY <2>1, <2>2, <2>3, <2>4, <2>5 DEF LockInv, Holding, TypeInv, DataOK
<1>2. ASSUME NEW t \in Thread, NEW a \in AccountId, LockAccount(t, a)
      PROVE  LockInv'
  <2>1. /\ pc[t] = "lock" /\ owner[a] = NoThread
        /\ owner' = [owner EXCEPT ![a] = t] /\ txn' = txn
        /\ a \in Missing(t) /\ \A b \in Missing(t) : a <= b
        /\ pc' = [pc EXCEPT ![t] = IF Missing(t) = {a} THEN "load" ELSE "lock"]
    BY <1>2 DEF LockAccount, FirstOf, Free, Goto
  <2>2. /\ Held(t)' = Held(t) \cup {a}
        /\ \A u \in Thread \ {t} : Held(u)' = Held(u)
    BY <2>1, NoThreadAssumption DEF Held, TypeInv, DataOK
  <2>3. /\ Missing(t)' = Missing(t) \ {a}
        /\ \A u \in Thread \ {t} : Missing(u)' = Missing(u)
    BY <2>1, <2>2 DEF Missing
  <2>4. \A u \in Thread \ {t} : pc'[u] = pc[u] /\ txn'[u] = txn[u]
    BY <2>1 DEF TypeInv, DataOK
  <2>5. Missing(t) \subseteq Nat
    <3>1. pc[t] # "idle"
      BY <2>1
    <3>2. involved_accounts(txn[t]) \subseteq Nat
      BY <3>1, BusyInvolved, AccountIdNat
    <3> QED
      BY <3>2 DEF Missing
  <2>6. \A b \in Held(t)', c \in Missing(t)' : b < c
    BY <2>1, <2>2, <2>3, <2>5 DEF LockInv
  <2>7. CASE Missing(t) = {a}
    <3>1. Held(t)' = involved_accounts(txn[t]) /\ pc'[t] = "load"
      BY <2>1, <2>2, <2>7 DEF LockInv, Missing, TypeInv, DataOK
    <3> QED
      BY <2>1, <2>2, <2>3, <2>4, <3>1 DEF LockInv, Holding
  <2>8. CASE Missing(t) # {a}
    <3>1. Missing(t)' # {} /\ pc'[t] = "lock"
      BY <2>1, <2>3, <2>8 DEF TypeInv, DataOK
    <3>2. Held(t)' \subseteq involved_accounts(txn[t])
      BY <2>1, <2>2 DEF LockInv, Missing
    <3> QED
      BY <2>1, <2>2, <2>3, <2>4, <2>6, <3>1, <3>2 DEF LockInv, Holding
  <2> QED
    BY <2>7, <2>8
<1>3. ASSUME NEW t \in Thread, NEW l \in Holding, pc[t] \in Holding,
             pc' = [pc EXCEPT ![t] = l], UNCHANGED <<owner, txn>>
      PROVE  LockInv'
  <2>1. \A u \in Thread : Held(u)' = Held(u) /\ Missing(u)' = Missing(u)
    BY <1>3 DEF Held, Missing
  <2> QED
    BY <1>3, <2>1 DEF LockInv, Holding, TypeInv, DataOK
<1>4. ASSUME NEW t \in Thread, NEW l \in {"idle", "catch"},
             pc' = [pc EXCEPT ![t] = l], owner' = Released(t), txn' = txn
      PROVE  LockInv'
  <2>1. /\ Held(t)' = {}
        /\ \A u \in Thread \ {t} : Held(u)' = Held(u) /\ Missing(u)' = Missing(u)
    BY <1>4, NoThreadAssumption DEF Held, Missing, Released
  <2> QED
    BY <1>4, <2>1 DEF LockInv, Holding, TypeInv, DataOK
<1>5. CASE CrashRestart
  BY <1>5, NoThreadAssumption DEF CrashRestart, LockInv, Held, Holding
<1>6. CASE UNCHANGED vars
  BY <1>6 DEF vars, LockInv, Held, Missing
<1> QED
  BY <1>1, <1>2, <1>3, <1>4, <1>5, <1>6, StepShape

\* Ascending acquisition, for any number of threads and accounts.
THEOREM LockOrderHolds == Spec => []LockOrder
<1>1. LockInv => LockOrder
  BY DEF LockInv, LockOrder
<1> QED
  BY <1>1, TypeInit, TypeStep, LockInit, LockStep, PTL DEF Spec

\* The call waiting for the largest id waits for a call that is not waiting:
\* the holder owns that id, so it can only wait for a larger one.
LEMMA SomebodyRuns == TypeInv /\ LockInv => NoDeadlock
<1> SUFFICES ASSUME TypeInv, LockInv,
                    NEW t0 \in Thread, pc[t0] # "idle",
                    \A t \in Thread : pc[t] # "idle" => Blocked(t)
             PROVE  FALSE
  BY DEF NoDeadlock
<1> DEFINE Waits(t, a) == /\ pc[t] = "lock"
                          /\ a \in Missing(t)
                          /\ \A b \in Missing(t) : a <= b
                          /\ owner[a] # NoThread
           Distance == {n \in 0..MaxAccountId :
                          \E t \in Thread, a \in AccountId :
                             Waits(t, a) /\ n = MaxAccountId - a}
<1>1. \A t \in Thread, a \in AccountId : Waits(t, a) =>
         MaxAccountId - a \in Distance /\ a \in Nat
  BY AccountIdAssumption
<1>2. \A t \in Thread : Missing(t) \subseteq AccountId \/ pc[t] = "idle"
  BY BusyInvolved DEF Missing
<1>3. \A t \in Thread : pc[t] # "idle" => \E a \in AccountId : Waits(t, a)
  BY <1>2 DEF Blocked, FirstOf, Free
<1>4. Distance # {} /\ Distance \subseteq Nat
  <2>1. PICK a \in AccountId : Waits(t0, a)
    BY <1>3
  <2>2. MaxAccountId - a \in Distance
    BY <1>1, <2>1
  <2> QED
    BY <2>2
<1> HIDE DEF Distance
<1>5. PICK n \in Distance : \A m \in Distance : ~(<<m, n>> \in OpToRel(<, Nat))
  BY <1>4, NatLessThanWellFounded, WFMin
<1>6. \A m \in Distance : ~(m < n)
  BY <1>4, <1>5 DEF OpToRel
<1>7. PICK t \in Thread, a \in AccountId : Waits(t, a) /\ n = MaxAccountId - a
  BY DEF Distance
<1>8. owner[a] \in Thread /\ a \in Held(owner[a])
  BY <1>7 DEF TypeInv, DataOK, Held
<1>9. pc[owner[a]] # "idle"
  BY <1>8 DEF LockInv
<1>10. PICK b \in AccountId : Waits(owner[a], b)
  BY <1>3, <1>8, <1>9
<1>11. a < b
  BY <1>8, <1>10 DEF LockInv
<1>12. MaxAccountId - b < n
  <2>1. a \in Nat /\ b \in Nat /\ MaxAccountId \in Nat
    BY AccountIdAssumption
  <2>2. n = MaxAccountId - a
    BY <1>7
  <2> QED
    BY <1>11, <2>1, <2>2
<1> QED
  BY <1>1, <1>6, <1>8, <1>10, <1>12

\* No set of calls can wait for each other's account mutexes.
THEOREM DeadlockFreedom == Spec => []NoDeadlock
BY TypeInit, TypeStep, LockInit, LockStep, SomebodyRuns, PTL DEF Spec

-----------------------------------------------------------------------------
(* The accounts a call has read.                                           *)

\* What a call holds in `loaded' between its load and its save.
LoadInv ==
    \A t \in Thread : pc[t] \in {"wal", "save"} =>
        /\ DOMAIN loaded[t] = involved_accounts(txn[t])
        /\ \A a \in DOMAIN loaded[t] : loaded[t][a] = accounts[a]

\* Two calls past their last lock involve no account in common.
LEMMA Disjoint ==
    ASSUME LockInv, NEW t \in Thread, NEW u \in Thread, t # u,
           pc[t] \in Holding, pc[u] \in Holding,
           involved_accounts(txn[t]) \subseteq AccountId
    PROVE  involved_accounts(txn[t]) \cap involved_accounts(txn[u]) = {}
BY DEF LockInv, Held

\* The steps that change an account: t's save, whole or cut short.
Writes(t, S) ==
    /\ pc[t] = "save"
    /\ S \subseteq DOMAIN loaded[t]
    /\ ~apply_throws(txn[t], loaded[t])
    /\ accounts' = Saved(t, S)

\* ... and the process lives on.
Saves(t, S) ==
    /\ Writes(t, S)
    /\ \E l \in {"commit", "catch"} : pc' = [pc EXCEPT ![t] = l]
    /\ txn' = txn
    /\ \A u \in Thread \ {t} : loaded'[u] = loaded[u]

\* Every step of a call is a save, a load, or leaves accounts alone.
LEMMA AccountSteps ==
    ASSUME TypeInv, Next
    PROVE  \/ \E t \in Thread : \E S \in SUBSET DOMAIN loaded[t] : Saves(t, S)
           \/ \E t \in Thread : \E S \in SUBSET DOMAIN loaded[t] :
                 Writes(t, S) /\ \A u \in Thread : pc'[u] = "idle"
           \/ \E t \in Thread : Load(t)
           \/ /\ accounts' = accounts
              /\ \A t \in Thread : pc'[t] \in {"wal", "save"} =>
                    /\ pc[t] \in {"wal", "save"}
                    /\ loaded'[t] = loaded[t]
                    /\ txn'[t] = txn[t]
<1> USE DEF TypeInv, DataOK
<1>1. ASSUME NEW t \in Thread, ApplySave(t)
      PROVE  Saves(t, DOMAIN loaded[t])
  BY <1>1 DEF ApplySave, Saves, Writes, Goto
<1>2. ASSUME NEW t \in Thread, SavePrefix(t)
      PROVE  \E S \in SUBSET DOMAIN loaded[t] : Writes(t, S)
  <2>1. PICK a \in DOMAIN loaded[t] :
           accounts' = Saved(t, {b \in DOMAIN loaded[t] : b < a})
    BY <1>2 DEF SavePrefix
  <2> QED
    BY <1>2, <2>1 DEF SavePrefix, Writes
<1>3. ASSUME NEW t \in Thread, SaveFails(t)
      PROVE  \E S \in SUBSET DOMAIN loaded[t] : Saves(t, S)
  BY <1>2, <1>3 DEF SaveFails, Saves, Throw
<1> DEFINE Quiet == /\ accounts' = accounts
                    /\ \A t \in Thread : pc'[t] \in {"wal", "save"} =>
                          /\ pc[t] \in {"wal", "save"}
                          /\ loaded'[t] = loaded[t]
                          /\ txn'[t] = txn[t]
<1>4. ASSUME NEW t \in Thread, NEW x \in Txns, ProcessOne(t, x)
      PROVE  Quiet
  BY <1>4 DEF ProcessOne, Goto
<1>5. ASSUME NEW t \in Thread, NEW a \in AccountId, LockAccount(t, a)
      PROVE  Quiet
  BY <1>5 DEF LockAccount, Goto
<1>6. ASSUME NEW t \in Thread,
             AppendIntent(t) \/ MarkCommitted(t) \/ AppendRecord(t)
      PROVE  Quiet
  BY <1>6 DEF AppendIntent, MarkCommitted, AppendRecord, Goto
<1>7. ASSUME NEW t \in Thread,
             \/ ApplyThrows(t) \/ CallFails(t) \/ MarkCommittedFails(t)
             \/ AuditThrows(t)
      PROVE  Quiet
  BY <1>7 DEF ApplyThrows, CallFails, MarkCommittedFails, AuditThrows, Throw
<1>8. ASSUME NEW t \in Thread,
             AuditCompleted(t) \/ AuditFailed(t) \/ CatchAuditThrows(t)
      PROVE  Quiet
  BY <1>8 DEF AuditCompleted, AuditFailed, CatchAuditThrows, Return
<1>9. CASE CrashRestart
  <2>1. \A t \in Thread : pc'[t] = "idle"
    BY <1>9 DEF CrashRestart
  <2>2. CASE accounts' = accounts
    BY <2>1, <2>2
  <2>3. ASSUME NEW t \in Thread, SavePrefix(t)
        PROVE  \E S \in SUBSET DOMAIN loaded[t] :
                  Writes(t, S) /\ \A u \in Thread : pc'[u] = "idle"
    BY <1>2, <2>1, <2>3
  <2> QED
    BY <1>9, <2>2, <2>3 DEF CrashRestart
<1> QED
  BY <1>1, <1>3, <1>4, <1>5, <1>6, <1>7, <1>8, <1>9 DEF Next, Calls, Advance, Fault

\* What a save writes: on the accounts it reaches, the loaded one after apply,
\* its version one up; elsewhere nothing.
LEMMA SaveMeaning ==
    ASSUME TypeInv, LoadInv, NEW t \in Thread,
           NEW S \in SUBSET DOMAIN loaded[t], Writes(t, S)
    PROVE  /\ \A a \in Opened \ S : accounts'[a] = accounts[a]
           /\ \A a \in S : accounts'[a].version = accounts[a].version + 1
<1>1. /\ txn[t] \in Transaction
      /\ DOMAIN loaded[t] = involved_accounts(txn[t])
      /\ DOMAIN loaded[t] \subseteq Opened
      /\ Opened \subseteq AccountId
      /\ loaded[t] \in [DOMAIN loaded[t] -> Account]
  BY BusyInvolved, InitAccountsAssumption
  DEF Writes, LoadInv, TypeInv, DataOK, Opened
<1>2. \A a \in DOMAIN loaded[t] :
         apply(txn[t], loaded[t])[a].version = loaded[t][a].version + 1
  BY <1>1, ApplyType DEF Writes
<1> QED
  BY <1>1, <1>2 DEF Writes, Saved, LoadInv

LEMMA LoadStep == TypeInv /\ LockInv /\ LoadInv /\ [Next]_vars => LoadInv'
<1> SUFFICES ASSUME TypeInv, LockInv, LoadInv, [Next]_vars PROVE LoadInv'
  OBVIOUS
<1>1. ASSUME NEW t \in Thread, NEW S \in SUBSET DOMAIN loaded[t], Saves(t, S)
      PROVE  LoadInv'
  <2> SUFFICES ASSUME NEW u \in Thread, pc'[u] \in {"wal", "save"}
               PROVE  /\ DOMAIN loaded'[u] = involved_accounts(txn'[u])
                      /\ \A a \in DOMAIN loaded'[u] : loaded'[u][a] = accounts'[a]
    BY DEF LoadInv
  <2>1. u # t /\ pc[u] = pc'[u] /\ loaded'[u] = loaded[u] /\ txn'[u] = txn[u]
    BY <1>1 DEF Saves, Writes, TypeInv, DataOK
  <2>2. /\ DOMAIN loaded[u] = involved_accounts(txn[u])
        /\ DOMAIN loaded[t] = involved_accounts(txn[t])
        /\ \A a \in DOMAIN loaded[u] : loaded[u][a] = accounts[a]
    BY <1>1, <2>1 DEF Saves, Writes, LoadInv
  <2>3. involved_accounts(txn[t]) \cap involved_accounts(txn[u]) = {}
    BY <1>1, <2>1, Disjoint, BusyInvolved DEF Saves, Writes, Holding
  <2>4. DOMAIN loaded[u] \subseteq Opened \ S
    BY <2>2, <2>3 DEF TypeInv, DataOK
  <2>5. \A a \in Opened \ S : accounts'[a] = accounts[a]
    BY <1>1, SaveMeaning DEF Saves
  <2> QED
    BY <2>1, <2>2, <2>4, <2>5
<1>2. ASSUME NEW t \in Thread, Load(t)
      PROVE  LoadInv'
  <2>1. /\ \A u \in Thread \ {t} : pc'[u] = pc[u] /\ loaded'[u] = loaded[u]
        /\ UNCHANGED <<accounts, txn>>
    BY <1>2 DEF Load, Goto, TypeInv, DataOK
  <2>2. /\ loaded'[t] = [a \in involved_accounts(txn[t]) \cap Opened |-> accounts[a]]
        /\ pc'[t] = "wal" => involved_accounts(txn[t]) \subseteq Opened
        /\ pc'[t] # "save"
    BY <1>2 DEF Load, Goto, TypeInv, DataOK
  <2>3. pc'[t] = "wal" => DOMAIN loaded'[t] = involved_accounts(txn[t])
    BY <2>2
  <2>4. \A a \in DOMAIN loaded'[t] : loaded'[t][a] = accounts[a]
    BY <2>2
  <2> SUFFICES ASSUME NEW u \in Thread, pc'[u] \in {"wal", "save"}
               PROVE  /\ DOMAIN loaded'[u] = involved_accounts(txn'[u])
                      /\ \A a \in DOMAIN loaded'[u] : loaded'[u][a] = accounts'[a]
    BY DEF LoadInv
  <2>5. CASE u = t
    BY <2>1, <2>2, <2>3, <2>4, <2>5
  <2>6. CASE u # t
    BY <2>1, <2>6 DEF LoadInv
  <2> QED
    BY <2>5, <2>6
<1>3. CASE /\ accounts' = accounts
           /\ \A t \in Thread : pc'[t] \in {"wal", "save"} =>
                 /\ pc[t] \in {"wal", "save"}
                 /\ loaded'[t] = loaded[t]
                 /\ txn'[t] = txn[t]
  BY <1>3 DEF LoadInv
<1>4. CASE \A t \in Thread : pc'[t] = "idle"
  BY <1>4 DEF LoadInv
<1>5. CASE UNCHANGED vars
  BY <1>5 DEF vars, LoadInv
<1> QED
  BY <1>1, <1>2, <1>3, <1>4, <1>5, AccountSteps

LEMMA LoadInit == Init => LoadInv
BY DEF Init, LoadInv

\* Nobody saves an account between the moment a call reads it and the moment
\* it saves it back.
THEOREM LostUpdateFreedom == Spec => []NoLostUpdate
<1>1. LoadInv => NoLostUpdate
  BY DEF LoadInv, NoLostUpdate
<1> QED
  BY <1>1, TypeInit, TypeStep, LockInit, LockStep, LoadInit, LoadStep, PTL
  DEF Spec

\* Every change of an account bumps its version by exactly one, with every
\* fault and restart.
THEOREM VersionsCountChanges == Spec => VersionStep
<1> DEFINE Bumps == \A a \in Opened : accounts'[a] # accounts[a] =>
                       accounts'[a].version = accounts[a].version + 1
<1>1. TypeInv /\ LoadInv /\ [Next]_vars => [Bumps]_vars
  <2> SUFFICES ASSUME TypeInv, LoadInv, Next PROVE Bumps
    OBVIOUS
  <2>1. ASSUME NEW t \in Thread, NEW S \in SUBSET DOMAIN loaded[t], Writes(t, S)
        PROVE  Bumps
    BY <2>1, SaveMeaning
  <2>2. ASSUME NEW t \in Thread, Load(t)
        PROVE  Bumps
    BY <2>2 DEF Load
  <2> QED
    BY <2>1, <2>2, AccountSteps DEF Saves
<1> QED
  BY <1>1, TypeInit, TypeStep, LockInit, LockStep, LoadInit, LoadStep, PTL
  DEF Spec, VersionStep
=============================================================================
