------------------------ MODULE BankingServiceProofs ------------------------
(***************************************************************************)
(* Theorems about BankingService, for every set of threads, accounts and   *)
(* transactions and every bound: op_mutex makes money and status exclusive *)
(* of each other, so what TransactionProcessorProofs says of the processor *)
(* still holds when freeze and unfreeze change accounts too.               *)
(***************************************************************************)
EXTENDS BankingService, TransactionProcessorProofs

\* op_mutex: whoever is in an operation of the service holds it, and an
\* operation either moves money or changes a status.
OpMutexInv ==
    /\ op_mutex \in Thread \cup {NoThread}
    /\ updated = [t \in Thread |-> updated[t]]
    /\ \A t \in Thread : pc[t] # "idle" => op_mutex = t /\ updated[t] = NoUpdate
    /\ \A t \in Thread : updated[t] # NoUpdate => op_mutex = t

\* A new status that waits to be saved is the stored account with that status:
\* nothing has changed the account since it was read.
FreshUpdate(u) ==
    \E a \in Opened, s \in {"Frozen", "Active"} :
        /\ accounts[a].status \notin {"Closed", s}
        /\ u = [account |-> a, value |-> set_status(accounts[a], s)]

UpdateInv == \A t \in Thread : updated[t] # NoUpdate => FreshUpdate(updated[t])

ServiceInv == TypeInv /\ LockInv /\ LoadInv /\ OpMutexInv /\ UpdateInv

-----------------------------------------------------------------------------
(* The steps of the service are steps of the processor, or of a status.    *)

LEMMA MoneySteps ==
    ASSUME ServiceNext
    PROVE  \/ /\ Next
              /\ \/ \E t \in Thread, x \in Txns : MoneyCall(t, x)
                 \/ \E t \in Thread : MoneyStep(t)
                 \/ Restart
           \/ /\ UNCHANGED vars
              /\ \/ \E t \in Thread, a \in Opened, s \in {"Frozen", "Active"} :
                       ChangeStatus(t, a, s)
                 \/ \E t \in Thread : SaveStatusFails(t)
           \/ \E t \in Thread : SaveStatus(t)
BY DEF ServiceNext, MoneyCall, MoneyStep, ChangeStatus, SaveStatusFails, Restart,
       Next, Calls

LEMMA SetStatusMeaning ==
    ASSUME NEW acct \in Account, NEW s \in AccountStatus
    PROVE  /\ set_status(acct, s) \in Account
           /\ set_status(acct, s).balance = acct.balance
           /\ set_status(acct, s).status = s
           /\ set_status(acct, s).version = acct.version + 1
BY DEF set_status, Account

\* What a status save does to the repository.
LEMMA SaveStatusMeaning ==
    ASSUME ServiceInv, NEW t \in Thread, SaveStatus(t)
    PROVE  \E a \in Opened, s \in AccountStatus :
              /\ accounts' = [accounts EXCEPT ![a] = set_status(accounts[a], s)]
              /\ accounts[a] \in Account
              /\ \A u \in Thread : pc[u] = "idle"
<1>1. updated[t] # NoUpdate /\ op_mutex = t
  BY DEF SaveStatus
<1>2. PICK a \in Opened, s \in {"Frozen", "Active"} :
         updated[t] = [account |-> a, value |-> set_status(accounts[a], s)]
  BY <1>1 DEF ServiceInv, UpdateInv, FreshUpdate
<1>3. accounts' = [accounts EXCEPT ![a] = set_status(accounts[a], s)]
  BY <1>2 DEF SaveStatus
<1>4. \A u \in Thread : pc[u] = "idle"
  BY <1>1 DEF ServiceInv, OpMutexInv
<1>5. accounts[a] \in Account /\ s \in AccountStatus
  BY DEF ServiceInv, TypeInv, DataOK, AccountStatus
<1> QED
  BY <1>2, <1>3, <1>4, <1>5

LEMMA ServiceInitInv == ServiceInit => ServiceInv
<1> SUFFICES ASSUME ServiceInit PROVE ServiceInv
  OBVIOUS
<1>1. TypeInv /\ LockInv /\ LoadInv
  BY TypeInit, LockInit, LoadInit DEF ServiceInit
<1> QED
  BY <1>1 DEF ServiceInit, Init, ServiceInv, OpMutexInv, UpdateInv, NoUpdate

\* The processor's invariant survives the service's own steps.
LEMMA ProcessorStep ==
    ASSUME ServiceInv, [ServiceNext]_allVars
    PROVE  TypeInv' /\ LockInv' /\ LoadInv'
<1>1. CASE [Next]_vars
  BY <1>1, TypeStep, LockStep, LoadStep DEF ServiceInv
<1>2. ASSUME NEW t \in Thread, SaveStatus(t)
      PROVE  TypeInv' /\ LockInv' /\ LoadInv'
  <2>1. PICK a \in Opened, s \in AccountStatus :
           /\ accounts' = [accounts EXCEPT ![a] = set_status(accounts[a], s)]
           /\ accounts[a] \in Account
           /\ \A u \in Thread : pc[u] = "idle"
    BY <1>2, SaveStatusMeaning
  <2>2. accounts' \in [Opened -> Account]
    BY <2>1, SetStatusMeaning DEF ServiceInv, TypeInv, DataOK
  <2>3. UNCHANGED <<wal, records, next_id, next_audit_id, owner, pc, txn, id,
                    loaded, result>>
    BY <1>2 DEF SaveStatus
  <2>4. TypeInv'
    BY <2>2, <2>3 DEF ServiceInv, TypeInv, DataOK, BusyTxn, IdBound
  <2>5. LockInv'
    BY <2>3 DEF ServiceInv, LockInv, Held, Missing
  <2>6. LoadInv'
    BY <2>1, <2>3 DEF LoadInv
  <2> QED
    BY <2>4, <2>5, <2>6
<1> QED
  BY <1>1, <1>2, MoneySteps DEF allVars

\* Which calls a step of the processor touches.
LEMMA OneCall ==
    ASSUME ServiceInv, NEW t \in Thread, MoneyStep(t)
    PROVE  /\ pc[t] # "idle"
           /\ \A u \in Thread \ {t} : pc'[u] = pc[u]
<1>1. Advance(t) \/ Fault(t)
  BY DEF MoneyStep
<1>2. pc[t] # "idle" /\ \E l : pc' = [pc EXCEPT ![t] = l]
  BY <1>1 DEF Advance, Fault, LockAccount, Load, AppendIntent, ApplySave,
              ApplyThrows, SavePrefix, SaveFails, MarkCommitted,
              MarkCommittedFails, AppendRecord, CallFails, AuditCompleted,
              AuditFailed, AuditThrows, CatchAuditThrows, Goto, Throw, Return
<1> QED
  BY <1>2 DEF ServiceInv, TypeInv, DataOK

LEMMA OpMutexStep ==
    ASSUME ServiceInv, [ServiceNext]_allVars
    PROVE  OpMutexInv'
<1> USE DEF ServiceInv
<1>1. pc = [t \in Thread |-> pc[t]]
  BY DEF TypeInv, DataOK
<1>2. ASSUME NEW t \in Thread, NEW x \in Txns, MoneyCall(t, x)
      PROVE  OpMutexInv'
  BY <1>1, <1>2, NoThreadAssumption DEF MoneyCall, ProcessOne, Goto, OpMutexInv
<1>3. ASSUME NEW t \in Thread, MoneyStep(t)
      PROVE  OpMutexInv'
  <2>1. /\ op_mutex = t /\ updated' = updated
        /\ op_mutex' = IF pc'[t] = "idle" THEN NoThread ELSE t
    BY <1>3 DEF MoneyStep
  <2>2. pc[t] # "idle" /\ \A u \in Thread \ {t} : pc'[u] = pc[u]
    BY <1>3, OneCall
  <2> QED
    BY <2>1, <2>2, NoThreadAssumption DEF OpMutexInv
<1>4. ASSUME NEW t \in Thread, NEW a \in Opened, NEW s \in {"Frozen", "Active"},
             ChangeStatus(t, a, s)
      PROVE  OpMutexInv'
  BY <1>1, <1>4, NoThreadAssumption DEF ChangeStatus, OpMutexInv, vars
<1>5. ASSUME NEW t \in Thread, SaveStatus(t) \/ SaveStatusFails(t)
      PROVE  OpMutexInv'
  BY <1>1, <1>5, NoThreadAssumption
  DEF SaveStatus, SaveStatusFails, OpMutexInv, vars
<1>6. CASE Restart
  BY <1>6, NoThreadAssumption DEF Restart, CrashRestart, OpMutexInv
<1>7. CASE UNCHANGED allVars
  BY <1>7 DEF allVars, serviceVars, vars, OpMutexInv
<1> QED
  BY <1>2, <1>3, <1>4, <1>5, <1>6, <1>7 DEF ServiceNext

LEMMA UpdateStep ==
    ASSUME ServiceInv, [ServiceNext]_allVars
    PROVE  UpdateInv'
<1> SUFFICES ASSUME NEW u \in Thread, updated'[u] # NoUpdate
             PROVE  FreshUpdate(updated[u])'
  BY DEF UpdateInv
<1> USE DEF ServiceInv
<1>1. CASE UNCHANGED <<accounts, updated>>
  BY <1>1 DEF UpdateInv, FreshUpdate
<1>2. ASSUME NEW t \in Thread, NEW x \in Txns, MoneyCall(t, x)
      PROVE  UNCHANGED <<accounts, updated>>
  BY <1>2 DEF MoneyCall, ProcessOne
<1>3. ASSUME NEW t \in Thread, MoneyStep(t)
      PROVE  FALSE
  <2>1. op_mutex = t /\ pc[t] # "idle" /\ updated' = updated
    BY <1>3, OneCall DEF MoneyStep
  <2> QED
    BY <2>1 DEF OpMutexInv
<1>4. ASSUME NEW t \in Thread, NEW a \in Opened, NEW s \in {"Frozen", "Active"},
             ChangeStatus(t, a, s)
      PROVE  FreshUpdate(updated[u])'
  <2>1. accounts' = accounts /\ accounts[a].status \notin {"Closed", s}
    BY <1>4 DEF ChangeStatus, vars
  <2>2. u = t /\ updated'[t] = [account |-> a, value |-> set_status(accounts[a], s)]
    BY <1>4, NoThreadAssumption DEF ChangeStatus, OpMutexInv
  <2> QED
    BY <2>1, <2>2 DEF FreshUpdate
<1>5. ASSUME NEW t \in Thread, SaveStatus(t) \/ SaveStatusFails(t)
      PROVE  FALSE
  BY <1>5 DEF SaveStatus, SaveStatusFails, OpMutexInv
<1>6. CASE Restart
  BY <1>6 DEF Restart
<1>7. CASE UNCHANGED allVars
  BY <1>1, <1>7 DEF allVars, serviceVars, vars
<1> QED
  BY <1>1, <1>2, <1>3, <1>4, <1>5, <1>6, <1>7 DEF ServiceNext

LEMMA ServiceStep == ServiceInv /\ [ServiceNext]_allVars => ServiceInv'
BY ProcessorStep, OpMutexStep, UpdateStep DEF ServiceInv

-----------------------------------------------------------------------------
(* Money and status.                                                       *)

\* The record of a call says what apply does to each balance; apply leaves
\* the status alone and touches active accounts only.
LEMMA ApplyEffect ==
    ASSUME NEW x \in Transaction, NEW S \in SUBSET AccountId,
           NEW accts \in [S -> Account], ~apply_throws(x, accts),
           NEW a \in involved_accounts(x), NEW r,
           r.from = debit_account(x), r.to = credit_account(x), r.amount = x.amount
    PROVE  /\ a \in S
           /\ accts[a].status = "Active"
           /\ apply(x, accts)[a].status = "Active"
           /\ apply(x, accts)[a].balance = accts[a].balance + Effect(r, a)
<1> DEFINE d == debit_account(x)  c == credit_account(x)
<1>1. validate(x, accts)
  BY DEF apply_throws
<1>2. /\ a \in S /\ a \in {d, c} /\ d # c
      /\ x.amount \in Nat /\ x.amount # 0
  <2>1. x.amount \in Nat
    BY AmountType, MaxCentsAssumption DEF Money
  <2> QED
    BY <1>1, <2>1, ValidateMeaning DEF involved_accounts
<1>3. accts[a].status = "Active"
  <2> USE <1>1, <1>2 DEF validate, debit_account, credit_account, can_withdraw
  <2>1. CASE x \in Deposit
    BY <2>1, NoAccountAssumption DEF Deposit
  <2>2. CASE x \in Withdraw
    BY <2>2, NoAccountAssumption DEF Withdraw
  <2>3. CASE x \in Transfer
    BY <2>3 DEF Transfer
  <2> QED
    BY <2>1, <2>2, <2>3 DEF Transaction
<1>4. accts[a] \in Account /\ accts[a].balance \in Int
  BY <1>2, MaxCentsAssumption DEF Account, Money
<1>5. CASE a = d
  <2>1. apply(x, accts)[a] = withdraw(accts[a], x.amount)
    BY <1>2, <1>5 DEF apply
  <2>2. Effect(r, a) = -x.amount
    BY <1>2, <1>5 DEF Effect
  <2> QED
    BY <1>2, <1>3, <1>4, <2>1, <2>2 DEF withdraw
<1>6. CASE a = c
  <2>1. apply(x, accts)[a] = deposit(accts[a], x.amount)
    BY <1>2, <1>6 DEF apply
  <2>2. Effect(r, a) = x.amount
    BY <1>2, <1>6 DEF Effect
  <2> QED
    BY <1>2, <1>3, <1>4, <2>1, <2>2 DEF deposit
<1> QED
  BY <1>2, <1>5, <1>6

\* What a save of a call does to the accounts it reaches.
LEMMA MoneyMeaning ==
    ASSUME TypeInv, LoadInv, NEW t \in Thread,
           NEW S \in SUBSET DOMAIN loaded[t], Writes(t, S), NEW a \in S
    PROVE  /\ accounts[a].status = "Active"
           /\ accounts'[a].status = "Active"
           /\ accounts'[a].balance
                 = accounts[a].balance + Effect(CallRecord(t, "Committed"), a)
<1>1. /\ txn[t] \in Transaction
      /\ DOMAIN loaded[t] = involved_accounts(txn[t])
      /\ DOMAIN loaded[t] \subseteq Opened
      /\ Opened \subseteq AccountId
      /\ loaded[t] \in [DOMAIN loaded[t] -> Account]
  BY BusyInvolved, InitAccountsAssumption
  DEF Writes, LoadInv, TypeInv, DataOK, Opened
<1>2. /\ loaded[t][a] = accounts[a]
      /\ accounts'[a] = apply(txn[t], loaded[t])[a]
  BY <1>1 DEF Writes, LoadInv, Saved
<1> DEFINE r == CallRecord(t, "Committed")
<1>3. /\ r.from = debit_account(txn[t])
      /\ r.to = credit_account(txn[t])
      /\ r.amount = txn[t].amount
  BY DEF CallRecord, project_transaction
<1> HIDE DEF r
<1>4. ~apply_throws(txn[t], loaded[t])
  BY DEF Writes
<1>5. /\ loaded[t][a].status = "Active"
      /\ apply(txn[t], loaded[t])[a].status = "Active"
      /\ apply(txn[t], loaded[t])[a].balance = loaded[t][a].balance + Effect(r, a)
  BY <1>1, <1>3, <1>4, ApplyEffect
<1> QED
  BY <1>2, <1>5 DEF r

\* Every way an account can change: money moves on an active account, or the
\* status changes; one version each.
LEMMA AccountChange ==
    ASSUME ServiceInv, [ServiceNext]_allVars, NEW a \in Opened,
           accounts'[a] # accounts[a]
    PROVE  /\ accounts'[a].version = accounts[a].version + 1
           /\ \/ /\ accounts[a].status = "Active"
                 /\ accounts'[a].status = "Active"
              \/ accounts'[a].balance = accounts[a].balance
<1> USE DEF ServiceInv
<1>1. ASSUME NEW t \in Thread, NEW S \in SUBSET DOMAIN loaded[t], Writes(t, S)
      PROVE  /\ accounts'[a].version = accounts[a].version + 1
             /\ accounts[a].status = "Active"
             /\ accounts'[a].status = "Active"
  <2>1. a \in S
    BY <1>1, SaveMeaning
  <2> QED
    BY <1>1, <2>1, SaveMeaning, MoneyMeaning
<1>2. ASSUME NEW t \in Thread, Load(t)
      PROVE  FALSE
  BY <1>2 DEF Load
<1>3. CASE Next
  BY <1>1, <1>2, <1>3, AccountSteps DEF Saves
<1>4. ASSUME NEW t \in Thread, SaveStatus(t)
      PROVE  /\ accounts'[a].version = accounts[a].version + 1
             /\ accounts'[a].balance = accounts[a].balance
  <2>1. PICK b \in Opened, s \in AccountStatus :
           /\ accounts' = [accounts EXCEPT ![b] = set_status(accounts[b], s)]
           /\ accounts[b] \in Account
    BY <1>4, SaveStatusMeaning
  <2>2. accounts \in [Opened -> Account]
    BY DEF TypeInv, DataOK
  <2>3. a = b /\ accounts'[a] = set_status(accounts[a], s)
    BY <2>1, <2>2
  <2> QED
    BY <2>1, <2>3, SetStatusMeaning
<1> QED
  BY <1>3, <1>4, MoneySteps DEF allVars, vars

\* A frozen or closed account keeps its balance whatever runs at the same
\* time: calls that were validated before a freeze are over when it begins.
THEOREM FrozenAccountsKeepBalance == ServiceSpec => FrozenKeepsBalance
<1> DEFINE Keeps == \A a \in Opened : accounts[a].status # "Active" =>
                       accounts'[a].balance = accounts[a].balance
<1>1. ServiceInv /\ [ServiceNext]_allVars => [Keeps]_allVars
  BY AccountChange
<1> QED
  BY <1>1, ServiceInitInv, ServiceStep, PTL DEF ServiceSpec, FrozenKeepsBalance

\* Neither a payment nor a freeze is lost to the other: each change of an
\* account is one version, of its money or of its status.
THEOREM ServiceVersionsCountChanges == ServiceSpec => ServiceVersionStep
<1> DEFINE Bumps == \A a \in Opened : accounts'[a] # accounts[a] =>
                       /\ accounts'[a].version = accounts[a].version + 1
                       /\ \/ accounts'[a].status = accounts[a].status
                          \/ accounts'[a].balance = accounts[a].balance
<1>1. ServiceInv /\ [ServiceNext]_allVars => [Bumps]_allVars
  BY AccountChange
<1> QED
  BY <1>1, ServiceInitInv, ServiceStep, PTL DEF ServiceSpec, ServiceVersionStep

-----------------------------------------------------------------------------
(* The balance a history adds up to.                                       *)

\* Induction over the natural numbers, for a set of them.
Below == OpToRel(<, Nat)

LEMMA SetInduction ==
    ASSUME NEW K, 0 \in K, \A n \in Nat : n \in K => n + 1 \in K
    PROVE  \A n \in Nat : n \in K
<1> DEFINE Rest == Nat \ K
<1>1. SUFFICES ASSUME Rest # {} PROVE FALSE
  OBVIOUS
<1>2. \A x, y \in Nat : <<x, y>> \in Below <=> x < y
  BY DEF Below, OpToRel
<1>3. IsWellFoundedOn(Below, Nat)
  BY NatLessThanWellFounded DEF Below
<1>4. \E x \in Rest : \A y \in Rest : ~(<<y, x>> \in Below)
  BY <1>1, <1>3, WFMin
<1>5. PICK x \in Rest : \A y \in Rest : ~(<<y, x>> \in Below)
  BY <1>4
<1>6. x \in Nat /\ x \notin K /\ x # 0
  OBVIOUS
<1>7. x - 1 \in Nat /\ x - 1 < x /\ x = (x - 1) + 1
  BY <1>6
<1>8. x - 1 \notin Rest
  BY <1>2, <1>5, <1>6, <1>7
<1> QED
  BY <1>6, <1>7, <1>8

\* f gives the balances of a along the history s.
IsHistory(f, s, a) ==
    f = [n \in 0..Len(s) |-> IF n = 0 THEN InitAccounts[a].balance
                             ELSE f[n - 1] + Effect(s[n], a)]

LEMMA OpeningBalance ==
    ASSUME NEW a \in Opened
    PROVE  InitAccounts[a].balance \in Int
<1>1. InitAccounts[a] \in Account
  BY InitAccountsAssumption DEF Opened
<1> QED
  BY <1>1, MaxCentsAssumption DEF Account, Money

LEMMA EffectType ==
    ASSUME NEW r \in TransactionRecord, NEW a
    PROVE  Effect(r, a) \in Int
<1>1. r.amount \in Int
  BY MaxCentsAssumption DEF TransactionRecord, Money
<1> QED
  BY <1>1 DEF Effect

\* Every history has its balances.
LEMMA HistoryExists ==
    ASSUME NEW s \in Seq(TransactionRecord), NEW a \in Opened
    PROVE  \E f \in [0..Len(s) -> Int] : IsHistory(f, s, a)
<1> DEFINE open == InitAccounts[a].balance
           Along(f, k) == /\ f[0] = open
                          /\ \A n \in 1..k : f[n] = f[n - 1] + Effect(s[n], a)
           Good(k) == \E f \in [0..k -> Int] : Along(f, k)
           K == {k \in Nat : k <= Len(s) => Good(k)}
<1>1. Len(s) \in Nat /\ open \in Int
  BY OpeningBalance
<1>2. \A n \in 1..Len(s) : Effect(s[n], a) \in Int
  BY EffectType
<1>3. 0 \in K
  <2>1. [n \in 0..0 |-> open] \in [0..0 -> Int] /\ Along([n \in 0..0 |-> open], 0)
    BY <1>1
  <2> QED
    BY <2>1
<1>4. ASSUME NEW k \in Nat, k \in K PROVE k + 1 \in K
  <2> SUFFICES ASSUME k + 1 <= Len(s) PROVE Good(k + 1)
    <3> HIDE DEF Good
    <3> QED
      OBVIOUS
  <2>0. Good(k)
    <3> HIDE DEF Good
    <3> QED
      BY <1>1, <1>4
  <2>1. PICK f \in [0..k -> Int] : Along(f, k)
    BY <2>0
  <2> DEFINE g == [n \in 0..(k + 1) |-> IF n = k + 1 THEN f[k] + Effect(s[k + 1], a)
                                        ELSE f[n]]
  <2>2. Effect(s[k + 1], a) \in Int
    BY <1>1, <1>2
  <2>3. g \in [0..(k + 1) -> Int]
    BY <2>2
  <2>4. g[0] = open /\ g[k + 1] = g[k] + Effect(s[k + 1], a)
    BY <2>1
  <2>5. \A n \in 1..k : g[n] = g[n - 1] + Effect(s[n], a)
    BY <2>1
  <2>6. \A n \in 1..(k + 1) : n \in 1..k \/ n = k + 1
    OBVIOUS
  <2>7. (k + 1) - 1 = k
    OBVIOUS
  <2> HIDE DEF g
  <2>8. Along(g, k + 1)
    BY <2>4, <2>5, <2>6, <2>7
  <2> QED
    BY <2>3, <2>8
<1>5. Len(s) \in K
  <2> HIDE DEF K
  <2> QED
    BY <1>1, <1>3, <1>4, SetInduction
<1>6. PICK f \in [0..Len(s) -> Int] : Along(f, Len(s))
  <2>1. Good(Len(s))
    <3> HIDE DEF Good
    <3> QED
      BY <1>1, <1>5
  <2> QED
    BY <2>1
<1>7. IsHistory(f, s, a)
  <2>1. \A n \in 0..Len(s) : f[n] = IF n = 0 THEN open ELSE f[n - 1] + Effect(s[n], a)
    BY <1>1, <1>6
  <2> QED
    BY <2>1 DEF IsHistory
<1> QED
  BY <1>7

\* They are integers.
LEMMA HistoryType ==
    ASSUME NEW s \in Seq(TransactionRecord), NEW a \in Opened,
           NEW f, IsHistory(f, s, a)
    PROVE  f \in [0..Len(s) -> Int]
<1> DEFINE open == InitAccounts[a].balance
           K == {k \in Nat : k <= Len(s) => f[k] \in Int}
<1>1. /\ Len(s) \in Nat /\ open \in Int
      /\ \A n \in 1..Len(s) : Effect(s[n], a) \in Int
  BY OpeningBalance, EffectType
<1>2. \A n \in 0..Len(s) : f[n] = IF n = 0 THEN open ELSE f[n - 1] + Effect(s[n], a)
  BY DEF IsHistory
<1>3. 0 \in K
  BY <1>1, <1>2
<1>4. ASSUME NEW k \in Nat, k \in K PROVE k + 1 \in K
  <2> SUFFICES ASSUME k + 1 <= Len(s) PROVE f[k + 1] \in Int
    OBVIOUS
  <2>1. f[k] \in Int /\ k + 1 \in 0..Len(s) /\ k + 1 # 0
        /\ (k + 1) - 1 = k /\ k + 1 \in 1..Len(s)
    BY <1>1, <1>4
  <2> QED
    BY <1>1, <1>2, <2>1
<1>5. \A n \in Nat : n \in K
  <2> HIDE DEF K
  <2> QED
    BY <1>3, <1>4, SetInduction
<1>6. \A n \in 0..Len(s) : f[n] \in Int
  BY <1>1, <1>5
<1> QED
  BY <1>6 DEF IsHistory

\* One more record adds its effect and changes no earlier balance.
LEMMA HistoryGrows ==
    ASSUME NEW s \in Seq(TransactionRecord), NEW e \in TransactionRecord, NEW a,
           NEW f, IsHistory(f, s, a), NEW g, IsHistory(g, Append(s, e), a)
    PROVE  g[Len(s) + 1] = f[Len(s)] + Effect(e, a)
<1> DEFINE open == InitAccounts[a].balance
           K == {k \in Nat : k <= Len(s) => f[k] = g[k]}
           w == Append(s, e)
<1>1. /\ Len(s) \in Nat /\ Len(w) = Len(s) + 1 /\ w[Len(s) + 1] = e
      /\ \A n \in 1..Len(s) : w[n] = s[n]
  OBVIOUS
<1> HIDE DEF w
<1>2. \A n \in 0..Len(s) : f[n] = IF n = 0 THEN open ELSE f[n - 1] + Effect(s[n], a)
  BY DEF IsHistory
<1>3. \A n \in 0..Len(w) : g[n] = IF n = 0 THEN open ELSE g[n - 1] + Effect(w[n], a)
  BY DEF IsHistory, w
<1>4. 0 \in K
  BY <1>1, <1>2, <1>3
<1>5. ASSUME NEW k \in Nat, k \in K PROVE k + 1 \in K
  <2> SUFFICES ASSUME k + 1 <= Len(s) PROVE f[k + 1] = g[k + 1]
    OBVIOUS
  <2>1. f[k] = g[k] /\ k + 1 \in 0..Len(s) /\ k + 1 \in 0..Len(w) /\ k + 1 # 0
        /\ (k + 1) - 1 = k /\ k + 1 \in 1..Len(s)
    BY <1>1, <1>5
  <2> QED
    BY <1>1, <1>2, <1>3, <2>1
<1>6. f[Len(s)] = g[Len(s)]
  <2>1. Len(s) \in K
    <3> HIDE DEF K
    <3> QED
      BY <1>1, <1>4, <1>5, SetInduction
  <2> QED
    BY <1>1, <2>1
<1> QED
  BY <1>1, <1>3, <1>6

\* What FromHistory computes, as far as the proofs need it.
LEMMA FromHistoryMeaning ==
    ASSUME records \in Seq(TransactionRecord), NEW a \in Opened
    PROVE  \E f \in [0..Len(records) -> Int] :
              IsHistory(f, records, a) /\ FromHistory(a) = f[Len(records)]
<1> DEFINE g == CHOOSE f : IsHistory(f, records, a)
<1>1. FromHistory(a) = g[Len(records)]
  BY DEF FromHistory, IsHistory
<1>2. IsHistory(g, records, a)
  BY HistoryExists
<1> QED
  BY <1>1, <1>2, HistoryType

LEMMA FromHistoryType ==
    ASSUME TypeInv, NEW a \in Opened
    PROVE  FromHistory(a) \in Int
<1>1. records \in Seq(TransactionRecord)
  BY DEF TypeInv, DataOK
<1>2. PICK f \in [0..Len(records) -> Int] : FromHistory(a) = f[Len(records)]
  BY <1>1, FromHistoryMeaning
<1>3. Len(records) \in 0..Len(records)
  BY <1>1
<1> QED
  BY <1>2, <1>3

\* The effect of one more record.
LEMMA FromHistoryGrows ==
    ASSUME TypeInv, TypeInv', NEW e \in TransactionRecord,
           records' = Append(records, e), NEW a \in Opened
    PROVE  FromHistory(a)' = FromHistory(a) + Effect(e, a)
<1>1. records \in Seq(TransactionRecord) /\ Append(records, e) \in Seq(TransactionRecord)
  BY DEF TypeInv, DataOK
<1>2. Len(Append(records, e)) = Len(records) + 1
  BY <1>1
<1>3. PICK f : IsHistory(f, records, a) /\ FromHistory(a) = f[Len(records)]
  BY <1>1, FromHistoryMeaning
<1>4. PICK g : IsHistory(g, records', a) /\ FromHistory(a)' = g[Len(records')]
  <2> DEFINE h == CHOOSE g : IsHistory(g, records', a)
  <2>1. FromHistory(a)' = h[Len(records')]
    BY DEF FromHistory, IsHistory
  <2>2. records' \in Seq(TransactionRecord)
    BY <1>1
  <2>3. IsHistory(h, records', a)
    BY <2>2, HistoryExists
  <2> QED
    BY <2>1, <2>3
<1>5. IsHistory(g, Append(records, e), a) /\ FromHistory(a)' = g[Len(records) + 1]
  BY <1>2, <1>4
<1> QED
  BY <1>1, <1>3, <1>5, HistoryGrows

-----------------------------------------------------------------------------
(* Balances and histories.                                                 *)

\* Between its save and its record, a call is ahead of the history by itself.
HistoryInv ==
    /\ (\A t \in Thread : pc[t] \notin {"commit", "record"}) =>
          \A a \in Opened : accounts[a].balance = FromHistory(a)
    /\ \A t \in Thread : pc[t] \in {"commit", "record"} =>
          \A a \in Opened :
             accounts[a].balance
                = FromHistory(a) + Effect(CallRecord(t, "Committed"), a)

\* What the documents assume and the code cannot undo: a save, a marker or a
\* record that is refused leaves balances its history does not explain.
SavesAreRecorded == Faults \cap {"save", "commit", "record"} = {}

LEMMA HistoryInit == ServiceInit => HistoryInv
<1> SUFFICES ASSUME ServiceInit PROVE HistoryInv
  OBVIOUS
<1>1. accounts = InitAccounts /\ records = <<>> /\ \A t \in Thread : pc[t] = "idle"
  BY DEF ServiceInit, Init
<1>2. ASSUME NEW a \in Opened PROVE FromHistory(a) = InitAccounts[a].balance
  <2>1. records \in Seq(TransactionRecord) /\ Len(records) = 0
    BY <1>1
  <2>2. PICK f : IsHistory(f, records, a) /\ FromHistory(a) = f[0]
    BY <2>1, FromHistoryMeaning
  <2> QED
    BY <2>1, <2>2 DEF IsHistory
<1> QED
  BY <1>1, <1>2 DEF HistoryInv

\* A step that leaves balances, history and the calls about to be recorded
\* alone.
LEMMA HistoryUndisturbed ==
    ASSUME HistoryInv, records' = records,
           \A a \in Opened : accounts'[a].balance = accounts[a].balance,
           \A t \in Thread : /\ pc[t] \in {"commit", "record"}
                                <=> pc'[t] \in {"commit", "record"}
                             /\ pc[t] \in {"commit", "record"} =>
                                   txn'[t] = txn[t] /\ id'[t] = id[t]
    PROVE  HistoryInv'
<1>1. \A a : FromHistory(a)' = FromHistory(a)
  BY DEF FromHistory
<1>2. \A t \in Thread : pc'[t] \in {"commit", "record"} =>
         CallRecord(t, "Committed")' = CallRecord(t, "Committed")
  BY DEF CallRecord
<1> QED
  BY <1>1, <1>2 DEF HistoryInv

\* The save puts the call ahead of the history by its own effect ...
LEMMA HistorySave ==
    ASSUME ServiceInv, HistoryInv, NEW t \in Thread, op_mutex = t, ApplySave(t)
    PROVE  HistoryInv'
<1> USE DEF ServiceInv
<1> DEFINE r == CallRecord(t, "Committed")
<1>1. /\ pc[t] = "save" /\ records' = records
      /\ pc' = [pc EXCEPT ![t] = "commit"]
      /\ Writes(t, DOMAIN loaded[t])
      /\ CallRecord(t, "Committed")' = r
  BY DEF ApplySave, Goto, Writes, CallRecord
<1>2. \A u \in Thread : u # t => pc[u] = "idle"
  BY DEF OpMutexInv
<1>3. pc'[t] = "commit" /\ \A u \in Thread : u # t => pc'[u] = "idle"
  BY <1>1, <1>2 DEF TypeInv, DataOK
<1>4. ASSUME NEW a \in Opened
      PROVE  accounts'[a].balance = FromHistory(a)' + Effect(r, a)
  <2>1. accounts[a].balance = FromHistory(a) /\ FromHistory(a)' = FromHistory(a)
    BY <1>1, <1>2 DEF HistoryInv, FromHistory
  <2>2. CASE a \in DOMAIN loaded[t]
    <3>1. accounts'[a].balance = accounts[a].balance + Effect(r, a)
      BY <1>1, <2>2, MoneyMeaning
    <3> QED
      BY <2>1, <3>1
  <2>3. CASE a \notin DOMAIN loaded[t]
    <3>1. accounts'[a] = accounts[a]
      BY <1>1, <2>3, SaveMeaning
    <3>2. a \notin involved_accounts(txn[t]) /\ a # NoAccount
      BY <1>1, <2>3, NoAccountAssumption, InitAccountsAssumption
      DEF LoadInv, Opened
    <3>3. r.from = debit_account(txn[t]) /\ r.to = credit_account(txn[t])
      BY DEF CallRecord, project_transaction
    <3>4. Effect(r, a) = 0
      BY <3>2, <3>3 DEF Effect, involved_accounts
    <3>5. FromHistory(a) \in Int
      BY FromHistoryType
    <3> QED
      BY <2>1, <3>1, <3>4, <3>5
  <2> QED
    BY <2>2, <2>3
<1> QED
  BY <1>1, <1>3, <1>4 DEF HistoryInv

\* ... and its record lets the history catch up.
LEMMA HistoryRecord ==
    ASSUME ServiceInv, TypeInv', HistoryInv, NEW t \in Thread, op_mutex = t,
           AppendRecord(t)
    PROVE  HistoryInv'
<1> USE DEF ServiceInv
<1> DEFINE r == CallRecord(t, "Committed")
<1>1. /\ pc[t] = "record" /\ accounts' = accounts
      /\ pc' = [pc EXCEPT ![t] = "audit_ok"]
      /\ records' = Append(records, r)
  BY DEF AppendRecord, Goto, Recorded, CallRecord
<1>2. \A u \in Thread : u # t => pc[u] = "idle"
  BY DEF OpMutexInv
<1>3. \A u \in Thread : pc'[u] \notin {"commit", "record"}
  BY <1>1, <1>2 DEF TypeInv, DataOK
<1>4. r \in TransactionRecord
  BY <1>1, CallRecordMeaning DEF TransactionState
<1> HIDE DEF r
<1>5. \A a \in Opened : FromHistory(a)' = FromHistory(a) + Effect(r, a)
  BY <1>1, <1>4, FromHistoryGrows
<1>6. \A a \in Opened : accounts[a].balance = FromHistory(a) + Effect(r, a)
  BY <1>1 DEF HistoryInv, r
<1> QED
  BY <1>1, <1>3, <1>5, <1>6 DEF HistoryInv

\* The steps of a call that neither save nor record.
LEMMA HistoryOther ==
    ASSUME ServiceInv, HistoryInv, SavesAreRecorded, NEW t \in Thread,
           Advance(t) \/ Fault(t), ~ApplySave(t), ~AppendRecord(t)
    PROVE  HistoryInv'
<1> USE DEF ServiceInv
<1> DEFINE Aside == /\ UNCHANGED <<accounts, records, txn, id>>
                    /\ \E l \in Label : /\ pc' = [pc EXCEPT ![t] = l]
                                        /\ (pc[t] \in {"commit", "record"}
                                              <=> l \in {"commit", "record"})
<1>1. Aside
  <2>1. ASSUME NEW a \in AccountId, LockAccount(t, a)
        PROVE  Aside
    BY <2>1 DEF LockAccount, Goto, Label
  <2>2. CASE Load(t)
    BY <2>2 DEF Load, Goto, Label
  <2>3. CASE AppendIntent(t) \/ MarkCommitted(t)
    BY <2>3 DEF AppendIntent, MarkCommitted, Goto, Label
  <2>4. CASE ApplyThrows(t) \/ AuditThrows(t) \/ CallFails(t)
    BY <2>4 DEF ApplyThrows, AuditThrows, CallFails, Throw, Label, SavesAreRecorded
  <2>5. CASE AuditCompleted(t) \/ AuditFailed(t) \/ CatchAuditThrows(t)
    BY <2>5 DEF AuditCompleted, AuditFailed, CatchAuditThrows, Return, Label
  <2>6. ~SaveFails(t) /\ ~MarkCommittedFails(t)
    BY DEF SaveFails, MarkCommittedFails, SavesAreRecorded
  <2> QED
    BY <2>1, <2>2, <2>3, <2>4, <2>5, <2>6 DEF Advance, Fault
<1>2. \A u \in Thread : pc[u] \in {"commit", "record"}
                           <=> pc'[u] \in {"commit", "record"}
  <2>1. PICK l \in Label : /\ pc' = [pc EXCEPT ![t] = l]
                           /\ (pc[t] \in {"commit", "record"}
                                 <=> l \in {"commit", "record"})
    BY <1>1
  <2>2. pc \in [Thread -> Label]
    BY DEF TypeInv, DataOK
  <2> HIDE DEF Aside
  <2>3. pc'[t] = l /\ \A u \in Thread : u # t => pc'[u] = pc[u]
    BY <2>1, <2>2
  <2> QED
    BY <2>1, <2>3
<1> QED
  BY <1>1, <1>2, HistoryUndisturbed

LEMMA HistoryStep ==
    ServiceInv /\ HistoryInv /\ SavesAreRecorded /\ [ServiceNext]_allVars
        => HistoryInv'
<1> SUFFICES ASSUME ServiceInv, HistoryInv, SavesAreRecorded, [ServiceNext]_allVars
             PROVE  HistoryInv'
  OBVIOUS
<1>1. CASE UNCHANGED vars
  BY <1>1, HistoryUndisturbed DEF vars
<1>2. ASSUME NEW t \in Thread, NEW x \in Txns, MoneyCall(t, x)
      PROVE  HistoryInv'
  <2>1. /\ pc[t] = "idle" /\ pc' = [pc EXCEPT ![t] = "lock"]
        /\ txn' = [txn EXCEPT ![t] = x] /\ id' = [id EXCEPT ![t] = next_id]
        /\ UNCHANGED <<accounts, records>>
    BY <1>2 DEF MoneyCall, ProcessOne, Goto
  <2>2. pc = [u \in Thread |-> pc[u]] /\ txn = [u \in Thread |-> txn[u]]
        /\ id = [u \in Thread |-> id[u]]
    BY DEF ServiceInv, TypeInv, DataOK
  <2>3. pc'[t] = "lock" /\ \A u \in Thread \ {t} :
           pc'[u] = pc[u] /\ txn'[u] = txn[u] /\ id'[u] = id[u]
    BY <2>1, <2>2
  <2> QED
    BY <2>1, <2>3, HistoryUndisturbed
<1>3. ASSUME NEW t \in Thread, MoneyStep(t)
      PROVE  HistoryInv'
  BY <1>3, HistorySave, HistoryRecord, HistoryOther, ProcessorStep DEF MoneyStep
<1>4. CASE Restart
  BY <1>4, HistoryUndisturbed DEF Restart, CrashRestart
<1>5. ASSUME NEW t \in Thread, SaveStatus(t)
      PROVE  HistoryInv'
  <2>1. PICK a \in Opened, s \in AccountStatus :
           /\ accounts' = [accounts EXCEPT ![a] = set_status(accounts[a], s)]
           /\ accounts[a] \in Account
    BY <1>5, SaveStatusMeaning
  <2>2. accounts \in [Opened -> Account]
    BY DEF ServiceInv, TypeInv, DataOK
  <2>3. \A b \in Opened : accounts'[b].balance = accounts[b].balance
    BY <2>1, <2>2, SetStatusMeaning
  <2>4. UNCHANGED <<records, pc, txn, id>>
    BY <1>5 DEF SaveStatus
  <2> QED
    BY <2>3, <2>4, HistoryUndisturbed
<1> QED
  BY <1>1, <1>2, <1>3, <1>4, <1>5, MoneySteps DEF allVars

\* balance() and history() agree whenever op_mutex is free, for any number of
\* operations, freezes and restarts, as long as what is saved is recorded.
THEOREM BalancesMatchHistories ==
    ASSUME SavesAreRecorded
    PROVE  ServiceSpec => []BalanceMatchesHistory
<1>1. ServiceInv /\ HistoryInv => BalanceMatchesHistory
  BY NoThreadAssumption DEF ServiceInv, OpMutexInv, HistoryInv, BalanceMatchesHistory
<1>2. ServiceInv /\ HistoryInv /\ [ServiceNext]_allVars => HistoryInv'
  BY HistoryStep
<1> QED
  BY <1>1, <1>2, ServiceInitInv, ServiceStep, HistoryInit, PTL DEF ServiceSpec
=============================================================================
