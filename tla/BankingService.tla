--------------------------- MODULE BankingService ---------------------------
(***************************************************************************)
(* BankingService over the processor: op_mutex_ around every operation,    *)
(* process_one for money, and freeze/unfreeze, which read, change and save *)
(* an account with neither its account mutex nor repos_mutex_.             *)
(*                                                                         *)
(* Every thread here calls the service: the deployment the documents ask   *)
(* for, with BankingService the only writer.  balance() and history() take *)
(* op_mutex_, read and change nothing: BalanceMatchesHistory says what     *)
(* they can see.                                                           *)
(***************************************************************************)
EXTENDS TransactionProcessor

CONSTANTS
    ServiceAuditBase,  \* first id of audit_detail::append, 10^15 in the code
    StatusFaults,      \* which calls of freeze and unfreeze may throw
    MaxVersion         \* bound: versions at which a status may still change

ASSUME ServiceAssumption ==
    /\ ServiceAuditBase \in Nat /\ MaxVersion \in Nat
    /\ StatusFaults \subseteq {"save", "audit"}

VARIABLES
    op_mutex,               \* who holds op_mutex_
    updated,                \* the local `updated' of freeze and unfreeze
    next_service_audit_id   \* AuditService.cpp: next_audit_id

serviceVars == <<op_mutex, updated, next_service_audit_id>>

allVars == <<vars, serviceVars>>

NoUpdate == [account |-> NoAccount]

ServiceInit ==
    /\ Init
    /\ op_mutex = NoThread
    /\ updated = [t \in Thread |-> NoUpdate]
    /\ next_service_audit_id = ServiceAuditBase

\* deposit, withdraw, transfer: op_mutex_ is held until process_one is over.
MoneyCall(t, x) ==
    /\ op_mutex = NoThread
    /\ op_mutex' = t
    /\ ProcessOne(t, x)
    /\ UNCHANGED <<updated, next_service_audit_id>>

MoneyStep(t) ==
    /\ op_mutex = t
    /\ Advance(t) \/ Fault(t)
    /\ op_mutex' = IF pc'[t] = "idle" THEN NoThread ELSE t
    /\ UNCHANGED <<updated, next_service_audit_id>>

\* Mutant of set_status: the version is not bumped.
set_status_unversioned(acct, s) == [acct EXCEPT !.status = s]

\* Account::set_status of another status.
set_status(acct, s) ==
    [balance |-> acct.balance, status |-> s, version |-> acct.version + 1]

\* freeze (s = Frozen) and unfreeze (s = Active), up to the save.  Missing,
\* closed and already settled accounts return here and change nothing.
ChangeStatus(t, a, s) ==
    /\ op_mutex = NoThread
    /\ accounts[a].status \notin {"Closed", s}
    /\ accounts[a].version < MaxVersion
    /\ op_mutex' = t
    /\ updated' = [updated EXCEPT
                     ![t] = [account |-> a, value |-> set_status(accounts[a], s)]]
    /\ UNCHANGED <<vars, next_service_audit_id>>

StatusAction(s) == IF s = "Frozen" THEN "account.frozen" ELSE "account.unfrozen"

\* audit_detail::append: SQLite refuses an id the log has, the callers ignore
\* any failure.
append_service_audit(action) ==
    /\ next_service_audit_id' = next_service_audit_id + 1
    /\ \/ /\ \A e \in audit : e.id # next_service_audit_id
          /\ audit' = audit \cup {[id |-> next_service_audit_id, action |-> action]}
       \/ /\ \/ "audit" \in StatusFaults
             \/ \E e \in audit : e.id = next_service_audit_id
          /\ audit' = audit

\* accounts_.save(updated), then the best-effort audit entry.
SaveStatus(t) ==
    LET u == updated[t]
    IN  /\ op_mutex = t
        /\ u # NoUpdate
        /\ accounts' = [accounts EXCEPT ![u.account] = u.value]
        /\ append_service_audit(StatusAction(u.value.status))
        /\ updated' = [updated EXCEPT ![t] = NoUpdate]
        /\ op_mutex' = NoThread
        /\ UNCHANGED <<wal, records, next_id, next_audit_id, owner, pc, txn, id,
                       loaded, result>>

\* accounts_.save throws: the call fails and nothing is audited.
SaveStatusFails(t) ==
    /\ "save" \in StatusFaults
    /\ op_mutex = t
    /\ updated[t] # NoUpdate
    /\ updated' = [updated EXCEPT ![t] = NoUpdate]
    /\ op_mutex' = NoThread
    /\ UNCHANGED <<vars, next_service_audit_id>>

\* The process dies, but not between a save and the record of it, and the
\* service starts again; both audit counters start where they always do.
Restart ==
    /\ \A t \in Thread : pc[t] \notin {"commit", "record"}
    /\ CrashRestart
    /\ accounts' = accounts
    /\ op_mutex' = NoThread
    /\ updated' = [t \in Thread |-> NoUpdate]
    /\ next_service_audit_id' = ServiceAuditBase

ServiceNext ==
    \/ \E t \in Thread :
          \/ \E x \in Txns : MoneyCall(t, x)
          \/ MoneyStep(t)
          \/ \E a \in Opened, s \in {"Frozen", "Active"} : ChangeStatus(t, a, s)
          \/ SaveStatus(t)
          \/ SaveStatusFails(t)
    \/ Restart

ServiceSpec == ServiceInit /\ [][ServiceNext]_allVars

-----------------------------------------------------------------------------
(* Properties.                                                             *)

\* What a record of the history did to the balance of a.
Effect(r, a) ==
    (IF r.to = a THEN r.amount ELSE 0) - (IF r.from = a THEN r.amount ELSE 0)

\* The balance a history adds up to.
FromHistory(a) ==
    LET upto[n \in 0..Len(records)] ==
          IF n = 0 THEN InitAccounts[a].balance
          ELSE upto[n - 1] + Effect(records[n], a)
    IN  upto[Len(records)]

\* balance() and history() agree: whoever gets op_mutex_ sees, for every
\* account, the opening balance plus exactly the transactions of its history,
\* whatever freezes, failures and restarts happened in between.  (A save or a
\* record that fails, or a death between the two, does break this: they are
\* left out.)
BalanceMatchesHistory ==
    op_mutex = NoThread =>
        \A a \in Opened : accounts[a].balance = FromHistory(a)

\* "Frozen accounts reject deposit, withdraw and transfer": a freeze that
\* races a transfer either precedes its check or follows its save, so the
\* balance of an account that is not Active never moves.
FrozenKeepsBalance ==
    [][\A a \in Opened : accounts[a].status # "Active" =>
          accounts'[a].balance = accounts[a].balance]_allVars

\* A freeze is not undone by a transaction that read the account before it,
\* and no update is lost to a freeze: each change of an account is one change
\* of its latest version, and money and status never change together.
ServiceVersionStep ==
    [][\A a \in Opened : accounts'[a] # accounts[a] =>
          /\ accounts'[a].version = accounts[a].version + 1
          /\ \/ accounts'[a].status = accounts[a].status
             \/ accounts'[a].balance = accounts[a].balance]_allVars
=============================================================================
