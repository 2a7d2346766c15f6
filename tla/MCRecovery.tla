----------------------------- MODULE MCRecovery ------------------------------
(* Instances of checkpoint and recovery for TLC.                            *)
EXTENDS Recovery, FiniteSets, TLC

Acct(b, s) == [balance |-> b, status |-> s, version |-> 0]

MCInitAccounts == 1 :> Acct(1, "Active") @@ 2 :> Acct(0, "Active")

Dep(a, n) == [type |-> "Deposit", account_id |-> a, amount |-> n]
Trf(a, b, n) == [type |-> "Transfer", from |-> a, to |-> b, amount |-> n]

\* Account 1 pays once, and again after each deposit: a lost, doubled or
\* misplaced line makes a later payment impossible or a balance wrong.
MCTxns == {Dep(1, 1), Trf(1, 2, 1)}

\* What later steps and the properties depend on: not the last answer, nor the
\* call of a thread that is idle or has only its audit entry left to write, nor
\* the wording of those entries.  Their ids are 1, 2, ..., so how many the next
\* ones collide with is a number.  The ids of the history are the journal's.
\* The next store() truncates the temporary file an earlier one left.
View ==
    LET running == {t \in Thread :
                      pc[t] \notin {"idle", "audit_ok", "audit_fail", "catch"}}
    IN  <<accounts, wal, Ids(records) \subseteq Ids(wal),
          Cardinality(audit) - next_audit_id, next_id, owner, pc,
          [t \in running |-> <<txn[t], id[t], loaded[t]>>],
          path, store_pc, given, kept, IF store_pc = "rename" THEN tmp ELSE NoFile,
          journalVars, doubt>>

Symmetry == Permutations(Thread)
=============================================================================
