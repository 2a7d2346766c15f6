----------------------------- MODULE MCBanking ------------------------------
(* Instances of the banking service for TLC.                               *)
EXTENDS BankingService, TLC

Acct(b, s) == [balance |-> b, status |-> s, version |-> 0]

MCInitAccounts ==
    1 :> Acct(2, "Active") @@ 2 :> Acct(1, "Active") @@ 3 :> Acct(1, "Closed")

MCTxns ==
    {[type |-> "Transfer", from |-> 1, to |-> 2, amount |-> 1],
     [type |-> "Withdraw", account_id |-> 2, amount |-> 1],
     [type |-> "Deposit", account_id |-> 1, amount |-> 2]}

\* Nothing depends on the last answer or the finished call of an idle thread,
\* or on the wording of an audit entry.
View ==
    LET running == {t \in Thread : pc[t] # "idle"}
    IN  <<accounts, wal, records, {e.id : e \in audit}, next_id, next_audit_id,
          owner, pc, loaded, [t \in running |-> <<txn[t], id[t]>>], serviceVars>>

Symmetry == Permutations(Thread)
=============================================================================
