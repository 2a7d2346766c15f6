---------------------------- MODULE MCProcessor -----------------------------
(* Instances of the transaction processor for TLC.                         *)
EXTENDS ProcessorLedger, TLC

Acct(b, s) == [balance |-> b, status |-> s, version |-> 0]

\* Account 1 can pay once, 2 is near the int64 limit; 3 is never opened.
MCInitAccounts == 1 :> Acct(2, "Active") @@ 2 :> Acct(3, "Active")

Dep(a, n) == [type |-> "Deposit", account_id |-> a, amount |-> n]
Wdr(a, n) == [type |-> "Withdraw", account_id |-> a, amount |-> n]
Trf(a, b, n) == [type |-> "Transfer", from |-> a, to |-> b, amount |-> n]

\* Opposite transfers, the overflowing deposit, a missing account.
MCTxns == {Trf(1, 2, 2), Trf(2, 1, 1), Dep(2, 3), Trf(1, 3, 1)}

\* For the runs with every fault: opposite transfers and a withdrawal account 1
\* covers only after the second.
MCFaultTxns == {Trf(1, 2, 1), Trf(2, 1, 2), Wdr(1, 3)}

Symmetry == Permutations(Thread)
=============================================================================
