---------------------------- MODULE AtomicLedger ----------------------------
(***************************************************************************)
(* What the transaction processor promises its callers: a ledger in which  *)
(* a transaction happens at one instant or not at all.  It takes effect    *)
(* only if the bank rules (txn::validate) admit it in the current state,   *)
(* it moves the money of all its legs together, and its id names it alone. *)
(***************************************************************************)
EXTENDS BankDomain

CONSTANTS
    TransactionId,  \* the ids a transaction may carry
    Txns,           \* the transactions callers may ask for
    InitAccounts    \* the accounts the ledger starts with

VARIABLES
    accounts,   \* the accounts callers observe
    committed   \* the transactions that took effect, with their ids

vars == <<accounts, committed>>

Entry(n, x) == [id |-> n, txn |-> x]

Init ==
    /\ accounts = InitAccounts
    /\ committed = {}

Commit(n, x) ==
    /\ \A e \in committed : e.id # n
    /\ ~apply_throws(x, accounts)
    /\ accounts' = apply(x, accounts)
    /\ committed' = committed \cup {Entry(n, x)}

Next == \E n \in TransactionId, x \in Txns : Commit(n, x)

Spec == Init /\ [][Next]_vars
=============================================================================
