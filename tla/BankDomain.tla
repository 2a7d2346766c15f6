----------------------------- MODULE BankDomain -----------------------------
(***************************************************************************)
(* The pure rules of the bank: money, accounts and the three transactions. *)
(* Translated from src/domain/{Money,Account,Transaction}.h,               *)
(* Transaction.cpp and TransactionOps.cpp; operators keep the C++ names.   *)
(*                                                                         *)
(* Data kept: balances and amounts in cents, the account status, the       *)
(* version counter.  Left out: owner ids (never changed by a transaction), *)
(* timestamps and the wording of descriptions.  A C++ exception is a       *)
(* separate predicate (`apply_throws').                                    *)
(***************************************************************************)
EXTENDS Integers

CONSTANTS
    AccountId,     \* the account ids in play, ordered as the uint64_t they wrap
    MaxAccountId,  \* stands for the largest uint64_t
    NoAccount,     \* std::nullopt of an std::optional<AccountId>
    MaxCents       \* stands for std::numeric_limits<int64_t>::max()

ASSUME AccountIdAssumption ==
    MaxAccountId \in Nat /\ AccountId \subseteq 0..MaxAccountId
ASSUME NoAccountAssumption == NoAccount \notin AccountId
ASSUME MaxCentsAssumption == MaxCents \in Nat

Money == 0..MaxCents

AccountStatus == {"Active", "Frozen", "Closed"}

Account == [balance : Money, status : AccountStatus, version : Nat]

TransactionType == {"Deposit", "Withdraw", "Transfer"}

TransactionState ==
    {"Pending", "Validated", "WalWritten", "Applied", "Committed", "Failed",
     "RolledBack"}

-----------------------------------------------------------------------------
(* The variant Transaction = Deposit | Withdraw | Transfer.                *)

Deposit == [type : {"Deposit"}, account_id : AccountId, amount : Money]

Withdraw == [type : {"Withdraw"}, account_id : AccountId, amount : Money]

Transfer == [type : {"Transfer"}, from : AccountId, to : AccountId,
             amount : Money]

Transaction == Deposit \cup Withdraw \cup Transfer

debit_account(x) ==
    CASE x.type = "Withdraw" -> x.account_id
      [] x.type = "Transfer" -> x.from
      [] OTHER -> NoAccount

credit_account(x) ==
    CASE x.type = "Deposit"  -> x.account_id
      [] x.type = "Transfer" -> x.to
      [] OTHER -> NoAccount

\* The code returns a duplicate-free vector that every caller sorts: a set.
involved_accounts(x) == {debit_account(x), credit_account(x)} \ {NoAccount}

-----------------------------------------------------------------------------
(* Money and Account.                                                      *)

\* Mutant of can_subtract: the comparison turned round.
can_subtract_swapped(balance, amount) == balance <= amount

can_subtract(balance, amount) == amount <= balance

\* Money::plus throws std::overflow_error.
plus_throws(balance, amount) == amount > MaxCents - balance

can_withdraw(acct, amount) ==
    acct.status = "Active" /\ can_subtract(acct.balance, amount)

\* A zero deposit changes nothing, not even the version.
deposit(acct, amount) ==
    IF amount = 0 THEN acct
    ELSE [balance |-> acct.balance + amount, status |-> acct.status,
          version |-> acct.version + 1]

\* Mutant of withdraw: the version is not bumped.
withdraw_unversioned(acct, amount) ==
    [balance |-> acct.balance - amount, status |-> acct.status,
     version |-> acct.version]

withdraw(acct, amount) ==
    [balance |-> acct.balance - amount, status |-> acct.status,
     version |-> acct.version + 1]

-----------------------------------------------------------------------------
(* txn::validate and txn::apply.  `accts' is the span of loaded accounts:  *)
(* a function whose domain is the set of ids found.                        *)

\* Mutant of validate: a transfer does not look at the status of its target.
validate_target_unchecked(x, accts) ==
    \/ /\ x.type = "Deposit"
       /\ x.account_id \in DOMAIN accts
       /\ accts[x.account_id].status = "Active"
       /\ x.amount > 0
    \/ /\ x.type = "Withdraw"
       /\ x.account_id \in DOMAIN accts
       /\ x.amount > 0
       /\ can_withdraw(accts[x.account_id], x.amount)
    \/ /\ x.type = "Transfer"
       /\ x.from # x.to
       /\ x.amount > 0
       /\ {x.from, x.to} \subseteq DOMAIN accts
       /\ can_withdraw(accts[x.from], x.amount)

validate(x, accts) ==
    \/ /\ x.type = "Deposit"
       /\ x.account_id \in DOMAIN accts
       /\ accts[x.account_id].status = "Active"
       /\ x.amount > 0
    \/ /\ x.type = "Withdraw"
       /\ x.account_id \in DOMAIN accts
       /\ x.amount > 0
       /\ can_withdraw(accts[x.account_id], x.amount)
    \/ /\ x.type = "Transfer"
       /\ x.from # x.to
       /\ x.amount > 0
       /\ x.from \in DOMAIN accts
       /\ x.to \in DOMAIN accts
       /\ accts[x.from].status = "Active"
       /\ accts[x.to].status = "Active"
       /\ can_subtract(accts[x.from].balance, x.amount)

\* apply re-validates, then throws only when crediting overflows.  (withdraw's
\* own exceptions are behind validate.)
apply_throws(x, accts) ==
    \/ ~validate(x, accts)
    \/ /\ credit_account(x) # NoAccount
       /\ plus_throws(accts[credit_account(x)].balance, x.amount)

apply(x, accts) ==
    [a \in DOMAIN accts |->
        IF a = debit_account(x) THEN withdraw(accts[a], x.amount)
        ELSE IF a = credit_account(x) THEN deposit(accts[a], x.amount)
        ELSE accts[a]]

-----------------------------------------------------------------------------
(* The persisted projection of a transaction.                              *)

TransactionRecord ==
    [id : Nat, type : TransactionType, state : TransactionState,
     from : AccountId \cup {NoAccount}, to : AccountId \cup {NoAccount},
     amount : Money]

project_transaction(id, x) ==
    [id |-> id, type |-> x.type, state |-> "Pending",
     from |-> debit_account(x), to |-> credit_account(x),
     amount |-> x.amount]

\* Throws std::invalid_argument when a leg the type needs is absent.
materialize_throws(r) ==
    \/ r.type \in {"Deposit", "Transfer"} /\ r.to = NoAccount
    \/ r.type \in {"Withdraw", "Transfer"} /\ r.from = NoAccount

materialize_transaction(r) ==
    CASE r.type = "Deposit" ->
           [type |-> "Deposit", account_id |-> r.to, amount |-> r.amount]
      [] r.type = "Withdraw" ->
           [type |-> "Withdraw", account_id |-> r.from, amount |-> r.amount]
      [] r.type = "Transfer" ->
           [type |-> "Transfer", from |-> r.from, to |-> r.to,
            amount |-> r.amount]
=============================================================================
