--------------------------- MODULE ProcessorLedger --------------------------
(***************************************************************************)
(* The concurrent processor implements the atomic ledger, as long as no    *)
(* save and no commit marker fails and the process does not die between    *)
(* the two.  A transaction takes effect at the step that saves its         *)
(* accounts: from then on it counts as committed although its journal line *)
(* still says Validated.                                                   *)
(***************************************************************************)
EXTENDS TransactionProcessor

\* The transactions in effect: Committed in the journal, or saved by a call
\* that is about to mark them so.
CommittedView ==
    {[id |-> wal[i].id, txn |-> materialize_transaction(wal[i])] :
        i \in {j \in DOMAIN wal : wal[j].state = "Committed"}}
    \cup {[id |-> id[t], txn |-> txn[t]] :
        t \in {u \in Thread : pc[u] = "commit"}}

Ledger == INSTANCE AtomicLedger
    WITH TransactionId <- 1..MaxTxns, committed <- CommittedView

\* process_impl, with all its interleavings, behaves as the atomic ledger.
LedgerSpec == Ledger!Spec
=============================================================================
