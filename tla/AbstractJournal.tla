-------------------------- MODULE AbstractJournal ---------------------------
(***************************************************************************)
(* What recovery relies on: a journal is a sequence of records that grows  *)
(* one record at a time, at its end, and in which the only thing that ever *)
(* changes is that one record becomes Committed.                           *)
(***************************************************************************)
EXTENDS Integers, Sequences

CONSTANT TxnId

VARIABLE log

Init == log = <<>>

\* An id is appended once: ids name records.
Record(n) ==
    /\ \A k \in DOMAIN log : log[k].id # n
    /\ log' = Append(log, [id |-> n, state |-> "Validated"])

Commit(n) ==
    \E k \in DOMAIN log :
        /\ log[k] = [id |-> n, state |-> "Validated"]
        /\ log' = [log EXCEPT ![k].state = "Committed"]

Next == \E n \in TxnId : Record(n) \/ Commit(n)

Spec == Init /\ [][Next]_log
=============================================================================
