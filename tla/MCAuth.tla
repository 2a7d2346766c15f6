------------------------------- MODULE MCAuth -------------------------------
(* Instances of the session table for TLC.                                 *)
EXTENDS AuthService, TLC

\* Of the entries later steps depend on the ids, SessionsAccountedFor on the
\* sums.
View ==
    <<sessions, now, {e.id : e \in audit}, next_audit_id, pc, actor,
      [c \in Customer |-> Traced(c)]>>

Symmetry ==
    Permutations(Thread) \cup Permutations(Customer) \cup Permutations(Token)
=============================================================================
