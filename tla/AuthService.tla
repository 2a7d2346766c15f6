---------------------------- MODULE AuthService -----------------------------
(***************************************************************************)
(* Logins and logouts: AuthService over SessionManager (one mutex, lazy    *)
(* expiry) and the audit helper the services share (audit_detail::append). *)
(* Callers run concurrently; between the session table and the audit entry *)
(* of one call other calls may run.  The process may die and start again   *)
(* over the same audit log.                                                *)
(*                                                                         *)
(* Left out: the PIN and its hash (a login either passes or not), the role *)
(* and the bytes of a token.                                               *)
(***************************************************************************)
EXTENDS Integers, FiniteSets

CONSTANTS
    Thread,    \* callers
    Customer,  \* existing and claimed customer ids
    Nobody,    \* no customer: the caller is in no call
    Token,     \* what generate_token() may draw
    Ttl,       \* ttl_
    MaxTime,   \* bound: the clock
    MaxAudit,  \* bound: audit ids allocated
    Faults     \* subset of {"audit", "crash"}: audit appends throw, deaths

ASSUME SessionBounds ==
    /\ Nobody \notin Customer
    /\ Ttl \in Nat /\ MaxTime \in Nat /\ MaxAudit \in Nat
    /\ Faults \subseteq {"audit", "crash"}
ASSUME ThreadAssumption == IsFiniteSet(Thread)

VARIABLES
    sessions,       \* sessions_: live and not yet erased sessions, by token
    now,            \* now_()
    audit,          \* the audit repository
    next_audit_id,  \* the process-wide counter, less its base of 10^15 - 1
    pc,             \* the audit entry each caller has yet to write, or idle
    actor,          \* the customer of the call
    untraced        \* how many sessions of each customer ended with no logout
                    \* entry, less those that began with no login entry

\* The last one is history: the program does not keep it.
vars == <<sessions, now, audit, next_audit_id, pc, actor, untraced>>

Init ==
    /\ sessions = [tok \in {} |-> 0]
    /\ now = 0
    /\ audit = {}
    /\ next_audit_id = 1
    /\ pc = [t \in Thread |-> "idle"]
    /\ actor = [t \in Thread |-> Nobody]
    /\ untraced = [c \in Customer |-> 0]

-----------------------------------------------------------------------------
\* What an entry says of the number of sessions its customer has.
Sessions(action) ==
    IF action = "auth.login" THEN 1 ELSE IF action = "auth.logout" THEN -1 ELSE 0

\* audit_detail::append: an id is taken in any case, callers ignore a failure.
\* The log refuses an id it has.
AppendAudit(c, action) ==
    /\ next_audit_id' = next_audit_id + 1
    /\ \/ /\ \A e \in audit : e.id # next_audit_id
          /\ audit' = audit \cup
               {[id |-> next_audit_id, actor_id |-> c, action |-> action]}
          /\ untraced' = untraced
       \/ /\ "audit" \in Faults \/ \E e \in audit : e.id = next_audit_id
          /\ untraced' = [untraced EXCEPT ![c] = @ - Sessions(action)]
          /\ audit' = audit

Without(tok) == [k \in DOMAIN sessions \ {tok} |-> sessions[k]]

\* A session that begins now.
Session(c) == [customer_id |-> c, expires_at |-> now + Ttl]

\* Mutant of create: a colliding token replaces the session stored under it.
create_colliding(tok, c) ==
    sessions' = [k \in DOMAIN sessions \cup {tok} |->
                   IF k = tok THEN Session(c) ELSE sessions[k]]

\* The token is drawn again while a stored session has it.
create(tok, c) ==
    /\ tok \notin DOMAIN sessions
    /\ sessions' = [k \in DOMAIN sessions \cup {tok} |->
                      IF k = tok THEN Session(c) ELSE sessions[k]]

Expired(tok) == now >= sessions[tok].expires_at

\* Unknown customer or wrong PIN.
LoginFailed(t, c) ==
    /\ pc[t] = "idle"
    /\ next_audit_id <= MaxAudit
    /\ AppendAudit(c, "auth.login_failed")
    /\ UNCHANGED <<sessions, now, pc, actor>>

Login(t, c, tok) ==
    /\ pc[t] = "idle"
    /\ next_audit_id <= MaxAudit
    /\ create(tok, c)
    /\ pc' = [pc EXCEPT ![t] = "auth.login"]
    /\ actor' = [actor EXCEPT ![t] = c]
    /\ UNCHANGED <<now, audit, next_audit_id, untraced>>

\* Mutant of Logout: the session is read and not erased.
Logout_keeping(t, tok) ==
    /\ pc[t] = "idle"
    /\ tok \in DOMAIN sessions
    /\ pc' = [pc EXCEPT ![t] = "auth.logout"]
    /\ actor' = [actor EXCEPT ![t] = sessions[tok].customer_id]
    /\ UNCHANGED <<sessions, now, audit, next_audit_id, untraced>>

\* revoke() removes whatever is stored; an unknown token changes nothing.
Logout(t, tok) ==
    /\ pc[t] = "idle"
    /\ tok \in DOMAIN sessions
    /\ sessions' = Without(tok)
    /\ pc' = [pc EXCEPT ![t] = "auth.logout"]
    /\ actor' = [actor EXCEPT ![t] = sessions[tok].customer_id]
    /\ UNCHANGED <<now, audit, next_audit_id, untraced>>

\* The audit entry of a successful login or logout, then the return.
AuditCall(t) ==
    /\ pc[t] # "idle"
    /\ AppendAudit(actor[t], pc[t])
    /\ pc' = [pc EXCEPT ![t] = "idle"]
    /\ actor' = [actor EXCEPT ![t] = Nobody]
    /\ UNCHANGED <<sessions, now>>

\* validate() of an expired session erases it; of a live one changes nothing.
Validate(tok) ==
    /\ tok \in DOMAIN sessions
    /\ Expired(tok)
    /\ sessions' = Without(tok)
    /\ untraced' = [untraced EXCEPT ![sessions[tok].customer_id] = @ + 1]
    /\ UNCHANGED <<now, audit, next_audit_id, pc, actor>>

Stored(c) == {tok \in DOMAIN sessions : sessions[tok].customer_id = c}

\* The calls of c that have yet to write this entry.
Unwritten(c, action) == {t \in Thread : actor[t] = c /\ pc[t] = action}

\* The entries about to be written count like those written.
Pending(c) ==
    Cardinality(Unwritten(c, "auth.login")) - Cardinality(Unwritten(c, "auth.logout"))

\* The process dies and starts again, in the next tick of the clock.
Restart ==
    /\ "crash" \in Faults
    /\ now < MaxTime
    /\ now' = now + 1
    /\ sessions' = [tok \in {} |-> 0]
    /\ next_audit_id' = 1
    /\ pc' = [t \in Thread |-> "idle"]
    /\ actor' = [t \in Thread |-> Nobody]
    /\ untraced' = [c \in Customer |->
                      untraced[c] + Cardinality(Stored(c)) - Pending(c)]
    /\ audit' = audit

Tick ==
    /\ now < MaxTime
    /\ now' = now + 1
    /\ UNCHANGED <<sessions, audit, next_audit_id, pc, actor, untraced>>

Next ==
    \/ \E t \in Thread :
          \/ \E c \in Customer : LoginFailed(t, c)
          \/ \E c \in Customer, tok \in Token : Login(t, c, tok)
          \/ \E tok \in Token : Logout(t, tok)
          \/ AuditCall(t)
    \/ \E tok \in Token : Validate(tok)
    \/ Tick
    \/ Restart

Spec == Init /\ [][Next]_vars

-----------------------------------------------------------------------------
(* Properties.                                                             *)

\* "An accidental collision cannot replace a live session", and "validate()
\* does not extend expiry": a stored session only ever disappears.
SessionKept ==
    [][\A tok \in DOMAIN sessions \cap DOMAIN sessions' :
          sessions'[tok] = sessions[tok]]_vars

Written(c, action) == {e \in audit : e.actor_id = c /\ e.action = action}

\* How many sessions of c there are by the entries, and by what left none.
Traced(c) ==
    Cardinality(Written(c, "auth.login")) - Cardinality(Written(c, "auth.logout"))
        - untraced[c]

\* Every session ends once: for each customer, the login entries less the
\* logout entries, written or about to be, are the sessions still stored, but
\* for those that expired or went with their process and the entries the log
\* refused.  Two logouts racing for a token cannot both succeed, and no call
\* is audited under another customer or twice, across restarts.
SessionsAccountedFor ==
    \A c \in Customer : Traced(c) + Pending(c) = Cardinality(Stored(c))
=============================================================================
