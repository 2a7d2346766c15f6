------------------------- MODULE AuthServiceProofs --------------------------
(***************************************************************************)
(* Theorems about AuthService, for every set of customers and tokens, any  *)
(* finite set of threads, every bound, and with audit failures and deaths. *)
(***************************************************************************)
EXTENDS AuthService, FiniteSetTheorems, TLAPS

Action == {"auth.login", "auth.logout"}

\* What the parts of the state are, as far as counting needs it.
TypeInv ==
    /\ sessions = [k \in DOMAIN sessions |-> sessions[k]]
    /\ IsFiniteSet(DOMAIN sessions)
    /\ \A k \in DOMAIN sessions : sessions[k].customer_id \in Customer
    /\ IsFiniteSet(audit)
    /\ pc \in [Thread -> Action \cup {"idle"}]
    /\ actor \in [Thread -> Customer \cup {Nobody}]
    /\ \A t \in Thread : pc[t] # "idle" => actor[t] \in Customer
    /\ untraced \in [Customer -> Int]

SessionInv == TypeInv /\ SessionsAccountedFor

-----------------------------------------------------------------------------
(* Counting.                                                               *)

LEMMA OneMore ==
    ASSUME NEW S, IsFiniteSet(S), NEW x, x \notin S
    PROVE  /\ IsFiniteSet(S \cup {x})
           /\ Cardinality(S \cup {x}) = Cardinality(S) + 1
BY FS_AddElement

LEMMA OneLess ==
    ASSUME NEW S, IsFiniteSet(S), NEW x, x \in S
    PROVE  /\ IsFiniteSet(S \ {x})
           /\ Cardinality(S \ {x}) = Cardinality(S) - 1
BY FS_RemoveElement

LEMMA CountsAreFinite ==
    ASSUME TypeInv, NEW c, NEW a
    PROVE  /\ IsFiniteSet(Stored(c)) /\ Cardinality(Stored(c)) \in Nat
           /\ IsFiniteSet(Unwritten(c, a)) /\ Cardinality(Unwritten(c, a)) \in Nat
           /\ IsFiniteSet(Written(c, a)) /\ Cardinality(Written(c, a)) \in Nat
<1>1. Stored(c) \subseteq DOMAIN sessions
  BY DEF Stored
<1>2. Unwritten(c, a) \subseteq Thread
  BY DEF Unwritten
<1>3. Written(c, a) \subseteq audit
  BY DEF Written
<1>4. IsFiniteSet(DOMAIN sessions) /\ IsFiniteSet(Thread) /\ IsFiniteSet(audit)
  BY ThreadAssumption DEF TypeInv
<1>5. IsFiniteSet(Stored(c)) /\ IsFiniteSet(Unwritten(c, a)) /\ IsFiniteSet(Written(c, a))
  BY <1>1, <1>2, <1>3, <1>4, FS_Subset
<1> QED
  BY <1>5, FS_CardinalityType

LEMMA SumsAreIntegers ==
    ASSUME TypeInv, NEW c \in Customer
    PROVE  Traced(c) \in Int /\ Pending(c) \in Int
<1>1. untraced[c] \in Int
  BY DEF TypeInv
<1> QED
  BY <1>1, CountsAreFinite DEF Traced, Pending

LEMMA SessionsMeaning ==
    /\ Sessions("auth.login") = 1
    /\ Sessions("auth.logout") = -1
    /\ Sessions("auth.login_failed") = 0
BY DEF Sessions

\* audit_detail::append leaves a trace of what it is about, or counts what it
\* does not trace.
LEMMA AppendMeaning ==
    ASSUME TypeInv, NEW c \in Customer,
           NEW action \in Action \cup {"auth.login_failed"}, AppendAudit(c, action)
    PROVE  /\ IsFiniteSet(audit')
           /\ untraced' \in [Customer -> Int]
           /\ \A d \in Customer :
                 Traced(d)' = Traced(d) + IF d = c THEN Sessions(action) ELSE 0
<1>1. untraced \in [Customer -> Int] /\ IsFiniteSet(audit) /\ Sessions(action) \in Int
  BY DEF TypeInv, Sessions
<1>2. CASE audit' = audit /\ untraced' = [untraced EXCEPT ![c] = @ - Sessions(action)]
  <2>1. untraced' \in [Customer -> Int]
    BY <1>1, <1>2
  <2>2. ASSUME NEW d \in Customer
        PROVE  Traced(d)' = Traced(d) + IF d = c THEN Sessions(action) ELSE 0
    <3>1. untraced'[d] = untraced[d] - (IF d = c THEN Sessions(action) ELSE 0)
      BY <1>1, <1>2
    <3>2. /\ Written(d, "auth.login")' = Written(d, "auth.login")
          /\ Written(d, "auth.logout")' = Written(d, "auth.logout")
      BY <1>2 DEF Written
    <3>3. /\ Cardinality(Written(d, "auth.login")) \in Nat
          /\ Cardinality(Written(d, "auth.logout")) \in Nat
          /\ untraced[d] \in Int
      BY <1>1, CountsAreFinite
    <3> QED
      BY <1>1, <3>1, <3>2, <3>3 DEF Traced
  <2> QED
    BY <1>1, <1>2, <2>1, <2>2
<1>3. CASE /\ \A e \in audit : e.id # next_audit_id
           /\ audit' = audit \cup
                {[id |-> next_audit_id, actor_id |-> c, action |-> action]}
           /\ untraced' = untraced
  <2> DEFINE e == [id |-> next_audit_id, actor_id |-> c, action |-> action]
  <2>1. e \notin audit /\ audit' = audit \cup {e} /\ e.actor_id = c /\ e.action = action
    BY <1>3
  <2> HIDE DEF e
  <2>2. IsFiniteSet(audit')
    BY <1>1, <2>1, OneMore
  <2>3. ASSUME NEW d \in Customer, NEW a \in Action
        PROVE  Cardinality(Written(d, a)')
                 = Cardinality(Written(d, a)) + IF d = c /\ a = action THEN 1 ELSE 0
    <3>1. IsFiniteSet(Written(d, a)) /\ Cardinality(Written(d, a)) \in Nat
      BY CountsAreFinite
    <3>2. CASE d = c /\ a = action
      <4>1. Written(d, a)' = Written(d, a) \cup {e} /\ e \notin Written(d, a)
        BY <2>1, <3>2 DEF Written
      <4> QED
        BY <3>1, <3>2, <4>1, OneMore
    <3>3. CASE ~(d = c /\ a = action)
      <4>1. Written(d, a)' = Written(d, a)
        BY <2>1, <3>3 DEF Written
      <4> QED
        BY <3>1, <3>3, <4>1
    <3> QED
      BY <3>2, <3>3
  <2>4. ASSUME NEW d \in Customer
        PROVE  Traced(d)' = Traced(d) + IF d = c THEN Sessions(action) ELSE 0
    <3>1. /\ Cardinality(Written(d, "auth.login")') = Cardinality(Written(d, "auth.login"))
               + IF d = c /\ action = "auth.login" THEN 1 ELSE 0
          /\ Cardinality(Written(d, "auth.logout")') = Cardinality(Written(d, "auth.logout"))
               + IF d = c /\ action = "auth.logout" THEN 1 ELSE 0
      BY <2>3 DEF Action
    <3>2. /\ Cardinality(Written(d, "auth.login")) \in Nat
          /\ Cardinality(Written(d, "auth.logout")) \in Nat
          /\ untraced[d] \in Int /\ untraced'[d] = untraced[d]
      BY <1>1, <1>3, CountsAreFinite
    <3> QED
      BY <3>1, <3>2 DEF Traced, Sessions, Action
  <2> QED
    BY <1>1, <1>3, <2>2, <2>4
<1> QED
  BY <1>2, <1>3 DEF AppendAudit

-----------------------------------------------------------------------------
\* A stored session never changes: a new one takes a token that is not in use,
\* and nothing extends an old one.
THEOREM SessionsAreKept == Spec => SessionKept
<1> DEFINE Kept == \A tok \in DOMAIN sessions \cap DOMAIN sessions' :
                      sessions'[tok] = sessions[tok]
<1>1. [Next]_vars => [Kept]_vars
  <2> SUFFICES ASSUME Next PROVE Kept
    OBVIOUS
  <2>1. ASSUME NEW t \in Thread, NEW c \in Customer, NEW tok \in Token, Login(t, c, tok)
        PROVE  Kept
    BY <2>1 DEF Login, create
  <2>2. ASSUME NEW t \in Thread, NEW tok \in Token, Logout(t, tok)
        PROVE  Kept
    BY <2>2 DEF Logout, Without
  <2>3. ASSUME NEW tok \in Token, Validate(tok)
        PROVE  Kept
    BY <2>3 DEF Validate, Without
  <2>4. CASE Restart
    BY <2>4 DEF Restart
  <2>5. ASSUME sessions' = sessions
        PROVE  Kept
    BY <2>5
  <2> QED
    BY <2>1, <2>2, <2>3, <2>4, <2>5 DEF Next, LoginFailed, AuditCall, Tick
<1> QED
  BY <1>1, PTL DEF Spec, SessionKept

-----------------------------------------------------------------------------
(* Sessions and entries.                                                   *)

LEMMA SessionInit == Init => SessionInv
<1> SUFFICES ASSUME Init PROVE SessionInv
  OBVIOUS
<1>1. TypeInv
  <2>1. IsFiniteSet({})
    BY FS_EmptySet
  <2> QED
    BY <2>1 DEF Init, TypeInv, Action
<1>2. ASSUME NEW c \in Customer
      PROVE  Traced(c) + Pending(c) = Cardinality(Stored(c))
  <2>1. /\ Stored(c) = {} /\ untraced[c] = 0
        /\ \A a \in Action : Written(c, a) = {} /\ Unwritten(c, a) = {}
    BY DEF Init, Stored, Written, Unwritten, Action
  <2>2. Cardinality({}) = 0
    BY FS_EmptySet
  <2> QED
    BY <2>1, <2>2 DEF Traced, Pending, Action
<1> QED
  BY <1>1, <1>2 DEF SessionInv, SessionsAccountedFor

\* The sums a step leaves alone.
LEMMA SameTraced ==
    ASSUME UNCHANGED <<audit, untraced>>
    PROVE  \A c : Traced(c)' = Traced(c)
BY DEF Traced, Written

LEMMA SamePending ==
    ASSUME UNCHANGED <<pc, actor>>
    PROVE  \A c : Pending(c)' = Pending(c)
BY DEF Pending, Unwritten

LEMMA SameStored ==
    ASSUME sessions' = sessions
    PROVE  \A c : Stored(c)' = Stored(c)
BY DEF Stored

\* A caller that starts to owe an entry.
LEMMA PendingMore ==
    ASSUME TypeInv, NEW t \in Thread, pc[t] = "idle", NEW c \in Customer,
           NEW action \in Action,
           pc' = [pc EXCEPT ![t] = action], actor' = [actor EXCEPT ![t] = c],
           NEW d \in Customer
    PROVE  Pending(d)' = Pending(d) + IF d = c THEN Sessions(action) ELSE 0
<1>1. /\ pc'[t] = action /\ actor'[t] = c
      /\ \A u \in Thread \ {t} : pc'[u] = pc[u] /\ actor'[u] = actor[u]
  BY DEF TypeInv
<1>2. ASSUME NEW a \in Action
      PROVE  Cardinality(Unwritten(d, a)')
               = Cardinality(Unwritten(d, a)) + IF d = c /\ a = action THEN 1 ELSE 0
  <2>1. IsFiniteSet(Unwritten(d, a)) /\ Cardinality(Unwritten(d, a)) \in Nat
    BY CountsAreFinite
  <2>2. t \notin Unwritten(d, a)
    BY DEF Unwritten, Action
  <2>3. CASE d = c /\ a = action
    <3>1. Unwritten(d, a)' = Unwritten(d, a) \cup {t}
      BY <1>1, <2>3 DEF Unwritten
    <3> QED
      BY <2>1, <2>2, <2>3, <3>1, OneMore
  <2>4. CASE ~(d = c /\ a = action)
    <3>1. Unwritten(d, a)' = Unwritten(d, a)
      BY <1>1, <2>2, <2>4 DEF Unwritten
    <3> QED
      BY <2>1, <2>4, <3>1
  <2> QED
    BY <2>3, <2>4
<1>3. /\ Cardinality(Unwritten(d, "auth.login")') = Cardinality(Unwritten(d, "auth.login"))
           + IF d = c /\ action = "auth.login" THEN 1 ELSE 0
      /\ Cardinality(Unwritten(d, "auth.logout")') = Cardinality(Unwritten(d, "auth.logout"))
           + IF d = c /\ action = "auth.logout" THEN 1 ELSE 0
  BY <1>2 DEF Action
<1>4. /\ Cardinality(Unwritten(d, "auth.login")) \in Nat
      /\ Cardinality(Unwritten(d, "auth.logout")) \in Nat
  BY CountsAreFinite
<1> QED
  BY <1>3, <1>4 DEF Pending, Sessions, Action

\* A caller that has written, or given up, the entry it owed.
LEMMA PendingLess ==
    ASSUME TypeInv, NEW t \in Thread, pc[t] # "idle",
           pc' = [pc EXCEPT ![t] = "idle"], actor' = [actor EXCEPT ![t] = Nobody],
           NEW d \in Customer
    PROVE  Pending(d)' = Pending(d) - IF d = actor[t] THEN Sessions(pc[t]) ELSE 0
<1>1. /\ pc'[t] = "idle" /\ pc[t] \in Action
      /\ \A u \in Thread \ {t} : pc'[u] = pc[u] /\ actor'[u] = actor[u]
  BY DEF TypeInv
<1>2. ASSUME NEW a \in Action
      PROVE  Cardinality(Unwritten(d, a)')
               = Cardinality(Unwritten(d, a)) - IF d = actor[t] /\ a = pc[t] THEN 1 ELSE 0
  <2>1. IsFiniteSet(Unwritten(d, a)) /\ Cardinality(Unwritten(d, a)) \in Nat
    BY CountsAreFinite
  <2>2. Unwritten(d, a)' = Unwritten(d, a) \ {t}
    BY <1>1 DEF Unwritten, Action
  <2>3. CASE d = actor[t] /\ a = pc[t]
    <3>1. t \in Unwritten(d, a)
      BY <2>3 DEF Unwritten
    <3> QED
      BY <2>1, <2>2, <2>3, <3>1, OneLess
  <2>4. CASE ~(d = actor[t] /\ a = pc[t])
    <3>1. Unwritten(d, a)' = Unwritten(d, a)
      BY <2>2, <2>4 DEF Unwritten
    <3> QED
      BY <2>1, <2>4, <3>1
  <2> QED
    BY <2>3, <2>4
<1>3. /\ Cardinality(Unwritten(d, "auth.login")') = Cardinality(Unwritten(d, "auth.login"))
           - IF d = actor[t] /\ pc[t] = "auth.login" THEN 1 ELSE 0
      /\ Cardinality(Unwritten(d, "auth.logout")') = Cardinality(Unwritten(d, "auth.logout"))
           - IF d = actor[t] /\ pc[t] = "auth.logout" THEN 1 ELSE 0
  BY <1>2 DEF Action
<1>4. /\ Cardinality(Unwritten(d, "auth.login")) \in Nat
      /\ Cardinality(Unwritten(d, "auth.logout")) \in Nat
  BY CountsAreFinite
<1> QED
  BY <1>1, <1>3, <1>4 DEF Pending, Sessions, Action

\* A session that begins, and one that ends.
LEMMA StoredMore ==
    ASSUME TypeInv, NEW tok, NEW c \in Customer, create(tok, c), NEW d \in Customer
    PROVE  Cardinality(Stored(d)') = Cardinality(Stored(d)) + IF d = c THEN 1 ELSE 0
<1>1. /\ tok \notin DOMAIN sessions
      /\ DOMAIN sessions' = DOMAIN sessions \cup {tok}
      /\ sessions'[tok].customer_id = c
      /\ \A k \in DOMAIN sessions : sessions'[k] = sessions[k]
  BY DEF create, Session
<1>2. IsFiniteSet(Stored(d)) /\ Cardinality(Stored(d)) \in Nat
  BY CountsAreFinite
<1>3. CASE d = c
  <2>1. Stored(d)' = Stored(d) \cup {tok} /\ tok \notin Stored(d)
    BY <1>1, <1>3 DEF Stored
  <2> QED
    BY <1>2, <1>3, <2>1, OneMore
<1>4. CASE d # c
  <2>1. Stored(d)' = Stored(d)
    BY <1>1, <1>4 DEF Stored
  <2> QED
    BY <1>2, <1>4, <2>1
<1> QED
  BY <1>3, <1>4

LEMMA StoredLess ==
    ASSUME TypeInv, NEW tok \in DOMAIN sessions, sessions' = Without(tok),
           NEW d \in Customer
    PROVE  Cardinality(Stored(d)')
             = Cardinality(Stored(d)) - IF d = sessions[tok].customer_id THEN 1 ELSE 0
<1>1. /\ DOMAIN sessions' = DOMAIN sessions \ {tok}
      /\ \A k \in DOMAIN sessions \ {tok} : sessions'[k] = sessions[k]
  BY DEF Without
<1>2. IsFiniteSet(Stored(d)) /\ Cardinality(Stored(d)) \in Nat
  BY CountsAreFinite
<1>3. Stored(d)' = Stored(d) \ {tok}
  BY <1>1 DEF Stored
<1>4. CASE d = sessions[tok].customer_id
  <2>1. tok \in Stored(d)
    BY <1>4 DEF Stored
  <2> QED
    BY <1>2, <1>3, <1>4, <2>1, OneLess
<1>5. CASE d # sessions[tok].customer_id
  <2>1. Stored(d)' = Stored(d)
    BY <1>3, <1>5 DEF Stored
  <2> QED
    BY <1>2, <1>5, <2>1
<1> QED
  BY <1>4, <1>5

LEMMA SessionsType ==
    ASSUME TypeInv,
           \/ sessions' = sessions
           \/ \E tok : \E c \in Customer : create(tok, c)
           \/ \E tok : sessions' = Without(tok)
    PROVE  /\ sessions' = [k \in DOMAIN sessions' |-> sessions'[k]]
           /\ IsFiniteSet(DOMAIN sessions')
           /\ \A k \in DOMAIN sessions' : sessions'[k].customer_id \in Customer
<1>1. ASSUME NEW tok, NEW c \in Customer, create(tok, c)
      PROVE  /\ sessions' = [k \in DOMAIN sessions' |-> sessions'[k]]
             /\ IsFiniteSet(DOMAIN sessions')
             /\ \A k \in DOMAIN sessions' : sessions'[k].customer_id \in Customer
  <2>1. DOMAIN sessions' = DOMAIN sessions \cup {tok}
    BY <1>1 DEF create
  <2>2. IsFiniteSet(DOMAIN sessions')
    BY <2>1, FS_AddElement DEF TypeInv
  <2>3. sessions' = [k \in DOMAIN sessions' |-> sessions'[k]]
    BY <1>1 DEF create
  <2>4. /\ sessions'[tok].customer_id = c
        /\ \A k \in DOMAIN sessions : k # tok => sessions'[k] = sessions[k]
    BY <1>1 DEF create, Session
  <2>5. \A k \in DOMAIN sessions' : sessions'[k].customer_id \in Customer
    BY <2>1, <2>4 DEF TypeInv
  <2> QED
    BY <2>2, <2>3, <2>5
<1>2. ASSUME NEW tok, sessions' = Without(tok)
      PROVE  /\ sessions' = [k \in DOMAIN sessions' |-> sessions'[k]]
             /\ IsFiniteSet(DOMAIN sessions')
             /\ \A k \in DOMAIN sessions' : sessions'[k].customer_id \in Customer
  <2>1. DOMAIN sessions' = DOMAIN sessions \ {tok}
    BY <1>2 DEF Without
  <2>2. IsFiniteSet(DOMAIN sessions')
    BY <2>1, FS_RemoveElement DEF TypeInv
  <2> QED
    BY <1>2, <2>2 DEF Without, TypeInv
<1> QED
  BY <1>1, <1>2 DEF TypeInv

\* Every step moves at most one session and the one entry that accounts for it.
LEMMA SessionStep == SessionInv /\ [Next]_vars => SessionInv'
<1> SUFFICES ASSUME SessionInv, [Next]_vars PROVE SessionInv'
  OBVIOUS
<1> DEFINE Balanced(c) == Traced(c) + Pending(c) = Cardinality(Stored(c))
<1>1. /\ TypeInv
      /\ \A c \in Customer : Balanced(c)
      /\ \A c \in Customer : Traced(c) \in Int /\ Pending(c) \in Int
      /\ \A c \in Customer : Cardinality(Stored(c)) \in Nat
  BY SumsAreIntegers, CountsAreFinite DEF SessionInv, SessionsAccountedFor
<1> SUFFICES TypeInv' /\ \A d \in Customer : Balanced(d)'
  BY DEF SessionInv, SessionsAccountedFor
<1> HIDE DEF Balanced
<1>2. ASSUME NEW t \in Thread, NEW c \in Customer, LoginFailed(t, c)
      PROVE  TypeInv' /\ \A d \in Customer : Balanced(d)'
  <2>1. /\ UNCHANGED <<sessions, pc, actor>>
        /\ AppendAudit(c, "auth.login_failed")
    BY <1>2 DEF LoginFailed
  <2>2. TypeInv'
    BY <1>1, <2>1, AppendMeaning DEF TypeInv
  <2>3. \A d \in Customer : Traced(d)' = Traced(d)
    BY <1>1, <2>1, AppendMeaning, SessionsMeaning
  <2> QED
    BY <1>1, <2>1, <2>2, <2>3, SamePending, SameStored DEF Balanced
<1>3. ASSUME NEW t \in Thread, NEW c \in Customer, NEW tok \in Token, Login(t, c, tok)
      PROVE  TypeInv' /\ \A d \in Customer : Balanced(d)'
  <2>1. /\ pc[t] = "idle" /\ create(tok, c)
        /\ pc' = [pc EXCEPT ![t] = "auth.login"]
        /\ actor' = [actor EXCEPT ![t] = c]
        /\ UNCHANGED <<audit, untraced>>
    BY <1>3 DEF Login
  <2>2. TypeInv'
    <3>1. /\ sessions' = [k \in DOMAIN sessions' |-> sessions'[k]]
          /\ IsFiniteSet(DOMAIN sessions')
          /\ \A k \in DOMAIN sessions' : sessions'[k].customer_id \in Customer
      BY <1>1, <2>1, SessionsType
    <3> QED
      BY <1>1, <2>1, <3>1 DEF TypeInv, Action
  <2>3. ASSUME NEW d \in Customer
        PROVE  Balanced(d)'
    <3>1. Pending(d)' = Pending(d) + IF d = c THEN 1 ELSE 0
      BY <1>1, <2>1, PendingMore, SessionsMeaning DEF Action
    <3>2. Cardinality(Stored(d)') = Cardinality(Stored(d)) + IF d = c THEN 1 ELSE 0
      BY <1>1, <2>1, StoredMore
    <3>3. Traced(d)' = Traced(d)
      BY <2>1, SameTraced
    <3> QED
      BY <1>1, <3>1, <3>2, <3>3 DEF Balanced
  <2> QED
    BY <2>2, <2>3
<1>4. ASSUME NEW t \in Thread, NEW tok \in Token, Logout(t, tok)
      PROVE  TypeInv' /\ \A d \in Customer : Balanced(d)'
  <2> DEFINE c == sessions[tok].customer_id
  <2>1. /\ pc[t] = "idle" /\ tok \in DOMAIN sessions
        /\ sessions' = Without(tok)
        /\ pc' = [pc EXCEPT ![t] = "auth.logout"]
        /\ actor' = [actor EXCEPT ![t] = c]
        /\ UNCHANGED <<audit, untraced>>
    BY <1>4 DEF Logout
  <2>2. c \in Customer
    BY <1>1, <2>1 DEF TypeInv
  <2>3. TypeInv'
    <3>1. /\ sessions' = [k \in DOMAIN sessions' |-> sessions'[k]]
          /\ IsFiniteSet(DOMAIN sessions')
          /\ \A k \in DOMAIN sessions' : sessions'[k].customer_id \in Customer
      BY <1>1, <2>1, SessionsType
    <3> QED
      BY <1>1, <2>1, <2>2, <3>1 DEF TypeInv, Action
  <2>4. ASSUME NEW d \in Customer
        PROVE  Balanced(d)'
    <3>1. Cardinality(Stored(d)') = Cardinality(Stored(d)) - IF d = c THEN 1 ELSE 0
      BY <1>1, <2>1, StoredLess
    <3> HIDE DEF c
    <3>2. Pending(d)' = Pending(d) + IF d = c THEN -1 ELSE 0
      BY <1>1, <2>1, <2>2, PendingMore, SessionsMeaning DEF Action
    <3>3. Traced(d)' = Traced(d)
      BY <2>1, SameTraced
    <3> QED
      BY <1>1, <3>1, <3>2, <3>3 DEF Balanced
  <2> QED
    BY <2>3, <2>4
<1>5. ASSUME NEW t \in Thread, AuditCall(t)
      PROVE  TypeInv' /\ \A d \in Customer : Balanced(d)'
  <2>1. /\ pc[t] # "idle" /\ AppendAudit(actor[t], pc[t])
        /\ pc' = [pc EXCEPT ![t] = "idle"]
        /\ actor' = [actor EXCEPT ![t] = Nobody]
        /\ sessions' = sessions
    BY <1>5 DEF AuditCall
  <2>2. actor[t] \in Customer /\ pc[t] \in Action /\ Sessions(pc[t]) \in Int
    BY <1>1, <2>1 DEF TypeInv, Sessions
  <2>3. /\ IsFiniteSet(audit') /\ untraced' \in [Customer -> Int]
        /\ \A d \in Customer :
              Traced(d)' = Traced(d) + IF d = actor[t] THEN Sessions(pc[t]) ELSE 0
    BY <1>1, <2>1, <2>2, AppendMeaning
  <2>4. TypeInv'
    BY <1>1, <2>1, <2>3 DEF TypeInv
  <2>5. ASSUME NEW d \in Customer
        PROVE  Balanced(d)'
    <3>1. Pending(d)' = Pending(d) - IF d = actor[t] THEN Sessions(pc[t]) ELSE 0
      BY <1>1, <2>1, PendingLess
    <3>2. Stored(d)' = Stored(d)
      BY <2>1, SameStored
    <3> QED
      BY <1>1, <2>2, <2>3, <3>1, <3>2 DEF Balanced
  <2> QED
    BY <2>4, <2>5
<1>6. ASSUME NEW tok \in Token, Validate(tok)
      PROVE  TypeInv' /\ \A d \in Customer : Balanced(d)'
  <2> DEFINE c == sessions[tok].customer_id
  <2>1. /\ tok \in DOMAIN sessions
        /\ sessions' = Without(tok)
        /\ untraced' = [untraced EXCEPT ![c] = @ + 1]
        /\ UNCHANGED <<audit, pc, actor>>
    BY <1>6 DEF Validate
  <2>2. c \in Customer /\ untraced \in [Customer -> Int]
    BY <1>1, <2>1 DEF TypeInv
  <2>3. TypeInv'
    <3>1. /\ sessions' = [k \in DOMAIN sessions' |-> sessions'[k]]
          /\ IsFiniteSet(DOMAIN sessions')
          /\ \A k \in DOMAIN sessions' : sessions'[k].customer_id \in Customer
      BY <1>1, <2>1, SessionsType
    <3>2. untraced' \in [Customer -> Int]
      BY <2>1, <2>2
    <3> QED
      BY <1>1, <2>1, <3>1, <3>2 DEF TypeInv
  <2>4. ASSUME NEW d \in Customer
        PROVE  Balanced(d)'
    <3>1. Cardinality(Stored(d)') = Cardinality(Stored(d)) - IF d = c THEN 1 ELSE 0
      BY <1>1, <2>1, StoredLess
    <3> HIDE DEF c
    <3>2. untraced'[d] = untraced[d] + IF d = c THEN 1 ELSE 0
      BY <2>1, <2>2
    <3>3. \A a : Written(d, a)' = Written(d, a)
      BY <2>1 DEF Written
    <3>4. /\ Cardinality(Written(d, "auth.login")) \in Nat
          /\ Cardinality(Written(d, "auth.logout")) \in Nat
      BY <1>1, CountsAreFinite
    <3>5. Traced(d)' = Traced(d) - IF d = c THEN 1 ELSE 0
      BY <2>2, <3>2, <3>3, <3>4 DEF Traced
    <3>6. Pending(d)' = Pending(d)
      BY <2>1, SamePending
    <3> QED
      BY <1>1, <3>1, <3>5, <3>6 DEF Balanced
  <2> QED
    BY <2>3, <2>4
<1>7. CASE Restart
  <2>1. /\ DOMAIN sessions' = {} /\ sessions' = [k \in {} |-> 0] /\ audit' = audit
        /\ pc' = [t \in Thread |-> "idle"]
        /\ actor' = [t \in Thread |-> Nobody]
        /\ untraced' = [c \in Customer |->
                          untraced[c] + Cardinality(Stored(c)) - Pending(c)]
    BY <1>7 DEF Restart
  <2>2. untraced \in [Customer -> Int]
    BY <1>1 DEF TypeInv
  <2>3. IsFiniteSet({}) /\ Cardinality({}) = 0
    BY FS_EmptySet
  <2>4. TypeInv'
    <3>1. untraced' \in [Customer -> Int]
      BY <1>1, <2>1, <2>2
    <3> QED
      BY <1>1, <2>1, <2>3, <3>1 DEF TypeInv, Action
  <2>5. ASSUME NEW d \in Customer
        PROVE  Balanced(d)'
    <3>1. Stored(d)' = {} /\ \A a \in Action : Unwritten(d, a)' = {}
      BY <2>1 DEF Stored, Unwritten, Action
    <3>2. Pending(d)' = 0
      BY <2>3, <3>1 DEF Pending, Action
    <3>3. untraced'[d] = untraced[d] + Cardinality(Stored(d)) - Pending(d)
      BY <2>1
    <3>4. \A a : Written(d, a)' = Written(d, a)
      BY <2>1 DEF Written
    <3>5. /\ Cardinality(Written(d, "auth.login")) \in Nat
          /\ Cardinality(Written(d, "auth.logout")) \in Nat
          /\ untraced[d] \in Int
      BY <1>1, <2>2, CountsAreFinite
    <3>6. Traced(d)' = Traced(d) - Cardinality(Stored(d)) + Pending(d)
      BY <1>1, <3>3, <3>4, <3>5 DEF Traced
    <3> QED
      BY <1>1, <2>3, <3>1, <3>2, <3>6 DEF Balanced
  <2> QED
    BY <2>4, <2>5
<1>8. CASE UNCHANGED <<sessions, audit, pc, actor, untraced>>
  <2>1. TypeInv'
    BY <1>1, <1>8 DEF TypeInv
  <2> QED
    BY <1>1, <1>8, <2>1, SameTraced, SamePending, SameStored DEF Balanced
<1> QED
  BY <1>2, <1>3, <1>4, <1>5, <1>6, <1>7, <1>8 DEF Next, Tick, vars

\* Every login is answered by exactly one end of its session: a logout entry,
\* an expiry, a death, or an entry the log refused.
THEOREM SessionsStayAccountedFor == Spec => []SessionsAccountedFor
<1>1. SessionInv => SessionsAccountedFor
  BY DEF SessionInv
<1> QED
  BY <1>1, SessionInit, SessionStep, PTL DEF Spec
=============================================================================
