-------------------------- MODULE WalLoggerProofs ---------------------------
(***************************************************************************)
(* Theorems about WalLogger, for any ids and any length of the journal: as *)
(* long as no append fails half-way in a process that lives on, what was   *)
(* reported Committed stays Committed for every later reader, LSNs keep    *)
(* their meaning, and the file is an append-only sequence of records.      *)
(***************************************************************************)
EXTENDS MCWal, SequenceTheorems, WellFoundedInduction, TLAPS

-----------------------------------------------------------------------------
(* Induction over the natural numbers, for a set of them.                  *)

Below == OpToRel(<, Nat)

LEMMA SetInduction ==
    ASSUME NEW K, 0 \in K, \A n \in Nat : n \in K => n + 1 \in K
    PROVE  \A n \in Nat : n \in K
<1> DEFINE Rest == Nat \ K
<1>1. SUFFICES ASSUME Rest # {} PROVE FALSE
  OBVIOUS
<1>2. \A x, y \in Nat : <<x, y>> \in Below <=> x < y
  BY DEF Below, OpToRel
<1>3. IsWellFoundedOn(Below, Nat)
  BY NatLessThanWellFounded DEF Below
<1>4. \E x \in Rest : \A y \in Rest : ~(<<y, x>> \in Below)
  BY <1>1, <1>3, WFMin
<1>5. PICK x \in Rest : \A y \in Rest : ~(<<y, x>> \in Below)
  BY <1>4
<1>6. x \in Nat /\ x \notin K /\ x # 0
  OBVIOUS
<1>7. x - 1 \in Nat /\ x - 1 < x /\ x = (x - 1) + 1
  BY <1>6
<1>8. x - 1 \notin Rest
  BY <1>2, <1>5, <1>6, <1>7
<1> QED
  BY <1>6, <1>7, <1>8

-----------------------------------------------------------------------------
(* Both loops of WalLogger append, at each turn, nothing or one element:   *)
(* u[i] is what has been appended after i turns, turn i appending ss[i].   *)

Joined(x, y) == x \o y

Turns(u, ss) == \A i \in 1..Len(ss) : u[i] = Joined(u[i - 1], ss[i])

IsLoop(u, ss) ==
    u = [i \in 0..Len(ss) |-> IF i = 0 THEN <<>> ELSE Joined(u[i - 1], ss[i])]

Flat(r, ss) == \E u : IsLoop(u, ss) /\ r = u[Len(ss)]

LEMMA LoopMeaning ==
    ASSUME NEW S, NEW ss \in Seq(Seq(S)), NEW u, IsLoop(u, ss)
    PROVE  u[0] = <<>> /\ Turns(u, ss)
<1>1. Len(ss) \in Nat
  OBVIOUS
<1>2. \A i \in 0..Len(ss) : u[i] = IF i = 0 THEN <<>> ELSE Joined(u[i - 1], ss[i])
  BY DEF IsLoop
<1> QED
  BY <1>1, <1>2 DEF Turns

\* Every loop ends.
LEMMA LoopExists ==
    ASSUME NEW S, NEW ss \in Seq(Seq(S))
    PROVE  \E u : IsLoop(u, ss)
<1> DEFINE Along(u, k) == /\ u[0] = <<>>
                          /\ \A i \in 1..k : u[i] = Joined(u[i - 1], ss[i])
           Good(k) == \E u : u = [i \in 0..k |-> u[i]] /\ Along(u, k)
           K == {k \in Nat : Good(k)}
<1>1. Len(ss) \in Nat
  OBVIOUS
<1>2. 0 \in K
  <2> DEFINE u == [i \in 0..0 |-> <<>>]
  <2>1. u = [i \in 0..0 |-> u[i]] /\ Along(u, 0)
    OBVIOUS
  <2> QED
    BY <2>1
<1>3. ASSUME NEW k \in Nat, k \in K PROVE k + 1 \in K
  <2>1. PICK u : u = [i \in 0..k |-> u[i]] /\ Along(u, k)
    BY <1>3
  <2> DEFINE v == [i \in 0..(k + 1) |-> IF i = k + 1 THEN Joined(u[k], ss[k + 1])
                                        ELSE u[i]]
  <2>0. /\ v[k + 1] = Joined(u[k], ss[k + 1])
        /\ \A i \in 0..k : v[i] = u[i]
    OBVIOUS
  <2> HIDE DEF v
  <2>2. v[0] = <<>> /\ v[k + 1] = Joined(v[k], ss[k + 1])
    <3>1. 0 \in 0..k /\ k \in 0..k
      OBVIOUS
    <3> QED
      BY <2>0, <2>1, <3>1
  <2>3. \A i \in 1..k : v[i] = Joined(v[i - 1], ss[i])
    <3>1. \A i \in 1..k : i \in 0..k /\ i - 1 \in 0..k
      OBVIOUS
    <3> QED
      BY <2>0, <2>1, <3>1
  <2>4. \A i \in 1..(k + 1) : i \in 1..k \/ i = k + 1
    OBVIOUS
  <2>5. (k + 1) - 1 = k /\ v = [i \in 0..(k + 1) |-> v[i]]
    BY DEF v
  <2>6. Along(v, k + 1)
    BY <2>2, <2>3, <2>4, <2>5
  <2>7. Good(k + 1)
    BY <2>5, <2>6
  <2> QED
    BY <2>7
<1>4. Len(ss) \in K
  <2> HIDE DEF K
  <2> QED
    BY <1>1, <1>2, <1>3, SetInduction
<1>5. PICK u : u = [i \in 0..Len(ss) |-> u[i]] /\ Along(u, Len(ss))
  BY <1>4
<1>6. \A i \in 0..Len(ss) : u[i] = IF i = 0 THEN <<>> ELSE Joined(u[i - 1], ss[i])
  <2>1. \A i \in 0..Len(ss) : i = 0 \/ i \in 1..Len(ss)
    BY <1>1
  <2> QED
    BY <1>5, <2>1, Zenon
<1> QED
  BY <1>5, <1>6 DEF IsLoop

\* A loop over elements of S gives a sequence of them.
LEMMA LoopType ==
    ASSUME NEW S, NEW ss \in Seq(Seq(S)), NEW u, IsLoop(u, ss)
    PROVE  \A i \in 0..Len(ss) : u[i] \in Seq(S)
<1> DEFINE K == {k \in Nat : k <= Len(ss) => u[k] \in Seq(S)}
<1>1. /\ Len(ss) \in Nat
      /\ \A i \in 1..Len(ss) : ss[i] \in Seq(S)
  OBVIOUS
<1>2. u[0] = <<>> /\ Turns(u, ss)
  BY LoopMeaning
<1>3. 0 \in K
  <2>1. <<>> \in Seq(S)
    OBVIOUS
  <2> QED
    BY <1>2, <2>1
<1>4. ASSUME NEW k \in Nat, k \in K PROVE k + 1 \in K
  <2> SUFFICES ASSUME k + 1 <= Len(ss) PROVE u[k + 1] \in Seq(S)
    OBVIOUS
  <2>1. u[k] \in Seq(S) /\ k + 1 \in 1..Len(ss) /\ (k + 1) - 1 = k
    BY <1>1, <1>4
  <2>2. u[k + 1] = Joined(u[k], ss[k + 1])
    BY <1>2, <2>1 DEF Turns
  <2>3. ss[k + 1] \in Seq(S)
    BY <1>1, <2>1
  <2> QED
    BY <2>1, <2>2, <2>3 DEF Joined
<1>5. \A n \in Nat : n \in K
  <2> HIDE DEF K
  <2> QED
    BY <1>3, <1>4, SetInduction
<1> QED
  BY <1>1, <1>5

LEMMA FlatType ==
    ASSUME NEW S, NEW ss \in Seq(Seq(S)), NEW r, Flat(r, ss)
    PROVE  r \in Seq(S)
<1>1. PICK u : IsLoop(u, ss) /\ r = u[Len(ss)]
  BY DEF Flat
<1>2. Len(ss) \in 0..Len(ss)
  OBVIOUS
<1> QED
  BY <1>1, <1>2, LoopType

Begins(x, y) == Len(x) <= Len(y) /\ \A i \in 1..Len(x) : y[i] = x[i]

AgreeUpTo(n, x, y) ==
    n <= Len(x) /\ n <= Len(y) /\ \A i \in 1..n : y[i] = x[i]

\* Loops that agree on their first n turns agree on what they have then.
LEMMA LoopsAgree ==
    ASSUME NEW S, NEW ss \in Seq(Seq(S)), NEW tt \in Seq(Seq(S)),
           NEW n \in Nat, AgreeUpTo(n, ss, tt),
           NEW u, IsLoop(u, ss), NEW v, IsLoop(v, tt)
    PROVE  u[n] = v[n]
<1> DEFINE K == {k \in Nat : k <= n => u[k] = v[k]}
<1>1. /\ Len(ss) \in Nat /\ Len(tt) \in Nat /\ n <= Len(ss) /\ n <= Len(tt)
      /\ \A i \in 1..n : tt[i] = ss[i]
  BY DEF AgreeUpTo
<1>2. u[0] = <<>> /\ Turns(u, ss) /\ v[0] = <<>> /\ Turns(v, tt)
  BY LoopMeaning
<1>3. 0 \in K
  BY <1>2
<1>4. ASSUME NEW k \in Nat, k \in K PROVE k + 1 \in K
  <2> SUFFICES ASSUME k + 1 <= n PROVE u[k + 1] = v[k + 1]
    OBVIOUS
  <2>1. /\ u[k] = v[k] /\ k + 1 \in 1..n /\ (k + 1) - 1 = k
        /\ k + 1 \in 1..Len(ss) /\ k + 1 \in 1..Len(tt)
        /\ tt[k + 1] = ss[k + 1]
    BY <1>1, <1>4
  <2>2. /\ u[k + 1] = Joined(u[(k + 1) - 1], ss[k + 1])
        /\ v[k + 1] = Joined(v[(k + 1) - 1], tt[k + 1])
    BY <1>2, <2>1 DEF Turns
  <2> QED
    BY <2>1, <2>2
<1>5. \A k \in Nat : k \in K
  <2> HIDE DEF K
  <2> QED
    BY <1>3, <1>4, SetInduction
<1> QED
  BY <1>5

LEMMA LoopContinues ==
    ASSUME NEW S, NEW ss \in Seq(Seq(S)), NEW tt \in Seq(Seq(S)),
           Begins(ss, tt),
           NEW u, IsLoop(u, ss), NEW v, IsLoop(v, tt)
    PROVE  v[Len(ss)] = u[Len(ss)]
<1>1. Len(ss) \in Nat /\ Len(ss) <= Len(ss)
  OBVIOUS
<1>2. ASSUME NEW n \in Nat, n = Len(ss) PROVE u[n] = v[n]
  <2>1. AgreeUpTo(n, ss, tt)
    BY <1>1, <1>2 DEF Begins, AgreeUpTo
  <2> QED
    BY <2>1, LoopsAgree
<1> QED
  BY <1>1, <1>2

\* One turn more.
LEMMA FlatStep ==
    ASSUME NEW S, NEW ss \in Seq(Seq(S)), NEW tt \in Seq(Seq(S)),
           Begins(ss, tt), Len(tt) = Len(ss) + 1,
           NEW r, Flat(r, ss), NEW q, Flat(q, tt)
    PROVE  q = Joined(r, tt[Len(tt)])
<1>1. PICK u : IsLoop(u, ss) /\ r = u[Len(ss)]
  BY DEF Flat
<1>2. PICK v : IsLoop(v, tt) /\ q = v[Len(tt)]
  BY DEF Flat
<1>3. Len(ss) \in Nat /\ Len(tt) \in 1..Len(tt) /\ Len(tt) - 1 = Len(ss)
  OBVIOUS
<1>4. u[Len(ss)] = v[Len(ss)]
  BY <1>1, <1>2, LoopContinues
<1>5. v[Len(tt)] = Joined(v[Len(tt) - 1], tt[Len(tt)])
  BY <1>2, <1>3, LoopMeaning DEF Turns
<1> QED
  BY <1>1, <1>2, <1>3, <1>4, <1>5

SilentAfter(n, tt) == \A i \in (n + 1)..Len(tt) : tt[i] = <<>>

\* Turns that append nothing.
LEMMA FlatSilent ==
    ASSUME NEW S, NEW ss \in Seq(Seq(S)), NEW tt \in Seq(Seq(S)),
           Begins(ss, tt), SilentAfter(Len(ss), tt),
           NEW r, Flat(r, ss), NEW q, Flat(q, tt)
    PROVE  q = r
<1>1. PICK u : IsLoop(u, ss) /\ r = u[Len(ss)]
  BY DEF Flat
<1>2. PICK v : IsLoop(v, tt) /\ q = v[Len(tt)]
  BY DEF Flat
<1>3. Len(ss) \in Nat /\ Len(tt) \in Nat /\ Len(ss) <= Len(tt)
  BY DEF Begins
<1>4. u[Len(ss)] = v[Len(ss)]
  BY <1>1, <1>2, LoopContinues
<1> DEFINE K == {k \in Nat : k + Len(ss) <= Len(tt)
                                => v[k + Len(ss)] = v[Len(ss)]}
<1>5. 0 \in K
  BY <1>3
<1>6. ASSUME NEW k \in Nat, k \in K PROVE k + 1 \in K
  <2> SUFFICES ASSUME (k + 1) + Len(ss) <= Len(tt)
               PROVE  v[(k + 1) + Len(ss)] = v[Len(ss)]
    OBVIOUS
  <2> DEFINE j == (k + 1) + Len(ss)
  <2>1. /\ j \in 1..Len(tt) /\ j \in (Len(ss) + 1)..Len(tt)
        /\ j - 1 = k + Len(ss) /\ j - 1 \in 0..Len(tt)
        /\ v[k + Len(ss)] = v[Len(ss)]
    BY <1>3, <1>6
  <2> HIDE DEF j
  <2>2. v[j] = Joined(v[j - 1], tt[j]) /\ tt[j] = <<>>
    BY <1>2, <2>1, LoopMeaning DEF Turns, SilentAfter
  <2>3. v[j - 1] \in Seq(S)
    BY <1>2, <2>1, LoopType
  <2>4. v[j] = v[j - 1]
    BY <2>2, <2>3 DEF Joined
  <2> QED
    BY <2>1, <2>4 DEF j
<1>7. \A k \in Nat : k \in K
  <2> HIDE DEF K
  <2> QED
    BY <1>5, <1>6, SetInduction
<1>8. Len(tt) - Len(ss) \in Nat /\ (Len(tt) - Len(ss)) + Len(ss) = Len(tt)
  BY <1>3
<1>9. Len(tt) - Len(ss) \in K
  <2> HIDE DEF K
  <2> QED
    BY <1>7, <1>8
<1>10. v[Len(tt)] = v[Len(ss)]
  BY <1>3, <1>8, <1>9
<1> QED
  BY <1>1, <1>2, <1>4, <1>10

IsJoin(z, x, y) ==
    /\ Len(z) = Len(x) + Len(y)
    /\ \A i \in 1..Len(x) : z[i] = x[i]
    /\ \A i \in 1..Len(y) : z[Len(x) + i] = y[i]

LEMMA JoinMeaning ==
    ASSUME NEW S, NEW x \in Seq(S), NEW y \in Seq(S)
    PROVE  Joined(x, y) \in Seq(S) /\ IsJoin(Joined(x, y), x, y)
<1>0. Len(x) \in Nat /\ Len(y) \in Nat
  OBVIOUS
<1>1. /\ x \o y \in Seq(S) /\ Len(x \o y) = Len(x) + Len(y)
      /\ \A i \in 1..(Len(x) + Len(y)) :
            (x \o y)[i] = IF i <= Len(x) THEN x[i] ELSE y[i - Len(x)]
  BY ConcatProperties
<1>2. /\ \A i \in 1..Len(x) : i <= Len(x) /\ i \in 1..(Len(x) + Len(y))
      /\ \A i \in 1..Len(y) : /\ ~(Len(x) + i <= Len(x))
                              /\ Len(x) + i \in 1..(Len(x) + Len(y))
                              /\ (Len(x) + i) - Len(x) = i
  BY <1>0
<1> QED
  BY <1>1, <1>2 DEF Joined, IsJoin

LEMMA JoinOne ==
    ASSUME NEW S, NEW x \in Seq(S), NEW y \in Seq(S), Len(y) = 1
    PROVE  /\ Len(x \o y) = Len(x) + 1
           /\ (x \o y)[Len(x) + 1] = y[1]
           /\ \A i \in 1..Len(x) : (x \o y)[i] = x[i]
<1>0. Len(x) \in Nat
  OBVIOUS
<1>1. /\ Len(x \o y) = Len(x) + Len(y)
      /\ \A i \in 1..(Len(x) + Len(y)) :
            (x \o y)[i] = IF i <= Len(x) THEN x[i] ELSE y[i - Len(x)]
  BY ConcatProperties
<1>2. /\ (Len(x) + 1) - Len(x) = 1 /\ ~(Len(x) + 1 <= Len(x))
      /\ Len(x) + 1 \in 1..(Len(x) + Len(y))
      /\ \A i \in 1..Len(x) : i <= Len(x) /\ i \in 1..(Len(x) + Len(y))
  BY <1>0
<1> QED
  BY <1>1, <1>2

\* When every turn appends one element, the result lists what they append.
LEMMA FlatSingles ==
    ASSUME NEW S, NEW ss \in Seq(Seq(S)), NEW r, Flat(r, ss),
           \A i \in 1..Len(ss) : Len(ss[i]) = 1
    PROVE  Len(r) = Len(ss) /\ \A i \in 1..Len(ss) : r[i] = ss[i][1]
<1>1. PICK u : IsLoop(u, ss) /\ r = u[Len(ss)]
  BY DEF Flat
<1>2. Len(ss) \in Nat
  OBVIOUS
<1>3. \A i \in 0..Len(ss) : u[i] \in Seq(S)
  BY <1>1, LoopType
<1>4. u[0] = <<>> /\ Turns(u, ss)
  BY <1>1, LoopMeaning
<1> DEFINE K == {k \in Nat : k <= Len(ss) =>
                    Len(u[k]) = k /\ \A i \in 1..k : u[k][i] = ss[i][1]}
<1>5. 0 \in K
  BY <1>4
<1>6. ASSUME NEW k \in Nat, k \in K PROVE k + 1 \in K
  <2> SUFFICES ASSUME k + 1 <= Len(ss)
               PROVE  /\ Len(u[k + 1]) = k + 1
                      /\ \A i \in 1..(k + 1) : u[k + 1][i] = ss[i][1]
    OBVIOUS
  <2>1. /\ Len(u[k]) = k /\ \A i \in 1..k : u[k][i] = ss[i][1]
        /\ k \in 0..Len(ss) /\ k + 1 \in 1..Len(ss) /\ (k + 1) - 1 = k
    BY <1>2, <1>6
  <2>2. u[k] \in Seq(S) /\ ss[k + 1] \in Seq(S) /\ Len(ss[k + 1]) = 1
    BY <1>3, <2>1
  <2>3. u[k + 1] = u[k] \o ss[k + 1]
    BY <1>4, <2>1 DEF Turns, Joined
  <2> DEFINE w == u[k]
             y == ss[k + 1]
  <2>4. /\ Len(w \o y) = Len(w) + 1 /\ (w \o y)[Len(w) + 1] = y[1]
        /\ \A i \in 1..Len(w) : (w \o y)[i] = w[i]
    <3> HIDE DEF w, y
    <3>1. w \in Seq(S) /\ y \in Seq(S) /\ Len(y) = 1
      BY <2>2 DEF w, y
    <3> QED
      BY <3>1, JoinOne
  <2>5. \A i \in 1..(k + 1) : i \in 1..k \/ i = k + 1
    OBVIOUS
  <2> QED
    BY <2>1, <2>3, <2>4, <2>5
<1>7. Len(ss) \in K
  <2> HIDE DEF K
  <2> QED
    BY <1>2, <1>5, <1>6, SetInduction
<1> QED
  BY <1>1, <1>2, <1>7

\* Two loops whose turns append related elements.
Related(R, x, y) ==
    Len(y) = Len(x) /\ \A j \in 1..Len(x) : <<x[j], y[j]>> \in R

LEMMA JoinRelated ==
    ASSUME NEW S, NEW R, NEW w \in Seq(S), NEW x \in Seq(S), NEW y \in Seq(S),
           NEW z \in Seq(S), Related(R, w, y), Related(R, x, z)
    PROVE  Related(R, Joined(w, x), Joined(y, z))
<1>1. /\ Len(w) \in Nat /\ Len(x) \in Nat /\ Len(y) = Len(w) /\ Len(z) = Len(x)
      /\ Len(w \o x) = Len(w) + Len(x) /\ Len(y \o z) = Len(w) + Len(x)
  <2>1. Len(w) \in Nat /\ Len(x) \in Nat /\ Len(y) = Len(w) /\ Len(z) = Len(x)
    BY DEF Related
  <2>2. Len(w \o x) = Len(w) + Len(x) /\ Len(y \o z) = Len(y) + Len(z)
    BY ConcatProperties
  <2> QED
    BY <2>1, <2>2
<1>2. ASSUME NEW j \in 1..(Len(w) + Len(x))
      PROVE  <<(w \o x)[j], (y \o z)[j]>> \in R
  <2>1. CASE j \in 1..Len(w)
    <3>1. (w \o x)[j] = w[j] /\ (y \o z)[j] = y[j]
      BY <1>1, <2>1, ConcatProperties
    <3> QED
      BY <2>1, <3>1 DEF Related
  <2>2. CASE j \notin 1..Len(w)
    <3>1. j - Len(w) \in 1..Len(x)
      BY <1>1, <2>2
    <3>2. (w \o x)[j] = x[j - Len(w)] /\ (y \o z)[j] = z[j - Len(w)]
      BY <1>1, <2>2, ConcatProperties
    <3> QED
      BY <3>1, <3>2 DEF Related
  <2> QED
    BY <2>1, <2>2
<1> QED
  BY <1>1, <1>2 DEF Related, Joined

LEMMA FlatRelated ==
    ASSUME NEW S, NEW R, NEW ss \in Seq(Seq(S)), NEW tt \in Seq(Seq(S)),
           Len(tt) = Len(ss), \A i \in 1..Len(ss) : Related(R, ss[i], tt[i]),
           NEW r, Flat(r, ss), NEW q, Flat(q, tt)
    PROVE  Related(R, r, q)
<1>1. PICK u : IsLoop(u, ss) /\ r = u[Len(ss)]
  BY DEF Flat
<1>2. PICK v : IsLoop(v, tt) /\ q = v[Len(tt)]
  BY DEF Flat
<1>3. Len(ss) \in Nat
  OBVIOUS
<1>4. /\ \A i \in 0..Len(ss) : u[i] \in Seq(S)
      /\ \A i \in 0..Len(ss) : v[i] \in Seq(S)
  BY <1>1, <1>2, LoopType
<1>5. u[0] = <<>> /\ Turns(u, ss) /\ v[0] = <<>> /\ Turns(v, tt)
  BY <1>1, <1>2, LoopMeaning
<1> DEFINE K == {k \in Nat : k <= Len(ss) => Related(R, u[k], v[k])}
<1>6. 0 \in K
  <2>1. Related(R, <<>>, <<>>)
    BY DEF Related
  <2> QED
    BY <1>5, <2>1
<1>7. ASSUME NEW k \in Nat, k \in K PROVE k + 1 \in K
  <2> SUFFICES ASSUME k + 1 <= Len(ss) PROVE Related(R, u[k + 1], v[k + 1])
    OBVIOUS
  <2>1. /\ Related(R, u[k], v[k]) /\ k \in 0..Len(ss) /\ k + 1 \in 1..Len(ss)
        /\ (k + 1) - 1 = k
    BY <1>3, <1>7
  <2>2. /\ u[k] \in Seq(S) /\ v[k] \in Seq(S)
        /\ ss[k + 1] \in Seq(S) /\ tt[k + 1] \in Seq(S)
    BY <1>4, <2>1
  <2>3. u[k + 1] = Joined(u[k], ss[k + 1]) /\ v[k + 1] = Joined(v[k], tt[k + 1])
    BY <1>5, <2>1 DEF Turns
  <2>4. Related(R, ss[k + 1], tt[k + 1])
    BY <2>1
  <2> QED
    BY <2>1, <2>2, <2>3, <2>4, JoinRelated
<1>8. Len(ss) \in K
  <2> HIDE DEF K
  <2> QED
    BY <1>3, <1>6, <1>7, SetInduction
<1> QED
  BY <1>1, <1>2, <1>3, <1>8

-----------------------------------------------------------------------------
(* Cells and lines.                                                        *)

JournalEntry ==
    [id : TxnId \cup {0}, state : State, offset : Nat, payload : Seq(Cell)]

LogRecord == [id : TxnId, state : State]

LEMMA CellKinds ==
    ASSUME NEW c \in Cell
    PROVE  /\ c.kind = "id" => c.id \in TxnId \cup {0}
           /\ HasState(c) => StateOf(c) \in State
           /\ c.kind = "payload" => c.record \in TxnId
           /\ c.kind # "newline" => c # Newline
           /\ Overwritten(c) \in Cell
<1>1. \/ c \in [kind : {"id"}, id : TxnId \cup {0}]
      \/ c \in [kind : {"state"}, state : State]
      \/ c \in [kind : {"payload"}, record : TxnId]
      \/ c \in [kind : {"newline", "text"}]
  BY DEF Cell
<1>2. Overwritten(c) \in Cell
  BY DEF Overwritten, StateCell, IdCell, Text, Cell, State
<1>3. c.kind # "newline" => c # Newline
  BY DEF Newline
<1>4. HasState(c) => StateOf(c) \in State
  BY <1>1 DEF HasState, StateOf, State
<1> QED
  BY <1>1, <1>2, <1>3, <1>4

LEMMA CellTypes ==
    /\ \A n \in TxnId \cup {0} : IdCell(n) \in Cell
    /\ \A s \in State : StateCell(s) \in Cell
    /\ \A n \in TxnId : PayloadCell(n) \in Cell
    /\ Newline \in Cell /\ Text \in Cell
BY DEF Cell, IdCell, StateCell, PayloadCell, Newline, Text

\* Every line starts somewhere.
LEMMA LineStartMeaning ==
    ASSUME NEW f, NEW i \in Nat \ {0}
    PROVE  /\ LineStart(f, i) \in 0..(i - 1)
           /\ LineStart(f, i) = 0 \/ f[LineStart(f, i)] = Newline
           /\ \A j \in (LineStart(f, i) + 1)..(i - 1) : f[j] # Newline
<1> DEFINE Starts(s, k) == /\ s = 0 \/ f[s] = Newline
                           /\ \A j \in (s + 1)..k : f[j] # Newline
           K == {k \in Nat : \E s \in 0..k : Starts(s, k)}
<1>1. 0 \in K
  <2>1. 0 \in 0..0 /\ Starts(0, 0)
    OBVIOUS
  <2> QED
    BY <2>1
<1>2. ASSUME NEW k \in Nat, k \in K PROVE k + 1 \in K
  <2>1. PICK s \in 0..k : Starts(s, k)
    BY <1>2
  <2>2. CASE f[k + 1] = Newline
    <3>1. k + 1 \in 0..(k + 1) /\ Starts(k + 1, k + 1)
      BY <2>2
    <3> QED
      BY <3>1
  <2>3. CASE f[k + 1] # Newline
    <3>1. \A j \in (s + 1)..(k + 1) : j \in (s + 1)..k \/ j = k + 1
      OBVIOUS
    <3>2. s \in 0..(k + 1) /\ Starts(s, k + 1)
      BY <2>1, <2>3, <3>1
    <3> QED
      BY <3>2
  <2> QED
    BY <2>2, <2>3
<1>3. i - 1 \in K
  <2> HIDE DEF K
  <2> QED
    BY <1>1, <1>2, SetInduction
<1>4. \E s \in 0..(i - 1) : Starts(s, i - 1)
  BY <1>3
<1> QED
  BY <1>4 DEF LineStart

LEMMA LineStartIs ==
    ASSUME NEW f, NEW i \in Nat \ {0}, NEW s \in 0..(i - 1),
           s = 0 \/ f[s] = Newline,
           \A j \in (s + 1)..(i - 1) : f[j] # Newline
    PROVE  LineStart(f, i) = s
<1> DEFINE z == LineStart(f, i)
<1>1. /\ z \in 0..(i - 1)
      /\ z = 0 \/ f[z] = Newline
      /\ \A j \in (z + 1)..(i - 1) : f[j] # Newline
  BY LineStartMeaning
<1> HIDE DEF z
<1>2. ~(s < z)
  BY <1>1
<1>3. ~(z < s)
  BY <1>1
<1> QED
  BY <1>1, <1>2, <1>3 DEF z

\* The cells of a line.
LEMMA LineCells ==
    ASSUME NEW f \in Seq(Cell), NEW i \in 1..Len(f)
    PROVE  LET l == LineBefore(f, i)
           IN  /\ l.offset = LineStart(f, i)
               /\ l.offset \in 0..(i - 1)
               /\ l.cells \in Seq(Cell)
               /\ Len(l.cells) = (i - 1) - l.offset
               /\ \A j \in 1..Len(l.cells) : l.cells[j] = f[l.offset + j]
<1> DEFINE z == LineStart(f, i)
<1>1. z \in 0..(i - 1) /\ Len(f) \in Nat
  BY LineStartMeaning
<1> HIDE DEF z
<1> DEFINE c == SubSeq(f, z + 1, i - 1)
<1>2. \A j \in (z + 1)..(i - 1) : f[j] \in Cell
  BY <1>1
<1>3. z + 1 \in Int /\ i - 1 \in Int
  BY <1>1
<1>4. /\ c \in Seq(Cell)
      /\ Len(c) = (IF z + 1 <= i - 1 THEN (i - 1) - (z + 1) + 1 ELSE 0)
      /\ \A j \in 1..((i - 1) - (z + 1) + 1) : c[j] = f[(z + 1) + j - 1]
  BY <1>2, <1>3, SubSeqProperties
<1>5. Len(c) = (i - 1) - z
  BY <1>1, <1>4
<1>6. \A j \in 1..Len(c) : c[j] = f[z + j]
  <2>1. \A j \in 1..Len(c) : /\ j \in 1..((i - 1) - (z + 1) + 1)
                             /\ (z + 1) + j - 1 = z + j
    BY <1>1, <1>5
  <2> QED
    BY <1>4, <2>1
<1>7. LineBefore(f, i) = [offset |-> z, cells |-> c]
  BY DEF LineBefore, z
<1> QED
  BY <1>1, <1>4, <1>5, <1>6, <1>7 DEF z

LEMMA EntryType ==
    ASSUME NEW l, l.offset \in Nat, l.cells \in Seq(Cell), WellFormed(l)
    PROVE  Entry(l) \in JournalEntry
<1>1. /\ Len(l.cells) \in Nat /\ Len(l.cells) >= 2
      /\ l.cells[1] \in Cell /\ l.cells[2] \in Cell
      /\ l.cells[1].kind = "id" /\ HasState(l.cells[2])
  BY DEF WellFormed
<1>2. l.cells[1].id \in TxnId \cup {0} /\ StateOf(l.cells[2]) \in State
  BY <1>1, CellKinds
<1>3. SubSeq(l.cells, 3, Len(l.cells)) \in Seq(Cell)
  BY <1>1, SubSeqProperties
<1> QED
  BY <1>2, <1>3 DEF Entry, JournalEntry

EntriesAt(f) == [i \in 1..Len(f) |-> EntryAt(f, i)]

LEMMA EntriesAtType ==
    ASSUME NEW f \in Seq(Cell)
    PROVE  /\ EntriesAt(f) \in Seq(Seq(JournalEntry))
           /\ Len(EntriesAt(f)) = Len(f)
           /\ \A i \in 1..Len(f) : EntriesAt(f)[i] = EntryAt(f, i)
<1>1. Len(f) \in Nat
  OBVIOUS
<1>2. ASSUME NEW i \in 1..Len(f)
      PROVE  EntryAt(f, i) \in Seq(JournalEntry)
  <2>1. CASE f[i] = Newline /\ WellFormed(LineBefore(f, i))
    <3>1. Entry(LineBefore(f, i)) \in JournalEntry
      BY <2>1, LineCells, EntryType
    <3> QED
      BY <2>1, <3>1 DEF EntryAt
  <2>2. CASE ~(f[i] = Newline /\ WellFormed(LineBefore(f, i)))
    BY <2>2 DEF EntryAt
  <2> QED
    BY <2>1, <2>2
<1> QED
  BY <1>1, <1>2 DEF EntriesAt

IsParse(u, f) ==
    u = [i \in 0..Len(f) |->
            IF i = 0 THEN <<>> ELSE Joined(u[i - 1], EntryAt(f, i))]

\* The constructor's loop over the cells of a file.
LEMMA ParseIsFlat ==
    ASSUME NEW f \in Seq(Cell)
    PROVE  Flat(Parse(f), EntriesAt(f)) /\ Parse(f) \in Seq(JournalEntry)
<1> DEFINE g == CHOOSE u : IsParse(u, f)
<1>1. Parse(f) = g[Len(f)]
  BY DEF Parse, IsParse, Joined
<1>2. \A u : IsParse(u, f) <=> IsLoop(u, EntriesAt(f))
  <2>1. Len(EntriesAt(f)) = Len(f) /\ Len(f) \in Nat
    BY EntriesAtType
  <2>2. \A i \in 0..Len(f) : i # 0 => EntryAt(f, i) = EntriesAt(f)[i]
    BY EntriesAtType
  <2> QED
    BY <2>1, <2>2 DEF IsParse, IsLoop
<1>3. \E u : IsParse(u, f)
  BY <1>2, EntriesAtType, LoopExists
<1>4. IsParse(g, f)
  BY <1>3
<1>5. Flat(Parse(f), EntriesAt(f))
  BY <1>1, <1>2, <1>4, EntriesAtType DEF Flat
<1> QED
  BY <1>5, EntriesAtType, FlatType

LoadsOf(es) == [k \in 1..Len(es) |-> Loaded(es[k])]

IsLoad(u, es) ==
    u = [k \in 0..Len(es) |->
            IF k = 0 THEN <<>> ELSE Joined(u[k - 1], Loaded(es[k]))]

LEMMA LoadsOfType ==
    ASSUME NEW es \in Seq(JournalEntry)
    PROVE  /\ LoadsOf(es) \in Seq(Seq(LogRecord))
           /\ Len(LoadsOf(es)) = Len(es)
           /\ \A k \in 1..Len(es) : LoadsOf(es)[k] = Loaded(es[k])
<1>1. Len(es) \in Nat
  OBVIOUS
<1>2. ASSUME NEW k \in 1..Len(es)
      PROVE  Loaded(es[k]) \in Seq(LogRecord)
  <2>1. es[k] \in JournalEntry
    OBVIOUS
  <2>2. CASE Readable(es[k])
    <3>1. es[k].payload[1] \in Cell /\ es[k].payload[1].kind = "payload"
      BY <2>1, <2>2 DEF Readable, JournalEntry
    <3>2. es[k].payload[1].record \in TxnId /\ es[k].state \in State
      BY <2>1, <3>1, CellKinds DEF JournalEntry
    <3> QED
      BY <2>2, <3>2 DEF Loaded, LogRecord
  <2>3. CASE ~Readable(es[k])
    BY <2>3 DEF Loaded
  <2> QED
    BY <2>2, <2>3
<1> QED
  BY <1>1, <1>2 DEF LoadsOf

LEMMA LoadIsFlat ==
    ASSUME NEW es \in Seq(JournalEntry)
    PROVE  Flat(load_all(es), LoadsOf(es)) /\ load_all(es) \in Seq(LogRecord)
<1> DEFINE g == CHOOSE u : IsLoad(u, es)
<1>1. load_all(es) = g[Len(es)]
  BY DEF load_all, IsLoad, Joined
<1>2. \A u : IsLoad(u, es) <=> IsLoop(u, LoadsOf(es))
  <2>1. Len(LoadsOf(es)) = Len(es) /\ Len(es) \in Nat
    BY LoadsOfType
  <2>2. \A k \in 0..Len(es) : k # 0 => Loaded(es[k]) = LoadsOf(es)[k]
    BY LoadsOfType
  <2> QED
    BY <2>1, <2>2 DEF IsLoad, IsLoop
<1>3. \E u : IsLoad(u, es)
  BY <1>2, LoadsOfType, LoopExists
<1>4. IsLoad(g, es)
  BY <1>3
<1>5. Flat(load_all(es), LoadsOf(es))
  BY <1>1, <1>2, <1>4, LoadsOfType DEF Flat
<1> QED
  BY <1>5, LoadsOfType, FlatType

Record(e) == [id |-> e.payload[1].record, state |-> e.state]

\* Records without a damaged payload are all loaded, in order.
LEMMA LoadsAll ==
    ASSUME NEW es \in Seq(JournalEntry), \A k \in 1..Len(es) : Readable(es[k])
    PROVE  /\ load_all(es) \in Seq(LogRecord)
           /\ Len(load_all(es)) = Len(es)
           /\ \A k \in 1..Len(es) : load_all(es)[k] = Record(es[k])
<1>1. Len(es) \in Nat
  OBVIOUS
<1>2. \A k \in 1..Len(es) : LoadsOf(es)[k] = <<Record(es[k])>>
  BY LoadsOfType DEF Loaded, Record
<1> DEFINE ss == LoadsOf(es)
<1>3. /\ ss \in Seq(Seq(LogRecord)) /\ Len(ss) = Len(es)
      /\ \A k \in 1..Len(ss) : Len(ss[k]) = 1 /\ ss[k][1] = Record(es[k])
  <2>1. ss \in Seq(Seq(LogRecord)) /\ Len(ss) = Len(es)
    BY LoadsOfType
  <2>2. \A k \in 1..Len(es) : ss[k] = <<Record(es[k])>>
    BY <1>2
  <2> HIDE DEF ss
  <2>3. \A z : Len(<<z>>) = 1 /\ <<z>>[1] = z
    OBVIOUS
  <2> QED
    BY <2>1, <2>2, <2>3
<1>4. Flat(load_all(es), ss)
  BY LoadIsFlat
<1> HIDE DEF ss
<1>5. /\ Len(load_all(es)) = Len(ss)
      /\ \A k \in 1..Len(ss) : load_all(es)[k] = ss[k][1]
  BY <1>3, <1>4, FlatSingles
<1> QED
  BY <1>3, <1>5, LoadIsFlat

-----------------------------------------------------------------------------
(* A file that grows or is cut.                                            *)

\* What is read at a position depends on the cells up to it.
LEMMA ReadsAgree ==
    ASSUME NEW f \in Seq(Cell), NEW h \in Seq(Cell), Begins(f, h)
    PROVE  /\ \A i \in 1..(Len(f) + 1) : LineStart(h, i) = LineStart(f, i)
           /\ \A i \in 1..Len(f) : EntryAt(h, i) = EntryAt(f, i)
<1>1. /\ Len(f) \in Nat /\ Len(h) \in Nat /\ Len(f) <= Len(h)
      /\ \A i \in 1..Len(f) : h[i] = f[i]
  BY DEF Begins
<1>2. ASSUME NEW i \in 1..(Len(f) + 1)
      PROVE  LineStart(h, i) = LineStart(f, i)
  <2> DEFINE z == LineStart(f, i)
  <2>1. i \in Nat \ {0} /\ \A j \in 1..(i - 1) : h[j] = f[j]
    BY <1>1
  <2>2. /\ z \in 0..(i - 1)
        /\ z = 0 \/ f[z] = Newline
        /\ \A j \in (z + 1)..(i - 1) : f[j] # Newline
    BY <2>1, LineStartMeaning
  <2> HIDE DEF z
  <2>3. /\ z = 0 \/ h[z] = Newline
        /\ \A j \in (z + 1)..(i - 1) : h[j] # Newline
    BY <2>1, <2>2
  <2>4. LineStart(h, i) = z
    BY <2>1, <2>2, <2>3, LineStartIs
  <2> QED
    BY <2>4 DEF z
<1>3. ASSUME NEW i \in 1..Len(f)
      PROVE  EntryAt(h, i) = EntryAt(f, i)
  <2> DEFINE l == LineBefore(f, i)
             k == LineBefore(h, i)
  <2>1. /\ l.offset \in 0..(i - 1) /\ l.cells \in Seq(Cell)
        /\ Len(l.cells) = (i - 1) - l.offset
        /\ \A j \in 1..Len(l.cells) : l.cells[j] = f[l.offset + j]
        /\ l.offset = LineStart(f, i)
    BY LineCells
  <2>2. /\ k.offset \in 0..(i - 1) /\ k.cells \in Seq(Cell)
        /\ Len(k.cells) = (i - 1) - k.offset
        /\ \A j \in 1..Len(k.cells) : k.cells[j] = h[k.offset + j]
        /\ k.offset = LineStart(h, i)
    <3>1. i \in 1..Len(h)
      BY <1>1
    <3> QED
      BY <3>1, LineCells
  <2>3. l = [offset |-> l.offset, cells |-> l.cells]
        /\ k = [offset |-> k.offset, cells |-> k.cells]
    BY DEF LineBefore
  <2> HIDE DEF l, k
  <2>4. k.offset = l.offset
    BY <1>1, <1>2, <2>1, <2>2
  <2>5. \A j \in 1..Len(l.cells) : l.offset + j \in 1..Len(f)
    BY <1>1, <2>1
  <2>6. Len(k.cells) = Len(l.cells)
        /\ \A j \in 1..Len(l.cells) : k.cells[j] = l.cells[j]
    BY <1>1, <2>1, <2>2, <2>4, <2>5
  <2>7. k.cells = l.cells
    BY <2>1, <2>2, <2>6, SeqEqual
  <2>8. k = l
    BY <2>3, <2>4, <2>7
  <2> QED
    BY <1>1, <2>8 DEF EntryAt, l, k
<1> QED
  BY <1>2, <1>3

\* Cells without a newline behind the last line.
LEMMA SilentTail ==
    ASSUME NEW f \in Seq(Cell), NEW h \in Seq(Cell), Begins(f, h),
           \A i \in (Len(f) + 1)..Len(h) : h[i] # Newline
    PROVE  Parse(h) = Parse(f) /\ TailStart(h) = TailStart(f)
<1>1. Len(f) \in Nat /\ Len(h) \in Nat /\ Len(f) <= Len(h)
  BY DEF Begins
<1>2. Parse(h) = Parse(f)
  <2> DEFINE ss == EntriesAt(f)
             tt == EntriesAt(h)
             r == Parse(f)
             q == Parse(h)
  <2>1. /\ ss \in Seq(Seq(JournalEntry)) /\ Len(ss) = Len(f)
        /\ tt \in Seq(Seq(JournalEntry)) /\ Len(tt) = Len(h)
        /\ Flat(r, ss) /\ Flat(q, tt)
    BY EntriesAtType, ParseIsFlat
  <2>2. \A i \in 1..Len(f) : tt[i] = ss[i]
    BY <1>1, EntriesAtType, ReadsAgree
  <2>3. \A i \in (Len(f) + 1)..Len(h) : tt[i] = <<>>
    <3>1. \A i \in (Len(f) + 1)..Len(h) : i \in 1..Len(h)
      BY <1>1
    <3> QED
      BY <3>1, EntriesAtType DEF EntryAt
  <2> HIDE DEF ss, tt, r, q
  <2>4. Begins(ss, tt) /\ SilentAfter(Len(ss), tt)
    BY <1>1, <2>1, <2>2, <2>3 DEF Begins, SilentAfter
  <2>5. q = r
    BY <2>1, <2>4, FlatSilent
  <2> QED
    BY <2>5 DEF q, r
<1>3. TailStart(h) = TailStart(f)
  <2> DEFINE z == LineStart(f, Len(f) + 1)
  <2>1. /\ z \in 0..((Len(f) + 1) - 1)
        /\ z = 0 \/ f[z] = Newline
        /\ \A j \in (z + 1)..((Len(f) + 1) - 1) : f[j] # Newline
    BY <1>1, LineStartMeaning
  <2>2. TailStart(f) = z
    BY DEF TailStart
  <2> HIDE DEF z
  <2>3. /\ z \in 0..((Len(h) + 1) - 1)
        /\ z = 0 \/ h[z] = Newline
    BY <1>1, <2>1 DEF Begins
  <2>4. ASSUME NEW j \in (z + 1)..((Len(h) + 1) - 1) PROVE h[j] # Newline
    <3>1. CASE j <= Len(f)
      BY <1>1, <2>1, <3>1 DEF Begins
    <3>2. CASE ~(j <= Len(f))
      BY <1>1, <2>1, <3>2
    <3> QED
      BY <3>1, <3>2
  <2>5. LineStart(h, Len(h) + 1) = z
    <3>1. Len(h) + 1 \in Nat \ {0}
      BY <1>1
    <3> QED
      BY <2>3, <2>4, <3>1, LineStartIs
  <2> QED
    BY <2>2, <2>5 DEF TailStart
<1> QED
  BY <1>2, <1>3

LEMMA TailMeaning ==
    ASSUME NEW f \in Seq(Cell)
    PROVE  /\ TailStart(f) \in 0..Len(f)
           /\ TailStart(f) = 0 \/ f[TailStart(f)] = Newline
           /\ \A j \in (TailStart(f) + 1)..Len(f) : f[j] # Newline
<1>1. Len(f) \in Nat /\ Len(f) + 1 \in Nat \ {0} /\ (Len(f) + 1) - 1 = Len(f)
  OBVIOUS
<1> QED
  BY <1>1, LineStartMeaning DEF TailStart

\* Dropping the tail loses no line.
LEMMA CutMeaning ==
    ASSUME NEW f \in Seq(Cell)
    PROVE  LET g == SubSeq(f, 1, TailStart(f))
           IN  /\ g \in Seq(Cell) /\ Len(g) = TailStart(f)
               /\ Parse(g) = Parse(f) /\ TailStart(g) = TailStart(f)
<1> DEFINE g == SubSeq(f, 1, TailStart(f))
<1>1. /\ Len(f) \in Nat /\ TailStart(f) \in 0..Len(f)
      /\ \A j \in (TailStart(f) + 1)..Len(f) : f[j] # Newline
  BY TailMeaning
<1>2. /\ g \in Seq(Cell) /\ Len(g) = TailStart(f)
      /\ \A i \in 1..TailStart(f) : g[i] = f[i]
  <2>1. \A i \in 1..TailStart(f) : f[i] \in Cell
    BY <1>1
  <2>2. 1 \in Int /\ TailStart(f) \in Int
    BY <1>1
  <2>3. /\ g \in Seq(Cell)
        /\ Len(g) = IF 1 <= TailStart(f) THEN TailStart(f) - 1 + 1 ELSE 0
        /\ \A i \in 1..(TailStart(f) - 1 + 1) : g[i] = f[1 + i - 1]
    BY <2>1, <2>2, SubSeqProperties
  <2> HIDE DEF g
  <2> QED
    BY <1>1, <2>3
<1> HIDE DEF g
<1>3. Begins(g, f)
  BY <1>1, <1>2 DEF Begins
<1>4. Parse(f) = Parse(g) /\ TailStart(f) = TailStart(g)
  BY <1>1, <1>2, <1>3, SilentTail
<1> QED
  BY <1>2, <1>4 DEF g

NewEntry(n, s, offset) ==
    [id |-> n, state |-> s, offset |-> offset, payload |-> <<PayloadCell(n)>>]

\* The cells of a line that is being written.
LEMMA LineType ==
    ASSUME NEW n \in TxnId, NEW s \in State
    PROVE  /\ Line(n, s) \in Seq(Cell) /\ Len(Line(n, s)) = 4
           /\ Line(n, s)[1] = IdCell(n) /\ Line(n, s)[2] = StateCell(s)
           /\ Line(n, s)[3] = PayloadCell(n) /\ Line(n, s)[4] = Newline
           /\ \A i \in 1..3 : Line(n, s)[i] # Newline
<1>1. /\ IdCell(n) \in Cell /\ StateCell(s) \in Cell /\ PayloadCell(n) \in Cell
      /\ Newline \in Cell
  BY CellTypes
<1>2. /\ IdCell(n) # Newline /\ StateCell(s) # Newline
      /\ PayloadCell(n) # Newline
  BY <1>1, CellKinds DEF IdCell, StateCell, PayloadCell
<1> QED
  BY <1>1, <1>2 DEF Line

\* h is f and the first cells of a line.
HasPart(h, f, n, s, written) ==
    /\ h \in Seq(Cell) /\ Len(h) = Len(f) + written
    /\ \A i \in 1..Len(f) : h[i] = f[i]
    /\ \A i \in 1..written : h[Len(f) + i] = Line(n, s)[i]
    /\ Parse(h) = Parse(f) /\ TailStart(h) = Len(f)

\* A part of a line is a tail.
LEMMA PartAdded ==
    ASSUME NEW f \in Seq(Cell), TailStart(f) = Len(f),
           NEW n \in TxnId, NEW s \in State, NEW written \in 0..3,
           NEW h, h = Joined(f, SubSeq(Line(n, s), 1, written))
    PROVE  HasPart(h, f, n, s, written)
<1> DEFINE p == SubSeq(Line(n, s), 1, written)
<1>1. /\ p \in Seq(Cell) /\ Len(p) = written
      /\ \A i \in 1..written : p[i] = Line(n, s)[i]
      /\ \A i \in 1..written : p[i] # Newline
  <2>1. /\ \A i \in 1..written : Line(n, s)[i] \in Cell
        /\ \A i \in 1..written : Line(n, s)[i] # Newline
    BY LineType
  <2>2. /\ p \in Seq(Cell)
        /\ Len(p) = IF 1 <= written THEN written - 1 + 1 ELSE 0
        /\ \A i \in 1..(written - 1 + 1) : p[i] = Line(n, s)[1 + i - 1]
    BY <2>1, SubSeqProperties
  <2> HIDE DEF p
  <2>3. Len(p) = written /\ \A i \in 1..written : p[i] = Line(n, s)[i]
    BY <2>2
  <2> QED
    BY <2>1, <2>2, <2>3
<1> HIDE DEF p
<1>2. h = Joined(f, p) /\ Len(f) \in Nat
  BY DEF p
<1>3. /\ h \in Seq(Cell) /\ Len(h) = Len(f) + written
      /\ \A i \in 1..Len(f) : h[i] = f[i]
      /\ \A i \in 1..written : h[Len(f) + i] = p[i]
  <2>1. p \in Seq(Cell)
    BY <1>1
  <2>2. Joined(f, p) \in Seq(Cell) /\ IsJoin(Joined(f, p), f, p)
    BY <2>1, JoinMeaning
  <2>3. Len(p) = written
    BY <1>1
  <2> QED
    BY <1>2, <2>2, <2>3, Zenon DEF IsJoin
<1>4. \A i \in 1..written : h[Len(f) + i] # Newline
  BY <1>1, <1>3
<1>5. Begins(f, h)
  BY <1>2, <1>3 DEF Begins
<1>6. ASSUME NEW i \in (Len(f) + 1)..Len(h) PROVE h[i] # Newline
  <2> DEFINE j == i - Len(f)
  <2>1. j \in 1..written /\ Len(f) + j = i
    BY <1>2, <1>3
  <2> HIDE DEF j
  <2> QED
    BY <1>4, <2>1
<1>7. Parse(h) = Parse(f) /\ TailStart(h) = TailStart(f)
  BY <1>3, <1>5, <1>6, SilentTail
<1>8. \A i \in 1..written : h[Len(f) + i] = Line(n, s)[i]
  BY <1>1, <1>3
<1> QED
  BY <1>3, <1>7, <1>8 DEF HasPart

\* g is f and a line.
HasLine(g, f, n, s) ==
    /\ g \in Seq(Cell) /\ Len(g) = Len(f) + 4
    /\ Parse(g) = Append(Parse(f), NewEntry(n, s, Len(f)))
    /\ TailStart(g) = Len(g)

\* A whole line is an entry.
LEMMA LineAdded ==
    ASSUME NEW f \in Seq(Cell), TailStart(f) = Len(f),
           NEW n \in TxnId, NEW s \in State, NEW g, g = Joined(f, Line(n, s))
    PROVE  HasLine(g, f, n, s)
<1> DEFINE h == Joined(f, SubSeq(Line(n, s), 1, 3))
           m == Len(f)
<1>1. m \in Nat /\ 3 \in 0..3 /\ h = Joined(f, SubSeq(Line(n, s), 1, 3)) /\ m = Len(f)
  OBVIOUS
<1> HIDE DEF h, m
<1>2. /\ h \in Seq(Cell) /\ Len(h) = m + 3
      /\ \A i \in 1..m : h[i] = f[i]
      /\ \A i \in 1..3 : h[m + i] = Line(n, s)[i]
      /\ Parse(h) = Parse(f) /\ TailStart(h) = m
  <2>1. HasPart(h, f, n, s, 3)
    <3>1. 3 \in 0..3 /\ h = Joined(f, SubSeq(Line(n, s), 1, 3))
      BY <1>1
    <3> QED
      BY <3>1, PartAdded
  <2> QED
    BY <1>1, <2>1 DEF HasPart
<1>3. /\ g \in Seq(Cell) /\ Len(g) = m + 4
      /\ \A i \in 1..m : g[i] = f[i]
      /\ \A i \in 1..4 : g[m + i] = Line(n, s)[i]
  <2> DEFINE p == Line(n, s)
  <2>1. p \in Seq(Cell) /\ Len(p) = 4
    BY LineType
  <2> HIDE DEF p
  <2>2. p \in Seq(Cell)
    BY <2>1
  <2>3. Joined(f, p) \in Seq(Cell) /\ IsJoin(Joined(f, p), f, p)
    BY <2>2, JoinMeaning
  <2>4. g = Joined(f, p) /\ m = Len(f)
    BY <1>1 DEF p
  <2> QED
    BY <2>1, <2>3, <2>4, Zenon DEF p, IsJoin
<1>5. Begins(h, g)
  <2>1. ASSUME NEW i \in 1..(m + 3) PROVE g[i] = h[i]
    <3>1. CASE i \in 1..m
      BY <1>2, <1>3, <3>1
    <3>2. CASE i \notin 1..m
      <4> DEFINE j == i - m
      <4>1. j \in 1..3 /\ j \in 1..4 /\ m + j = i
        BY <1>1, <3>2
      <4> HIDE DEF j
      <4>2. g[m + j] = Line(n, s)[j] /\ h[m + j] = Line(n, s)[j]
        BY <1>2, <1>3, <4>1
      <4> QED
        BY <4>1, <4>2
    <3> QED
      BY <3>1, <3>2
  <2> QED
    BY <1>1, <1>2, <1>3, <2>1 DEF Begins
<1>6. g[m + 4] = Newline /\ m + 4 \in 1..Len(g)
  <2>1. 4 \in 1..4 /\ m + 4 \in 1..(m + 4) /\ Line(n, s)[4] = Newline
    BY <1>1, LineType
  <2> QED
    BY <1>3, <2>1
<1>7. LineStart(g, m + 4) = m
  <2>1. LineStart(h, Len(h) + 1) = m /\ Len(h) + 1 = m + 4
    BY <1>1, <1>2 DEF TailStart
  <2>2. Len(h) + 1 \in 1..(Len(h) + 1)
    BY <1>1, <1>2
  <2>3. \A i \in 1..(Len(h) + 1) : LineStart(g, i) = LineStart(h, i)
    BY <1>2, <1>3, <1>5, ReadsAgree
  <2> QED
    BY <2>1, <2>2, <2>3
<1> DEFINE l == LineBefore(g, m + 4)
<1>8. /\ l.offset = m /\ l.cells \in Seq(Cell) /\ Len(l.cells) = 3
      /\ \A j \in 1..3 : l.cells[j] = Line(n, s)[j]
  <2>1. /\ l.offset = LineStart(g, m + 4)
        /\ l.cells \in Seq(Cell)
        /\ Len(l.cells) = ((m + 4) - 1) - l.offset
        /\ \A j \in 1..Len(l.cells) : l.cells[j] = g[l.offset + j]
    BY <1>3, <1>6, LineCells
  <2> HIDE DEF l
  <2>2. Len(l.cells) = 3 /\ l.offset = m
    BY <1>1, <1>7, <2>1
  <2>3. \A j \in 1..3 : j \in 1..4
    OBVIOUS
  <2> QED
    BY <1>3, <2>1, <2>2, <2>3
<1>9. WellFormed(l) /\ Entry(l) = NewEntry(n, s, m)
  <2> HIDE DEF l
  <2>1. /\ l.cells[1] = IdCell(n) /\ l.cells[2] = StateCell(s)
        /\ l.cells[3] = PayloadCell(n)
    BY <1>8, LineType
  <2>2. SubSeq(l.cells, 3, Len(l.cells)) = <<PayloadCell(n)>>
    <3> DEFINE c == l.cells
    <3>1. c \in Seq(Cell) /\ Len(c) = 3 /\ c[3] = PayloadCell(n)
      BY <1>8, <2>1
    <3> HIDE DEF c
    <3>2. \A j \in 3..3 : c[j] \in Cell
      <4>1. c \in Seq(Cell)
        BY <3>1
      <4>2. \A j \in 1..Len(c) : c[j] \in Cell
        BY <4>1, ElementOfSeq
      <4>3. \A j \in 3..3 : j \in 1..Len(c)
        BY <3>1
      <4> QED
        BY <4>2, <4>3
    <3> DEFINE d == SubSeq(c, 3, 3)
    <3>3. /\ d \in Seq(Cell)
          /\ Len(d) = IF 3 <= 3 THEN 3 - 3 + 1 ELSE 0
          /\ \A j \in 1..(3 - 3 + 1) : d[j] = c[3 + j - 1]
      BY <3>2, SubSeqProperties
    <3>4. <<PayloadCell(n)>> \in Seq(Cell)
      BY CellTypes
    <3> HIDE DEF d
    <3>5. Len(d) = 1 /\ d[1] = PayloadCell(n)
      BY <3>1, <3>3
    <3>6. d = <<PayloadCell(n)>>
      <4> DEFINE e == <<PayloadCell(n)>>
      <4>1. e \in Seq(Cell) /\ Len(e) = 1 /\ e[1] = PayloadCell(n)
        BY <3>4
      <4> HIDE DEF e
      <4>2. d = e
        BY <3>3, <3>5, <4>1, SeqEqual
      <4> QED
        BY <4>2 DEF e
    <3> QED
      BY <3>1, <3>6 DEF d, c
  <2> QED
    BY <1>8, <2>1, <2>2
    DEF WellFormed, Entry, NewEntry, HasState, StateOf, IdCell, StateCell
<1>10. EntryAt(g, m + 4) = <<NewEntry(n, s, m)>>
  BY <1>6, <1>9 DEF EntryAt
<1>11. Parse(g) = Append(Parse(f), NewEntry(n, s, m))
  <2> DEFINE ss == EntriesAt(h)
             tt == EntriesAt(g)
             r == Parse(h)
             q == Parse(g)
  <2>1. /\ ss \in Seq(Seq(JournalEntry)) /\ Len(ss) = Len(h)
        /\ tt \in Seq(Seq(JournalEntry)) /\ Len(tt) = Len(g)
        /\ Flat(r, ss) /\ Flat(q, tt) /\ r \in Seq(JournalEntry)
    BY <1>2, <1>3, EntriesAtType, ParseIsFlat
  <2>2. \A i \in 1..Len(h) : tt[i] = ss[i]
    <3>1. /\ \A i \in 1..Len(h) : ss[i] = EntryAt(h, i)
          /\ \A i \in 1..Len(g) : tt[i] = EntryAt(g, i)
      BY <1>2, <1>3, EntriesAtType
    <3>2. \A i \in 1..Len(h) : EntryAt(g, i) = EntryAt(h, i)
      BY <1>2, <1>3, <1>5, ReadsAgree
    <3>3. \A i \in 1..Len(h) : i \in 1..Len(g)
      BY <1>1, <1>2, <1>3
    <3> HIDE DEF ss, tt
    <3> QED
      BY <3>1, <3>2, <3>3
  <2>3. tt[Len(tt)] = <<NewEntry(n, s, m)>>
    BY <1>3, <1>6, <1>10, EntriesAtType
  <2> HIDE DEF ss, tt, r, q
  <2>4. Begins(ss, tt) /\ Len(tt) = Len(ss) + 1
    BY <1>1, <1>2, <1>3, <2>1, <2>2 DEF Begins
  <2>5. q = Joined(r, tt[Len(tt)])
    BY <2>1, <2>4, FlatStep
  <2>6. q = r \o <<NewEntry(n, s, m)>>
    BY <2>3, <2>5 DEF Joined
  <2>7. r = Parse(f) /\ q = Parse(g)
    BY <1>2 DEF r, q
  <2>8. r \o <<NewEntry(n, s, m)>> = Append(r, NewEntry(n, s, m))
    BY <2>1, AppendIsConcat
  <2> QED
    BY <2>6, <2>7, <2>8
<1>12. TailStart(g) = Len(g)
  <2>1. /\ Len(g) + 1 \in Nat \ {0} /\ Len(g) \in 0..((Len(g) + 1) - 1)
        /\ g[Len(g)] = Newline
        /\ \A j \in (Len(g) + 1)..((Len(g) + 1) - 1) : g[j] # Newline
    BY <1>1, <1>3, <1>6
  <2> QED
    BY <2>1, LineStartIs DEF TailStart
<1> QED
  BY <1>1, <1>3, <1>11, <1>12 DEF HasLine

-----------------------------------------------------------------------------
(* A file a commit marker is written into.                                 *)

\* The entries of a file are those of its lines.
LEMMA EntryOrigin ==
    ASSUME NEW f \in Seq(Cell)
    PROVE  \A k \in 1..Len(Parse(f)) : \E i \in 1..Len(f) :
              /\ f[i] = Newline /\ WellFormed(LineBefore(f, i))
              /\ Parse(f)[k] = Entry(LineBefore(f, i))
<1> DEFINE I == {i \in 1..Len(f) : f[i] = Newline /\ WellFormed(LineBefore(f, i))}
           S == {Entry(LineBefore(f, i)) : i \in I}
           ss == EntriesAt(f)
<1>1. Len(f) \in Nat
  OBVIOUS
<1>2. ASSUME NEW i \in 1..Len(f)
      PROVE  EntryAt(f, i) \in Seq(S)
  <2>1. CASE i \in I
    <3>1. Entry(LineBefore(f, i)) \in S
      BY <2>1
    <3>2. EntryAt(f, i) = <<Entry(LineBefore(f, i))>>
      BY <2>1 DEF EntryAt
    <3> HIDE DEF S, I
    <3> QED
      BY <3>1, <3>2
  <2>2. CASE i \notin I
    <3>1. EntryAt(f, i) = <<>>
      BY <2>2 DEF EntryAt
    <3> HIDE DEF S, I
    <3> QED
      BY <3>1
  <2> QED
    BY <2>1, <2>2
<1>3. ss \in Seq(Seq(S))
  <2> HIDE DEF S
  <2> QED
    BY <1>1, <1>2 DEF EntriesAt
<1>4. Flat(Parse(f), ss)
  BY ParseIsFlat
<1>5. Parse(f) \in Seq(S)
  <2> HIDE DEF S, ss
  <2> QED
    BY <1>3, <1>4, FlatType
<1>6. \A k \in 1..Len(Parse(f)) : Parse(f)[k] \in S
  <2> HIDE DEF S
  <2> QED
    BY <1>5, ElementOfSeq
<1> QED
  BY <1>6

\* The line of a newline and its second cell, where the marker goes.
LEMMA LineHeader ==
    ASSUME NEW f \in Seq(Cell), NEW i \in 1..Len(f), f[i] = Newline,
           WellFormed(LineBefore(f, i))
    PROVE  LET z == LineStart(f, i)
               e == Entry(LineBefore(f, i))
           IN  /\ z \in Nat /\ z + 2 < i /\ z + 2 \in 1..Len(f)
               /\ HasState(f[z + 2]) /\ e.state = StateOf(f[z + 2])
               /\ e.offset = z
<1> DEFINE l == LineBefore(f, i)
<1>1. /\ l.offset = LineStart(f, i) /\ l.offset \in 0..(i - 1)
      /\ Len(l.cells) = (i - 1) - l.offset
      /\ \A j \in 1..Len(l.cells) : l.cells[j] = f[l.offset + j]
  BY LineCells
<1>2. Len(l.cells) >= 2 /\ HasState(l.cells[2])
  BY DEF WellFormed
<1>3. Entry(l).state = StateOf(l.cells[2]) /\ Entry(l).offset = l.offset
  BY DEF Entry
<1> HIDE DEF l
<1>4. i \in Nat /\ Len(f) \in Nat /\ i <= Len(f)
  OBVIOUS
<1>5. 2 \in 1..Len(l.cells) /\ l.offset + 2 < i /\ l.offset + 2 \in 1..Len(f)
  BY <1>1, <1>2, <1>4
<1>6. l.cells[2] = f[l.offset + 2]
  BY <1>1, <1>5
<1>7. l.offset \in Nat
  BY <1>1
<1> QED
  BY <1>1, <1>2, <1>3, <1>5, <1>6, <1>7 DEF l

\* A line is known by where it starts, and by any of its cells.
LEMMA LineOfCell ==
    ASSUME NEW f \in Seq(Cell), NEW i \in 1..Len(f), NEW k \in 1..Len(f),
           f[i] = Newline, f[k] = Newline, NEW q \in Nat,
           LineStart(f, i) < q, q <= i, LineStart(f, k) < q, q <= k
    PROVE  i = k
<1> DEFINE a == LineStart(f, i)
           b == LineStart(f, k)
<1>1. /\ a \in 0..(i - 1) /\ \A j \in (a + 1)..(i - 1) : f[j] # Newline
      /\ b \in 0..(k - 1) /\ \A j \in (b + 1)..(k - 1) : f[j] # Newline
  BY LineStartMeaning
<1> HIDE DEF a, b
<1>2. a < q /\ b < q
  BY DEF a, b
<1>3. ~(i < k)
  BY <1>1, <1>2
<1>4. ~(k < i)
  BY <1>1, <1>2
<1> QED
  BY <1>3, <1>4

SameNewlines(f, g) ==
    /\ Len(g) = Len(f)
    /\ \A i \in 1..Len(f) : g[i] = Newline <=> f[i] = Newline

\* Lines start where they did if no newline comes or goes.
LEMMA SameLines ==
    ASSUME NEW f \in Seq(Cell), NEW g \in Seq(Cell), SameNewlines(f, g)
    PROVE  \A i \in 1..(Len(f) + 1) : LineStart(g, i) = LineStart(f, i)
<1> TAKE i \in 1..(Len(f) + 1)
<1> DEFINE z == LineStart(f, i)
<1>1. /\ Len(f) \in Nat /\ i \in Nat \ {0} /\ i <= Len(f) + 1
      /\ \A j \in 1..(i - 1) : g[j] = Newline <=> f[j] = Newline
  BY DEF SameNewlines
<1>2. /\ z \in 0..(i - 1)
      /\ z = 0 \/ f[z] = Newline
      /\ \A j \in (z + 1)..(i - 1) : f[j] # Newline
  BY <1>1, LineStartMeaning
<1> HIDE DEF z
<1>3. /\ z = 0 \/ g[z] = Newline
      /\ \A j \in (z + 1)..(i - 1) : g[j] # Newline
  <2>1. CASE z = 0
    <3>1. ASSUME NEW j \in (z + 1)..(i - 1) PROVE g[j] # Newline
      <4>1. j \in 1..(i - 1) /\ f[j] # Newline
        BY <1>1, <1>2
      <4> QED
        BY <1>1, <4>1
    <3> QED
      BY <2>1, <3>1
  <2>2. CASE z # 0
    <3>1. z \in 1..(i - 1) /\ f[z] = Newline
      BY <1>1, <1>2, <2>2
    <3>2. g[z] = Newline
      BY <1>1, <3>1
    <3>3. ASSUME NEW j \in (z + 1)..(i - 1) PROVE g[j] # Newline
      <4>1. j \in 1..(i - 1) /\ f[j] # Newline
        BY <1>1, <1>2
      <4> QED
        BY <1>1, <4>1
    <3> QED
      BY <3>2, <3>3
  <2> QED
    BY <2>1, <2>2
<1>4. LineStart(g, i) = z
  BY <1>1, <1>2, <1>3, LineStartIs
<1> QED
  BY <1>4 DEF z

\* g is f with a commit marker at q.
CellMarked(g, f, q) ==
    /\ g \in Seq(Cell) /\ SameNewlines(f, g)
    /\ g[q] = StateCell("Committed")
    /\ \A j \in 1..Len(f) : j # q => g[j] = f[j]

LEMMA MarkedCells ==
    ASSUME NEW f \in Seq(Cell), NEW q \in 1..Len(f), f[q].kind = "state"
    PROVE  CellMarked([f EXCEPT ![q] = StateCell("Committed")], f, q)
<1> DEFINE g == [f EXCEPT ![q] = StateCell("Committed")]
<1>1. StateCell("Committed") \in Cell
  BY CellTypes DEF State
<1>2. /\ g \in Seq(Cell) /\ Len(g) = Len(f)
      /\ \A j \in 1..Len(f) : g[j] = IF j = q THEN StateCell("Committed") ELSE f[j]
  BY <1>1, ExceptSeq
<1>3. f[q] # Newline /\ StateCell("Committed") # Newline
  BY DEF Newline, StateCell
<1> QED
  BY <1>2, <1>3 DEF SameNewlines, CellMarked

\* The marker changes no other line.
LEMMA OtherLinesKept ==
    ASSUME NEW f \in Seq(Cell), NEW g \in Seq(Cell), SameNewlines(f, g),
           NEW i \in 1..Len(f), f[i] = Newline,
           NEW q \in Nat, LineStart(f, i) < q, q <= i,
           \A j \in 1..Len(f) : j # q => g[j] = f[j],
           NEW k \in 1..Len(f), k # i
    PROVE  EntryAt(g, k) = EntryAt(f, k)
<1>0. k \in 1..Len(g) /\ (g[k] = Newline <=> f[k] = Newline)
  BY DEF SameNewlines
<1>1. CASE f[k] # Newline
  BY <1>0, <1>1 DEF EntryAt
<1>2. CASE f[k] = Newline
  <2> DEFINE l == LineBefore(f, k)
             m == LineBefore(g, k)
  <2>1. /\ l.offset = LineStart(f, k) /\ l.offset \in 0..(k - 1)
        /\ l.cells \in Seq(Cell) /\ Len(l.cells) = (k - 1) - l.offset
        /\ \A j \in 1..Len(l.cells) : l.cells[j] = f[l.offset + j]
    BY LineCells
  <2>2. /\ m.offset = LineStart(g, k) /\ m.offset \in 0..(k - 1)
        /\ m.cells \in Seq(Cell) /\ Len(m.cells) = (k - 1) - m.offset
        /\ \A j \in 1..Len(m.cells) : m.cells[j] = g[m.offset + j]
    BY <1>0, LineCells
  <2>3. l = [offset |-> l.offset, cells |-> l.cells]
        /\ m = [offset |-> m.offset, cells |-> m.cells]
    BY DEF LineBefore
  <2> HIDE DEF l, m
  <2>4. m.offset = l.offset
    <3>1. k \in 1..(Len(f) + 1)
      OBVIOUS
    <3> QED
      BY <2>1, <2>2, <3>1, SameLines
  <2>5. ~(l.offset < q /\ q <= k)
    BY <1>2, <2>1, LineOfCell
  <2>6. ASSUME NEW j \in 1..Len(l.cells)
        PROVE  m.cells[j] = l.cells[j]
    <3> DEFINE p == l.offset + j
    <3>1. p \in 1..Len(f) /\ l.offset < p /\ p <= k
      BY <2>1
    <3>2. l.cells[j] = f[p] /\ m.cells[j] = g[p]
      BY <2>1, <2>2, <2>4
    <3> HIDE DEF p
    <3> QED
      BY <2>5, <3>1, <3>2
  <2>7. Len(m.cells) = Len(l.cells)
    BY <2>1, <2>2, <2>4
  <2>8. m.cells = l.cells
    BY <2>1, <2>2, <2>6, <2>7, SeqEqual
  <2>9. m = l
    BY <2>3, <2>4, <2>8
  <2> QED
    BY <1>0, <2>9 DEF EntryAt, l, m
<1> QED
  BY <1>1, <1>2

\* It makes its own line Committed.
LEMMA OwnLineMarked ==
    ASSUME NEW f \in Seq(Cell), NEW g \in Seq(Cell), SameNewlines(f, g),
           NEW i \in 1..Len(f), f[i] = Newline, WellFormed(LineBefore(f, i)),
           g[LineStart(f, i) + 2] = StateCell("Committed"),
           \A j \in 1..Len(f) : j # LineStart(f, i) + 2 => g[j] = f[j]
    PROVE  EntryAt(g, i) =
              <<[Entry(LineBefore(f, i)) EXCEPT !.state = "Committed"]>>
<1> DEFINE l == LineBefore(f, i)
           m == LineBefore(g, i)
<1>0. i \in 1..Len(g) /\ g[i] = Newline
  BY DEF SameNewlines
<1>1. /\ l.offset = LineStart(f, i) /\ l.offset \in 0..(i - 1)
      /\ l.cells \in Seq(Cell) /\ Len(l.cells) = (i - 1) - l.offset
      /\ \A j \in 1..Len(l.cells) : l.cells[j] = f[l.offset + j]
  BY LineCells
<1>2. /\ m.offset = LineStart(g, i) /\ m.offset \in 0..(i - 1)
      /\ m.cells \in Seq(Cell) /\ Len(m.cells) = (i - 1) - m.offset
      /\ \A j \in 1..Len(m.cells) : m.cells[j] = g[m.offset + j]
  BY <1>0, LineCells
<1>3. /\ g[l.offset + 2] = StateCell("Committed")
      /\ \A j \in 1..Len(f) : j # l.offset + 2 => g[j] = f[j]
  BY <1>1
<1> HIDE DEF l, m
<1>4. m.offset = l.offset
  <2>1. i \in 1..(Len(f) + 1)
    OBVIOUS
  <2> QED
    BY <1>1, <1>2, <2>1, SameLines
<1>5. Len(m.cells) = Len(l.cells)
  BY <1>1, <1>2, <1>4
<1>6. /\ Len(l.cells) >= 2 /\ l.cells[1].kind = "id"
  BY DEF WellFormed, l
<1>7. m.cells[2] = StateCell("Committed")
  <2>1. 2 \in 1..Len(m.cells)
    BY <1>1, <1>5, <1>6
  <2> QED
    BY <1>2, <1>3, <1>4, <2>1
<1>8. ASSUME NEW j \in 1..Len(l.cells), j # 2
      PROVE  m.cells[j] = l.cells[j]
  <2> DEFINE p == l.offset + j
  <2>1. p \in 1..Len(f) /\ p # l.offset + 2
    BY <1>1, <1>8
  <2>2. l.cells[j] = f[p] /\ m.cells[j] = g[p]
    BY <1>1, <1>2, <1>4, <1>5
  <2> HIDE DEF p
  <2> QED
    BY <1>3, <2>1, <2>2
<1>9. m.cells[1] = l.cells[1]
  <2>1. 1 \in 1..Len(l.cells) /\ 1 # 2
    BY <1>1, <1>6
  <2> QED
    BY <1>8, <2>1
<1> DEFINE x == SubSeq(l.cells, 3, Len(l.cells))
           y == SubSeq(m.cells, 3, Len(m.cells))
<1>10. y = x
  <2> DEFINE n == Len(l.cells)
  <2>0. n \in Nat /\ n >= 2 /\ Len(m.cells) = n
    BY <1>1, <1>5, <1>6
  <2>1. /\ \A j \in 3..n : j \in 1..Len(l.cells) /\ j \in 1..Len(m.cells)
        /\ 3 \in Int /\ n \in Int
    BY <2>0
  <2>2. /\ \A j \in 3..n : l.cells[j] \in Cell
        /\ \A j \in 3..n : m.cells[j] \in Cell
    BY <1>1, <1>2, <2>1, ElementOfSeq
  <2>3. /\ x \in Seq(Cell)
        /\ Len(x) = IF 3 <= n THEN n - 3 + 1 ELSE 0
        /\ \A j \in 1..(n - 3 + 1) : x[j] = l.cells[3 + j - 1]
    BY <2>1, <2>2, SubSeqProperties
  <2>4. /\ y \in Seq(Cell)
        /\ Len(y) = IF 3 <= n THEN n - 3 + 1 ELSE 0
        /\ \A j \in 1..(n - 3 + 1) : y[j] = m.cells[3 + j - 1]
    BY <2>0, <2>1, <2>2, SubSeqProperties
  <2>5. \A j \in 1..(n - 3 + 1) : /\ 3 + j - 1 \in 1..Len(l.cells)
                                  /\ 3 + j - 1 # 2
    BY <2>0
  <2> HIDE DEF x, y
  <2>6. \A j \in 1..(n - 3 + 1) : y[j] = x[j]
    BY <1>8, <2>3, <2>4, <2>5
  <2>7. Len(y) = Len(x) /\ \A j \in 1..Len(x) : j \in 1..(n - 3 + 1)
    BY <2>0, <2>3, <2>4
  <2>8. \A j \in 1..Len(x) : y[j] = x[j]
    BY <2>6, <2>7
  <2> QED
    BY <2>3, <2>4, <2>7, <2>8, SeqEqual
<1>11. WellFormed(m)
  BY <1>5, <1>6, <1>7, <1>9 DEF WellFormed, HasState, StateCell
<1>12. Entry(m) = [Entry(l) EXCEPT !.state = "Committed"]
  <2> HIDE DEF x, y
  <2>1. /\ Entry(m) = [id |-> m.cells[1].id, state |-> StateOf(m.cells[2]),
                       offset |-> m.offset, payload |-> y]
        /\ Entry(l) = [id |-> l.cells[1].id, state |-> StateOf(l.cells[2]),
                       offset |-> l.offset, payload |-> x]
    BY DEF Entry, x, y
  <2>2. StateOf(m.cells[2]) = "Committed"
    BY <1>7 DEF StateOf, StateCell
  <2> QED
    BY <1>4, <1>9, <1>10, <2>1, <2>2
<1> QED
  BY <1>0, <1>11, <1>12 DEF EntryAt, l, m

CommittedEntry(e) == [e EXCEPT !.state = "Committed"]

\* What the marker in the line of entry e makes of the others.
MarkRelation(e) ==
    {r \in JournalEntry \X JournalEntry :
        r[2] = IF r[1] = e THEN CommittedEntry(e) ELSE r[1]}

LEMMA CommittedType ==
    ASSUME NEW e \in JournalEntry
    PROVE  CommittedEntry(e) \in JournalEntry
BY DEF JournalEntry, CommittedEntry, State

\* A commit marker in the file is a Committed entry when it is read.
LEMMA MarkAdded ==
    ASSUME NEW f \in Seq(Cell), NEW i \in 1..Len(f), f[i] = Newline,
           WellFormed(LineBefore(f, i)),
           f[LineStart(f, i) + 2].kind = "state",
           NEW g, g = [f EXCEPT ![LineStart(f, i) + 2] = StateCell("Committed")]
    PROVE  /\ g \in Seq(Cell) /\ Len(g) = Len(f) /\ TailStart(g) = TailStart(f)
           /\ Related(MarkRelation(Entry(LineBefore(f, i))), Parse(f), Parse(g))
<1> DEFINE z == LineStart(f, i)
           q == z + 2
           e == Entry(LineBefore(f, i))
           R == MarkRelation(e)
<1>1. z \in Nat /\ q < i /\ q \in 1..Len(f) /\ z < q /\ q \in Nat /\ q <= i
  BY LineHeader
<1>2. /\ g \in Seq(Cell) /\ SameNewlines(f, g)
      /\ g[q] = StateCell("Committed")
      /\ \A j \in 1..Len(f) : j # q => g[j] = f[j]
  <2>1. /\ q \in 1..Len(f) /\ f[q].kind = "state"
        /\ g = [f EXCEPT ![q] = StateCell("Committed")]
    BY <1>1
  <2> HIDE DEF q
  <2>2. CellMarked(g, f, q)
    BY <2>1, MarkedCells
  <2> QED
    BY <2>2 DEF CellMarked
<1>3. Len(g) = Len(f) /\ Len(f) \in Nat
  BY <1>2 DEF SameNewlines
<1>4. TailStart(g) = TailStart(f)
  <2>1. Len(f) + 1 \in 1..(Len(f) + 1)
    BY <1>3
  <2>2. \A j \in 1..(Len(f) + 1) : LineStart(g, j) = LineStart(f, j)
    <3>1. g \in Seq(Cell) /\ SameNewlines(f, g)
      BY <1>2
    <3> QED
      BY <3>1, SameLines
  <2>3. LineStart(g, Len(f) + 1) = LineStart(f, Len(f) + 1)
    BY <2>1, <2>2
  <2> QED
    BY <1>3, <2>3 DEF TailStart
<1>5. e \in JournalEntry
  <2>1. e \in JournalEntry
    BY LineCells, EntryType
  <2> QED
    BY <2>1
<1>6. EntryAt(f, i) = <<e>> /\ EntryAt(g, i) = <<CommittedEntry(e)>>
  <2>1. EntryAt(f, i) = <<e>>
    BY DEF EntryAt
  <2>2. EntryAt(g, i) = <<CommittedEntry(e)>>
    BY <1>2, OwnLineMarked DEF CommittedEntry
  <2> QED
    BY <2>1, <2>2
<1>7. ASSUME NEW k \in 1..Len(f), k # i
      PROVE  EntryAt(g, k) = EntryAt(f, k)
  BY <1>1, <1>2, <1>7, OtherLinesKept
\* Entries of other lines are other entries.
<1>8. ASSUME NEW k \in 1..Len(f), k # i, NEW x, EntryAt(f, k) = <<x>>
      PROVE  x # e
  <2>1. f[k] = Newline /\ WellFormed(LineBefore(f, k))
        /\ x = Entry(LineBefore(f, k))
    <3>1. CASE f[k] = Newline /\ WellFormed(LineBefore(f, k))
      BY <1>8, <3>1 DEF EntryAt
    <3>2. CASE ~(f[k] = Newline /\ WellFormed(LineBefore(f, k)))
      <4>1. EntryAt(f, k) = <<>>
        BY <3>2 DEF EntryAt
      <4> QED
        BY <1>8, <4>1
    <3> QED
      BY <3>1, <3>2
  <2>2. x.offset = LineStart(f, k) /\ LineStart(f, k) + 2 < k
    BY <2>1, LineHeader
  <2>3. e.offset = z
    BY LineHeader
  <2>4. ASSUME LineStart(f, k) = z PROVE FALSE
    <3>1. z + 1 \in Nat /\ z < z + 1 /\ z + 1 <= i /\ z + 1 <= k
      BY <1>1, <2>2, <2>4
    <3>2. LineStart(f, i) < z + 1 /\ LineStart(f, k) < z + 1
      BY <2>4, <3>1
    <3> QED
      BY <1>8, <2>1, <3>1, <3>2, LineOfCell
  <2> QED
    BY <2>2, <2>3, <2>4
<1> DEFINE ss == EntriesAt(f)
           tt == EntriesAt(g)
<1>9. /\ ss \in Seq(Seq(JournalEntry)) /\ Len(ss) = Len(f)
      /\ tt \in Seq(Seq(JournalEntry)) /\ Len(tt) = Len(f)
      /\ \A k \in 1..Len(f) : ss[k] = EntryAt(f, k)
      /\ \A k \in 1..Len(f) : tt[k] = EntryAt(g, k)
      /\ Flat(Parse(f), ss) /\ Flat(Parse(g), tt)
  BY <1>2, <1>3, EntriesAtType, ParseIsFlat
<1>10. <<e, CommittedEntry(e)>> \in R
  BY <1>5, CommittedType DEF MarkRelation
<1>11. \A x \in JournalEntry : x # e => <<x, x>> \in R
  BY DEF MarkRelation
<1> HIDE DEF ss, tt, R, e, z, q
<1>12. ASSUME NEW k \in 1..Len(f)
       PROVE  Related(R, ss[k], tt[k])
  <2>1. CASE k = i
    <3>1. ss[k] = <<e>> /\ tt[k] = <<CommittedEntry(e)>>
      BY <1>6, <1>9, <2>1
    <3> QED
      BY <1>10, <3>1 DEF Related
  <2>2. CASE k # i
    <3>1. tt[k] = ss[k] /\ ss[k] \in Seq(JournalEntry)
      <4>1. ss[k] \in Seq(JournalEntry)
        BY <1>9, ElementOfSeq
      <4> QED
        BY <1>7, <1>9, <2>2, <4>1
    <3>2. ss[k] = EntryAt(f, k)
      BY <1>9
    <3>3. CASE f[k] = Newline /\ WellFormed(LineBefore(f, k))
      <4> DEFINE x == Entry(LineBefore(f, k))
      <4>1. ss[k] = <<x>>
        BY <3>2, <3>3 DEF EntryAt
      <4>2. x # e
        BY <1>8, <2>2, <3>2, <4>1
      <4>3. x \in JournalEntry
        BY <3>3, LineCells, EntryType
      <4> HIDE DEF x
      <4> QED
        BY <1>11, <3>1, <4>1, <4>2, <4>3 DEF Related
    <3>4. CASE ~(f[k] = Newline /\ WellFormed(LineBefore(f, k)))
      <4>1. ss[k] = <<>>
        BY <3>2, <3>4 DEF EntryAt
      <4> QED
        BY <3>1, <4>1 DEF Related
    <3> QED
      BY <3>3, <3>4
  <2> QED
    BY <2>1, <2>2
<1>13. Related(R, Parse(f), Parse(g))
  <2>1. Len(tt) = Len(ss) /\ \A k \in 1..Len(ss) : Related(R, ss[k], tt[k])
    BY <1>9, <1>12
  <2> QED
    BY <1>9, <2>1, FlatRelated
<1> QED
  BY <1>2, <1>3, <1>4, <1>13 DEF R, e

-----------------------------------------------------------------------------
(* Files the journal writes: every line whole, every id once.              *)

CleanEntry(e) ==
    /\ e.id \in TxnId
    /\ e.state \in {"Validated", "Committed"}
    /\ e.payload = <<PayloadCell(e.id)>>

Clean(es) ==
    /\ es \in Seq(JournalEntry)
    /\ \A k \in 1..Len(es) : CleanEntry(es[k])

UniqueLines(es) == \A j, k \in 1..Len(es) : es[j].id = es[k].id => j = k

GoodFile(f) == f \in Seq(Cell) /\ Clean(Parse(f)) /\ UniqueLines(Parse(f))

RecordOf(e) == [id |-> e.id, state |-> e.state]

\* Reading a clean journal gives one record per entry.
ReadsBack(es) ==
    /\ load_all(es) \in Seq(LogRecord)
    /\ Len(load_all(es)) = Len(es)
    /\ \A k \in 1..Len(es) : load_all(es)[k] = RecordOf(es[k])

LEMMA ReadBack ==
    ASSUME NEW es, Clean(es)
    PROVE  ReadsBack(es)
<1>0. es \in Seq(JournalEntry)
  BY DEF Clean
<1>1. ASSUME NEW k \in 1..Len(es)
      PROVE  Readable(es[k]) /\ Record(es[k]) = RecordOf(es[k])
  <2> DEFINE e == es[k]
  <2>1. e.payload = <<PayloadCell(e.id)>>
    BY DEF Clean, CleanEntry
  <2> HIDE DEF e
  <2>2. Len(e.payload) = 1 /\ e.payload[1] = PayloadCell(e.id)
    BY <2>1
  <2>3. e.payload[1].kind = "payload" /\ e.payload[1].record = e.id
    BY <2>2 DEF PayloadCell
  <2>4. Readable(e) /\ Record(e) = RecordOf(e)
    BY <2>2, <2>3 DEF Readable, Record, RecordOf
  <2> QED
    BY <2>4 DEF e
<1>2. /\ load_all(es) \in Seq(LogRecord)
      /\ Len(load_all(es)) = Len(es)
      /\ \A k \in 1..Len(es) : load_all(es)[k] = Record(es[k])
  BY <1>0, <1>1, LoadsAll
<1> QED
  BY <1>1, <1>2 DEF ReadsBack

NewLine(n) == [id |-> n, state |-> "Validated"]

\* Appending an entry appends its record.
LEMMA ReadAppended ==
    ASSUME NEW es, Clean(es), UniqueLines(es), NEW n \in TxnId,
           \A k \in 1..Len(es) : es[k].id # n, NEW z \in Nat
    PROVE  LET fs == Append(es, NewEntry(n, "Validated", z))
           IN  /\ Clean(fs) /\ UniqueLines(fs)
               /\ load_all(fs) = Append(load_all(es), NewLine(n))
<1> DEFINE x == NewEntry(n, "Validated", z)
           fs == Append(es, x)
<1>0. es \in Seq(JournalEntry) /\ Len(es) \in Nat
  BY DEF Clean
<1>1. x \in JournalEntry /\ CleanEntry(x) /\ x.id = n /\ RecordOf(x) = NewLine(n)
  <2>1. PayloadCell(n) \in Cell
    BY CellTypes
  <2>2. <<PayloadCell(n)>> \in Seq(Cell)
    BY <2>1
  <2> QED
    BY <2>2 DEF NewEntry, JournalEntry, CleanEntry, State, RecordOf, NewLine
<1> HIDE DEF x
<1>2. /\ fs \in Seq(JournalEntry) /\ Len(fs) = Len(es) + 1
      /\ \A k \in 1..Len(es) : fs[k] = es[k]
      /\ fs[Len(es) + 1] = x
  BY <1>0, <1>1, AppendProperties
<1> HIDE DEF fs
<1>3. \A k \in 1..Len(fs) : k \in 1..Len(es) \/ k = Len(es) + 1
  BY <1>0, <1>2
<1>4. Clean(fs)
  BY <1>1, <1>2, <1>3 DEF Clean
<1>5. UniqueLines(fs)
  BY <1>1, <1>2, <1>3 DEF UniqueLines
<1>6. ReadsBack(fs) /\ ReadsBack(es)
  BY <1>4, ReadBack
<1>7. load_all(fs) = Append(load_all(es), NewLine(n))
  <2> DEFINE r == load_all(es)
             q == load_all(fs)
             w == Append(r, NewLine(n))
  <2>1. /\ r \in Seq(LogRecord) /\ Len(r) = Len(es)
        /\ \A k \in 1..Len(es) : r[k] = RecordOf(es[k])
        /\ q \in Seq(LogRecord) /\ Len(q) = Len(es) + 1
        /\ \A k \in 1..Len(fs) : q[k] = RecordOf(fs[k])
    BY <1>2, <1>6 DEF ReadsBack
  <2>2. NewLine(n) \in LogRecord
    BY DEF NewLine, LogRecord, State
  <2> HIDE DEF r, q
  <2>3. /\ w \in Seq(LogRecord) /\ Len(w) = Len(r) + 1
        /\ \A k \in 1..Len(r) : w[k] = r[k]
        /\ w[Len(r) + 1] = NewLine(n)
    BY <2>1, <2>2, AppendProperties
  <2> HIDE DEF w
  <2>4. \A k \in 1..(Len(es) + 1) : q[k] = w[k]
    BY <1>1, <1>2, <1>3, <2>1, <2>3
  <2>5. q = w
    BY <2>1, <2>3, <2>4, SeqEqual
  <2> QED
    BY <2>5 DEF q, w, r
<1> QED
  BY <1>4, <1>5, <1>7 DEF fs, x

\* Committing an entry commits its record.
LEMMA ReadCommitted ==
    ASSUME NEW es, Clean(es), UniqueLines(es), NEW k \in 1..Len(es),
           NEW fs \in Seq(JournalEntry),
           Related(MarkRelation(es[k]), es, fs)
    PROVE  /\ Clean(fs) /\ UniqueLines(fs)
           /\ fs = [es EXCEPT ![k] = CommittedEntry(@)]
           /\ load_all(fs) = [load_all(es) EXCEPT ![k].state = "Committed"]
<1> DEFINE e == es[k]
<1>0. es \in Seq(JournalEntry) /\ Len(es) \in Nat /\ e \in JournalEntry
  BY DEF Clean
<1>1. /\ Len(fs) = Len(es)
      /\ \A j \in 1..Len(es) : fs[j] = IF es[j] = e THEN CommittedEntry(e) ELSE es[j]
  BY DEF Related, MarkRelation
<1>2. \A j \in 1..Len(es) : es[j] = e => j = k
  BY DEF UniqueLines
<1>3. \A j \in 1..Len(es) : fs[j] = IF j = k THEN CommittedEntry(e) ELSE es[j]
  BY <1>1, <1>2
<1>4. /\ CleanEntry(CommittedEntry(e)) /\ CommittedEntry(e).id = e.id
      /\ RecordOf(CommittedEntry(e)) = [RecordOf(e) EXCEPT !.state = "Committed"]
  <2>1. CleanEntry(e)
    BY DEF Clean
  <2> HIDE DEF e
  <2>2. /\ CommittedEntry(e).id = e.id /\ CommittedEntry(e).state = "Committed"
        /\ CommittedEntry(e).payload = e.payload
    BY <1>0 DEF CommittedEntry, JournalEntry
  <2> QED
    BY <2>1, <2>2 DEF CleanEntry, RecordOf
<1>5. Clean(fs)
  BY <1>1, <1>3, <1>4 DEF Clean
<1>6. UniqueLines(fs)
  BY <1>1, <1>3, <1>4 DEF UniqueLines
<1>7. fs = [es EXCEPT ![k] = CommittedEntry(@)]
  <2>1. fs = [j \in 1..Len(es) |-> fs[j]] /\ es = [j \in 1..Len(es) |-> es[j]]
    BY <1>0, <1>1
  <2> QED
    BY <1>3, <2>1
<1>8. ReadsBack(fs) /\ ReadsBack(es)
  BY <1>5, ReadBack
<1>9. load_all(fs) = [load_all(es) EXCEPT ![k].state = "Committed"]
  <2> DEFINE r == load_all(es)
             q == load_all(fs)
  <2>1. /\ r = [j \in 1..Len(es) |-> r[j]] /\ q = [j \in 1..Len(es) |-> q[j]]
        /\ \A j \in 1..Len(es) : r[j] = RecordOf(es[j])
        /\ \A j \in 1..Len(es) : q[j] = RecordOf(fs[j])
    BY <1>1, <1>8 DEF ReadsBack
  <2>2. q[k] = [r[k] EXCEPT !.state = "Committed"]
    BY <1>3, <1>4, <2>1
  <2>3. \A j \in 1..Len(es) : j # k => q[j] = r[j]
    BY <1>3, <2>1
  <2> HIDE DEF r, q
  <2>4. q = [r EXCEPT ![k].state = "Committed"]
    BY <2>1, <2>2, <2>3
  <2> QED
    BY <2>4 DEF q, r
<1> QED
  BY <1>5, <1>6, <1>7, <1>9

New(n, f) == \A k \in 1..Len(Parse(f)) : Parse(f)[k].id # n

Records(f) == load_all(Parse(f))

LEMMA GoodCut ==
    ASSUME NEW f, GoodFile(f)
    PROVE  LET g == SubSeq(f, 1, TailStart(f))
           IN  /\ GoodFile(g) /\ Len(g) = TailStart(f)
               /\ Parse(g) = Parse(f) /\ TailStart(g) = TailStart(f)
BY CutMeaning DEF GoodFile

\* A line of a new id, in a file without a tail.
LEMMA GoodLine ==
    ASSUME NEW f, GoodFile(f), TailStart(f) = Len(f),
           NEW n \in TxnId, New(n, f),
           NEW g, g = Joined(f, Line(n, "Validated"))
    PROVE  /\ GoodFile(g) /\ HasLine(g, f, n, "Validated")
           /\ Records(g) = Append(Records(f), NewLine(n))
<1>1. f \in Seq(Cell) /\ Clean(Parse(f)) /\ UniqueLines(Parse(f)) /\ Len(f) \in Nat
  BY DEF GoodFile
<1>2. HasLine(g, f, n, "Validated")
  <2>1. "Validated" \in State
    BY DEF State
  <2> QED
    BY <1>1, <2>1, LineAdded
<1>3. g \in Seq(Cell) /\ Parse(g) = Append(Parse(f), NewEntry(n, "Validated", Len(f)))
  BY <1>2 DEF HasLine
<1>4. /\ Clean(Parse(g)) /\ UniqueLines(Parse(g))
      /\ Records(g) = Append(Records(f), NewLine(n))
  <2> DEFINE es == Parse(f)
  <2>1. /\ Clean(es) /\ UniqueLines(es)
        /\ \A k \in 1..Len(es) : es[k].id # n
    BY <1>1 DEF New
  <2>2. Parse(g) = Append(es, NewEntry(n, "Validated", Len(f)))
    BY <1>3
  <2>3. Records(f) = load_all(es) /\ Records(g) = load_all(Parse(g))
    BY DEF Records
  <2> HIDE DEF es
  <2> QED
    BY <1>1, <2>1, <2>2, <2>3, ReadAppended
<1> QED
  BY <1>2, <1>3, <1>4 DEF GoodFile

LEMMA GoodPart ==
    ASSUME NEW f, GoodFile(f), TailStart(f) = Len(f),
           NEW n \in TxnId, NEW written \in 0..3,
           NEW g, g = Joined(f, SubSeq(Line(n, "Validated"), 1, written))
    PROVE  /\ GoodFile(g) /\ Len(g) = Len(f) + written
           /\ Parse(g) = Parse(f) /\ TailStart(g) = Len(f)
<1>1. f \in Seq(Cell) /\ "Validated" \in State
  BY DEF GoodFile, State
<1>2. HasPart(g, f, n, "Validated", written)
  BY <1>1, PartAdded
<1> QED
  BY <1>2 DEF HasPart, GoodFile

\* g is f with a commit marker at the line of entry k, and what that changes.
LineMarked(f, g, k) == g = [f EXCEPT ![Parse(f)[k].offset + 2] = Overwritten(@)]
EntryCommitted(f, g, k) ==
    /\ GoodFile(g) /\ Len(g) = Len(f) /\ TailStart(g) = TailStart(f)
    /\ Parse(g) = [Parse(f) EXCEPT ![k] = CommittedEntry(@)]
    /\ Records(g) = [Records(f) EXCEPT ![k].state = "Committed"]

\* A commit marker at the line of an entry.
LEMMA GoodMark ==
    ASSUME NEW f, GoodFile(f), NEW k \in 1..Len(Parse(f)),
           NEW g, LineMarked(f, g, k)
    PROVE  EntryCommitted(f, g, k)
<1>1. f \in Seq(Cell) /\ Clean(Parse(f)) /\ UniqueLines(Parse(f))
  BY DEF GoodFile
<1>2. PICK i \in 1..Len(f) :
        /\ f[i] = Newline /\ WellFormed(LineBefore(f, i))
        /\ Parse(f)[k] = Entry(LineBefore(f, i))
  BY <1>1, EntryOrigin
<1> DEFINE e == Parse(f)[k]
           q == LineStart(f, i) + 2
<1>3. /\ q \in 1..Len(f) /\ HasState(f[q]) /\ e.state = StateOf(f[q])
      /\ e.offset + 2 = q
  BY <1>1, <1>2, LineHeader
<1>4. e.state # "Pending"
  BY <1>1 DEF Clean, CleanEntry
<1>5. f[q].kind = "state"
  <2> HIDE DEF e, q
  <2> QED
    BY <1>3, <1>4 DEF HasState, StateOf
<1>6. g = [f EXCEPT ![q] = StateCell("Committed")]
  <2> HIDE DEF e, q
  <2>1. g = [f EXCEPT ![q] = Overwritten(@)]
    BY <1>3 DEF e, LineMarked
  <2>2. Overwritten(f[q]) = StateCell("Committed")
    BY <1>5 DEF Overwritten
  <2>3. f = [j \in 1..Len(f) |-> f[j]]
    BY <1>1
  <2> QED
    BY <2>1, <2>2, <2>3
<1>7. /\ g \in Seq(Cell) /\ Len(g) = Len(f) /\ TailStart(g) = TailStart(f)
      /\ Related(MarkRelation(Entry(LineBefore(f, i))), Parse(f), Parse(g))
  BY <1>1, <1>2, <1>5, <1>6, MarkAdded
<1>8. /\ Clean(Parse(g)) /\ UniqueLines(Parse(g))
      /\ Parse(g) = [Parse(f) EXCEPT ![k] = CommittedEntry(@)]
      /\ Records(g) = [Records(f) EXCEPT ![k].state = "Committed"]
  <2> DEFINE es == Parse(f)
             fs == Parse(g)
  <2>1. Related(MarkRelation(es[k]), es, fs)
    BY <1>2, <1>7
  <2>2. fs \in Seq(JournalEntry)
    BY <1>7, ParseIsFlat
  <2>3. Clean(es) /\ UniqueLines(es) /\ k \in 1..Len(es)
    BY <1>1
  <2>4. Records(f) = load_all(es) /\ Records(g) = load_all(fs)
    BY DEF Records
  <2> HIDE DEF es, fs
  <2>5. /\ Clean(fs) /\ UniqueLines(fs)
        /\ fs = [es EXCEPT ![k] = CommittedEntry(@)]
        /\ load_all(fs) = [load_all(es) EXCEPT ![k].state = "Committed"]
    BY <2>1, <2>2, <2>3, ReadCommitted
  <2> QED
    BY <2>4, <2>5 DEF es, fs
<1> QED
  BY <1>7, <1>8 DEF GoodFile, EntryCommitted

-----------------------------------------------------------------------------
(* The inductive invariant.  It holds while no append leaves part of a line *)
(* in the file of a process that lives on: what WalLogger knows of the file *)
(* is then what a reader would find in it.                                  *)

\* An entry in memory and the line in the file.  The file may be ahead: a
\* commit marker that reported an error may have been written.
SameLine(x, y) ==
    /\ x.id = y.id /\ x.offset = y.offset /\ x.payload = y.payload
    /\ x.state \in {"Validated", "Committed"}
    /\ x.state = "Committed" => y.state = "Committed"

Follows(es, fs) ==
    /\ es \in Seq(JournalEntry)
    /\ Len(es) = Len(fs)
    /\ \A k \in 1..Len(es) : SameLine(es[k], fs[k])

FileOK == GoodFile(file)

HandleOK ==
    /\ open \in BOOLEAN /\ drop_tail \in BOOLEAN
    /\ valid_length \in 0..Len(file)
    /\ open => /\ next_offset = TailStart(file)
               /\ drop_tail <=> TailStart(file) < Len(file)
               /\ drop_tail => valid_length = TailStart(file)
    /\ ~open => next_offset = 0 /\ ~drop_tail

IndexOK ==
    /\ open => Follows(entries, Parse(file))
    /\ ~open => entries = <<>>

WalInv == FileOK /\ HandleOK /\ IndexOK

\* What every reader of the file sees.
RecordsKept == Recovered' = Recovered

RecordAdded(n) == Recovered' = Append(Recovered, NewLine(n))

RecordCommitted(n) ==
    \E k \in DOMAIN Recovered :
        /\ Recovered[k].id = n
        /\ Recovered' = [Recovered EXCEPT ![k].state = "Committed"]

LEMMA RecoveredMeaning ==
    ASSUME FileOK
    PROVE  /\ Recovered = Records(file) /\ ReadsBack(Parse(file))
           /\ DOMAIN Recovered = 1..Len(Parse(file))
<1>1. ReadsBack(Parse(file))
  BY ReadBack DEF FileOK, GoodFile
<1> QED
  BY <1>1 DEF Recovered, Records, ReadsBack

\* A file without lines, or one the process no longer has open.
LEMMA FollowsSelf ==
    ASSUME NEW es, Clean(es)
    PROVE  Follows(es, es)
BY DEF Clean, CleanEntry, Follows, SameLine

LEMMA FollowsAppended ==
    ASSUME NEW es, NEW fs, Follows(es, fs), Clean(fs), NEW n \in TxnId,
           NEW z \in Nat
    PROVE  Follows(Append(es, NewEntry(n, "Validated", z)),
                   Append(fs, NewEntry(n, "Validated", z)))
<1> DEFINE x == NewEntry(n, "Validated", z)
           es2 == Append(es, x)
           fs2 == Append(fs, x)
<1>1. x \in JournalEntry /\ SameLine(x, x)
  <2>1. PayloadCell(n) \in Cell
    BY CellTypes
  <2>2. <<PayloadCell(n)>> \in Seq(Cell)
    BY <2>1
  <2> QED
    BY <2>2 DEF NewEntry, JournalEntry, State, SameLine
<1>2. /\ es \in Seq(JournalEntry) /\ fs \in Seq(JournalEntry)
      /\ Len(es) \in Nat /\ Len(fs) = Len(es)
      /\ \A k \in 1..Len(es) : SameLine(es[k], fs[k])
  BY DEF Follows, Clean
<1> HIDE DEF x
<1>3. /\ es2 \in Seq(JournalEntry) /\ Len(es2) = Len(es) + 1
      /\ \A k \in 1..Len(es) : es2[k] = es[k]
      /\ es2[Len(es) + 1] = x
  BY <1>1, <1>2, AppendProperties
<1>4. /\ fs2 \in Seq(JournalEntry) /\ Len(fs2) = Len(fs) + 1
      /\ \A k \in 1..Len(fs) : fs2[k] = fs[k]
      /\ fs2[Len(fs) + 1] = x
  BY <1>1, <1>2, AppendProperties
<1> HIDE DEF es2, fs2
<1>5. \A k \in 1..Len(es2) : k \in 1..Len(es) \/ k = Len(es) + 1
  BY <1>2, <1>3
<1>6. \A k \in 1..Len(es2) : SameLine(es2[k], fs2[k])
  BY <1>1, <1>2, <1>3, <1>4, <1>5
<1>7. Follows(es2, fs2)
  BY <1>2, <1>3, <1>4, <1>6 DEF Follows
<1> QED
  BY <1>7 DEF es2, fs2, x

LEMMA FollowsCommitted ==
    ASSUME NEW es, NEW fs, Follows(es, fs), Clean(fs), NEW k \in 1..Len(fs)
    PROVE  /\ Follows(es, [fs EXCEPT ![k] = CommittedEntry(@)])
           /\ Follows([es EXCEPT ![k].state = "Committed"],
                      [fs EXCEPT ![k] = CommittedEntry(@)])
<1> DEFINE es2 == [es EXCEPT ![k].state = "Committed"]
           fs2 == [fs EXCEPT ![k] = CommittedEntry(@)]
<1>1. /\ es \in Seq(JournalEntry) /\ fs \in Seq(JournalEntry)
      /\ Len(es) \in Nat /\ Len(fs) = Len(es)
      /\ \A j \in 1..Len(es) : SameLine(es[j], fs[j])
  BY DEF Follows, Clean
<1>2. es[k] \in JournalEntry /\ fs[k] \in JournalEntry /\ k \in 1..Len(es)
  BY <1>1, ElementOfSeq
<1>3. CommittedEntry(es[k]) \in JournalEntry /\ CommittedEntry(fs[k]) \in JournalEntry
  BY <1>2, CommittedType
<1>4. /\ fs2 \in Seq(JournalEntry) /\ Len(fs2) = Len(fs)
      /\ \A j \in 1..Len(fs) : fs2[j] = IF j = k THEN CommittedEntry(fs[k]) ELSE fs[j]
  BY <1>1, <1>3, ExceptSeq
<1>5. es2 = [es EXCEPT ![k] = CommittedEntry(es[k])]
  BY DEF CommittedEntry
<1>6. /\ es2 \in Seq(JournalEntry) /\ Len(es2) = Len(es)
      /\ \A j \in 1..Len(es) : es2[j] = IF j = k THEN CommittedEntry(es[k]) ELSE es[j]
  <2> HIDE DEF es2
  <2> QED
    BY <1>1, <1>2, <1>3, <1>5, ExceptSeq
<1>7. /\ SameLine(es[k], CommittedEntry(fs[k]))
      /\ SameLine(CommittedEntry(es[k]), CommittedEntry(fs[k]))
  <2>1. SameLine(es[k], fs[k])
    BY <1>1, <1>2
  <2> QED
    BY <1>2, <2>1 DEF SameLine, CommittedEntry, JournalEntry
<1> HIDE DEF es2, fs2
<1>8. Follows(es, fs2)
  BY <1>1, <1>4, <1>7 DEF Follows
<1>9. Follows(es2, fs2)
  BY <1>1, <1>4, <1>6, <1>7 DEF Follows
<1> QED
  BY <1>8, <1>9 DEF es2, fs2

-----------------------------------------------------------------------------
(* The steps.                                                              *)

\* An append starts behind the last whole line.
LEMMA AppendsBehindLines ==
    ASSUME FileOK, HandleOK, open
    PROVE  /\ GoodFile(Truncated) /\ TailStart(Truncated) = Len(Truncated)
           /\ Len(Truncated) = WriteOffset /\ WriteOffset \in Nat
           /\ Parse(Truncated) = Parse(file)
           /\ valid_length \in 0..Len(Truncated)
<1>1. /\ Len(file) \in Nat /\ TailStart(file) \in 0..Len(file)
      /\ valid_length \in 0..Len(file) /\ drop_tail \in BOOLEAN
  BY TailMeaning DEF FileOK, GoodFile, HandleOK
<1>2. CASE drop_tail
  <2>1. valid_length = TailStart(file)
    BY <1>2 DEF HandleOK
  <2>2. Truncated = SubSeq(file, 1, TailStart(file)) /\ WriteOffset = valid_length
    BY <1>2, <2>1 DEF Truncated, WriteOffset
  <2> DEFINE g == SubSeq(file, 1, TailStart(file))
  <2>3. /\ GoodFile(g) /\ Len(g) = TailStart(file)
        /\ Parse(g) = Parse(file) /\ TailStart(g) = TailStart(file)
    BY GoodCut DEF FileOK
  <2> HIDE DEF g
  <2>4. Truncated = g
    BY <2>2 DEF g
  <2>5. valid_length \in Nat /\ valid_length \in 0..valid_length
    BY <1>1
  <2> QED
    BY <2>1, <2>2, <2>3, <2>4, <2>5
<1>3. CASE ~drop_tail
  <2>0. ~(TailStart(file) < Len(file))
    BY <1>3 DEF HandleOK
  <2>1. TailStart(file) = Len(file)
    BY <1>1, <2>0
  <2>2. Truncated = file /\ WriteOffset = next_offset /\ next_offset = TailStart(file)
    BY <1>3 DEF Truncated, WriteOffset, HandleOK
  <2> QED
    BY <1>1, <2>1, <2>2 DEF FileOK
<1> QED
  BY <1>2, <1>3

LEMMA NewInTruncated ==
    ASSUME FileOK, HandleOK, open, NEW n, New(n, file)
    PROVE  New(n, Truncated)
BY AppendsBehindLines DEF New

\* A whole line behind the lines of the file.
LEMMA LineStep ==
    ASSUME FileOK, HandleOK, open, NEW n \in TxnId, New(n, file),
           file' = Truncated \o Line(n, "Validated")
    PROVE  /\ FileOK' /\ RecordAdded(n)
           /\ Len(file') = WriteOffset + 4 /\ TailStart(file') = Len(file')
           /\ Parse(file') = Append(Parse(file), NewEntry(n, "Validated", WriteOffset))
<1> DEFINE f == Truncated
           g == file'
<1>1. /\ GoodFile(f) /\ TailStart(f) = Len(f) /\ New(n, f)
      /\ Len(f) = WriteOffset /\ Parse(f) = Parse(file)
  BY AppendsBehindLines, NewInTruncated
<1>2. g = Joined(f, Line(n, "Validated"))
  BY DEF Joined
<1>3. Recovered = Records(f) /\ Recovered' = Records(g)
  BY <1>1 DEF Recovered, Records
<1> HIDE DEF f, g
<1>4. /\ GoodFile(g) /\ HasLine(g, f, n, "Validated")
      /\ Records(g) = Append(Records(f), NewLine(n))
  BY <1>1, <1>2, GoodLine
<1> QED
  BY <1>1, <1>3, <1>4 DEF HasLine, FileOK, RecordAdded, g

\* A part of a line behind them.
LEMMA PartStep ==
    ASSUME FileOK, HandleOK, open, NEW n \in TxnId, NEW written \in 0..3,
           file' = Truncated \o SubSeq(Line(n, "Validated"), 1, written)
    PROVE  /\ FileOK' /\ RecordsKept
           /\ Len(file') = WriteOffset + written /\ TailStart(file') = WriteOffset
           /\ Parse(file') = Parse(file)
<1> DEFINE f == Truncated
           g == file'
<1>1. /\ GoodFile(f) /\ TailStart(f) = Len(f)
      /\ Len(f) = WriteOffset /\ Parse(f) = Parse(file)
  BY AppendsBehindLines
<1>2. g = Joined(f, SubSeq(Line(n, "Validated"), 1, written))
  BY DEF Joined
<1>3. Recovered = Records(f) /\ Recovered' = Records(g)
  BY <1>1 DEF Recovered, Records
<1> HIDE DEF f, g
<1>4. /\ GoodFile(g) /\ Len(g) = Len(f) + written
      /\ Parse(g) = Parse(f) /\ TailStart(g) = Len(f)
  BY <1>1, <1>2, GoodPart
<1> QED
  BY <1>1, <1>3, <1>4 DEF FileOK, RecordsKept, Records, g

\* A commit marker at a line of the file.
LEMMA MarkStep ==
    ASSUME WalInv, open, NEW n, NEW k \in DOMAIN entries, Marks(n, k),
           file' = MarkedFile(k)
    PROVE  /\ FileOK' /\ RecordCommitted(n) /\ k \in 1..Len(Parse(file))
           /\ Len(file') = Len(file) /\ TailStart(file') = TailStart(file)
           /\ Parse(file') = [Parse(file) EXCEPT ![k] = CommittedEntry(@)]
<1> DEFINE fs == Parse(file)
<1>1. /\ Follows(entries, fs) /\ Clean(fs) /\ GoodFile(file)
  BY DEF WalInv, IndexOK, FileOK, GoodFile
<1>2. entries \in Seq(JournalEntry) /\ Len(entries) = Len(fs)
  BY <1>1 DEF Follows
<1> HIDE DEF fs
<1>3. k \in 1..Len(entries) /\ k \in 1..Len(fs)
  BY <1>2
<1>4. SameLine(entries[k], fs[k])
  BY <1>1, <1>3 DEF Follows
<1>5. entries[k].offset = fs[k].offset /\ fs[k].id = n
  BY <1>4 DEF SameLine, Marks
<1>6. file' = [file EXCEPT ![fs[k].offset + 2] = Overwritten(@)]
  BY <1>5 DEF MarkedFile
<1>7. /\ GoodFile(file') /\ Len(file') = Len(file)
      /\ TailStart(file') = TailStart(file)
      /\ Parse(file') = [fs EXCEPT ![k] = CommittedEntry(@)]
      /\ Records(file') = [Records(file) EXCEPT ![k].state = "Committed"]
  <2> DEFINE f == file
             g == file'
  <2>1. GoodFile(f) /\ k \in 1..Len(Parse(f)) /\ LineMarked(f, g, k)
    BY <1>1, <1>3, <1>6 DEF fs, LineMarked
  <2> HIDE DEF f, g
  <2>2. EntryCommitted(f, g, k)
    BY <2>1, GoodMark
  <2> QED
    BY <2>2 DEF fs, f, g, EntryCommitted
<1>8. Recovered = Records(file) /\ Recovered' = Records(file')
  BY DEF Recovered, Records
<1>9. k \in DOMAIN Recovered /\ Recovered[k].id = n
  <2>1. DOMAIN Recovered = 1..Len(fs) /\ ReadsBack(fs) /\ Recovered = load_all(fs)
    BY RecoveredMeaning DEF WalInv, fs, Records
  <2>2. Recovered[k] = RecordOf(fs[k])
    BY <1>3, <2>1 DEF ReadsBack
  <2> QED
    BY <1>3, <1>5, <2>1, <2>2 DEF RecordOf
<1> QED
  BY <1>3, <1>7, <1>8, <1>9 DEF FileOK, RecordCommitted, fs

LEMMA OpenStep ==
    ASSUME WalInv, Open
    PROVE  WalInv' /\ RecordsKept
<1>1. FileOK' /\ RecordsKept /\ file' = file
  BY DEF WalInv, FileOK, Open, RecordsKept, Recovered
<1>2. HandleOK'
  <2>1. TailStart(file) \in 0..Len(file) /\ Len(file) \in Nat
    BY TailMeaning DEF WalInv, FileOK, GoodFile
  <2>2. open' = TRUE /\ next_offset' = TailStart(file')
    BY DEF Open
  <2>3. CASE TailStart(file) < Len(file)
    <3>1. drop_tail' = TRUE /\ valid_length' = TailStart(file)
      BY <2>3 DEF Open
    <3> QED
      BY <1>1, <2>1, <2>2, <2>3, <3>1 DEF HandleOK
  <2>4. CASE ~(TailStart(file) < Len(file))
    <3>1. drop_tail' = FALSE /\ valid_length' \in 0..Len(file')
      BY <1>1, <2>1, <2>4 DEF Open
    <3>2. ~(TailStart(file') < Len(file'))
      BY <1>1, <2>4
    <3> QED
      BY <2>2, <3>1, <3>2 DEF HandleOK
  <2> QED
    BY <2>3, <2>4
<1>3. IndexOK'
  <2>1. open' = TRUE /\ entries' = Parse(file')
    BY DEF Open
  <2>2. Clean(Parse(file'))
    BY <1>1 DEF FileOK, GoodFile
  <2>3. Follows(entries', Parse(file'))
    BY <2>1, <2>2, FollowsSelf
  <2> QED
    BY <2>1, <2>3 DEF IndexOK
<1> QED
  BY <1>1, <1>2, <1>3 DEF WalInv

LEMMA AppendStep ==
    ASSUME WalInv, NEW n \in TxnId, New(n, file), append(n)
    PROVE  WalInv' /\ RecordAdded(n)
<1>0. FileOK /\ HandleOK /\ IndexOK /\ open = TRUE /\ open' = TRUE
  BY DEF WalInv, append, HandleOK
<1>1. /\ FileOK' /\ RecordAdded(n)
      /\ Len(file') = WriteOffset + 4 /\ TailStart(file') = Len(file')
      /\ Parse(file') = Append(Parse(file), NewEntry(n, "Validated", WriteOffset))
  BY <1>0, LineStep DEF append
<1>2. WriteOffset \in Nat /\ valid_length \in 0..WriteOffset
  BY <1>0, AppendsBehindLines
<1>3. HandleOK'
  <2>1. drop_tail' = FALSE /\ valid_length' = valid_length
        /\ next_offset' = WriteOffset + 4
    BY DEF append, AfterLine, LineLength
  <2>2. valid_length' \in 0..Len(file') /\ ~(TailStart(file') < Len(file'))
        /\ next_offset' = TailStart(file')
    BY <1>1, <1>2, <2>1
  <2> QED
    BY <1>0, <2>1, <2>2 DEF HandleOK
<1>4. IndexOK'
  <2>1. entries' = Append(entries, NewEntry(n, "Validated", WriteOffset))
    BY DEF append, NewEntry
  <2>2. Follows(entries, Parse(file)) /\ Clean(Parse(file))
    BY <1>0 DEF IndexOK, FileOK, GoodFile
  <2>3. Follows(entries', Parse(file'))
    BY <1>1, <1>2, <2>1, <2>2, FollowsAppended
  <2> QED
    BY <1>0, <2>3 DEF IndexOK
<1> QED
  BY <1>1, <1>3, <1>4 DEF WalInv

\* An append that fails before it writes: the tail may be gone.
LEMMA AppendFailsStep ==
    ASSUME WalInv, NEW n \in TxnId, append_fails(n, 0)
    PROVE  WalInv' /\ RecordsKept
<1>0. FileOK /\ HandleOK /\ IndexOK /\ open = TRUE /\ open' = TRUE
  BY DEF WalInv, append_fails, HandleOK
<1>1. /\ FileOK' /\ RecordsKept
      /\ Len(file') = WriteOffset + 0 /\ TailStart(file') = WriteOffset
      /\ Parse(file') = Parse(file)
  <2>1. /\ 0 \in 0..3
        /\ file' = Truncated \o SubSeq(Line(n, "Validated"), 1, 0)
    BY DEF append_fails
  <2> QED
    BY <1>0, <2>1, PartStep
<1>2. WriteOffset \in Nat /\ valid_length \in 0..WriteOffset
  BY <1>0, AppendsBehindLines
<1>3. HandleOK'
  <2>1. drop_tail' = FALSE /\ valid_length' = valid_length
        /\ next_offset' = WriteOffset
    BY DEF append_fails
  <2>2. valid_length' \in 0..Len(file') /\ ~(TailStart(file') < Len(file'))
        /\ next_offset' = TailStart(file')
    BY <1>1, <1>2, <2>1
  <2> QED
    BY <1>0, <2>1, <2>2 DEF HandleOK
<1>4. IndexOK'
  BY <1>0, <1>1 DEF IndexOK, append_fails
<1> QED
  BY <1>1, <1>3, <1>4 DEF WalInv

\* A process that is gone leaves a file.
LEMMA ClosedStep ==
    ASSUME FileOK', Closed
    PROVE  WalInv'
<1>1. Len(file') \in Nat
  BY DEF FileOK, GoodFile
<1>2. /\ open' = FALSE /\ entries' = <<>> /\ next_offset' = 0
      /\ drop_tail' = FALSE /\ valid_length' \in 0..Len(file')
  BY <1>1 DEF Closed
<1> QED
  BY <1>2 DEF WalInv, HandleOK, IndexOK

LEMMA AppendCrashStep ==
    ASSUME WalInv, NEW n \in TxnId, New(n, file), NEW written \in 0..4,
           append_crash(n, written)
    PROVE  WalInv' /\ (RecordsKept \/ RecordAdded(n))
<1>0. /\ FileOK /\ HandleOK /\ open = TRUE
      /\ file' = Truncated \o SubSeq(Line(n, "Validated"), 1, written)
      /\ Closed
  BY DEF WalInv, append_crash, HandleOK
<1>1. CASE written \in 0..3
  <2>1. FileOK' /\ RecordsKept
    BY <1>0, <1>1, PartStep
  <2> QED
    BY <1>0, <2>1, ClosedStep
<1>2. CASE written = 4
  <2> DEFINE l == Line(n, "Validated")
  <2>1. l \in Seq(Cell) /\ Len(l) = 4
    BY LineType DEF State
  <2> HIDE DEF l
  <2>2. SubSeq(l, 1, 4) = l
    BY <2>1, SubSeqFull
  <2>3. file' = Truncated \o Line(n, "Validated")
    BY <1>0, <1>2, <2>2 DEF l
  <2>4. FileOK' /\ RecordAdded(n)
    BY <1>0, <2>3, LineStep
  <2> QED
    BY <1>0, <2>4, ClosedStep
<1> QED
  BY <1>1, <1>2

LEMMA CommitStep ==
    ASSUME WalInv, NEW n, mark_committed(n)
    PROVE  WalInv' /\ RecordCommitted(n)
<1>1. PICK k \in DOMAIN entries :
        /\ open
        /\ Marks(n, k)
        /\ file' = MarkedFile(k)
        /\ entries' = [entries EXCEPT ![k].state = "Committed"]
        /\ UNCHANGED <<open, next_offset, drop_tail, valid_length>>
  BY DEF mark_committed
<1>2. /\ FileOK' /\ RecordCommitted(n) /\ k \in 1..Len(Parse(file))
      /\ Len(file') = Len(file) /\ TailStart(file') = TailStart(file)
      /\ Parse(file') = [Parse(file) EXCEPT ![k] = CommittedEntry(@)]
  BY <1>1, MarkStep
<1>3. HandleOK'
  BY <1>1, <1>2 DEF WalInv, HandleOK
<1>4. IndexOK'
  <2>1. Follows(entries, Parse(file)) /\ Clean(Parse(file))
    BY <1>1 DEF WalInv, IndexOK, FileOK, GoodFile
  <2>2. Follows([entries EXCEPT ![k].state = "Committed"],
                [Parse(file) EXCEPT ![k] = CommittedEntry(@)])
    BY <1>2, <2>1, FollowsCommitted
  <2>3. Follows(entries', Parse(file'))
    BY <1>1, <1>2, <2>2
  <2> QED
    BY <1>1, <2>3 DEF IndexOK
<1> QED
  BY <1>2, <1>3, <1>4 DEF WalInv

LEMMA CommitFailsStep ==
    ASSUME WalInv, NEW n, mark_committed_fails(n)
    PROVE  /\ WalInv'
           /\ file' = file => RecordsKept
           /\ file' # file => RecordCommitted(n)
<1>1. PICK k \in DOMAIN entries :
        /\ open
        /\ Marks(n, k)
        /\ file' \in {file, MarkedFile(k)}
        /\ UNCHANGED <<open, entries, next_offset, drop_tail, valid_length>>
  BY DEF mark_committed_fails
<1>2. ASSUME file' = file
      PROVE  WalInv' /\ RecordsKept
  BY <1>1, <1>2 DEF WalInv, FileOK, HandleOK, IndexOK, RecordsKept, Recovered
<1>3. ASSUME file' # file
      PROVE  WalInv' /\ RecordCommitted(n)
  <2>1. /\ FileOK' /\ RecordCommitted(n) /\ k \in 1..Len(Parse(file))
        /\ Len(file') = Len(file) /\ TailStart(file') = TailStart(file)
        /\ Parse(file') = [Parse(file) EXCEPT ![k] = CommittedEntry(@)]
    BY <1>1, <1>3, MarkStep
  <2>2. HandleOK'
    BY <1>1, <2>1 DEF WalInv, HandleOK
  <2>3. IndexOK'
    <3>1. Follows(entries, Parse(file)) /\ Clean(Parse(file))
      BY <1>1 DEF WalInv, IndexOK, FileOK, GoodFile
    <3>2. Follows(entries, [Parse(file) EXCEPT ![k] = CommittedEntry(@)])
      BY <2>1, <3>1, FollowsCommitted
    <3>3. Follows(entries', Parse(file'))
      BY <1>1, <2>1, <3>2
    <3> QED
      BY <1>1, <3>3 DEF IndexOK
  <2> QED
    BY <2>1, <2>2, <2>3 DEF WalInv
<1> QED
  BY <1>2, <1>3

LEMMA CrashStep ==
    ASSUME WalInv, Crash
    PROVE  /\ WalInv'
           /\ RecordsKept \/ \E n \in TxnId : RecordCommitted(n)
<1>0. open /\ Closed
  BY DEF Crash
<1>1. CASE file' = file
  <2>1. FileOK' /\ RecordsKept
    BY <1>1 DEF WalInv, FileOK, RecordsKept, Recovered
  <2> QED
    BY <1>0, <2>1, ClosedStep
<1>2. ASSUME NEW n \in TxnId, NEW k \in DOMAIN entries,
             Marks(n, k), file' = MarkedFile(k)
      PROVE  WalInv' /\ RecordCommitted(n)
  <2>1. FileOK' /\ RecordCommitted(n)
    BY <1>0, <1>2, MarkStep
  <2> QED
    BY <1>0, <2>1, ClosedStep
<1> QED
  BY <1>1, <1>2 DEF Crash

-----------------------------------------------------------------------------
(* The theorems.                                                           *)

LEMMA NoLines ==
    /\ Parse(<<>>) = <<>> /\ TailStart(<<>>) = 0 /\ GoodFile(<<>>)
    /\ ReadsBack(<<>>) /\ load_all(<<>>) = <<>>
<1>1. <<>> \in Seq(Cell) /\ Len(<<>>) = 0
  OBVIOUS
<1>2. Parse(<<>>) = <<>>
  <2> DEFINE r == Parse(<<>>)
             ss == EntriesAt(<<>>)
  <2>1. /\ ss \in Seq(Seq(JournalEntry)) /\ Len(ss) = 0
        /\ Flat(r, ss) /\ r \in Seq(JournalEntry)
    BY <1>1, EntriesAtType, ParseIsFlat
  <2> HIDE DEF r, ss
  <2>2. Len(r) = 0
    <3>1. \A i \in 1..Len(ss) : Len(ss[i]) = 1
      BY <2>1
    <3> QED
      BY <2>1, <3>1, FlatSingles
  <2>3. r = <<>>
    BY <2>1, <2>2
  <2> QED
    BY <2>3 DEF r
<1>3. TailStart(<<>>) = 0
  <2>1. ASSUME NEW g \in Seq(Cell), Len(g) = 0 PROVE TailStart(g) = 0
    <3>1. TailStart(g) \in 0..Len(g)
      BY TailMeaning
    <3> QED
      BY <2>1, <3>1
  <2> QED
    BY <1>1, <2>1
<1>4. Clean(<<>>) /\ UniqueLines(<<>>)
  BY DEF Clean, UniqueLines
<1>5. ReadsBack(<<>>)
  BY <1>4, ReadBack
<1>6. load_all(<<>>) = <<>>
  <2> DEFINE r == load_all(<<>>)
  <2>1. r \in Seq(LogRecord) /\ Len(r) = 0
    BY <1>5 DEF ReadsBack
  <2> HIDE DEF r
  <2>2. r = <<>>
    BY <2>1
  <2> QED
    BY <2>2 DEF r
<1> QED
  BY <1>1, <1>2, <1>3, <1>4, <1>5, <1>6 DEF GoodFile

LEMMA WalInit == Init => WalInv /\ Recovered = <<>>
<1> SUFFICES ASSUME Init PROVE WalInv /\ Recovered = <<>>
  OBVIOUS
<1>1. Recovered = <<>> /\ FileOK
  BY NoLines DEF Init, FileOK, Recovered
<1>2. HandleOK /\ IndexOK
  <2>1. Len(file) = 0 /\ 0 \in 0..0
    BY DEF Init
  <2>2. valid_length \in 0..Len(file)
    BY <2>1 DEF Init
  <2>3. /\ open = FALSE /\ drop_tail = FALSE /\ entries = <<>>
        /\ next_offset = 0
    BY DEF Init
  <2> QED
    BY <2>2, <2>3 DEF HandleOK, IndexOK
<1> QED
  BY <1>1, <1>2 DEF WalInv

\* The entries in memory are those of the file, up to markers in doubt.
LEMMA IndexMeaning ==
    ASSUME WalInv
    PROVE  /\ Clean(entries) /\ ReadsBack(entries) /\ ReadsBack(Parse(file))
           /\ open => Follows(entries, Parse(file))
           /\ ~open => entries = <<>> /\ load_all(entries) = <<>>
<1>1. CASE open
  <2>1. Follows(entries, Parse(file)) /\ Clean(Parse(file))
    BY <1>1 DEF WalInv, IndexOK, FileOK, GoodFile
  <2>2. ASSUME NEW k \in 1..Len(entries) PROVE CleanEntry(entries[k])
    <3>1. SameLine(entries[k], Parse(file)[k]) /\ CleanEntry(Parse(file)[k])
      BY <2>1 DEF Follows, Clean
    <3> QED
      BY <3>1 DEF SameLine, CleanEntry
  <2>3. Clean(entries)
    BY <2>1, <2>2 DEF Follows, Clean
  <2> QED
    BY <1>1, <2>1, <2>3, ReadBack
<1>2. CASE ~open
  <2>1. entries = <<>> /\ Clean(Parse(file))
    BY <1>2 DEF WalInv, IndexOK, FileOK, GoodFile
  <2>2. Clean(<<>>)
    BY DEF Clean
  <2>3. Clean(entries) /\ load_all(entries) = <<>>
    BY <2>1, <2>2, NoLines
  <2> QED
    BY <1>2, <2>1, <2>3, ReadBack
<1> QED
  BY <1>1, <1>2

LEMMA FreshIsNew ==
    ASSUME WalInv, open, NEW n \in TxnId, Fresh(n)
    PROVE  New(n, file)
<1>1. Follows(entries, Parse(file)) /\ ReadsBack(entries)
  BY IndexMeaning
<1>2. ASSUME NEW k \in 1..Len(Parse(file)) PROVE Parse(file)[k].id # n
  <2>1. k \in 1..Len(entries) /\ entries[k].id = Parse(file)[k].id
    BY <1>1 DEF Follows, SameLine
  <2>2. k \in DOMAIN load_all(entries) /\ load_all(entries)[k].id = entries[k].id
    <3> DEFINE r == load_all(entries)
    <3>1. /\ r \in Seq(LogRecord) /\ Len(r) = Len(entries)
          /\ r[k] = RecordOf(entries[k])
      BY <1>1, <2>1 DEF ReadsBack
    <3> HIDE DEF r
    <3>2. k \in DOMAIN r /\ r[k].id = entries[k].id
      BY <2>1, <3>1 DEF RecordOf
    <3> QED
      BY <3>2 DEF r
  <2> QED
    BY <2>1, <2>2 DEF Fresh
<1> QED
  BY <1>2 DEF New

\* What a step does to the records in the file.
JournalGrows ==
    \/ RecordsKept
    \/ \E n \in TxnId : New(n, file) /\ RecordAdded(n)
    \/ \E n \in TxnId : RecordCommitted(n)

LEMMA WalStep ==
    ASSUME "append" \notin Faults, WalInv, [Next]_vars
    PROVE  WalInv' /\ JournalGrows
<1>1. CASE UNCHANGED vars
  BY <1>1 DEF vars, WalInv, FileOK, HandleOK, IndexOK, JournalGrows,
              RecordsKept, Recovered
<1>2. CASE Open
  BY <1>2, OpenStep DEF JournalGrows
<1>3. ASSUME NEW n \in TxnId, Fresh(n), append(n)
      PROVE  WalInv' /\ JournalGrows
  <2>1. New(n, file)
    BY <1>3, FreshIsNew DEF append
  <2> QED
    BY <1>3, <2>1, AppendStep DEF JournalGrows
<1>4. ASSUME NEW n \in TxnId, NEW written \in 0..3, append_fails(n, written)
      PROVE  WalInv' /\ JournalGrows
  <2>1. written = 0
    BY <1>4 DEF append_fails
  <2>2. append_fails(n, 0)
    BY <1>4, <2>1
  <2> QED
    BY <2>2, AppendFailsStep DEF JournalGrows
<1>5. ASSUME NEW n \in TxnId, NEW written \in 0..4, Fresh(n),
             append_crash(n, written)
      PROVE  WalInv' /\ JournalGrows
  <2>1. New(n, file)
    BY <1>5, FreshIsNew DEF append_crash
  <2> QED
    BY <1>5, <2>1, AppendCrashStep DEF JournalGrows
<1>6. ASSUME NEW n \in TxnId, mark_committed(n)
      PROVE  WalInv' /\ JournalGrows
  BY <1>6, CommitStep DEF JournalGrows
<1>7. ASSUME NEW n \in TxnId, mark_committed_fails(n)
      PROVE  WalInv' /\ JournalGrows
  BY <1>7, CommitFailsStep DEF JournalGrows
<1>8. CASE Crash
  BY <1>8, CrashStep DEF JournalGrows
<1> QED
  BY <1>1, <1>2, <1>3, <1>4, <1>5, <1>6, <1>7, <1>8 DEF Next, LineLength

\* The inductive invariant of the journal, when no append leaves part of a line
\* behind in a process that lives on (finding_partial_append shows what happens
\* otherwise): next_offset_, drop_tail_ and entries_ describe the file.
THEOREM WalInvariant ==
    ASSUME "append" \notin Faults
    PROVE  Spec => []WalInv
<1>1. WalInv /\ [Next]_vars => WalInv'
  BY WalStep
<1> QED
  BY WalInit, <1>1, PTL DEF Spec

\* Every line a reader finds in the file looks as an append and perhaps a marker
\* left it: an id of the processor's, that id's own payload, and no state but the
\* two such a line may have.
OnlyAppendedLines ==
    \A k \in DOMAIN Parse(file) :
        /\ Parse(file)[k].id \in TxnId
        /\ Parse(file)[k].state \in {"Validated", "Committed"}
        /\ Parse(file)[k].payload = <<PayloadCell(Parse(file)[k].id)>>

\* Every field of WalLogger keeps its type, no offset points behind the file,
\* and interrupted tails and markers never make a reader take anything for a
\* line that is not one: no marker lands in an id, no line swallows another.
THEOREM JournalTypesHold ==
    ASSUME "append" \notin Faults
    PROVE  Spec => [](TypeOK /\ OnlyAppendedLines)
<1>1. ASSUME WalInv PROVE TypeOK
  <2>1. /\ file \in Seq(Cell) /\ Len(file) \in Nat
        /\ TailStart(file) \in 0..Len(file)
    BY <1>1, TailMeaning DEF WalInv, FileOK, GoodFile
  <2>2. {open, drop_tail} \subseteq BOOLEAN /\ valid_length \in 0..Len(file)
    BY <1>1 DEF WalInv, HandleOK
  <2>3. next_offset \in 0..Len(file)
    BY <1>1, <2>1 DEF WalInv, HandleOK
  <2>4. ASSUME NEW k \in DOMAIN entries
        PROVE  /\ entries[k].id \in TxnId \cup {0}
               /\ entries[k].state \in State
               /\ entries[k].offset \in 0..Len(file)
               /\ entries[k].payload \in Seq(Cell)
    <3>1. Clean(entries) /\ k \in 1..Len(entries)
      BY <1>1, IndexMeaning DEF Clean
    <3>2. entries[k] \in JournalEntry
      BY <3>1, ElementOfSeq DEF Clean
    <3>3. open
      BY <1>1, IndexMeaning
    <3>4. /\ k \in 1..Len(Parse(file))
          /\ entries[k].offset = Parse(file)[k].offset
      BY <1>1, <3>1, <3>3, IndexMeaning DEF Follows, SameLine
    <3>5. PICK i \in 1..Len(file) :
            /\ file[i] = Newline /\ WellFormed(LineBefore(file, i))
            /\ Parse(file)[k] = Entry(LineBefore(file, i))
      BY <2>1, <3>4, EntryOrigin
    <3>6. Parse(file)[k].offset \in Nat /\ Parse(file)[k].offset + 2 < i
      BY <2>1, <3>5, LineHeader
    <3>7. entries[k].offset \in 0..Len(file)
      BY <2>1, <3>4, <3>6
    <3> QED
      BY <3>2, <3>7 DEF JournalEntry
  <2> QED
    BY <2>1, <2>2, <2>3, <2>4 DEF TypeOK
<1>2. ASSUME WalInv PROVE OnlyAppendedLines
  <2>1. Parse(file) \in Seq(JournalEntry)
    BY <1>2 DEF WalInv, FileOK, GoodFile, Clean
  <2>2. \A k \in 1..Len(Parse(file)) : CleanEntry(Parse(file)[k])
    BY <1>2 DEF WalInv, FileOK, GoodFile, Clean
  <2> QED
    BY <2>1, <2>2 DEF OnlyAppendedLines, CleanEntry
<1>3. WalInv => TypeOK /\ OnlyAppendedLines
  BY <1>1, <1>2
<1> QED
  BY WalInvariant, <1>3, PTL

\* mark_committed returned, or the constructor found a line Committed: whoever
\* opens the journal next finds it Committed too.
THEOREM CommitsAreDurable ==
    ASSUME "append" \notin Faults
    PROVE  Spec => []CommittedIsDurable
<1>1. ASSUME WalInv PROVE CommittedIsDurable
  <2> DEFINE reported == load_all(entries)
             found == Recovered
  <2>1. ASSUME NEW k \in DOMAIN reported, reported[k].state = "Committed"
        PROVE  \E j \in DOMAIN found : found[j] = reported[k]
    <3>1. ReadsBack(entries) /\ ReadsBack(Parse(file))
      BY <1>1, IndexMeaning
    <3>2. k \in 1..Len(entries) /\ reported[k] = RecordOf(entries[k])
      BY <3>1 DEF ReadsBack
    <3>3. open
      BY <1>1, <3>1, <3>2, IndexMeaning
    <3>4. k \in 1..Len(Parse(file)) /\ SameLine(entries[k], Parse(file)[k])
      BY <1>1, <3>2, <3>3, IndexMeaning DEF Follows
    <3>5. found[k] = RecordOf(Parse(file)[k]) /\ k \in DOMAIN found
      BY <3>1, <3>4 DEF ReadsBack, Recovered
    <3>6. entries[k].state = "Committed"
      BY <2>1, <3>2 DEF RecordOf
    <3>7. RecordOf(Parse(file)[k]) = RecordOf(entries[k])
      BY <3>4, <3>6 DEF SameLine, RecordOf
    <3> QED
      BY <3>2, <3>5, <3>7
  <2> QED
    BY <2>1 DEF CommittedIsDurable
<1>2. WalInv => CommittedIsDurable
  BY <1>1
<1> QED
  BY WalInvariant, <1>2, PTL

\* size() counts the lines a later reader will find, so an LSN keeps its
\* meaning.
THEOREM LsnsAreDurable ==
    ASSUME "append" \notin Faults
    PROVE  Spec => []LsnIsDurable
<1>1. ASSUME WalInv, open
      PROVE  /\ Len(Parse(file)) = Len(entries)
             /\ \A k \in DOMAIN entries :
                   /\ Parse(file)[k].id = entries[k].id
                   /\ Parse(file)[k].offset = entries[k].offset
                   /\ Parse(file)[k].payload = entries[k].payload
  BY <1>1, IndexMeaning DEF Follows, SameLine
<1>2. WalInv => LsnIsDurable
  BY <1>1 DEF LsnIsDurable
<1> QED
  BY WalInvariant, <1>2, PTL

LEMMA GrowthIsJournal ==
    ASSUME WalInv, JournalGrows
    PROVE  [Journal!Next]_Recovered
<1>1. /\ ReadsBack(Parse(file)) /\ Recovered = load_all(Parse(file))
      /\ DOMAIN Recovered = 1..Len(Parse(file)) /\ Clean(Parse(file))
  BY RecoveredMeaning DEF WalInv, Records, FileOK, GoodFile
<1>2. \A k \in DOMAIN Recovered : Recovered[k] = RecordOf(Parse(file)[k])
  BY <1>1 DEF ReadsBack
<1>3. ASSUME NEW n \in TxnId, New(n, file), RecordAdded(n)
      PROVE  Journal!Next
  <2>1. \A k \in DOMAIN Recovered : Recovered[k].id # n
    BY <1>1, <1>2, <1>3 DEF New, RecordOf
  <2>2. Journal!Record(n)
    BY <1>3, <2>1 DEF Journal!Record, RecordAdded, NewLine
  <2> QED
    BY <2>2 DEF Journal!Next
<1>4. ASSUME NEW n \in TxnId, RecordCommitted(n)
      PROVE  Journal!Next \/ RecordsKept
  <2>1. PICK k \in DOMAIN Recovered :
          /\ Recovered[k].id = n
          /\ Recovered' = [Recovered EXCEPT ![k].state = "Committed"]
    BY <1>4 DEF RecordCommitted
  <2>2. /\ Recovered[k] = [id |-> n, state |-> Recovered[k].state]
        /\ Recovered[k].state \in {"Validated", "Committed"}
    <3>1. CleanEntry(Parse(file)[k])
      BY <1>1, <2>1 DEF Clean
    <3> QED
      BY <1>2, <2>1, <3>1 DEF RecordOf, CleanEntry
  <2>3. CASE Recovered[k].state = "Validated"
    <3>1. Journal!Commit(n)
      BY <2>1, <2>2, <2>3 DEF Journal!Commit
    <3> QED
      BY <3>1 DEF Journal!Next
  <2>4. CASE Recovered[k].state = "Committed"
    <3> DEFINE r == Recovered
    <3>1. /\ r = [j \in 1..Len(Parse(file)) |-> r[j]] /\ k \in DOMAIN r
          /\ r[k] = [id |-> n, state |-> "Committed"]
          /\ Recovered' = [r EXCEPT ![k].state = "Committed"]
      BY <1>1, <2>1, <2>2, <2>4 DEF ReadsBack
    <3> HIDE DEF r
    <3>2. [r EXCEPT ![k].state = "Committed"] = r
      BY <3>1
    <3> QED
      BY <3>1, <3>2 DEF RecordsKept, r
  <2> QED
    BY <2>2, <2>3, <2>4
<1> QED
  BY <1>3, <1>4 DEF JournalGrows, RecordsKept

\* The detailed journal implements the abstract one: through crashes inside
\* append and mark_committed, reopenings and failed markers, a reader of the
\* file sees records appended once and committed in place, and nothing else.
THEOREM WalImplementsJournal ==
    ASSUME "append" \notin Faults
    PROVE  Spec => JournalSpec
<1>1. Init => Journal!Init
  BY WalInit DEF Journal!Init
<1>2. WalInv /\ [Next]_vars => [Journal!Next]_Recovered
  BY WalStep, GrowthIsJournal
<1> QED
  BY WalInvariant, <1>1, <1>2, PTL DEF Spec, JournalSpec, Journal!Spec
=============================================================================
