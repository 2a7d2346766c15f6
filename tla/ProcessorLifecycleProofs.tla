---------------------- MODULE ProcessorLifecycleProofs ----------------------
(***************************************************************************)
(* Theorems about ProcessorLifecycle, for any number of workers, pullers,  *)
(* clients, controllers, submissions and starts: every reserved id and     *)
(* every ticket is accounted for, ids are used once, and stop() of a       *)
(* running processor drains it.                                            *)
(***************************************************************************)
EXTENDS ProcessorLifecycle, FiniteSetTheorems, TLAPS

Place == {"absent", "idle", "task", "pop", "take_id", "process", "exited",
          "enqueue", "notify", "pool_stop", "join"}

TypeInv ==
    /\ TypeOK
    /\ pc \in [Runner \cup Client \cup Controller -> Place]

Taking == {r \in Runner : pc[r] = "take_id"}

Enqueuing == {c \in Client : pc[c] = "enqueue"}

\* Workers inside consumer_loop.
Consuming == {w \in Worker : pc[w] \in {"pop", "take_id", "process"}}

\* submit() and stop() run under submit_mutex_.
MutexInv == \A x \in Client \cup Controller : pc[x] # "idle" <=> submit_mutex = x

\* The pool runs between start() and stop(); stop_requested is read by a
\* consumer only while stop() holds submit_mutex_.  A consumer_loop task has
\* not been handed out, or runs, or found a drained queue.
PoolInv ==
    /\ ~started => \A w \in Worker : pc[w] = "absent"
    /\ \A k \in Controller : pc[k] # "idle" => started /\ stop_requested
    /\ started /\ stop_requested => submit_mutex \in Controller
    /\ \A w \in Worker : pc[w] = "exited" => tasks = 0
    /\ started => \/ tasks + Cardinality(Consuming) = Cardinality(Worker)
                  \/ queue = <<>> /\ stop_requested

\* What a runner carries, and the ticket a client is about to enqueue.
HandsInv ==
    /\ \A r \in Runner : ticket[r] # 0 <=> r \in Busy
    /\ \A r \in Runner : pc[r] = "process" => id[r] # 0
    /\ \A c \in Client : pc[c] = "enqueue" => next_id > 1

\* An id is in one place: reserved, taken, or used.
IdsInv ==
    /\ \A i \in DOMAIN reserved : reserved[i] < next_id
    /\ \A i, j \in DOMAIN reserved : reserved[i] = reserved[j] => i = j
    /\ \A r \in Runner : pc[r] = "process" =>
          /\ id[r] \notin Elements(reserved)
          /\ id[r] < next_id
    /\ \A r, q \in Runner :
          pc[r] = "process" /\ pc[q] = "process" /\ id[r] = id[q] => r = q
    /\ \A i \in DOMAIN processed :
          /\ processed[i].id < next_id
          /\ processed[i].id \notin Elements(reserved)
          /\ \A r \in Runner : pc[r] = "process" => processed[i].id # id[r]
    /\ IdsUsedOnce

LifecycleInv ==
    /\ TypeInv
    /\ MutexInv
    /\ PoolInv
    /\ HandsInv
    /\ ReservationsMatch
    /\ EachTicketOnce
    /\ IdsInv

-----------------------------------------------------------------------------
(* Counting threads.                                                       *)

LEMMA FiniteRoles ==
    IsFiniteSet(Runner) /\ IsFiniteSet(Client) /\ IsFiniteSet(Worker)
BY RolesAssumption, FS_Union DEF Runner

\* One thread more, one thread less.
LEMMA CountStep ==
    ASSUME NEW S, IsFiniteSet(S), NEW T \in SUBSET S, NEW x \in S
    PROVE  /\ Cardinality(T) \in Nat
           /\ x \notin T => Cardinality(T \cup {x}) = Cardinality(T) + 1
           /\ x \in T => /\ Cardinality(T \ {x}) = Cardinality(T) - 1
                         /\ Cardinality(T) > 0
<1>1. IsFiniteSet(T) /\ IsFiniteSet(T \ {x})
  BY FS_Subset
<1>2. Cardinality(T) \in Nat /\ Cardinality(T \ {x}) \in Nat
  BY <1>1, FS_CardinalityType
<1>3. x \notin T => Cardinality(T \cup {x}) = Cardinality(T) + 1
  BY <1>1, FS_AddElement
<1>4. x \in T => Cardinality(T \ {x}) = Cardinality(T) - 1
  BY <1>1, FS_RemoveElement
<1> QED
  BY <1>2, <1>3, <1>4

\* Elements of a sequence that loses its first one, or grows.
LEMMA ElementsStep ==
    ASSUME NEW S, NEW s \in Seq(S), s # <<>>
    PROVE  Elements(s) = {Head(s)} \cup Elements(Tail(s))
<1>1. /\ Len(s) \in Nat /\ Len(s) > 0
      /\ DOMAIN s = 1..Len(s) /\ DOMAIN Tail(s) = 1..(Len(s) - 1)
      /\ \A i \in 1..(Len(s) - 1) : Tail(s)[i] = s[i + 1]
      /\ Head(s) = s[1]
  OBVIOUS
<1>2. Elements(s) \subseteq {Head(s)} \cup Elements(Tail(s))
  <2> SUFFICES ASSUME NEW i \in 1..Len(s), i # 1
               PROVE  s[i] \in Elements(Tail(s))
    BY <1>1 DEF Elements
  <2>1. i - 1 \in DOMAIN Tail(s) /\ Tail(s)[i - 1] = s[i]
    BY <1>1
  <2> QED
    BY <2>1 DEF Elements
<1>3. Head(s) \in Elements(s)
  BY <1>1 DEF Elements
<1>4. Elements(Tail(s)) \subseteq Elements(s)
  <2> SUFFICES ASSUME NEW i \in 1..(Len(s) - 1)
               PROVE  Tail(s)[i] \in Elements(s)
    BY <1>1 DEF Elements
  <2>1. i + 1 \in DOMAIN s /\ Tail(s)[i] = s[i + 1]
    BY <1>1
  <2> QED
    BY <2>1 DEF Elements
<1> QED
  BY <1>2, <1>3, <1>4

Extends(t, s, e) ==
    /\ DOMAIN t = DOMAIN s \cup {Len(s) + 1}
    /\ \A i \in DOMAIN s : t[i] = s[i]
    /\ t[Len(s) + 1] = e

LEMMA AppendExtends ==
    ASSUME NEW S, NEW s \in Seq(S), NEW e \in S
    PROVE  Extends(Append(s, e), s, e)
BY DEF Extends

LEMMA ElementsAppended ==
    ASSUME NEW s, NEW e, NEW t, Extends(t, s, e)
    PROVE  Elements(t) = Elements(s) \cup {e}
BY DEF Elements, Extends

LEMMA ElementType ==
    ASSUME NEW S, NEW s \in Seq(S)
    PROVE  \A i \in DOMAIN s : s[i] \in S
OBVIOUS

\* What is popped.
LEMMA PoppedOne ==
    ASSUME NEW S, NEW s \in Seq(S), s # <<>>
    PROVE  /\ Head(s) \in S
           /\ Head(s) = s[1] /\ 1 \in DOMAIN s
           /\ Tail(s) \in Seq(S)
           /\ Len(Tail(s)) = Len(s) - 1
           /\ DOMAIN Tail(s) = 1..(Len(s) - 1)
           /\ \A i \in DOMAIN Tail(s) : i + 1 \in DOMAIN s /\ Tail(s)[i] = s[i + 1]
OBVIOUS

\* A consumer between the two pops finds an id reserved for it.
LEMMA ReservedThere ==
    ASSUME TypeInv, ReservationsMatch, NEW r \in Runner, pc[r] = "take_id"
    PROVE  reserved # <<>>
<1>1. Cardinality(Taking) > 0 /\ Cardinality(Taking) \in Nat
  BY FiniteRoles, CountStep DEF Taking
<1>2. Cardinality(Enqueuing) \in Nat
  BY FiniteRoles, FS_Subset, FS_CardinalityType DEF Enqueuing
<1>3. Len(queue) \in Nat /\ reserved \in Seq(1..MaxTxns)
  BY DEF TypeInv, TypeOK
<1>4. Len(reserved) > 0
  BY <1>1, <1>2, <1>3 DEF ReservationsMatch, Taking, Enqueuing
<1> QED
  BY <1>3, <1>4

-----------------------------------------------------------------------------
(* One thread moves.                                                       *)

Thread == Runner \cup Client \cup Controller

LEMMA Moved ==
    ASSUME TypeInv, NEW t \in Thread, NEW l \in Place, Goto(t, l)
    PROVE  /\ pc' \in [Thread -> Place]
           /\ pc'[t] = l
           /\ \A u \in Thread : u # t => pc'[u] = pc[u]
BY DEF TypeInv, Thread, Goto

\* The sets of threads the invariants count, after a runner's step.
LEMMA RunnerMoved ==
    ASSUME TypeInv, NEW r \in Runner, NEW l \in Place, Goto(r, l)
    PROVE  /\ Taking' = IF l = "take_id" THEN Taking \cup {r}
                                         ELSE Taking \ {r}
           /\ Busy' = IF l \in {"take_id", "process"} THEN Busy \cup {r}
                                                      ELSE Busy \ {r}
           /\ Enqueuing' = Enqueuing
           /\ \A x \in Client \cup Controller : pc'[x] = pc[x]
           /\ \A q \in Runner : q # r => pc'[q] = pc[q]
           /\ pc'[r] = l
           /\ pc' \in [Thread -> Place]
<1>1. /\ pc' \in [Thread -> Place]
      /\ pc'[r] = l
      /\ \A u \in Thread : u # r => pc'[u] = pc[u]
  BY Moved DEF Thread
<1>2. \A x \in Client \cup Controller : x # r /\ x \in Thread
  BY RolesAssumption DEF Runner, Thread
<1>3. Runner \subseteq Thread
  BY DEF Thread
<1> QED
  BY <1>1, <1>2, <1>3 DEF Taking, Busy, Enqueuing

\* ... and after a step of submit() or stop().
LEMMA CallerMoved ==
    ASSUME TypeInv, NEW t \in Client \cup Controller, NEW l \in Place,
           Goto(t, l)
    PROVE  /\ Taking' = Taking
           /\ Busy' = Busy
           /\ t \in Client =>
                 Enqueuing' = IF l = "enqueue" THEN Enqueuing \cup {t}
                                               ELSE Enqueuing \ {t}
           /\ t \in Controller => Enqueuing' = Enqueuing
           /\ \A q \in Runner : pc'[q] = pc[q]
           /\ \A x \in Client \cup Controller : x # t => pc'[x] = pc[x]
           /\ pc'[t] = l
           /\ pc' \in [Thread -> Place]
<1>1. /\ pc' \in [Thread -> Place]
      /\ pc'[t] = l
      /\ \A u \in Thread : u # t => pc'[u] = pc[u]
  BY Moved DEF Thread
<1>2. \A q \in Runner : q # t /\ q \in Thread
  BY RolesAssumption DEF Runner, Thread
<1>3. /\ Client \subseteq Thread /\ Controller \subseteq Thread
      /\ t \in Controller => t \notin Client
  BY RolesAssumption DEF Thread
<1> QED
  BY <1>1, <1>2, <1>3 DEF Taking, Busy, Enqueuing

\* start() and the join move every worker at once; none of them is busy.
LEMMA PoolMoved ==
    ASSUME TypeInv, NEW k \in Controller, NEW l \in {"task", "absent"},
           \A w \in Worker : pc[w] \in {"absent", "exited"},
           pc' = [t \in DOMAIN pc |->
                    CASE t \in Worker -> l [] t = k -> "idle"
                      [] OTHER -> pc[t]]
    PROVE  /\ Taking' = Taking
           /\ Busy' = Busy
           /\ Enqueuing' = Enqueuing
           /\ \A w \in Worker : pc'[w] = l
           /\ \A p \in Puller : pc'[p] = pc[p]
           /\ \A x \in Client \cup Controller : x # k => pc'[x] = pc[x]
           /\ pc'[k] = "idle"
           /\ pc' \in [Thread -> Place]
<1>1. DOMAIN pc = Thread
  BY DEF TypeInv, Thread
<1>2. /\ \A w \in Worker : pc'[w] = l
      /\ \A p \in Puller : pc'[p] = pc[p]
      /\ \A x \in Client \cup Controller : x # k => pc'[x] = pc[x]
      /\ pc'[k] = "idle"
  BY <1>1, RolesAssumption DEF Thread, Runner
<1>3. pc' \in [Thread -> Place]
  BY <1>1 DEF TypeInv, Thread, Place
<1>4. \A c \in Client : c # k
  BY RolesAssumption
<1> QED
  BY <1>2, <1>3, <1>4 DEF Taking, Busy, Enqueuing, Runner

\* start() while no pool is running, and the join when it has exited.
LEMMA StartMoves ==
    ASSUME LifecycleInv, NEW k \in Controller, Start(k)
    PROVE  /\ \A w \in Worker : pc[w] = "absent" /\ pc'[w] = "task"
           /\ Taking' = Taking /\ Busy' = Busy /\ Enqueuing' = Enqueuing
           /\ \A p \in Puller : pc'[p] = pc[p]
           /\ \A x \in Client \cup Controller : pc'[x] = pc[x]
           /\ pc' \in [Thread -> Place]
<1>1. \A w \in Worker : pc[w] = "absent"
  BY DEF LifecycleInv, PoolInv, Start
<1>2. TypeInv /\ pc[k] = "idle"
  BY DEF LifecycleInv, Start
<1>3. DOMAIN pc = Thread
  BY <1>2 DEF TypeInv, Thread
<1>4. /\ \A w \in Worker : pc'[w] = "task"
      /\ \A p \in Puller : pc'[p] = pc[p]
      /\ \A x \in Client \cup Controller : pc'[x] = pc[x]
  BY <1>3, RolesAssumption DEF Start, Thread, Runner
<1>5. pc' \in [Thread -> Place]
  BY <1>2, <1>3 DEF Start, TypeInv, Thread, Place
<1> QED
  BY <1>1, <1>4, <1>5 DEF Taking, Busy, Enqueuing, Runner

LEMMA JoinMoves ==
    ASSUME LifecycleInv, NEW k \in Controller, Join(k)
    PROVE  /\ \A w \in Worker : pc[w] = "exited" /\ pc'[w] = "absent"
           /\ Taking' = Taking /\ Busy' = Busy /\ Enqueuing' = Enqueuing
           /\ \A p \in Puller : pc'[p] = pc[p]
           /\ \A x \in Client \cup Controller : x # k => pc'[x] = pc[x]
           /\ pc'[k] = "idle"
           /\ pc' \in [Thread -> Place]
BY PoolMoved DEF LifecycleInv, Join

-----------------------------------------------------------------------------
(* Types.                                                                  *)

\* TypeInv, where the threads are and the rest.
PlacesOK ==
    /\ pc \in [Runner \cup Client \cup Controller -> Place]
    /\ \A w \in Worker :
          pc[w] \in {"absent", "task", "pop", "take_id", "process", "exited"}
    /\ \A p \in Puller : pc[p] \in {"idle", "take_id", "process"}
    /\ \A c \in Client : pc[c] \in {"idle", "enqueue", "notify"}
    /\ \A k \in Controller : pc[k] \in {"idle", "pool_stop", "join"}

DataOK ==
    /\ submit_mutex \in Client \cup Controller \cup {Nobody}
    /\ {accepting, started, stop_requested, pool_stopping} \subseteq BOOLEAN
    /\ next_id \in 1..(MaxTxns + 1)
    /\ reserved \in Seq(1..MaxTxns)
    /\ queue \in Seq(1..MaxTxns)
    /\ waiting \subseteq Worker
    /\ tasks \in 0..Cardinality(Worker)
    /\ ticket \in [Runner -> 0..MaxTxns]
    /\ id \in [Runner -> 0..MaxTxns]
    /\ processed \in Seq([ticket : 1..MaxTxns, id : 1..MaxTxns])
    /\ starts \in 0..MaxStarts

LEMMA TypeParts == TypeInv <=> PlacesOK /\ DataOK
BY DEF TypeInv, TypeOK, PlacesOK, DataOK

LEMMA RunnerPlace ==
    ASSUME PlacesOK, NEW r \in Runner, NEW l, Goto(r, l),
           r \in Worker =>
              l \in {"absent", "task", "pop", "take_id", "process", "exited"},
           r \in Puller => l \in {"idle", "take_id", "process"}
    PROVE  PlacesOK'
<1>1. /\ r \in Thread /\ r \notin Client /\ r \notin Controller
      /\ l \in Place
      /\ pc \in [Thread -> Place]
      /\ Worker \subseteq Thread /\ Puller \subseteq Thread
      /\ Client \subseteq Thread /\ Controller \subseteq Thread
  BY RolesAssumption DEF Runner, Thread, Place, PlacesOK
<1>2. /\ pc' \in [Thread -> Place]
      /\ pc'[r] = l
      /\ \A u \in Thread : u # r => pc'[u] = pc[u]
  BY <1>1 DEF Goto
<1> QED
  BY <1>1, <1>2 DEF PlacesOK, Thread

LEMMA CallerPlace ==
    ASSUME PlacesOK, NEW t \in Client \cup Controller, NEW l, Goto(t, l),
           t \in Client => l \in {"idle", "enqueue", "notify"},
           t \in Controller => l \in {"idle", "pool_stop", "join"}
    PROVE  PlacesOK'
<1>1. /\ t \in Thread /\ t \notin Worker /\ t \notin Puller
      /\ l \in Place
      /\ pc \in [Thread -> Place]
      /\ Worker \subseteq Thread /\ Puller \subseteq Thread
      /\ Client \subseteq Thread /\ Controller \subseteq Thread
  BY RolesAssumption DEF Runner, Thread, Place, PlacesOK
<1>2. /\ pc' \in [Thread -> Place]
      /\ pc'[t] = l
      /\ \A u \in Thread : u # t => pc'[u] = pc[u]
  BY <1>1 DEF Goto
<1> QED
  BY <1>1, <1>2 DEF PlacesOK, Thread

LEMMA LifecycleTypes ==
    ASSUME LifecycleInv, [Next]_vars
    PROVE  TypeInv'
<1>1. /\ TypeInv /\ PlacesOK /\ DataOK /\ HandsInv /\ ReservationsMatch
      /\ RolesAssumption /\ BoundsAssumption
      /\ Worker \subseteq Runner /\ Puller \subseteq Runner
  BY RolesAssumption, BoundsAssumption, TypeParts DEF LifecycleInv, Runner
<1>2. Cardinality(Worker) \in Nat
  BY FiniteRoles, FS_CardinalityType
<1> SUFFICES PlacesOK' /\ DataOK'
  BY DEF TypeInv, TypeOK, PlacesOK, DataOK
<1>3. ASSUME NEW c \in Client, SubmitReserve(c) PROVE PlacesOK' /\ DataOK'
  <2>1. PlacesOK'
    BY <1>1, <1>3, CallerPlace DEF SubmitReserve
  <2>2. /\ Append(reserved, next_id) \in Seq(1..MaxTxns)
        /\ next_id' \in 1..(MaxTxns + 1)
    BY <1>1, <1>3 DEF DataOK, SubmitReserve
  <2> QED
    BY <1>3, <1>1, <2>1, <2>2
    DEF DataOK, SubmitReserve, control, pool, hands
<1>4. ASSUME NEW c \in Client, SubmitEnqueue(c) PROVE PlacesOK' /\ DataOK'
  <2>1. PlacesOK'
    BY <1>1, <1>4, CallerPlace DEF SubmitEnqueue
  <2>2. next_id - 1 \in 1..MaxTxns
    BY <1>1, <1>4 DEF DataOK, SubmitEnqueue, HandsInv
  <2>3. Append(queue, next_id - 1) \in Seq(1..MaxTxns)
    BY <1>1, <2>2 DEF DataOK
  <2> QED
    BY <1>1, <1>4, <2>1, <2>3
    DEF DataOK, SubmitEnqueue, control, ids, pool, hands
<1>5. ASSUME NEW c \in Client, SubmitNotify(c) PROVE PlacesOK' /\ DataOK'
  <2>1. PlacesOK'
    BY <1>1, <1>5, CallerPlace DEF SubmitNotify
  <2>2. waiting' \subseteq Worker
    BY <1>1, <1>5 DEF DataOK, SubmitNotify, notify_one
  <2> QED
    BY <1>1, <1>5, <2>1, <2>2
    DEF DataOK, SubmitNotify, control, ids, pool, hands
<1>6. ASSUME NEW k \in Controller, Start(k) PROVE PlacesOK' /\ DataOK'
  <2>1. PlacesOK'
    <3>1. DOMAIN pc = Thread /\ pc \in [Thread -> Place]
      BY <1>1 DEF PlacesOK, Thread
    <3>2. /\ pc' \in [Thread -> Place]
          /\ \A w \in Worker : pc'[w] = "task"
          /\ \A u \in Thread : u \notin Worker => pc'[u] = pc[u]
      BY <1>6, <3>1 DEF Start, Thread, Runner, Place
    <3> QED
      BY <1>1, <3>2 DEF PlacesOK, Thread, Runner, RolesAssumption
  <2>2. starts' \in 0..MaxStarts
    BY <1>1, <1>6 DEF DataOK, Start
  <2>3. tasks' \in 0..Cardinality(Worker)
    BY <1>2, <1>6 DEF Start, ConsumerTasks
  <2> QED
    BY <1>1, <1>6, <2>1, <2>2, <2>3 DEF DataOK, Start, ids, hands
<1>7. ASSUME NEW k \in Controller, StopIdle(k) PROVE PlacesOK' /\ DataOK'
  BY <1>1, <1>7 DEF PlacesOK, DataOK, StopIdle, ids, hands, pool
<1>8. ASSUME NEW k \in Controller, StopRequest(k) PROVE PlacesOK' /\ DataOK'
  <2>1. PlacesOK'
    BY <1>1, <1>8, CallerPlace DEF StopRequest
  <2> QED
    BY <1>1, <1>8, <2>1
    DEF DataOK, StopRequest, request_stop, ids, hands, pool
<1>9. ASSUME NEW k \in Controller, PoolStop(k) PROVE PlacesOK' /\ DataOK'
  <2>1. PlacesOK'
    BY <1>1, <1>9, CallerPlace DEF PoolStop
  <2> QED
    BY <1>1, <1>9, <2>1 DEF DataOK, PoolStop, control, ids, hands
<1>10. ASSUME NEW k \in Controller, Join(k) PROVE PlacesOK' /\ DataOK'
  <2>1. PlacesOK'
    <3>1. /\ \A w \in Worker : pc'[w] = "absent"
          /\ \A p \in Puller : pc'[p] = pc[p]
          /\ \A x \in Client \cup Controller : x # k => pc'[x] = pc[x]
          /\ pc'[k] = "idle"
          /\ pc' \in [Thread -> Place]
      BY <1>10, JoinMoves
    <3> QED
      BY <1>1, <3>1 DEF PlacesOK, Thread, RolesAssumption
  <2> QED
    BY <1>1, <1>10, <2>1 DEF DataOK, Join, ids, hands, pool
<1>11. ASSUME NEW w \in Worker, TakeTask(w) PROVE PlacesOK' /\ DataOK'
  <2>1. PlacesOK'
    BY <1>1, <1>11, RunnerPlace, RolesAssumption DEF TakeTask
  <2>2. tasks' \in 0..Cardinality(Worker)
    BY <1>1, <1>2, <1>11 DEF DataOK, TakeTask
  <2> QED
    BY <1>1, <1>11, <2>1, <2>2 DEF DataOK, TakeTask, control, ids, hands
<1>12. ASSUME NEW w \in Worker, WorkerExit(w) PROVE PlacesOK' /\ DataOK'
  <2>1. PlacesOK'
    BY <1>1, <1>12, RunnerPlace, RolesAssumption DEF WorkerExit
  <2> QED
    BY <1>1, <1>12, <2>1 DEF DataOK, WorkerExit, control, ids, pool, hands
<1>13. ASSUME NEW w \in Worker, WaitPopEmpty(w) PROVE PlacesOK' /\ DataOK'
  <2>1. CASE stop_requested
    <3>1. PlacesOK'
      BY <1>1, <1>13, <2>1, RunnerPlace, RolesAssumption DEF WaitPopEmpty
    <3> QED
      BY <1>1, <1>13, <2>1, <3>1
      DEF DataOK, WaitPopEmpty, control, ids, pool, hands
  <2>2. CASE ~stop_requested
    BY <1>1, <1>13, <2>2
    DEF PlacesOK, DataOK, WaitPopEmpty, control, ids, pool, hands
  <2> QED
    BY <2>1, <2>2
<1>14. ASSUME NEW r \in Runner, Pop(r) PROVE PlacesOK' /\ DataOK'
  <2>1. PlacesOK'
    BY <1>1, <1>14, RunnerPlace DEF Pop
  <2>2. Tail(queue) \in Seq(1..MaxTxns) /\ Head(queue) \in 0..MaxTxns
    BY <1>1, <1>14 DEF DataOK, Pop
  <2>3. ticket' \in [Runner -> 0..MaxTxns]
    BY <1>1, <1>14, <2>2 DEF DataOK, Pop
  <2> QED
    BY <1>1, <1>14, <2>1, <2>2, <2>3
    DEF DataOK, Pop, Popped, control, ids, pool
<1>15. ASSUME NEW r \in Runner, TakeReservedId(r) PROVE PlacesOK' /\ DataOK'
  <2>1. PlacesOK'
    BY <1>1, <1>15, RunnerPlace DEF TakeReservedId
  <2>2. reserved # <<>>
    BY <1>1, <1>15, ReservedThere DEF TakeReservedId
  <2>3. Tail(reserved) \in Seq(1..MaxTxns) /\ Head(reserved) \in 0..MaxTxns
    BY <1>1, <2>2 DEF DataOK
  <2>4. id' = [id EXCEPT ![r] = Head(reserved)] /\ next_id' = next_id
        /\ reserved' = Tail(reserved)
    BY <1>15, <2>2 DEF TakeReservedId, Reserved, Unreserved
  <2>5. id' \in [Runner -> 0..MaxTxns]
    BY <1>1, <2>3, <2>4 DEF DataOK
  <2> QED
    BY <1>1, <1>15, <2>1, <2>3, <2>4, <2>5
    DEF DataOK, TakeReservedId, control, pool
<1>16. ASSUME NEW r \in Runner, Process(r) PROVE PlacesOK' /\ DataOK'
  <2>1. PlacesOK'
    BY <1>1, <1>16, RunnerPlace, RolesAssumption DEF Process
  <2>2. ticket[r] # 0 /\ id[r] # 0
    BY <1>1, <1>16 DEF Process, HandsInv, Busy
  <2>3. [ticket |-> ticket[r], id |-> id[r]]
            \in [ticket : 1..MaxTxns, id : 1..MaxTxns]
    BY <1>1, <2>2 DEF DataOK
  <2>4. processed' \in Seq([ticket : 1..MaxTxns, id : 1..MaxTxns])
    BY <1>1, <1>16, <2>3 DEF DataOK, Process
  <2>5. ticket' \in [Runner -> 0..MaxTxns] /\ id' \in [Runner -> 0..MaxTxns]
    BY <1>1, <1>16 DEF DataOK, Process
  <2> QED
    BY <1>1, <1>16, <2>1, <2>4, <2>5 DEF DataOK, Process, control, ids, pool
<1>17. ASSUME UNCHANGED vars PROVE PlacesOK' /\ DataOK'
  BY <1>1, <1>17 DEF PlacesOK, DataOK, vars, control, ids, pool, hands
<1> QED
  BY <1>1, <1>3, <1>4, <1>5, <1>6, <1>7, <1>8, <1>9, <1>10, <1>11, <1>12, <1>13,
     <1>14, <1>15, <1>16, <1>17
  DEF Next, ClientStep, ControllerStep, WorkerStep, PullerStep

-----------------------------------------------------------------------------
(* submit_mutex_ and the pool.                                             *)

LEMMA MutexStep ==
    ASSUME LifecycleInv, [Next]_vars
    PROVE  MutexInv'
<1> USE DEF LifecycleInv
<1>1. /\ TypeInv /\ MutexInv /\ Worker \subseteq Runner /\ Puller \subseteq Runner
      /\ \A x \in Client \cup Controller : x # Nobody
  BY NobodyAssumption DEF Runner
<1>2. ASSUME NEW c \in Client, SubmitReserve(c) PROVE MutexInv'
  BY <1>1, <1>2, CallerMoved DEF MutexInv, SubmitReserve, Place
<1>3. ASSUME NEW c \in Client, SubmitEnqueue(c) PROVE MutexInv'
  BY <1>1, <1>3, CallerMoved DEF MutexInv, SubmitEnqueue, Place
<1>4. ASSUME NEW c \in Client, SubmitNotify(c) PROVE MutexInv'
  BY <1>1, <1>4, CallerMoved DEF MutexInv, SubmitNotify, Place
<1>5. ASSUME NEW k \in Controller, Start(k) PROVE MutexInv'
  BY <1>1, <1>5, StartMoves DEF MutexInv, Start
<1>6. ASSUME NEW k \in Controller, StopIdle(k) PROVE MutexInv'
  BY <1>1, <1>6 DEF MutexInv, StopIdle
<1>7. ASSUME NEW k \in Controller, StopRequest(k) PROVE MutexInv'
  BY <1>1, <1>7, CallerMoved DEF MutexInv, StopRequest, Place
<1>8. ASSUME NEW k \in Controller, PoolStop(k) PROVE MutexInv'
  BY <1>1, <1>8, CallerMoved DEF MutexInv, PoolStop, Place
<1>9. ASSUME NEW k \in Controller, Join(k) PROVE MutexInv'
  <2>1. /\ \A x \in Client \cup Controller : x # k => pc'[x] = pc[x]
        /\ pc'[k] = "idle"
    BY <1>9, JoinMoves
  <2>2. pc[k] # "idle" /\ submit_mutex' = Nobody
    BY <1>9 DEF Join
  <2> QED
    BY <1>1, <2>1, <2>2 DEF MutexInv
<1>10. ASSUME NEW r \in Runner, NEW l \in Place, Goto(r, l) \/ pc' = pc,
              submit_mutex' = submit_mutex
       PROVE  MutexInv'
  BY <1>1, <1>10, RunnerMoved DEF MutexInv
<1>11. ASSUME NEW w \in Worker, WorkerStep(w) PROVE MutexInv'
  BY <1>1, <1>10, <1>11
  DEF WorkerStep, TakeTask, WorkerExit, WaitPopEmpty, Pop, TakeReservedId,
      Process, Place
<1>12. ASSUME NEW p \in Puller, PullerStep(p) PROVE MutexInv'
  BY <1>1, <1>10, <1>12
  DEF PullerStep, Pop, TakeReservedId, Process, Place
<1>13. ASSUME UNCHANGED vars PROVE MutexInv'
  BY <1>1, <1>13 DEF MutexInv, vars
<1> QED
  BY <1>2, <1>3, <1>4, <1>5, <1>6, <1>7, <1>8, <1>9, <1>11, <1>12, <1>13
  DEF Next, ClientStep, ControllerStep

\* A step of submit() leaves the pool alone, and meets no stop().
LEMMA ClientPool ==
    ASSUME LifecycleInv, NEW c \in Client, NEW l \in Place, Goto(c, l),
           UNCHANGED <<control, pool>>,
           ~(started /\ stop_requested) \/ UNCHANGED <<submit_mutex, queue>>
    PROVE  PoolInv'
<1>1. TypeInv /\ PoolInv /\ Worker \subseteq Runner
  BY DEF LifecycleInv, Runner
<1>2. /\ \A w \in Worker : pc'[w] = pc[w]
      /\ \A k \in Controller : pc'[k] = pc[k]
  BY <1>1, CallerMoved, RolesAssumption
<1>3. Consuming' = Consuming
  BY <1>2 DEF Consuming
<1> QED
  BY <1>1, <1>2, <1>3 DEF PoolInv, control, pool

LEMMA PoolStep ==
    ASSUME LifecycleInv, [Next]_vars
    PROVE  PoolInv'
<1> USE DEF LifecycleInv
<1>1. /\ TypeInv /\ TypeOK /\ MutexInv /\ PoolInv
      /\ Worker \subseteq Runner /\ Puller \subseteq Runner
      /\ \A c \in Client : c # Nobody /\ c \notin Controller
      /\ Nobody \notin Controller
      /\ \A w \in Worker : w \notin Controller
  BY NobodyAssumption, RolesAssumption DEF Runner, TypeInv
<1>2. ASSUME NEW c \in Client, ClientStep(c) PROVE PoolInv'
  <2>1. CASE SubmitReserve(c)
    <3>1. ~(started /\ stop_requested) /\ "enqueue" \in Place
      BY <1>1, <2>1 DEF PoolInv, SubmitReserve, Place
    <3> QED
      BY <2>1, <3>1, ClientPool DEF SubmitReserve
  <2>2. ASSUME SubmitEnqueue(c) \/ SubmitNotify(c)
        PROVE  PoolInv'
    <3>1. submit_mutex = c
      BY <1>1, <2>2 DEF MutexInv, SubmitEnqueue, SubmitNotify
    <3>2. ~(started /\ stop_requested) /\ {"notify", "idle"} \subseteq Place
      BY <1>1, <3>1 DEF PoolInv, Place
    <3> QED
      BY <2>2, <3>2, ClientPool DEF SubmitEnqueue, SubmitNotify
  <2> QED
    BY <1>2, <2>1, <2>2 DEF ClientStep
<1>3. ASSUME NEW k \in Controller, Start(k) PROVE PoolInv'
  <2>1. /\ \A x \in Controller : pc'[x] = "idle"
        /\ \A w \in Worker : pc'[w] = "task"
    BY <1>1, <1>3, StartMoves DEF PoolInv, Start
  <2>2. Consuming' = {}
    BY <2>1 DEF Consuming
  <2>3. Cardinality(Worker) \in Nat /\ Cardinality({}) = 0
    BY FiniteRoles, FS_CardinalityType, FS_EmptySet
  <2> QED
    BY <1>1, <1>3, <2>1, <2>2, <2>3 DEF PoolInv, Start, ConsumerTasks
<1>4. ASSUME NEW k \in Controller, StopIdle(k) PROVE PoolInv'
  BY <1>1, <1>4 DEF PoolInv, StopIdle, Consuming, pool
<1>5. ASSUME NEW k \in Controller, StopRequest(k) \/ PoolStop(k)
      PROVE  PoolInv'
  <2>1. /\ \A w \in Worker : pc'[w] = pc[w]
        /\ \A x \in Controller : x # k => pc'[x] = pc[x]
    BY <1>1, <1>5, CallerMoved DEF StopRequest, PoolStop, Place
  <2>2. Consuming' = Consuming
    BY <2>1 DEF Consuming
  <2>3. CASE StopRequest(k)
    BY <1>1, <2>1, <2>2, <2>3 DEF PoolInv, StopRequest, request_stop, pool
  <2>4. CASE PoolStop(k)
    BY <1>1, <2>1, <2>2, <2>4 DEF PoolInv, PoolStop, control
  <2> QED
    BY <1>5, <2>3, <2>4
<1>6. ASSUME NEW k \in Controller, Join(k) PROVE PoolInv'
  <2>1. \A x \in Controller : x # k => pc[x] = "idle"
    BY <1>1, <1>6 DEF MutexInv, Join
  <2>2. /\ \A x \in Controller : pc'[x] = "idle"
        /\ \A w \in Worker : pc'[w] = "absent"
    BY <1>1, <1>6, <2>1, JoinMoves
  <2> QED
    BY <1>6, <2>2 DEF PoolInv, Join
<1>7. ASSUME NEW w \in Worker, TakeTask(w) PROVE PoolInv'
  <2>1. /\ \A u \in Worker : u # w => pc'[u] = pc[u]
        /\ pc[w] = "task" /\ pc'[w] = "pop"
        /\ \A x \in Controller : pc'[x] = pc[x]
    BY <1>1, <1>7, RunnerMoved DEF TakeTask, Place
  <2>2. Consuming' = Consuming \cup {w} /\ w \notin Consuming
    BY <2>1 DEF Consuming
  <2>3. /\ Cardinality(Consuming') = Cardinality(Consuming) + 1
        /\ Cardinality(Consuming) \in Nat
    <3>1. Consuming \in SUBSET Worker
      BY DEF Consuming
    <3> QED
      BY <2>2, <3>1, FiniteRoles, CountStep
  <2>4. Cardinality(Worker) \in Nat /\ tasks \in Nat
    BY <1>1, FiniteRoles, FS_CardinalityType DEF TypeOK
  <2>5. started /\ started' = started /\ stop_requested' = stop_requested
        /\ submit_mutex' = submit_mutex /\ queue' = queue
        /\ tasks > 0 /\ tasks' = tasks - 1
    BY <1>1, <1>7, <2>1 DEF PoolInv, TakeTask, control
  <2>6. tasks' + Cardinality(Consuming') = tasks + Cardinality(Consuming)
    BY <2>3, <2>4, <2>5
  <2> QED
    BY <1>1, <2>1, <2>4, <2>5, <2>6 DEF PoolInv
<1>8. ASSUME NEW w \in Worker, WorkerExit(w) PROVE PoolInv'
  <2>1. /\ \A u \in Worker : u # w => pc'[u] = pc[u]
        /\ pc[w] = "task" /\ pc'[w] = "exited"
        /\ \A x \in Controller : pc'[x] = pc[x]
    BY <1>1, <1>8, RunnerMoved DEF WorkerExit, Place
  <2>2. Consuming' = Consuming
    BY <2>1 DEF Consuming
  <2> QED
    BY <1>1, <1>8, <2>1, <2>2 DEF PoolInv, WorkerExit, control, pool
<1>9. ASSUME NEW w \in Worker, WaitPopEmpty(w) PROVE PoolInv'
  <2>1. CASE stop_requested
    <3>1. /\ \A u \in Worker : u # w => pc'[u] = pc[u]
          /\ pc[w] = "pop" /\ pc'[w] = "task"
          /\ \A x \in Controller : pc'[x] = pc[x]
      BY <1>1, <1>9, <2>1, RunnerMoved DEF WaitPopEmpty, Place
    <3> QED
      BY <1>1, <1>9, <2>1, <3>1
      DEF PoolInv, WaitPopEmpty, NothingToPop, control, pool
  <2>2. CASE ~stop_requested
    BY <1>1, <1>9, <2>2 DEF PoolInv, WaitPopEmpty, Consuming, control, pool
  <2> QED
    BY <2>1, <2>2
\* A consumer with a transaction stays in its loop; a puller is no worker.
<1>10. ASSUME NEW r \in Runner, NEW l \in {"pop", "idle", "take_id", "process"},
              Goto(r, l), r \in Worker => l # "idle",
              r \in Worker => r \in Consuming,
              UNCHANGED <<submit_mutex, control, pool>>,
              queue' = queue \/ queue # <<>>
       PROVE  PoolInv'
  <2>1. /\ \A u \in Worker : u # r => pc'[u] = pc[u]
        /\ pc'[r] = l
        /\ \A x \in Controller : pc'[x] = pc[x]
    BY <1>1, <1>10, RunnerMoved DEF Place
  <2>2. Consuming' = Consuming
    BY <1>10, <2>1 DEF Consuming
  <2>3. r \in Worker => pc[r] # "absent"
    BY <1>10 DEF Consuming
  <2> QED
    BY <1>1, <1>10, <2>1, <2>2, <2>3 DEF PoolInv, control, pool
<1>11. ASSUME NEW r \in Runner, Pop(r) PROVE PoolInv'
  BY <1>10, <1>11 DEF Pop, Consuming
<1>12. ASSUME NEW r \in Runner, TakeReservedId(r) PROVE PoolInv'
  BY <1>10, <1>12 DEF TakeReservedId, Consuming
<1>13. ASSUME NEW r \in Runner, Process(r) PROVE PoolInv'
  <2>1. CASE r \in Worker
    BY <1>10, <1>13, <2>1 DEF Process, Consuming
  <2>2. CASE r \notin Worker
    BY <1>10, <1>13, <2>2 DEF Process
  <2> QED
    BY <2>1, <2>2
<1>14. ASSUME UNCHANGED vars PROVE PoolInv'
  BY <1>1, <1>14 DEF PoolInv, Consuming, vars, control, pool
<1> QED
  BY <1>1, <1>2, <1>3, <1>4, <1>5, <1>6, <1>7, <1>8, <1>9, <1>11, <1>12,
     <1>13, <1>14
  DEF Next, ControllerStep, WorkerStep, PullerStep

-----------------------------------------------------------------------------
(* What runners and clients hold.  Most steps move no transaction and no   *)
(* id.                                                                     *)

MovesNothing ==
    /\ UNCHANGED <<ids, queue, hands>>
    /\ UNCHANGED <<Taking, Busy, Enqueuing>>

Moves == \/ \E c \in Client : SubmitReserve(c) \/ SubmitEnqueue(c)
         \/ \E r \in Runner : Pop(r) \/ TakeReservedId(r) \/ Process(r)

LEMMA MovesOrNothing ==
    ASSUME LifecycleInv, [Next]_vars
    PROVE  Moves \/ MovesNothing
<1>1. TypeInv /\ Worker \subseteq Runner /\ Puller \subseteq Runner
  BY DEF LifecycleInv, Runner
<1>2. ASSUME NEW c \in Client, SubmitNotify(c) PROVE MovesNothing
  <2>1. c \notin Enqueuing /\ "idle" \in Place /\ "idle" # "enqueue"
    BY <1>2 DEF Enqueuing, SubmitNotify, Place
  <2> QED
    BY <1>1, <1>2, <2>1, CallerMoved DEF MovesNothing, SubmitNotify
<1>3. ASSUME NEW k \in Controller, ControllerStep(k) PROVE MovesNothing
  <2>1. CASE Start(k)
    BY <2>1, StartMoves DEF MovesNothing, Start
  <2>2. CASE StopIdle(k)
    BY <2>2 DEF MovesNothing, StopIdle, Taking, Busy, Enqueuing
  <2>3. CASE StopRequest(k)
    BY <1>1, <2>3, CallerMoved DEF MovesNothing, StopRequest, Place
  <2>4. CASE PoolStop(k)
    BY <1>1, <2>4, CallerMoved DEF MovesNothing, PoolStop, Place
  <2>5. CASE Join(k)
    BY <2>5, JoinMoves DEF MovesNothing, Join
  <2> QED
    BY <1>3, <2>1, <2>2, <2>3, <2>4, <2>5 DEF ControllerStep
<1>4. ASSUME NEW w \in Worker,
             TakeTask(w) \/ WorkerExit(w) \/ WaitPopEmpty(w)
      PROVE  MovesNothing
  <2>1. UNCHANGED <<ids, queue, hands>>
    BY <1>4 DEF TakeTask, WorkerExit, WaitPopEmpty
  <2>2. pc[w] \in {"task", "pop"}
    BY <1>4 DEF TakeTask, WorkerExit, WaitPopEmpty
  <2>3. w \notin Taking /\ w \notin Busy
    BY <2>2 DEF Taking, Busy
  <2>4. CASE pc' = pc
    BY <2>1, <2>4 DEF MovesNothing, Taking, Busy, Enqueuing
  <2>5. ASSUME NEW l \in {"task", "pop", "exited"}, Goto(w, l)
        PROVE  MovesNothing
    <3>1. l \in Place /\ l \notin {"take_id", "process"} /\ l # "take_id"
      BY DEF Place
    <3>2. /\ Taking' = Taking \ {w} /\ Busy' = Busy \ {w}
          /\ Enqueuing' = Enqueuing
      BY <1>1, <2>5, <3>1, RunnerMoved
    <3> QED
      BY <2>1, <2>3, <3>2 DEF MovesNothing
  <2> QED
    BY <1>4, <2>4, <2>5 DEF TakeTask, WorkerExit, WaitPopEmpty
<1>5. ASSUME UNCHANGED vars PROVE MovesNothing
  BY <1>5 DEF vars, MovesNothing, Taking, Busy, Enqueuing
<1> QED
  BY <1>1, <1>2, <1>3, <1>4, <1>5
  DEF Next, ClientStep, WorkerStep, PullerStep, Moves

\* A runner is processing when it is busy and has its id.
LEMMA Processing == \A r \in Runner : pc[r] = "process" <=> r \in Busy \ Taking
BY DEF Busy, Taking

LEMMA HandsStep ==
    ASSUME LifecycleInv, [Next]_vars
    PROVE  HandsInv'
<1>1. /\ TypeInv /\ TypeOK /\ HandsInv
      /\ \A c \in Client : c \notin Controller
  BY RolesAssumption DEF LifecycleInv, TypeInv
<1>2. CASE MovesNothing
  <2>1. /\ UNCHANGED <<next_id, ticket, id, Busy, Taking>>
        /\ \A c \in Client : pc'[c] = "enqueue" => pc[c] = "enqueue"
    BY <1>2 DEF MovesNothing, ids, hands, Enqueuing
  <2>2. \A r \in Runner : pc'[r] = "process" => pc[r] = "process"
    BY <2>1 DEF Busy, Taking
  <2> QED
    BY <1>1, <2>1, <2>2 DEF HandsInv
<1>3. ASSUME NEW c \in Client, SubmitReserve(c) \/ SubmitEnqueue(c)
      PROVE  HandsInv'
  <2>1. /\ next_id \in Nat /\ next_id >= 1 /\ next_id' \in Nat
        /\ next_id' >= next_id
        /\ pc'[c] = "enqueue" => next_id' > 1
        /\ \A d \in Client : d # c => pc'[d] = pc[d]
        /\ \A r \in Runner : pc'[r] = pc[r]
    BY <1>1, <1>3, CallerMoved
    DEF TypeOK, SubmitReserve, SubmitEnqueue, Place, ids
  <2>2. ticket' = ticket /\ id' = id /\ Busy' = Busy
    BY <1>3, <2>1 DEF SubmitReserve, SubmitEnqueue, hands, Busy
  <2> QED
    BY <1>1, <2>1, <2>2 DEF HandsInv
<1>4. ASSUME NEW r \in Runner, Pop(r) PROVE HandsInv'
  <2>1. Head(queue) \in 1..MaxTxns
    BY <1>1, <1>4, PoppedOne DEF TypeOK, Pop
  <2>2. ticket'[r] # 0 /\ \A q \in Runner : q # r => ticket'[q] = ticket[q]
    BY <1>1, <1>4, <2>1 DEF TypeOK, Pop
  <2>3. /\ Busy' = Busy \cup {r} /\ pc'[r] = "take_id"
        /\ \A q \in Runner : q # r => pc'[q] = pc[q]
        /\ \A c \in Client : pc'[c] = pc[c]
    BY <1>1, <1>4, RunnerMoved DEF Pop, Place
  <2>4. id' = id /\ next_id' = next_id
    BY <1>4 DEF Pop, ids
  <2> QED
    BY <1>1, <2>2, <2>3, <2>4 DEF HandsInv
<1>5. ASSUME NEW r \in Runner, TakeReservedId(r) PROVE HandsInv'
  <2>1. reserved # <<>>
    BY <1>5, ReservedThere DEF TakeReservedId, LifecycleInv
  <2>2. id' = [id EXCEPT ![r] = Head(reserved)] /\ next_id' = next_id
    BY <1>5, <2>1 DEF TakeReservedId, Reserved
  <2>3. Head(reserved) \in 1..MaxTxns
    BY <1>1, <2>1, PoppedOne DEF TypeOK
  <2>4. id'[r] # 0 /\ \A q \in Runner : q # r => id'[q] = id[q]
    BY <1>1, <2>2, <2>3 DEF TypeOK
  <2>5. /\ Busy' = Busy \cup {r} /\ pc'[r] = "process"
        /\ \A q \in Runner : q # r => pc'[q] = pc[q]
        /\ \A c \in Client : pc'[c] = pc[c]
    BY <1>1, <1>5, RunnerMoved DEF TakeReservedId, Place
  <2>6. ticket' = ticket /\ r \in Busy
    BY <1>5 DEF TakeReservedId, Busy
  <2> QED
    BY <1>1, <2>2, <2>4, <2>5, <2>6 DEF HandsInv
<1>6. ASSUME NEW r \in Runner, Process(r) PROVE HandsInv'
  <2>1. /\ ticket'[r] = 0
        /\ \A q \in Runner : q # r => ticket'[q] = ticket[q] /\ id'[q] = id[q]
    BY <1>1, <1>6 DEF TypeOK, Process
  <2>2. PICK l \in {"pop", "idle"} : Goto(r, l)
    BY <1>6 DEF Process
  <2>3. /\ Busy' = Busy \ {r} /\ pc'[r] = l
        /\ \A q \in Runner : q # r => pc'[q] = pc[q]
        /\ \A c \in Client : pc'[c] = pc[c]
    BY <1>1, <2>2, RunnerMoved DEF Place
  <2>4. next_id' = next_id
    BY <1>6 DEF Process, ids
  <2> QED
    BY <1>1, <2>1, <2>3, <2>4 DEF HandsInv
<1> QED
  BY <1>2, <1>3, <1>4, <1>5, <1>6, MovesOrNothing DEF Moves

\* What the five moving steps do to the sets the invariants count.
LEMMA ClientMoves ==
    ASSUME LifecycleInv, NEW c \in Client
    PROVE  /\ SubmitReserve(c) => Enqueuing = {} /\ Enqueuing' = {c}
           /\ SubmitEnqueue(c) => Enqueuing = {c} /\ Enqueuing' = {}
           /\ SubmitReserve(c) \/ SubmitEnqueue(c) =>
                 UNCHANGED <<Taking, Busy, hands>>
<1>1. TypeInv /\ MutexInv /\ \A d \in Client : d # Nobody
  BY NobodyAssumption DEF LifecycleInv
<1>2. ASSUME SubmitReserve(c)
      PROVE  /\ Enqueuing = {} /\ Enqueuing' = {c}
             /\ UNCHANGED <<Taking, Busy, hands>>
  <2>1. \A d \in Client : pc[d] = "idle"
    BY <1>1, <1>2 DEF MutexInv, SubmitReserve
  <2>2. Enqueuing = {}
    BY <2>1 DEF Enqueuing
  <2> QED
    BY <1>1, <1>2, <2>2, CallerMoved DEF SubmitReserve, Place
<1>3. ASSUME SubmitEnqueue(c)
      PROVE  /\ Enqueuing = {c} /\ Enqueuing' = {}
             /\ UNCHANGED <<Taking, Busy, hands>>
  <2>1. \A d \in Client : d # c => pc[d] = "idle"
    BY <1>1, <1>3 DEF MutexInv, SubmitEnqueue
  <2>2. Enqueuing = {c}
    BY <1>3, <2>1 DEF Enqueuing, SubmitEnqueue
  <2>3. Goto(c, "notify") /\ "notify" \in Place /\ "notify" # "enqueue"
    BY <1>3 DEF SubmitEnqueue, Place
  <2> QED
    BY <1>1, <1>3, <2>2, <2>3, CallerMoved DEF SubmitEnqueue
<1> QED
  BY <1>2, <1>3

LEMMA RunnerMoves ==
    ASSUME LifecycleInv, NEW r \in Runner
    PROVE  /\ Pop(r) => /\ r \notin Busy /\ Busy' = Busy \cup {r}
                        /\ r \notin Taking /\ Taking' = Taking \cup {r}
           /\ TakeReservedId(r) =>
                 /\ r \in Busy /\ Busy' = Busy
                 /\ r \in Taking /\ Taking' = Taking \ {r}
                 /\ reserved # <<>> /\ reserved' = Tail(reserved)
                 /\ id' = [id EXCEPT ![r] = Head(reserved)]
                 /\ next_id' = next_id
           /\ Process(r) => /\ r \in Busy /\ Busy' = Busy \ {r}
                            /\ r \notin Taking /\ Taking' = Taking
           /\ Pop(r) \/ TakeReservedId(r) \/ Process(r) =>
                 Enqueuing' = Enqueuing
<1>1. TypeInv
  BY DEF LifecycleInv
<1>2. ASSUME Pop(r)
      PROVE  /\ r \notin Busy /\ Busy' = Busy \cup {r}
             /\ r \notin Taking /\ Taking' = Taking \cup {r}
             /\ Enqueuing' = Enqueuing
  <2>1. pc[r] \in {"pop", "idle"} /\ Goto(r, "take_id") /\ "take_id" \in Place
    BY <1>2 DEF Pop, Place
  <2>2. r \notin Busy /\ r \notin Taking
    BY <2>1 DEF Busy, Taking
  <2> QED
    BY <1>1, <2>1, <2>2, RunnerMoved
<1>3. ASSUME TakeReservedId(r)
      PROVE  /\ r \in Busy /\ Busy' = Busy
             /\ r \in Taking /\ Taking' = Taking \ {r}
             /\ Enqueuing' = Enqueuing
             /\ reserved # <<>> /\ reserved' = Tail(reserved)
             /\ id' = [id EXCEPT ![r] = Head(reserved)]
             /\ next_id' = next_id
  <2>1. /\ pc[r] = "take_id" /\ Goto(r, "process") /\ "process" \in Place
        /\ "process" # "take_id"
    BY <1>3 DEF TakeReservedId, Place
  <2>2. r \in Busy /\ r \in Taking
    BY <2>1 DEF Busy, Taking
  <2>3. reserved # <<>>
    BY <2>1, ReservedThere DEF LifecycleInv
  <2>4. /\ Busy' = Busy /\ Taking' = Taking \ {r}
        /\ Enqueuing' = Enqueuing
    BY <1>1, <2>1, <2>2, RunnerMoved
  <2> QED
    BY <1>3, <2>2, <2>3, <2>4 DEF TakeReservedId, Reserved, Unreserved
<1>4. ASSUME Process(r)
      PROVE  /\ r \in Busy /\ Busy' = Busy \ {r}
             /\ r \notin Taking /\ Taking' = Taking
             /\ Enqueuing' = Enqueuing
  <2>1. pc[r] = "process" /\ \E l \in {"pop", "idle"} : Goto(r, l)
    BY <1>4 DEF Process
  <2>2. r \in Busy /\ r \notin Taking
    BY <2>1 DEF Busy, Taking
  <2>3. PICK l \in {"pop", "idle"} : Goto(r, l)
    BY <2>1
  <2>4. l \in Place /\ l # "take_id" /\ l # "process"
    BY DEF Place
  <2> QED
    BY <1>1, <2>2, <2>3, <2>4, RunnerMoved
<1> QED
  BY <1>2, <1>3, <1>4

LEMMA ReservationsStep ==
    ASSUME LifecycleInv, [Next]_vars
    PROVE  ReservationsMatch'
<1>1. /\ TypeOK
      /\ Len(reserved) = Len(queue) + Cardinality(Taking)
                                    + Cardinality(Enqueuing)
      /\ Taking \in SUBSET Runner
  BY DEF LifecycleInv, TypeInv, ReservationsMatch, Taking, Enqueuing
<1>2. /\ reserved \in Seq(1..MaxTxns) /\ queue \in Seq(1..MaxTxns)
      /\ Len(reserved) \in Nat /\ Len(queue) \in Nat
      /\ Cardinality(Taking) \in Nat
      /\ \A c \in Client : Cardinality({c}) = 1
      /\ Cardinality({}) = 0
  <2>1. Cardinality(Taking) \in Nat
    BY <1>1, FiniteRoles, FS_Subset, FS_CardinalityType
  <2>2. (\A c \in Client : Cardinality({c}) = 1) /\ Cardinality({}) = 0
    BY FS_Singleton, FS_EmptySet
  <2> QED
    BY <1>1, <2>1, <2>2 DEF TypeOK
<1> SUFFICES Len(reserved') = Len(queue') + Cardinality(Taking')
                                          + Cardinality(Enqueuing')
  BY DEF ReservationsMatch, Taking, Enqueuing
<1>3. CASE MovesNothing
  BY <1>1, <1>3 DEF MovesNothing, ids
<1>4. ASSUME NEW c \in Client, SubmitReserve(c)
      PROVE  Len(reserved') = Len(queue') + Cardinality(Taking')
                                          + Cardinality(Enqueuing')
  <2>1. Len(reserved') = Len(reserved) + 1 /\ queue' = queue
    BY <1>2, <1>4 DEF SubmitReserve
  <2>2. /\ Taking' = Taking /\ Cardinality(Enqueuing) = 0
        /\ Cardinality(Enqueuing') = 1
    BY <1>2, <1>4, ClientMoves
  <2> QED
    BY <1>1, <1>2, <2>1, <2>2
<1>5. ASSUME NEW c \in Client, SubmitEnqueue(c)
      PROVE  Len(reserved') = Len(queue') + Cardinality(Taking')
                                          + Cardinality(Enqueuing')
  <2>1. Len(queue') = Len(queue) + 1 /\ reserved' = reserved
    BY <1>2, <1>5 DEF SubmitEnqueue, ids
  <2>2. /\ Taking' = Taking /\ Cardinality(Enqueuing) = 1
        /\ Cardinality(Enqueuing') = 0
    BY <1>2, <1>5, ClientMoves
  <2> QED
    BY <1>1, <1>2, <2>1, <2>2
<1>6. ASSUME NEW r \in Runner, Pop(r) \/ TakeReservedId(r) \/ Process(r)
      PROVE  Len(reserved') = Len(queue') + Cardinality(Taking')
                                          + Cardinality(Enqueuing')
  <2>1. Enqueuing' = Enqueuing
    BY <1>6, RunnerMoves
  <2>2. /\ r \notin Taking =>
              Cardinality(Taking \cup {r}) = Cardinality(Taking) + 1
        /\ r \in Taking =>
              Cardinality(Taking \ {r}) = Cardinality(Taking) - 1
    BY <1>1, FiniteRoles, CountStep
  <2>3. Cardinality(Enqueuing) \in Nat
    BY FiniteRoles, FS_Subset, FS_CardinalityType DEF Enqueuing
  <2>4. CASE Pop(r)
    <3>1. Len(queue') = Len(queue) - 1 /\ reserved' = reserved
      BY <1>2, <2>4, PoppedOne DEF Pop, Popped, ids
    <3>2. Cardinality(Taking') = Cardinality(Taking) + 1
      BY <2>2, <2>4, RunnerMoves
    <3> QED
      BY <1>1, <1>2, <2>1, <2>3, <3>1, <3>2
  <2>5. CASE TakeReservedId(r)
    <3>1. Len(reserved') = Len(reserved) - 1 /\ queue' = queue
      BY <1>2, <2>5, PoppedOne, RunnerMoves DEF TakeReservedId
    <3>2. Cardinality(Taking') = Cardinality(Taking) - 1
      BY <2>2, <2>5, RunnerMoves
    <3> QED
      BY <1>1, <1>2, <2>1, <2>3, <3>1, <3>2
  <2>6. CASE Process(r)
    BY <1>1, <2>1, <2>6, RunnerMoves DEF Process, ids
  <2> QED
    BY <1>6, <2>4, <2>5, <2>6
<1> QED
  BY <1>3, <1>4, <1>5, <1>6, MovesOrNothing DEF Moves

\* Where the tickets are.
Carried == {ticket[r] : r \in Busy}
Done == {p.ticket : p \in Elements(processed)}
Issued == (1..(next_id - 1)) \ {next_id - 1 : c \in Enqueuing}

TicketPlaces == Elements(queue) \cup Carried \cup Done = Issued

TicketCount ==
    Len(queue) + Cardinality(Busy) + Len(processed)
        = next_id - 1 - Cardinality(Enqueuing)

LEMMA TicketParts == EachTicketOnce <=> TicketPlaces /\ TicketCount
BY DEF EachTicketOnce, TicketPlaces, TicketCount, Carried, Done, Issued,
       Enqueuing

LEMMA TicketPlacesStep ==
    ASSUME LifecycleInv, [Next]_vars
    PROVE  TicketPlaces'
<1>1. /\ TypeOK /\ TypeInv /\ HandsInv /\ TicketPlaces
      /\ next_id \in 1..(MaxTxns + 1) /\ MaxTxns \in Nat
  BY TicketParts, BoundsAssumption DEF LifecycleInv, TypeInv, TypeOK
<1>2. CASE MovesNothing
  BY <1>1, <1>2
  DEF MovesNothing, ids, hands, TicketPlaces, Carried, Done, Issued
<1>3. ASSUME NEW c \in Client, SubmitReserve(c) PROVE TicketPlaces'
  <2>1. /\ Carried' = Carried /\ Done' = Done /\ queue' = queue
        /\ next_id' = next_id + 1
    BY <1>3, ClientMoves DEF SubmitReserve, hands, Carried, Done
  <2>2. Enqueuing = {} /\ Enqueuing' = {c}
    BY <1>3, ClientMoves
  <2>3. Issued' = Issued
    BY <1>1, <2>1, <2>2 DEF Issued
  <2> QED
    BY <1>1, <2>1, <2>3 DEF TicketPlaces
<1>4. ASSUME NEW c \in Client, SubmitEnqueue(c) PROVE TicketPlaces'
  <2>1. Carried' = Carried /\ Done' = Done /\ next_id' = next_id
    BY <1>4, ClientMoves DEF SubmitEnqueue, hands, ids, Carried, Done
  <2>2. /\ Enqueuing = {c} /\ Enqueuing' = {}
        /\ pc[c] = "enqueue" /\ queue' = Append(queue, next_id - 1)
    BY <1>4, ClientMoves DEF SubmitEnqueue
  <2>3. next_id - 1 \in 1..MaxTxns
    BY <1>1, <2>2 DEF HandsInv
  <2>4. Elements(queue') = Elements(queue) \cup {next_id - 1}
    <3>1. PICK n \in 1..MaxTxns : n = next_id - 1
      BY <2>3
    <3>2. Extends(queue', queue, n)
      BY <1>1, <2>2, <3>1 DEF TypeOK, Extends
    <3> QED
      BY <3>1, <3>2, ElementsAppended
  <2>5. Issued' = Issued \cup {next_id - 1}
    BY <1>1, <2>1, <2>2, <2>3 DEF Issued
  <2> QED
    BY <1>1, <2>1, <2>4, <2>5 DEF TicketPlaces
<1>5. ASSUME NEW r \in Runner, Pop(r) PROVE TicketPlaces'
  <2>1. /\ Issued' = Issued /\ Done' = Done /\ queue # <<>>
        /\ queue' = Tail(queue) /\ ticket' = [ticket EXCEPT ![r] = Head(queue)]
    BY <1>5, RunnerMoves DEF Pop, Popped, ids, Issued, Done
  <2>2. Elements(queue) = {Head(queue)} \cup Elements(queue')
    BY <1>1, <2>1, ElementsStep DEF TypeOK
  <2>3. Carried' = Carried \cup {Head(queue)}
    <3>1. r \notin Busy /\ Busy' = Busy \cup {r} /\ Busy \subseteq Runner
      BY <1>5, RunnerMoves DEF Busy
    <3>2. ticket'[r] = Head(queue) /\ \A q \in Busy : ticket'[q] = ticket[q]
      BY <1>1, <2>1, <3>1 DEF TypeOK
    <3> QED
      BY <3>1, <3>2 DEF Carried
  <2> QED
    BY <1>1, <2>1, <2>2, <2>3 DEF TicketPlaces
<1>6. ASSUME NEW r \in Runner, TakeReservedId(r) PROVE TicketPlaces'
  <2>1. /\ Busy' = Busy /\ Enqueuing' = Enqueuing /\ next_id' = next_id
        /\ UNCHANGED <<queue, ticket, processed>>
    BY <1>6, RunnerMoves DEF TakeReservedId
  <2> QED
    BY <1>1, <2>1 DEF TicketPlaces, Issued, Carried, Done
<1>7. ASSUME NEW r \in Runner, Process(r) PROVE TicketPlaces'
  <2>1. /\ Issued' = Issued /\ queue' = queue
        /\ ticket' = [ticket EXCEPT ![r] = 0]
        /\ pc[r] = "process"
    BY <1>7, RunnerMoves DEF Process, ids, Issued
  <2>2. r \in Busy /\ Busy' = Busy \ {r} /\ Busy \subseteq Runner
    BY <1>7, RunnerMoves DEF Busy
  <2>3. \A q \in Busy' : ticket'[q] = ticket[q]
    BY <1>1, <2>1, <2>2 DEF TypeOK
  <2>4. Carried' \cup {ticket[r]} = Carried
    BY <2>2, <2>3 DEF Carried
  <2>5. Done' = Done \cup {ticket[r]}
    <3>1. r \in Runner /\ ticket[r] # 0 /\ id[r] # 0
      BY <1>1, <2>1, <2>2 DEF HandsInv
    <3>2. ticket[r] \in 1..MaxTxns /\ id[r] \in 1..MaxTxns
      BY <1>1, <3>1 DEF TypeOK
    <3> DEFINE e == [ticket |-> ticket[r], id |-> id[r]]
               Entry == [ticket : 1..MaxTxns, id : 1..MaxTxns]
    <3>3. e \in Entry /\ e.ticket = ticket[r] /\ processed \in Seq(Entry)
      BY <1>1, <3>2 DEF TypeOK
    <3>4. Extends(processed', processed, e)
      <4>1. processed' = Append(processed, e)
        BY <1>7 DEF Process
      <4> HIDE DEF e, Entry
      <4>2. Extends(Append(processed, e), processed, e)
        BY <3>3, AppendExtends
      <4> QED
        BY <4>1, <4>2
    <3> HIDE DEF e, Entry
    <3>5. Elements(processed') = Elements(processed) \cup {e}
      BY <3>4, ElementsAppended
    <3>6. Done' = {p.ticket : p \in Elements(processed) \cup {e}}
      BY <3>5 DEF Done
    <3>7. Done' = Done \cup {e.ticket}
      BY <3>6 DEF Done
    <3> QED
      BY <3>3, <3>7
  <2> QED
    BY <1>1, <2>1, <2>4, <2>5 DEF TicketPlaces
<1> QED
  BY <1>2, <1>3, <1>4, <1>5, <1>6, <1>7, MovesOrNothing DEF Moves

LEMMA TicketCountStep ==
    ASSUME LifecycleInv, [Next]_vars
    PROVE  TicketCount'
<1>1. /\ TypeOK /\ TicketCount /\ Busy \in SUBSET Runner
      /\ next_id \in Nat
      /\ queue \in Seq(1..MaxTxns) /\ Len(queue) \in Nat
      /\ Len(processed) \in Nat
      /\ processed \in Seq([ticket : 1..MaxTxns, id : 1..MaxTxns])
  BY TicketParts DEF LifecycleInv, TypeInv, TypeOK, Busy
<1>2. /\ Cardinality(Busy) \in Nat /\ Cardinality(Enqueuing) \in Nat
      /\ \A c \in Client : Cardinality({c}) = 1
      /\ Cardinality({}) = 0
  <2>1. Enqueuing \in SUBSET Client
    BY DEF Enqueuing
  <2>2. Cardinality(Busy) \in Nat /\ Cardinality(Enqueuing) \in Nat
    BY <1>1, <2>1, FiniteRoles, FS_Subset, FS_CardinalityType
  <2> QED
    BY <2>2, FS_Singleton, FS_EmptySet
<1>3. CASE MovesNothing
  BY <1>1, <1>3 DEF MovesNothing, ids, hands, TicketCount
<1>4. ASSUME NEW c \in Client, SubmitReserve(c) PROVE TicketCount'
  <2>1. /\ next_id' = next_id + 1 /\ queue' = queue /\ Busy' = Busy
        /\ processed' = processed
    BY <1>4, ClientMoves DEF SubmitReserve, hands
  <2>2. Cardinality(Enqueuing) = 0 /\ Cardinality(Enqueuing') = 1
    BY <1>2, <1>4, ClientMoves
  <2> QED
    BY <1>1, <1>2, <2>1, <2>2 DEF TicketCount
<1>5. ASSUME NEW c \in Client, SubmitEnqueue(c) PROVE TicketCount'
  <2>1. /\ next_id' = next_id /\ Len(queue') = Len(queue) + 1
        /\ Busy' = Busy /\ processed' = processed
    BY <1>1, <1>5, ClientMoves DEF SubmitEnqueue, hands, ids
  <2>2. Cardinality(Enqueuing) = 1 /\ Cardinality(Enqueuing') = 0
    BY <1>2, <1>5, ClientMoves
  <2> QED
    BY <1>1, <1>2, <2>1, <2>2 DEF TicketCount
<1>6. ASSUME NEW r \in Runner, Pop(r) \/ TakeReservedId(r) \/ Process(r)
      PROVE  TicketCount'
  <2>1. Enqueuing' = Enqueuing
    BY <1>6, RunnerMoves
  <2>2. /\ r \notin Busy =>
              Cardinality(Busy \cup {r}) = Cardinality(Busy) + 1
        /\ r \in Busy => Cardinality(Busy \ {r}) = Cardinality(Busy) - 1
    BY <1>1, FiniteRoles, CountStep
  <2>3. CASE Pop(r)
    <3>1. /\ Len(queue') = Len(queue) - 1 /\ next_id' = next_id
          /\ processed' = processed
      BY <1>1, <2>3, PoppedOne DEF Pop, Popped, ids
    <3>2. Cardinality(Busy') = Cardinality(Busy) + 1
      BY <2>2, <2>3, RunnerMoves
    <3> QED
      BY <1>1, <1>2, <2>1, <3>1, <3>2 DEF TicketCount
  <2>4. CASE TakeReservedId(r)
    <3>1. UNCHANGED <<queue, processed, next_id, Busy>>
      BY <2>4, RunnerMoves DEF TakeReservedId
    <3> QED
      BY <1>1, <2>1, <3>1 DEF TicketCount
  <2>5. CASE Process(r)
    <3>1. /\ Len(processed') = Len(processed) + 1
          /\ UNCHANGED <<queue, next_id>>
      BY <1>1, <2>5 DEF Process, ids
    <3>2. Cardinality(Busy') = Cardinality(Busy) - 1
      BY <2>2, <2>5, RunnerMoves
    <3> QED
      BY <1>1, <1>2, <2>1, <3>1, <3>2 DEF TicketCount
  <2> QED
    BY <1>6, <2>3, <2>4, <2>5
<1> QED
  BY <1>3, <1>4, <1>5, <1>6, MovesOrNothing DEF Moves

-----------------------------------------------------------------------------
(* Ids.                                                                    *)

LEMMA IdsStep ==
    ASSUME LifecycleInv, [Next]_vars
    PROVE  IdsInv'
<1>1. /\ TypeInv /\ TypeOK /\ IdsInv /\ IdsUsedOnce
      /\ next_id \in Nat
      /\ reserved \in Seq(1..MaxTxns)
      /\ processed \in Seq([ticket : 1..MaxTxns, id : 1..MaxTxns])
      /\ id \in [Runner -> 0..MaxTxns]
  BY DEF LifecycleInv, IdsInv, TypeInv, TypeOK
<1>2. /\ \A i \in DOMAIN reserved : reserved[i] \in Nat
      /\ \A i \in DOMAIN processed : processed[i].id \in Nat
      /\ \A r \in Runner : id[r] \in Nat
      /\ Len(processed) \in Nat /\ DOMAIN processed = 1..Len(processed)
      /\ Len(reserved) \in Nat /\ DOMAIN reserved = 1..Len(reserved)
  <2>1. \A i \in DOMAIN reserved : reserved[i] \in Nat
    BY <1>1, BoundsAssumption
  <2>2. \A i \in DOMAIN processed : processed[i].id \in Nat
    <3>1. \A i \in DOMAIN processed :
             processed[i] \in [ticket : 1..MaxTxns, id : 1..MaxTxns]
      BY <1>1, ElementType
    <3> QED
      BY <3>1, BoundsAssumption
  <2>3. \A r \in Runner : id[r] \in Nat
    BY <1>1, BoundsAssumption
  <2> QED
    BY <1>1, <2>1, <2>2, <2>3
\* Nothing that holds an id changes.
<1>3. ASSUME UNCHANGED <<next_id, reserved, id, processed>>,
             \A r \in Runner : pc'[r] = "process" => pc[r] = "process"
      PROVE  IdsInv'
  BY <1>1, <1>3 DEF IdsInv, IdsUsedOnce
<1>4. CASE MovesNothing
  <2>1. \A r \in Runner : pc'[r] = "process" => pc[r] = "process"
    BY <1>4 DEF MovesNothing, Busy, Taking
  <2> QED
    BY <1>3, <1>4, <2>1 DEF MovesNothing, ids, hands
<1>5. ASSUME NEW c \in Client, SubmitReserve(c) PROVE IdsInv'
  <2>1. /\ next_id' = next_id + 1 /\ next_id \in 1..MaxTxns
        /\ id' = id /\ processed' = processed
    BY <1>1, <1>5, BoundsAssumption DEF SubmitReserve, hands, TypeOK
  <2>2. \A r \in Runner : pc'[r] = pc[r]
    BY <1>1, <1>5, CallerMoved DEF SubmitReserve, Place
  <2>3. Extends(reserved', reserved, next_id)
    BY <1>1, <1>5, <2>1, AppendExtends DEF SubmitReserve
  <2>4. Elements(reserved') = Elements(reserved) \cup {next_id}
    BY <2>3, ElementsAppended
  <2>5. \A i \in DOMAIN reserved' : reserved'[i] < next_id'
    BY <1>1, <1>2, <2>1, <2>3 DEF IdsInv, Extends
  <2>6. \A i, j \in DOMAIN reserved' : reserved'[i] = reserved'[j] => i = j
    BY <1>1, <1>2, <2>3 DEF IdsInv, Extends
  <2>7. /\ \A r \in Runner : pc[r] = "process" =>
              id[r] \notin Elements(reserved) /\ id[r] < next_id
        /\ \A r, q \in Runner :
              pc[r] = "process" /\ pc[q] = "process" /\ id[r] = id[q] => r = q
        /\ \A i \in DOMAIN processed :
              /\ processed[i].id < next_id
              /\ processed[i].id \notin Elements(reserved)
              /\ \A r \in Runner : pc[r] = "process" => processed[i].id # id[r]
    BY <1>1 DEF IdsInv
  <2>8. /\ \A r \in Runner : pc[r] = "process" =>
              id[r] \notin Elements(reserved') /\ id[r] < next_id'
        /\ \A i \in DOMAIN processed :
              /\ processed[i].id < next_id'
              /\ processed[i].id \notin Elements(reserved')
    BY <1>1, <1>2, <2>1, <2>4, <2>7
  <2>9. IdsUsedOnce'
    BY <1>1, <2>1 DEF IdsUsedOnce
  <2> QED
    BY <2>1, <2>2, <2>5, <2>6, <2>7, <2>8, <2>9 DEF IdsInv
<1>6. ASSUME NEW c \in Client, SubmitEnqueue(c) PROVE IdsInv'
  <2>1. \A r \in Runner : pc'[r] = pc[r]
    BY <1>1, <1>6, CallerMoved DEF SubmitEnqueue, Place
  <2> QED
    BY <1>3, <1>6, <2>1 DEF SubmitEnqueue, ids, hands
<1>7. ASSUME NEW r \in Runner, Pop(r) PROVE IdsInv'
  <2>1. pc'[r] = "take_id" /\ \A q \in Runner : q # r => pc'[q] = pc[q]
    BY <1>1, <1>7, RunnerMoved DEF Pop, Place
  <2> QED
    BY <1>3, <1>7, <2>1 DEF Pop, ids
<1>8. ASSUME NEW r \in Runner, TakeReservedId(r) PROVE IdsInv'
  <2>1. /\ reserved # <<>> /\ reserved' = Tail(reserved)
        /\ id' = [id EXCEPT ![r] = Head(reserved)]
        /\ next_id' = next_id /\ processed' = processed
        /\ pc[r] = "take_id"
    BY <1>8, RunnerMoves DEF TakeReservedId
  <2>2. pc'[r] = "process" /\ \A q \in Runner : q # r => pc'[q] = pc[q]
    BY <1>1, <1>8, RunnerMoved DEF TakeReservedId, Place
  <2>3. id'[r] = reserved[1] /\ \A q \in Runner : q # r => id'[q] = id[q]
    BY <1>1, <2>1
  <2>4. /\ Elements(reserved) = {Head(reserved)} \cup Elements(reserved')
        /\ Head(reserved) = reserved[1] /\ 1 \in DOMAIN reserved
        /\ \A i \in DOMAIN reserved' :
              /\ i \in Nat \ {0} /\ i + 1 \in DOMAIN reserved
              /\ reserved'[i] = reserved[i + 1]
    BY <1>1, <2>1, ElementsStep, PoppedOne
  <2>5. reserved[1] \notin Elements(reserved')
    BY <1>1, <2>4 DEF IdsInv, Elements
  <2>6. \A i \in DOMAIN reserved' : reserved'[i] < next_id'
    BY <1>1, <2>1, <2>4 DEF IdsInv
  <2>7. \A i, j \in DOMAIN reserved' : reserved'[i] = reserved'[j] => i = j
    BY <1>1, <2>4 DEF IdsInv
  <2>8. \A q \in Runner : pc'[q] = "process" =>
           id'[q] \notin Elements(reserved') /\ id'[q] < next_id'
    BY <1>1, <2>1, <2>2, <2>3, <2>4, <2>5 DEF IdsInv
  <2>9. \A q \in Runner : q # r /\ pc[q] = "process" => id[q] # reserved[1]
    BY <1>1, <2>4 DEF IdsInv
  <2>10. \A q, p \in Runner :
           pc'[q] = "process" /\ pc'[p] = "process" /\ id'[q] = id'[p] => q = p
    <3>1. \A q, p \in Runner :
             pc[q] = "process" /\ pc[p] = "process" /\ id[q] = id[p] => q = p
      BY <1>1 DEF IdsInv
    <3> QED
      BY <2>2, <2>3, <2>9, <3>1
  <2>11. \A i \in DOMAIN processed' :
           /\ processed'[i].id < next_id'
           /\ processed'[i].id \notin Elements(reserved')
           /\ \A q \in Runner : pc'[q] = "process" => processed'[i].id # id'[q]
    <3>1. \A i \in DOMAIN processed :
             /\ processed[i].id < next_id
             /\ processed[i].id \notin Elements(reserved)
             /\ \A q \in Runner : pc[q] = "process" => processed[i].id # id[q]
      BY <1>1 DEF IdsInv
    <3>2. /\ next_id' = next_id /\ processed' = processed
          /\ reserved[1] \in Elements(reserved)
          /\ Elements(reserved') \subseteq Elements(reserved)
      BY <2>1, <2>4
    <3> QED
      BY <2>2, <2>3, <3>1, <3>2
  <2>12. IdsUsedOnce'
    BY <1>1, <2>1 DEF IdsUsedOnce
  <2> QED
    BY <2>6, <2>7, <2>8, <2>10, <2>11, <2>12 DEF IdsInv
<1>9. ASSUME NEW r \in Runner, Process(r) PROVE IdsInv'
  <2>1. /\ reserved' = reserved /\ next_id' = next_id
        /\ id' = [id EXCEPT ![r] = 0]
        /\ pc[r] = "process"
    BY <1>9 DEF Process, ids
  <2>2. PICK l \in {"pop", "idle"} : Goto(r, l)
    BY <1>9 DEF Process
  <2>3. pc'[r] # "process" /\ \A q \in Runner : q # r => pc'[q] = pc[q]
    BY <1>1, <2>2, RunnerMoved DEF Place
  <2>4. \A q \in Runner : q # r => id'[q] = id[q]
    BY <1>1, <2>1
  <2> DEFINE e == [ticket |-> ticket[r], id |-> id[r]]
             Entry == [ticket : 1..MaxTxns, id : 1..MaxTxns]
  <2>5. e \in Entry /\ e.id = id[r] /\ processed \in Seq(Entry)
    <3>1. HandsInv /\ r \in Busy
      BY <2>1 DEF LifecycleInv, Busy
    <3>2. ticket[r] # 0 /\ id[r] # 0
      BY <2>1, <3>1 DEF HandsInv
    <3> QED
      BY <1>1, <3>2 DEF TypeOK
  <2>6. Extends(processed', processed, e)
    <3>1. processed' = Append(processed, e)
      BY <1>9 DEF Process
    <3> HIDE DEF e, Entry
    <3>2. Extends(Append(processed, e), processed, e)
      BY <2>5, AppendExtends
    <3> QED
      BY <3>1, <3>2
  <2> HIDE DEF e, Entry
  <2>7. \A i \in DOMAIN processed :
           /\ processed[i].id < next_id
           /\ processed[i].id \notin Elements(reserved)
           /\ \A q \in Runner : pc[q] = "process" => processed[i].id # id[q]
    BY <1>1 DEF IdsInv
  <2>8. /\ id[r] < next_id /\ id[r] \notin Elements(reserved)
        /\ \A q \in Runner : pc[q] = "process" /\ id[q] = id[r] => q = r
    BY <1>1, <2>1 DEF IdsInv
  <2>9. \A i \in DOMAIN processed' :
           \/ i \in DOMAIN processed /\ processed'[i] = processed[i]
           \/ i = Len(processed) + 1 /\ processed'[i] = e
    BY <2>6 DEF Extends
  <2>10. \A i \in DOMAIN processed' :
            /\ processed'[i].id < next_id
            /\ processed'[i].id \notin Elements(reserved)
            /\ \A q \in Runner : pc'[q] = "process" => processed'[i].id # id'[q]
    BY <2>3, <2>4, <2>5, <2>7, <2>8, <2>9
  <2>11. IdsUsedOnce'
    <3>1. \A i \in DOMAIN processed : processed[i].id # id[r]
      BY <2>1, <2>7
    <3> QED
      BY <1>1, <2>5, <2>9, <3>1 DEF IdsUsedOnce
  <2>12. /\ \A i \in DOMAIN reserved : reserved[i] < next_id
         /\ \A i, j \in DOMAIN reserved : reserved[i] = reserved[j] => i = j
         /\ \A q \in Runner : pc[q] = "process" =>
               id[q] \notin Elements(reserved) /\ id[q] < next_id
         /\ \A q, p \in Runner :
               pc[q] = "process" /\ pc[p] = "process" /\ id[q] = id[p] => q = p
    BY <1>1 DEF IdsInv
  <2>13. /\ \A q \in Runner : pc'[q] = "process" =>
               id'[q] \notin Elements(reserved) /\ id'[q] < next_id
         /\ \A q, p \in Runner :
               pc'[q] = "process" /\ pc'[p] = "process" /\ id'[q] = id'[p]
                   => q = p
    BY <2>3, <2>4, <2>12
  <2>14. reserved' = reserved /\ next_id' = next_id
    BY <2>1
  <2> QED
    BY <2>10, <2>11, <2>12, <2>13, <2>14 DEF IdsInv
<1> QED
  BY <1>4, <1>5, <1>6, <1>7, <1>8, <1>9, MovesOrNothing DEF Moves

-----------------------------------------------------------------------------
(* The invariant, and what follows from it.                                *)

LEMMA LifecycleStarts == Init => LifecycleInv
<1> SUFFICES ASSUME Init PROVE LifecycleInv
  OBVIOUS
<1>1. /\ \A w \in Worker : pc[w] = "absent"
      /\ \A p \in Puller : pc[p] = "idle"
      /\ \A x \in Client \cup Controller : pc[x] = "idle"
      /\ pc \in [Runner \cup Client \cup Controller -> Place]
  BY RolesAssumption DEF Init, Runner, Place
<1>2. Cardinality(Worker) \in Nat /\ Cardinality({}) = 0
  BY FiniteRoles, FS_CardinalityType, FS_EmptySet
<1>3. Taking = {} /\ Enqueuing = {} /\ Busy = {}
  BY <1>1 DEF Taking, Enqueuing, Busy, Runner
<1>4. TypeInv
  <2>1. /\ ticket \in [Runner -> 0..MaxTxns] /\ id \in [Runner -> 0..MaxTxns]
        /\ next_id \in 1..(MaxTxns + 1) /\ starts \in 0..MaxStarts
        /\ tasks \in 0..Cardinality(Worker)
    BY <1>2, BoundsAssumption DEF Init
  <2>2. /\ <<>> \in Seq(1..MaxTxns)
        /\ <<>> \in Seq([ticket : 1..MaxTxns, id : 1..MaxTxns])
    OBVIOUS
  <2>3. /\ submit_mutex \in Client \cup Controller \cup {Nobody}
        /\ {accepting, started, stop_requested, pool_stopping} \subseteq BOOLEAN
        /\ waiting \subseteq Worker
        /\ reserved = <<>> /\ queue = <<>> /\ processed = <<>>
    BY DEF Init
  <2> QED
    BY <1>1, <2>1, <2>2, <2>3 DEF TypeInv, TypeOK
<1>5. MutexInv
  BY <1>1, NobodyAssumption DEF Init, MutexInv
<1>6. PoolInv
  BY <1>1 DEF Init, PoolInv
<1>7. HandsInv
  BY <1>1, <1>3 DEF Init, HandsInv, Runner
<1>8. ReservationsMatch
  <2>1. Len(reserved) = Len(queue) + Cardinality(Taking) + Cardinality(Enqueuing)
    BY <1>2, <1>3 DEF Init
  <2> QED
    BY <2>1 DEF ReservationsMatch, Taking, Enqueuing
<1>9. EachTicketOnce
  <2>1. TicketPlaces
    BY <1>3 DEF Init, TicketPlaces, Carried, Done, Issued, Elements
  <2>2. TicketCount
    BY <1>2, <1>3 DEF Init, TicketCount
  <2> QED
    BY <2>1, <2>2, TicketParts
<1>10. IdsInv
  BY <1>1 DEF Init, IdsInv, IdsUsedOnce, Runner
<1> QED
  BY <1>4, <1>5, <1>6, <1>7, <1>8, <1>9, <1>10 DEF LifecycleInv

\* Every reachable state satisfies the inductive invariant: who holds
\* submit_mutex_, how many consumers run, what each thread carries, and where
\* every ticket and every id is.
THEOREM LifecycleInvariant == Spec => []LifecycleInv
<1>1. LifecycleInv /\ [Next]_vars => LifecycleInv'
  <2> SUFFICES ASSUME LifecycleInv, [Next]_vars PROVE LifecycleInv'
    OBVIOUS
  <2>1. TypeInv'
    BY LifecycleTypes
  <2>2. MutexInv'
    BY MutexStep
  <2>3. PoolInv'
    BY PoolStep
  <2>4. HandsInv'
    BY HandsStep
  <2>5. ReservationsMatch'
    BY ReservationsStep
  <2>6. EachTicketOnce'
    BY TicketPlacesStep, TicketCountStep, TicketParts
    DEF EachTicketOnce, TicketPlaces, TicketCount, Carried, Done, Issued,
        Enqueuing
  <2>7. IdsInv'
    BY IdsStep
  <2> QED
    BY <2>1, <2>2, <2>3, <2>4, <2>5, <2>6, <2>7 DEF LifecycleInv
<1> QED
  BY LifecycleStarts, <1>1, PTL DEF Spec

\* The variables of submit(), the consumers and stop() keep their types; in
\* particular next_id_ never runs past the submissions, as no consumer ever
\* has to invent an id.
THEOREM LifecycleTypesHold == Spec => []TypeOK
<1>1. LifecycleInv => TypeOK
  BY DEF LifecycleInv, TypeInv
<1> QED
  BY LifecycleInvariant, <1>1, PTL

\* take_reserved_id finds the id of every submitted transaction in reserved_.
THEOREM ReservationsAlwaysMatch == Spec => []ReservationsMatch
<1>1. LifecycleInv => ReservationsMatch
  BY DEF LifecycleInv
<1> QED
  BY LifecycleInvariant, <1>1, PTL

\* The queue and the consumers neither lose nor duplicate a transaction.
THEOREM TicketsStayInOnePlace == Spec => []EachTicketOnce
<1>1. LifecycleInv => EachTicketOnce
  BY DEF LifecycleInv
<1> QED
  BY LifecycleInvariant, <1>1, PTL

\* take_reserved_id never gives two transactions the same id.
THEOREM IdsStayUsedOnce == Spec => []IdsUsedOnce
<1>1. LifecycleInv => IdsUsedOnce
  BY DEF LifecycleInv, IdsInv
<1> QED
  BY LifecycleInvariant, <1>1, PTL

\* stop() of a running processor returns with the queue drained and no consumer
\* holding a transaction, whatever the number of consumers, provided there is
\* one: the constructor is given worker_count_ and does not check it.
THEOREM StopDrains ==
    ASSUME Worker # {}
    PROVE  Spec => RunningStopDrains
<1>1. ASSUME LifecycleInv, [Next]_vars, started, ~started'
      PROVE  queue' = <<>> /\ \A w \in Worker : ticket'[w] = 0
  <2>1. PICK k \in Controller : Join(k)
    BY <1>1
    DEF Next, vars, control, ClientStep, ControllerStep, WorkerStep,
        PullerStep, SubmitReserve, SubmitEnqueue, SubmitNotify, Start,
        StopIdle, StopRequest, PoolStop, TakeTask, WorkerExit, WaitPopEmpty,
        Pop, TakeReservedId, Process
  <2>2. /\ \A w \in Worker : pc[w] = "exited"
        /\ UNCHANGED <<queue, ticket>>
    BY <2>1 DEF Join, hands
  <2>3. tasks = 0 /\ Consuming = {}
    BY <1>1, <2>2 DEF LifecycleInv, PoolInv, Consuming
  <2>4. Cardinality(Consuming) = 0 /\ Cardinality(Worker) # 0
    BY <2>3, FiniteRoles, FS_EmptySet
  <2>5. queue = <<>>
    BY <1>1, <2>3, <2>4 DEF LifecycleInv, PoolInv
  <2>6. \A w \in Worker : ticket[w] = 0
    BY <1>1, <2>2 DEF LifecycleInv, HandsInv, Busy, Runner
  <2> QED
    BY <2>2, <2>5, <2>6
<1> QED
  BY LifecycleInvariant, <1>1, PTL DEF Spec, RunningStopDrains
=============================================================================
