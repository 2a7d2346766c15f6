------------------------- MODULE ProcessorLifecycle -------------------------
(***************************************************************************)
(* The asynchronous side of TransactionProcessor: submit() and the ids it  *)
(* reserves, the transaction queue and its condition variable, the pool of *)
(* consumers, process_next() called from outside the pool, and start() and *)
(* stop() with the join.  process_impl is one step here; module            *)
(* TransactionProcessor opens it up.                                       *)
(*                                                                         *)
(* A queued transaction is represented by its ticket, the id submit()      *)
(* returned for it.  The queue mutex, reserved_mutex_ and the pool mutex   *)
(* are critical sections of one step each; submit_mutex_ is a variable, as *)
(* submit() and stop() hold it across several steps.                       *)
(***************************************************************************)
EXTENDS Integers, Sequences, FiniteSets

CONSTANTS
    Worker,      \* the threads of the pool: worker_count_ of them
    Puller,      \* threads calling process_next() directly
    Client,      \* threads calling submit()
    Controller,  \* threads calling start() and stop()
    Nobody,      \* owner of a free mutex
    MaxTxns,     \* bound: submissions accepted
    MaxStarts    \* bound: successful start() calls

ASSUME NobodyAssumption == Nobody \notin Client \cup Controller
ASSUME BoundsAssumption == MaxTxns \in Nat /\ MaxStarts \in Nat
ASSUME RolesAssumption ==
    /\ IsFiniteSet(Worker) /\ IsFiniteSet(Puller) /\ IsFiniteSet(Client)
    /\ Worker \cap Puller = {}
    /\ Client \cap Controller = {}
    /\ (Worker \cup Puller) \cap (Client \cup Controller) = {}

VARIABLES
    submit_mutex,    \* who holds submit_mutex_
    accepting,       \* accepting_
    started,         \* started_
    stop_requested,  \* the state behind shutdown_
    next_id,         \* next_id_
    reserved,        \* reserved_
    queue,           \* queue_: tickets in FIFO order
    waiting,         \* consumers asleep in wait_pop
    tasks,           \* consumer_loop tasks the pool has not handed out
    pool_stopping,   \* ThreadPool::stopping_
    pc,              \* where each thread is
    ticket,          \* the popped transaction a consumer or puller carries
    id,              \* the id it took for it
    processed,       \* what process_impl ran, in order
    starts           \* start() calls that launched a pool

control == <<accepting, started, stop_requested>>
ids == <<next_id, reserved>>
pool == <<tasks, pool_stopping>>
hands == <<ticket, id, processed>>

vars == <<submit_mutex, control, ids, queue, waiting, pool, pc, hands, starts>>

Runner == Worker \cup Puller

Init ==
    /\ submit_mutex = Nobody
    /\ accepting = TRUE
    /\ started = FALSE
    /\ stop_requested = FALSE
    /\ next_id = 1
    /\ reserved = <<>>
    /\ queue = <<>>
    /\ waiting = {}
    /\ tasks = 0
    /\ pool_stopping = FALSE
    /\ pc = [t \in Runner \cup Client \cup Controller |->
                IF t \in Worker THEN "absent" ELSE "idle"]
    /\ ticket = [r \in Runner |-> 0]
    /\ id = [r \in Runner |-> 0]
    /\ processed = <<>>
    /\ starts = 0

Goto(t, label) == pc' = [pc EXCEPT ![t] = label]

-----------------------------------------------------------------------------
(* submit().                                                               *)

SubmitReserve(c) ==
    /\ pc[c] = "idle"
    /\ submit_mutex = Nobody
    /\ accepting
    /\ next_id <= MaxTxns
    /\ submit_mutex' = c
    /\ next_id' = next_id + 1
    /\ reserved' = Append(reserved, next_id)
    /\ Goto(c, "enqueue")
    /\ UNCHANGED <<control, queue, waiting, pool, hands, starts>>

\* The ticket is the id just reserved; submit_mutex_ keeps it the last one.
SubmitEnqueue(c) ==
    /\ pc[c] = "enqueue"
    /\ queue' = Append(queue, next_id - 1)
    /\ Goto(c, "notify")
    /\ UNCHANGED <<submit_mutex, control, ids, waiting, pool, hands, starts>>

\* Mutant of notify_one: nobody is woken.
notify_one_silent == waiting' = waiting

\* cv_.notify_one: some consumer wakes up, if any sleeps.
notify_one ==
    \/ waiting = {} /\ waiting' = {}
    \/ \E w \in waiting : waiting' = waiting \ {w}

\* The notification after the queue mutex is released, then the return.
SubmitNotify(c) ==
    /\ pc[c] = "notify"
    /\ notify_one
    /\ submit_mutex' = Nobody
    /\ Goto(c, "idle")
    /\ UNCHANGED <<control, ids, queue, pool, hands, starts>>

-----------------------------------------------------------------------------
(* start() and stop().                                                     *)

\* Mutant of ConsumerTasks: one consumer_loop task too many.
ConsumerTasks_one_more == Cardinality(Worker) + 1

\* The tasks start() submits: one consumer_loop per worker.
ConsumerTasks == Cardinality(Worker)

\* A fresh stop source and a fresh pool.
Start(k) ==
    /\ pc[k] = "idle"
    /\ submit_mutex = Nobody
    /\ ~started
    /\ starts < MaxStarts
    /\ starts' = starts + 1
    /\ started' = TRUE
    /\ accepting' = TRUE
    /\ stop_requested' = FALSE
    /\ pool_stopping' = FALSE
    /\ tasks' = ConsumerTasks
    /\ pc' = [t \in DOMAIN pc |-> IF t \in Worker THEN "task" ELSE pc[t]]
    /\ UNCHANGED <<submit_mutex, ids, queue, waiting, hands>>

\* stop() on a processor that is not running returns at once; once accepting_
\* is false it changes nothing.
StopIdle(k) ==
    /\ pc[k] = "idle"
    /\ submit_mutex = Nobody
    /\ ~started
    /\ accepting
    /\ accepting' = FALSE
    /\ UNCHANGED <<submit_mutex, started, stop_requested, ids, queue, waiting,
                   pool, pc, hands, starts>>

\* Mutant of request_stop: the consumers asleep in wait_pop are not woken.
request_stop_silent == stop_requested' = TRUE /\ waiting' = waiting

\* shutdown_.request_stop(), which wakes every consumer in wait_pop.
request_stop == stop_requested' = TRUE /\ waiting' = {}

\* Refuse further work, then ask the consumers to stop.
StopRequest(k) ==
    /\ pc[k] = "idle"
    /\ submit_mutex = Nobody
    /\ started
    /\ submit_mutex' = k
    /\ accepting' = FALSE
    /\ request_stop
    /\ Goto(k, "pool_stop")
    /\ UNCHANGED <<started, ids, queue, pool, hands, starts>>

\* pool_->stop() flips stopping_ and wakes the workers ...
PoolStop(k) ==
    /\ pc[k] = "pool_stop"
    /\ pool_stopping' = TRUE
    /\ Goto(k, "join")
    /\ UNCHANGED <<submit_mutex, control, ids, queue, waiting, tasks, hands,
                   starts>>

\* ... and joins them; stop() drops the pool and returns.
Join(k) ==
    /\ pc[k] = "join"
    /\ \A w \in Worker : pc[w] = "exited"
    /\ started' = FALSE
    /\ submit_mutex' = Nobody
    /\ pc' = [t \in DOMAIN pc |->
                CASE t \in Worker -> "absent" [] t = k -> "idle"
                  [] OTHER -> pc[t]]
    /\ UNCHANGED <<accepting, stop_requested, ids, queue, waiting, pool, hands,
                   starts>>

-----------------------------------------------------------------------------
(* ThreadPool::worker and consumer_loop.                                   *)

TakeTask(w) ==
    /\ pc[w] = "task"
    /\ tasks > 0
    /\ tasks' = tasks - 1
    /\ Goto(w, "pop")
    /\ UNCHANGED <<submit_mutex, control, ids, queue, waiting, pool_stopping,
                   hands, starts>>

WorkerExit(w) ==
    /\ pc[w] = "task"
    /\ tasks = 0
    /\ pool_stopping
    /\ Goto(w, "exited")
    /\ UNCHANGED <<submit_mutex, control, ids, queue, waiting, pool, hands,
                   starts>>

\* Mutant of NothingToPop: a stopped token ends the wait before the queue is
\* looked at.
NothingToPop_stopped == queue = <<>> \/ stop_requested

\* The predicate of wait_pop does not hold.
NothingToPop == queue = <<>>

\* queue_.wait_pop with an empty queue: sleep, or leave consumer_loop when
\* the token is stopped.
WaitPopEmpty(w) ==
    /\ pc[w] = "pop"
    /\ w \notin waiting
    /\ NothingToPop
    /\ IF stop_requested THEN waiting' = waiting /\ Goto(w, "task")
                         ELSE waiting' = waiting \cup {w} /\ pc' = pc
    /\ UNCHANGED <<submit_mutex, control, ids, queue, pool, hands, starts>>

\* Mutant of Popped: the front is read and left in the queue.
Popped_keeping == queue

\* queue_.pop().
Popped == Tail(queue)

\* A consumer's wait_pop, or the try_pop of process_next().
Pop(r) ==
    /\ pc[r] = IF r \in Worker THEN "pop" ELSE "idle"
    /\ r \notin waiting
    /\ queue # <<>>
    /\ queue' = Popped
    /\ ticket' = [ticket EXCEPT ![r] = Head(queue)]
    /\ Goto(r, "take_id")
    /\ UNCHANGED <<submit_mutex, control, ids, waiting, pool, id, processed,
                   starts>>

\* Mutant of Reserved: what submit() reserved is not looked at.
Reserved_ignored == FALSE

\* reserved_ is not empty.
Reserved == reserved # <<>>

\* Mutant of Unreserved: the front is read and not popped.
Unreserved_peeking == reserved

\* reserved_.pop().
Unreserved == Tail(reserved)

\* take_reserved_id(): the front of reserved_, or a fresh id.
TakeReservedId(r) ==
    /\ pc[r] = "take_id"
    /\ IF Reserved
       THEN /\ id' = [id EXCEPT ![r] = Head(reserved)]
            /\ reserved' = Unreserved
            /\ next_id' = next_id
       ELSE /\ id' = [id EXCEPT ![r] = next_id]
            /\ reserved' = reserved
            /\ next_id' = next_id + 1
    /\ Goto(r, "process")
    /\ UNCHANGED <<submit_mutex, control, queue, waiting, pool, ticket,
                   processed, starts>>

\* process_impl, then the consumer loops and the puller returns.
Process(r) ==
    /\ pc[r] = "process"
    /\ processed' = Append(processed, [ticket |-> ticket[r], id |-> id[r]])
    /\ ticket' = [ticket EXCEPT ![r] = 0]
    /\ id' = [id EXCEPT ![r] = 0]
    /\ Goto(r, IF r \in Worker THEN "pop" ELSE "idle")
    /\ UNCHANGED <<submit_mutex, control, ids, queue, waiting, pool, starts>>

-----------------------------------------------------------------------------
ClientStep(c) == SubmitReserve(c) \/ SubmitEnqueue(c) \/ SubmitNotify(c)

ControllerStep(k) ==
    Start(k) \/ StopIdle(k) \/ StopRequest(k) \/ PoolStop(k) \/ Join(k)

WorkerStep(w) ==
    \/ TakeTask(w)
    \/ WorkerExit(w)
    \/ WaitPopEmpty(w)
    \/ Pop(w)
    \/ TakeReservedId(w)
    \/ Process(w)

PullerStep(p) == Pop(p) \/ TakeReservedId(p) \/ Process(p)

Next ==
    \/ \E c \in Client : ClientStep(c)
    \/ \E k \in Controller : ControllerStep(k)
    \/ \E w \in Worker : WorkerStep(w)
    \/ \E p \in Puller : PullerStep(p)

Spec == Init /\ [][Next]_vars

\* Running threads keep running; nobody has to call submit, start, stop or
\* process_next.
FairSpec ==
    /\ Spec
    /\ \A c \in Client : WF_vars(SubmitEnqueue(c) \/ SubmitNotify(c))
    /\ \A k \in Controller : WF_vars(PoolStop(k) \/ Join(k))
    /\ \A w \in Worker : WF_vars(WorkerStep(w))
    /\ \A p \in Puller : WF_vars(TakeReservedId(p) \/ Process(p))

-----------------------------------------------------------------------------
(* Properties.                                                             *)

TypeOK ==
    /\ submit_mutex \in Client \cup Controller \cup {Nobody}
    /\ {accepting, started, stop_requested, pool_stopping} \subseteq BOOLEAN
    /\ next_id \in 1..(MaxTxns + 1)
    /\ reserved \in Seq(1..MaxTxns)
    /\ queue \in Seq(1..MaxTxns)
    /\ waiting \subseteq Worker
    /\ tasks \in 0..Cardinality(Worker)
    /\ \A w \in Worker :
          pc[w] \in {"absent", "task", "pop", "take_id", "process", "exited"}
    /\ \A p \in Puller : pc[p] \in {"idle", "take_id", "process"}
    /\ \A c \in Client : pc[c] \in {"idle", "enqueue", "notify"}
    /\ \A k \in Controller : pc[k] \in {"idle", "pool_stop", "join"}
    /\ ticket \in [Runner -> 0..MaxTxns]
    /\ id \in [Runner -> 0..MaxTxns]
    /\ processed \in Seq([ticket : 1..MaxTxns, id : 1..MaxTxns])
    /\ starts \in 0..MaxStarts

Elements(s) == {s[i] : i \in DOMAIN s}

Busy == {r \in Runner : pc[r] \in {"take_id", "process"}}

\* Every reserved id is accounted for: one per transaction still queued, per
\* popped transaction that has not taken its id yet, and per submit() between
\* its reservation and its enqueue.  So take_reserved_id never falls back to a
\* fresh id for a submitted transaction.
ReservationsMatch ==
    Len(reserved) = Len(queue)
                    + Cardinality({r \in Runner : pc[r] = "take_id"})
                    + Cardinality({c \in Client : pc[c] = "enqueue"})

\* No accepted transaction is lost or run twice: each ticket is in exactly one
\* place among the queue, the hands of a runner and the processed list.
EachTicketOnce ==
    /\ Elements(queue) \cup {ticket[r] : r \in Busy}
          \cup {p.ticket : p \in Elements(processed)}
       = (1..(next_id - 1))
            \ {next_id - 1 : c \in {d \in Client : pc[d] = "enqueue"}}
    /\ Len(queue) + Cardinality(Busy) + Len(processed)
       = next_id - 1 - Cardinality({c \in Client : pc[c] = "enqueue"})

\* However consumers interleave, no two transactions run under the same id.
IdsUsedOnce ==
    \A i, j \in DOMAIN processed : processed[i].id = processed[j].id => i = j

\* "The returned id is the id the persisted record will carry": each processed
\* transaction took the id submit() returned for it.
PromisedIds == \A i \in DOMAIN processed : processed[i].ticket = processed[i].id

\* "Nothing accepted is silently dropped": when stop() of a running processor
\* returns, the queue is drained and no consumer holds a transaction.
RunningStopDrains ==
    [][started /\ ~started' =>
          queue' = <<>> /\ \A w \in Worker : ticket'[w] = 0]_vars

\* stop() returns: the consumers all wake, drain and are joined.
StopReturns ==
    \A k \in Controller : pc[k] # "idle" ~> pc[k] = "idle"

\* No wakeup is lost: on a started processor every queued transaction is
\* eventually processed, whether or not stop() is called meanwhile.
QueuedIsProcessed ==
    \A n \in 1..MaxTxns :
        (started /\ n \in Elements(queue))
            ~> (n \in {p.ticket : p \in Elements(processed)})
=============================================================================
