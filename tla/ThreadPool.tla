----------------------------- MODULE ThreadPool -----------------------------
(***************************************************************************)
(* utils::ThreadPool: N workers with a task queue each, tasks dealt out    *)
(* round-robin, idle workers stealing from the others' queues, and a       *)
(* condition variable per queue to sleep on.  Its users are the threads    *)
(* that call enqueue() (the accepting thread of HttpServer) and whoever    *)
(* destroys the pool, once nobody calls enqueue() any more.                *)
(*                                                                         *)
(* A critical section is one step, but for the one of a worker about to    *)
(* sleep: it keeps the mutex of its own queue between evaluating the wait  *)
(* predicate and falling asleep, and "stop" is stored without that mutex.  *)
(***************************************************************************)
EXTENDS Naturals, Sequences, FiniteSets, Functions

CONSTANTS
  N,            \* number of workers and of queues
  Producers,    \* threads that call enqueue()
  Tasks,        \* the tasks, each enqueued at most once
  Blocking,     \* those that may never return (a client that stays silent)
  NoTask        \* no task

ASSUME PoolAssumption ==
  /\ N \in Nat \ {0}
  /\ Blocking \subseteq Tasks
  /\ NoTask \notin Tasks

Workers == 0 .. N - 1

VARIABLES
  queues,       \* task_queues_[i]->tasks
  queueIndex,   \* queue_index_
  stop,         \* stop_
  wpc,          \* where each worker is in its loop
  held,         \* the task a worker has in hand
  victims,      \* the queues steal_task() has not looked at yet
  ppc,          \* where each producer is in enqueue()
  ptask,        \* the task it enqueues
  ptarget,      \* the queue it enqueues to
  dpc,          \* where the destructor is
  dnext,        \* the queue it notifies next
  pushed,       \* history: the tasks that have been put into a queue
  finished      \* tasks that have returned

poolVars     == <<queues, queueIndex, stop>>
workerVars   == <<wpc, held, victims, finished>>
producerVars == <<ppc, ptask, ptarget>>
dtorVars     == <<dpc, dnext>>
vars == <<poolVars, workerVars, producerVars, dtorVars, pushed>>

WorkerLabels == {"top", "own", "steal", "check", "checked", "asleep", "woken", "run", "exited"}

TypeOK ==
  /\ queues \in [Workers -> Seq(Tasks)]
  /\ queueIndex \in Nat
  /\ stop \in BOOLEAN
  /\ wpc \in [Workers -> WorkerLabels]
  /\ held \in [Workers -> Tasks \cup {NoTask}]
  /\ victims \in [Workers -> SUBSET Workers]
  /\ ppc \in [Producers -> {"idle", "push", "notify"}]
  /\ ptask \in [Producers -> Tasks \cup {NoTask}]
  /\ ptarget \in [Producers -> Workers]
  /\ dpc \in {"alive", "notify", "join", "gone"}
  /\ dnext \in 0 .. N
  /\ pushed \subseteq Tasks
  /\ finished \subseteq Tasks

Init ==
  /\ queues = [q \in Workers |-> <<>>]
  /\ queueIndex = 0
  /\ stop = FALSE
  /\ wpc = [w \in Workers |-> "top"]
  /\ held = [w \in Workers |-> NoTask]
  /\ victims = [w \in Workers |-> {}]
  /\ ppc = [p \in Producers |-> "idle"]
  /\ ptask = [p \in Producers |-> NoTask]
  /\ ptarget = [p \in Producers |-> 0]
  /\ dpc = "alive" /\ dnext = 0
  /\ pushed = {}
  /\ finished = {}
-----------------------------------------------------------------------------
(* The mutex of a queue, when it is held across steps, is held by the      *)
(* worker the queue belongs to.                                            *)
Locked(q) == wpc[q] = "checked"

Goes(w, from, to) == wpc[w] = from /\ wpc' = [wpc EXCEPT ![w] = to]

(* notify_one() or notify_all(): only worker q ever waits on queue q.      *)
Notify(q) == wpc' = IF wpc[q] = "asleep" THEN [wpc EXCEPT ![q] = "woken"] ELSE wpc

(* Worker w takes the first task of queue q.                               *)
Take(w, q) ==
  /\ queues[q] # <<>>
  /\ held' = [held EXCEPT ![w] = Head(queues[q])]
  /\ queues' = [queues EXCEPT ![q] = Tail(@)]
-----------------------------------------------------------------------------
(* enqueue().                                                              *)

Submitted == Range(ptask) \cup pushed

(* Mutant: the round-robin does not wrap around.                           *)
Enqueue_NoModulo(p, t) ==
  /\ ppc[p] = "idle" /\ dpc = "alive" /\ t \notin Submitted
  /\ ppc' = [ppc EXCEPT ![p] = "push"]
  /\ ptask' = [ptask EXCEPT ![p] = t]
  /\ ptarget' = [ptarget EXCEPT ![p] = queueIndex]
  /\ queueIndex' = queueIndex + 1
  /\ UNCHANGED <<queues, stop, workerVars, dtorVars, pushed>>

Enqueue(p, t) ==
  /\ ppc[p] = "idle" /\ dpc = "alive" /\ t \notin Submitted
  /\ ppc' = [ppc EXCEPT ![p] = "push"]
  /\ ptask' = [ptask EXCEPT ![p] = t]
  /\ ptarget' = [ptarget EXCEPT ![p] = queueIndex % N]
  /\ queueIndex' = queueIndex + 1
  /\ UNCHANGED <<queues, stop, workerVars, dtorVars, pushed>>

(* Mutant: the task is put into the deque without its mutex.               *)
Push_Unlocked(p) ==
  /\ ppc[p] = "push"
  /\ ppc' = [ppc EXCEPT ![p] = "notify"]
  /\ queues' = [queues EXCEPT ![ptarget[p]] = Append(@, ptask[p])]
  /\ pushed' = pushed \cup {ptask[p]}
  /\ ptask' = [ptask EXCEPT ![p] = NoTask]
  /\ UNCHANGED <<queueIndex, stop, workerVars, ptarget, dtorVars>>

Push(p) ==
  /\ ppc[p] = "push" /\ ~Locked(ptarget[p])
  /\ ppc' = [ppc EXCEPT ![p] = "notify"]
  /\ queues' = [queues EXCEPT ![ptarget[p]] = Append(@, ptask[p])]
  /\ pushed' = pushed \cup {ptask[p]}
  /\ ptask' = [ptask EXCEPT ![p] = NoTask]
  /\ UNCHANGED <<queueIndex, stop, workerVars, ptarget, dtorVars>>

NotifyOne(p) ==
  /\ ppc[p] = "notify"
  /\ ppc' = [ppc EXCEPT ![p] = "idle"]
  /\ Notify(ptarget[p])
  /\ UNCHANGED <<poolVars, held, victims, finished, ptask, ptarget, dtorVars, pushed>>
-----------------------------------------------------------------------------
(* The worker's loop.                                                      *)

TestStop(w) ==
  /\ Goes(w, "top", IF stop THEN "exited" ELSE "own")
  /\ UNCHANGED <<poolVars, held, victims, finished, producerVars, dtorVars, pushed>>

PopOwn(w) ==
  /\ Goes(w, "own", "run")
  /\ Take(w, w)
  /\ UNCHANGED <<queueIndex, stop, victims, finished, producerVars, dtorVars, pushed>>

OwnEmpty(w) ==
  /\ Goes(w, "own", "steal")
  /\ queues[w] = <<>>
  /\ victims' = [victims EXCEPT ![w] = Workers \ {w}]
  /\ UNCHANGED <<poolVars, held, finished, producerVars, dtorVars, pushed>>

(* Mutant: thieves take at the far end, as from a work-stealing deque.     *)
Steal_FromBack(w) ==
  /\ Goes(w, "steal", "run")
  /\ \E q \in victims[w] :
       /\ ~Locked(q) /\ queues[q] # <<>>
       /\ held' = [held EXCEPT ![w] = queues[q][Len(queues[q])]]
       /\ queues' = [queues EXCEPT ![q] = SubSeq(@, 1, Len(@) - 1)]
  /\ victims' = [victims EXCEPT ![w] = {}]
  /\ UNCHANGED <<queueIndex, stop, finished, producerVars, dtorVars, pushed>>

(* Mutant: a thief leaves the task where it was.                           *)
Steal_Copies(w) ==
  /\ Goes(w, "steal", "run")
  /\ \E q \in victims[w] :
       /\ ~Locked(q) /\ queues[q] # <<>>
       /\ held' = [held EXCEPT ![w] = Head(queues[q])]
  /\ victims' = [victims EXCEPT ![w] = {}]
  /\ UNCHANGED <<poolVars, finished, producerVars, dtorVars, pushed>>

(* steal_task() looks at the other queues in a random order.               *)
Steal(w) ==
  /\ Goes(w, "steal", "run")
  /\ \E q \in victims[w] : ~Locked(q) /\ Take(w, q)
  /\ victims' = [victims EXCEPT ![w] = {}]
  /\ UNCHANGED <<queueIndex, stop, finished, producerVars, dtorVars, pushed>>

StealMisses(w) ==
  /\ wpc[w] = "steal"
  /\ \E q \in victims[w] :
       /\ ~Locked(q) /\ queues[q] = <<>>
       /\ victims' = [victims EXCEPT ![w] = @ \ {q}]
  /\ UNCHANGED <<poolVars, wpc, held, finished, producerVars, dtorVars, pushed>>

StealFails(w) ==
  /\ Goes(w, "steal", "check")
  /\ victims[w] = {}
  /\ UNCHANGED <<poolVars, held, victims, finished, producerVars, dtorVars, pushed>>

(* The wait: its predicate, on entry and whenever the worker is woken.     *)
Waiting(w) == wpc[w] \in {"check", "woken"}

WaitEndsInTask(w) ==
  /\ Waiting(w)
  /\ wpc' = [wpc EXCEPT ![w] = "run"]
  /\ Take(w, w)
  /\ UNCHANGED <<queueIndex, stop, victims, finished, producerVars, dtorVars, pushed>>

WaitEndsInExit(w) ==
  /\ Waiting(w) /\ stop /\ queues[w] = <<>>
  /\ wpc' = [wpc EXCEPT ![w] = "exited"]
  /\ UNCHANGED <<poolVars, held, victims, finished, producerVars, dtorVars, pushed>>

WaitGoesOn(w) ==
  /\ Waiting(w) /\ ~stop /\ queues[w] = <<>>
  /\ wpc' = [wpc EXCEPT ![w] = "checked"]
  /\ UNCHANGED <<poolVars, held, victims, finished, producerVars, dtorVars, pushed>>

(* The mutex is released and the worker is on the condition variable.      *)
FallAsleep(w) ==
  /\ Goes(w, "checked", "asleep")
  /\ UNCHANGED <<poolVars, held, victims, finished, producerVars, dtorVars, pushed>>

WakeSpuriously(w) ==
  /\ Goes(w, "asleep", "woken")
  /\ UNCHANGED <<poolVars, held, victims, finished, producerVars, dtorVars, pushed>>

RunTask(w) ==
  /\ Goes(w, "run", "top")
  /\ finished' = finished \cup {held[w]}
  /\ held' = [held EXCEPT ![w] = NoTask]
  /\ UNCHANGED <<poolVars, victims, producerVars, dtorVars, pushed>>
-----------------------------------------------------------------------------
(* The destructor.                                                         *)

StoreStop ==
  /\ dpc = "alive" /\ \A p \in Producers : ppc[p] = "idle"
  /\ dpc' = "notify"
  /\ stop' = TRUE
  /\ UNCHANGED <<queues, queueIndex, workerVars, producerVars, dnext, pushed>>

NotifyAll ==
  /\ dpc = "notify" /\ dnext < N
  /\ Notify(dnext)
  /\ dnext' = dnext + 1
  /\ UNCHANGED <<poolVars, held, victims, finished, producerVars, dpc, pushed>>

Join ==
  /\ dpc = "notify" /\ dnext = N
  /\ dpc' = "join"
  /\ UNCHANGED <<poolVars, workerVars, producerVars, dnext, pushed>>

Joined ==
  /\ dpc = "join" /\ \A w \in Workers : wpc[w] = "exited"
  /\ dpc' = "gone"
  /\ UNCHANGED <<poolVars, workerVars, producerVars, dnext, pushed>>

(* Nothing is left to happen, or join() waits for a worker that sleeps.    *)
Ended ==
  /\ dpc \in {"join", "gone"}
  /\ \A w \in Workers : wpc[w] \in {"exited", "asleep"}
  /\ UNCHANGED vars
-----------------------------------------------------------------------------
Acquires(w) == PopOwn(w) \/ OwnEmpty(w) \/ Steal(w) \/ StealMisses(w) \/ StealFails(w)
Waits(w)    == WaitEndsInTask(w) \/ WaitEndsInExit(w) \/ WaitGoesOn(w) \/ FallAsleep(w)
Worker(w)   == TestStop(w) \/ Acquires(w) \/ Waits(w) \/ RunTask(w) \/ WakeSpuriously(w)

Producer(p) == (\E t \in Tasks : Enqueue(p, t)) \/ Push(p) \/ NotifyOne(p)

Destructor == StoreStop \/ NotifyAll \/ Join \/ Joined

Next ==
  \/ \E w \in Workers : Worker(w)
  \/ \E p \in Producers : Producer(p)
  \/ Destructor
  \/ Ended

Spec == Init /\ [][Next]_vars

(* Threads are scheduled, a mutex that is released again and again is had  *)
(* at some point, and tasks return unless they may block; nobody has to    *)
(* enqueue or to destroy the pool, and no wake-up is spurious by duty.     *)
Fairness ==
  /\ \A w \in Workers :
       /\ WF_vars(TestStop(w) \/ Waits(w))
       /\ SF_vars(Acquires(w))
       /\ WF_vars(held[w] \notin Blocking /\ RunTask(w))
  /\ \A p \in Producers : SF_vars(Push(p)) /\ WF_vars(NotifyOne(p))
  /\ WF_vars(NotifyAll \/ Join \/ Joined)

FairSpec == Spec /\ Fairness
-----------------------------------------------------------------------------
(* Properties.                                                             *)

(* No task is lost and none runs twice, whoever pops or steals it: a task  *)
(* that was pushed is at one place of one queue, or in the hand of one     *)
(* worker, or done; one that was not is nowhere.                           *)
Places(t) ==
  (UNION {{<<"queued", q, i>> : i \in {j \in DOMAIN queues[q] : queues[q][j] = t}} :
            q \in Workers})
  \cup {<<"held", w, 0>> : w \in {v \in Workers : held[v] = t}}
  \cup {<<"done", 0, 0>> : f \in {t} \cap finished}

TaskInOnePlace ==
  \A t \in Tasks :
    Cardinality(Places(t)) = IF t \in pushed THEN 1 ELSE 0

(* Every task handed to enqueue() runs and returns, those that block       *)
(* excepted, unless the pool is destroyed first.                           *)
TasksRun ==
  \A t \in Tasks \ Blocking : t \in Submitted ~> (t \in finished \/ stop)

(* The pool, with its stealing, its sleeping and its races between the two *)
(* and the destructor, does what TaskPool says: no step of it loses, adds, *)
(* reorders or doubles a task, and no idle worker leaves one in his queue. *)
Pool == INSTANCE TaskPool WITH stopped <- stop

ImplementsTaskPool == Pool!FairSpec

(* The destructor returns, if every task does.                             *)
DestructorReturns == stop ~> dpc = "gone"
=============================================================================
