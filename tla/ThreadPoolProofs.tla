-------------------------- MODULE ThreadPoolProofs --------------------------
(***************************************************************************)
(* Theorems about ThreadPool, for any numbers of workers, producers and    *)
(* tasks: the types; that no task is lost or doubled; that no worker       *)
(* sleeps on a task nobody will wake him for; and that every step is one   *)
(* of TaskPool or none.                                                    *)
(***************************************************************************)
EXTENDS ThreadPool, SequenceLemmas, FiniteSetTheorems

USE PoolAssumption

(* Who has a task in hand is at the statement that runs it, or pushes it.  *)
HandInv ==
  /\ \A w \in Workers : held[w] # NoTask <=> wpc[w] = "run"
  /\ \A p \in Producers : ptask[p] # NoTask <=> ppc[p] = "push"

(* What is in the queues, and what is in the workers' hands, was pushed,   *)
(* has not returned, and is there once.                                    *)
QueueInv ==
  /\ \A q \in Workers :
       /\ IsInjective(queues[q])
       /\ Range(queues[q]) \subseteq pushed \ finished
  /\ \A q, r \in Workers : q # r => Range(queues[q]) \cap Range(queues[r]) = {}
  /\ \A q, w \in Workers : held[w] \notin Range(queues[q])
  /\ \A w \in Workers : held[w] # NoTask => held[w] \in pushed \ finished
  /\ \A v, w \in Workers : held[v] = held[w] /\ held[v] # NoTask => v = w

(* What was pushed is somewhere; what a producer still has was not pushed. *)
PushedInv ==
  /\ finished \subseteq pushed
  /\ \A t \in pushed \ finished :
       \/ \E q \in Workers : t \in Range(queues[q])
       \/ \E w \in Workers : held[w] = t
  /\ \A p \in Producers : ptask[p] \notin pushed
  /\ \A p, r \in Producers : ptask[p] = ptask[r] /\ ptask[p] # NoTask => p = r

(* While somebody is in enqueue(), the destructor has not begun.           *)
StopInv ==
  /\ stop <=> dpc # "alive"
  /\ \A p \in Producers : ppc[p] # "idle" => dpc = "alive"

(* A worker that has a task in his queue and sleeps on its condition       *)
(* variable is about to be notified, by the producer who pushed last; and  *)
(* one who has seen his queue empty falls asleep before anybody pushes.    *)
NoLostNotification ==
  \A w \in Workers :
    /\ wpc[w] = "checked" => queues[w] = <<>>
    /\ wpc[w] = "asleep" /\ queues[w] # <<>> =>
         \E p \in Producers : ppc[p] = "notify" /\ ptarget[p] = w

IInv == TypeOK /\ HandInv /\ QueueInv /\ PushedInv /\ StopInv /\ NoLostNotification
-----------------------------------------------------------------------------
(***************************************************************************)
(* The initial states.                                                     *)
(***************************************************************************)
LEMMA InitHolds == Init => IInv
<1> SUFFICES ASSUME Init PROVE IInv
  OBVIOUS
<1>1. \A q \in Workers : queues[q] = <<>> /\ Range(queues[q]) = {} /\ IsInjective(queues[q])
  BY DEF Init, Range, IsInjective
<1>2. TypeOK
  <2>1. 0 \in Workers /\ 0 \in 0 .. N
    BY DEF Workers
  <2>2. /\ queues \in [Workers -> Seq(Tasks)] /\ held \in [Workers -> Tasks \cup {NoTask}]
        /\ victims \in [Workers -> SUBSET Workers] /\ wpc \in [Workers -> WorkerLabels]
    BY DEF Init, WorkerLabels
  <2>3. /\ ppc \in [Producers -> {"idle", "push", "notify"}]
        /\ ptask \in [Producers -> Tasks \cup {NoTask}]
        /\ ptarget \in [Producers -> Workers]
    BY <2>1 DEF Init
  <2> QED BY <2>1, <2>2, <2>3 DEF Init, TypeOK
<1>3. HandInv /\ QueueInv /\ PushedInv /\ StopInv /\ NoLostNotification
  BY <1>1 DEF Init, HandInv, QueueInv, PushedInv, StopInv, NoLostNotification
<1> QED BY <1>2, <1>3 DEF IInv
-----------------------------------------------------------------------------
(***************************************************************************)
(* enqueue().                                                              *)
(***************************************************************************)
LEMMA EnqueueKeeps ==
  ASSUME IInv, NEW p \in Producers, NEW t \in Tasks, Enqueue(p, t)
  PROVE  IInv'
<1> USE DEF IInv, Enqueue, workerVars, dtorVars
<1>1. t \notin pushed /\ t # NoTask /\ \A r \in Producers : ptask[r] # t
  BY DEF TypeOK, Submitted, Range
<1>2. queueIndex % N \in Workers
  BY DEF TypeOK, Workers
<1>3. TypeOK'
  BY <1>2 DEF TypeOK
<1>4. HandInv'
  BY <1>1 DEF TypeOK, HandInv
<1>5. PushedInv'
  BY <1>1 DEF TypeOK, PushedInv
<1>6. QueueInv'
  BY DEF QueueInv
<1>7. StopInv' /\ NoLostNotification'
  BY DEF TypeOK, StopInv, NoLostNotification
<1> QED BY <1>3, <1>4, <1>5, <1>6, <1>7

(* The only step that adds to a queue: the task is in none, and its owner  *)
(* is not on his way to sleep.                                             *)
LEMMA PushKeeps ==
  ASSUME IInv, NEW p \in Producers, Push(p)
  PROVE  IInv'
<1> DEFINE t == ptask[p]
           d == ptarget[p]
<1> USE DEF IInv, Push, workerVars, dtorVars
<1>1. /\ t \in Tasks /\ t # NoTask /\ t \notin pushed
      /\ d \in Workers /\ queues[d] \in Seq(Tasks)
  BY DEF TypeOK, HandInv, PushedInv
<1>2. \A q \in Workers : queues'[q] = IF q = d THEN Append(queues[d], t) ELSE queues[q]
  BY <1>1 DEF TypeOK
<1>3. t \notin Range(queues[d])
  BY <1>1 DEF QueueInv
<1>4. /\ Append(queues[d], t) \in Seq(Tasks)
      /\ Range(Append(queues[d], t)) = Range(queues[d]) \cup {t}
      /\ IsInjective(Append(queues[d], t))
  BY <1>1, <1>3, AppendRange DEF QueueInv
<1>5. /\ Range(queues'[d]) = Range(queues[d]) \cup {t}
      /\ \A q \in Workers \ {d} : queues'[q] = queues[q] /\ Range(queues'[q]) = Range(queues[q])
  <2>1. queues'[d] = Append(queues[d], t)
    BY <1>1, <1>2
  <2>2. \A q \in Workers \ {d} : queues'[q] = queues[q]
    BY <1>2
  <2> QED BY <1>4, <2>1, <2>2
<1>6. TypeOK'
  BY <1>1, <1>4 DEF TypeOK
<1>7. HandInv'
  BY DEF TypeOK, HandInv
<1>8. QueueInv'
  <2>1. \A w \in Workers : held[w] # t
    BY <1>1 DEF QueueInv
  <2>2. t \notin finished
    BY <1>1 DEF PushedInv
  <2>3. \A q \in Workers : IsInjective(queues'[q]) /\ Range(queues'[q]) \subseteq pushed' \ finished'
    <3>1. IsInjective(queues'[d]) /\ Range(queues'[d]) \subseteq pushed' \ finished'
      BY <1>1, <1>2, <1>4, <1>5, <2>2 DEF QueueInv
    <3>2. ASSUME NEW q \in Workers \ {d}
          PROVE  IsInjective(queues'[q]) /\ Range(queues'[q]) \subseteq pushed' \ finished'
      BY <1>5 DEF QueueInv
    <3> QED BY <3>1, <3>2
  <2>4. \A q \in Workers : t \notin Range(queues[q])
    BY <1>1 DEF QueueInv
  <2>5. \A q, r \in Workers : q # r => Range(queues'[q]) \cap Range(queues'[r]) = {}
    BY <1>5, <2>4 DEF QueueInv
  <2>6. \A q, w \in Workers : held'[w] \notin Range(queues'[q])
    BY <1>5, <2>1 DEF QueueInv
  <2> QED BY <2>3, <2>5, <2>6 DEF QueueInv
<1>9. PushedInv'
  <2>1. \A r \in Producers : ptask'[r] = IF r = p THEN NoTask ELSE ptask[r]
    BY DEF TypeOK
  <2>2. /\ finished' \subseteq pushed'
        /\ \A r, s \in Producers : ptask'[r] = ptask'[s] /\ ptask'[r] # NoTask => r = s
    BY <2>1 DEF PushedInv
  <2>3. \A r \in Producers : ptask'[r] \notin pushed'
    <3>1. NoTask \notin pushed /\ \A r \in Producers : r # p => ptask[r] # t
      BY <1>1 DEF TypeOK, PushedInv
    <3> QED BY <1>1, <2>1, <3>1 DEF PushedInv
  <2>4. ASSUME NEW u \in pushed' \ finished'
        PROVE  \/ \E q \in Workers : u \in Range(queues'[q])
               \/ \E w \in Workers : held'[w] = u
    <3>1. CASE u = t
      BY <1>1, <1>5, <3>1
    <3>2. CASE u # t
      <4>1. u \in pushed \ finished
        BY <2>4, <3>2
      <4>2. \A q \in Workers : u \in Range(queues[q]) => u \in Range(queues'[q])
        BY <1>1, <1>5
      <4> QED BY <4>1, <4>2 DEF PushedInv
    <3> QED BY <3>1, <3>2
  <2> QED BY <2>2, <2>3, <2>4 DEF PushedInv
<1>10. StopInv'
  BY DEF TypeOK, StopInv, HandInv
<1>11. NoLostNotification'
  <2>1. wpc[d] # "checked"
    BY DEF Locked
  <2>2. \A r \in Producers : ppc'[r] = IF r = p THEN "notify" ELSE ppc[r]
    BY DEF TypeOK
  <2> QED BY <1>2, <2>1, <2>2 DEF NoLostNotification
<1> QED BY <1>6, <1>7, <1>8, <1>9, <1>10, <1>11

LEMMA NotifyOneKeeps ==
  ASSUME IInv, NEW p \in Producers, NotifyOne(p)
  PROVE  IInv'
<1> USE DEF IInv, NotifyOne, poolVars, dtorVars
<1>1. ptarget[p] \in Workers
  BY DEF TypeOK
<1>2. \A w \in Workers :
        wpc'[w] = IF w = ptarget[p] /\ wpc[w] = "asleep" THEN "woken" ELSE wpc[w]
  BY <1>1 DEF TypeOK, Notify
<1>3. TypeOK'
  BY DEF TypeOK, Notify, WorkerLabels
<1>4. HandInv'
  BY <1>2 DEF TypeOK, HandInv
<1>5. QueueInv' /\ PushedInv'
  BY DEF QueueInv, PushedInv
<1>6. StopInv'
  BY DEF TypeOK, StopInv
<1>7. NoLostNotification'
  <2>1. \A r \in Producers : ppc'[r] = IF r = p THEN "idle" ELSE ppc[r]
    BY DEF TypeOK
  <2> QED BY <1>2, <2>1 DEF NoLostNotification
<1> QED BY <1>3, <1>4, <1>5, <1>6, <1>7
-----------------------------------------------------------------------------
(***************************************************************************)
(* The workers.                                                            *)
(***************************************************************************)

(* A worker takes a task from the head of a queue, his own or another's,   *)
(* and goes on to run it.                                                  *)
LEMMA TakeKeeps ==
  ASSUME IInv, NEW w \in Workers, NEW q \in Workers, Take(w, q), held[w] = NoTask,
         wpc' = [wpc EXCEPT ![w] = "run"],
         victims' = [victims EXCEPT ![w] = {}] \/ UNCHANGED victims,
         UNCHANGED <<queueIndex, stop, finished, producerVars, dtorVars, pushed>>
  PROVE  IInv'
<1> DEFINE t == Head(queues[q])
<1> USE DEF IInv, Take, producerVars, dtorVars
<1>1. queues[q] \in Seq(Tasks) /\ queues[q] # <<>> /\ IsInjective(queues[q])
  BY DEF TypeOK, QueueInv
<1>2. /\ Tail(queues[q]) \in Seq(Tasks) /\ t \in Tasks /\ t \in Range(queues[q])
      /\ Range(Tail(queues[q])) = Range(queues[q]) \ {t}
      /\ IsInjective(Tail(queues[q]))
  BY <1>1, TailRange
<1>3. t # NoTask
  BY <1>2
<1>4. \A r \in Workers : queues'[r] = IF r = q THEN Tail(queues[q]) ELSE queues[r]
  BY DEF TypeOK
<1>5. /\ Range(queues'[q]) = Range(queues[q]) \ {t} /\ IsInjective(queues'[q])
      /\ \A r \in Workers \ {q} : queues'[r] = queues[r] /\ Range(queues'[r]) = Range(queues[r])
  <2>1. queues'[q] = Tail(queues[q])
    BY <1>4
  <2>2. \A r \in Workers \ {q} : queues'[r] = queues[r]
    BY <1>4
  <2> QED BY <1>2, <2>1, <2>2
<1>6. \A v \in Workers : held'[v] = IF v = w THEN t ELSE held[v]
  BY DEF TypeOK
<1>7. TypeOK'
  BY <1>2 DEF TypeOK, WorkerLabels
<1>8. HandInv'
  BY <1>3, <1>6 DEF TypeOK, HandInv
<1>9. QueueInv'
  <2>1. t \in pushed \ finished /\ \A v \in Workers : held[v] # t
    BY <1>2 DEF QueueInv
  <2>2. \A r \in Workers : r # q => t \notin Range(queues[r])
    BY <1>2 DEF QueueInv
  <2>3. \A r \in Workers :
          /\ IsInjective(queues'[r]) /\ Range(queues'[r]) \subseteq Range(queues[r])
          /\ t \notin Range(queues'[r])
    <3>1. ASSUME NEW r \in Workers \ {q}
          PROVE  IsInjective(queues'[r]) /\ Range(queues'[r]) = Range(queues[r])
      BY <1>5 DEF QueueInv
    <3> QED BY <1>5, <2>2, <3>1
  <2>4. ASSUME NEW r \in Workers, NEW v \in Workers PROVE held'[v] \notin Range(queues'[r])
    <3>1. CASE v = w
      BY <1>6, <2>3, <3>1
    <3>2. CASE v # w
      <4>1. held'[v] = held[v] /\ held[v] \notin Range(queues[r])
        BY <1>6, <3>2 DEF QueueInv
      <4> QED BY <2>3, <4>1
    <3> QED BY <3>1, <3>2
  <2>5. \A r \in Workers : Range(queues'[r]) \subseteq pushed' \ finished'
    BY <2>3 DEF QueueInv
  <2>6. \A r, s \in Workers : r # s => Range(queues'[r]) \cap Range(queues'[s]) = {}
    BY <2>3 DEF QueueInv
  <2>7. \A v \in Workers : held'[v] # NoTask => held'[v] \in pushed' \ finished'
    BY <1>6, <2>1 DEF QueueInv
  <2>8. \A u, v \in Workers : held'[u] = held'[v] /\ held'[u] # NoTask => u = v
    BY <1>6, <2>1 DEF QueueInv
  <2> QED BY <2>3, <2>4, <2>5, <2>6, <2>7, <2>8 DEF QueueInv
<1>10. PushedInv'
  <2>1. ASSUME NEW u \in pushed \ finished
        PROVE  \/ \E r \in Workers : u \in Range(queues'[r])
               \/ \E v \in Workers : held'[v] = u
    <3>1. CASE u = t
      BY <1>6, <3>1
    <3>2. CASE u # t
      <4>1. CASE \E r \in Workers : u \in Range(queues[r])
        BY <1>5, <3>2, <4>1
      <4>2. CASE \E v \in Workers : held[v] = u
        <5>1. PICK v \in Workers : held[v] = u
          BY <4>2
        <5>2. u # NoTask
          BY DEF TypeOK
        <5>3. held'[v] = u
          BY <1>6, <5>1, <5>2
        <5> QED BY <5>3
      <4> QED BY <4>1, <4>2 DEF PushedInv
    <3> QED BY <3>1, <3>2
  <2> QED BY <2>1 DEF PushedInv
<1>11. StopInv'
  BY DEF StopInv
<1>12. NoLostNotification'
  BY <1>1, <1>4 DEF TypeOK, NoLostNotification
<1> QED BY <1>7, <1>8, <1>9, <1>10, <1>11, <1>12

(* The steps that neither take nor return a task.                          *)
LEMMA LookKeeps ==
  ASSUME IInv, NEW w \in Workers,
         \/ TestStop(w) \/ OwnEmpty(w) \/ StealMisses(w) \/ StealFails(w)
         \/ WaitEndsInExit(w) \/ WaitGoesOn(w) \/ FallAsleep(w) \/ WakeSpuriously(w)
  PROVE  IInv'
<1> USE DEF IInv, TestStop, OwnEmpty, StealMisses, StealFails, WaitEndsInExit, WaitGoesOn,
            FallAsleep, WakeSpuriously, Goes, Waiting, poolVars, producerVars, dtorVars
<1>1. \A v \in Workers : v # w => wpc'[v] = wpc[v]
  BY DEF TypeOK
<1>2. UNCHANGED <<queues, queueIndex, stop, held, finished, ppc, ptask, ptarget, dpc, dnext, pushed>>
  OBVIOUS
<1>3. wpc[w] # "run" /\ wpc'[w] # "run" /\ wpc' \in [Workers -> WorkerLabels]
  BY DEF TypeOK, WorkerLabels
<1>4. victims' \in [Workers -> SUBSET Workers]
  BY DEF TypeOK
<1>5. TypeOK'
  BY <1>2, <1>3, <1>4 DEF TypeOK
<1>6. HandInv'
  BY <1>1, <1>2, <1>3 DEF HandInv
<1>7. QueueInv' /\ PushedInv' /\ StopInv'
  BY <1>2 DEF QueueInv, PushedInv, StopInv
<1>8. /\ wpc'[w] = "checked" => queues[w] = <<>>
      /\ wpc'[w] = "asleep" => wpc[w] \in {"checked", "asleep"}
  BY DEF TypeOK
<1>9. NoLostNotification'
  BY <1>1, <1>2, <1>8 DEF NoLostNotification
<1> QED BY <1>5, <1>6, <1>7, <1>9

LEMMA RunTaskKeeps ==
  ASSUME IInv, NEW w \in Workers, RunTask(w)
  PROVE  IInv'
<1> DEFINE t == held[w]
<1> USE DEF IInv, RunTask, Goes, poolVars, producerVars, dtorVars
<1>1. t \in Tasks /\ t # NoTask /\ t \in pushed \ finished
  BY DEF TypeOK, HandInv, QueueInv
<1>2. \A v \in Workers : held'[v] = IF v = w THEN NoTask ELSE held[v]
  BY DEF TypeOK
<1>3. \A v \in Workers : wpc'[v] = IF v = w THEN "top" ELSE wpc[v]
  BY DEF TypeOK
<1>4. TypeOK'
  BY <1>1 DEF TypeOK, WorkerLabels
<1>5. HandInv'
  BY <1>2, <1>3 DEF HandInv
<1>6. QueueInv'
  <2>1. \A q \in Workers : t \notin Range(queues[q])
    BY DEF QueueInv
  <2>2. \A v \in Workers : v # w => held[v] # t
    BY <1>1 DEF QueueInv
  <2>3. \A q \in Workers : NoTask \notin Range(queues[q])
    BY DEF QueueInv, TypeOK
  <2> QED BY <1>2, <2>1, <2>2, <2>3 DEF QueueInv
<1>7. PushedInv'
  BY <1>1, <1>2 DEF PushedInv
<1>8. StopInv' /\ NoLostNotification'
  BY <1>3 DEF StopInv, NoLostNotification
<1> QED BY <1>4, <1>5, <1>6, <1>7, <1>8

LEMMA WorkerKeeps ==
  ASSUME IInv, NEW w \in Workers, Worker(w)
  PROVE  IInv'
<1>1. wpc[w] # "run" => held[w] = NoTask
  BY DEF IInv, HandInv
<1>2. CASE PopOwn(w) \/ WaitEndsInTask(w)
  BY <1>1, <1>2, TakeKeeps DEF PopOwn, WaitEndsInTask, Goes, Waiting
<1>3. CASE Steal(w)
  <2>1. PICK q \in victims[w] : Take(w, q)
    BY <1>3 DEF Steal
  <2>2. q \in Workers
    BY <2>1 DEF IInv, TypeOK
  <2> QED BY <1>1, <1>3, <2>1, <2>2, TakeKeeps DEF Steal, Goes
<1>4. CASE RunTask(w)
  BY <1>4, RunTaskKeeps
<1>5. CASE \/ TestStop(w) \/ OwnEmpty(w) \/ StealMisses(w) \/ StealFails(w)
           \/ WaitEndsInExit(w) \/ WaitGoesOn(w) \/ FallAsleep(w) \/ WakeSpuriously(w)
  BY <1>5, LookKeeps
<1> QED BY <1>2, <1>3, <1>4, <1>5 DEF Worker, Acquires, Waits
-----------------------------------------------------------------------------
(***************************************************************************)
(* The destructor, and all steps together.                                 *)
(***************************************************************************)
LEMMA DestructorKeeps ==
  ASSUME IInv, Destructor
  PROVE  IInv'
<1> USE DEF IInv, Destructor, poolVars, workerVars, producerVars
<1>1. CASE StoreStop
  BY <1>1 DEF StoreStop, TypeOK, HandInv, QueueInv, PushedInv, StopInv, NoLostNotification
<1>2. CASE NotifyAll
  <2> USE <1>2 DEF NotifyAll
  <2>1. dnext \in Workers /\ dnext + 1 \in 0 .. N
    BY DEF TypeOK, Workers
  <2>2. \A w \in Workers :
          wpc'[w] = IF w = dnext /\ wpc[w] = "asleep" THEN "woken" ELSE wpc[w]
    BY DEF TypeOK, Notify
  <2>3. TypeOK'
    BY <2>1 DEF TypeOK, Notify, WorkerLabels
  <2>4. HandInv' /\ NoLostNotification'
    BY <2>2 DEF HandInv, NoLostNotification
  <2>5. QueueInv' /\ PushedInv' /\ StopInv'
    BY DEF QueueInv, PushedInv, StopInv
  <2> QED BY <2>3, <2>4, <2>5
<1>3. CASE Join \/ Joined
  <2> USE <1>3 DEF Join, Joined
  <2>1. TypeOK' /\ StopInv'
    BY DEF TypeOK, StopInv
  <2>2. HandInv' /\ QueueInv' /\ PushedInv' /\ NoLostNotification'
    BY DEF HandInv, QueueInv, PushedInv, NoLostNotification
  <2> QED BY <2>1, <2>2
<1> QED BY <1>1, <1>2, <1>3

LEMMA NextKeeps == ASSUME IInv, [Next]_vars PROVE IInv'
<1>1. CASE \E w \in Workers : Worker(w)
  BY <1>1, WorkerKeeps
<1>2. CASE \E p \in Producers : Producer(p)
  BY <1>2, EnqueueKeeps, PushKeeps, NotifyOneKeeps DEF Producer
<1>3. CASE Destructor
  BY <1>3, DestructorKeeps
<1>4. CASE Ended \/ UNCHANGED vars
  BY <1>4 DEF Ended, vars, poolVars, workerVars, producerVars, dtorVars, IInv, TypeOK, HandInv,
              QueueInv, PushedInv, StopInv, NoLostNotification
<1> QED BY <1>1, <1>2, <1>3, <1>4 DEF Next

(* Every state of every behaviour satisfies the invariant.                 *)
THEOREM Invariance == Spec => []IInv
BY InitHolds, NextKeeps, PTL DEF Spec

(* Every variable has a value of its type: in particular, the round-robin  *)
(* only ever names a queue there is.                                       *)
THEOREM TypeCorrect == Spec => []TypeOK
<1>1. IInv => TypeOK
  BY DEF IInv
<1> QED BY <1>1, Invariance, PTL

(* A worker who sleeps while there is a task in his queue will be notified.*)
THEOREM NobodySleepsOnWork == Spec => []NoLostNotification
<1>1. IInv => NoLostNotification
  BY DEF IInv
<1> QED BY <1>1, Invariance, PTL
-----------------------------------------------------------------------------
(***************************************************************************)
(* A task is in one place.                                                 *)
(***************************************************************************)
LEMMA OnePlace == IInv => TaskInOnePlace
<1> SUFFICES ASSUME IInv, NEW t \in Tasks
             PROVE  Cardinality(Places(t)) = IF t \in pushed THEN 1 ELSE 0
  BY DEF TaskInOnePlace
<1> USE DEF IInv
<1>1. ASSUME NEW q \in Workers PROVE t \in Range(queues[q]) <=> \E i \in DOMAIN queues[q] : queues[q][i] = t
  BY DEF Range
<1> DEFINE Queued == UNION {{<<"queued", q, i>> : i \in {j \in DOMAIN queues[q] : queues[q][j] = t}} :
                              q \in Workers}
           InHand == {<<"held", w, 0>> : w \in {v \in Workers : held[v] = t}}
           Done   == {<<"done", 0, 0>> : f \in {t} \cap finished}
<1>0. Places(t) = Queued \cup InHand \cup Done
  BY DEF Places
<1> HIDE DEF Queued, InHand, Done
<1>a. (\A q \in Workers : t \notin Range(queues[q])) => Queued = {}
  BY <1>1 DEF Queued
<1>b. (\A w \in Workers : held[w] # t) => InHand = {}
  BY DEF InHand
<1>c. Done = IF t \in finished THEN {<<"done", 0, 0>>} ELSE {}
  BY DEF Done
<1>2. CASE t \notin pushed
  <2>1. /\ \A q \in Workers : t \notin Range(queues[q])
        /\ \A w \in Workers : held[w] # t
        /\ t \notin finished
    BY <1>2 DEF QueueInv, PushedInv
  <2>2. Places(t) = {}
    BY <1>0, <1>a, <1>b, <1>c, <2>1
  <2> QED BY <1>2, <2>2, FS_EmptySet
<1>3. CASE t \in finished
  <2>1. /\ \A q \in Workers : t \notin Range(queues[q])
        /\ \A w \in Workers : held[w] # t
        /\ t \in pushed
    BY <1>3 DEF QueueInv, PushedInv
  <2>2. Places(t) = {<<"done", 0, 0>>}
    BY <1>0, <1>a, <1>b, <1>c, <1>3, <2>1
  <2> QED BY <2>1, <2>2, FS_Singleton
<1>4. CASE t \in pushed \ finished /\ \E w \in Workers : held[w] = t
  <2>1. PICK w \in Workers : held[w] = t
    BY <1>4
  <2>2. /\ \A q \in Workers : t \notin Range(queues[q])
        /\ \A v \in Workers : held[v] = t => v = w
    BY <2>1 DEF QueueInv
  <2>3. InHand = {<<"held", w, 0>>}
    BY <2>1, <2>2 DEF InHand
  <2>4. Places(t) = {<<"held", w, 0>>}
    BY <1>0, <1>a, <1>c, <1>4, <2>2, <2>3
  <2> QED BY <1>4, <2>4, FS_Singleton
<1>5. CASE t \in pushed \ finished /\ \E q \in Workers : t \in Range(queues[q])
  <2>1. PICK q \in Workers : t \in Range(queues[q])
    BY <1>5
  <2>2. PICK i \in DOMAIN queues[q] : queues[q][i] = t
    BY <1>1, <2>1
  <2>3. /\ \A r \in Workers : t \in Range(queues[r]) => r = q
        /\ \A w \in Workers : held[w] # t
        /\ \A j \in DOMAIN queues[q] : queues[q][j] = t => j = i
    BY <2>1, <2>2 DEF QueueInv, IsInjective
  <2>4. \A r \in Workers : \A j \in DOMAIN queues[r] : queues[r][j] = t => r = q /\ j = i
    BY <1>1, <2>3
  <2>5. Queued = {<<"queued", q, i>>}
    BY <2>2, <2>4 DEF Queued
  <2>6. Places(t) = {<<"queued", q, i>>}
    BY <1>0, <1>b, <1>c, <1>5, <2>3, <2>5
  <2> QED BY <1>5, <2>6, FS_Singleton
<1> QED BY <1>2, <1>3, <1>4, <1>5 DEF PushedInv

(* No task is lost and none runs twice, whoever pops or steals it.         *)
THEOREM NoneLostOrDoubled == Spec => []TaskInOnePlace
BY OnePlace, Invariance, PTL
-----------------------------------------------------------------------------
(***************************************************************************)
(* The refinement.  A push is TaskPool's Submit; whoever takes a task,     *)
(* from whichever queue, Begins it; all else but the return of a task and  *)
(* the store to stop_ leaves TaskPool where it is.                         *)
(***************************************************************************)
LEMMA TakeBegins ==
  ASSUME IInv, NEW w \in Workers, NEW q \in Workers, Take(w, q), wpc[w] # "run", UNCHANGED stop
  PROVE  Pool!Next
<1>1. held[w] = NoTask
  BY DEF IInv, HandInv
<1>2. Pool!Begin(w, q)
  BY <1>1 DEF Take, Pool!Begin
<1> QED BY <1>2 DEF Pool!Next

LEMMA StepRefines == ASSUME IInv, [Next]_vars PROVE [Pool!Next]_(Pool!vars)
<1>1. ASSUME NEW p \in Producers, NEW t \in Tasks, Enqueue(p, t) PROVE UNCHANGED Pool!vars
  BY <1>1 DEF Enqueue, workerVars, Pool!vars
<1>2. ASSUME NEW p \in Producers, Push(p) PROVE Pool!Next
  <2>1. ptask[p] \in Tasks /\ ptarget[p] \in Workers /\ ~stop
    BY <1>2 DEF Push, IInv, TypeOK, HandInv, StopInv
  <2>2. Pool!Submit(ptarget[p], ptask[p])
    BY <1>2, <2>1 DEF Push, workerVars, Pool!Submit
  <2> QED BY <2>1, <2>2 DEF Pool!Next
<1>3. ASSUME NEW p \in Producers, NotifyOne(p) PROVE UNCHANGED Pool!vars
  BY <1>3 DEF NotifyOne, poolVars, Pool!vars
<1>4. ASSUME NEW w \in Workers, PopOwn(w) \/ WaitEndsInTask(w) PROVE Pool!Next
  BY <1>4, TakeBegins DEF PopOwn, WaitEndsInTask, Goes, Waiting
<1>5. ASSUME NEW w \in Workers, Steal(w) PROVE Pool!Next
  <2>1. PICK q \in victims[w] : Take(w, q)
    BY <1>5 DEF Steal
  <2>2. q \in Workers
    BY <2>1 DEF IInv, TypeOK
  <2> QED BY <1>5, <2>1, <2>2, TakeBegins DEF Steal, Goes
<1>6. ASSUME NEW w \in Workers, RunTask(w) PROVE Pool!Next
  <2>1. Pool!Return(w)
    BY <1>6 DEF RunTask, Goes, poolVars, IInv, HandInv, Pool!Return
  <2> QED BY <2>1 DEF Pool!Next
<1>7. ASSUME NEW w \in Workers,
             \/ TestStop(w) \/ OwnEmpty(w) \/ StealMisses(w) \/ StealFails(w)
             \/ WaitEndsInExit(w) \/ WaitGoesOn(w) \/ FallAsleep(w) \/ WakeSpuriously(w)
      PROVE  UNCHANGED Pool!vars
  BY <1>7 DEF TestStop, OwnEmpty, StealMisses, StealFails, WaitEndsInExit, WaitGoesOn,
              FallAsleep, WakeSpuriously, poolVars, Pool!vars
<1>8. CASE StoreStop
  <2>1. Pool!Stop
    BY <1>8 DEF StoreStop, workerVars, IInv, StopInv, Pool!Stop
  <2> QED BY <2>1 DEF Pool!Next
<1>9. CASE NotifyAll \/ Join \/ Joined
  BY <1>9 DEF NotifyAll, Join, Joined, poolVars, workerVars, Pool!vars
<1>10. CASE Ended \/ UNCHANGED vars
  BY <1>10 DEF Ended, vars, poolVars, workerVars, Pool!vars
<1> QED
  BY <1>1, <1>2, <1>3, <1>4, <1>5, <1>6, <1>7, <1>8, <1>9, <1>10
  DEF Next, Worker, Acquires, Waits, Producer, Destructor

(* The pool with its stealing and sleeping is, step by step, a TaskPool:   *)
(* the safety part of ImplementsTaskPool.                                  *)
THEOREM Refinement == Spec => Pool!Spec
<1>1. Init => Pool!Init
  BY DEF Init, Pool!Init
<1>2. IInv /\ [Next]_vars => [Pool!Next]_(Pool!vars)
  BY StepRefines
<1> QED BY <1>1, <1>2, Invariance, PTL DEF Spec, Pool!Spec
=============================================================================
