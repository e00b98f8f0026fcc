------------------------------ MODULE TaskPool ------------------------------
(***************************************************************************)
(* What utils::ThreadPool promises to those who hand it tasks: a task is   *)
(* put at the end of some worker's queue, is taken from its head by one    *)
(* idle worker, and occupies him until it returns.  Which worker that is,  *)
(* how he finds the task and how he sleeps in between is ThreadPool.       *)
(***************************************************************************)
EXTENDS Naturals, Sequences

CONSTANTS Workers, Tasks, NoTask

VARIABLES
  queues,       \* the tasks waiting, by the worker they were dealt to
  held,         \* the task each worker has in hand
  stopped       \* the pool is being destroyed

vars == <<queues, held, stopped>>

Init ==
  /\ queues = [w \in Workers |-> <<>>]
  /\ held = [w \in Workers |-> NoTask]
  /\ stopped = FALSE

Submit(q, t) ==
  /\ ~stopped
  /\ queues' = [queues EXCEPT ![q] = Append(@, t)]
  /\ UNCHANGED <<held, stopped>>

Begin(w, q) ==
  /\ held[w] = NoTask /\ queues[q] # <<>>
  /\ held' = [held EXCEPT ![w] = Head(queues[q])]
  /\ queues' = [queues EXCEPT ![q] = Tail(@)]
  /\ UNCHANGED stopped

Return(w) ==
  /\ held[w] # NoTask
  /\ held' = [held EXCEPT ![w] = NoTask]
  /\ UNCHANGED <<queues, stopped>>

Stop ==
  /\ ~stopped
  /\ stopped' = TRUE
  /\ UNCHANGED <<queues, held>>

Next ==
  \/ \E q \in Workers, t \in Tasks : Submit(q, t)
  \/ \E w, q \in Workers : Begin(w, q)
  \/ \E w \in Workers : Return(w)
  \/ Stop

Spec == Init /\ [][Next]_vars

(* An idle worker does not leave a task in his own queue, unless the pool  *)
(* is being destroyed.                                                     *)
Fairness == \A w \in Workers : WF_vars(~stopped /\ Begin(w, w))

FairSpec == Spec /\ Fairness
=============================================================================
