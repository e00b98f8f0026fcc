------------------------------- MODULE Timer -------------------------------
(***************************************************************************)
(* utils/timer.cpp: a thread that calls callbacks when they are due, from  *)
(* a queue guarded by one mutex.  Tasks are added by any thread, of which  *)
(* each task has one (a callback that adds a task is such a thread, too);  *)
(* the owner starts and stops the timer, again and again.                  *)
(*                                                                         *)
(* The predicate of wait_until() is true at once: the queue's first task   *)
(* is the very task it is compared with.  So the thread never waits for a  *)
(* time: it holds the mutex, looking again and again, until its first task *)
(* is due, and others get the mutex only while a callback runs or the      *)
(* queue is empty.                                                         *)
(***************************************************************************)
EXTENDS Integers, FiniteSets

CONSTANTS
  Tasks,
  Delay,        \* the delay each task is added with
  Period,       \* the period of a periodic task, 0 for a once task (a periodic
                \* one of period 0 would stay due for ever, and is left out)
  MaxLate       \* bound on how late a task is known to be

ASSUME TimerAssumption ==
  /\ IsFiniteSet(Tasks) /\ "nothing" \notin Tasks /\ MaxLate \in Nat \ {0}
  /\ Delay \in [Tasks -> Nat] /\ Period \in [Tasks -> Nat]
  /\ \A t \in Tasks : Delay[t] <= MaxLate /\ Period[t] <= MaxLate

VARIABLES
  running,      \* running_
  queue,        \* the tasks of taskQueue_
  due,          \* execTimestamp, as the time that is left until then
  caller,       \* what the thread that adds each task does
  owner,        \* what the thread that starts and stops does
  thread,       \* what timerThread_ does; "none" if it is not joinable
  called        \* the task of the last callback

vars == <<running, queue, due, caller, owner, thread, called>>

Times == -MaxLate .. MaxLate

TypeOK ==
  /\ running \in BOOLEAN
  /\ queue \subseteq Tasks
  /\ due \in [Tasks -> Times]
  /\ caller \in [Tasks -> {"idle", "adding", "added"}]
  /\ owner \in {"idle", "starting", "stopping", "joining"}
  /\ thread \in {"none", "locking", "looking", "waiting", "woken", "calling", "ended"}
  /\ called \in Tasks \cup {"nothing"}

Init ==
  /\ running = FALSE /\ queue = {}
  /\ due = [t \in Tasks |-> 0]
  /\ caller = [t \in Tasks |-> "idle"]
  /\ owner = "idle" /\ thread = "none" /\ called = "nothing"

(* The mutex is free: all others hold it for one step only.                *)
Free == thread # "looking"

(* notify_one() or notify_all(): only the thread ever waits.               *)
Notify == thread' = IF thread = "waiting" THEN "woken" ELSE thread
-----------------------------------------------------------------------------
(* addOnceTask(), addPeriodicTask(): the time is taken before the mutex.   *)

Add(t) ==
  /\ caller[t] = "idle"
  /\ caller' = [caller EXCEPT ![t] = "adding"]
  /\ due' = [due EXCEPT ![t] = Delay[t]]
  /\ UNCHANGED <<running, queue, owner, thread, called>>

(* Mutant: the task is pushed without a notification.                      *)
Push_Silently(t) ==
  /\ caller[t] = "adding" /\ Free
  /\ caller' = [caller EXCEPT ![t] = "added"]
  /\ queue' = queue \cup {t}
  /\ UNCHANGED <<running, due, owner, thread, called>>

Push(t) ==
  /\ caller[t] = "adding" /\ Free
  /\ caller' = [caller EXCEPT ![t] = "added"]
  /\ queue' = queue \cup {t}
  /\ Notify
  /\ UNCHANGED <<running, due, owner, called>>
-----------------------------------------------------------------------------
(* start() and stop().                                                     *)

Start ==
  /\ owner = "idle" /\ ~running /\ Free
  /\ running' = TRUE
  /\ owner' = "starting"
  /\ UNCHANGED <<queue, due, caller, thread, called>>

Create ==
  /\ owner = "starting"
  /\ thread' = "locking"
  /\ owner' = "idle"
  /\ UNCHANGED <<running, queue, due, caller, called>>

Stop ==
  /\ owner = "idle"
  /\ owner' = "stopping"
  /\ UNCHANGED <<running, queue, due, caller, thread, called>>

(* Mutant: a thread that waits is not notified.                            *)
Clear_Silently ==
  /\ owner = "stopping" /\ Free
  /\ running' = FALSE
  /\ owner' = IF thread = "none" THEN "idle" ELSE "joining"
  /\ UNCHANGED <<queue, due, caller, thread, called>>

(* Mutant: a thread in a callback is not joined.                           *)
Clear_NoJoin ==
  /\ owner = "stopping" /\ Free
  /\ running' = FALSE
  /\ owner' = IF thread \in {"none", "calling"} THEN "idle" ELSE "joining"
  /\ Notify
  /\ UNCHANGED <<queue, due, caller, called>>

Clear ==
  /\ owner = "stopping" /\ Free
  /\ running' = FALSE
  /\ owner' = IF thread = "none" THEN "idle" ELSE "joining"
  /\ Notify
  /\ UNCHANGED <<queue, due, caller, called>>

Join ==
  /\ owner = "joining" /\ thread = "ended"
  /\ thread' = "none"
  /\ owner' = "idle"
  /\ UNCHANGED <<running, queue, due, caller, called>>
-----------------------------------------------------------------------------
(* The thread.                                                             *)

Lock ==
  /\ thread = "locking"
  /\ thread' = "looking"
  /\ UNCHANGED <<running, queue, due, caller, owner, called>>

Wait ==
  /\ thread = "looking" /\ running /\ queue = {}
  /\ thread' = "waiting"
  /\ UNCHANGED <<running, queue, due, caller, owner, called>>

Spurious ==
  /\ thread = "waiting"
  /\ thread' = "woken"
  /\ UNCHANGED <<running, queue, due, caller, owner, called>>

(* wait() tests its predicate again, with the mutex.                       *)
Wake ==
  /\ thread = "woken"
  /\ thread' = IF queue # {} \/ ~running THEN "looking" ELSE "waiting"
  /\ UNCHANGED <<running, queue, due, caller, owner, called>>

Top(t) == t \in queue /\ \A u \in queue : due[t] <= due[u]

(* Mutant: the first task is called without looking at the time.           *)
Call_Early(t) ==
  /\ thread = "looking" /\ running /\ Top(t)
  /\ IF Period[t] > 0
       THEN due' = [due EXCEPT ![t] = @ + Period[t]] /\ UNCHANGED queue
       ELSE due' = [due EXCEPT ![t] = 0] /\ queue' = queue \ {t}
  /\ called' = t /\ thread' = "calling"
  /\ UNCHANGED <<running, caller, owner>>

(* Mutant: while another task is late, a periodic one is not pushed again. *)
Call_Drops(t) ==
  /\ thread = "looking" /\ running /\ Top(t) /\ due[t] <= 0
  /\ IF Period[t] > 0 /\ \A u \in queue \ {t} : due[u] > 0
       THEN due' = [due EXCEPT ![t] = @ + Period[t]] /\ UNCHANGED queue
       ELSE due' = [due EXCEPT ![t] = 0] /\ queue' = queue \ {t}
  /\ called' = t /\ thread' = "calling"
  /\ UNCHANGED <<running, caller, owner>>

(* The first task is taken when it is due; a periodic one is pushed again, *)
(* one period after it was due, before it is called.                       *)
Call(t) ==
  /\ thread = "looking" /\ running /\ Top(t) /\ due[t] <= 0
  /\ IF Period[t] > 0
       THEN due' = [due EXCEPT ![t] = @ + Period[t]] /\ UNCHANGED queue
       ELSE due' = [due EXCEPT ![t] = 0] /\ queue' = queue \ {t}
  /\ called' = t /\ thread' = "calling"
  /\ UNCHANGED <<running, caller, owner>>

(* The callback returns.  A once task may then be added anew.              *)
Return ==
  /\ thread = "calling"
  /\ thread' = "locking" /\ called' = "nothing"
  /\ caller' = [caller EXCEPT ![called] = IF Period[called] > 0 THEN @ ELSE "idle"]
  /\ UNCHANGED <<running, queue, due, owner>>

Leave ==
  /\ thread = "looking" /\ ~running
  /\ thread' = "ended"
  /\ UNCHANGED <<running, queue, due, caller, owner, called>>

ThreadStep ==
  Lock \/ Wait \/ Wake \/ Return \/ Leave \/ \E t \in Tasks : Call(t)
-----------------------------------------------------------------------------
(* Time passes.  While it runs, the timer is taken to keep up with its     *)
(* queue to within MaxLate; else being later than MaxLate is not told from *)
(* being MaxLate late.                                                     *)
Tick ==
  /\ running => \A t \in queue : due[t] > -MaxLate
  /\ due' = [t \in Tasks |->
       IF t \in queue \/ caller[t] = "adding"
         THEN IF due[t] > -MaxLate THEN due[t] - 1 ELSE due[t]
         ELSE due[t]]
  /\ UNCHANGED <<running, queue, caller, owner, thread, called>>

Next ==
  \/ \E t \in Tasks : Add(t) \/ Push(t)
  \/ Start \/ Create \/ Stop \/ Clear \/ Join
  \/ ThreadStep \/ Spurious \/ Tick

Spec == Init /\ [][Next]_vars

(* The threads run on, callbacks return, time goes on, and whoever finds   *)
(* the mutex free again and again gets it at last: what the yield() after  *)
(* a callback is for, and what the mutex alone does not promise.           *)
Fairness ==
  /\ WF_vars(ThreadStep) /\ WF_vars(Create \/ Join) /\ WF_vars(Tick)
  /\ SF_vars(Clear) /\ \A t \in Tasks : SF_vars(Push(t))

FairSpec == Spec /\ Fairness
-----------------------------------------------------------------------------
(* Properties.                                                             *)

(* After stop() has returned, and until the next start(), no callback runs *)
(* and no thread is left that could run one, wherever the thread was when  *)
(* stop() came.                                                            *)
StoppedIsQuiet ==
  owner = "idle" /\ ~running => thread = "none" /\ called = "nothing"

(* A task that was added is queued until it is called, a periodic one for  *)
(* good: none is lost, in whatever order adds, callbacks, stops and starts *)
(* come.                                                                   *)
NothingLost ==
  \A t \in Tasks :
    caller[t] = "added" => t \in queue \/ (called = t /\ Period[t] = 0)

(* Every task added is called at last, and a periodic one again and again, *)
(* though adding it may have to wait for a callback or an empty queue to   *)
(* get the mutex; unless the timer is stopped.                             *)
TasksRun ==
  \A t \in Tasks :
    running /\ (caller[t] = "adding" \/ t \in queue) ~> called = t \/ ~running

(* stop() returns, though it waits for the mutex and for a callback.       *)
StopReturns == owner = "stopping" ~> owner = "idle"
=============================================================================
