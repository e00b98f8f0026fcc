---------------------------- MODULE TimerProofs ----------------------------
(***************************************************************************)
(* Theorems about Timer, for any tasks, delays and periods: the types, and *)
(* the two safety properties, which one invariant carries.                 *)
(***************************************************************************)
EXTENDS Timer, TLAPS

(* Where the thread, the flag and the owner stand to each other.           *)
ThreadInv ==
  /\ owner = "starting" => running /\ thread = "none"
  /\ owner = "joining" => ~running /\ thread \notin {"none", "waiting"}
  /\ owner \in {"idle", "stopping"} /\ running =>
       thread \in {"locking", "looking", "waiting", "woken", "calling"}
  /\ owner \in {"idle", "stopping"} /\ ~running => thread = "none"
  /\ called # "nothing" <=> thread = "calling"

(* Where a task is that its caller has handed over, or not yet.            *)
QueueInv ==
  \A t \in Tasks :
    /\ caller[t] # "added" => t \notin queue /\ called # t
    /\ caller[t] = "added" => t \in queue \/ (called = t /\ Period[t] = 0)
    /\ called = t /\ Period[t] = 0 => t \notin queue

IInv == TypeOK /\ ThreadInv /\ QueueInv

(***************************************************************************)
(* The initial states, and one lemma for each action.                      *)
(***************************************************************************)

LEMMA InitHolds == Init => IInv
<1> SUFFICES ASSUME Init PROVE IInv
  OBVIOUS
<1>0. 0 \in Times
  BY TimerAssumption DEF Times
<1>1. TypeOK
  BY <1>0 DEF Init, TypeOK
<1>2. ThreadInv
  BY DEF Init, ThreadInv
<1>3. QueueInv
  BY TimerAssumption DEF Init, QueueInv
<1> QED BY <1>1, <1>2, <1>3 DEF IInv

LEMMA AddKeeps == ASSUME IInv, NEW t \in Tasks, Add(t) PROVE IInv'
<1> USE DEF IInv
<1>0. Delay[t] \in Times
  BY TimerAssumption DEF Times
<1>1. TypeOK'
  BY <1>0 DEF Add, TypeOK
<1>2. ThreadInv'
  BY DEF Add, ThreadInv
<1>3. QueueInv'
  BY DEF Add, QueueInv, TypeOK
<1> QED BY <1>1, <1>2, <1>3

LEMMA PushKeeps == ASSUME IInv, NEW t \in Tasks, Push(t) PROVE IInv'
<1> USE DEF IInv
<1>1. TypeOK'
  BY DEF Push, Notify, TypeOK
<1>2. ThreadInv'
  BY DEF Push, Notify, ThreadInv
<1>3. QueueInv'
  BY DEF Push, QueueInv, TypeOK
<1> QED BY <1>1, <1>2, <1>3

LEMMA OwnerKeeps ==
  ASSUME IInv, Start \/ Create \/ Stop \/ Clear \/ Join PROVE IInv'
<1> USE DEF IInv
<1>1. TypeOK'
  BY DEF Start, Create, Stop, Clear, Join, Notify, TypeOK
<1>2. ThreadInv'
  BY DEF Start, Create, Stop, Clear, Join, Notify, Free, ThreadInv, TypeOK
<1>3. QueueInv'
  BY DEF Start, Create, Stop, Clear, Join, QueueInv
<1> QED BY <1>1, <1>2, <1>3

LEMMA ThreadKeeps ==
  ASSUME IInv, Lock \/ Wait \/ Wake \/ Spurious \/ Leave PROVE IInv'
<1> USE DEF IInv
<1>1. TypeOK'
  BY DEF Lock, Wait, Wake, Spurious, Leave, TypeOK
<1>2. ThreadInv'
  BY DEF Lock, Wait, Wake, Spurious, Leave, ThreadInv, TypeOK
<1>3. QueueInv'
  BY DEF Lock, Wait, Wake, Spurious, Leave, QueueInv
<1> QED BY <1>1, <1>2, <1>3

(* A task is called when it is due: one period later is within the bound.  *)
LEMMA CallKeeps == ASSUME IInv, NEW t \in Tasks, Call(t) PROVE IInv'
<1> USE DEF IInv
<1>0. /\ 0 \in Times
      /\ due[t] + Period[t] \in Times
  BY TimerAssumption DEF Call, TypeOK, Times
<1>1. /\ due' \in [Tasks -> Times]
      /\ queue' \subseteq Tasks
  BY <1>0 DEF Call, TypeOK
<1>2. TypeOK'
  BY <1>1 DEF Call, TypeOK
<1>3. t # "nothing"
  BY TimerAssumption
<1>4. ThreadInv'
  BY <1>3 DEF Call, ThreadInv, TypeOK
<1>5. Period[t] \in Nat /\ called = "nothing"
  BY TimerAssumption DEF Call, ThreadInv
<1>6. QueueInv'
  <2> SUFFICES ASSUME NEW u \in Tasks
      PROVE /\ caller'[u] # "added" => u \notin queue' /\ called' # u
            /\ caller'[u] = "added" => u \in queue' \/ (called' = u /\ Period[u] = 0)
            /\ called' = u /\ Period[u] = 0 => u \notin queue'
    BY DEF QueueInv
  <2>1. CASE Period[t] > 0
    BY <2>1, <1>3, <1>5, TimerAssumption DEF Call, QueueInv, Top
  <2>2. CASE ~(Period[t] > 0)
    BY <2>2, <1>3, <1>5, TimerAssumption DEF Call, QueueInv, Top
  <2> QED BY <2>1, <2>2
<1> QED BY <1>2, <1>4, <1>6

LEMMA ReturnKeeps == ASSUME IInv, Return PROVE IInv'
<1> USE DEF IInv
<1>0. called \in Tasks /\ called # "nothing"
  BY DEF Return, TypeOK, ThreadInv
<1>1. TypeOK'
  BY <1>0 DEF Return, TypeOK
<1>2. ThreadInv'
  BY DEF Return, ThreadInv
<1>3. QueueInv'
  <2> SUFFICES ASSUME NEW u \in Tasks
      PROVE /\ caller'[u] # "added" => u \notin queue' /\ called' # u
            /\ caller'[u] = "added" => u \in queue' \/ (called' = u /\ Period[u] = 0)
            /\ called' = u /\ Period[u] = 0 => u \notin queue'
    BY DEF QueueInv
  <2>0. u # "nothing" /\ Period[u] \in Nat
    BY TimerAssumption
  <2>1. CASE u = called
    BY <2>1, <2>0, <1>0 DEF Return, QueueInv, TypeOK
  <2>2. CASE u # called
    BY <2>2, <2>0, <1>0 DEF Return, QueueInv, TypeOK
  <2> QED BY <2>1, <2>2
<1> QED BY <1>1, <1>2, <1>3

LEMMA TickKeeps == ASSUME IInv, Tick PROVE IInv'
<1> USE DEF IInv
<1>0. ASSUME NEW d \in Times, d > -MaxLate PROVE d - 1 \in Times
  BY <1>0, TimerAssumption DEF Times
<1>1. due' \in [Tasks -> Times]
  BY <1>0 DEF Tick, TypeOK
<1>2. TypeOK'
  BY <1>1 DEF Tick, TypeOK
<1>3. ThreadInv'
  BY DEF Tick, ThreadInv
<1>4. QueueInv'
  BY DEF Tick, QueueInv
<1> QED BY <1>2, <1>3, <1>4

LEMMA StutterKeeps == ASSUME IInv, UNCHANGED vars PROVE IInv'
  BY DEF vars, IInv, TypeOK, ThreadInv, QueueInv

LEMMA NextKeeps == ASSUME IInv, [Next]_vars PROVE IInv'
  BY AddKeeps, PushKeeps, OwnerKeeps, ThreadKeeps, CallKeeps, ReturnKeeps,
     TickKeeps, StutterKeeps
  DEF Next, ThreadStep
-----------------------------------------------------------------------------
(***************************************************************************)
(* Every state of every behaviour satisfies the invariant.                 *)
(***************************************************************************)
THEOREM Invariance == Spec => []IInv
  BY InitHolds, NextKeeps, PTL DEF Spec

(* Every variable has a value of its type, times bounded on both sides.    *)
THEOREM TypeCorrect == Spec => []TypeOK
<1>1. IInv => TypeOK
  BY DEF IInv
<1> QED BY <1>1, Invariance, PTL

(* After stop() no callback runs, and no thread is left.                   *)
THEOREM Quiet == Spec => []StoppedIsQuiet
<1>1. IInv => StoppedIsQuiet
  BY DEF IInv, ThreadInv, StoppedIsQuiet
<1> QED BY <1>1, Invariance, PTL

(* A task that was added stays queued until it is called.                  *)
THEOREM NoneLost == Spec => []NothingLost
<1>1. IInv => NothingLost
  BY DEF IInv, QueueInv, NothingLost
<1> QED BY <1>1, Invariance, PTL
=============================================================================
