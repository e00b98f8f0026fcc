---------------------------- MODULE ReactorProofs ----------------------------
(***************************************************************************)
(* Proofs about Reactor, for any number of clients, descriptors and        *)
(* signals, any request and any buffer: the inductive invariant IInv, and  *)
(* the safety properties that follow from it.                              *)
(***************************************************************************)
EXTENDS Reactor, SequenceLemmas

USE NamesAssumption, SizesAssumption

(* What is queued for closing are client descriptors.                      *)
LEMMA PendingFds == ASSUME TypeOK PROVE Pending \subseteq Fds
BY DEF TypeOK, Pending, Range

(* The invariant holds when the process starts.                            *)
LEMMA InitInv == ASSUME Init PROVE IInv
<1>1. TypeOK
  <2>1. pc \in Labels /\ signals \in 0 .. MaxSignals /\ resp \in [Conns -> Replies]
    BY DEF Init, Labels, Replies
  <2>2. channels \in [AllFds -> Conns \cup {Listener, None}] /\ pendingDelete \in Seq(Fds)
    BY DEF Init
  <2>3. /\ sent \in [Conns -> 0 .. ReqLen] /\ avail \in [Conns -> 0 .. ReqLen]
        /\ file \in [Fds -> Conns \cup {None}] /\ clientChannels \in [Fds -> Conns \cup {None}]
    BY DEF Init
  <2> QED BY <2>1, <2>2, <2>3 DEF Init, TypeOK
<1>2. Pending = {} /\ IsInjective(pendingDelete)
  BY DEF Init, Pending, Range, IsInjective
<1>3. PeerInv /\ MapInv /\ ThreadInv /\ ReplyInv /\ EveryDescriptorIsOwned /\ NoLostEdge
  BY <1>2 DEF Init, PeerInv, MapInv, RetiredOnce, ThreadInv, OnClient, Handling, ReplyInv,
              EveryDescriptorIsOwned, NoLostEdge, Free, AllFds
<1>4. RegisterInv
  BY DEF Init, RegisterInv, Orphan, AllFds
<1> QED BY <1>1, <1>3, <1>4 DEF IInv

(* A step that registers and clears nothing, and is not on its way to a    *)
(* registration, keeps what is known of registrations.                     *)
LEMMA RegisterSame ==
  ASSUME RegisterInv, UNCHANGED <<channels, interest, listening>>,
         loopRunning' => loopRunning,
         (pc' = pc /\ fresh' = fresh) \/ (pc # "watch" /\ pc' \notin {"add", "watch"})
  PROVE  RegisterInv'
BY DEF RegisterInv, Orphan

-----------------------------------------------------------------------------
(* The clients: they change what there is to read, and never what the      *)
(* server holds.                                                           *)
LEMMA ConnectKeeps ==
  ASSUME IInv, NEW c \in Conns, Connect(c)
  PROVE  IInv'
<1> USE DEF IInv, Connect, mapVars, localVars
<1>1. TypeOK'
  BY DEF TypeOK
<1>2. PeerInv' /\ MapInv' /\ ReplyInv' /\ EveryDescriptorIsOwned'
  BY DEF TypeOK, PeerInv, MapInv, RetiredOnce, Pending, Free, ReplyInv, EveryDescriptorIsOwned
<1>3. ThreadInv' /\ NoLostEdge'
  BY DEF ThreadInv, EventInv, OnClient, Pending, Free, Unhandled, NoLostEdge
<1>9. RegisterInv'
  BY RegisterSame
<1> QED BY <1>1, <1>2, <1>3, <1>9

LEMMA PeerSendsKeeps ==
  ASSUME IInv, NEW c \in Conns, PeerSends(c)
  PROVE  IInv'
<1> USE DEF IInv, PeerSends, mapVars, localVars
<1>1. PICK n \in 1 .. ReqLen - sent[c] :
        /\ sent' = [sent EXCEPT ![c] = @ + n]
        /\ avail' = [avail EXCEPT ![c] = @ + n]
  OBVIOUS
<1>2. TypeOK' /\ PeerInv'
  BY <1>1 DEF TypeOK, PeerInv, Free, Wake
<1>3. MapInv' /\ ReplyInv' /\ EveryDescriptorIsOwned'
  BY DEF Wake, MapInv, RetiredOnce, Pending, Free, ReplyInv, EveryDescriptorIsOwned
<1>4. ThreadInv'
  BY DEF ThreadInv, EventInv, OnClient, Pending, Free, Unhandled
<1>5. NoLostEdge'
  <2> SUFFICES ASSUME NEW f \in interest \cap Fds, f \notin ready', channels[f] # None,
                      file[f] \notin rst, avail'[file[f]] > 0 \/ file[f] \in fin
               PROVE  (\E e \in active : e.fd = f) \/ (OnClient /\ cur.fd = f)
    BY DEF NoLostEdge, OnClient
  <2>1. file[f] # c /\ f \notin ready
    BY DEF Wake
  <2>2. avail'[file[f]] = avail[file[f]]
    BY <1>1, <2>1 DEF TypeOK
  <2> QED BY <2>1, <2>2 DEF NoLostEdge
<1>9. RegisterInv'
  BY RegisterSame
<1> QED BY <1>2, <1>3, <1>4, <1>5, <1>9

LEMMA PeerFinishesKeeps ==
  ASSUME IInv, NEW c \in Conns, PeerFinishes(c)
  PROVE  IInv'
<1> USE DEF IInv, PeerFinishes, mapVars, localVars
<1>1. TypeOK' /\ PeerInv'
  BY DEF TypeOK, PeerInv, Free, Wake
<1>2. MapInv' /\ ReplyInv' /\ EveryDescriptorIsOwned'
  BY DEF Wake, MapInv, RetiredOnce, Pending, Free, ReplyInv, EveryDescriptorIsOwned
<1>3. ThreadInv'
  BY DEF ThreadInv, EventInv, OnClient, Pending, Free, Unhandled
<1>4. NoLostEdge'
  BY DEF NoLostEdge, OnClient, Wake
<1>9. RegisterInv'
  BY RegisterSame
<1> QED BY <1>1, <1>2, <1>3, <1>4, <1>9

LEMMA PeerResetsKeeps ==
  ASSUME IInv, NEW c \in Conns, PeerResets(c)
  PROVE  IInv'
<1> USE DEF IInv, PeerResets, mapVars, localVars
<1>1. TypeOK' /\ PeerInv'
  BY DEF TypeOK, PeerInv, Free, Wake
<1>2. MapInv' /\ ReplyInv' /\ EveryDescriptorIsOwned'
  BY DEF Wake, MapInv, RetiredOnce, Pending, Free, ReplyInv, EveryDescriptorIsOwned
<1>3. ThreadInv'
  BY DEF ThreadInv, EventInv, OnClient, Pending, Free, Unhandled
<1>4. NoLostEdge'
  BY DEF NoLostEdge, OnClient, Wake
<1>9. RegisterInv'
  BY RegisterSame
<1> QED BY <1>1, <1>2, <1>3, <1>4, <1>9

-----------------------------------------------------------------------------
(* Steps of the thread that change neither the connections, nor the        *)
(* descriptors, nor the maps.                                              *)
LEMMA SameDataKeeps ==
  ASSUME IInv, UNCHANGED <<peerVars, kernelVars, mapVars, resp>>
  PROVE  PeerInv' /\ MapInv' /\ ReplyInv' /\ Pending' = Pending
BY DEF IInv, peerVars, kernelVars, mapVars, PeerInv, MapInv, RetiredOnce, Pending, Free, ReplyInv

(* The steps outside a batch: from main() to the loop and around it.       *)
LEMMA AroundKeeps ==
  ASSUME IInv, Publish \/ EnterLoop \/ LoopTest \/ BatchDone \/ CleanupDone \/ SignalTooEarly
  PROVE  IInv'
<1> USE DEF IInv, Publish, EnterLoop, LoopTest, BatchDone, CleanupDone, SignalTooEarly, Step,
            peerVars, kernelVars, mapVars, localVars
<1>1. PeerInv' /\ MapInv' /\ ReplyInv' /\ Pending' = Pending
  BY SameDataKeeps
<1>2. TypeOK'
  <2>1. pc' \in Labels
    BY DEF TypeOK, Labels, InLoop
  <2>2. loopRunning' \in BOOLEAN
    BY DEF TypeOK
  <2>3. signals' \in 0 .. MaxSignals
    <3>1. signals \in 0 .. MaxSignals
      BY DEF TypeOK
    <3>2. signals' = signals \/ (signals < MaxSignals /\ signals' = signals + 1)
      OBVIOUS
    <3> QED BY <3>1, <3>2
  <2> QED BY <2>1, <2>2, <2>3 DEF TypeOK
<1>3. ThreadInv'
  BY <1>1 DEF ThreadInv, Handling, EventInv, OnClient, Unhandled, Free
<1>4. EveryDescriptorIsOwned'
  BY <1>1 DEF ThreadInv, EveryDescriptorIsOwned, Free
<1>5. NoLostEdge'
  BY DEF NoLostEdge, OnClient, Handling
<1>6. RegisterInv'
  <2>1. CASE EnterLoop
    <3>1. \A f \in Fds : ~Orphan(f)
      BY <2>1 DEF MapInv, ThreadInv, Orphan
    <3>2. \A f \in Fds : ~Orphan(f)'
      BY <2>1, <3>1 DEF Orphan
    <3> QED BY <2>1, <3>2 DEF RegisterInv
  <2>2. CASE ~EnterLoop
    <3>1. loopRunning' = loopRunning /\ pc # "watch" /\ pc' \notin {"add", "watch"}
      BY <2>2
    <3> QED BY <3>1, RegisterSame
  <2> QED BY <2>1, <2>2
<1> QED BY <1>1, <1>2, <1>3, <1>4, <1>5, <1>6

LEMMA StartKeeps ==
  ASSUME IInv, Start \/ AddListenFd
  PROVE  IInv'
<1> USE DEF IInv, Start, AddListenFd, Step, peerVars, kernelVars, mapVars, localVars
<1>1. TypeOK'
  BY DEF TypeOK, AllFds, Labels
<1>2. \A f \in Fds : channels'[f] = channels[f] /\ (f \in interest' <=> f \in interest)
  BY DEF TypeOK, AllFds
<1>6. \A f \in Fds : ~Orphan(f) /\ ~Orphan(f)' /\ channels'[f] = None
  BY <1>2 DEF MapInv, ThreadInv, Orphan, Free
<1>7. RegisterInv'
  BY <1>6 DEF RegisterInv
<1>3. MapInv'
  BY <1>2, PendingFds DEF MapInv, RetiredOnce, Pending, Free
<1>4. PeerInv' /\ ReplyInv' /\ EveryDescriptorIsOwned'
  BY <1>2 DEF PeerInv, ReplyInv, EveryDescriptorIsOwned, Pending, Free
<1>5. ThreadInv' /\ NoLostEdge'
  BY <1>2 DEF ThreadInv, Handling, EventInv, OnClient, Unhandled, Free, Pending, NoLostEdge
<1> QED BY <1>1, <1>3, <1>4, <1>5, <1>7

-----------------------------------------------------------------------------
(* Taking events and dispatching them.                                     *)

(* What epoll reports is an event of the connection its descriptor refers  *)
(* to now.                                                                 *)
LEMMA ReadyEventsFacts ==
  ASSUME IInv, NEW e \in ReadyEvents
  PROVE  /\ e \in Event /\ EventInv(e)
         /\ e.fd # Lfd => e.fd \in ready
<1>1. CASE e.fd = Lfd
  <2>1. e = [fd |-> Lfd, of |-> Listener, mask |-> {"IN"}]
    BY <1>1 DEF ReadyEvents, IInv, TypeOK
  <2> QED BY <2>1 DEF Event, AllFds, Flags, EventInv, Unhandled
<1>2. CASE e.fd # Lfd
  <2>1. PICK f \in ready : e = [fd |-> f, of |-> file[f], mask |-> Poll(file[f])]
    BY <1>2 DEF ReadyEvents
  <2>2. f \in Fds /\ file[f] \in Conns
    BY <2>1 DEF IInv, TypeOK, MapInv, Free
  <2>3. Poll(file[f]) \subseteq Flags
    BY DEF Poll, Flags
  <2>4. Unhandled(e) => file[f] \in rst
    BY <2>1 DEF Unhandled, Poll
  <2> QED BY <2>1, <2>2, <2>3, <2>4 DEF Event, AllFds, EventInv
<1> QED BY <1>1, <1>2

LEMMA EpollWaitKeeps ==
  ASSUME IInv, EpollWait
  PROVE  IInv'
<1> USE DEF IInv, EpollWait, Step, peerVars, mapVars
<1>1. PICK batch \in SUBSET ReadyEvents : active' = batch /\ ready' = ready \ {e.fd : e \in batch}
  OBVIOUS
<1>2. \A e \in batch : e \in Event /\ EventInv(e) /\ EventInv(e)'
  BY ReadyEventsFacts DEF EventInv
<1>3. TypeOK'
  BY <1>1, <1>2 DEF TypeOK, Labels, InLoop
<1>4. PeerInv' /\ MapInv' /\ ReplyInv' /\ EveryDescriptorIsOwned'
  BY <1>1 DEF PeerInv, MapInv, RetiredOnce, Pending, Free, ReplyInv, EveryDescriptorIsOwned
<1>5. ThreadInv'
  BY <1>1, <1>2 DEF ThreadInv, Handling, OnClient, Pending, Free
<1>6. NoLostEdge'
  BY <1>1 DEF ThreadInv, NoLostEdge, OnClient, Handling
<1>7. RegisterInv'
  BY RegisterSame
<1> QED BY <1>3, <1>4, <1>5, <1>6, <1>7

LEMMA FindChannelKeeps ==
  ASSUME IInv, FindChannel
  PROVE  IInv'
<1> USE DEF IInv, FindChannel
<1>1. PICK e \in active :
        /\ active' = active \ {e}
        /\ IF channels[e.fd] = None
             THEN UNCHANGED <<cur, pc>>
             ELSE cur' = e /\ pc' = "found"
  OBVIOUS
<1>2. PeerInv' /\ MapInv' /\ ReplyInv' /\ Pending' = Pending
  BY SameDataKeeps
<1>3. e \in Event /\ EventInv(e) /\ e # None
  BY DEF TypeOK, ThreadInv, Event
<1>4. TypeOK'
  BY <1>1, <1>3 DEF TypeOK, Labels, InLoop, Handling, peerVars, kernelVars, mapVars
<1>5. ThreadInv'
  <2>1. \A d : EventInv(d)' <=> EventInv(d)
    BY DEF EventInv, kernelVars, peerVars
  <2>2. CASE channels[e.fd] = None
    BY <1>1, <1>2, <2>1, <2>2 DEF ThreadInv, Handling, OnClient, Free, kernelVars, mapVars
  <2>3. CASE channels[e.fd] # None
    <3>1. e.fd # Lfd => e.fd \in Fds /\ e.fd \notin Pending
      BY <1>3, <2>3 DEF MapInv, Event, AllFds
    <3> QED
      BY <1>1, <1>2, <1>3, <2>1, <2>3, <3>1 DEF ThreadInv, Handling, OnClient, Free, kernelVars, mapVars
  <2> QED BY <2>2, <2>3
<1>6. EveryDescriptorIsOwned'
  BY <1>2 DEF EveryDescriptorIsOwned, Free, kernelVars, mapVars
<1>7. NoLostEdge'
  <2> SUFFICES ASSUME NEW f \in interest \cap Fds, f \notin ready, channels[f] # None,
                      file[f] \notin rst, avail[file[f]] > 0 \/ file[f] \in fin
               PROVE  (\E d \in active' : d.fd = f) \/ (OnClient' /\ cur'.fd = f)
    BY DEF NoLostEdge, peerVars, kernelVars, mapVars
  <2>1. PICK d \in active : d.fd = f
    BY DEF NoLostEdge, OnClient, Handling
  <2>2. CASE d = e
    <3>1. channels[e.fd] # None /\ f # Lfd
      BY <2>1, <2>2
    <3> QED BY <1>1, <2>1, <2>2, <3>1 DEF OnClient, Handling
  <2> QED BY <1>1, <2>1, <2>2
<1>8. RegisterInv'
  BY <1>1, RegisterSame DEF kernelVars, mapVars
<1> QED BY <1>2, <1>4, <1>5, <1>6, <1>7, <1>8

(* The steps from the channel to its callback, and back to the loop.       *)
LEMMA CallbackKeeps ==
  ASSUME IInv, HandleEvent \/ AcceptFails \/ RecvWouldBlock \/ Handled
  PROVE  IInv'
<1> USE DEF IInv, HandleEvent, AcceptFails, RecvWouldBlock, Handled, Step
<1>1. PeerInv' /\ MapInv' /\ ReplyInv' /\ Pending' = Pending
  BY SameDataKeeps
<1>2. TypeOK'
  BY DEF TypeOK, Labels, InLoop, Handling, peerVars, kernelVars, mapVars, localVars
<1>3. ThreadInv'
  <2>1. \A d : EventInv(d)' <=> EventInv(d)
    BY DEF EventInv, kernelVars, peerVars
  <2>2. CASE HandleEvent
    BY <1>1, <2>1, <2>2 DEF ThreadInv, Handling, OnClient, EventInv, Free, peerVars, kernelVars, mapVars, localVars
  <2>3. CASE AcceptFails \/ RecvWouldBlock
    BY <1>1, <2>1, <2>3 DEF ThreadInv, Handling, OnClient, Free, kernelVars, mapVars, localVars
  <2>4. CASE Handled
    BY <1>1, <2>1, <2>4 DEF ThreadInv, Handling, OnClient, Free, kernelVars, mapVars
  <2> QED BY <2>2, <2>3, <2>4
<1>4. EveryDescriptorIsOwned'
  <2>1. UNCHANGED <<loopRunning, file, channels, fresh>>
    BY DEF kernelVars, mapVars, localVars
  <2> QED BY <1>1, <2>1 DEF EveryDescriptorIsOwned, Free
<1>5. NoLostEdge'
  <2>1. CASE Handled
    <3> SUFFICES ASSUME NEW f \in interest \cap Fds, f \notin ready, channels[f] # None,
                        file[f] \notin rst, avail[file[f]] > 0 \/ file[f] \in fin
                 PROVE  \E e \in active : e.fd = f
      BY <2>1 DEF NoLostEdge, peerVars, kernelVars, mapVars
    <3>1. ~(OnClient /\ cur.fd = f)
      BY <2>1 DEF ThreadInv, MapInv
    <3> QED BY <3>1 DEF NoLostEdge
  <2>2. CASE HandleEvent \/ AcceptFails \/ RecvWouldBlock
    BY <2>2 DEF NoLostEdge, OnClient, Handling, ThreadInv, peerVars, kernelVars, mapVars, localVars
  <2> QED BY <2>1, <2>2
<1>6. RegisterInv'
  BY RegisterSame DEF kernelVars, mapVars
<1> QED BY <1>1, <1>2, <1>3, <1>4, <1>5, <1>6

-----------------------------------------------------------------------------
(* New connections.                                                        *)
LEMMA AcceptConnectionKeeps ==
  ASSUME IInv, AcceptConnection
  PROVE  IInv'
<1> USE DEF IInv, AcceptConnection, Step, peerVars
<1>1. PICK c \in backlog, f \in Fds :
        /\ Free(f)
        /\ backlog' = backlog \ {c}
        /\ file' = [file EXCEPT ![f] = c]
        /\ clientChannels' = [clientChannels EXCEPT ![f] = c]
        /\ fresh' = f
  OBVIOUS
<1>2. c \in Conns /\ c # None /\ f # None /\ f # Lfd
  BY DEF TypeOK
<1>3. TypeOK'
  BY <1>1, <1>2 DEF TypeOK, Labels, InLoop
<1>4. f \notin Pending /\ channels[f] = None /\ f \notin interest
  BY <1>1, <1>2 DEF MapInv, RetiredOnce, RegisterInv, ThreadInv, Free
<1>5. \A g \in Fds : file'[g] = IF g = f THEN c ELSE file[g]
  BY <1>1 DEF TypeOK
<1>6. PeerInv'
  BY <1>1, <1>2, <1>5 DEF PeerInv, Free
<1>7. MapInv'
  BY <1>1, <1>2, <1>4, <1>5, PendingFds DEF MapInv, RetiredOnce, Pending, Free
<1>8. ASSUME NEW e \in Event, EventInv(e)
      PROVE  EventInv(e)'
  BY <1>1, <1>5, <1>8 DEF EventInv, Unhandled, Event, AllFds, Free
<1>9. ThreadInv'
  BY <1>1, <1>2, <1>4, <1>5, <1>8
     DEF TypeOK, ThreadInv, Handling, OnClient, Pending, Free
<1>10. ReplyInv'
  BY <1>1, <1>5 DEF ReplyInv, Pending
<1>11. EveryDescriptorIsOwned'
  BY <1>1, <1>5 DEF ThreadInv, EveryDescriptorIsOwned, Pending, Free
<1>12. NoLostEdge'
  BY <1>4, <1>5 DEF NoLostEdge, OnClient, Handling
<1>13. RegisterInv'
  <2>1. \A g \in Fds : ~Orphan(g) /\ ~Orphan(g)'
    BY DEF RegisterInv, Orphan
  <2> QED BY <2>1 DEF RegisterInv
<1> QED BY <1>3, <1>6, <1>7, <1>9, <1>10, <1>11, <1>12, <1>13

(* The first half of addChannel(): the channel is stored.                  *)
LEMMA AddChannelKeeps ==
  ASSUME IInv, AddChannel
  PROVE  IInv'
<1> USE DEF IInv, AddChannel, Step, peerVars, kernelVars, localVars
<1>1. /\ fresh \in Fds /\ fresh # Lfd /\ file[fresh] \in Conns /\ file[fresh] # None
      /\ fresh \notin Pending \cup interest
  BY DEF TypeOK, ThreadInv, Free
<1>2. TypeOK'
  BY <1>1 DEF TypeOK, AllFds, Labels, InLoop
<1>3. \A g \in Fds : channels'[g] = IF g = fresh THEN file[fresh] ELSE channels[g]
  BY <1>1 DEF TypeOK, AllFds
<1>4. PeerInv' /\ ReplyInv'
  BY DEF PeerInv, ReplyInv, Pending, Free
<1>5. MapInv'
  BY <1>1, <1>3, PendingFds DEF MapInv, RetiredOnce, Pending, Free
<1>6. ThreadInv'
  BY DEF ThreadInv, Handling, OnClient, Pending, Free, EventInv, Unhandled
<1>7. EveryDescriptorIsOwned'
  BY <1>1, <1>3 DEF EveryDescriptorIsOwned, Pending, Free
<1>8. NoLostEdge'
  BY <1>1, <1>3 DEF NoLostEdge, OnClient, Handling
<1>9. RegisterInv'
  <2>1. \A g \in Fds : ~Orphan(g)
    BY DEF RegisterInv
  <2>2. \A g \in Fds : ~Orphan(g)'
    BY <1>1, <1>3, <2>1 DEF Orphan
  <2> QED BY <1>1, <1>3, <2>2 DEF RegisterInv
<1> QED BY <1>2, <1>4, <1>5, <1>6, <1>7, <1>8, <1>9

(* The second half: epoll is told, also of a descriptor whose channel a    *)
(* signal has taken away.                                                  *)
LEMMA AddFdKeeps ==
  ASSUME IInv, AddFd
  PROVE  IInv'
<1> USE DEF IInv, AddFd, Step, peerVars, mapVars
<1>1. /\ fresh \in Fds /\ fresh # Lfd /\ ~Free(fresh) /\ fresh \notin Pending
      /\ channels[fresh] # None \/ (~loopRunning /\ ~listening /\ interest \cap Fds = {})
  BY DEF TypeOK, ThreadInv, RegisterInv
<1>2. TypeOK'
  BY <1>1 DEF TypeOK, AllFds, Labels, InLoop
<1>3. PeerInv' /\ ReplyInv'
  BY DEF PeerInv, ReplyInv, Pending, Free
<1>4. MapInv'
  BY <1>1, PendingFds DEF MapInv, RetiredOnce, Pending, Free
<1>5. ThreadInv'
  BY DEF ThreadInv, Handling, OnClient, Pending, Free, EventInv, Unhandled
<1>6. EveryDescriptorIsOwned'
  BY <1>1 DEF EveryDescriptorIsOwned, Pending, Free
<1>7. NoLostEdge'
  <2>1. file[fresh] \in fin \/ avail[file[fresh]] > 0 => Poll(file[fresh]) # {}
    BY DEF Poll
  <2> QED BY <2>1 DEF NoLostEdge, OnClient, Handling
<1>8. RegisterInv'
  <2>1. \A g \in Fds : ~Orphan(g)
    BY DEF RegisterInv
  <2>2. \A g \in Fds : Orphan(g)' => g = fresh /\ channels[fresh] = None
    BY <2>1 DEF Orphan
  <2>3. \A g \in Fds : channels[g] # None => g \in interest'
    BY DEF RegisterInv
  <2> QED BY <1>1, <2>2, <2>3 DEF RegisterInv
<1> QED BY <1>2, <1>3, <1>4, <1>5, <1>6, <1>7, <1>8

-----------------------------------------------------------------------------
(* The client's callback.                                                  *)

(* What handleClientEvent() may rely on: its descriptor is open, watched   *)
(* by nobody else, and not yet given up, and it has not answered.          *)
LEMMA PeerFacts ==
  ASSUME IInv, pc \in {"recv", "parse"}
  PROVE  /\ cur \in Event /\ cur.fd \in Fds /\ cur.fd # Lfd
         /\ Peer = cur.of /\ Peer \in Conns /\ Peer \in opened \ backlog
         /\ cur.fd \notin Pending
         /\ resp[Peer] = "none"
<1>1. cur # None /\ cur.fd # Lfd /\ cur.fd \notin Pending /\ EventInv(cur)
  BY DEF IInv, ThreadInv, OnClient, Handling
<1>2. cur \in Event
  BY <1>1 DEF IInv, TypeOK
<1>3. cur.fd \in Fds /\ cur.of \in Conns \cup {Listener}
  BY <1>1, <1>2 DEF Event, AllFds
<1>4. Peer = cur.of
  BY <1>1 DEF EventInv, Peer
<1>5. Peer \in Conns /\ ~Free(cur.fd)
  BY <1>3, <1>4 DEF IInv, TypeOK, Peer, Free
<1>6. Peer \in opened \ backlog
  BY <1>3, <1>5 DEF IInv, PeerInv, Peer
<1>7. resp[Peer] = "none"
  BY <1>1, <1>3, <1>5 DEF IInv, ReplyInv, Peer
<1> QED BY <1>1, <1>2, <1>3, <1>4, <1>5, <1>6, <1>7

LEMMA RecvDataKeeps ==
  ASSUME IInv, RecvData
  PROVE  IInv'
<1> USE DEF IInv, RecvData, kernelVars, mapVars
<1>1. Peer \in Conns /\ cur.fd # Lfd /\ cur.fd \in Fds /\ file[cur.fd] = Peer
  BY PeerFacts DEF Peer
<1> DEFINE n == IF avail[Peer] < BufSize THEN avail[Peer] ELSE BufSize
<1>2. /\ n \in Nat /\ n <= avail[Peer]
      /\ avail' = [avail EXCEPT ![Peer] = @ - n] /\ got' = got + n
      /\ pc' \in {"recv", "parse"}
  BY <1>1 DEF TypeOK
<1> HIDE DEF n
<1>3. /\ avail' \in [Conns -> 0 .. ReqLen]
      /\ \A c \in Conns : avail'[c] <= avail[c] /\ (c # Peer => avail'[c] = avail[c])
  BY <1>1, <1>2 DEF TypeOK
<1>4. TypeOK'
  BY <1>2, <1>3 DEF TypeOK, Labels, InLoop, Handling
<1>5. PeerInv'
  BY <1>3 DEF TypeOK, PeerInv, Free
<1>6. MapInv' /\ ReplyInv' /\ EveryDescriptorIsOwned'
  BY DEF MapInv, RetiredOnce, Pending, Free, ReplyInv, EveryDescriptorIsOwned
<1>7. ThreadInv'
  BY <1>1, <1>2 DEF ThreadInv, Handling, OnClient, Pending, Free, EventInv, Unhandled
<1>8. NoLostEdge'
  <2> SUFFICES ASSUME NEW f \in interest \cap Fds, f \notin ready, f # cur.fd, channels[f] # None,
                      file[f] \notin rst, avail'[file[f]] > 0 \/ file[f] \in fin
               PROVE  \E e \in active : e.fd = f
    BY <1>1, <1>2 DEF NoLostEdge, OnClient, Handling
  <2>1. file[f] # Peer /\ file[f] \in Conns
    BY <1>1 DEF PeerInv, TypeOK, Free, MapInv
  <2> QED BY <1>3, <2>1 DEF NoLostEdge
<1>9. RegisterInv'
  BY <1>2, RegisterSame
<1> QED BY <1>4, <1>5, <1>6, <1>7, <1>8, <1>9

(* Every way out of the callback gives the connection up.                  *)
LEMMA RetireKeeps ==
  ASSUME IInv, RecvClosed \/ BadRequest \/ RouteRequest
  PROVE  IInv'
<1> DEFINE f == cur.fd
<1>1. /\ pc \in {"recv", "parse"} /\ pc' = "handled" /\ Retire(f)
      /\ UNCHANGED <<peerVars, loopRunning, localVars, signals>>
  BY DEF RecvClosed, BadRequest, RouteRequest, Step
<1>2. /\ f \in Fds /\ f # Lfd /\ Peer \in Conns /\ file[f] = Peer /\ f \notin Pending
      /\ Peer \in opened \ backlog
  BY <1>1, PeerFacts DEF Peer
<1>3. /\ resp' \in [Conns -> Replies]
      /\ \A c \in Conns : c # Peer => resp'[c] = resp[c]
  <2>1. CASE RecvClosed
    BY <2>1 DEF RecvClosed, IInv, TypeOK
  <2>2. CASE BadRequest \/ RouteRequest
    <3>1. PICK r \in Replies : resp' = [resp EXCEPT ![Peer] = r]
      BY <2>2 DEF BadRequest, RouteRequest, Send, Replies
    <3> QED BY <1>2, <3>1 DEF IInv, TypeOK
  <2> QED BY <2>1, <2>2
<1> HIDE DEF f
<1>4. /\ pendingDelete' \in Seq(Fds) /\ Pending' = Pending \cup {f}
      /\ IsInjective(pendingDelete)'
  <2>1. pendingDelete \in Seq(Fds) /\ IsInjective(pendingDelete)
    BY DEF IInv, TypeOK, MapInv, RetiredOnce
  <2> QED BY <1>1, <1>2, <2>1, AppendRange DEF Retire, Pending
<1>5. \A g \in Fds : channels'[g] = IF g = f THEN None ELSE channels[g]
  BY <1>1, <1>2 DEF IInv, TypeOK, Retire, AllFds
<1> USE DEF IInv, Retire, peerVars, localVars
<1>6. TypeOK'
  BY <1>1, <1>2, <1>3, <1>4 DEF TypeOK, AllFds, Labels, InLoop, Handling
<1>7. PeerInv'
  BY <1>1 DEF PeerInv, Free
<1>8. MapInv'
  BY <1>1, <1>2, <1>4, <1>5, PendingFds DEF TypeOK, MapInv, RetiredOnce, Free
<1>9. ThreadInv'
  BY <1>1, <1>4 DEF ThreadInv, Handling, OnClient, Free, EventInv, Unhandled, f
<1>10. ReplyInv'
  BY <1>1, <1>2, <1>3, <1>4 DEF ReplyInv, PeerInv, Free
<1>11. EveryDescriptorIsOwned'
  BY <1>1, <1>4, <1>5 DEF EveryDescriptorIsOwned, Free
<1>12. NoLostEdge'
  BY <1>1, <1>5 DEF NoLostEdge, OnClient, Handling, f
<1>13. RegisterInv'
  <2>1. \A g \in Fds : Orphan(g)' => Orphan(g)
    BY <1>1, <1>5 DEF Orphan
  <2>2. pc # "watch" /\ pc' \notin {"add", "watch"}
    BY <1>1
  <2>3. \A g \in Fds : channels'[g] # None => g \in interest'
    BY <1>1, <1>5, <2>2 DEF RegisterInv
  <2>4. \A g \in Fds : Orphan(g)' => interest' \cap Fds = {g}
    BY <1>1, <2>1 DEF RegisterInv, Orphan
  <2> QED BY <1>1, <2>1, <2>2, <2>3, <2>4 DEF RegisterInv
<1> QED BY <1>6, <1>7, <1>8, <1>9, <1>10, <1>11, <1>12, <1>13

-----------------------------------------------------------------------------
(* Closing, signals, and the end of the process.                           *)
LEMMA CleanupOneKeeps ==
  ASSUME IInv, CleanupOne
  PROVE  IInv'
<1> DEFINE f == Head(pendingDelete)
<1>1. /\ pendingDelete' \in Seq(Fds) /\ f \in Fds /\ f \in Pending
      /\ Pending' = Pending \ {f} /\ IsInjective(pendingDelete)'
  <2>1. pendingDelete \in Seq(Fds) /\ IsInjective(pendingDelete) /\ pendingDelete # <<>>
    BY DEF IInv, TypeOK, MapInv, RetiredOnce, CleanupOne
  <2> QED BY <2>1, TailRange DEF CleanupOne, Pending
<1>2. CloseFd(f)
  BY DEF CleanupOne
<1> HIDE DEF f
<1> USE DEF IInv, CleanupOne, CloseFd, peerVars, localVars
<1>3. /\ channels[f] = None
      /\ \A g \in Fds : file'[g] = IF g = f THEN None ELSE file[g]
  BY <1>1, <1>2 DEF TypeOK, MapInv, RetiredOnce
<1>4. TypeOK'
  BY <1>1, <1>2 DEF TypeOK
<1>5. PeerInv' /\ ReplyInv'
  BY <1>1, <1>3 DEF TypeOK, PeerInv, ReplyInv, Free
<1>6. MapInv'
  BY <1>1, <1>2, <1>3, PendingFds DEF MapInv, RetiredOnce, Free
<1>7. ThreadInv'
  BY DEF ThreadInv, Handling, OnClient
<1>8. EveryDescriptorIsOwned'
  BY <1>1, <1>3 DEF EveryDescriptorIsOwned, Free
<1>9. NoLostEdge'
  BY <1>2, <1>3 DEF NoLostEdge, OnClient, Handling
<1>10. RegisterInv'
  <2>1. \A g \in Fds : Orphan(g)' => Orphan(g) /\ interest' \cap Fds = {g}
    BY <1>2 DEF RegisterInv, Orphan
  <2>2. \A g \in Fds : channels[g] # None => g \in interest'
    BY <1>2, <1>3 DEF RegisterInv
  <2> QED BY <2>1, <2>2 DEF RegisterInv
<1> QED BY <1>4, <1>5, <1>6, <1>7, <1>8, <1>9, <1>10

LEMMA SignalKeeps ==
  ASSUME IInv, Signal
  PROVE  IInv'
<1> USE DEF IInv, Signal, Stop, peerVars, localVars
<1>1. \A f \in Fds : channels'[f] = None /\ file'[f] = file[f]
  BY DEF AllFds
<1>2. TypeOK'
  <2>1. signals' \in 0 .. MaxSignals
    <3>1. signals \in 0 .. MaxSignals /\ signals < MaxSignals /\ signals' = signals + 1
      BY DEF TypeOK
    <3> QED BY <3>1
  <2>2. channels' \in [AllFds -> Conns \cup {Listener, None}]
    OBVIOUS
  <2> QED BY <2>1, <2>2 DEF TypeOK
<1>3. /\ interest' \cap Fds = {f \in Fds : Orphan(f)}
      /\ ready' \subseteq interest'
  BY DEF TypeOK, MapInv, AllFds, Orphan
<1>4. MapInv'
  BY <1>1, <1>3, PendingFds DEF MapInv, RetiredOnce, Pending, Free, Orphan
<1>7. RegisterInv'
  <2>1. \A f \in Fds : Orphan(f)' => Orphan(f) /\ interest' \cap Fds = {f}
    BY <1>3 DEF RegisterInv, Orphan
  <2>2. pc = "watch" => interest' \cap Fds = {}
    BY <1>3 DEF RegisterInv
  <2> QED BY <1>1, <2>1, <2>2 DEF RegisterInv
<1>5. PeerInv' /\ ReplyInv' /\ EveryDescriptorIsOwned' /\ NoLostEdge'
  BY <1>1 DEF PeerInv, ReplyInv, EveryDescriptorIsOwned, NoLostEdge, Pending, Free
<1>6. ThreadInv'
  BY <1>1 DEF TypeOK, ThreadInv, OnClient, Pending, Free, EventInv, Unhandled
<1> QED BY <1>2, <1>4, <1>5, <1>6, <1>7

LEMMA ProcessEndsKeeps ==
  ASSUME IInv, NEW label \in Stopped, ProcessEnds(label)
  PROVE  IInv'
<1> USE DEF IInv, ProcessEnds, peerVars
<1>1. Pending' = {} /\ IsInjective(pendingDelete)' /\ pendingDelete' \in Seq(Fds)
  BY DEF Pending, Range, IsInjective
<1>2. channels' \in [AllFds -> Conns \cup {Listener, None}] /\ pc' \in Labels
  BY DEF Labels
<1>3. TypeOK'
  BY <1>1, <1>2 DEF TypeOK
<1>4. PeerInv' /\ ReplyInv' /\ EveryDescriptorIsOwned' /\ NoLostEdge'
  BY <1>1 DEF PeerInv, ReplyInv, EveryDescriptorIsOwned, NoLostEdge, Free
<1>5. MapInv'
  BY <1>1 DEF MapInv, RetiredOnce, Free, AllFds
<1>6. ThreadInv'
  BY DEF Stopped, ThreadInv, Handling, OnClient
<1>7. RegisterInv'
  BY DEF RegisterInv, Orphan, Stopped, AllFds
<1> QED BY <1>3, <1>4, <1>5, <1>6, <1>7

-----------------------------------------------------------------------------
(* Every step keeps the invariant.                                         *)
LEMMA NextKeeps ==
  ASSUME IInv, [Next]_vars
  PROVE  IInv'
<1>1. CASE Clients
  BY <1>1, ConnectKeeps, PeerSendsKeeps, PeerFinishesKeeps, PeerResetsKeeps DEF Clients
<1>2. CASE Publish \/ EnterLoop \/ LoopTest \/ BatchDone \/ CleanupDone \/ SignalTooEarly
  BY <1>2, AroundKeeps
<1>3. CASE HandleEvent \/ AcceptFails \/ RecvWouldBlock \/ Handled
  BY <1>3, CallbackKeeps
<1>4. CASE RecvClosed \/ BadRequest \/ RouteRequest
  BY <1>4, RetireKeeps
<1>5. CASE Start \/ AddListenFd \/ EpollWait \/ FindChannel
  BY <1>5, StartKeeps, EpollWaitKeeps, FindChannelKeeps
<1>6. CASE AcceptConnection \/ AddChannel \/ AddFd \/ RecvData \/ CleanupOne \/ Signal
  BY <1>6, AcceptConnectionKeeps, AddChannelKeeps, AddFdKeeps, RecvDataKeeps, CleanupOneKeeps, SignalKeeps
<1>7. CASE Exit \/ HandlerThrows \/ BrokenPipe \/ StaleIterator
  BY <1>7, ProcessEndsKeeps DEF Exit, HandlerThrows, BrokenPipe, StaleIterator, Stopped
<1>8. CASE UNCHANGED vars
  <2>1. UNCHANGED <<peerVars, kernelVars, mapVars, loopRunning, pc, localVars, signals, resp>>
    BY <1>8 DEF vars
  <2>2. PeerInv' /\ MapInv' /\ ReplyInv' /\ Pending' = Pending
    BY <2>1, SameDataKeeps
  <2>3. TypeOK'
    BY <2>1 DEF IInv, TypeOK, peerVars, kernelVars, mapVars, localVars
  <2>4. ThreadInv'
    BY <2>1, <2>2 DEF IInv, ThreadInv, OnClient, EventInv, Unhandled, Free,
                      peerVars, kernelVars, mapVars, localVars
  <2>5. EveryDescriptorIsOwned' /\ NoLostEdge'
    BY <2>1, <2>2 DEF IInv, EveryDescriptorIsOwned, NoLostEdge, OnClient, Free,
                      peerVars, kernelVars, mapVars, localVars
  <2>6. RegisterInv'
    BY <2>1, RegisterSame DEF IInv, kernelVars, mapVars, localVars
  <2> QED BY <2>2, <2>3, <2>4, <2>5, <2>6 DEF IInv
<1> QED
  BY <1>1, <1>2, <1>3, <1>4, <1>5, <1>6, <1>7, <1>8 DEF Next, LoopThread, Terminated

(* IInv is an invariant of the server.                                     *)
THEOREM Invariance == Spec => []IInv
BY InitInv, NextKeeps, PTL DEF Spec

(* Every variable keeps its type.                                          *)
THEOREM TypeCorrect == Spec => []TypeOK
<1>1. IInv => TypeOK
  BY DEF IInv
<1> QED BY <1>1, Invariance, PTL

(* Nothing takes the Channel of the connection being served away while its *)
(* callback runs or handleEvent() still uses it, neither a close in the    *)
(* same batch nor a signal.                                                *)
THEOREM ChannelAlive == Spec => []CallbackChannelAlive
<1>1. IInv => CallbackChannelAlive
  BY DEF IInv, MapInv, ThreadInv, EventInv, OnClient, CallbackChannelAlive
<1> QED BY <1>1, Invariance, PTL

(* The maps of the loop, of the server and of epoll agree on who owns each *)
(* descriptor, but for the one a signal met between its two registrations: *)
(* that one is watched without a channel, and it alone.                    *)
THEOREM OneOwner == Spec => []OneOwnerPerDescriptor
<1>1. IInv => OneOwnerPerDescriptor
  BY DEF IInv, MapInv, RegisterInv, Orphan, OneOwnerPerDescriptor
<1> QED BY <1>1, Invariance, PTL

(* No descriptor is closed twice, or closed while the loop watches it.     *)
THEOREM ClosedOnce == Spec => []RetiredOnce
<1>1. IInv => RetiredOnce
  BY DEF IInv, MapInv
<1> QED BY <1>1, Invariance, PTL

(* While the loop runs no descriptor is forgotten.                         *)
THEOREM NoneForgotten == Spec => []EveryDescriptorIsOwned
<1>1. IInv => EveryDescriptorIsOwned
  BY DEF IInv
<1> QED BY <1>1, Invariance, PTL

(* No data is left behind an edge already consumed.                        *)
THEOREM EdgesKept == Spec => []NoLostEdge
<1>1. IInv => NoLostEdge
  BY DEF IInv
<1> QED BY <1>1, Invariance, PTL

(* A step neither changes an answer that was given nor reads on from its   *)
(* connection.                                                             *)
LEMMA AnswerKept ==
  ASSUME IInv, [Next]_vars, NEW c \in Conns, resp[c] # "none"
  PROVE  resp'[c] = resp[c] /\ avail'[c] >= avail[c]
<1>1. avail \in [Conns -> 0 .. ReqLen] /\ sent \in [Conns -> 0 .. ReqLen] /\ resp \in [Conns -> Replies]
  BY DEF IInv, TypeOK
<1>2. CASE UNCHANGED <<avail, resp>>
  BY <1>1, <1>2
<1>3. ASSUME NEW d \in Conns, PeerSends(d)
      PROVE  resp' = resp /\ avail'[c] >= avail[c]
  <2>1. PICK n \in 1 .. ReqLen - sent[d] : avail' = [avail EXCEPT ![d] = @ + n]
    BY <1>3 DEF PeerSends
  <2> QED BY <1>1, <1>3, <2>1 DEF PeerSends
<1>4. CASE RecvData
  <2>1. Peer # c /\ resp' = resp
    BY <1>4, PeerFacts DEF RecvData
  <2>2. PICK n : avail' = [avail EXCEPT ![Peer] = @ - n]
    BY <1>4 DEF RecvData
  <2> QED BY <1>1, <2>1, <2>2
<1>5. CASE BadRequest \/ RouteRequest
  <2>1. Peer # c /\ avail' = avail
    BY <1>5, PeerFacts DEF BadRequest, RouteRequest, Step, peerVars
  <2>2. PICK r : resp' = [resp EXCEPT ![Peer] = r]
    BY <1>5 DEF BadRequest, RouteRequest, Send
  <2> QED BY <1>1, <2>1, <2>2
<1>6. ASSUME NEW d \in Conns, Connect(d) \/ PeerFinishes(d) \/ PeerResets(d)
      PROVE  UNCHANGED <<avail, resp>>
  BY <1>6 DEF Connect, PeerFinishes, PeerResets
<1>7. CASE Publish \/ Start \/ AddListenFd \/ EnterLoop \/ LoopTest \/ EpollWait \/ FindChannel
           \/ HandleEvent \/ Handled \/ BatchDone
  BY <1>2, <1>7 DEF Publish, Start, AddListenFd, EnterLoop, LoopTest, EpollWait, FindChannel,
                    HandleEvent, Handled, BatchDone, peerVars
<1>8. CASE AcceptConnection \/ AddChannel \/ AddFd \/ AcceptFails \/ RecvWouldBlock \/ RecvClosed
           \/ CleanupOne \/ CleanupDone
  BY <1>2, <1>8 DEF AcceptConnection, AddChannel, AddFd, AcceptFails, RecvWouldBlock, RecvClosed,
                    CleanupOne, CleanupDone, peerVars
<1>9. CASE Exit \/ HandlerThrows \/ BrokenPipe \/ StaleIterator \/ SignalTooEarly \/ Signal
  BY <1>2, <1>9 DEF Exit, HandlerThrows, BrokenPipe, StaleIterator, ProcessEnds,
                    SignalTooEarly, Signal, peerVars
<1>10. CASE UNCHANGED vars
  BY <1>2, <1>10 DEF vars, peerVars
<1> QED
  BY <1>2, <1>3, <1>4, <1>5, <1>6, <1>7, <1>8, <1>9, <1>10
     DEF Next, Clients, LoopThread, Terminated

(* One request, one response.                                              *)
THEOREM OneAnswer == Spec => AnsweredOnce
<1>1. IInv /\ [Next]_vars =>
        [\A c \in Conns : resp[c] # "none" => resp'[c] = resp[c] /\ avail'[c] >= avail[c]]_vars
  BY AnswerKept
<1> QED BY <1>1, Invariance, PTL DEF Spec, AnsweredOnce

-----------------------------------------------------------------------------
(* A complete request is answered.                                         *)

(* A whole number of buffers and one more are a whole number of buffers.   *)
LEMMA OneBufferMore ==
  ASSUME NEW b \in Nat \ {0}, NEW a \in Nat, a % b = 0
  PROVE  (a + b) % b = 0
<1> DEFINE q == a \div b
           p == (a + b) \div b
           r == (a + b) % b
           d == p - q - 1
<1>1. /\ q \in Nat /\ p \in Nat /\ r \in 0 .. b - 1
      /\ a = b * q /\ a + b = b * p + r
  OBVIOUS
<1> HIDE DEF q, p, r
<1>2. d \in Int /\ b * d = 0 - r
  <2>1. b * d = b * p - b * q - b
    BY <1>1
  <2> QED BY <1>1, <2>1
<1>3. \A e \in Int : (e >= 1 => b * e >= b) /\ (e <= 0 - 1 => b * e <= 0 - b)
  <2>1. \A e \in Int : e >= 1 => b * e >= b
    OBVIOUS
  <2>2. \A e \in Int : e <= 0 - 1 => b * e <= 0 - b
    OBVIOUS
  <2> QED BY <2>1, <2>2
<1> HIDE DEF d
<1>4. d = 0
  BY <1>1, <1>2, <1>3
<1> QED BY <1>1, <1>2, <1>4 DEF r

LEMMA InitReads == ASSUME Init PROVE ReadInv /\ GiveUpInv
BY DEF Init, ReadInv, GiveUpInv, GivenUp, Free, OnClient, Handling

(* A step after which the same connections are given up and unanswered, of *)
(* peers that sent no more since, keeps GiveUpInv.                         *)
LEMMA GiveUpSame ==
  ASSUME GiveUpInv, fin \subseteq fin', rst \subseteq rst',
         signals' = 0 /\ pc' \notin Stopped => signals = 0 /\ pc \notin Stopped,
         \A c \in Conns : GivenUp(c)' /\ resp'[c] = "none" =>
           GivenUp(c) /\ resp[c] = "none" /\ sent'[c] = sent[c]
  PROVE  GiveUpInv'
BY DEF GiveUpInv

(* Steps of the thread that read nothing and give nothing up.              *)
LEMMA QuietReads ==
  ASSUME IInv, ReadInv, GiveUpInv,
         \/ Publish \/ Start \/ AddListenFd \/ EnterLoop \/ LoopTest \/ EpollWait \/ FindChannel
         \/ HandleEvent \/ Handled \/ BatchDone \/ AddChannel \/ AddFd \/ AcceptFails
         \/ RecvWouldBlock \/ CleanupDone \/ SignalTooEarly \/ UNCHANGED vars
  PROVE  ReadInv' /\ GiveUpInv'
<1>1. UNCHANGED <<opened, sent, avail, fin, rst, backlog, file, pendingDelete, resp>>
  BY DEF Publish, Start, AddListenFd, EnterLoop, LoopTest, EpollWait, FindChannel, HandleEvent, Handled,
         BatchDone, AddChannel, AddFd, AcceptFails, RecvWouldBlock, CleanupDone, SignalTooEarly,
         peerVars, kernelVars, mapVars, vars
<1>2. Pending' = Pending
  BY <1>1 DEF Pending
<1>3. ReadInv'
  <2>1. got \in Nat /\ (got # 0 => pc \in {"recv", "parse"} \/ (pc = "handled" /\ cur.fd \in Pending))
    BY DEF IInv, TypeOK, ReadInv
  <2>2. CASE RecvWouldBlock
    BY <1>1, <1>2, <2>1, <2>2 DEF ReadInv, RecvWouldBlock, Step, localVars, OnClient, Handling, Free
  <2>3. CASE Handled
    BY <1>1, <1>2, <2>1, <2>3 DEF ReadInv, Handled, Step, OnClient, Handling, Free, TypeOK
  <2>4. CASE UNCHANGED vars
    BY <1>1, <1>2, <2>4 DEF ReadInv, vars, localVars, OnClient, Free
  <2>5. CASE HandleEvent
    <3>1. got = 0 /\ UNCHANGED <<cur, got>>
      BY <2>1, <2>5 DEF HandleEvent, localVars
    <3>2. 0 % BufSize = 0
      OBVIOUS
    <3> QED BY <1>1, <1>2, <3>1, <3>2 DEF ReadInv, OnClient, Free
  <2>6. CASE Publish \/ Start \/ AddListenFd \/ EnterLoop \/ LoopTest \/ EpollWait \/ FindChannel
             \/ BatchDone \/ AddChannel \/ AddFd \/ AcceptFails \/ CleanupDone \/ SignalTooEarly
    <3>1. got = 0 /\ got' = got /\ pc' # "recv"
      BY <2>1, <2>6 DEF Publish, Start, AddListenFd, EnterLoop, LoopTest, EpollWait, FindChannel, BatchDone,
                        AddChannel, AddFd, AcceptFails, CleanupDone, SignalTooEarly, Step, localVars
    <3> QED BY <1>1, <1>2, <3>1 DEF ReadInv, Free
  <2> QED BY <2>2, <2>3, <2>4, <2>5, <2>6
<1>4. signals' = 0 /\ pc' \notin Stopped => signals = 0 /\ pc \notin Stopped
  <2>1. signals \in Nat
    BY DEF IInv, TypeOK
  <2>2. CASE SignalTooEarly
    BY <2>1, <2>2 DEF SignalTooEarly
  <2>3. CASE UNCHANGED vars
    BY <2>3 DEF vars
  <2>4. CASE ~SignalTooEarly /\ ~UNCHANGED vars
    <3>1. signals' = signals
      BY <2>4 DEF Publish, Start, AddListenFd, EnterLoop, LoopTest, EpollWait, FindChannel, HandleEvent, Handled,
                  BatchDone, AddChannel, AddFd, AcceptFails, RecvWouldBlock, CleanupDone
    <3>2. pc \notin Stopped
      BY <2>4 DEF Publish, Start, AddListenFd, EnterLoop, LoopTest, EpollWait, FindChannel, HandleEvent, Handled,
                  BatchDone, AddChannel, AddFd, AcceptFails, RecvWouldBlock, CleanupDone, Step, Stopped
    <3> QED BY <3>1, <3>2
  <2> QED BY <2>2, <2>3, <2>4
<1>5. \A c \in Conns : GivenUp(c)' => GivenUp(c)
  BY <1>1, <1>2 DEF GivenUp
<1>6. GiveUpInv'
  BY <1>1, <1>4, <1>5, GiveUpSame
<1> QED BY <1>3, <1>6

(* The clients: one that was given up without an answer sends no more.     *)
LEMMA ClientsRead ==
  ASSUME IInv, ReadInv, GiveUpInv, Clients
  PROVE  ReadInv' /\ GiveUpInv'
<1>1. PICK c \in Conns : Connect(c) \/ PeerSends(c) \/ PeerFinishes(c) \/ PeerResets(c)
  BY DEF Clients
<1>2. /\ UNCHANGED <<file, pendingDelete, pc, cur, got, signals, resp>>
      /\ fin \subseteq fin' /\ rst \subseteq rst'
  BY <1>1 DEF Connect, PeerSends, PeerFinishes, PeerResets, mapVars, localVars
<1>3. Pending' = Pending /\ (OnClient' <=> OnClient)
  BY <1>2 DEF Pending, OnClient
<1>4. CASE Connect(c)
  <2>1. /\ opened' = opened \cup {c} /\ backlog' = backlog \cup {c} /\ c \notin opened
        /\ UNCHANGED <<sent, avail>>
    BY <1>4 DEF Connect
  <2>2. ReadInv'
    BY <1>2, <1>3, <2>1 DEF ReadInv, Free
  <2>3. \A d \in Conns : GivenUp(d)' => GivenUp(d)
    BY <1>2, <1>3, <2>1 DEF GivenUp
  <2> QED BY <1>2, <2>1, <2>2, <2>3, GiveUpSame
<1>5. CASE PeerFinishes(c) \/ PeerResets(c)
  <2>1. UNCHANGED <<opened, backlog, sent, avail>>
    BY <1>5 DEF PeerFinishes, PeerResets
  <2>2. ReadInv'
    BY <1>2, <1>3, <2>1 DEF ReadInv, Free
  <2>3. \A d \in Conns : GivenUp(d)' => GivenUp(d)
    BY <1>2, <1>3, <2>1 DEF GivenUp
  <2> QED BY <1>2, <2>1, <2>2, <2>3, GiveUpSame
<1>6. CASE PeerSends(c)
  <2>1. PICK n \in 1 .. ReqLen - sent[c] :
          /\ sent' = [sent EXCEPT ![c] = @ + n]
          /\ avail' = [avail EXCEPT ![c] = @ + n]
    BY <1>6 DEF PeerSends
  <2>2. /\ n \in Nat /\ UNCHANGED <<opened, backlog>>
        /\ sent \in [Conns -> Nat] /\ avail \in [Conns -> Nat] /\ got \in Nat
    BY <1>6, <2>1 DEF PeerSends, IInv, TypeOK
  <2>3. \A d \in Conns : /\ sent'[d] = IF d = c THEN sent[d] + n ELSE sent[d]
                         /\ avail'[d] = IF d = c THEN avail[d] + n ELSE avail[d]
    BY <2>1, <2>2
  <2>4. \A f \in Fds : ~Free(f) => file[f] \in Conns
    BY DEF IInv, TypeOK, Free
  <2>5. ReadInv'
    <3>1. \A d \in Conns : d \notin opened \/ d \in backlog => avail'[d] = sent'[d]
      BY <2>3 DEF ReadInv
    <3>2. ASSUME NEW f \in Fds \ Pending, ~Free(f)
          PROVE  sent'[file[f]] = avail'[file[f]] + (IF OnClient /\ cur.fd = f THEN got ELSE 0)
      <4>1. sent[file[f]] = avail[file[f]] + (IF OnClient /\ cur.fd = f THEN got ELSE 0)
        BY <3>2 DEF ReadInv
      <4>2. file[f] \in Conns /\ sent[file[f]] \in Nat /\ avail[file[f]] \in Nat
        BY <2>2, <2>4, <3>2
      <4> QED BY <2>2, <2>3, <4>1, <4>2
    <3> QED BY <1>2, <1>3, <2>2, <3>1, <3>2 DEF ReadInv, Free
  <2>6. c \notin fin \cup rst
    BY <1>6 DEF PeerSends
  <2>7. \A d \in Conns : GivenUp(d)' => GivenUp(d)
    BY <1>2, <1>3, <2>2 DEF GivenUp
  <2>8. signals = 0 /\ pc \notin Stopped /\ GivenUp(c) => resp[c] # "none"
    BY <2>6 DEF GiveUpInv
  <2>9. GiveUpInv'
    BY <1>2, <2>3, <2>7, <2>8 DEF GiveUpInv
  <2> QED BY <2>5, <2>9
<1> QED BY <1>1, <1>4, <1>5, <1>6

LEMMA AcceptReads ==
  ASSUME IInv, ReadInv, GiveUpInv, AcceptConnection
  PROVE  ReadInv' /\ GiveUpInv'
<1>1. PICK c \in backlog, f \in Fds :
        Free(f) /\ backlog' = backlog \ {c} /\ file' = [file EXCEPT ![f] = c]
  BY DEF AcceptConnection
<1>2. /\ UNCHANGED <<opened, sent, avail, fin, rst, pendingDelete, cur, got, signals, resp>>
      /\ pc = "accept" /\ pc' = "add"
  BY DEF AcceptConnection, Step, peerVars
<1>3. Pending' = Pending
  BY <1>2 DEF Pending
<1>4. /\ c \in Conns /\ c # None /\ f \notin Pending
      /\ \A g \in Fds : file'[g] = IF g = f THEN c ELSE file[g]
  BY <1>1 DEF IInv, TypeOK, MapInv, RetiredOnce
<1>5. got = 0 /\ avail[c] = sent[c]
  BY <1>1, <1>2, <1>4 DEF ReadInv
<1>6. sent[c] \in Nat
  BY <1>4 DEF IInv, TypeOK
<1>7. ReadInv'
  <2>1. ASSUME NEW g \in Fds \ Pending, file'[g] # None
        PROVE  sent[file'[g]] = avail[file'[g]] + 0
    BY <1>4, <1>5, <1>6, <2>1 DEF ReadInv, Free
  <2> QED BY <1>1, <1>2, <1>3, <1>5, <2>1 DEF ReadInv, Free
<1>8. \A d \in Conns : GivenUp(d)' => GivenUp(d)
  BY <1>1, <1>2, <1>3, <1>4 DEF GivenUp, Free
<1>9. GiveUpInv'
  BY <1>2, <1>8, GiveUpSame DEF Stopped
<1> QED BY <1>7, <1>9

(* What recv() takes moves from the socket to the request.                 *)
LEMMA RecvReads ==
  ASSUME IInv, ReadInv, GiveUpInv, RecvData
  PROVE  ReadInv' /\ GiveUpInv'
<1>1. /\ cur.fd \in Fds /\ cur.fd # Lfd /\ file[cur.fd] = Peer /\ Peer \in Conns
      /\ Peer \in opened \ backlog /\ cur.fd \notin Pending
  BY PeerFacts DEF RecvData, Peer
<1> DEFINE n == IF avail[Peer] < BufSize THEN avail[Peer] ELSE BufSize
<1>2. /\ n \in Nat /\ n <= avail[Peer] /\ (n < BufSize \/ n = BufSize)
      /\ avail' = [avail EXCEPT ![Peer] = @ - n] /\ got' = got + n
      /\ pc' = IF n < BufSize THEN "parse" ELSE "recv"
  BY <1>1 DEF RecvData, IInv, TypeOK
<1> HIDE DEF n
<1>3. /\ UNCHANGED <<opened, sent, fin, rst, backlog, file, pendingDelete, cur, signals, resp>>
      /\ pc = "recv"
  BY DEF RecvData, kernelVars, mapVars
<1>4. Pending' = Pending /\ OnClient /\ OnClient'
  BY <1>1, <1>2, <1>3 DEF Pending, OnClient, Handling
<1>5. sent \in [Conns -> Nat] /\ avail \in [Conns -> Nat] /\ got \in Nat
  BY DEF IInv, TypeOK
<1>6. /\ \A c \in Conns : c # Peer => avail'[c] = avail[c]
      /\ avail'[Peer] = avail[Peer] - n
  BY <1>1, <1>2, <1>5
<1>7. ReadInv'
  <2>1. \A c \in Conns : c \notin opened \/ c \in backlog => avail'[c] = sent[c]
    BY <1>1, <1>6 DEF ReadInv
  <2>2. ASSUME NEW f \in Fds \ Pending, ~Free(f)
        PROVE  sent[file[f]] = avail'[file[f]] + (IF cur.fd = f THEN got' ELSE 0)
    <3>1. CASE f = cur.fd
      <4>1. sent[Peer] = avail[Peer] + got
        BY <1>1, <1>4, <2>2, <3>1 DEF ReadInv
      <4>2. sent[Peer] \in Nat /\ avail[Peer] \in Nat
        BY <1>1, <1>5
      <4> QED BY <1>1, <1>2, <1>5, <1>6, <3>1, <4>1, <4>2
    <3>2. CASE f # cur.fd
      <4>1. file[f] # Peer /\ file[f] \in Conns
        BY <1>1, <2>2, <3>2 DEF IInv, PeerInv, TypeOK, Free
      <4> QED BY <1>4, <1>6, <2>2, <3>2, <4>1 DEF ReadInv
    <3> QED BY <3>1, <3>2
  <2>3. pc' = "recv" => got' % BufSize = 0
    <3>1. got % BufSize = 0
      BY <1>3 DEF ReadInv
    <3> QED BY <1>2, <1>5, <3>1, OneBufferMore
  <2>4. pc' \in {"recv", "parse"}
    BY <1>2
  <2> QED BY <1>3, <1>4, <2>1, <2>2, <2>3, <2>4 DEF ReadInv, Free
<1>8. \A c \in Conns : GivenUp(c)' => GivenUp(c)
  BY <1>3, <1>4 DEF GivenUp
<1>9. GiveUpInv'
  BY <1>3, <1>8, GiveUpSame DEF Stopped
<1> QED BY <1>7, <1>9

(* Giving a connection up: it is answered, or reset, or it has finished    *)
(* and nothing is left to read behind full buffers.                        *)
LEMMA RetireReads ==
  ASSUME IInv, ReadInv, GiveUpInv, RecvClosed \/ BadRequest \/ RouteRequest
  PROVE  ReadInv' /\ GiveUpInv'
<1>1. /\ pc \in {"recv", "parse"} /\ pc' = "handled" /\ Retire(cur.fd)
      /\ UNCHANGED <<peerVars, loopRunning, localVars, signals>>
  BY DEF RecvClosed, BadRequest, RouteRequest, Step
<1>2. /\ cur.fd \in Fds /\ cur.fd # Lfd /\ file[cur.fd] = Peer /\ Peer \in Conns
      /\ cur.fd \notin Pending /\ resp[Peer] = "none"
  BY <1>1, PeerFacts DEF Peer
<1>3. UNCHANGED <<opened, sent, avail, fin, rst, backlog, file, cur, got, signals>>
  BY <1>1 DEF Retire, peerVars, localVars
<1>4. Pending' = Pending \cup {cur.fd}
  <2>1. pendingDelete \in Seq(Fds) /\ IsInjective(pendingDelete)
    BY DEF IInv, TypeOK, MapInv, RetiredOnce
  <2> QED BY <1>1, <1>2, <2>1, AppendRange DEF Retire, Pending
<1>5. OnClient /\ OnClient'
  BY <1>1, <1>2, <1>3 DEF OnClient, Handling
<1>6. ReadInv'
  BY <1>1, <1>3, <1>4, <1>5 DEF ReadInv, Free
<1>7. ASSUME NEW c \in Conns, GivenUp(c)', resp'[c] = "none", signals = 0
      PROVE  c \in rst \/ (c \in fin /\ (sent[c] < ReqLen \/ FillsBuffers))
  <2>1. CASE c = Peer /\ RecvClosed
    <3>1. c \in fin \cup rst /\ avail[c] = 0 /\ pc = "recv"
      BY <2>1 DEF RecvClosed, Step
    <3>2. sent[c] = avail[c] + got /\ got % BufSize = 0
      BY <1>2, <1>5, <2>1, <3>1 DEF ReadInv, IInv, TypeOK, Free
    <3>3. sent[c] \in 0 .. ReqLen /\ got \in Nat
      BY DEF IInv, TypeOK
    <3>4. sent[c] = got
      BY <3>1, <3>2, <3>3
    <3>5. sent[c] < ReqLen \/ sent[c] = ReqLen
      BY <3>3
    <3> QED BY <3>1, <3>2, <3>4, <3>5 DEF FillsBuffers
  <2>2. CASE c = Peer /\ ~RecvClosed
    <3>1. PICK r \in {"400", "200", "cut", "lost"} : resp' = [resp EXCEPT ![Peer] = r]
      BY <2>2 DEF BadRequest, RouteRequest, Send
    <3> QED BY <1>2, <1>7, <2>2, <3>1 DEF IInv, TypeOK
  <2>3. CASE c # Peer
    <3>1. GivenUp(c)
      BY <1>2, <1>3, <1>4, <1>7, <2>3 DEF GivenUp
    <3>2. resp[c] = "none"
      BY <1>7, <2>3 DEF RecvClosed, BadRequest, RouteRequest, Send, IInv, TypeOK
    <3> QED BY <1>1, <1>7, <3>1, <3>2 DEF GiveUpInv, Stopped
  <2> QED BY <2>1, <2>2, <2>3
<1>8. GiveUpInv'
  BY <1>3, <1>7 DEF GiveUpInv
<1> QED BY <1>6, <1>8

LEMMA CleanupReads ==
  ASSUME IInv, ReadInv, GiveUpInv, CleanupOne
  PROVE  ReadInv' /\ GiveUpInv'
<1> DEFINE f == Head(pendingDelete)
<1>1. f \in Fds /\ f \in Pending /\ Pending' = Pending \ {f}
  <2>1. pendingDelete \in Seq(Fds) /\ IsInjective(pendingDelete) /\ pendingDelete # <<>>
    BY DEF IInv, TypeOK, MapInv, RetiredOnce, CleanupOne
  <2> QED BY <2>1, TailRange DEF CleanupOne, Pending
<1>2. /\ file' = [file EXCEPT ![f] = None] /\ pc = "cleanup"
      /\ UNCHANGED <<opened, sent, avail, fin, rst, backlog, pc, cur, got, signals, resp>>
  BY DEF CleanupOne, CloseFd, peerVars, localVars
<1> HIDE DEF f
<1>3. \A g \in Fds : file'[g] = IF g = f THEN None ELSE file[g]
  BY <1>1, <1>2 DEF IInv, TypeOK
<1>4. ReadInv'
  BY <1>1, <1>2, <1>3 DEF ReadInv, OnClient, Handling, Free
<1>5. \A c \in Conns : GivenUp(c)' => GivenUp(c)
  BY <1>1, <1>2, <1>3 DEF GivenUp
<1>6. GiveUpInv'
  BY <1>2, <1>5, GiveUpSame
<1> QED BY <1>4, <1>6

(* A signal, or the end of the process, lifts the promise.                 *)
LEMMA EndReads ==
  ASSUME IInv, ReadInv, GiveUpInv,
         Signal \/ (\E label \in Stopped : ProcessEnds(label))
  PROVE  ReadInv' /\ GiveUpInv'
<1>1. CASE Signal
  <2>1. /\ UNCHANGED <<opened, sent, avail, file, pendingDelete, pc, cur, got>>
        /\ backlog' = {} /\ signals' = signals + 1
    BY <1>1 DEF Signal, Stop, peerVars, localVars
  <2>2. Pending' = Pending /\ (OnClient' <=> OnClient)
    BY <2>1 DEF Pending, OnClient
  <2>3. ReadInv'
    BY <2>1, <2>2 DEF ReadInv, Free
  <2>4. signals' # 0
    BY <2>1 DEF IInv, TypeOK
  <2> QED BY <2>3, <2>4 DEF GiveUpInv
<1>2. CASE \E label \in Stopped : ProcessEnds(label)
  <2>1. /\ UNCHANGED <<opened, sent, avail>> /\ backlog' = {} /\ got' = 0 /\ pc' \in Stopped
        /\ file' = [f \in Fds |-> None]
    BY <1>2 DEF ProcessEnds, peerVars
  <2>2. pc' # "recv" /\ \A f \in Fds : file'[f] = None
    BY <2>1 DEF Stopped
  <2>3. ReadInv'
    BY <2>1, <2>2 DEF ReadInv, Free
  <2> QED BY <2>1, <2>3 DEF GiveUpInv
<1> QED BY <1>1, <1>2

LEMMA NextReads ==
  ASSUME IInv, ReadInv, GiveUpInv, [Next]_vars
  PROVE  ReadInv' /\ GiveUpInv'
<1>1. CASE Clients
  BY <1>1, ClientsRead
<1>2. CASE \/ Publish \/ Start \/ AddListenFd \/ EnterLoop \/ LoopTest \/ EpollWait \/ FindChannel
           \/ HandleEvent \/ Handled \/ BatchDone \/ AddChannel \/ AddFd \/ AcceptFails
           \/ RecvWouldBlock \/ CleanupDone \/ SignalTooEarly \/ UNCHANGED vars
  BY <1>2, QuietReads
<1>3. CASE AcceptConnection \/ RecvData \/ CleanupOne
  BY <1>3, AcceptReads, RecvReads, CleanupReads
<1>4. CASE RecvClosed \/ BadRequest \/ RouteRequest
  BY <1>4, RetireReads
<1>5. CASE Signal \/ Exit \/ HandlerThrows \/ BrokenPipe \/ StaleIterator
  BY <1>5, EndReads DEF Exit, HandlerThrows, BrokenPipe, StaleIterator, Stopped
<1> QED BY <1>1, <1>2, <1>3, <1>4, <1>5 DEF Next, LoopThread, Terminated

(* A client that sent its whole request and did not reset gets an answer   *)
(* before its connection is given up; the one exception is a request that  *)
(* fills the buffers, of a client that has finished sending.               *)
THEOREM CompleteAnswered == Spec => []CompleteRequestAnswered
<1>1. IInv /\ ReadInv /\ GiveUpInv => CompleteRequestAnswered
  <2> SUFFICES ASSUME IInv, GiveUpInv, signals = 0, pc \notin Stopped,
                      NEW c \in opened \ rst, sent[c] = ReqLen, resp[c] = "none",
                      c \notin backlog, \A f \in Fds \ Pending : file[f] # c
               PROVE  FillsBuffers /\ c \in fin
    BY DEF CompleteRequestAnswered
  <2>1. c \in Conns /\ GivenUp(c)
    BY DEF IInv, TypeOK, GivenUp
  <2> QED BY <2>1 DEF GiveUpInv
<1> QED BY <1>1, InitInv, NextKeeps, InitReads, NextReads, PTL DEF Spec

-----------------------------------------------------------------------------
(* The server implements ConnectionLife.                                   *)

(* A connection is on the server when some descriptor refers to it.        *)
LEMMA OnServerDescriptor ==
  ASSUME TypeOK, NEW c \in Conns
  PROVE  OnServer(c) <=> \E f \in Fds : file[f] = c
BY DEF TypeOK, OnServer, Range

(* A step that keeps the connections, the descriptors, the answers and     *)
(* what waits to be closed is a stutter for ConnectionLife.                *)
LEMMA SameStages ==
  ASSUME UNCHANGED <<opened, backlog, listening, file, resp>>, Pending' = Pending
  PROVE  UNCHANGED Life!lifeVars
BY DEF Life!lifeVars, StageOf, OnServer

(* The end of the process ends every connection there ever was.            *)
LEMMA EndRefines ==
  ASSUME IInv, NEW label \in Stopped, ProcessEnds(label)
  PROVE  Life!LifeNext
<1>1. IInv'
  BY ProcessEndsKeeps
<1>2. ASSUME NEW c \in Conns
      PROVE  StageOf(c)' = IF StageOf(c) = "absent" THEN "absent" ELSE "closed"
  <2>1. ~OnServer(c)' /\ c \notin backlog'
    BY <1>1, OnServerDescriptor DEF IInv, ProcessEnds, OnServer, Range
  <2>2. StageOf(c)' = IF c \notin opened THEN "absent" ELSE "closed"
    BY <2>1 DEF StageOf, ProcessEnds, peerVars
  <2>3. StageOf(c) = "absent" <=> c \notin opened
    BY DEF StageOf
  <2> QED BY <2>2, <2>3
<1>3. Life!ServerEnds
  BY <1>2 DEF Life!ServerEnds, ProcessEnds
<1> QED BY <1>3 DEF Life!LifeNext

(* One connection moves on and the others stay: a step of ConnectionLife.  *)
LEMMA OneMoves ==
  ASSUME NEW c \in Conns, NEW from, NEW to,
         StageOf(c) = from, StageOf(c)' = to,
         \A d \in Conns : d # c => StageOf(d)' = StageOf(d),
         listening' = listening
  PROVE  Life!Advance(c, {from}, to)
BY DEF Life!Advance

LEMMA ConnectRefines ==
  ASSUME IInv, NEW c \in Conns, Connect(c)
  PROVE  Life!LifeNext
<1>1. /\ StageOf(c) = "absent" /\ StageOf(c)' = "queued"
      /\ \A d \in Conns : d # c => StageOf(d)' = StageOf(d)
  BY DEF StageOf, OnServer, Pending, Connect, mapVars
<1>2. Life!Queue(c)
  BY <1>1, OneMoves DEF Life!Queue, Connect
<1> QED BY <1>2 DEF Life!LifeNext

LEMMA AcceptRefines ==
  ASSUME IInv, AcceptConnection
  PROVE  Life!LifeNext
<1>1. PICK c \in backlog, f \in Fds :
        Free(f) /\ backlog' = backlog \ {c} /\ file' = [file EXCEPT ![f] = c]
  BY DEF AcceptConnection
<1>2. IInv' /\ Pending' = Pending /\ UNCHANGED <<opened, resp, listening>>
  BY AcceptConnectionKeeps DEF AcceptConnection, Pending, peerVars
<1>3. /\ c \in Conns /\ c \in opened /\ c # None
      /\ \A g \in Fds : file'[g] = IF g = f THEN c ELSE file[g]
      /\ \A g \in Fds : file[g] # c
      /\ f \notin Pending /\ resp[c] = "none"
  BY <1>1 DEF IInv, TypeOK, PeerInv, MapInv, RetiredOnce, ReplyInv, Free
<1>4. StageOf(c) = "queued"
  BY <1>1, <1>3 DEF StageOf
<1>5. StageOf(c)' = "open"
  <2>1. OnServer(c)'
    BY <1>2, <1>3, OnServerDescriptor DEF IInv, TypeOK, OnServer, Range
  <2>2. ~\E g \in Pending' : file'[g] = c
    BY <1>2, <1>3, PendingFds DEF IInv
  <2> QED BY <1>1, <1>2, <1>3, <2>1, <2>2 DEF StageOf
<1>6. ASSUME NEW d \in Conns, d # c PROVE StageOf(d)' = StageOf(d)
  <2>1. OnServer(d)' <=> OnServer(d)
    <3>1. OnServer(d) <=> \E g \in Fds : file[g] = d
      BY OnServerDescriptor DEF IInv
    <3>2. OnServer(d)' <=> \E g \in Fds : file'[g] = d
      BY <1>2 DEF IInv, TypeOK, OnServer, Range
    <3> QED BY <1>1, <1>3, <1>6, <3>1, <3>2 DEF Free
  <2>2. (\E g \in Pending' : file'[g] = d) <=> (\E g \in Pending : file[g] = d)
    BY <1>2, <1>3, PendingFds DEF IInv
  <2> QED BY <1>1, <1>2, <1>6, <2>1, <2>2 DEF StageOf
<1>7. Life!Accept(c)
  BY <1>2, <1>3, <1>4, <1>5, <1>6, OneMoves DEF Life!Accept, AcceptConnection
<1> QED BY <1>3, <1>7 DEF Life!LifeNext

LEMMA RetireRefines ==
  ASSUME IInv, RecvClosed \/ BadRequest \/ RouteRequest
  PROVE  Life!LifeNext
<1>0. pc \in {"recv", "parse"}
  BY DEF RecvClosed, BadRequest, RouteRequest, Step
<1>c. PICK c \in Conns, f \in Fds : c = Peer /\ f = cur.fd
  BY <1>0, PeerFacts
<1>1. /\ Retire(f)
      /\ UNCHANGED <<opened, backlog, listening, file>>
  BY <1>c DEF RecvClosed, BadRequest, RouteRequest, Retire, peerVars
<1>2. /\ f \in Fds /\ c \in Conns /\ file[f] = c /\ f \notin Pending
      /\ c \in opened \ backlog /\ resp[c] = "none"
  BY <1>0, <1>c, PeerFacts DEF Peer
<1>3. Pending' = Pending \cup {f}
  <2>1. pendingDelete \in Seq(Fds)
    BY DEF IInv, TypeOK
  <2> QED BY <1>1, <1>2, <2>1, AppendRange DEF Retire, Pending
<1>4. /\ \A d \in Conns : d # c => resp'[d] = resp[d]
      /\ IF RecvClosed THEN resp' = resp ELSE resp'[c] # "none"
  <2>1. CASE RecvClosed
    BY <2>1 DEF RecvClosed
  <2>2. CASE ~RecvClosed
    <3>1. PICK r \in Replies \ {"none"} : resp' = [resp EXCEPT ![Peer] = r]
      BY <2>2 DEF BadRequest, RouteRequest, Send, Replies
    <3> QED BY <1>c, <2>2, <3>1 DEF IInv, TypeOK
  <2> QED BY <2>1, <2>2
<1>5. StageOf(c) = "open" /\ OnServer(c)
  <2>1. OnServer(c)
    BY <1>2, OnServerDescriptor DEF IInv
  <2>2. ~\E g \in Pending : file[g] = c
    BY <1>2, PendingFds DEF IInv, TypeOK, PeerInv, Free
  <2> QED BY <1>2, <2>1, <2>2 DEF StageOf
<1>6. StageOf(c)' = IF RecvClosed THEN "dropped" ELSE "answered"
  <2>1. OnServer(c)'
    BY <1>1, <1>5 DEF OnServer
  <2> QED BY <1>1, <1>2, <1>3, <1>4, <2>1 DEF StageOf
<1>7. ASSUME NEW d \in Conns, d # c PROVE StageOf(d)' = StageOf(d)
  BY <1>1, <1>2, <1>3, <1>4, <1>7 DEF StageOf, OnServer
<1>8. Life!Drop(c) \/ Life!Answer(c)
  BY <1>1, <1>2, <1>5, <1>6, <1>7, OneMoves DEF Life!Drop, Life!Answer
<1> QED BY <1>2, <1>8 DEF Life!LifeNext

LEMMA CleanupRefines ==
  ASSUME IInv, CleanupOne
  PROVE  Life!LifeNext
<1>0. pendingDelete \in Seq(Fds) /\ IsInjective(pendingDelete) /\ pendingDelete # <<>>
  BY DEF IInv, TypeOK, MapInv, RetiredOnce, CleanupOne
<1>1. PICK f \in Fds : f = Head(pendingDelete) /\ f \in Pending /\ Pending' = Pending \ {f}
  BY <1>0, TailRange DEF CleanupOne, Pending
<1>2. /\ file' = [file EXCEPT ![f] = None]
      /\ UNCHANGED <<opened, backlog, listening, resp>>
  BY <1>1 DEF CleanupOne, CloseFd, peerVars
<1>c. PICK c \in Conns : c = file[f]
  BY <1>1 DEF IInv, TypeOK, MapInv, RetiredOnce, Free
<1>3. /\ c # None /\ c \in opened \ backlog
      /\ \A g \in Fds : file'[g] = IF g = f THEN None ELSE file[g]
      /\ \A g \in Fds : g # f => file[g] # c
  BY <1>1, <1>2, <1>c DEF IInv, TypeOK, PeerInv, MapInv, RetiredOnce, Free
<1>4. ASSUME NEW d \in Conns
      PROVE  /\ OnServer(d) <=> \E g \in Fds : file[g] = d
             /\ OnServer(d)' <=> \E g \in Fds : file'[g] = d
  <2>1. file' \in [Fds -> Conns \cup {None}]
    BY <1>2 DEF IInv, TypeOK
  <2> QED BY <2>1, OnServerDescriptor DEF IInv, OnServer, Range
<1>5. StageOf(c) \in {"answered", "dropped"} /\ StageOf(c)' = "closed"
  <2>1. OnServer(c) /\ ~OnServer(c)'
    BY <1>3, <1>4, <1>c
  <2> QED BY <1>1, <1>2, <1>3, <1>c, <2>1 DEF StageOf
<1>6. ASSUME NEW d \in Conns, d # c PROVE StageOf(d)' = StageOf(d)
  <2>1. OnServer(d)' <=> OnServer(d)
    BY <1>3, <1>4, <1>c, <1>6
  <2>2. (\E g \in Pending' : file'[g] = d) <=> (\E g \in Pending : file[g] = d)
    BY <1>1, <1>3, <1>c, <1>6, PendingFds DEF IInv
  <2> QED BY <1>2, <2>1, <2>2 DEF StageOf
<1>7. Life!Release(c)
  BY <1>2, <1>5, <1>6 DEF Life!Release, Life!Advance
<1> QED BY <1>7 DEF Life!LifeNext

LEMMA SignalRefines ==
  ASSUME IInv, Signal
  PROVE  Life!LifeNext
<1>1. /\ listening' = FALSE /\ backlog' = {} /\ Pending' = Pending
      /\ UNCHANGED <<opened, file, resp>>
  BY DEF Signal, Stop, Pending, peerVars
<1>2. ASSUME NEW c \in Conns
      PROVE  StageOf(c)' = IF StageOf(c) = "queued" THEN "closed" ELSE StageOf(c)
  <2>1. c \in backlog => c \in opened /\ ~OnServer(c)
    BY OnServerDescriptor DEF IInv, PeerInv, TypeOK, Free
  <2> QED BY <1>1, <2>1 DEF StageOf, OnServer
<1>3. Life!CloseListener
  BY <1>1, <1>2 DEF Life!CloseListener
<1> QED BY <1>3 DEF Life!LifeNext

(* Every step of the server is a step of ConnectionLife or a stutter.      *)
LEMMA StepRefines ==
  ASSUME IInv, [Next]_vars
  PROVE  [Life!LifeNext]_(Life!lifeVars)
<1>1. CASE UNCHANGED <<opened, backlog, listening, file, resp, pendingDelete>>
  BY <1>1, SameStages DEF Pending
<1>2. ASSUME NEW c \in Conns, PeerSends(c) \/ PeerFinishes(c) \/ PeerResets(c)
      PROVE  UNCHANGED <<opened, backlog, listening, file, resp, pendingDelete>>
  BY <1>2 DEF PeerSends, PeerFinishes, PeerResets, mapVars
<1>3. CASE Publish \/ Start \/ AddListenFd \/ EnterLoop \/ LoopTest \/ EpollWait \/ FindChannel
           \/ HandleEvent \/ Handled \/ BatchDone
  BY <1>1, <1>3 DEF Publish, Start, AddListenFd, EnterLoop, LoopTest, EpollWait, FindChannel,
                    HandleEvent, Handled, BatchDone, peerVars, kernelVars, mapVars
<1>4. CASE AddChannel \/ AddFd \/ AcceptFails \/ RecvData \/ RecvWouldBlock \/ CleanupDone \/ SignalTooEarly
  BY <1>1, <1>4 DEF AddChannel, AddFd, AcceptFails, RecvData, RecvWouldBlock, CleanupDone,
                    SignalTooEarly, peerVars, kernelVars, mapVars
<1>5. CASE RecvClosed \/ BadRequest \/ RouteRequest
  BY <1>5, RetireRefines
<1>6. CASE AcceptConnection \/ CleanupOne \/ Signal
  BY <1>6, AcceptRefines, CleanupRefines, SignalRefines
<1>7. CASE Exit \/ HandlerThrows \/ BrokenPipe \/ StaleIterator
  BY <1>7, EndRefines DEF Exit, HandlerThrows, BrokenPipe, StaleIterator, Stopped
<1>8. CASE UNCHANGED vars
  BY <1>1, <1>8 DEF vars, peerVars, kernelVars, mapVars
<1> QED
  BY <1>1, <1>2, <1>3, <1>4, <1>5, <1>6, <1>7, <1>8, ConnectRefines
     DEF Next, Clients, LoopThread, Terminated

(* Whatever clients, kernel and signals do, each connection is queued,     *)
(* accepted, answered or dropped, and closed, in that order and each once. *)
THEOREM Refinement == Spec => Life!LifeSafety
<1>1. Init => Life!LifeInit
  BY DEF Init, Life!LifeInit, StageOf
<1>2. IInv /\ [Next]_vars => [Life!LifeNext]_(Life!lifeVars)
  BY StepRefines
<1> QED BY <1>1, <1>2, Invariance, PTL DEF Spec, Life!LifeSafety
=============================================================================
