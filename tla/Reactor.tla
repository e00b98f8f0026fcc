------------------------------- MODULE Reactor -------------------------------
(***************************************************************************)
(* The epoll chat server: EventLoop, Epoller and Channel under             *)
(* src/src/reactor, the connection handling of ChatroomServerEpoll, and    *)
(* the start and stop sequence of main.cpp.                                *)
(*                                                                         *)
(* One thread runs everything: main() constructs the server, start()       *)
(* registers the listening socket and loop() serves until a signal clears  *)
(* its flag.  The other actors are the clients, whose connections the      *)
(* kernel queues, feeds and resets between any two steps of that thread,   *)
(* and the signal handler, which runs stop() on that same thread between   *)
(* any two of its statements.                                              *)
(*                                                                         *)
(* Bytes are counted, not spelled out.  A request is ReqLen units long,    *)
(* its blank line lies within the first HeaderLen, and recv() takes at     *)
(* most BufSize.  What the routes compute is left to other modules: here a *)
(* request is answered, refused, or ends in an exception.                  *)
(***************************************************************************)
EXTENDS Naturals, Sequences, FiniteSets, Functions

CONSTANTS
  Conns,        \* client connections, each opened at most once
  Fds,          \* descriptors left to the process for client connections
  Lfd,          \* the listening socket's descriptor
  Listener,     \* the identity of the listening socket's channel
  None,         \* no channel, no connection, no event
  ReqLen,       \* length of a complete request
  HeaderLen,    \* length of its part up to the blank line
  BufSize,      \* sizeof(buf), 8192 in the code
  MaxEvents,    \* Epoller::kMaxEvents, 1024 in the code
  MaxSignals    \* bound: SIGINT and SIGTERM delivered in a behaviour

ASSUME SizesAssumption ==
  /\ ReqLen \in Nat \ {0}
  /\ HeaderLen \in 1 .. ReqLen
  /\ BufSize \in Nat \ {0}
  /\ MaxEvents \in Nat \ {0}
  /\ MaxSignals \in Nat

AllFds == Fds \cup {Lfd}

(* What epoll reports; "of" is the connection meant, for the invariants    *)
(* only: the code sees the descriptor and the flags.                       *)
Flags == {"IN", "HUP", "ERR"}
Event == [fd : AllFds, of : Conns \cup {Listener}, mask : SUBSET Flags]

ASSUME NamesAssumption ==
  /\ Lfd \notin Fds
  /\ None \notin Conns \cup Fds \cup Event
  /\ Listener \notin Conns \cup {None}

VARIABLES
  \* the clients and their sockets, kept by the kernel
  opened,         \* connections that were ever made
  sent,           \* units of the request each peer has sent
  avail,          \* units received for the connection and not read yet
  fin,            \* connections whose peer has finished sending
  rst,            \* connections whose peer has reset them
  backlog,        \* connections queued on the listening socket
  listening,      \* the listening socket is open, listenFd_ # -1
  \* the process's descriptors and its epoll instance, kept by the kernel
  file,           \* the connection an open descriptor refers to
  interest,       \* descriptors registered in epoll
  ready,          \* client descriptors with an edge not reported yet
  \* EventLoop and ChatroomServerEpoll
  channels,       \* EventLoop::channels_
  clientChannels, \* ChatroomServerEpoll::clientChannels_
  pendingDelete,  \* ChatroomServerEpoll::pendingDeleteFds_
  loopRunning,    \* EventLoop::running_
  \* the thread: where it is, and the locals of the functions it is in
  pc,
  active,         \* activeEvents of loop() not visited yet
  cur,            \* the event being handled
  fresh,          \* clientFd in handleNewConnection(), not registered yet
  got,            \* length of "request" in handleClientEvent()
  signals,        \* signals delivered so far
  resp            \* what was sent back on each connection

peerVars   == <<opened, sent, avail, fin, rst>>
kernelVars == <<backlog, listening, file, interest, ready>>
mapVars    == <<channels, clientChannels, pendingDelete>>
localVars  == <<active, cur, fresh, got>>
vars == <<peerVars, kernelVars, mapVars, loopRunning, pc, localVars, signals, resp>>

Stopped  == {"done", "failed"}
Handling == {"found", "recv", "parse", "handled"}
InLoop   == {"loop", "wait", "dispatch", "found", "accept", "add", "watch", "recv",
             "parse", "handled", "cleanup"}
Labels   == {"construct", "published", "register", "start", "exit"} \cup InLoop \cup Stopped

Replies  == {"none", "400", "200", "cut", "lost"}
-----------------------------------------------------------------------------
TypeOK ==
  /\ opened \subseteq Conns /\ fin \subseteq Conns /\ rst \subseteq Conns
  /\ sent \in [Conns -> 0 .. ReqLen]
  /\ avail \in [Conns -> 0 .. ReqLen]
  /\ backlog \subseteq Conns
  /\ listening \in BOOLEAN
  /\ file \in [Fds -> Conns \cup {None}]
  /\ interest \subseteq AllFds
  /\ ready \subseteq Fds
  /\ channels \in [AllFds -> Conns \cup {Listener, None}]
  /\ clientChannels \in [Fds -> Conns \cup {None}]
  /\ pendingDelete \in Seq(Fds)
  /\ loopRunning \in BOOLEAN
  /\ pc \in Labels
  /\ active \subseteq Event
  /\ cur \in Event \cup {None}
  /\ fresh \in Fds \cup {None}
  /\ got \in Nat
  /\ signals \in 0 .. MaxSignals
  /\ resp \in [Conns -> Replies]

(* main() has constructed nothing yet, but the handlers are installed and  *)
(* the constructor's socket is about to listen; clients find it open.      *)
Init ==
  /\ opened = {} /\ fin = {} /\ rst = {} /\ backlog = {}
  /\ sent = [c \in Conns |-> 0]
  /\ avail = [c \in Conns |-> 0]
  /\ listening = TRUE
  /\ file = [f \in Fds |-> None]
  /\ interest = {} /\ ready = {}
  /\ channels = [f \in AllFds |-> None]
  /\ clientChannels = [f \in Fds |-> None]
  /\ pendingDelete = <<>>
  /\ loopRunning = FALSE
  /\ pc = "construct"
  /\ active = {} /\ cur = None /\ fresh = None /\ got = 0
  /\ signals = 0
  /\ resp = [c \in Conns |-> "none"]
-----------------------------------------------------------------------------
(* The clients and the kernel.                                             *)

OnServer(c) == c \in Range(file)
Alive(c)    == c \in backlog \/ OnServer(c)

(* What epoll reports of a connection: it is readable when there is        *)
(* something to read, the end of the stream included; a reset socket is    *)
(* readable too, and in error, and hung up.                                *)
Poll(c) ==
  (IF avail[c] > 0 \/ c \in fin \cup rst THEN {"IN"} ELSE {})
    \cup (IF c \in rst THEN {"HUP", "ERR"} ELSE {})

(* Whatever arrives for a registered connection is an edge for its         *)
(* descriptor.                                                             *)
Wake(c) == ready' = ready \cup {f \in Fds \cap interest : file[f] = c}

Connect(c) ==
  /\ listening
  /\ c \notin opened
  /\ opened' = opened \cup {c}
  /\ backlog' = backlog \cup {c}
  /\ UNCHANGED <<sent, avail, fin, rst, listening, file, interest, ready,
                 mapVars, loopRunning, pc, localVars, signals, resp>>

(* The request reaches the server in as many pieces as TCP likes.          *)
PeerSends(c) ==
  /\ Alive(c) /\ c \notin fin \cup rst
  /\ \E n \in 1 .. ReqLen - sent[c] :
       /\ sent' = [sent EXCEPT ![c] = @ + n]
       /\ avail' = [avail EXCEPT ![c] = @ + n]
  /\ Wake(c)
  /\ UNCHANGED <<opened, fin, rst, backlog, listening, file, interest,
                 mapVars, loopRunning, pc, localVars, signals, resp>>

PeerFinishes(c) ==
  /\ Alive(c) /\ c \notin fin \cup rst
  /\ fin' = fin \cup {c}
  /\ Wake(c)
  /\ UNCHANGED <<opened, sent, avail, rst, backlog, listening, file, interest,
                 mapVars, loopRunning, pc, localVars, signals, resp>>

PeerResets(c) ==
  /\ Alive(c) /\ c \notin rst
  /\ rst' = rst \cup {c}
  /\ Wake(c)
  /\ UNCHANGED <<opened, sent, avail, fin, backlog, listening, file, interest,
                 mapVars, loopRunning, pc, localVars, signals, resp>>
-----------------------------------------------------------------------------
(* main() and start(), up to the loop.                                     *)

Step(from, to) == pc = from /\ pc' = to

(* global_application = &app; from here on a signal finds the server.      *)
Publish ==
  /\ Step("construct", "published")
  /\ UNCHANGED <<peerVars, kernelVars, mapVars, loopRunning, localVars, signals, resp>>

(* addChannel() for the listening socket: its channel is stored, and then  *)
(* epoll told of it.  If a signal closed the socket before, epoll_ctl()    *)
(* fails, and nobody looks at what addFd() returns.                        *)
Start ==
  /\ Step("published", "register")
  /\ channels' = [channels EXCEPT ![Lfd] = Listener]
  /\ UNCHANGED <<peerVars, kernelVars, clientChannels, pendingDelete, loopRunning,
                 localVars, signals, resp>>

AddListenFd ==
  /\ Step("register", "start")
  /\ interest' = interest \cup (IF listening THEN {Lfd} ELSE {})
  /\ UNCHANGED <<peerVars, backlog, listening, file, ready, mapVars, loopRunning,
                 localVars, signals, resp>>

EnterLoop ==
  /\ Step("start", "loop")
  /\ loopRunning' = TRUE
  /\ UNCHANGED <<peerVars, kernelVars, mapVars, localVars, signals, resp>>

LoopTest ==
  /\ Step("loop", IF loopRunning THEN "wait" ELSE "exit")
  /\ UNCHANGED <<peerVars, kernelVars, mapVars, loopRunning, localVars, signals, resp>>
-----------------------------------------------------------------------------
(* EventLoop::loop() and Channel::handleEvent().                           *)

(* Clients are edge-triggered; the listening socket is level-triggered.    *)
ReadyEvents ==
  {[fd |-> f, of |-> file[f], mask |-> Poll(file[f])] : f \in ready}
    \cup IF Lfd \in interest /\ backlog # {}
           THEN {[fd |-> Lfd, of |-> Listener, mask |-> {"IN"}]}
           ELSE {}

(* Epoller::wait(): at most MaxEvents of what is ready, and nothing when   *)
(* the second has passed or a signal has interrupted the call.             *)
EpollWait ==
  /\ Step("wait", "dispatch")
  /\ \E batch \in SUBSET ReadyEvents :
       /\ IF Cardinality(ReadyEvents) <= MaxEvents
            THEN batch = ReadyEvents
            ELSE Cardinality(batch) = MaxEvents
       /\ active' = batch
       /\ ready' = ready \ {e.fd : e \in batch}
  /\ UNCHANGED <<peerVars, backlog, listening, file, interest, mapVars,
                 loopRunning, cur, fresh, got, signals, resp>>

(* The next event of the batch: dropped when its channel is gone.          *)
FindChannel ==
  /\ pc = "dispatch"
  /\ \E e \in active :
       /\ active' = active \ {e}
       /\ IF channels[e.fd] = None
            THEN UNCHANGED <<cur, pc>>
            ELSE cur' = e /\ pc' = "found"
  /\ UNCHANGED <<peerVars, kernelVars, mapVars, loopRunning, fresh, got, signals, resp>>

(* A hang-up without data, and any error, end in callbacks nobody sets.    *)
Unhandled(e) == ("HUP" \in e.mask /\ "IN" \notin e.mask) \/ "ERR" \in e.mask

HandleEvent ==
  /\ pc = "found"
  /\ pc' = IF Unhandled(cur) THEN "handled"
           ELSE IF cur.fd = Lfd THEN "accept" ELSE "recv"
  /\ UNCHANGED <<peerVars, kernelVars, mapVars, loopRunning, localVars, signals, resp>>

(* The callback has returned; handleEvent() looks at revents_ once more,   *)
(* so the Channel must still be there, and the loop takes the next event.  *)
Handled ==
  /\ Step("handled", "dispatch")
  /\ cur' = None /\ got' = 0
  /\ UNCHANGED <<peerVars, kernelVars, mapVars, loopRunning, active, fresh, signals, resp>>

BatchDone ==
  /\ active = {}
  /\ Step("dispatch", "cleanup")
  /\ UNCHANGED <<peerVars, kernelVars, mapVars, loopRunning, localVars, signals, resp>>
-----------------------------------------------------------------------------
(* handleNewConnection().                                                  *)

Free(f) == file[f] = None

(* accept() gives the connection any descriptor that is free.              *)
AcceptConnection ==
  /\ Step("accept", "add")
  /\ listening
  /\ \E c \in backlog, f \in Fds :
       /\ Free(f)
       /\ backlog' = backlog \ {c}
       /\ file' = [file EXCEPT ![f] = c]
       /\ clientChannels' = [clientChannels EXCEPT ![f] = c]
       /\ fresh' = f
  /\ UNCHANGED <<peerVars, listening, interest, ready, channels, pendingDelete,
                 loopRunning, active, cur, got, signals, resp>>

(* addChannel() stores the channel, and then tells epoll: a signal between *)
(* the two takes the channel away and leaves the descriptor to be watched. *)
AddChannel ==
  /\ Step("add", "watch")
  /\ channels' = [channels EXCEPT ![fresh] = file[fresh]]
  /\ UNCHANGED <<peerVars, kernelVars, clientChannels, pendingDelete, loopRunning,
                 localVars, signals, resp>>

(* Epoller::addFd(): what has arrived before is reported as an edge.       *)
AddFd ==
  /\ Step("watch", "accept")
  /\ interest' = interest \cup {fresh}
  /\ ready' = ready \cup (IF Poll(file[fresh]) = {} THEN {} ELSE {fresh})
  /\ fresh' = None
  /\ UNCHANGED <<peerVars, backlog, listening, file, mapVars, loopRunning, active,
                 cur, got, signals, resp>>

(* Mutant: a failed accept() gives the descriptor up like a failed recv(). *)
AcceptFails_Retires ==
  /\ Step("accept", "handled")
  /\ backlog = {} \/ ~listening \/ \A f \in Fds : ~Free(f)
  /\ pendingDelete' = Append(pendingDelete, cur.fd)
  /\ UNCHANGED <<peerVars, kernelVars, channels, clientChannels, loopRunning,
                 localVars, signals, resp>>

(* Mutant: only EAGAIN leaves the loop over accept().                      *)
AcceptFails_Retries ==
  /\ Step("accept", IF listening THEN "handled" ELSE "accept")
  /\ backlog = {} \/ ~listening \/ \A f \in Fds : ~Free(f)
  /\ UNCHANGED <<peerVars, kernelVars, mapVars, loopRunning, localVars, signals, resp>>

(* EAGAIN, EMFILE, or EBADF after a signal has closed the listener.        *)
AcceptFails ==
  /\ Step("accept", "handled")
  /\ backlog = {} \/ ~listening \/ \A f \in Fds : ~Free(f)
  /\ UNCHANGED <<peerVars, kernelVars, mapVars, loopRunning, localVars, signals, resp>>
-----------------------------------------------------------------------------
(* handleClientEvent().  It works on a descriptor: whatever connection the *)
(* descriptor refers to now is the one it reads from and writes to.        *)

Peer == file[cur.fd]

(* Mutant: erase and close in the callback, as before the deferred close.  *)
Retire_Closes(f) ==
  /\ channels' = [channels EXCEPT ![f] = None]
  /\ interest' = interest \ {f}
  /\ ready' = ready \ {f}
  /\ clientChannels' = [clientChannels EXCEPT ![f] = None]
  /\ file' = [file EXCEPT ![f] = None]
  /\ UNCHANGED <<pendingDelete, backlog, listening>>

(* Mutant: the push_back is forgotten.                                     *)
Retire_Forgets(f) ==
  /\ channels' = [channels EXCEPT ![f] = None]
  /\ interest' = interest \ {f}
  /\ ready' = ready \ {f}
  /\ UNCHANGED <<pendingDelete, clientChannels, file, backlog, listening>>

(* EventLoop::removeChannel() and pendingDeleteFds_.push_back(): epoll     *)
(* forgets the descriptor now, closing it waits for the end of the batch.  *)
(* (A signal between the three statements finds the channel gone, clears   *)
(* the others and leaves the rest as one after them would: one step.)      *)
Retire(f) ==
  /\ channels' = [channels EXCEPT ![f] = None]
  /\ interest' = interest \ {f}
  /\ ready' = ready \ {f}
  /\ pendingDelete' = Append(pendingDelete, f)
  /\ UNCHANGED <<clientChannels, file, backlog, listening>>

(* Mutant: one recv() per event, as for a level-triggered descriptor.      *)
RecvData_OneBuffer ==
  /\ pc = "recv"
  /\ avail[Peer] > 0
  /\ LET n == IF avail[Peer] < BufSize THEN avail[Peer] ELSE BufSize IN
       /\ avail' = [avail EXCEPT ![Peer] = @ - n]
       /\ got' = got + n
       /\ pc' = IF n < BufSize THEN "parse" ELSE "handled"
  /\ UNCHANGED <<opened, sent, fin, rst, kernelVars, mapVars, loopRunning,
                 active, cur, fresh, signals, resp>>

(* Mutant: always read on until recv() has nothing more.                   *)
RecvData_UntilDrained ==
  /\ pc = "recv"
  /\ avail[Peer] > 0
  /\ LET n == IF avail[Peer] < BufSize THEN avail[Peer] ELSE BufSize IN
       /\ avail' = [avail EXCEPT ![Peer] = @ - n]
       /\ got' = got + n
  /\ UNCHANGED <<opened, sent, fin, rst, kernelVars, mapVars, loopRunning, pc,
                 active, cur, fresh, signals, resp>>

(* recv() got something; less than a buffer is taken for all there is.     *)
RecvData ==
  /\ pc = "recv"
  /\ avail[Peer] > 0
  /\ LET n == IF avail[Peer] < BufSize THEN avail[Peer] ELSE BufSize IN
       /\ avail' = [avail EXCEPT ![Peer] = @ - n]
       /\ got' = got + n
       /\ pc' = IF n < BufSize THEN "parse" ELSE "recv"
  /\ UNCHANGED <<opened, sent, fin, rst, kernelVars, mapVars, loopRunning,
                 active, cur, fresh, signals, resp>>

RecvWouldBlock ==
  /\ Step("recv", "parse")
  /\ avail[Peer] = 0 /\ Peer \notin fin \cup rst
  /\ UNCHANGED <<peerVars, kernelVars, mapVars, loopRunning, localVars, signals, resp>>

(* Mutant: "break" where the code returns.                                 *)
RecvClosed_Breaks ==
  /\ Step("recv", "parse")
  /\ avail[Peer] = 0 /\ Peer \in fin \cup rst
  /\ Retire(cur.fd)
  /\ UNCHANGED <<peerVars, loopRunning, localVars, signals, resp>>

(* End of stream or ECONNRESET: whatever was read so far is thrown away.   *)
RecvClosed ==
  /\ Step("recv", "handled")
  /\ avail[Peer] = 0 /\ Peer \in fin \cup rst
  /\ Retire(cur.fd)
  /\ UNCHANGED <<peerVars, loopRunning, localVars, signals, resp>>

(* A peer that finished and then reset: send() raises SIGPIPE.             *)
Broken(c) == c \in fin /\ c \in rst

(* send(): one of "replies" goes out, or nothing does if the peer is gone. *)
Send(c, replies) ==
  /\ ~Broken(c)
  /\ \E r \in (IF c \in rst THEN {"lost"} ELSE replies) : resp' = [resp EXCEPT ![c] = r]

BadRequest ==
  /\ Step("parse", "handled")
  /\ got < HeaderLen
  /\ Send(Peer, {"400"})
  /\ Retire(cur.fd)
  /\ UNCHANGED <<peerVars, loopRunning, localVars, signals>>

(* Mutant: the connection is kept after the answer.                        *)
RouteRequest_KeepsAlive ==
  /\ Step("parse", "handled")
  /\ got >= HeaderLen
  /\ Send(Peer, {"200", "cut"})
  /\ UNCHANGED <<peerVars, kernelVars, mapVars, loopRunning, localVars, signals>>

(* The handler or the static file answers; the socket does not block, so   *)
(* a response longer than its buffer is cut, and send() is not repeated.   *)
RouteRequest ==
  /\ Step("parse", "handled")
  /\ got >= HeaderLen
  /\ Send(Peer, {"200", "cut"})
  /\ Retire(cur.fd)
  /\ UNCHANGED <<peerVars, loopRunning, localVars, signals>>
-----------------------------------------------------------------------------
(* cleanupPendingChannels(), one descriptor after the other.               *)

(* Mutant: close() without clientChannels_.erase().                        *)
CloseFd_KeepsChannel(f) ==
  /\ file' = [file EXCEPT ![f] = None]
  /\ interest' = interest \ {f}
  /\ ready' = ready \ {f}
  /\ UNCHANGED clientChannels

CloseFd(f) ==
  /\ clientChannels' = [clientChannels EXCEPT ![f] = None]
  /\ file' = [file EXCEPT ![f] = None]
  /\ interest' = interest \ {f}
  /\ ready' = ready \ {f}

CleanupOne ==
  /\ pc = "cleanup"
  /\ pendingDelete # <<>>
  /\ CloseFd(Head(pendingDelete))
  /\ pendingDelete' = Tail(pendingDelete)
  /\ UNCHANGED <<peerVars, backlog, listening, channels, loopRunning, pc,
                 localVars, signals, resp>>

CleanupDone ==
  /\ Step("cleanup", "loop")
  /\ pendingDelete = <<>>
  /\ UNCHANGED <<peerVars, kernelVars, mapVars, loopRunning, localVars, signals, resp>>
-----------------------------------------------------------------------------
(* Signals, and the ends of the process.                                   *)

(* ChatroomServerEpoll::stop() and EventLoop::quit(), wherever the thread  *)
(* happens to be.                                                          *)
Stop ==
  LET known == {f \in AllFds : channels[f] # None} IN
  /\ listening' = FALSE
  /\ backlog' = {}
  /\ loopRunning' = FALSE
  /\ interest' = interest \ (known \cup {Lfd})
  /\ ready' = ready \ known
  /\ channels' = [f \in AllFds |-> None]

(* signalHandler(): global_application is still null during construction.  *)
SignalTooEarly ==
  /\ signals < MaxSignals
  /\ pc = "construct"
  /\ signals' = signals + 1
  /\ UNCHANGED <<peerVars, kernelVars, mapVars, loopRunning, pc, localVars, resp>>

Signal ==
  /\ signals < MaxSignals
  /\ pc \notin Stopped \cup {"construct"}
  /\ signals' = signals + 1
  /\ Stop
  /\ UNCHANGED <<peerVars, file, clientChannels, pendingDelete, pc, localVars, resp>>

(* The kernel closes every descriptor of a process that ends.              *)
ProcessEnds(label) ==
  /\ pc' = label
  /\ listening' = FALSE /\ backlog' = {}
  /\ file' = [f \in Fds |-> None]
  /\ interest' = {} /\ ready' = {}
  /\ channels' = [f \in AllFds |-> None]
  /\ clientChannels' = [f \in Fds |-> None]
  /\ pendingDelete' = <<>>
  /\ loopRunning' = FALSE
  /\ active' = {} /\ cur' = None /\ fresh' = None /\ got' = 0
  /\ UNCHANGED <<peerVars, signals, resp>>

(* loop() returns only after a signal, so main() need not wait for its own *)
(* flag: it stops the server again and returns.                            *)
Exit == pc = "exit" /\ ProcessEnds("done")

(* The POST handlers catch everything; GET /rooms, GET /users and the      *)
(* static files do not, and nothing short of main() does.                  *)
HandlerThrows == pc = "parse" /\ got >= HeaderLen /\ ProcessEnds("failed")

(* SIGPIPE keeps its default action.                                       *)
BrokenPipe == pc = "parse" /\ Broken(Peer) /\ ProcessEnds("failed")

(* quit() has cleared channels_ between find() and the use of its result:  *)
(* undefined; the freed node may still be good, or the process crashes.    *)
StaleIterator == pc = "found" /\ channels[cur.fd] = None /\ ProcessEnds("failed")

Terminated == pc \in Stopped /\ UNCHANGED vars
-----------------------------------------------------------------------------
Clients ==
  \E c \in Conns : Connect(c) \/ PeerSends(c) \/ PeerFinishes(c) \/ PeerResets(c)

LoopThread ==
  \/ Publish \/ Start \/ AddListenFd \/ EnterLoop \/ LoopTest
  \/ EpollWait \/ FindChannel \/ HandleEvent \/ Handled \/ BatchDone
  \/ AcceptConnection \/ AddChannel \/ AddFd \/ AcceptFails
  \/ RecvData \/ RecvWouldBlock \/ RecvClosed \/ BadRequest \/ RouteRequest
  \/ CleanupOne \/ CleanupDone
  \/ Exit \/ HandlerThrows \/ BrokenPipe \/ StaleIterator

Next == Clients \/ LoopThread \/ SignalTooEarly \/ Signal \/ Terminated

Spec == Init /\ [][Next]_vars

(* The thread is scheduled; clients and signals owe nothing.               *)
FairSpec == Spec /\ WF_vars(LoopThread)
-----------------------------------------------------------------------------
(* Safety.                                                                 *)

Pending == Range(pendingDelete)

(* The event in hand is handled on behalf of a client.                     *)
OnClient == pc \in Handling /\ cur.fd # Lfd

(* While a client's callback runs, and while handleEvent() still looks at  *)
(* the Channel after it, clientChannels_ keeps that very Channel alive and *)
(* its descriptor means the connection the event was reported for: neither *)
(* a close in the same batch nor a signal may take it away (the            *)
(* use-after-free the README reports).                                     *)
CallbackChannelAlive ==
  OnClient => clientChannels[cur.fd] = cur.of /\ file[cur.fd] = cur.of

(* Watched by epoll, and unknown to the loop.                              *)
Orphan(f) == f \in interest /\ channels[f] = None

(* The maps agree: clientChannels_ has exactly the open descriptors; the   *)
(* loop has each channel under the connection its descriptor refers to,    *)
(* however often descriptors are closed and reused, and epoll watches it,  *)
(* or is about to be told; and epoll watches nothing else, but for the one *)
(* descriptor that was being registered when a signal stopped the loop,    *)
(* which is then the only one watched.                                     *)
OneOwnerPerDescriptor ==
  /\ clientChannels = file
  /\ \A f \in Fds :
       /\ channels[f] # None =>
            channels[f] = file[f] /\ (f \in interest \/ (pc = "watch" /\ f = fresh))
       /\ Orphan(f) => ~Free(f) /\ ~loopRunning /\ interest \cap Fds = {f}

(* A descriptor is queued for closing once, is still open, and is out of   *)
(* the loop: a second close() would hit whoever got the number since.      *)
RetiredOnce ==
  /\ IsInjective(pendingDelete)
  /\ \A f \in Pending : ~Free(f) /\ channels[f] = None

(* While the loop runs, every open descriptor is watched, just accepted,   *)
(* or waiting to be closed: none is forgotten.                             *)
EveryDescriptorIsOwned ==
  loopRunning => \A f \in Fds : ~Free(f) => channels[f] # None \/ f \in Pending \/ f = fresh

(* Clients are edge-triggered, so nothing may be left unread behind an     *)
(* edge already consumed: whatever a connection the loop watches has to    *)
(* read is still to be reported, in the batch, or being read.              *)
NoLostEdge ==
  \A f \in interest \cap Fds :
    channels[f] # None /\ file[f] \notin rst /\ (avail[file[f]] > 0 \/ file[f] \in fin) =>
      \/ f \in ready
      \/ \E e \in active : e.fd = f
      \/ OnClient /\ cur.fd = f

(* A request that ends with a full buffer, behind which recv() is called   *)
(* once more.                                                              *)
FillsBuffers == ReqLen % BufSize = 0

(* A client that sent its whole request and did not reset gets an answer   *)
(* before its connection is given up, unless the request fills the buffers *)
(* and the client has finished sending.                                    *)
CompleteRequestAnswered ==
  signals = 0 /\ pc \notin Stopped =>
    \A c \in opened \ rst :
      sent[c] = ReqLen /\ resp[c] = "none" =>
        \/ c \in backlog \/ \E f \in Fds \ Pending : file[f] = c
        \/ FillsBuffers /\ c \in fin

(* One request, one response: once a connection is answered, nothing more  *)
(* is sent or read on it.                                                  *)
AnsweredOnce ==
  [][\A c \in Conns : resp[c] # "none" => resp'[c] = resp[c] /\ avail'[c] >= avail[c]]_vars
-----------------------------------------------------------------------------
(* Why the safety properties hold: an inductive invariant.                 *)

(* The event is for the listening socket, or for the connection its        *)
(* descriptor still refers to; one nobody handles reports a reset.         *)
EventInv(e) ==
  /\ e.fd # Lfd => file[e.fd] = e.of
  /\ Unhandled(e) => e.fd # Lfd /\ e.of \in rst

PeerInv ==
  /\ backlog \subseteq opened
  /\ \A c \in Conns : avail[c] <= sent[c]
  /\ \A f \in Fds : ~Free(f) => file[f] \in opened \ backlog
  /\ \A f, g \in Fds : ~Free(f) /\ file[f] = file[g] => f = g

MapInv ==
  /\ clientChannels = file
  /\ \A f \in Fds : channels[f] # None => channels[f] = file[f] /\ f \notin Pending
  /\ \A f \in interest \cap Fds : ~Free(f)
  /\ ready \subseteq interest
  /\ RetiredOnce

ThreadInv ==
  /\ pc \in {"construct", "published", "register", "start"} => \A f \in Fds : Free(f)
  /\ active # {} => pc \in {"dispatch", "accept", "add", "watch"} \cup Handling
  /\ cur # None <=> pc \in {"accept", "add", "watch"} \cup Handling
  /\ pc \in {"recv", "parse"} => cur.fd # Lfd
  /\ pc \in {"accept", "add", "watch"} => cur.fd = Lfd
  /\ OnClient /\ pc # "handled" => cur.fd \notin Pending
  /\ OnClient /\ pc = "handled" => cur.fd \in Pending \/ file[cur.fd] \in rst
  /\ fresh # None <=> pc \in {"add", "watch"}
  /\ pc \in {"add", "watch"} => ~Free(fresh) /\ fresh \notin Pending \cup interest
  /\ pc = "add" => channels[fresh] = None
  /\ \A e \in active : EventInv(e)
  /\ cur # None => EventInv(cur)

(* What was answered is on its way to be closed.                           *)
ReplyInv ==
  \A c \in Conns : resp[c] # "none" =>
    c \in opened \ backlog /\ \A f \in Fds : file[f] = c => f \in Pending

(* Registering a descriptor takes two statements, and a signal may clear   *)
(* the map between them.  It has closed the listening socket, so that no   *)
(* further descriptor follows.                                             *)
RegisterInv ==
  /\ \A f \in Fds : channels[f] # None => f \in interest \/ (pc = "watch" /\ f = fresh)
  /\ pc = "watch" /\ channels[fresh] = None =>
       ~loopRunning /\ ~listening /\ interest \cap Fds = {}
  /\ \A f \in Fds : Orphan(f) =>
       /\ ~loopRunning /\ ~listening /\ interest \cap Fds = {f}
       /\ pc \notin {"add", "watch"}

IInv ==
  /\ TypeOK /\ PeerInv /\ MapInv /\ ThreadInv /\ RegisterInv /\ ReplyInv
  /\ EveryDescriptorIsOwned /\ NoLostEdge

(* What was sent is still to be read, or has been read in the callback     *)
(* under way, which reads on only after full buffers.                      *)
ReadInv ==
  /\ \A c \in Conns : c \notin opened \/ c \in backlog => avail[c] = sent[c]
  /\ \A f \in Fds \ Pending : ~Free(f) =>
       sent[file[f]] = avail[file[f]] + (IF OnClient /\ cur.fd = f THEN got ELSE 0)
  /\ got # 0 => pc \in {"recv", "parse"} \/ (pc = "handled" /\ cur.fd \in Pending)
  /\ pc = "recv" => got % BufSize = 0

(* A connection that was given up without an answer was reset, or had      *)
(* ended too early, or behind a full buffer.                               *)
GivenUp(c) == c \in opened \ backlog /\ \A f \in Fds : file[f] = c => f \in Pending

GiveUpInv ==
  signals = 0 /\ pc \notin Stopped =>
    \A c \in Conns : GivenUp(c) /\ resp[c] = "none" =>
      c \in rst \/ (c \in fin /\ (sent[c] < ReqLen \/ FillsBuffers))
-----------------------------------------------------------------------------
(* Liveness.                                                               *)

(* An accepted connection that sends anything, or finishes, is answered or *)
(* dropped and its descriptor closed, unless it is reset.                  *)
Served ==
  \A c \in Conns : OnServer(c) /\ (sent[c] > 0 \/ c \in fin) ~> ~OnServer(c) \/ c \in rst

(* A loop told to stop does stop, whatever it was doing, and so does the   *)
(* process.                                                                *)
StopLeavesLoop == pc \in InLoop /\ ~loopRunning ~> pc \in Stopped

(* main.cpp's promise: a signal shuts the server down.                     *)
GracefulStop == signals > 0 ~> pc \in Stopped
-----------------------------------------------------------------------------
(* The server implements ConnectionLife: the stage of each connection.     *)

StageOf(c) ==
  IF c \notin opened THEN "absent"
  ELSE IF c \in backlog THEN "queued"
  ELSE IF ~OnServer(c) THEN "closed"
  ELSE IF resp[c] # "none" THEN "answered"
  ELSE IF \E f \in Pending : file[f] = c THEN "dropped"
  ELSE "open"

Life == INSTANCE ConnectionLife WITH life <- [c \in Conns |-> StageOf(c)]

(* Every connection lives as ConnectionLife says, and is released.         *)
ImplementsConnectionLife == Life!LifeSpec
=============================================================================
