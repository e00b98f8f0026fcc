----------------------------- MODULE HttpServer -----------------------------
(***************************************************************************)
(* http::HttpServer: the accepting thread, which runs the signal handler   *)
(* too, the workers of its ThreadPool (by its abstraction, TaskPool: a     *)
(* task is the descriptor handleClient() is called with), and the clients. *)
(* A worker reads once, parses what has arrived with HttpRequest::parse(), *)
(* runs a handler, writes the answer in pieces, and closes.  How one       *)
(* handler uses the database is ChatServer.                                *)
(***************************************************************************)
EXTENDS HttpRequest, FiniteSets

CONSTANTS
  Workers,      \* the pool's workers
  Clients,      \* connections, numbered from 1 in the order they are made
  Fds,          \* the numbers left for their descriptors
  Requests,     \* what they may send
  Total,        \* write()s an answer takes at most
  None

ASSUME HttpServerAssumption ==
  /\ IsFiniteSet(Clients) /\ Clients = 1 .. Cardinality(Clients)
  /\ Fds \subseteq Nat /\ Total \in Nat \ {0}
  /\ None \notin Fds /\ None \notin Requests

ASSUME RequestsAssumption == \A r \in Requests : WellFormed(r)

VARIABLES
  running,      \* running_
  apc,          \* where the accepting thread is
  accepted,     \* the descriptor it has just accepted
  queues, held, \* the pool: descriptors waiting, and in the workers' hands
  stopped,      \* the pool's destructor has begun
  wpc,          \* where each worker is in handleClient()
  request,      \* what it has read, until a handler has run
  remaining,    \* what it has still to write
  backlog,      \* clients that wait to be accepted
  fd,           \* the descriptor of each accepted connection
  sock,         \* the client's side of each connection
  leaked,       \* connections an exception left open
  ended         \* the process is gone

poolVars   == <<queues, held, stopped>>
acceptVars == <<running, apc, accepted>>
workVars   == <<wpc, request, remaining>>
connVars   == <<backlog, fd, sock, leaked>>
vars == <<acceptVars, poolVars, workVars, connVars, ended>>

Pool == INSTANCE TaskPool WITH Tasks <- Fds, NoTask <- None

Nothing == [of |-> None, read |-> <<>>]

(* What one read() may take of a request, and what the parser makes of it. *)
Arrivals ==
  UNION {{[of |-> r, read |-> SubSeq(Rendered(r), 1, n)] : n \in 1 .. Len(Rendered(r))} :
           r \in Requests}

Parsed == [a \in Arrivals |-> Parse(a.read)]

ConnType ==
  [phase : {"new", "open", "finished", "reset", "closed"}, sent : BOOLEAN,
   got : 0 .. Total, answered : BOOLEAN]

TypeOK ==
  /\ running \in BOOLEAN /\ stopped \in BOOLEAN /\ ended \in BOOLEAN
  /\ apc \in {"start", "test", "accept", "blocked", "dispatch",
             "returned", "join", "gone"}
  /\ accepted \in Fds \cup {None}
  /\ queues \in [Workers -> Seq(Fds)]
  /\ held \in [Workers -> Fds \cup {None}]
  /\ wpc \in [Workers -> {"read", "find", "write", "close"}]
  /\ request \in [Workers -> Arrivals \cup {Nothing}]
  /\ remaining \in [Workers -> 0 .. Total]
  /\ backlog \in Seq(Clients)
  /\ fd \in [Clients -> Fds \cup {None}]
  /\ leaked \subseteq Clients
  /\ sock \in [Clients -> ConnType]

Init ==
  /\ running = FALSE /\ apc = "start" /\ accepted = None
  /\ Pool!Init
  /\ wpc = [w \in Workers |-> "read"]
  /\ request = [w \in Workers |-> Nothing]
  /\ remaining = [w \in Workers |-> 0]
  /\ backlog = <<>>
  /\ fd = [c \in Clients |-> None]
  /\ sock = [c \in Clients |-> [phase |-> "new", sent |-> FALSE, got |-> 0, answered |-> FALSE]]
  /\ leaked = {} /\ ended = FALSE
-----------------------------------------------------------------------------
(* Clients.                                                                *)

Phase(c, p) == sock' = [sock EXCEPT ![c].phase = p]

InLoop == apc \in {"test", "accept", "blocked", "dispatch"}

Connect(c) ==
  /\ sock[c].phase = "new" /\ (apc = "start" \/ InLoop)
  /\ \A b \in 1 .. c - 1 : sock[b].phase # "new"
  /\ backlog' = Append(backlog, c)
  /\ Phase(c, "open")
  /\ UNCHANGED <<acceptVars, poolVars, workVars, fd, leaked, ended>>

(* A request arrives, or a piece of it.                                    *)
Send(c) ==
  /\ sock[c].phase = "open" /\ ~sock[c].sent
  /\ sock' = [sock EXCEPT ![c].sent = TRUE]
  /\ UNCHANGED <<acceptVars, poolVars, workVars, backlog, fd, leaked, ended>>

(* It goes without having sent anything.                                   *)
Finish(c) ==
  /\ sock[c].phase = "open" /\ ~sock[c].sent /\ Phase(c, "finished")
  /\ UNCHANGED <<acceptVars, poolVars, workVars, backlog, fd, leaked, ended>>

Reset(c) ==
  /\ sock[c].phase = "open" /\ Phase(c, "reset")
  /\ UNCHANGED <<acceptVars, poolVars, workVars, backlog, fd, leaked, ended>>

Client(c) == Connect(c) \/ Send(c) \/ Finish(c) \/ Reset(c)
-----------------------------------------------------------------------------
(* run(), in the main thread.                                              *)

Goes(from, to) == apc = from /\ apc' = to

(* A new descriptor gets the lowest number that is free.                   *)
Free == {f \in Fds : \A c \in Clients : fd[c] # f}

Run ==
  /\ Goes("start", "test")
  /\ running' = TRUE
  /\ UNCHANGED <<accepted, poolVars, workVars, connVars, ended>>

Test ==
  /\ Goes("test", IF running THEN "accept" ELSE "returned")
  /\ UNCHANGED <<running, accepted, poolVars, workVars, connVars, ended>>

Accept ==
  /\ apc \in {"accept", "blocked"} /\ apc' = "dispatch"
  /\ backlog # <<>>
  /\ Free # {}
  /\ accepted' = Min(Free)
  /\ fd' = [fd EXCEPT ![Head(backlog)] = Min(Free)]
  /\ backlog' = Tail(backlog)
  /\ UNCHANGED <<running, poolVars, workVars, sock, leaked, ended>>

(* The connection, or the last free descriptor, is gone, or all are in use *)
(* (the database and the files have some, too): back to the loop's test.   *)
AcceptFails ==
  /\ apc \in {"accept", "blocked"} /\ apc' = "test"
  /\ backlog # <<>>
  /\ UNCHANGED <<running, accepted, poolVars, workVars, connVars, ended>>

AcceptBlocks ==
  /\ Goes("accept", "blocked") /\ backlog = <<>>
  /\ UNCHANGED <<running, accepted, poolVars, workVars, connVars, ended>>

(* Mutant: the accepting thread closes its copy of the descriptor.         *)
Dispatch_Closes ==
  /\ Goes("dispatch", "test")
  /\ \E q \in Workers : Pool!Submit(q, accepted)
  /\ accepted' = None
  /\ fd' = [c \in Clients |-> IF fd[c] = accepted THEN None ELSE fd[c]]
  /\ UNCHANGED <<running, workVars, backlog, sock, leaked, ended>>

(* Mutant: the flag is tested only when accept() fails.                    *)
Dispatch_AcceptsAgain ==
  /\ Goes("dispatch", "accept")
  /\ \E q \in Workers : Pool!Submit(q, accepted)
  /\ accepted' = None
  /\ UNCHANGED <<running, workVars, connVars, ended>>

Dispatch ==
  /\ Goes("dispatch", "test")
  /\ \E q \in Workers : Pool!Submit(q, accepted)
  /\ accepted' = None
  /\ UNCHANGED <<running, workVars, connVars, ended>>

(* A signal, which interrupts an accept() that waits; before run() has     *)
(* set the flag it is forgotten.                                           *)
Signal ==
  /\ apc = "start" \/ InLoop
  /\ running' = FALSE
  /\ apc' = IF apc = "blocked" THEN "test" ELSE apc
  /\ UNCHANGED <<accepted, poolVars, workVars, connVars, ended>>
-----------------------------------------------------------------------------
(* handleClient(), in worker w.                                            *)

Served(w) == CHOOSE c \in Clients : fd[c] = held[w]

At(w, pc) == held[w] # None /\ wpc[w] = pc
To(w, pc) == wpc' = [wpc EXCEPT ![w] = pc]

Take(w, q) ==
  /\ Pool!Begin(w, q)
  /\ UNCHANGED <<acceptVars, workVars, connVars, ended>>

(* read() takes as much of the request as has arrived and fits the buffer, *)
(* and only once: what comes later is never looked at.                     *)
Read(w) ==
  LET c == Served(w) IN
  /\ At(w, "read") /\ sock[c].phase # "reset" /\ sock[c].sent
  /\ \E a \in Arrivals : request' = [request EXCEPT ![w] = a]
  /\ To(w, "find")
  /\ UNCHANGED <<acceptVars, poolVars, remaining, connVars, ended>>

(* The client has gone without a byte, or is reset.                        *)
ReadNothing(w) ==
  LET c == Served(w) IN
  /\ At(w, "read")
  /\ sock[c].phase \in {"finished", "reset"}
  /\ To(w, "close")
  /\ UNCHANGED <<acceptVars, poolVars, request, remaining, connVars, ended>>

(* An exception of the parser passes handleClient() before its close(),    *)
(* and ends in the future nobody asks.                                     *)
ParseThrows(w) ==
  /\ At(w, "find") /\ Parsed[request[w]].throws
  /\ leaked' = leaked \cup {Served(w)}
  /\ Pool!Return(w)
  /\ To(w, "read") /\ request' = [request EXCEPT ![w] = Nothing]
  /\ UNCHANGED <<acceptVars, remaining, backlog, fd, sock, ended>>

(* findHandler() and the handler.  The routes and the database are         *)
(* destroyed before the pool joins its workers: who is on his way through  *)
(* a handler then may end the process.                                     *)
Handle(w) ==
  /\ At(w, "find") /\ ~Parsed[request[w]].throws
  /\ sock' = [sock EXCEPT ![Served(w)].answered = TRUE]
  /\ remaining' = [remaining EXCEPT ![w] = Total]
  /\ To(w, "write") /\ request' = [request EXCEPT ![w] = Nothing]
  /\ UNCHANGED <<acceptVars, poolVars, backlog, fd, leaked, ended>>

UseAfterFree(w) ==
  /\ At(w, "find") /\ apc = "join"
  /\ ended' = TRUE
  /\ UNCHANGED <<acceptVars, poolVars, workVars, connVars>>

(* Mutant: after a partial write() the whole answer is sent again.         *)
Write_Repeats(w) ==
  LET c == Served(w) IN
  /\ At(w, "write") /\ sock[c].phase # "reset" /\ remaining[w] > 0
  /\ \E n \in 1 .. Total :
       /\ sock' = [sock EXCEPT ![c].got = @ + n]
       /\ remaining' = [remaining EXCEPT ![w] = Total - n]
  /\ UNCHANGED <<acceptVars, poolVars, wpc, request, backlog, fd, leaked, ended>>

(* Mutant: what write() did not take is not sent again.                    *)
Write_Once(w) ==
  LET c == Served(w) IN
  /\ At(w, "write") /\ sock[c].phase # "reset" /\ remaining[w] > 0
  /\ \E n \in 1 .. remaining[w] : sock' = [sock EXCEPT ![c].got = @ + n]
  /\ remaining' = [remaining EXCEPT ![w] = 0]
  /\ UNCHANGED <<acceptVars, poolVars, wpc, request, backlog, fd, leaked, ended>>

(* write() takes a part of what remains; interrupted, it is repeated.      *)
Write(w) ==
  LET c == Served(w) IN
  /\ At(w, "write") /\ sock[c].phase # "reset" /\ remaining[w] > 0
  /\ \E n \in 1 .. remaining[w] :
       /\ sock' = [sock EXCEPT ![c].got = @ + n]
       /\ remaining' = [remaining EXCEPT ![w] = @ - n]
  /\ UNCHANGED <<acceptVars, poolVars, wpc, request, backlog, fd, leaked, ended>>

WriteEnds(w) ==
  /\ At(w, "write") /\ (remaining[w] = 0 \/ sock[Served(w)].phase = "reset")
  /\ To(w, "close") /\ remaining' = [remaining EXCEPT ![w] = 0]
  /\ UNCHANGED <<acceptVars, poolVars, request, connVars, ended>>

(* To a connection that is gone write() raises SIGPIPE, which nobody       *)
(* ignores, or fails.                                                      *)
BrokenPipe(w) ==
  /\ At(w, "write") /\ remaining[w] > 0 /\ sock[Served(w)].phase = "reset"
  /\ ended' = TRUE
  /\ UNCHANGED <<acceptVars, poolVars, workVars, connVars>>


Close(w) ==
  LET c == Served(w) IN
  /\ At(w, "close")
  /\ fd' = [fd EXCEPT ![c] = None]
  /\ sock' = IF sock[c].phase = "reset" THEN sock ELSE [sock EXCEPT ![c].phase = "closed"]
  /\ Pool!Return(w)
  /\ To(w, "read")
  /\ UNCHANGED <<acceptVars, request, remaining, backlog, leaked, ended>>

HandleClient(w) ==
  \/ Read(w) \/ ReadNothing(w) \/ ParseThrows(w) \/ Handle(w)
  \/ Write(w) \/ WriteEnds(w) \/ Close(w)

Worker(w) ==
  (\E q \in Workers : Take(w, q)) \/ HandleClient(w) \/ UseAfterFree(w) \/ BrokenPipe(w)
-----------------------------------------------------------------------------
(* The destruction, member by member: the database, the listening socket   *)
(* and the routes first, then the pool, which joins its workers and drops  *)
(* what is still queued.                                                   *)
Destroy ==
  /\ Goes("returned", "join")
  /\ Pool!Stop
  /\ UNCHANGED <<running, accepted, workVars, connVars, ended>>

Exit ==
  /\ Goes("join", "gone") /\ \A w \in Workers : held[w] = None
  /\ ended' = TRUE
  /\ UNCHANGED <<running, accepted, poolVars, workVars, connVars>>

AcceptThread ==
  \/ Run \/ Test \/ Accept \/ AcceptFails \/ AcceptBlocks \/ Dispatch
  \/ Destroy \/ Exit

Ended == ended /\ UNCHANGED vars

Next ==
  \/ ~ended /\ ((\E c \in Clients : Client(c)) \/ AcceptThread \/ Signal
                \/ (\E w \in Workers : Worker(w)))
  \/ Ended

Spec == Init /\ [][Next]_vars

(* Threads are scheduled, the pool serves a worker's own queue, and        *)
(* accept() does not fail for ever while someone waits and a descriptor is *)
(* free; a client sends something at some time, or goes.  Nobody has to    *)
(* connect, or to send a signal.                                           *)
Fairness ==
  /\ WF_vars(~ended /\ AcceptThread) /\ SF_vars(~ended /\ Accept)
  /\ \A w \in Workers :
       /\ WF_vars(~ended /\ ~stopped /\ Take(w, w))
       /\ WF_vars(~ended /\ HandleClient(w))
  /\ \A c \in Clients : WF_vars(~ended /\ (Send(c) \/ Finish(c)))

FairSpec == Spec /\ Fairness
-----------------------------------------------------------------------------
(* Properties.                                                             *)

(* Every open descriptor is in one place, on its way from accept() to      *)
(* close(): nobody else has it, so that it cannot be closed under a worker *)
(* and given to another client, and none is forgotten, but those that an   *)
(* exception carried past close().                                         *)
Places(f) ==
  {<<"accepted", 0, 0>> : x \in {f} \cap {accepted}}
  \cup (UNION {{<<"queued", w, i>> : i \in {j \in DOMAIN queues[w] : queues[w][j] = f}} :
                 w \in Workers})
  \cup {<<"held", w, 0>> : w \in {v \in Workers : held[v] = f}}

DescriptorsOwned ==
  \A f \in Fds :
    Cardinality(Places(f)) = IF \E c \in Clients \ leaked : fd[c] = f THEN 1 ELSE 0

(* An answer that was begun is written to its end before the connection is *)
(* closed, however little each write() takes, unless the client reset it.  *)
WholeAnswers ==
  \A c \in Clients :
    sock[c].answered /\ sock[c].phase = "closed" => sock[c].got = Total

(* Wherever the one read() cuts a request, both parsers take from it what  *)
(* the client sent, or nothing.  All of a request that has a header and    *)
(* fits the buffer is understood as it was meant, by both alike; the one   *)
(* thing to throw on is a header that ends at its colon.                   *)
ParsedAsSent ==
  \A w \in Workers :
    At(w, "find") =>
      LET r == request[w].of
          path == Before(r.target, "?")
          got == Parsed[request[w]]
          epollGot == ParseHttpRequest(request[w].read)
          sent == [method |-> r.method, path |-> path, body |-> r.body, throws |-> FALSE]
      IN /\ Understood(got, r, path)
         /\ epollGot.throws \/ Understood(epollGot, r, r.target)
         /\ got.throws => \E i \in DOMAIN r.headers : EndsAtColon(r.headers[i])
         /\ request[w].read = Rendered(r) /\ r.headers # <<>> /\ ~got.throws =>
              /\ got = sent
              /\ epollGot = [sent EXCEPT !.path = r.target]
              /\ path = r.target /\ RouteOf(r.method, path) # "empty" =>
                   FindHandler(r.method, path) = RouteOf(r.method, path)

(* Every client that connects is served to the end and its descriptor      *)
(* released, as long as the server runs and is not exhausted, except those *)
(* that send a header the parser throws on.  Each of them takes a          *)
(* descriptor with him; when they have taken all, accept() fails for good, *)
(* and whoever waits then is never served.  Short of the last descriptor   *)
(* the leak delays the others and stops nobody.                            *)
Exhausted == \A f \in Fds : \E c \in leaked : fd[c] = f

Released(c) ==
  sock[c].phase \in {"closed", "reset"} /\ fd[c] = None /\ c \notin Range(backlog)


(* A server told to stop leaves run() as soon as it is at the test of its  *)
(* loop or somebody connects, also if it cannot accept him.  Told so just  *)
(* before it waits in accept(), it goes on waiting.                        *)
StopEnds ==
  ~running /\ (apc \in {"test", "dispatch"} \/ (apc \in {"accept", "blocked"} /\ backlog # <<>>))
    ~> ~InLoop \/ ended
=============================================================================
