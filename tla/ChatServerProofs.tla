-------------------------- MODULE ChatServerProofs --------------------------
(***************************************************************************)
(* Theorems about ChatServer, for any numbers of threads, clients, users   *)
(* and rooms: the types; that answers hold, name their user or room alone  *)
(* and are fresh; that polls miss nothing but what was saved later; and    *)
(* that the service is a MessageBoard.                                     *)
(*                                                                         *)
(* The invariant IInv says nothing of literal: from the first quote on the *)
(* model leaves open what the tables hold, and keeps what it says of them. *)
(***************************************************************************)
EXTENDS ChatServer, FiniteSetTheorems, TLAPS

USE ServerAssumption

(* The answers there are, and those about to be.                           *)
Replies == answers \cup {Reply(t) : t \in {s \in Threads : At(s, "answer")}}

(* A thread runs the handler of its request, and what the handler has      *)
(* found or done so far still is so.                                       *)
HandlerOK(t) ==
  /\ At(t, "idle") => thread[t].id = None
  /\ ~At(t, "idle") => Req(t) \in Requests
  /\ At(t, "validate") => Req(t).op \in {"register", "login"}
  /\ At(t, "insert") => Req(t).op = "register"
  /\ At(t, "online") => /\ Req(t).op = "login"
                        /\ users[Req(t).user] # None
                        /\ users[Req(t).user].password = Req(t).password
  /\ At(t, "offline") => Req(t).op = "logout"
  /\ At(t, "create") => Req(t).op = "create_room"
  /\ At(t, "add") => \/ Req(t).op = "join_room"
                     \/ Req(t).op = "create_room" /\ rooms[Req(t).room] = Req(t).user
  /\ At(t, "save") => Req(t).op = "send_message" /\ thread[t].time \in 1 .. MaxTime
  /\ At(t, "read") => Req(t).op \in {"messages", "users", "rooms"}
  /\ At(t, "members") => Req(t).op = "rooms"
  /\ At(t, "parse") => Req(t).op = "malformed"

HandlerInv == \A t \in Threads : HandlerOK(t)

(* A request is served once and answered once, and what is "before" it has *)
(* been answered.                                                          *)
IdInv ==
  /\ \A t \in Threads : ~At(t, "idle") =>
       /\ thread[t].id \in asked \ Answered
       /\ thread[t].before \subseteq Answered
  /\ \A s, t \in Threads : thread[s].id = thread[t].id /\ ~At(s, "idle") => s = t
  /\ Answered \subseteq asked
  /\ \A a, b \in answers : a.id = b.id => a = b
  /\ \A a \in answers : a.before \subseteq Answered

(* A message was sent by a request, to the room it names, and by none that *)
(* has still to save it.                                                   *)
MessageInv ==
  /\ \A k \in DOMAIN messages : messages[k].by \in asked
  /\ \A t \in Threads : ~At(t, "idle") /\ ~At(t, "answer") => Sent(thread[t].id) = {}
  /\ \A a \in Replies : a.req.op = "send_message" =>
       \A k \in Sent(a.id) : messages[k].room = a.req.room

HoldInv == \A a \in Replies : HoldsFor(a)

(* While a handler is between its two inserts for a room, no other is, and *)
(* nobody has been told to have created the room.                          *)
Creating(t) == At(t, "add") /\ Req(t).op = "create_room"

Created(a, r) == a.req.op = "create_room" /\ a.result = "success" /\ a.req.room = r

ElsewhereClaimed(t, r) ==
  \/ \E a \in Replies : Created(a, r)
  \/ \E s \in Threads \ {t} : Creating(s) /\ Req(s).room = r

NameInv ==
  /\ \A a, b \in Replies : NameTaken(a, b) => a = b
  /\ \A t \in Threads : Creating(t) => ~ElsewhereClaimed(t, Req(t).room)

(* An answer is fresh when it is sent; and GET /rooms has listed a room,   *)
(* or will.                                                                *)
Fresh(a) == \A b \in answers : b.id \in a.before /\ b.result = "success" => Sees(a, b)

WillList(t) ==
  \A b \in answers : b.id \in thread[t].before /\ Created(b, b.req.room) =>
    b.req.room \in thread[t].data.todo \/ Sees(Reply(t), b)

FreshInv ==
  ~failing =>
    /\ \A a \in Replies : Fresh(a)
    /\ \A t \in Threads : At(t, "members") => WillList(t)

IInv == StateOK /\ HandlerInv /\ IdInv /\ MessageInv /\ HoldInv /\ NameInv /\ FreshInv
-----------------------------------------------------------------------------
(***************************************************************************)
(* Requests and answers.                                                   *)
(***************************************************************************)

(* Which fields a request has.                                             *)
LEMMA RequestFields ==
  ASSUME NEW r \in Requests
  PROVE  /\ r.op \in {"register", "login", "logout", "create_room", "join_room",
                       "send_message", "messages", "rooms", "users", "malformed"}
         /\ r.op \in {"register", "login"} => r.user \in Users /\ r.password \in Passwords
         /\ r.op = "logout" => r.user \in Users
         /\ r.op \in {"create_room", "join_room", "send_message"} =>
              r.user \in Users /\ r.room \in Rooms
         /\ r.op = "messages" => r.room \in Rooms /\ r.since \in 0 .. MaxTime
BY DEF Requests

LEMMA RepliesType == ASSUME IInv PROVE Replies \subseteq ReplyType
<1>1. answers \subseteq ReplyType
  BY DEF IInv, StateOK, ReplyType
<1>2. ASSUME NEW t \in Threads, At(t, "answer") PROVE Reply(t) \in ReplyType
  <2>1. thread[t].id \in Ids /\ thread[t].req \in Requests
    BY <1>2 DEF IInv, IdInv, HandlerInv, HandlerOK, At, Req, StateOK
  <2> QED BY <2>1 DEF IInv, StateOK, ThreadType, Reply, ReplyType
<1> QED BY <1>1, <1>2 DEF Replies

LEMMA AppendSeq ==
  ASSUME NEW S, NEW s \in Seq(S), NEW x \in S
  PROVE  Append(s, x) \in Seq(S)
OBVIOUS

MessageType == [room : Rooms, user : Users, time : 1 .. MaxTime, by : Ids]

LEMMA MessagesType ==
  ASSUME IInv
  PROVE  messages \in Seq(MessageType) /\ \A k \in DOMAIN messages : messages[k].by \in Ids
<1>1. messages \in Seq(MessageType)
  BY DEF IInv, StateOK, MessageType
<1>2. \A k \in DOMAIN messages : messages[k] \in MessageType
  BY <1>1
<1> QED BY <1>1, <1>2 DEF MessageType

(* One message more, of one request.                                       *)
LEMMA SentAppend ==
  ASSUME NEW S, messages \in Seq(S), NEW m, messages' = Append(messages, m), NEW i
  PROVE  Sent(i)' = IF m.by = i THEN Sent(i) \cup {Len(messages) + 1} ELSE Sent(i)
BY DEF Sent

(* What no step undoes.                                                    *)
TablesKept ==
  /\ \A u \in Users : users[u] # None =>
       users'[u] # None /\ users'[u].password = users[u].password
  /\ \A r \in Rooms : rooms[r] # None => rooms'[r] = rooms[r]
  /\ roomUsers \subseteq roomUsers'

LEMMA HoldPersists ==
  ASSUME NEW a \in ReplyType, HoldsFor(a), TablesKept, Sent(a.id)' = Sent(a.id)
  PROVE  HoldsFor(a)'
<1>1. a.req \in Requests
  BY DEF ReplyType
<1>2. CASE a.req.op \in {"register", "login"}
  BY <1>1, <1>2, RequestFields DEF HoldsFor, TablesKept
<1>3. CASE a.req.op = "create_room"
  BY <1>1, <1>3, RequestFields DEF HoldsFor, TablesKept
<1>4. CASE a.req.op = "join_room"
  BY <1>1, <1>4, RequestFields DEF HoldsFor, TablesKept
<1>5. CASE a.req.op = "send_message"
  BY <1>1, <1>5, RequestFields DEF HoldsFor, TablesKept
<1>6. CASE a.req.op \notin {"register", "login", "create_room", "join_room", "send_message"}
  BY <1>6 DEF HoldsFor
<1> QED BY <1>2, <1>3, <1>4, <1>5, <1>6

LEMMA SeesPersists ==
  ASSUME NEW a, NEW b, Sees(a, b), Sent(b.id)' = Sent(b.id),
         \A k \in Sent(b.id) : messages'[k] = messages[k]
  PROVE  Sees(a, b)'
<1>1. CASE b.req.op = "register" /\ a.req.op = "login" /\ a.req.user = b.req.user
  BY <1>1 DEF Sees
<1>2. CASE b.req.op = "register" /\ a.req.op = "users"
  BY <1>2 DEF Sees
<1>3. CASE b.req.op = "create_room" /\ a.req.op = "rooms"
  BY <1>3 DEF Sees
<1>4. CASE b.req.op = "send_message" /\ a.req.op = "messages" /\ a.req.room = b.req.room
  BY <1>4 DEF Sees, Sent
<1>5. CASE /\ ~(b.req.op = "register" /\ a.req.op = "login" /\ a.req.user = b.req.user)
           /\ ~(b.req.op = "register" /\ a.req.op = "users")
           /\ ~(b.req.op = "create_room" /\ a.req.op = "rooms")
           /\ ~(b.req.op = "send_message" /\ a.req.op = "messages" /\ a.req.room = b.req.room)
  BY <1>5 DEF Sees
<1> QED BY <1>1, <1>2, <1>3, <1>4, <1>5
-----------------------------------------------------------------------------
(***************************************************************************)
(* A step of a handler between its first and its last: what the handler    *)
(* itself has to show, for everything else to stay as it was.              *)
(***************************************************************************)

(* It only adds to the tables, and to the messages its own.                *)
OwnMessage(t) ==
  [room |-> Req(t).room, user |-> Req(t).user, time |-> thread[t].time, by |-> thread[t].id]

TableStep(t) ==
  /\ TablesKept
  /\ \/ UNCHANGED messages
     \/ At(t, "save") /\ At(t, "answer")' /\ messages' = Append(messages, OwnMessage(t))

ThreadStep(t) ==
  /\ ~At(t, "idle") /\ ~At(t, "answer") /\ ~At(t, "idle")'
  /\ \A s \in Threads \ {t} : thread'[s] = thread[s]
  /\ thread'[t].id = thread[t].id /\ thread'[t].req = thread[t].req
  /\ thread'[t].before = thread[t].before
  /\ UNCHANGED <<asked, answers, failing>>

(* What it answers is true, takes no name that is taken, and is fresh.     *)
AnswerStep(t) ==
  At(t, "answer")' =>
    /\ HoldsFor(Reply(t))'
    /\ Req(t).op = "register" /\ thread'[t].result = "success" => users[Req(t).user] = None
    /\ Req(t).op = "create_room" /\ thread'[t].result = "success" => Creating(t)
    /\ ~failing => Fresh(Reply(t))'

LEMMA RepliesGrow ==
  ASSUME NEW t \in Threads, ThreadStep(t)
  PROVE  Replies' = IF At(t, "answer")' THEN Replies \cup {Reply(t)'} ELSE Replies
<1>1. \A s \in Threads \ {t} : Reply(s)' = Reply(s) /\ (At(s, "answer")' <=> At(s, "answer"))
  BY DEF ThreadStep, Reply, At
<1>2. ASSUME NEW x PROVE x \in Replies' <=> x \in Replies \/ (At(t, "answer")' /\ x = Reply(t)')
  <2>1. x \in Replies' <=>
          x \in answers \/ \E s \in Threads : At(s, "answer")' /\ x = Reply(s)'
    BY DEF Replies, ThreadStep
  <2>2. x \in Replies <=> x \in answers \/ \E s \in Threads : At(s, "answer") /\ x = Reply(s)
    BY DEF Replies
  <2> QED BY <1>1, <2>1, <2>2 DEF ThreadStep
<1> QED BY <1>2

(* The messages sent by the others.                                        *)
LEMMA OthersSent ==
  ASSUME IInv, NEW t \in Threads, ThreadStep(t), TableStep(t)
  PROVE  /\ \A i : i # thread[t].id \/ UNCHANGED messages =>
              Sent(i)' = Sent(i) /\ \A k \in Sent(i) : messages'[k] = messages[k]
         /\ \A a \in Replies : a.id # thread[t].id
<1>1. \A i : i # thread[t].id \/ UNCHANGED messages =>
        Sent(i)' = Sent(i) /\ \A k \in Sent(i) : messages'[k] = messages[k]
  <2>1. CASE UNCHANGED messages
    BY <2>1 DEF Sent
  <2>2. CASE messages' = Append(messages, OwnMessage(t))
    <3>1. messages \in Seq([room : Rooms, user : Users, time : 1 .. MaxTime, by : Ids])
      BY DEF IInv, StateOK
    <3>2. \A k \in DOMAIN messages : messages'[k] = messages[k]
      BY <2>2, <3>1
    <3>3. OwnMessage(t).by = thread[t].id
      BY DEF OwnMessage
    <3>4. \A i : i # thread[t].id => Sent(i)' = Sent(i)
      BY <2>2, <3>1, <3>3, SentAppend
    <3>5. messages' # messages
      BY <2>2, <3>1
    <3> QED BY <3>2, <3>4, <3>5 DEF Sent
  <2> QED BY <2>1, <2>2 DEF TableStep
<1>2. \A a \in answers : a.id # thread[t].id
  BY DEF IInv, IdInv, Answered, ThreadStep
<1>3. \A s \in Threads : At(s, "answer") => Reply(s).id # thread[t].id
  BY DEF IInv, IdInv, ThreadStep, Reply, At
<1> QED BY <1>1, <1>2, <1>3 DEF Replies

LEMMA HandlerInvKept ==
  ASSUME IInv, NEW t \in Threads, ThreadStep(t), TableStep(t), HandlerOK(t)'
  PROVE  HandlerInv'
<1>1. ASSUME NEW s \in Threads \ {t} PROVE HandlerOK(s)'
  <2>1. HandlerOK(s) /\ thread'[s] = thread[s]
    BY DEF IInv, HandlerInv, ThreadStep
  <2>2. Req(s)' = Req(s) /\ \A pc \in Labels : At(s, pc)' <=> At(s, pc)
    BY <2>1 DEF Req, At
  <2>3. At(s, "online") => users'[Req(s).user] # None
                           /\ users'[Req(s).user].password = Req(s).password
    BY <2>1, RequestFields DEF HandlerOK, TableStep, TablesKept, At
  <2>4. At(s, "add") /\ Req(s).op = "create_room" => rooms'[Req(s).room] = Req(s).user
    BY <2>1, RequestFields DEF HandlerOK, TableStep, TablesKept, At
  <2> QED BY <2>1, <2>2, <2>3, <2>4 DEF HandlerOK, Labels
<1> QED BY <1>1 DEF HandlerInv

LEMMA IdInvKept ==
  ASSUME IInv, NEW t \in Threads, ThreadStep(t)
  PROVE  IdInv'
<1>1. Answered' = Answered
  BY DEF ThreadStep, Answered
<1>2. \A s \in Threads : thread'[s].id = thread[s].id /\ thread'[s].before = thread[s].before
  BY DEF ThreadStep
<1>3. \A s \in Threads : At(s, "idle")' <=> At(s, "idle")
  BY DEF ThreadStep, At
<1> QED BY <1>1, <1>2, <1>3 DEF IInv, IdInv, ThreadStep

LEMMA MessageInvKept ==
  ASSUME IInv, NEW t \in Threads, ThreadStep(t), TableStep(t), StateOK'
  PROVE  MessageInv'
<1>0. messages \in Seq([room : Rooms, user : Users, time : 1 .. MaxTime, by : Ids])
  BY DEF IInv, StateOK
<1>1. thread[t].id \in asked /\ Sent(thread[t].id) = {}
  BY DEF IInv, IdInv, MessageInv, ThreadStep
<1>2. \A k \in DOMAIN messages' : messages'[k].by \in asked'
  <2>1. CASE UNCHANGED messages
    BY <2>1 DEF IInv, MessageInv, ThreadStep
  <2>2. CASE messages' = Append(messages, OwnMessage(t))
    BY <1>0, <1>1, <2>2 DEF IInv, MessageInv, ThreadStep, OwnMessage
  <2> QED BY <2>1, <2>2 DEF TableStep
<1>3. ASSUME NEW s \in Threads, ~At(s, "idle")', ~At(s, "answer")'
      PROVE  Sent(thread[s].id)' = {}
  <2>1. CASE s = t
    BY <1>1, <1>3, <2>1, OthersSent DEF TableStep, ThreadStep
  <2>2. CASE s # t
    <3>1. ~At(s, "idle") /\ ~At(s, "answer") /\ thread'[s] = thread[s]
      BY <1>3, <2>2 DEF ThreadStep, At
    <3>2. thread[s].id # thread[t].id
      BY <2>2, <3>1 DEF IInv, IdInv, ThreadStep
    <3> QED BY <3>1, <3>2, OthersSent DEF IInv, MessageInv
  <2> QED BY <2>1, <2>2
<1>4. ASSUME NEW a \in Replies, a.req.op = "send_message"
      PROVE  \A k \in Sent(a.id)' : messages'[k].room = a.req.room
  BY <1>4, OthersSent DEF IInv, MessageInv
<1>5. ASSUME Req(t).op = "send_message"
      PROVE  \A k \in Sent(thread[t].id)' : messages'[k].room = Req(t).room
  <2>1. CASE UNCHANGED messages
    BY <1>1, <2>1, OthersSent DEF ThreadStep
  <2>2. CASE messages' = Append(messages, OwnMessage(t))
    <3>1. Sent(thread[t].id)' = {Len(messages) + 1}
      BY <1>0, <1>1, <2>2, SentAppend DEF OwnMessage, ThreadStep
    <3> QED BY <1>0, <2>2, <3>1 DEF OwnMessage
  <2> QED BY <2>1, <2>2 DEF TableStep
<1>6. \A a \in Replies' : a.req.op = "send_message" =>
        \A k \in Sent(a.id)' : messages'[k].room = a.req.room
  <2>1. Reply(t)'.req = Req(t) /\ Reply(t)'.id = thread[t].id /\ thread'[t].id = thread[t].id
    BY DEF Reply, Req, ThreadStep
  <2> QED BY <1>4, <1>5, <2>1, RepliesGrow
<1> QED BY <1>2, <1>3, <1>6 DEF MessageInv

LEMMA HoldInvKept ==
  ASSUME IInv, NEW t \in Threads, ThreadStep(t), TableStep(t), AnswerStep(t)
  PROVE  HoldInv'
<1>1. ASSUME NEW a \in Replies PROVE HoldsFor(a)'
  BY RepliesType, HoldPersists, OthersSent DEF IInv, HoldInv, TableStep
<1>2. At(t, "answer")' => HoldsFor(Reply(t))'
  BY DEF AnswerStep
<1> QED BY <1>1, <1>2, RepliesGrow DEF HoldInv

LEMMA NameInvKept ==
  ASSUME IInv, NEW t \in Threads, ThreadStep(t), AnswerStep(t),
         Creating(t)' => rooms[Req(t).room] = None
  PROVE  NameInv'
<1>1. Req(t) \in Requests /\ Req(t)' = Req(t) /\ Reply(t)'.req = Req(t)
      /\ Reply(t)'.result = thread'[t].result
  BY DEF IInv, HandlerInv, HandlerOK, ThreadStep, Req, Reply
<1>2. \A s \in Threads \ {t} : (Creating(s)' <=> Creating(s)) /\ Req(s)' = Req(s)
  BY DEF ThreadStep, Creating, At, Req
<1>3. ASSUME NEW a \in Replies, At(t, "answer")'
      PROVE  ~NameTaken(a, Reply(t)') /\ ~NameTaken(Reply(t)', a)
  <2>1. SUFFICES ASSUME NameTaken(a, Reply(t)') \/ NameTaken(Reply(t)', a) PROVE FALSE
    OBVIOUS
  <2>2. HoldsFor(a)
    BY DEF IInv, HoldInv
  <2>3. CASE Req(t).op = "register"
    <3>1. users[Req(t).user] = None
      BY <1>1, <1>3, <2>1, <2>3 DEF NameTaken, AnswerStep
    <3> QED BY <1>1, <2>1, <2>2, <2>3, <3>1 DEF NameTaken, HoldsFor
  <2>4. CASE Req(t).op = "create_room"
    <3>1. Creating(t) /\ Created(a, Req(t).room)
      BY <1>1, <1>3, <2>1, <2>4 DEF NameTaken, AnswerStep, Created
    <3> QED BY <3>1 DEF IInv, NameInv, ElsewhereClaimed
  <2> QED BY <1>1, <2>1, <2>3, <2>4 DEF NameTaken
<1>4. \A a, b \in Replies' : NameTaken(a, b) => a = b
  BY <1>3, RepliesGrow DEF IInv, NameInv
<1>5. ASSUME NEW r \in Rooms, rooms[r] = None
      PROVE  ~ElsewhereClaimed(t, r)
  <2>1. \A a \in Replies : ~Created(a, r)
    <3> SUFFICES ASSUME NEW a \in Replies, Created(a, r) PROVE FALSE
      OBVIOUS
    <3>1. HoldsFor(a) /\ a.req \in Requests
      BY RepliesType DEF IInv, HoldInv, ReplyType
    <3> QED BY <1>5, <3>1, RequestFields DEF HoldsFor, Created
  <2>2. \A s \in Threads : Creating(s) => Req(s).room # r
    <3> SUFFICES ASSUME NEW s \in Threads, Creating(s), Req(s).room = r PROVE FALSE
      OBVIOUS
    <3>1. HandlerOK(s) /\ Req(s) \in Requests
      BY DEF IInv, HandlerInv, HandlerOK, Creating, At
    <3> QED BY <1>5, <3>1, RequestFields DEF HandlerOK, Creating
  <2> QED BY <2>1, <2>2 DEF ElsewhereClaimed
<1>6. ASSUME Creating(t)' PROVE ~ElsewhereClaimed(t, Req(t).room)'
  <2>1. Req(t).room \in Rooms /\ ~At(t, "answer")'
    BY <1>1, <1>6, RequestFields DEF Creating, At
  <2>2. ~ElsewhereClaimed(t, Req(t).room)
    BY <1>5, <1>6, <2>1
  <2> QED BY <1>1, <1>2, <2>1, <2>2, RepliesGrow DEF ElsewhereClaimed
<1>7. ASSUME NEW s \in Threads \ {t}, Creating(s)' PROVE ~ElsewhereClaimed(s, Req(s).room)'
  <2>1. Creating(s) /\ Req(s)' = Req(s) /\ ~ElsewhereClaimed(s, Req(s).room)
    BY <1>2, <1>7 DEF IInv, NameInv
  <2>2. \A a \in Replies' : ~Created(a, Req(s).room)
    <3> SUFFICES ASSUME At(t, "answer")', Created(Reply(t)', Req(s).room) PROVE FALSE
      BY <2>1, RepliesGrow DEF ElsewhereClaimed
    <3>1. Creating(t) /\ Req(t).room = Req(s).room
      BY <1>1 DEF Created, AnswerStep
    <3> QED BY <2>1, <3>1 DEF ElsewhereClaimed
  <2>3. \A v \in Threads \ {s} : Creating(v)' => Req(v)'.room # Req(s).room
    <3>1. CASE Creating(t)' /\ Req(t).room = Req(s).room
      <4>1. Req(t).room \in Rooms
        BY <1>1, <3>1, RequestFields DEF Creating
      <4> QED BY <1>5, <2>1, <3>1, <4>1 DEF ElsewhereClaimed
    <3>2. CASE ~(Creating(t)' /\ Req(t).room = Req(s).room)
      BY <1>1, <1>2, <2>1, <3>2 DEF ElsewhereClaimed
    <3> QED BY <3>1, <3>2
  <2> QED BY <2>1, <2>2, <2>3 DEF ElsewhereClaimed
<1> QED BY <1>4, <1>6, <1>7 DEF NameInv

LEMMA FreshInvKept ==
  ASSUME IInv, NEW t \in Threads, ThreadStep(t), TableStep(t), AnswerStep(t),
         ~failing /\ At(t, "members")' => WillList(t)'
  PROVE  FreshInv'
<1> SUFFICES ASSUME ~failing
             PROVE  /\ \A a \in Replies' : Fresh(a)'
                    /\ \A s \in Threads : At(s, "members")' => WillList(s)'
  BY DEF FreshInv, ThreadStep
<1>1. ASSUME NEW a, NEW b \in answers, Sees(a, b) PROVE Sees(a, b)'
  <2>1. b.id # thread[t].id
    BY OthersSent DEF Replies
  <2> QED BY <1>1, <2>1, OthersSent, SeesPersists
<1>2. ASSUME NEW a \in Replies PROVE Fresh(a)'
  BY <1>1 DEF IInv, FreshInv, Fresh, ThreadStep
<1>3. ASSUME NEW s \in Threads \ {t}, At(s, "members")' PROVE WillList(s)'
  <2>1. thread'[s] = thread[s] /\ Reply(s)' = Reply(s) /\ At(s, "members")
    BY <1>3 DEF ThreadStep, Reply, At
  <2> QED BY <1>1, <2>1 DEF IInv, FreshInv, WillList, ThreadStep
<1>4. At(t, "answer")' => Fresh(Reply(t))'
  BY DEF AnswerStep
<1> QED BY <1>2, <1>3, <1>4, RepliesGrow

LEMMA HandlerStep ==
  ASSUME IInv, NEW t \in Threads, StateOK', ThreadStep(t), TableStep(t),
         HandlerOK(t)', AnswerStep(t),
         Creating(t)' => rooms[Req(t).room] = None,
         ~failing /\ At(t, "members")' => WillList(t)'
  PROVE  IInv'
BY HandlerInvKept, IdInvKept, MessageInvKept, HoldInvKept, NameInvKept, FreshInvKept DEF IInv
-----------------------------------------------------------------------------
(***************************************************************************)
(* The handlers.                                                           *)
(***************************************************************************)

LEMMA LastStep ==
  ASSUME IInv, NEW t \in Threads, StateOK', ThreadStep(t), TableStep(t),
         thread'[t].pc = "answer", AnswerStep(t)
  PROVE  IInv'
<1>1. Req(t)' = Req(t) /\ Req(t) \in Requests
  BY DEF ThreadStep, Req, IInv, HandlerInv, HandlerOK
<1>2. HandlerOK(t)' /\ ~Creating(t)' /\ ~At(t, "members")'
  BY <1>1 DEF HandlerOK, Creating, At
<1> QED BY <1>2, HandlerStep

(* The ways on within a handler, and what they leave of the request.       *)
LEMMA GotoStep ==
  ASSUME IInv, NEW t \in Threads, NEW pc \in Labels \ {"idle"}, Goto(t, pc),
         ~At(t, "idle"), ~At(t, "answer"), UNCHANGED <<asked, answers, failing>>
  PROVE  /\ ThreadStep(t) /\ thread' \in [Threads -> ThreadType]
         /\ thread'[t].pc = pc /\ Req(t)' = Req(t)
BY DEF IInv, StateOK, ThreadType, Goto, ThreadStep, At, Req

LEMMA FinishStep ==
  ASSUME IInv, NEW t \in Threads, NEW result \in Results, Finish(t, result),
         ~At(t, "idle"), ~At(t, "answer"), UNCHANGED <<asked, answers, failing>>
  PROVE  /\ ThreadStep(t) /\ thread' \in [Threads -> ThreadType]
         /\ thread'[t].pc = "answer" /\ Req(t)' = Req(t)
         /\ Reply(t)'.id = thread[t].id /\ Reply(t)'.req = Req(t)
         /\ Reply(t)'.before = thread[t].before
         /\ Reply(t)'.result = result /\ thread'[t].result = result
<1>1. thread \in [Threads -> ThreadType]
  BY DEF IInv, StateOK
<1>2. thread' = [thread EXCEPT ![t] = [thread[t] EXCEPT !.pc = "answer", !.result = result]]
  BY DEF Finish
<1>3. "answer" \in Labels
  BY DEF Labels
<1>4. thread'[t] = [thread[t] EXCEPT !.pc = "answer", !.result = result]
  BY <1>1, <1>2
<1>5. thread' \in [Threads -> ThreadType]
  BY <1>1, <1>2, <1>3 DEF ThreadType
<1>6. /\ thread'[t].pc = "answer" /\ thread'[t].req = thread[t].req
      /\ thread'[t].result = result /\ thread'[t].id = thread[t].id
      /\ thread'[t].before = thread[t].before
  BY <1>1, <1>4 DEF ThreadType
<1> QED BY <1>1, <1>2, <1>5, <1>6 DEF ThreadStep, At, Req, Reply

(* What a handler has found so far is a part of its thread's record.       *)
LEMMA DataChanged ==
  ASSUME NEW x \in ThreadType, NEW l \in Labels,
         NEW rows \in SUBSET Items, NEW rest \in SUBSET Rooms
  PROVE  /\ [x EXCEPT !.pc = l, !.data.listed = rows] \in ThreadType
         /\ [x EXCEPT !.pc = l, !.data.todo = rest] \in ThreadType
<1>1. /\ [x.data EXCEPT !.listed = rows] \in [listed : SUBSET Items, todo : SUBSET Rooms]
      /\ [x.data EXCEPT !.todo = rest] \in [listed : SUBSET Items, todo : SUBSET Rooms]
  BY DEF ThreadType
<1>2. ASSUME NEW d \in [listed : SUBSET Items, todo : SUBSET Rooms]
      PROVE  [x EXCEPT !.pc = l, !.data = d] \in ThreadType
  BY DEF ThreadType
<1>3. /\ [x EXCEPT !.pc = l, !.data = [x.data EXCEPT !.listed = rows]] \in ThreadType
      /\ [x EXCEPT !.pc = l, !.data = [x.data EXCEPT !.todo = rest]] \in ThreadType
  BY <1>1, <1>2
<1>4. /\ [x EXCEPT !.pc = l, !.data.listed = rows]
           = [x EXCEPT !.pc = l, !.data = [x.data EXCEPT !.listed = rows]]
      /\ [x EXCEPT !.pc = l, !.data.todo = rest]
           = [x EXCEPT !.pc = l, !.data = [x.data EXCEPT !.todo = rest]]
  BY DEF ThreadType
<1> QED BY <1>3, <1>4

LEMMA ListStep ==
  ASSUME IInv, NEW t \in Threads, NEW rows \in SUBSET Items, List(t, rows),
         ~At(t, "idle"), ~At(t, "answer"), UNCHANGED <<asked, answers, failing>>
  PROVE  /\ ThreadStep(t) /\ thread' \in [Threads -> ThreadType]
         /\ thread'[t].pc = "answer" /\ Req(t)' = Req(t)
         /\ Reply(t)'.id = thread[t].id /\ Reply(t)'.req = Req(t)
         /\ Reply(t)'.before = thread[t].before /\ Reply(t)'.listed = rows
<1>1. thread \in [Threads -> ThreadType]
  BY DEF IInv, StateOK
<1>2. thread' = [thread EXCEPT ![t] = [thread[t] EXCEPT !.pc = "answer", !.data.listed = rows]]
  BY DEF List
<1>3. "answer" \in Labels
  BY DEF Labels
<1>4. thread'[t] = [thread[t] EXCEPT !.pc = "answer", !.data.listed = rows]
  BY <1>1, <1>2
<1>5. thread' \in [Threads -> ThreadType]
  <2> DEFINE u == [thread[t] EXCEPT !.pc = "answer", !.data.listed = rows]
  <2>1. u \in ThreadType
    BY <1>1, <1>3, DataChanged
  <2>2. thread' = [thread EXCEPT ![t] = u]
    BY <1>2
  <2> HIDE DEF u
  <2> QED BY <1>1, <2>1, <2>2
<1>6. /\ thread'[t].pc = "answer" /\ thread'[t].req = thread[t].req
      /\ thread'[t].data.listed = rows /\ thread'[t].id = thread[t].id
      /\ thread'[t].before = thread[t].before
  BY <1>1, <1>4 DEF ThreadType
<1> QED BY <1>1, <1>2, <1>5, <1>6 DEF ThreadStep, At, Req, Reply

(* Whose operation is none of those Sees speaks of is fresh in any case.   *)
LEMMA NothingToSee ==
  ASSUME NEW a, a.req.op \notin {"login", "users", "rooms", "messages"}
  PROVE  Fresh(a) /\ Fresh(a)'
BY DEF Fresh, Sees

LEMMA NothingToHold ==
  ASSUME NEW a, a.req.op \in {"logout", "messages", "rooms", "users", "malformed"}
  PROVE  HoldsFor(a) /\ HoldsFor(a)'
BY DEF HoldsFor

LEMMA ValidateKeeps ==
  ASSUME IInv, NEW t \in Threads, Validate(t)
  PROVE  IInv'
<1> DEFINE u == Req(t).user
           p == Req(t).password
<1>1. /\ At(t, "validate") /\ ~At(t, "idle") /\ ~At(t, "answer")
      /\ Req(t) \in Requests /\ Req(t).op \in {"register", "login"} /\ u \in Users
  BY RequestFields DEF Validate, At, IInv, HandlerInv, HandlerOK
<1>2. PICK ok \in BOOLEAN :
        /\ ValidateUser(u, p, ok)
        /\ \/ Req(t).op = "register" /\ ok /\ Finish(t, "exists")
           \/ Req(t).op = "register" /\ ~ok /\ Goto(t, "insert")
           \/ Req(t).op = "login" /\ ok /\ Goto(t, "online")
           \/ Req(t).op = "login" /\ ~ok /\ Finish(t, "refused")
  BY DEF Validate
<1>3. UNCHANGED <<tables, failing, now, asked, answers>>
  BY DEF Validate
<1>4. TableStep(t)
  BY <1>3 DEF TableStep, TablesKept, tables
<1>5. CASE Goto(t, "insert") /\ Req(t).op = "register"
  <2>1. ThreadStep(t) /\ thread' \in [Threads -> ThreadType]
        /\ thread'[t].pc = "insert" /\ Req(t)' = Req(t)
    BY <1>1, <1>3, <1>5, GotoStep DEF Labels
  <2>2. StateOK'
    BY <1>3, <2>1 DEF IInv, StateOK, tables
  <2>3. HandlerOK(t)' /\ AnswerStep(t) /\ ~Creating(t)' /\ ~At(t, "members")'
    BY <1>1, <1>5, <2>1 DEF HandlerOK, AnswerStep, Creating, At
  <2> QED BY <1>4, <2>1, <2>2, <2>3, HandlerStep
<1>6. CASE Goto(t, "online") /\ Req(t).op = "login" /\ ok
  <2>1. ThreadStep(t) /\ thread' \in [Threads -> ThreadType]
        /\ thread'[t].pc = "online" /\ Req(t)' = Req(t)
    BY <1>1, <1>3, <1>6, GotoStep DEF Labels
  <2>2. StateOK'
    BY <1>3, <2>1 DEF IInv, StateOK, tables
  <2>3. users'[u] # None /\ users'[u].password = p
    BY <1>2, <1>3, <1>6 DEF ValidateUser, tables
  <2>4. HandlerOK(t)' /\ AnswerStep(t) /\ ~Creating(t)' /\ ~At(t, "members")'
    BY <1>1, <1>6, <2>1, <2>3 DEF HandlerOK, AnswerStep, Creating, At
  <2> QED BY <1>4, <2>1, <2>2, <2>4, HandlerStep
<1>7. CASE Finish(t, "exists") /\ Req(t).op = "register" /\ ok
  <2>1. /\ ThreadStep(t) /\ thread' \in [Threads -> ThreadType]
        /\ thread'[t].pc = "answer" /\ Req(t)' = Req(t) /\ thread'[t].result = "exists"
        /\ Reply(t)'.req = Req(t)
    BY <1>1, <1>3, <1>7, FinishStep DEF Results
  <2>2. StateOK'
    BY <1>3, <2>1 DEF IInv, StateOK, tables
  <2>3. users'[u] # None /\ users'[u].password = p
    BY <1>2, <1>3, <1>7 DEF ValidateUser, tables
  <2>4. HoldsFor(Reply(t))' /\ Fresh(Reply(t))'
    BY <1>7, <2>1, <2>3, NothingToSee DEF HoldsFor
  <2>5. AnswerStep(t)
    BY <1>7, <2>1, <2>4 DEF AnswerStep
  <2> QED BY <1>4, <2>1, <2>2, <2>5, LastStep
<1>8. CASE Finish(t, "refused") /\ Req(t).op = "login" /\ ~ok
  <2>1. /\ ThreadStep(t) /\ thread' \in [Threads -> ThreadType]
        /\ thread'[t].pc = "answer" /\ Req(t)' = Req(t) /\ thread'[t].result = "refused"
        /\ Reply(t)'.req = Req(t) /\ Reply(t)'.result = "refused"
    BY <1>1, <1>3, <1>8, FinishStep DEF Results
  <2>2. StateOK'
    BY <1>3, <2>1 DEF IInv, StateOK, tables
  <2>3. HoldsFor(Reply(t))'
    BY <1>8, <2>1 DEF HoldsFor
  <2>4. ASSUME ~failing PROVE Fresh(Reply(t))'
    <3> SUFFICES ASSUME NEW b \in answers, b.result = "success" PROVE Sees(Reply(t), b)'
      BY <1>3 DEF Fresh
    <3>1. users[u] = None \/ users[u].password # p
      BY <1>2, <1>8, <2>4 DEF ValidateUser
    <3>2. HoldsFor(b)
      BY DEF IInv, HoldInv, Replies
    <3>3. b.req.op = "register" /\ b.req.user = u => b.req.password # p
      BY <3>1, <3>2 DEF HoldsFor
    <3> QED BY <1>8, <2>1, <3>3 DEF Sees
  <2>5. AnswerStep(t)
    BY <1>8, <2>1, <2>3, <2>4 DEF AnswerStep
  <2> QED BY <1>4, <2>1, <2>2, <2>5, LastStep
<1> QED BY <1>2, <1>5, <1>6, <1>7, <1>8

LEMMA InsertUserKeeps ==
  ASSUME IInv, NEW t \in Threads, InsertUser(t)
  PROVE  IInv'
<1> DEFINE u == Req(t).user
           p == Req(t).password
<1>1. /\ At(t, "insert") /\ ~At(t, "idle") /\ ~At(t, "answer")
      /\ Req(t) \in Requests /\ Req(t).op = "register" /\ u \in Users /\ p \in Passwords
  BY RequestFields DEF InsertUser, At, IInv, HandlerInv, HandlerOK
<1>2. PICK ok \in BOOLEAN :
        CreateUser(u, p, ok) /\ Finish(t, IF ok THEN "success" ELSE "error")
  BY DEF InsertUser
<1>3. UNCHANGED <<rooms, roomUsers, messages, failing, now, asked, answers>>
  BY DEF InsertUser
<1>4. /\ ThreadStep(t) /\ thread' \in [Threads -> ThreadType]
      /\ thread'[t].pc = "answer" /\ Req(t)' = Req(t) /\ Reply(t)'.req = Req(t)
      /\ thread'[t].result = Reply(t)'.result
      /\ Reply(t)'.result = IF ok THEN "success" ELSE "error"
  BY <1>1, <1>2, <1>3, FinishStep DEF Results
<1>5. CASE ok
  <2>1. users[u] = None /\ users' = [users EXCEPT ![u] = [password |-> p, online |-> FALSE]]
    BY <1>2, <1>5 DEF CreateUser
  <2>2. StateOK'
    BY <1>1, <1>3, <1>4, <2>1 DEF IInv, StateOK
  <2>3. users'[u] = [password |-> p, online |-> FALSE]
        /\ \A v \in Users \ {u} : users'[v] = users[v]
    BY <1>1, <2>1 DEF IInv, StateOK
  <2>4. TableStep(t)
    BY <1>3, <2>1, <2>3 DEF TableStep, TablesKept
  <2>5. users'[u] # None /\ users'[u].password = p
    <3>1. [password |-> p, online |-> FALSE] \in [password : Passwords, online : BOOLEAN]
      BY <1>1
    <3>2. [password |-> p, online |-> FALSE].password = p
      OBVIOUS
    <3> QED BY <2>3, <3>1, <3>2
  <2>6. HoldsFor(Reply(t))' /\ Fresh(Reply(t))'
    BY <1>1, <1>4, <2>5, NothingToSee DEF HoldsFor
  <2>7. AnswerStep(t)
    BY <1>1, <2>1, <2>6 DEF AnswerStep
  <2> QED BY <1>4, <2>2, <2>4, <2>7, LastStep
<1>6. CASE ~ok
  <2>1. UNCHANGED users
    BY <1>2, <1>6 DEF CreateUser
  <2>2. StateOK' /\ TableStep(t)
    BY <1>3, <1>4, <2>1 DEF IInv, StateOK, TableStep, TablesKept
  <2>3. HoldsFor(Reply(t))' /\ Fresh(Reply(t))'
    BY <1>1, <1>4, <1>6, NothingToSee DEF HoldsFor
  <2>4. AnswerStep(t)
    BY <1>1, <1>4, <1>6, <2>3 DEF AnswerStep
  <2> QED BY <1>4, <2>2, <2>4, LastStep
<1> QED BY <1>5, <1>6

(* The status of a user is not part of what his account promises.          *)
LEMMA StatusKeeps ==
  ASSUME IInv, NEW u \in Users, NEW online \in BOOLEAN, NEW ok \in BOOLEAN,
         SetUserOnlineStatus(u, online, ok)
  PROVE  /\ users' \in [Users -> [password : Passwords, online : BOOLEAN] \cup {None}]
         /\ \A v \in Users : users[v] # None =>
              users'[v] # None /\ users'[v].password = users[v].password
<1>1. users \in [Users -> [password : Passwords, online : BOOLEAN] \cup {None}]
  BY DEF IInv, StateOK
<1>2. CASE UNCHANGED users
  BY <1>1, <1>2
<1>3. CASE users[u] # None /\ users' = [users EXCEPT ![u].online = online]
  <2>1. users[u] \in [password : Passwords, online : BOOLEAN]
    BY <1>1, <1>3
  <2>2. users' = [users EXCEPT ![u] = [users[u] EXCEPT !.online = online]]
    BY <1>3
  <2>3. /\ [users[u] EXCEPT !.online = online] \in [password : Passwords, online : BOOLEAN]
        /\ [users[u] EXCEPT !.online = online].password = users[u].password
    BY <2>1
  <2> QED BY <1>1, <2>2, <2>3
<1> QED BY <1>2, <1>3 DEF SetUserOnlineStatus

LEMMA GoOnlineKeeps ==
  ASSUME IInv, NEW t \in Threads, GoOnline(t)
  PROVE  IInv'
<1> DEFINE u == Req(t).user
           p == Req(t).password
<1>1. /\ At(t, "online") /\ ~At(t, "idle") /\ ~At(t, "answer")
      /\ Req(t) \in Requests /\ Req(t).op = "login" /\ u \in Users
      /\ users[u] # None /\ users[u].password = p
  BY RequestFields DEF GoOnline, At, IInv, HandlerInv, HandlerOK
<1>2. PICK ok \in BOOLEAN : SetUserOnlineStatus(u, TRUE, ok)
  BY DEF GoOnline
<1>3. UNCHANGED <<rooms, roomUsers, messages, failing, now, asked, answers>>
  BY DEF GoOnline
<1>4. /\ ThreadStep(t) /\ thread' \in [Threads -> ThreadType]
      /\ thread'[t].pc = "answer" /\ Req(t)' = Req(t)
      /\ Reply(t)'.req = Req(t) /\ Reply(t)'.result = "success"
  BY <1>1, <1>3, FinishStep DEF Results, GoOnline
<1>5. StateOK' /\ TableStep(t) /\ users'[u] # None /\ users'[u].password = p
  BY <1>1, <1>2, <1>3, <1>4, StatusKeeps DEF IInv, StateOK, TableStep, TablesKept
<1>6. HoldsFor(Reply(t))'
  BY <1>1, <1>4, <1>5 DEF HoldsFor
<1>7. Fresh(Reply(t))'
  <2> SUFFICES ASSUME NEW b \in answers, b.result = "success" PROVE Sees(Reply(t), b)'
    BY <1>3 DEF Fresh
  <2>1. HoldsFor(b)
    BY DEF IInv, HoldInv, Replies
  <2>2. b.req.op = "register" /\ b.req.user = u => b.req.password = p
    BY <1>1, <2>1 DEF HoldsFor
  <2> QED BY <1>1, <1>4, <2>2 DEF Sees
<1>8. AnswerStep(t)
  BY <1>1, <1>6, <1>7 DEF AnswerStep
<1> QED BY <1>4, <1>5, <1>8, LastStep

LEMMA GoOfflineKeeps ==
  ASSUME IInv, NEW t \in Threads, GoOffline(t)
  PROVE  IInv'
<1>1. /\ At(t, "offline") /\ ~At(t, "idle") /\ ~At(t, "answer")
      /\ Req(t) \in Requests /\ Req(t).op = "logout" /\ Req(t).user \in Users
  BY RequestFields DEF GoOffline, At, IInv, HandlerInv, HandlerOK
<1>2. PICK ok \in BOOLEAN :
        /\ SetUserOnlineStatus(Req(t).user, FALSE, ok)
        /\ Finish(t, IF ok THEN "success" ELSE "error")
  BY DEF GoOffline
<1>3. UNCHANGED <<rooms, roomUsers, messages, failing, now, asked, answers>>
  BY DEF GoOffline
<1>4. /\ ThreadStep(t) /\ thread' \in [Threads -> ThreadType]
      /\ thread'[t].pc = "answer" /\ Req(t)' = Req(t) /\ Reply(t)'.req = Req(t)
  BY <1>1, <1>2, <1>3, FinishStep DEF Results
<1>5. StateOK' /\ TableStep(t)
  BY <1>1, <1>2, <1>3, <1>4, StatusKeeps DEF IInv, StateOK, TableStep, TablesKept
<1>6. AnswerStep(t)
  BY <1>1, <1>4, NothingToHold, NothingToSee DEF AnswerStep
<1> QED BY <1>4, <1>5, <1>6, LastStep

LEMMA InsertRoomKeeps ==
  ASSUME IInv, NEW t \in Threads, InsertRoom(t)
  PROVE  IInv'
<1> DEFINE r == Req(t).room
           u == Req(t).user
<1>1. /\ At(t, "create") /\ ~At(t, "idle") /\ ~At(t, "answer")
      /\ Req(t) \in Requests /\ Req(t).op = "create_room" /\ u \in Users /\ r \in Rooms
  BY RequestFields DEF InsertRoom, At, IInv, HandlerInv, HandlerOK
<1>2. PICK ok \in BOOLEAN :
        CreateRoom(r, u, ok) /\ (IF ok THEN Goto(t, "add") ELSE Finish(t, "error"))
  BY DEF InsertRoom
<1>3. UNCHANGED <<users, roomUsers, messages, failing, now, asked, answers>>
  BY DEF InsertRoom
<1>4. CASE ok
  <2>1. rooms[r] = None /\ rooms' = [rooms EXCEPT ![r] = u] /\ Goto(t, "add")
    BY <1>2, <1>4 DEF CreateRoom
  <2>2. ThreadStep(t) /\ thread' \in [Threads -> ThreadType]
        /\ thread'[t].pc = "add" /\ Req(t)' = Req(t)
    BY <1>1, <1>3, <2>1, GotoStep DEF Labels
  <2>3. StateOK' /\ TableStep(t) /\ rooms'[r] = u
    BY <1>1, <1>3, <2>1, <2>2 DEF IInv, StateOK, TableStep, TablesKept
  <2>4. HandlerOK(t)' /\ AnswerStep(t) /\ ~At(t, "members")'
    BY <1>1, <2>2, <2>3 DEF HandlerOK, AnswerStep, At
  <2> QED BY <2>1, <2>2, <2>3, <2>4, HandlerStep
<1>5. CASE ~ok
  <2>1. UNCHANGED rooms /\ Finish(t, "error")
    BY <1>2, <1>5 DEF CreateRoom
  <2>2. /\ ThreadStep(t) /\ thread' \in [Threads -> ThreadType]
        /\ thread'[t].pc = "answer" /\ thread'[t].result = "error"
        /\ Reply(t)'.req = Req(t) /\ Reply(t)'.result = "error"
    BY <1>1, <1>3, <2>1, FinishStep DEF Results
  <2>3. StateOK' /\ TableStep(t)
    BY <1>3, <2>1, <2>2 DEF IInv, StateOK, TableStep, TablesKept
  <2>4. HoldsFor(Reply(t))' /\ Fresh(Reply(t))'
    BY <1>1, <2>2, NothingToSee DEF HoldsFor
  <2>5. AnswerStep(t)
    BY <2>2, <2>4, <1>1 DEF AnswerStep
  <2> QED BY <2>2, <2>3, <2>5, LastStep
<1> QED BY <1>4, <1>5

LEMMA InsertMemberKeeps ==
  ASSUME IInv, NEW t \in Threads, InsertMember(t)
  PROVE  IInv'
<1> DEFINE r == Req(t).room
           u == Req(t).user
<1>1. /\ At(t, "add") /\ ~At(t, "idle") /\ ~At(t, "answer")
      /\ Req(t) \in Requests /\ Req(t).op \in {"create_room", "join_room"}
      /\ u \in Users /\ r \in Rooms
      /\ Req(t).op = "create_room" => rooms[r] = u /\ Creating(t)
  BY RequestFields DEF InsertMember, At, IInv, HandlerInv, HandlerOK, Creating
<1>2. PICK ok \in BOOLEAN :
        AddUserToRoom(r, u, ok) /\ Finish(t, IF ok THEN "success" ELSE "error")
  BY DEF InsertMember
<1>3. UNCHANGED <<users, rooms, messages, failing, now, asked, answers>>
  BY DEF InsertMember
<1>4. /\ ThreadStep(t) /\ thread' \in [Threads -> ThreadType]
      /\ thread'[t].pc = "answer" /\ Reply(t)'.req = Req(t)
      /\ Reply(t)'.result = IF ok THEN "success" ELSE "error"
  BY <1>1, <1>2, <1>3, FinishStep DEF Results
<1>5. /\ roomUsers \subseteq roomUsers' /\ roomUsers' \subseteq Rooms \X Users
      /\ ok => <<r, u>> \in roomUsers'
  BY <1>1, <1>2 DEF AddUserToRoom, IInv, StateOK
<1>6. StateOK' /\ TableStep(t)
  BY <1>3, <1>4, <1>5 DEF IInv, StateOK, TableStep, TablesKept
<1>7. HoldsFor(Reply(t))'
  BY <1>1, <1>3, <1>4, <1>5 DEF HoldsFor
<1>8. AnswerStep(t)
  BY <1>1, <1>4, <1>7, NothingToSee DEF AnswerStep
<1> QED BY <1>4, <1>6, <1>8, LastStep

LEMMA InsertMessageKeeps ==
  ASSUME IInv, NEW t \in Threads, InsertMessage(t)
  PROVE  IInv'
<1>1. /\ At(t, "save") /\ ~At(t, "idle") /\ ~At(t, "answer")
      /\ Req(t) \in Requests /\ Req(t).op = "send_message"
      /\ Req(t).user \in Users /\ Req(t).room \in Rooms
  BY RequestFields DEF InsertMessage, At, IInv, HandlerInv, HandlerOK
<1>2. thread[t].id \in Ids /\ Sent(thread[t].id) = {}
  BY <1>1 DEF IInv, StateOK, IdInv, MessageInv
<1>3. PICK ok \in BOOLEAN :
        SaveMessage(OwnMessage(t), ok) /\ Finish(t, IF ok THEN "success" ELSE "error")
  BY DEF InsertMessage, OwnMessage
<1>4. UNCHANGED <<users, rooms, roomUsers, failing, now, asked, answers>>
  BY DEF InsertMessage
<1>5. /\ ThreadStep(t) /\ thread' \in [Threads -> ThreadType]
      /\ thread'[t].pc = "answer" /\ Reply(t)'.req = Req(t) /\ Reply(t)'.id = thread[t].id
      /\ Reply(t)'.result = IF ok THEN "success" ELSE "error"
  BY <1>1, <1>3, <1>4, FinishStep DEF Results
<1>6. messages \in Seq([room : Rooms, user : Users, time : 1 .. MaxTime, by : Ids])
  BY DEF IInv, StateOK
<1>7. OwnMessage(t) \in [room : Rooms, user : Users, time : 1 .. MaxTime, by : Ids]
      /\ OwnMessage(t).by = thread[t].id
  BY <1>1, <1>2 DEF OwnMessage, IInv, HandlerInv, HandlerOK
<1>8. /\ UNCHANGED messages /\ Sent(Reply(t).id)' = {} /\ ~ok
      \/ /\ messages' = Append(messages, OwnMessage(t)) /\ ok
         /\ Sent(Reply(t).id)' = {Len(messages) + 1}
  <2>1. CASE ok
    BY <1>2, <1>3, <1>5, <1>6, <1>7, <2>1, SentAppend DEF SaveMessage
  <2>2. CASE ~ok
    BY <1>2, <1>3, <1>5, <2>2 DEF SaveMessage, Sent
  <2> QED BY <2>1, <2>2
<1>9. StateOK' /\ TableStep(t)
  <2>1. messages' \in Seq([room : Rooms, user : Users, time : 1 .. MaxTime, by : Ids])
    <3>1. CASE UNCHANGED messages
      BY <1>6, <3>1
    <3>2. CASE messages' = Append(messages, OwnMessage(t))
      BY <1>6, <1>7, <3>2, AppendSeq
    <3> QED BY <1>8, <3>1, <3>2
  <2>2. StateOK'
    BY <1>4, <1>5, <2>1 DEF IInv, StateOK
  <2>3. TablesKept
    BY <1>4 DEF TablesKept
  <2>4. At(t, "answer")'
    BY <1>5 DEF At
  <2> QED BY <1>1, <1>8, <2>2, <2>3, <2>4 DEF TableStep
<1>10. HoldsFor(Reply(t))'
  <2>1. Cardinality(Sent(Reply(t).id)') = IF ok THEN 1 ELSE 0
    BY <1>8, FS_Singleton, FS_EmptySet
  <2> QED BY <1>1, <1>5, <2>1 DEF HoldsFor
<1>11. AnswerStep(t)
  BY <1>1, <1>5, <1>10, NothingToSee DEF AnswerStep
<1> QED BY <1>5, <1>9, <1>11, LastStep

LEMMA ReadMessagesKeeps ==
  ASSUME IInv, NEW t \in Threads, Read(t), Req(t).op = "messages"
  PROVE  IInv'
<1> DEFINE r == Req(t).room
           since == Req(t).since
<1>1. /\ At(t, "read") /\ ~At(t, "idle") /\ ~At(t, "answer")
      /\ Req(t) \in Requests /\ r \in Rooms /\ since \in 0 .. MaxTime
  BY RequestFields DEF Read, At, IInv, HandlerInv, HandlerOK
<1>2. PICK got \in SUBSET DOMAIN messages :
        /\ SelectedInOrder(RoomMessages(r, since), got)
        /\ List(t, {messages[k].by : k \in got})
  BY DEF Read
<1>3. UNCHANGED <<tables, failing, now, asked, answers>>
  BY DEF Read
<1>4. messages \in Seq([room : Rooms, user : Users, time : 1 .. MaxTime, by : Ids])
  BY DEF IInv, StateOK
<1>5. {messages[k].by : k \in got} \in SUBSET Items
  BY MessagesType DEF Items
<1>6. /\ ThreadStep(t) /\ thread' \in [Threads -> ThreadType]
      /\ thread'[t].pc = "answer" /\ Reply(t)'.req = Req(t)
      /\ Reply(t)'.listed = {messages[k].by : k \in got}
  BY <1>1, <1>2, <1>3, <1>5, ListStep
<1>7. StateOK' /\ TableStep(t)
  BY <1>3, <1>6 DEF IInv, StateOK, tables, TableStep, TablesKept
<1>8. ASSUME ~failing PROVE Fresh(Reply(t))'
  <2> SUFFICES ASSUME NEW b \in answers, b.result = "success" PROVE Sees(Reply(t), b)'
    BY <1>3 DEF Fresh
  <2>1. got = RoomMessages(r, since)
    BY <1>2, <1>8 DEF Selected, SelectedInOrder
  <2>2. CASE b.req.op = "send_message" /\ b.req.room = r
    <3> SUFFICES ASSUME NEW k \in DOMAIN messages, messages[k].by = b.id,
                        messages[k].time > since \/ since = 0
                 PROVE  b.id \in Reply(t)'.listed
      BY <1>3, <1>6, <2>2 DEF Sees, tables
    <3>1. messages[k].room = r
      BY <2>2 DEF IInv, MessageInv, Sent, Replies
    <3>2. k \in got
      BY <1>1, <2>1, <3>1 DEF RoomMessages
    <3> QED BY <1>6, <3>2
  <2>3. CASE ~(b.req.op = "send_message" /\ b.req.room = r)
    BY <1>6, <2>3 DEF Sees
  <2> QED BY <2>2, <2>3
<1>9. AnswerStep(t)
  BY <1>6, <1>8, NothingToHold DEF AnswerStep
<1> QED BY <1>6, <1>7, <1>9, LastStep

LEMMA ReadUsersKeeps ==
  ASSUME IInv, NEW t \in Threads, Read(t), Req(t).op = "users"
  PROVE  IInv'
<1>1. At(t, "read") /\ ~At(t, "idle") /\ ~At(t, "answer") /\ Req(t) \in Requests
  BY DEF Read, At, IInv, HandlerInv, HandlerOK
<1>2. PICK got \in SUBSET Users :
        /\ Selected(ExistingUsers, got)
        /\ List(t, {<<u, users[u].online>> : u \in got})
  BY DEF Read
<1>3. UNCHANGED <<tables, failing, now, asked, answers>>
  BY DEF Read
<1>4. \A u \in got : u \in Users /\ users[u].online \in BOOLEAN
  BY <1>2 DEF IInv, StateOK, Selected, ExistingUsers
<1>5. {<<u, users[u].online>> : u \in got} \in SUBSET Items
  BY <1>4 DEF Items
<1>6. /\ ThreadStep(t) /\ thread' \in [Threads -> ThreadType]
      /\ thread'[t].pc = "answer" /\ Reply(t)'.req = Req(t)
      /\ Reply(t)'.listed = {<<u, users[u].online>> : u \in got}
  BY <1>1, <1>2, <1>3, <1>5, ListStep
<1>7. StateOK' /\ TableStep(t)
  BY <1>3, <1>6 DEF IInv, StateOK, tables, TableStep, TablesKept
<1>8. ASSUME ~failing PROVE Fresh(Reply(t))'
  <2> SUFFICES ASSUME NEW b \in answers, b.result = "success" PROVE Sees(Reply(t), b)'
    BY <1>3 DEF Fresh
  <2>1. got = ExistingUsers
    BY <1>2, <1>8 DEF Selected
  <2>2. CASE b.req.op = "register"
    <3>1. HoldsFor(b) /\ b.req \in Requests
      BY RepliesType DEF IInv, HoldInv, Replies, ReplyType
    <3>2. b.req.user \in got
      BY <2>1, <2>2, <3>1, RequestFields DEF HoldsFor, ExistingUsers
    <3>3. \E online \in BOOLEAN : <<b.req.user, online>> \in Reply(t)'.listed
      BY <1>4, <1>6, <3>2
    <3> QED BY <1>6, <2>2, <3>3 DEF Sees
  <2>3. CASE b.req.op # "register"
    BY <1>6, <2>3 DEF Sees
  <2> QED BY <2>2, <2>3
<1>9. AnswerStep(t)
  BY <1>6, <1>8, NothingToHold DEF AnswerStep
<1> QED BY <1>6, <1>7, <1>9, LastStep

LEMMA ReadRoomsKeeps ==
  ASSUME IInv, NEW t \in Threads, ReadRooms(t)
  PROVE  IInv'
<1>1. /\ At(t, "read") /\ ~At(t, "idle") /\ ~At(t, "answer")
      /\ Req(t) \in Requests /\ Req(t).op = "rooms"
  BY DEF ReadRooms, At, IInv, HandlerInv, HandlerOK
<1>2. PICK got \in SUBSET Rooms :
        /\ Selected(ExistingRooms, got)
        /\ thread' = [thread EXCEPT ![t].pc = "members", ![t].data.todo = got]
  BY DEF ReadRooms
<1>3. UNCHANGED <<tables, failing, now, asked, answers>>
  BY DEF ReadRooms
<1>4. /\ ThreadStep(t) /\ thread' \in [Threads -> ThreadType]
      /\ thread'[t].pc = "members" /\ thread'[t].data.todo = got
  <2>1. thread \in [Threads -> ThreadType] /\ "members" \in Labels
    BY DEF IInv, StateOK, Labels
  <2>2. thread' = [thread EXCEPT ![t] = [thread[t] EXCEPT !.pc = "members", !.data.todo = got]]
    BY <1>2
  <2> DEFINE u == [thread[t] EXCEPT !.pc = "members", !.data.todo = got]
  <2>u. u \in ThreadType
    BY <2>1, DataChanged
  <2>3. thread' \in [Threads -> ThreadType]
    <3> HIDE DEF u
    <3>1. thread' = [thread EXCEPT ![t] = u]
      BY <2>2 DEF u
    <3> QED BY <2>1, <2>u, <3>1
  <2>4. thread'[t].pc = "members" /\ thread'[t].data.todo = got
    BY <2>1, <2>2 DEF ThreadType
  <2>5. \A s \in Threads \ {t} : thread'[s] = thread[s]
    BY <2>1, <2>2
  <2>6. thread'[t].id = thread[t].id /\ thread'[t].req = thread[t].req /\ thread'[t].before = thread[t].before
    BY <2>1, <2>2 DEF ThreadType
  <2>7. ThreadStep(t)
    BY <1>1, <1>3, <2>3, <2>4, <2>5, <2>6 DEF ThreadStep, At
  <2> QED BY <2>3, <2>4, <2>7
<1>5. StateOK' /\ TableStep(t)
  BY <1>3, <1>4 DEF IInv, StateOK, tables, TableStep, TablesKept
<1>6. ~failing => WillList(t)'
  <2> SUFFICES ASSUME ~failing, NEW b \in answers, Created(b, b.req.room)
               PROVE  b.req.room \in thread'[t].data.todo
    BY <1>3 DEF WillList
  <2>1. HoldsFor(b) /\ b.req \in Requests
    BY RepliesType DEF IInv, HoldInv, Replies, ReplyType
  <2>2. b.req.room \in ExistingRooms
    BY <2>1, RequestFields DEF HoldsFor, Created, ExistingRooms
  <2> QED BY <1>2, <1>4, <2>2 DEF Selected
<1>7. HandlerOK(t)' /\ AnswerStep(t) /\ ~Creating(t)'
  BY <1>1, <1>4 DEF HandlerOK, AnswerStep, Creating, At, Req, ThreadStep
<1> QED BY <1>4, <1>5, <1>6, <1>7, HandlerStep

LEMMA ReadMembersKeeps ==
  ASSUME IInv, NEW t \in Threads, ReadMembers(t)
  PROVE  IInv'
<1> DEFINE todo == thread[t].data.todo
           listed == thread[t].data.listed
<1>1. /\ At(t, "members") /\ ~At(t, "idle") /\ ~At(t, "answer")
      /\ Req(t) \in Requests /\ Req(t).op = "rooms"
      /\ todo \in SUBSET Rooms /\ listed \in SUBSET Items
  BY DEF ReadMembers, At, IInv, HandlerInv, HandlerOK, StateOK, ThreadType
<1>2. PICK r \in todo, got \in SUBSET Users :
        /\ Selected(Members(r), got)
        /\ thread' = [thread EXCEPT ![t].data.todo = @ \ {r},
                                    ![t].data.listed = @ \cup {<<r, got>>}]
  BY DEF ReadMembers
<1>3. UNCHANGED <<tables, failing, now, asked, answers>>
  BY DEF ReadMembers
<1>4. /\ ThreadStep(t) /\ thread' \in [Threads -> ThreadType] /\ thread'[t].pc = "members"
      /\ thread'[t].data.todo = todo \ {r} /\ thread'[t].data.listed = listed \cup {<<r, got>>}
      /\ Reply(t)'.req = Req(t) /\ Reply(t)'.listed = listed \cup {<<r, got>>}
  <2>1. thread \in [Threads -> ThreadType]
    BY DEF IInv, StateOK
  <2>2. thread' = [thread EXCEPT ![t] = [thread[t] EXCEPT !.data.todo = todo \ {r},
                                                          !.data.listed = listed \cup {<<r, got>>}]]
    BY <1>2, <2>1 DEF ThreadType
  <2>3. <<r, got>> \in Items
    BY <1>1 DEF Items
  <2>4. /\ thread'[t] \in ThreadType /\ thread'[t].pc = thread[t].pc
        /\ thread'[t].id = thread[t].id
        /\ thread'[t].req = thread[t].req /\ thread'[t].before = thread[t].before
        /\ thread'[t].data.todo = todo \ {r}
        /\ thread'[t].data.listed = listed \cup {<<r, got>>}
    BY <1>1, <2>1, <2>2, <2>3 DEF ThreadType
  <2> QED BY <1>1, <1>3, <2>1, <2>2, <2>4 DEF ThreadStep, At, Reply, Req
<1>5. StateOK' /\ TableStep(t)
  BY <1>3, <1>4 DEF IInv, StateOK, tables, TableStep, TablesKept
<1>6. ~failing => WillList(t)'
  <2> SUFFICES ASSUME ~failing, NEW b \in answers, b.id \in thread[t].before,
                      Created(b, b.req.room), b.req.room \notin thread'[t].data.todo
               PROVE  Sees(Reply(t), b)'
    BY <1>3, <1>4 DEF WillList, ThreadStep
  <2>1. HoldsFor(b) /\ b.req \in Requests
    BY RepliesType DEF IInv, HoldInv, Replies, ReplyType
  <2>2. CASE b.req.room = r
    <3>1. b.req.user \in Members(r)
      BY <2>1, <2>2, RequestFields DEF HoldsFor, Created, Members
    <3>2. b.req.user \in got
      BY <1>2, <3>1 DEF Selected
    <3> QED BY <1>1, <1>4, <2>2, <3>2 DEF Sees, Created
  <2>3. CASE b.req.room # r
    <3>1. Sees(Reply(t), b)
      BY <1>1, <1>4, <2>3 DEF IInv, FreshInv, WillList
    <3>2. \E got2 \in SUBSET Users :
            <<b.req.room, got2>> \in listed /\ b.req.user \in got2
      BY <1>1, <3>1 DEF Sees, Created, Reply, Req
    <3> QED BY <1>1, <1>4, <3>2 DEF Sees, Created
  <2> QED BY <2>2, <2>3
<1>7. HandlerOK(t)' /\ AnswerStep(t) /\ ~Creating(t)'
  BY <1>1, <1>4 DEF HandlerOK, AnswerStep, Creating, At, Req, ThreadStep
<1> QED BY <1>4, <1>5, <1>6, <1>7, HandlerStep

LEMMA RoomsReadKeeps ==
  ASSUME IInv, NEW t \in Threads, RoomsRead(t)
  PROVE  IInv'
<1>1. /\ At(t, "members") /\ ~At(t, "idle") /\ ~At(t, "answer")
      /\ Req(t) \in Requests /\ Req(t).op = "rooms" /\ thread[t].data.todo = {}
  BY DEF RoomsRead, At, IInv, HandlerInv, HandlerOK
<1>2. UNCHANGED <<tables, failing, now, asked, answers>> /\ Goto(t, "answer")
  BY DEF RoomsRead
<1>3. ThreadStep(t) /\ thread' \in [Threads -> ThreadType] /\ thread'[t].pc = "answer"
  BY <1>1, <1>2, GotoStep DEF Labels
<1>4. Reply(t)' = Reply(t) /\ Reply(t).req = Req(t) /\ Reply(t).before = thread[t].before
  BY <1>2 DEF IInv, StateOK, ThreadType, Goto, Reply, Req
<1>5. StateOK' /\ TableStep(t)
  BY <1>2, <1>3 DEF IInv, StateOK, tables, TableStep, TablesKept
<1>6. ASSUME ~failing PROVE Fresh(Reply(t))'
  <2> SUFFICES ASSUME NEW b \in answers, b.result = "success", b.id \in thread[t].before
               PROVE  Sees(Reply(t), b)'
    BY <1>2, <1>4 DEF Fresh
  <2>1. CASE b.req.op = "create_room"
    <3>1. Created(b, b.req.room)
      BY <2>1 DEF Created
    <3>2. Sees(Reply(t), b)
      BY <1>1, <1>6, <3>1 DEF IInv, FreshInv, WillList
    <3> QED BY <1>1, <1>4, <2>1, <3>2 DEF Sees
  <2>2. CASE b.req.op # "create_room"
    BY <1>1, <1>4, <2>2 DEF Sees
  <2> QED BY <2>1, <2>2
<1>7. AnswerStep(t)
  BY <1>1, <1>4, <1>6, NothingToHold DEF AnswerStep
<1> QED BY <1>3, <1>5, <1>7, LastStep

LEMMA RejectKeeps ==
  ASSUME IInv, NEW t \in Threads, Reject(t)
  PROVE  IInv'
<1>1. /\ At(t, "parse") /\ ~At(t, "idle") /\ ~At(t, "answer") /\ Req(t).op = "malformed"
  BY DEF Reject, At, IInv, HandlerInv, HandlerOK
<1>2. UNCHANGED <<tables, failing, now, asked, answers>> /\ Finish(t, "invalid")
  BY DEF Reject
<1>3. /\ ThreadStep(t) /\ thread' \in [Threads -> ThreadType]
      /\ thread'[t].pc = "answer" /\ Reply(t)'.req = Req(t)
  BY <1>1, <1>2, FinishStep DEF Results
<1>4. StateOK' /\ TableStep(t)
  BY <1>2, <1>3 DEF IInv, StateOK, tables, TableStep, TablesKept
<1>5. AnswerStep(t)
  BY <1>1, <1>3, NothingToHold, NothingToSee DEF AnswerStep
<1> QED BY <1>3, <1>4, <1>5, LastStep
-----------------------------------------------------------------------------
(***************************************************************************)
(* The steps around the handlers.                                          *)
(***************************************************************************)
LEMMA ReceiveKeeps ==
  ASSUME IInv, NEW t \in Threads, NEW i \in Ids, NEW r \in Requests, Receive(t, i, r)
  PROVE  IInv'
<1> DEFINE x == [pc |-> FirstStep[r.op], id |-> i, req |-> r, before |-> Answered,
                 time |-> IF r.op = "send_message" THEN now ELSE 0,
                 result |-> "success", data |-> NoData]
<1>1. At(t, "idle") /\ i \notin asked /\ asked' = asked \cup {i} /\ thread' = [thread EXCEPT ![t] = x]
      /\ UNCHANGED <<tables, failing, now, answers>>
  BY DEF Receive
<1>2. thread \in [Threads -> ThreadType]
  BY DEF IInv, StateOK
<1>3. /\ x.pc = FirstStep[r.op] /\ x.id = i /\ x.req = r /\ x.before = Answered
      /\ x.time = IF r.op = "send_message" THEN now ELSE 0
      /\ x.result = "success" /\ x.data = NoData
  OBVIOUS
<1>4. /\ x.pc \in Labels /\ x.pc \notin {"idle", "insert", "online", "members", "answer"}
      /\ x.pc = "validate" => r.op \in {"register", "login"}
      /\ x.pc = "offline" => r.op = "logout"
      /\ x.pc = "create" => r.op = "create_room"
      /\ x.pc = "add" => r.op = "join_room"
      /\ x.pc = "save" => r.op = "send_message"
      /\ x.pc = "read" => r.op \in {"messages", "users", "rooms"}
      /\ x.pc = "parse" => r.op = "malformed"
  BY <1>3, RequestFields DEF FirstStep, Labels
<1>5. Answered \subseteq asked /\ Answered \subseteq Ids /\ now \in 1 .. MaxTime
  BY DEF IInv, IdInv, StateOK
<1>6. x \in ThreadType
  <2>1. x = [pc |-> x.pc, id |-> i, req |-> r, before |-> Answered, time |-> x.time,
             result |-> "success", data |-> NoData]
    OBVIOUS
  <2>2. x.time \in 0 .. MaxTime /\ NoData \in [listed : SUBSET Items, todo : SUBSET Rooms]
    BY <1>3, <1>5 DEF NoData
  <2> HIDE DEF x
  <2> QED BY <1>4, <1>5, <2>1, <2>2 DEF ThreadType, Results
<1>7. thread'[t] = x /\ \A s \in Threads \ {t} : thread'[s] = thread[s]
  BY <1>1, <1>2
<1> HIDE DEF x
<1>8. StateOK'
  BY <1>1, <1>2, <1>6 DEF IInv, StateOK, tables
<1>9. HandlerInv'
  <2>1. HandlerOK(t)'
    BY <1>3, <1>4, <1>5, <1>7 DEF HandlerOK, At, Req
  <2>2. \A s \in Threads \ {t} : HandlerOK(s)'
    BY <1>1, <1>7 DEF IInv, HandlerInv, HandlerOK, At, Req, tables
  <2> QED BY <2>1, <2>2 DEF HandlerInv
<1>10. Answered' = Answered
  BY <1>1 DEF Answered
<1>11. IdInv'
  <2>1. \A s \in Threads \ {t} :
          /\ thread'[s] = thread[s]
          /\ At(s, "idle")' <=> At(s, "idle")
          /\ thread[s].id # i \/ At(s, "idle")
    BY <1>1, <1>7 DEF IInv, IdInv, At
  <2>2. thread'[t].id = i /\ thread'[t].before = Answered /\ ~At(t, "idle")'
    BY <1>3, <1>4, <1>7 DEF At
  <2>3. \A s \in Threads : At(s, "idle") => thread[s].id # i
    BY DEF IInv, HandlerInv, HandlerOK
  <2>4. \A s \in Threads : ~At(s, "idle")' =>
          thread'[s].id \in asked' \ Answered' /\ thread'[s].before \subseteq Answered'
    <3>1. i \in asked' \ Answered
      BY <1>1, <1>5
    <3>2. \A s \in Threads \ {t} : ~At(s, "idle")' =>
            thread'[s].id \in asked' \ Answered /\ thread'[s].before \subseteq Answered
      BY <1>1, <2>1 DEF IInv, IdInv
    <3> QED BY <1>10, <2>2, <3>1, <3>2
  <2>5. \A s, v \in Threads : thread'[s].id = thread'[v].id /\ ~At(s, "idle")' => s = v
    <3>1. \A s \in Threads \ {t} : thread'[s].id # i
      BY <2>1, <2>3
    <3>2. \A s, v \in Threads \ {t} : thread'[s].id = thread'[v].id /\ ~At(s, "idle")' => s = v
      BY <2>1 DEF IInv, IdInv
    <3> QED BY <2>2, <3>1, <3>2
  <2> QED BY <1>1, <1>10, <2>4, <2>5 DEF IInv, IdInv
<1>12. Replies' = Replies /\ ~At(t, "answer")' /\ ~At(t, "members")' /\ ~Creating(t)'
  <2>1. \A s \in Threads \ {t} : Reply(s)' = Reply(s) /\ (At(s, "answer")' <=> At(s, "answer"))
    BY <1>7 DEF Reply, At
  <2>2. ~At(t, "answer")' /\ ~At(t, "answer") /\ ~At(t, "members")' /\ ~Creating(t)'
    BY <1>1, <1>3, <1>4, <1>7 DEF At, Creating, Req
  <2> QED BY <1>1, <2>1, <2>2 DEF Replies
<1>13. MessageInv'
  <2>1. \A j : Sent(j)' = Sent(j)
    BY <1>1 DEF Sent, tables
  <2>2. Sent(i) = {}
    BY <1>1 DEF IInv, MessageInv, Sent
  <2> QED BY <1>1, <1>3, <1>7, <1>12, <2>1, <2>2 DEF IInv, MessageInv, At, tables
<1>14. HoldInv'
  BY <1>1, <1>12 DEF IInv, HoldInv, HoldsFor, Sent, tables
<1>15. NameInv'
  <2>1. \A s \in Threads \ {t} : (Creating(s)' <=> Creating(s)) /\ Req(s)' = Req(s)
    BY <1>7 DEF Creating, At, Req
  <2> QED BY <1>12, <2>1 DEF IInv, NameInv, ElsewhereClaimed
<1>16. FreshInv'
  <2>1. \A a, b : Sees(a, b)' <=> Sees(a, b)
    BY <1>1 DEF Sees, tables
  <2>2. \A s \in Threads \ {t} :
          /\ At(s, "members")' => At(s, "members")
          /\ WillList(s) => WillList(s)'
    BY <1>1, <1>7, <2>1 DEF WillList, At, Reply
  <2>3. \A a : Fresh(a)' <=> Fresh(a)
    BY <1>1, <2>1 DEF Fresh
  <2>4. ASSUME ~failing, NEW s \in Threads, At(s, "members")' PROVE WillList(s)'
    <3>1. s # t
      BY <1>12, <2>4
    <3>2. WillList(s)
      BY <2>2, <2>4, <3>1 DEF IInv, FreshInv
    <3> QED BY <2>2, <3>1, <3>2
  <2> QED BY <1>1, <1>12, <2>3, <2>4 DEF IInv, FreshInv
<1> QED BY <1>8, <1>9, <1>11, <1>13, <1>14, <1>15, <1>16 DEF IInv

(* A thread becomes idle, or all do.                                       *)
BecomesIdle(T) ==
  /\ \A s \in T : thread'[s] = Idle
  /\ \A s \in Threads \ T : thread'[s] = thread[s]
  /\ UNCHANGED <<tables, failing, now, asked>>

LEMMA IdleThreads ==
  ASSUME IInv, NEW T \in SUBSET Threads, BecomesIdle(T)
  PROVE  /\ \A s \in T : thread'[s].id = None /\ \A l \in Labels : At(s, l)' <=> l = "idle"
         /\ \A s \in Threads \ T :
              /\ thread'[s] = thread[s] /\ Reply(s)' = Reply(s) /\ Req(s)' = Req(s)
              /\ \A l \in Labels : At(s, l)' <=> At(s, l)
BY DEF BecomesIdle, Idle, At, Reply, Req

LEMMA IdleTypes ==
  ASSUME IInv, NEW T \in SUBSET Threads, BecomesIdle(T),
         thread' = [s \in Threads |-> thread'[s]], answers' \subseteq ReplyType
  PROVE  StateOK' /\ HandlerInv'
<1>1. Idle \in ThreadType
  BY DEF Idle, ThreadType, Labels, Results, NoData
<1>2. thread' \in [Threads -> ThreadType]
  BY <1>1 DEF BecomesIdle, IInv, StateOK
<1>3. StateOK'
  BY <1>2 DEF BecomesIdle, tables, IInv, StateOK
<1>4. ASSUME NEW s \in T PROVE HandlerOK(s)'
  BY <1>4, IdleThreads DEF HandlerOK, Labels
<1>5. ASSUME NEW s \in Threads \ T PROVE HandlerOK(s)'
  BY <1>5, IdleThreads DEF HandlerOK, Labels, IInv, HandlerInv, BecomesIdle, tables
<1> QED BY <1>3, <1>4, <1>5 DEF HandlerInv

LEMMA IdleMessages ==
  ASSUME IInv, NEW T \in SUBSET Threads, BecomesIdle(T), Replies' \subseteq Replies
  PROVE  MessageInv' /\ HoldInv' /\ NameInv'
<1>1. \A i : Sent(i)' = Sent(i)
  BY DEF Sent, BecomesIdle, tables
<1>2. MessageInv'
  BY <1>1, IdleThreads DEF IInv, MessageInv, BecomesIdle, tables, Labels
<1>3. \A a : HoldsFor(a) => HoldsFor(a)'
  BY <1>1 DEF HoldsFor, BecomesIdle, tables
<1>4. HoldInv'
  BY <1>3 DEF IInv, HoldInv
<1>5. \A s \in Threads : Creating(s)' => Creating(s) /\ Req(s)' = Req(s)
  BY IdleThreads DEF Creating, Labels
<1>6. NameInv'
  BY <1>5 DEF IInv, NameInv, ElsewhereClaimed
<1> QED BY <1>2, <1>4, <1>6

LEMMA AnswerKeeps ==
  ASSUME IInv, NEW t \in Threads, Answer(t)
  PROVE  IInv'
<1>1. /\ At(t, "answer") /\ answers' = answers \cup {Reply(t)}
      /\ BecomesIdle({t}) /\ thread' = [s \in Threads |-> thread'[s]]
      /\ UNCHANGED <<tables, failing, now, asked>>
  BY DEF Answer, BecomesIdle, IInv, StateOK
<1>2. Reply(t) \in Replies /\ answers \subseteq Replies /\ ~At(t, "idle")
  BY <1>1 DEF Replies, At
<1>3. Replies' = Replies
  <2>1. ~At(t, "answer")' /\ \A s \in Threads \ {t} :
          Reply(s)' = Reply(s) /\ (At(s, "answer")' <=> At(s, "answer"))
    BY <1>1, IdleThreads DEF Labels
  <2> QED BY <1>1, <2>1 DEF Replies
<1>4. StateOK' /\ HandlerInv'
  BY <1>1, <1>2, IdleTypes, RepliesType
<1>5. MessageInv' /\ HoldInv' /\ NameInv'
  BY <1>1, <1>3, IdleMessages
<1>6. Reply(t).id = thread[t].id /\ Reply(t).before = thread[t].before
  BY DEF Reply
<1>7. Answered' = Answered \cup {thread[t].id} /\ thread[t].id \in asked \ Answered
  BY <1>1, <1>2, <1>6 DEF Answered, IInv, IdInv
<1>8. \A s \in Threads \ {t} : thread'[s] = thread[s] /\ (At(s, "idle")' <=> At(s, "idle"))
  BY <1>1, IdleThreads DEF Labels
<1>9. IdInv'
  <2>1. At(t, "idle")'
    BY <1>1, IdleThreads DEF Labels
  <2>2. ASSUME NEW s \in Threads, ~At(s, "idle")'
        PROVE  thread'[s].id \in asked' \ Answered' /\ thread'[s].before \subseteq Answered'
    <3>1. s # t /\ thread'[s] = thread[s] /\ ~At(s, "idle")
      BY <1>8, <2>1, <2>2
    <3>2. thread[s].id # thread[t].id
      BY <3>1 DEF IInv, IdInv
    <3> QED BY <1>1, <1>7, <3>1, <3>2 DEF IInv, IdInv
  <2>3. ASSUME NEW s \in Threads, NEW v \in Threads, thread'[s].id = thread'[v].id, ~At(s, "idle")'
        PROVE  s = v
    <3>1. s # t /\ thread'[s] = thread[s] /\ ~At(s, "idle") /\ thread[s].id # None
      BY <1>8, <2>1, <2>3 DEF IInv, IdInv, StateOK
    <3>2. v # t
      BY <1>1, <2>3, <3>1, IdleThreads
    <3> QED BY <1>8, <2>3, <3>1, <3>2 DEF IInv, IdInv
  <2>4. Answered' \subseteq asked'
    BY <1>1, <1>7 DEF IInv, IdInv
  <2>5. \A a \in answers : a.id # thread[t].id
    BY <1>7 DEF Answered
  <2>6. \A a, b \in answers' : a.id = b.id => a = b
    BY <1>1, <1>6, <2>5 DEF IInv, IdInv
  <2>7. \A a \in answers' : a.before \subseteq Answered'
    BY <1>1, <1>2, <1>6, <1>7 DEF IInv, IdInv
  <2> QED BY <2>2, <2>3, <2>4, <2>6, <2>7 DEF IdInv
<1>10. FreshInv'
  <2>1. \A a, b : Sees(a, b)' <=> Sees(a, b)
    BY <1>1 DEF Sees, tables
  <2>2. \A a \in Replies : a.before \subseteq Answered
    BY DEF Replies, IInv, IdInv, Reply, At
  <2>3. ASSUME NEW a \in Replies, Fresh(a) PROVE Fresh(a)'
    BY <1>1, <1>6, <1>7, <2>1, <2>2, <2>3 DEF Fresh
  <2>4. ASSUME NEW s \in Threads, At(s, "members")', WillList(s) PROVE WillList(s)'
    <3>1. s # t /\ ~At(s, "idle") /\ thread'[s] = thread[s] /\ Reply(s)' = Reply(s)
      BY <1>1, <2>4, IdleThreads DEF Labels, At
    <3>2. thread[t].id \notin thread[s].before
      BY <1>7, <3>1 DEF IInv, IdInv
    <3> QED BY <1>1, <1>6, <2>1, <2>4, <3>1, <3>2 DEF WillList
  <2>5. \A s \in Threads : At(s, "members")' => At(s, "members")
    BY <1>1, IdleThreads DEF Labels
  <2> QED BY <1>1, <1>3, <2>3, <2>4, <2>5 DEF IInv, FreshInv
<1> QED BY <1>4, <1>5, <1>9, <1>10 DEF IInv

(* Handlers are cut off, in the middle of what they do.                    *)
LEMMA CutOffKeeps ==
  ASSUME IInv, NEW T \in SUBSET Threads, BecomesIdle(T),
         thread' = [s \in Threads |-> thread'[s]], UNCHANGED answers
  PROVE  IInv'
<1>1. UNCHANGED <<tables, failing, now, asked, answers>>
  BY DEF BecomesIdle
<1>2. /\ \A s \in T : thread'[s].id = None /\ At(s, "idle")' /\ ~At(s, "answer")'
                      /\ ~At(s, "members")'
      /\ \A s \in Threads \ T :
           /\ thread'[s] = thread[s] /\ Reply(s)' = Reply(s)
           /\ \A l \in Labels : At(s, l)' <=> At(s, l)
  BY IdleThreads DEF Labels
<1>3. Replies' \subseteq Replies
  BY <1>1, <1>2 DEF Replies, Labels
<1>4. StateOK' /\ HandlerInv'
  BY <1>1, IdleTypes DEF IInv, StateOK
<1>5. MessageInv' /\ HoldInv' /\ NameInv'
  BY <1>3, IdleMessages
<1>6. IdInv'
  <2>1. \A s \in Threads : ~At(s, "idle")' =>
          s \notin T /\ ~At(s, "idle") /\ thread'[s] = thread[s] /\ thread[s].id # None
    BY <1>2 DEF Labels, IInv, IdInv, StateOK
  <2>2. \A s, t \in Threads : thread'[s].id = thread'[t].id /\ ~At(s, "idle")' => s = t
    BY <1>2, <2>1 DEF IInv, IdInv
  <2> QED BY <1>1, <2>1, <2>2 DEF IInv, IdInv, Answered
<1>7. FreshInv'
  <2>1. \A a, b : Sees(a, b)' <=> Sees(a, b)
    BY <1>1 DEF Sees, tables
  <2>2. \A s \in Threads : At(s, "members")' =>
          At(s, "members") /\ thread'[s] = thread[s] /\ Reply(s)' = Reply(s)
    BY <1>2 DEF Labels
  <2> QED BY <1>1, <1>3, <2>1, <2>2 DEF IInv, FreshInv, Fresh, WillList
<1> QED BY <1>4, <1>5, <1>6, <1>7 DEF IInv

LEMMA CrashKeeps ==
  ASSUME IInv, Crash
  PROVE  IInv'
BY CutOffKeeps DEF Crash, BecomesIdle

LEMMA EndUnknownKeeps ==
  ASSUME IInv, NEW t \in Threads, EndUnknown(t)
  PROVE  IInv'
<1>1. BecomesIdle({t}) /\ thread' = [s \in Threads |-> thread'[s]] /\ UNCHANGED answers
  BY DEF EndUnknown, BecomesIdle, IInv, StateOK
<1> QED BY <1>1, CutOffKeeps

LEMMA AroundKeeps ==
  ASSUME IInv, Tick \/ StatementsFail \/ UNCHANGED vars
  PROVE  IInv'
<1>1. UNCHANGED <<tables, thread, asked, answers>> /\ (failing => failing')
  BY DEF Tick, StatementsFail, vars
<1>2. StateOK'
  <2>1. now \in 1 .. MaxTime /\ failing \in BOOLEAN
    BY DEF IInv, StateOK
  <2>2. now' \in 1 .. MaxTime
    BY <2>1 DEF Tick, StatementsFail, vars
  <2>3. failing' \in BOOLEAN
    BY <2>1 DEF Tick, StatementsFail, vars
  <2> QED BY <1>1, <2>2, <2>3 DEF tables, IInv, StateOK
<1>3. Replies' = Replies
  BY <1>1 DEF Replies, At, Reply
<1>4. HandlerInv' /\ IdInv'
  BY <1>1 DEF IInv, HandlerInv, HandlerOK, IdInv, At, Req, Answered, tables
<1>5. \A i : Sent(i)' = Sent(i)
  BY <1>1 DEF Sent, tables
<1>6. MessageInv' /\ HoldInv'
  BY <1>1, <1>3, <1>5 DEF IInv, MessageInv, HoldInv, HoldsFor, At, tables
<1>7. NameInv'
  BY <1>1, <1>3 DEF IInv, NameInv, ElsewhereClaimed, Creating, At, Req
<1>8. FreshInv'
  <2>1. \A a, b : Sees(a, b)' <=> Sees(a, b)
    BY <1>1 DEF Sees, tables
  <2> QED BY <1>1, <1>3, <2>1 DEF IInv, FreshInv, Fresh, WillList, At, Reply
<1> QED BY <1>2, <1>4, <1>6, <1>7, <1>8 DEF IInv

LEMMA InitHolds == Init => IInv
<1> SUFFICES ASSUME Init PROVE IInv
  OBVIOUS
<1>1. \A t \in Threads : thread[t] = Idle /\ thread[t].id = None /\ thread[t].pc = "idle"
  BY DEF Init, Idle
<1>2. Idle \in ThreadType
  BY DEF Idle, ThreadType, Labels, Results, NoData
<1>3. StateOK
  <2>1. now \in 1 .. MaxTime
    BY DEF Init
  <2>2. thread \in [Threads -> ThreadType]
    BY <1>2 DEF Init
  <2>3. /\ users \in [Users -> [password : Passwords, online : BOOLEAN] \cup {None}]
        /\ rooms \in [Rooms -> Users \cup {None}] /\ roomUsers \subseteq Rooms \X Users
    BY DEF Init
  <2>4. messages \in Seq([room : Rooms, user : Users, time : 1 .. MaxTime, by : Ids])
    BY DEF Init
  <2> QED BY <2>1, <2>2, <2>3, <2>4 DEF Init, StateOK
<1>4. Replies = {} /\ Answered = {}
  BY <1>1 DEF Init, Replies, Answered, At
<1> QED BY <1>1, <1>3, <1>4 DEF Init, IInv, HandlerInv, HandlerOK, IdInv, MessageInv, HoldInv,
                               NameInv, FreshInv, At, Creating

LEMMA NextKeeps == ASSUME IInv, [Next]_vars PROVE IInv'
<1>1. ASSUME NEW t \in Threads, Read(t) PROVE IInv'
  BY <1>1, ReadMessagesKeeps, ReadUsersKeeps DEF Read
<1>2. CASE \E t \in Threads : Handler(t)
  BY <1>1, <1>2, ReceiveKeeps, ValidateKeeps, InsertUserKeeps, GoOnlineKeeps, GoOfflineKeeps,
     InsertRoomKeeps, InsertMemberKeeps, InsertMessageKeeps, ReadRoomsKeeps, ReadMembersKeeps,
     RoomsReadKeeps, RejectKeeps, AnswerKeeps, EndUnknownKeeps DEF Handler
<1>3. CASE Crash
  BY <1>3, CrashKeeps
<1>4. CASE Tick \/ StatementsFail \/ Quiet \/ UNCHANGED vars
  BY <1>4, AroundKeeps DEF Quiet
<1> QED BY <1>2, <1>3, <1>4 DEF Next

(* Every state of every behaviour satisfies the invariant.                 *)
THEOREM Invariance == Spec => []IInv
BY InitHolds, NextKeeps, PTL DEF Spec

(* Every variable has a value of its type.                                 *)
THEOREM TypeCorrect == Spec => []TypeOK
<1>1. Init => literal \in BOOLEAN
  BY DEF Init
<1>2. literal \in BOOLEAN /\ [Next]_vars => (literal \in BOOLEAN)'
  BY DEF Next, Handler, Receive, EndUnknown, Crash, Tick, StatementsFail, Quiet, vars
<1>3. IInv /\ literal \in BOOLEAN => TypeOK
  BY DEF IInv, TypeOK
<1> QED BY <1>1, <1>2, <1>3, Invariance, PTL DEF Spec

(* What the service has answered is so, and stays so, whatever handlers    *)
(* run beside each other, fail, or are cut off by the end of the process,  *)
(* until a text has a quote (the statements of DatabaseManager).           *)
THEOREM AnswersStayTrue == Spec => []AnswersHold
<1>1. IInv => AnswersHold
  BY DEF IInv, HoldInv, AnswersHold, Replies
<1> QED BY <1>1, Invariance, PTL

(* Nobody is told he has registered a name, or created a room, that        *)
(* somebody else was told he has (createUser(), createRoom()).             *)
THEOREM NamesTakenOnce == Spec => []NamesAreUnique
<1>1. IInv => NamesAreUnique
  BY DEF IInv, NameInv, NamesAreUnique, Replies
<1> QED BY <1>1, Invariance, PTL

(* Who asks after an answer was sent sees what it says, until a statement  *)
(* fails or a text has a quote.                                            *)
THEOREM AnswersSeen == Spec => []AnswersAreFresh
<1>1. IInv => AnswersAreFresh
  BY DEF IInv, FreshInv, Fresh, AnswersAreFresh, Replies
<1> QED BY <1>1, Invariance, PTL
-----------------------------------------------------------------------------
(***************************************************************************)
(* Polls, over any number of threads.                                      *)
(***************************************************************************)
BoardOps == {"send_message", "join_room", "messages"}

(* What an answer that lists one message leaves out was saved after it,    *)
(* unless it is older than since or in another room.                       *)
AllUpTo(a) ==
  \A k, n \in DOMAIN messages :
    /\ messages[n].by \in a.listed
    /\ messages[k].room = a.req.room
    /\ a.req.since < messages[k].time /\ messages[k].time <= messages[n].time
    => messages[k].by \in a.listed \/ n < k

ListsSent(a) == a.req.op \in BoardOps => \A i \in a.listed : Sent(i) # {}

(* Before it answers, a handler has listed nothing and failed nothing.     *)
NothingListed(t) ==
  /\ ~At(t, "answer") /\ ~At(t, "members") => thread[t].data.listed = {}
  /\ At(t, "read") => thread[t].result = "success"

(* A request has sent one message at most, and polls list messages that    *)
(* there are.                                                              *)
PollInv ==
  /\ \A t \in Threads : NothingListed(t)
  /\ \A k, n \in DOMAIN messages : messages[k].by = messages[n].by => k = n
  /\ \A a \in Replies : ListsSent(a) /\ (a.req.op = "messages" => AllUpTo(a))

LEMMA PollFrame ==
  ASSUME PollInv, UNCHANGED messages,
         \A a \in Replies' : \/ a \in Replies
                             \/ a.req.op # "messages" /\ (a.req.op \in BoardOps => a.listed = {}),
         \A t \in Threads : NothingListed(t)'
  PROVE  PollInv'
<1>1. \A a : AllUpTo(a) => AllUpTo(a)'
  BY DEF AllUpTo
<1>2. \A i : Sent(i)' = Sent(i)
  BY DEF Sent
<1>3. \A a \in Replies' : ListsSent(a)' /\ (a.req.op = "messages" => AllUpTo(a)')
  BY <1>1, <1>2 DEF PollInv, ListsSent
<1> QED BY <1>3 DEF PollInv

(* The steps of a handler that neither save a message nor read messages.   *)
LEMMA ElsewhereSteps ==
  ASSUME IInv, NEW t \in Threads,
         \/ Validate(t) \/ InsertUser(t) \/ GoOnline(t) \/ GoOffline(t)
         \/ InsertRoom(t) \/ InsertMember(t) \/ Reject(t)
         \/ Read(t) /\ Req(t).op = "users"
         \/ ReadRooms(t) \/ ReadMembers(t) \/ RoomsRead(t)
  PROVE  /\ UNCHANGED messages /\ ~At(t, "answer") /\ ~At(t, "idle")
         /\ thread'[t].req = thread[t].req /\ thread'[t].id = thread[t].id
         /\ Req(t).op # "messages"
         /\ Req(t).op \in BoardOps => ~At(t, "members") /\ thread'[t].data = thread[t].data
         /\ \A s \in Threads \ {t} : thread'[s] = thread[s]
         /\ UNCHANGED answers
         /\ NothingListed(t) => NothingListed(t)'
<1>1. thread \in [Threads -> ThreadType] /\ HandlerOK(t)
  BY DEF IInv, StateOK, HandlerInv
<1>2. \/ \E pc \in {"insert", "online", "add", "answer"} :
           Goto(t, pc) /\ (At(t, "members") => pc = "answer")
      \/ \E result : Finish(t, result)
      \/ Req(t).op = "users" /\ \E rows : List(t, rows)
      \/ /\ Req(t).op = "rooms"
         /\ \E got : thread' = [thread EXCEPT ![t].pc = "members", ![t].data.todo = got]
      \/ /\ At(t, "members")
         /\ \E r, got : thread' = [thread EXCEPT ![t].data.todo = @ \ {r},
                                                 ![t].data.listed = @ \cup {<<r, got>>}]
  BY DEF Validate, InsertUser, GoOnline, GoOffline, InsertRoom, InsertMember, Reject, Read,
         ReadRooms, ReadMembers, RoomsRead, At
<1>3. /\ \A s \in Threads \ {t} : thread'[s] = thread[s]
      /\ thread'[t].req = thread[t].req /\ thread'[t].id = thread[t].id
      /\ thread'[t].pc # "read"
      /\ \/ thread'[t].pc \in {"answer", "members"}
         \/ thread'[t].data = thread[t].data /\ thread[t].pc # "members"
      /\ \/ thread'[t].data = thread[t].data
         \/ Req(t).op \in {"users", "rooms"} \/ At(t, "members")
  <2>1. CASE \E pc \in {"insert", "online", "add", "answer"} :
               Goto(t, pc) /\ (At(t, "members") => pc = "answer")
    BY <1>1, <2>1 DEF Goto, ThreadType, At
  <2>2. CASE \E result : Finish(t, result)
    BY <1>1, <2>2 DEF Finish, ThreadType
  <2>3. CASE Req(t).op = "users" /\ \E rows : List(t, rows)
    BY <1>1, <2>3 DEF List, ThreadType
  <2>4. CASE /\ Req(t).op = "rooms"
             /\ \E got : thread' = [thread EXCEPT ![t].pc = "members", ![t].data.todo = got]
    BY <1>1, <2>4 DEF ThreadType
  <2>5. CASE /\ At(t, "members")
             /\ \E r, got : thread' = [thread EXCEPT ![t].data.todo = @ \ {r},
                                                     ![t].data.listed = @ \cup {<<r, got>>}]
    BY <1>1, <2>5 DEF At, ThreadType
  <2> QED BY <1>2, <2>1, <2>2, <2>3, <2>4, <2>5
<1>4. UNCHANGED <<messages, answers>>
  BY DEF Validate, InsertUser, GoOnline, GoOffline, InsertRoom, InsertMember, Reject, Read,
         ReadRooms, ReadMembers, RoomsRead, tables
<1>5. ~At(t, "answer") /\ ~At(t, "idle") /\ Req(t).op # "messages"
  BY <1>1 DEF Validate, InsertUser, GoOnline, GoOffline, InsertRoom, InsertMember, Reject, Read,
              ReadRooms, ReadMembers, RoomsRead, HandlerOK, At
<1>6. thread[t].pc # "answer"
  BY <1>5 DEF At
<1>7. Req(t).op \in BoardOps => ~At(t, "members") /\ thread'[t].data = thread[t].data
  BY <1>1, <1>3 DEF HandlerOK, BoardOps
<1>8. NothingListed(t) => NothingListed(t)'
  BY <1>3, <1>6 DEF NothingListed, At
<1> QED BY <1>3, <1>4, <1>5, <1>7, <1>8

LEMMA ElsewherePoll ==
  ASSUME IInv, PollInv, NEW t \in Threads,
         \/ Validate(t) \/ InsertUser(t) \/ GoOnline(t) \/ GoOffline(t)
         \/ InsertRoom(t) \/ InsertMember(t) \/ Reject(t)
         \/ Read(t) /\ Req(t).op = "users"
         \/ ReadRooms(t) \/ ReadMembers(t) \/ RoomsRead(t)
  PROVE  PollInv'
<1>1. /\ UNCHANGED messages /\ ~At(t, "answer") /\ thread'[t].req = thread[t].req
      /\ Req(t).op # "messages"
      /\ Req(t).op \in BoardOps => ~At(t, "members") /\ thread'[t].data = thread[t].data
      /\ \A s \in Threads \ {t} : thread'[s] = thread[s]
      /\ UNCHANGED answers /\ NothingListed(t)'
  BY ElsewhereSteps DEF PollInv
<1>2. Reply(t)'.req.op # "messages" /\ (Reply(t)'.req.op \in BoardOps => Reply(t)'.listed = {})
  BY <1>1 DEF Reply, Req, PollInv, NothingListed
<1>3. \A a \in Replies' : \/ a \in Replies
                          \/ a.req.op # "messages" /\ (a.req.op \in BoardOps => a.listed = {})
  <2>1. \A s \in Threads \ {t} : Reply(s)' = Reply(s) /\ (At(s, "answer")' <=> At(s, "answer"))
    BY <1>1 DEF Reply, At
  <2> QED BY <1>1, <1>2, <2>1 DEF Replies
<1>4. \A s \in Threads : NothingListed(s)'
  BY <1>1 DEF At, PollInv, NothingListed
<1> QED BY <1>1, <1>3, <1>4, PollFrame

LEMMA ReadPoll ==
  ASSUME IInv, PollInv, NEW t \in Threads, Read(t), Req(t).op = "messages"
  PROVE  PollInv'
<1> DEFINE r == Req(t).room
           since == Req(t).since
<1>1. /\ At(t, "read") /\ ~At(t, "idle") /\ ~At(t, "answer")
      /\ Req(t) \in Requests /\ r \in Rooms /\ since \in Nat
  BY RequestFields DEF Read, At, IInv, HandlerInv, HandlerOK
<1>2. PICK got \in SUBSET DOMAIN messages :
        /\ SelectedInOrder(RoomMessages(r, since), got)
        /\ List(t, {messages[k].by : k \in got})
  BY DEF Read
<1>3. UNCHANGED <<tables, failing, now, asked, answers>>
  BY DEF Read
<1>4. {messages[k].by : k \in got} \in SUBSET Items
  BY MessagesType DEF Items
<1>5. /\ ThreadStep(t) /\ thread'[t].pc = "answer" /\ Reply(t)'.req = Req(t)
      /\ Reply(t)'.listed = {messages[k].by : k \in got}
  BY <1>1, <1>2, <1>3, <1>4, ListStep
<1>6. UNCHANGED messages /\ Replies' = Replies \cup {Reply(t)'}
  BY <1>3, <1>5, RepliesGrow DEF tables, At
<1>7. \A i : Sent(i)' = Sent(i)
  BY <1>6 DEF Sent
<1>b. PICK b : b = Reply(t)'
  OBVIOUS
<1>8. ListsSent(b)'
  BY <1>5, <1>6, <1>b DEF ListsSent, Sent
<1>9. AllUpTo(b)'
  <2> SUFFICES ASSUME NEW k \in DOMAIN messages, NEW n \in DOMAIN messages,
                      messages[n].by \in {messages[j].by : j \in got},
                      messages[k].room = r, since < messages[k].time,
                      messages[k].time <= messages[n].time, ~(n < k)
               PROVE  messages[k].by \in {messages[j].by : j \in got}
    BY <1>5, <1>6, <1>b DEF AllUpTo
  <2>1. n \in got
    BY DEF PollInv
  <2>2. k \in RoomMessages(r, since)
    BY DEF RoomMessages
  <2>3. k = n \/ ReadBefore(k, n)
    <3>1. messages[k] \in MessageType /\ messages[n] \in MessageType
      BY MessagesType
    <3>2. messages[k].time \in Nat /\ messages[n].time \in Nat
      BY <3>1 DEF MessageType
    <3>3. k \in Nat /\ n \in Nat
      BY MessagesType
    <3>4. messages[k].time < messages[n].time \/ messages[k].time = messages[n].time
      BY <3>2
    <3>5. k = n \/ k < n
      BY <3>3
    <3> QED BY <3>4, <3>5 DEF ReadBefore
  <2>4. k \in got
    BY <1>2, <2>1, <2>2, <2>3 DEF SelectedInOrder
  <2> QED BY <2>4
<1>10. \A a : /\ AllUpTo(a) => AllUpTo(a)'
              /\ ListsSent(a) => ListsSent(a)'
  BY <1>6, <1>7 DEF AllUpTo, ListsSent
<1>11. \A a \in Replies' : ListsSent(a)' /\ (a.req.op = "messages" => AllUpTo(a)')
  BY <1>6, <1>8, <1>9, <1>10, <1>b DEF PollInv
<1>12. \A s \in Threads : NothingListed(s)'
  BY <1>5 DEF ThreadStep, At, PollInv, NothingListed
<1> QED BY <1>6, <1>11, <1>12 DEF PollInv

LEMMA SavePoll ==
  ASSUME IInv, PollInv, NEW t \in Threads, InsertMessage(t)
  PROVE  PollInv'
<1>1. /\ At(t, "save") /\ ~At(t, "idle") /\ ~At(t, "answer") /\ Req(t).op = "send_message"
      /\ Sent(thread[t].id) = {} /\ thread[t].data.listed = {}
  BY DEF InsertMessage, At, IInv, HandlerInv, HandlerOK, MessageInv, PollInv, NothingListed
<1>2. PICK ok \in BOOLEAN :
        SaveMessage(OwnMessage(t), ok) /\ Finish(t, IF ok THEN "success" ELSE "error")
  BY DEF InsertMessage, OwnMessage
<1>3. /\ ThreadStep(t) /\ thread'[t].pc = "answer" /\ Reply(t)'.req = Req(t)
      /\ Reply(t)'.listed = {}
  <2>1. ThreadStep(t) /\ thread'[t].pc = "answer" /\ Reply(t)'.req = Req(t)
    BY <1>1, <1>2, FinishStep DEF Results, InsertMessage
  <2>2. thread'[t].data = thread[t].data
    BY <1>2 DEF Finish, IInv, StateOK, ThreadType
  <2> QED BY <1>1, <2>1, <2>2 DEF Reply
<1>4. Replies' = Replies \cup {Reply(t)'}
  BY <1>3, RepliesGrow DEF At
<1>5. \A s \in Threads : NothingListed(s)'
  BY <1>3 DEF ThreadStep, At, PollInv, NothingListed
<1>6. CASE UNCHANGED messages
  BY <1>1, <1>3, <1>4, <1>5, <1>6, PollFrame
<1>7. CASE messages' = Append(messages, OwnMessage(t))
  <2> DEFINE new == Len(messages) + 1
  <2>1. messages \in Seq(MessageType)
    BY MessagesType
  <2>2. /\ DOMAIN messages' = DOMAIN messages \cup {new} /\ new \notin DOMAIN messages
        /\ \A k \in DOMAIN messages : messages'[k] = messages[k] /\ k < new
        /\ messages'[new] = OwnMessage(t)
    BY <1>7, <2>1
  <2>3. OwnMessage(t).by = thread[t].id
    BY DEF OwnMessage
  <2>4. \A k \in DOMAIN messages : messages[k].by # thread[t].id
    BY <1>1 DEF Sent
  <2>5. \A k, n \in DOMAIN messages' : messages'[k].by = messages'[n].by => k = n
    <3> HIDE DEF new
    <3> QED BY <2>2, <2>3, <2>4 DEF PollInv
  <2>6. ASSUME NEW a \in Replies PROVE ListsSent(a)'
    <3>1. ListsSent(a)
      BY DEF PollInv
    <3>2. \A i : Sent(i) # {} => Sent(i)' # {}
      BY <1>7, <2>1, SentAppend
    <3> QED BY <3>1, <3>2 DEF ListsSent
  <2>7. ASSUME NEW a \in Replies, a.req.op = "messages" PROVE AllUpTo(a)'
    <3>1. AllUpTo(a) /\ thread[t].id \notin a.listed
      BY <1>1, <2>7 DEF PollInv, ListsSent, BoardOps
    <3>2. ASSUME NEW k \in DOMAIN messages', NEW n \in DOMAIN messages',
                 messages'[n].by \in a.listed, messages'[k].room = a.req.room,
                 a.req.since < messages'[k].time, messages'[k].time <= messages'[n].time
          PROVE  messages'[k].by \in a.listed \/ n < k
      <4>1. n \in DOMAIN messages
        BY <2>2, <2>3, <3>1, <3>2
      <4>2. CASE k = new
        BY <2>2, <4>1, <4>2
      <4>3. CASE k \in DOMAIN messages
        BY <2>2, <3>1, <3>2, <4>1, <4>3 DEF AllUpTo
      <4> QED BY <2>2, <4>2, <4>3
    <3> QED BY <3>2 DEF AllUpTo
  <2>8. \A a \in Replies' : ListsSent(a)' /\ (a.req.op = "messages" => AllUpTo(a)')
    BY <1>1, <1>3, <1>4, <2>6, <2>7 DEF ListsSent
  <2> QED BY <1>5, <2>5, <2>8 DEF PollInv
<1> QED BY <1>2, <1>6, <1>7 DEF SaveMessage

LEMMA AroundPoll ==
  ASSUME IInv, PollInv, [Next]_vars,
         \/ \E t \in Threads : \/ \E i \in Ids, r \in Requests : Receive(t, i, r)
                               \/ Answer(t) \/ EndUnknown(t)
         \/ Crash \/ Tick \/ StatementsFail \/ Quiet \/ UNCHANGED vars
  PROVE  PollInv'
<1>1. CASE \E t \in Threads, i \in Ids, r \in Requests : Receive(t, i, r)
  <2>1. PICK t \in Threads, i \in Ids, r \in Requests : Receive(t, i, r)
    BY <1>1
  <2>2. /\ UNCHANGED <<messages, answers>> /\ At(t, "idle")
        /\ \A s \in Threads \ {t} : thread'[s] = thread[s]
        /\ thread'[t].pc = FirstStep[r.op]
        /\ thread'[t].data.listed = {} /\ thread'[t].result = "success"
    BY <2>1 DEF Receive, tables, IInv, StateOK, NoData
  <2>3. FirstStep[r.op] # "answer"
    BY RequestFields DEF FirstStep
  <2>4. Replies' = Replies
    <3>1. \A s \in Threads \ {t} : Reply(s)' = Reply(s) /\ (At(s, "answer")' <=> At(s, "answer"))
      BY <2>2 DEF Reply, At
    <3> QED BY <2>2, <2>3, <3>1 DEF Replies, At
  <2>5. \A s \in Threads : NothingListed(s)'
    BY <2>2 DEF PollInv, NothingListed, At
  <2> QED BY <2>2, <2>4, <2>5, PollFrame
<1>2. CASE \E t \in Threads : Answer(t) \/ EndUnknown(t)
  <2>1. PICK t \in Threads : Answer(t) \/ EndUnknown(t)
    BY <1>2
  <2>2. BecomesIdle({t}) /\ UNCHANGED messages /\ thread'[t].data.listed = {}
        /\ \/ UNCHANGED answers
           \/ At(t, "answer") /\ answers' = answers \cup {Reply(t)}
    <3>1. /\ thread' = [thread EXCEPT ![t] = Idle]
          /\ UNCHANGED <<tables, failing, now, asked>>
          /\ UNCHANGED answers \/ (At(t, "answer") /\ answers' = answers \cup {Reply(t)})
      BY <2>1 DEF Answer, EndUnknown
    <3>2. thread'[t] = Idle /\ \A s \in Threads \ {t} : thread'[s] = thread[s]
      BY <3>1 DEF IInv, StateOK
    <3> QED BY <3>1, <3>2 DEF BecomesIdle, tables, Idle, NoData
  <2>3. ~At(t, "answer")' /\ ~At(t, "read")' /\ \A s \in Threads \ {t} :
          thread'[s] = thread[s] /\ Reply(s)' = Reply(s) /\ (At(s, "answer")' <=> At(s, "answer"))
    BY <2>2, IdleThreads DEF Labels
  <2>4. Replies' \subseteq Replies
    BY <2>2, <2>3 DEF Replies
  <2>5. \A s \in Threads : NothingListed(s)'
    BY <2>2, <2>3 DEF PollInv, NothingListed, At
  <2> QED BY <2>2, <2>4, <2>5, PollFrame
<1>3. CASE Crash
  <2>1. UNCHANGED <<messages, answers>> /\ \A s \in Threads :
          thread'[s].pc = "idle" /\ thread'[s].data.listed = {}
    BY <1>3 DEF Crash, tables, Idle, NoData
  <2> QED BY <2>1, PollFrame DEF Replies, At, NothingListed
<1>4. CASE Tick \/ StatementsFail \/ Quiet \/ UNCHANGED vars
  <2>1. UNCHANGED <<messages, answers, thread>>
    BY <1>4 DEF Tick, StatementsFail, Quiet, vars, tables
  <2> QED BY <2>1, PollFrame DEF Replies, At, Reply, PollInv, NothingListed
<1> QED BY <1>1, <1>2, <1>3, <1>4

LEMMA NextKeepsPoll ==
  ASSUME IInv, PollInv, [Next]_vars
  PROVE  PollInv'
<1>1. CASE \E t \in Threads : Handler(t)
  <2>1. PICK t \in Threads : Handler(t)
    BY <1>1
  <2>2. CASE Read(t)
    BY <2>2, ElsewherePoll, ReadPoll DEF Read
  <2>3. CASE \/ Validate(t) \/ InsertUser(t) \/ GoOnline(t) \/ GoOffline(t)
             \/ InsertRoom(t) \/ InsertMember(t) \/ Reject(t)
             \/ ReadRooms(t) \/ ReadMembers(t) \/ RoomsRead(t)
    BY <2>3, ElsewherePoll
  <2>4. CASE InsertMessage(t)
    BY <2>4, SavePoll
  <2>5. CASE (\E i \in Ids, r \in Requests : Receive(t, i, r)) \/ Answer(t) \/ EndUnknown(t)
    BY <2>5, AroundPoll
  <2> QED BY <2>1, <2>2, <2>3, <2>4, <2>5 DEF Handler
<1> QED BY <1>1, AroundPoll DEF Next

LEMMA InitPoll == Init => PollInv
<1> SUFFICES ASSUME Init PROVE PollInv
  OBVIOUS
<1>1. messages = <<>> /\ answers = {} /\ \A t \in Threads :
        thread[t].pc = "idle" /\ thread[t].data.listed = {}
  BY DEF Init, Idle, NoData
<1>2. Replies = {}
  BY <1>1 DEF Replies, At
<1> QED BY <1>1, <1>2 DEF PollInv, At, NothingListed

LEMMA PollInvariance == Spec => [](IInv /\ PollInv)
<1>1. Init => IInv /\ PollInv
  BY InitHolds, InitPoll
<1>2. IInv /\ PollInv /\ [Next]_vars => (IInv /\ PollInv)'
  BY NextKeeps, NextKeepsPoll
<1> QED BY <1>1, <1>2, PTL DEF Spec

(* Of either server: who polls from the newest message he was given on     *)
(* misses none but such as were saved after it with a time that is not     *)
(* later (getRoomMessages(), and the time taken by /send_message).         *)
THEOREM PollsComplete == Spec => []PollsMissNothing
<1>1. PollInv => PollsMissNothing
  BY DEF PollInv, AllUpTo, PollsMissNothing, Replies
<1> QED BY <1>1, PollInvariance, PTL
-----------------------------------------------------------------------------
(***************************************************************************)
(* The refinement.  A thread serves one call at a time: Receive asks it,   *)
(* the one step that touches the tables replies, Answer releases it, and a *)
(* crash loses it, as the first quote does with all.  The handlers of the  *)
(* other requests do not move the board.                                   *)
(***************************************************************************)
BoardLog ==
  [k \in DOMAIN messages |->
     [room |-> messages[k].room, user |-> messages[k].user, time |-> messages[k].time]]

BoardCalls == [i \in Ids |-> BoardCall(i)]

CallOf(t) ==
  [state |-> IF At(t, "answer") THEN "done" ELSE "asked",
   req   |-> Req(t),
   ok    |-> At(t, "answer") /\ thread[t].result = "success",
   got   |-> {k \in DOMAIN messages : messages[k].by \in thread[t].data.listed}]

(* A record of the fields of a call is known by them.                      *)
LEMMA CallFields ==
  ASSUME NEW c, DOMAIN c = {"state", "req", "ok", "got"},
         c = [f \in {"state", "req", "ok", "got"} |-> c[f]]
  PROVE  c = [state |-> c.state, req |-> c.req, ok |-> c.ok, got |-> c.got]
OBVIOUS

LEMMA Asking ==
  ASSUME NEW r
  PROVE  [Board!NoCall EXCEPT !.state = "asked", !.req = r]
           = [state |-> "asked", req |-> r, ok |-> FALSE, got |-> {}]
<1> DEFINE c == [Board!NoCall EXCEPT !.state = "asked", !.req = r]
<1>1. /\ c.state = "asked" /\ c.req = r /\ c.ok = FALSE /\ c.got = {}
      /\ DOMAIN c = {"state", "req", "ok", "got"}
      /\ c = [f \in {"state", "req", "ok", "got"} |-> c[f]]
  BY DEF Board!NoCall
<1> HIDE DEF c
<1>2. c = [state |-> c.state, req |-> c.req, ok |-> c.ok, got |-> c.got]
  BY <1>1, CallFields
<1>3. c = [state |-> "asked", req |-> r, ok |-> FALSE, got |-> {}]
  BY <1>1, <1>2
<1> QED BY <1>3 DEF c

(* A call of the board is that of the thread with its name, if there is    *)
(* one and its request is one of the board's.                              *)
CallsServed ==
  /\ \A i \in Ids, t \in Threads : thread[t].id = i =>
       BoardCall(i) = IF literal /\ Req(t).op \in BoardOps THEN CallOf(t) ELSE Board!NoCall
  /\ \A i \in Ids : ~literal \/ (\A t \in Threads : thread[t].id # i) =>
       BoardCall(i) = Board!NoCall

LEMMA Served == IInv => CallsServed
<1> SUFFICES ASSUME IInv PROVE CallsServed
  OBVIOUS
<1>1. ASSUME NEW i \in Ids, Serving(i) = {} PROVE BoardCall(i) = Board!NoCall
  BY <1>1 DEF BoardCall, Board!NoCall
<1>2. ASSUME NEW i \in Ids, NEW t \in Threads, thread[t].id = i
      PROVE  BoardCall(i) = IF literal /\ Req(t).op \in BoardOps THEN CallOf(t) ELSE Board!NoCall
  <2>1. \A s \in Threads : thread[s].id = i => s = t
    <3>1. \A s \in Threads : thread[s].id = i => ~At(s, "idle")
      BY ServerAssumption DEF IInv, HandlerInv, HandlerOK
    <3> QED BY <1>2, <3>1 DEF IInv, IdInv
  <2>2. CASE literal /\ Req(t).op \in BoardOps
    <3>1. Serving(i) = {t}
      BY <1>2, <2>1, <2>2 DEF Serving, BoardOps
    <3> QED BY <2>2, <3>1 DEF BoardCall, CallOf
  <2>3. CASE ~(literal /\ Req(t).op \in BoardOps)
    <3>1. Serving(i) = {}
      BY <1>2, <2>1, <2>3 DEF Serving, BoardOps
    <3> QED BY <1>1, <2>3, <3>1
  <2> QED BY <2>2, <2>3
<1>3. ASSUME NEW i \in Ids, ~literal \/ (\A t \in Threads : thread[t].id # i)
      PROVE  BoardCall(i) = Board!NoCall
  BY <1>1, <1>3 DEF Serving
<1> QED BY <1>2, <1>3 DEF CallsServed

(* All calls are lost.                                                     *)
LEMMA AllLost ==
  ASSUME IInv, UNCHANGED messages, \A i \in Ids : BoardCall(i)' = Board!NoCall
  PROVE  Board!Next
<1> DEFINE S == {i \in Ids : BoardCall(i).state # "free"}
<1>1. \A i \in Ids : BoardCall(i).state = "free" => BoardCall(i) = Board!NoCall
  <2> SUFFICES ASSUME NEW i \in Ids, BoardCall(i).state = "free"
               PROVE  BoardCall(i) = Board!NoCall
    OBVIOUS
  <2>1. CASE \A t \in Threads : thread[t].id # i
    BY <2>1, Served DEF CallsServed
  <2>2. CASE \E t \in Threads : thread[t].id = i
    <3>1. PICK t \in Threads : thread[t].id = i
      BY <2>2
    <3>2. CallOf(t).state # "free"
      BY DEF CallOf
    <3> QED BY <3>1, <3>2, Served DEF CallsServed
  <2> QED BY <2>1, <2>2
<1>2. BoardCalls' = [i \in Ids |-> IF i \in S THEN Board!NoCall ELSE BoardCalls[i]]
  BY <1>1 DEF BoardCalls
<1>3. \A i \in S : BoardCalls[i].state # "free"
  BY DEF BoardCalls
<1>4. BoardLog' = BoardLog
  BY DEF BoardLog
<1>5. Board!Lose(S)
  BY <1>2, <1>3, <1>4 DEF Board!Lose, BoardCalls, BoardLog
<1>6. S \in SUBSET Ids
  OBVIOUS
<1> HIDE DEF S
<1> QED BY <1>5, <1>6 DEF Board!Next

(* The calls of the other threads stand, whatever is sent meanwhile.       *)
LEMMA OneCallMoves ==
  ASSUME IInv, PollInv, IInv', UNCHANGED literal, NEW t \in Threads,
         \A s \in Threads \ {t} : thread'[s] = thread[s],
         NEW i \in Ids, thread[t].id \in {i, None}, thread'[t].id \in {i, None},
         \/ UNCHANGED messages
         \/ messages' = Append(messages, OwnMessage(t)) /\ thread[t].id = i /\ Sent(i) = {}
  PROVE  BoardCalls' = [BoardCalls EXCEPT ![i] = BoardCall(i)']
<1>0. CallsServed /\ CallsServed'
  <2>1. (IInv => CallsServed)'
    BY Served, PTL
  <2> QED BY <2>1, Served
<1>1. ASSUME NEW j \in Ids, j # i PROVE BoardCall(j)' = BoardCall(j)
  <2>1. \A s \in Threads : /\ thread[s].id = j => s # t /\ thread'[s] = thread[s]
                           /\ thread'[s].id = j => s # t /\ thread'[s] = thread[s]
    BY <1>1, ServerAssumption
  <2>2. CASE \A s \in Threads : thread[s].id # j
    <3>1. \A s \in Threads : thread'[s].id # j
      BY <2>1, <2>2
    <3> QED BY <1>0, <2>2, <3>1 DEF CallsServed
  <2>3. CASE \E s \in Threads : thread[s].id = j
    <3>1. PICK s \in Threads : thread[s].id = j
      BY <2>3
    <3>2. thread'[s] = thread[s] /\ thread'[s].id = j /\ Req(s)' = Req(s)
      BY <2>1, <3>1 DEF Req
    <3>3. ASSUME Req(s).op \in BoardOps PROVE CallOf(s)' = CallOf(s)
      <4>1. {k \in DOMAIN messages' : messages'[k].by \in thread[s].data.listed}
              = {k \in DOMAIN messages : messages[k].by \in thread[s].data.listed}
        <5>1. CASE UNCHANGED messages
          BY <5>1
        <5>2. CASE /\ messages' = Append(messages, OwnMessage(t))
                   /\ thread[t].id = i /\ Sent(i) = {}
          <6>1. HandlerOK(s) /\ NothingListed(s)
            BY DEF IInv, HandlerInv, PollInv
          <6>2. ~At(s, "members")
            BY <3>3, <6>1 DEF HandlerOK, BoardOps
          <6>3. i \notin thread[s].data.listed
            <7>1. CASE At(s, "answer")
              <8>1. ListsSent(Reply(s))
                BY <7>1 DEF PollInv, Replies
              <8> QED BY <3>3, <5>2, <8>1 DEF ListsSent, Reply, Req
            <7>2. CASE ~At(s, "answer")
              BY <6>1, <6>2, <7>2 DEF NothingListed
            <7> QED BY <7>1, <7>2
          <6>4. OwnMessage(t).by = i
            BY <5>2 DEF OwnMessage
          <6>5. messages \in Seq(MessageType)
            BY MessagesType
          <6> DEFINE new == Len(messages) + 1
          <6>6. /\ DOMAIN messages' = DOMAIN messages \cup {new} /\ new \notin DOMAIN messages
                /\ \A k \in DOMAIN messages : messages'[k] = messages[k]
                /\ messages'[new] = OwnMessage(t)
            BY <5>2, <6>5
          <6> HIDE DEF new
          <6> QED BY <6>3, <6>4, <6>6
        <5> QED BY <5>1, <5>2
      <4> QED BY <3>2, <4>1 DEF CallOf, At
    <3> QED BY <1>0, <3>1, <3>2, <3>3 DEF CallsServed
  <2> QED BY <2>2, <2>3
<1> QED BY <1>1 DEF BoardCalls

(* A handler whose request is none of the board's leaves it alone.         *)
LEMMA BoardStands ==
  ASSUME IInv, PollInv, IInv', UNCHANGED <<literal, messages>>, NEW t \in Threads,
         \A s \in Threads \ {t} : thread'[s] = thread[s],
         NEW i \in Ids,
         (thread[t].id = i /\ Req(t).op \notin BoardOps) \/ thread[t].id = None,
         (thread'[t].id = i /\ Req(t)'.op \notin BoardOps) \/ thread'[t].id = None
  PROVE  UNCHANGED Board!vars
<1>1. BoardCalls' = [BoardCalls EXCEPT ![i] = BoardCall(i)']
  BY OneCallMoves
<1>2. CallsServed /\ CallsServed'
  <2>1. (IInv => CallsServed)'
    BY Served, PTL
  <2> QED BY <2>1, Served
<1>3. BoardCall(i)' = BoardCall(i)
  <2>1. \A s \in Threads \ {t} : thread[s].id = thread'[s].id /\ Req(s)' = Req(s)
    BY DEF Req
  <2>2. CASE \E s \in Threads \ {t} : thread[s].id = i
    <3>1. PICK s \in Threads \ {t} : thread[s].id = i
      BY <2>2
    <3>2. thread[t].id = None /\ thread'[t].id = None
      <4>1. ~At(s, "idle") /\ ~At(s, "idle")'
        BY <3>1, ServerAssumption DEF IInv, HandlerInv, HandlerOK, At
      <4> QED BY <3>1, <4>1 DEF IInv, IdInv
    <3>3. CallOf(s)' = CallOf(s)
      BY <3>1 DEF CallOf, At, Req
    <3> QED BY <1>2, <2>1, <3>1, <3>3 DEF CallsServed
  <2>3. CASE \A s \in Threads \ {t} : thread[s].id # i
    <3>1. BoardCall(i) = Board!NoCall
      BY <1>2, <2>3, ServerAssumption DEF CallsServed
    <3>2. BoardCall(i)' = Board!NoCall
      BY <1>2, <2>1, <2>3, ServerAssumption DEF CallsServed
    <3> QED BY <3>1, <3>2
  <2> QED BY <2>2, <2>3
<1>4. BoardCalls' = BoardCalls
  BY <1>1, <1>3 DEF BoardCalls
<1>5. BoardLog' = BoardLog
  BY DEF BoardLog
<1> QED BY <1>4, <1>5 DEF Board!vars, BoardLog, BoardCalls

LEMMA ReceiveAsks ==
  ASSUME IInv, PollInv, IInv', literal', UNCHANGED literal,
         NEW t \in Threads, NEW i \in Ids, NEW r \in Requests, Receive(t, i, r)
  PROVE  [Board!Next]_(Board!vars)
<1>1. At(t, "idle") /\ thread[t].id = None /\ i \notin asked
  BY DEF Receive, IInv, HandlerInv, HandlerOK
<1>2. /\ thread'[t].pc = FirstStep[r.op] /\ thread'[t].id = i /\ thread'[t].req = r
      /\ thread'[t].data.listed = {} /\ UNCHANGED messages
      /\ \A s \in Threads \ {t} : thread'[s] = thread[s]
  BY DEF Receive, tables, IInv, StateOK, NoData
<1>3. CASE r.op \notin BoardOps
  <2>1. Req(t)' = r
    BY <1>2 DEF Req
  <2> QED BY <1>1, <1>2, <1>3, <2>1, BoardStands
<1>4. CASE r.op \in BoardOps
  <2>1. r \in Board!Requests
    BY <1>4 DEF Requests, BoardOps, Board!Requests
  <2>2. CallsServed /\ CallsServed'
    <3>1. (IInv => CallsServed)'
      BY Served, PTL
    <3> QED BY <3>1, Served
  <2>3. \A s \in Threads : thread[s].id # i
    BY <1>1, ServerAssumption DEF IInv, IdInv, HandlerInv, HandlerOK
  <2>4. BoardCall(i) = Board!NoCall
    BY <2>2, <2>3 DEF CallsServed
  <2>5. FirstStep[r.op] # "answer"
    BY RequestFields DEF FirstStep
  <2>6. CallOf(t)' = [state |-> "asked", req |-> r, ok |-> FALSE, got |-> {}]
    BY <1>2, <2>5 DEF CallOf, At, Req
  <2>7. BoardCall(i)' = [state |-> "asked", req |-> r, ok |-> FALSE, got |-> {}]
    BY <1>2, <1>4, <2>2, <2>6 DEF CallsServed, Req
  <2>8. BoardCalls' = [BoardCalls EXCEPT ![i] = [Board!NoCall EXCEPT !.state = "asked", !.req = r]]
    <3>1. BoardCalls' = [BoardCalls EXCEPT ![i] = BoardCall(i)']
      BY <1>1, <1>2, OneCallMoves
    <3> QED BY <2>7, <3>1, Asking
  <2>9. BoardCalls[i].state # "asked" /\ BoardLog' = BoardLog
    BY <1>2, <2>4 DEF Board!NoCall, BoardLog, BoardCalls
  <2>10. Board!Ask(i, r)
    BY <2>8, <2>9 DEF Board!Ask, BoardCalls, BoardLog
  <2> QED BY <2>1, <2>10 DEF Board!Next
<1> QED BY <1>3, <1>4

(* The reply to the call that is being served.                             *)
LEMMA Replied ==
  ASSUME IInv, PollInv, IInv', literal, UNCHANGED literal,
         NEW t \in Threads, ~At(t, "idle"), ~At(t, "answer"), Req(t).op \in BoardOps,
         \A s \in Threads \ {t} : thread'[s] = thread[s],
         thread'[t].pc = "answer", thread'[t].id = thread[t].id, thread'[t].req = thread[t].req,
         \/ UNCHANGED messages
         \/ messages' = Append(messages, OwnMessage(t)) /\ Sent(thread[t].id) = {},
         NEW ok \in BOOLEAN, (thread'[t].result = "success") <=> ok,
         NEW got, got = {k \in DOMAIN messages' : messages'[k].by \in thread'[t].data.listed}
  PROVE  /\ thread[t].id \in Ids
         /\ BoardCalls[thread[t].id].state = "asked" /\ BoardCalls[thread[t].id].req = Req(t)
         /\ Board!Reply(thread[t].id, ok, got)
<1> DEFINE i == thread[t].id
<1>1. i \in Ids
  BY DEF IInv, IdInv, StateOK
<1>0. CallsServed /\ CallsServed'
  <2>1. (IInv => CallsServed)'
    BY Served, PTL
  <2> QED BY <2>1, Served
<1>2. BoardCalls[i] = CallOf(t)
  BY <1>0, <1>1 DEF CallsServed, BoardCalls
<1>a. BoardCall(i)' = CallOf(t)'
  <2>1. literal' /\ Req(t)'.op \in BoardOps /\ thread'[t].id = i
    BY DEF Req
  <2>2. PICK j : j = i
    OBVIOUS
  <2>3. j \in Ids /\ thread'[t].id = j
    BY <1>1, <2>1, <2>2
  <2>4. BoardCall(j)' = CallOf(t)'
    BY <1>0, <2>1, <2>3 DEF CallsServed
  <2> QED BY <2>1, <2>2, <2>4
<1>3. BoardCalls' = [BoardCalls EXCEPT ![i] = CallOf(t)']
  <2>1. BoardCalls' = [BoardCalls EXCEPT ![i] = BoardCall(i)']
    BY <1>1, OneCallMoves
  <2> QED BY <1>a, <2>1
<1>4. CallOf(t)' = [state |-> "done", req |-> Req(t), ok |-> ok, got |-> got]
  BY DEF CallOf, At, Req
<1>5. CallOf(t) = [state |-> "asked", req |-> Req(t), ok |-> CallOf(t).ok, got |-> CallOf(t).got]
  BY DEF CallOf
<1>6. CallOf(t)' = [BoardCalls[i] EXCEPT !.state = "done", !.ok = ok, !.got = got]
  <2>1. BoardCalls[i]
          = [state |-> "asked", req |-> Req(t), ok |-> CallOf(t).ok, got |-> CallOf(t).got]
    BY <1>2, <1>5
  <2> DEFINE b == BoardCalls[i]
             c == [b EXCEPT !.state = "done", !.ok = ok, !.got = got]
  <2>2. b = [state |-> "asked", req |-> Req(t), ok |-> CallOf(t).ok, got |-> CallOf(t).got]
    BY <2>1
  <2> HIDE DEF b
  <2>3. /\ c.state = "done" /\ c.req = Req(t) /\ c.ok = ok /\ c.got = got
        /\ DOMAIN c = {"state", "req", "ok", "got"}
        /\ c = [f \in {"state", "req", "ok", "got"} |-> c[f]]
    BY <2>2
  <2> HIDE DEF c
  <2>4. c = [state |-> c.state, req |-> c.req, ok |-> c.ok, got |-> c.got]
    BY <2>3, CallFields
  <2>5. c = CallOf(t)'
    BY <1>4, <2>3, <2>4
  <2> QED BY <2>5 DEF b, c
<1>7. BoardCalls' = [BoardCalls EXCEPT ![i].state = "done", ![i].ok = ok, ![i].got = got]
  BY <1>3, <1>6
<1>8. BoardCalls[i].state = "asked" /\ BoardCalls[i].req = Req(t)
  BY <1>2 DEF CallOf
<1>9. Board!Reply(i, ok, got)
  BY <1>7 DEF Board!Reply, BoardCalls
<1> QED BY <1>1, <1>8, <1>9

LEMMA JoinReplies ==
  ASSUME IInv, PollInv, IInv', literal, UNCHANGED literal,
         NEW t \in Threads, InsertMember(t), Req(t).op = "join_room"
  PROVE  Board!Next
<1>1. /\ At(t, "add") /\ ~At(t, "idle") /\ ~At(t, "answer") /\ Req(t).op \in BoardOps
      /\ thread[t].data.listed = {} /\ UNCHANGED messages
  BY DEF InsertMember, At, BoardOps, PollInv, NothingListed
<1>2. PICK ok \in BOOLEAN : Finish(t, IF ok THEN "success" ELSE "error")
  BY DEF InsertMember
<1>3. /\ thread'[t].pc = "answer" /\ thread'[t].id = thread[t].id
      /\ thread'[t].req = thread[t].req /\ thread'[t].data.listed = {}
      /\ (thread'[t].result = "success") <=> ok
      /\ \A s \in Threads \ {t} : thread'[s] = thread[s]
  BY <1>1, <1>2 DEF Finish, IInv, StateOK, ThreadType
<1>4. {k \in DOMAIN messages' : messages'[k].by \in thread'[t].data.listed} = {}
  BY <1>3
<1>5. /\ thread[t].id \in Ids
      /\ BoardCalls[thread[t].id].state = "asked" /\ BoardCalls[thread[t].id].req = Req(t)
      /\ Board!Reply(thread[t].id, ok, {})
  BY <1>1, <1>3, <1>4, Replied
<1>6. BoardLog' = BoardLog
  BY <1>1 DEF BoardLog
<1>7. Board!Asked(thread[t].id, "join_room")
  BY <1>5 DEF Board!Asked, BoardCalls
<1>8. Board!Join(thread[t].id) \/ Board!Refuse(thread[t].id)
  <2>1. CASE ok
    BY <1>5, <1>6, <1>7, <2>1 DEF Board!Join, BoardLog
  <2>2. CASE ~ok
    BY <1>5, <1>6, <1>7, <2>2 DEF Board!Refuse, BoardLog, Board!Asked
  <2> QED BY <2>1, <2>2
<1> QED BY <1>5, <1>8 DEF Board!Next, Board!Serve

LEMMA SaveReplies ==
  ASSUME IInv, PollInv, IInv', literal, UNCHANGED literal, NEW t \in Threads, InsertMessage(t)
  PROVE  Board!Next
<1>1. /\ At(t, "save") /\ ~At(t, "idle") /\ ~At(t, "answer") /\ Req(t).op = "send_message"
      /\ thread[t].data.listed = {} /\ thread[t].time \in 1 .. MaxTime
      /\ Sent(thread[t].id) = {}
  BY DEF InsertMessage, At, IInv, HandlerInv, HandlerOK, MessageInv, PollInv, NothingListed
<1>2. PICK ok \in BOOLEAN :
        SaveMessage(OwnMessage(t), ok) /\ Finish(t, IF ok THEN "success" ELSE "error")
  BY DEF InsertMessage, OwnMessage
<1>3. /\ thread'[t].pc = "answer" /\ thread'[t].id = thread[t].id
      /\ thread'[t].req = thread[t].req /\ thread'[t].data.listed = {}
      /\ (thread'[t].result = "success") <=> ok
      /\ \A s \in Threads \ {t} : thread'[s] = thread[s]
  BY <1>1, <1>2 DEF Finish, IInv, StateOK, ThreadType
<1>4. {k \in DOMAIN messages' : messages'[k].by \in thread'[t].data.listed} = {}
  BY <1>3
<1>m. UNCHANGED messages \/ messages' = Append(messages, OwnMessage(t))
  BY <1>2 DEF SaveMessage
<1>5. /\ thread[t].id \in Ids
      /\ BoardCalls[thread[t].id].state = "asked" /\ BoardCalls[thread[t].id].req = Req(t)
      /\ Board!Reply(thread[t].id, ok, {})
  BY <1>1, <1>3, <1>4, <1>m, Replied DEF BoardOps
<1>6. Board!Asked(thread[t].id, "send_message")
  BY <1>1, <1>5 DEF Board!Asked, BoardCalls
<1>7. CASE ~ok
  <2>1. BoardLog' = BoardLog
    BY <1>2, <1>7 DEF SaveMessage, BoardLog
  <2>2. Board!Refuse(thread[t].id)
    BY <1>5, <1>6, <1>7, <2>1 DEF Board!Refuse, BoardLog, Board!Asked
  <2> QED BY <1>5, <2>2 DEF Board!Next, Board!Serve
<1>8. CASE ok
  <2>1. messages' = Append(messages, OwnMessage(t)) /\ messages \in Seq(MessageType)
    BY <1>2, <1>8, MessagesType DEF SaveMessage
  <2>2. BoardLog' = Append(BoardLog, [room |-> Req(t).room, user |-> Req(t).user,
                                      time |-> thread[t].time])
    <3>1. /\ BoardLog \in Seq([room : Rooms, user : Users, time : 1 .. MaxTime])
          /\ Len(BoardLog) = Len(messages)
      <4> DEFINE S == [room : Rooms, user : Users, time : 1 .. MaxTime]
      <4>1. \A k \in DOMAIN messages : messages[k] \in MessageType
        BY <2>1
      <4>2. \A k \in DOMAIN messages :
              [room |-> messages[k].room, user |-> messages[k].user, time |-> messages[k].time] \in S
        BY <4>1 DEF MessageType
      <4>3. DOMAIN messages = 1 .. Len(messages) /\ Len(messages) \in Nat
        BY <2>1
      <4> HIDE DEF S
      <4>4. BoardLog \in [1 .. Len(messages) -> S]
        BY <4>2, <4>3 DEF BoardLog
      <4>5. BoardLog \in Seq(S) /\ Len(BoardLog) = Len(messages)
        BY <4>3, <4>4
      <4> QED BY <4>5 DEF S
    <3> QED BY <2>1, <3>1 DEF BoardLog, OwnMessage
  <2>3. \E time \in 1 .. MaxTime : Board!Store(thread[t].id, time)
    <3>1. \A time : time = thread[t].time => Board!Store(thread[t].id, time)
      BY <1>5, <1>6, <1>8, <2>2 DEF Board!Store, BoardLog, BoardCalls
    <3> QED BY <1>1, <3>1
  <2>4. Board!Serve(thread[t].id)
    BY <2>3 DEF Board!Serve
  <2> QED BY <1>5, <2>4 DEF Board!Next
<1> QED BY <1>7, <1>8

LEMMA ReadReplies ==
  ASSUME IInv, PollInv, IInv', literal, UNCHANGED literal,
         NEW t \in Threads, Read(t), Req(t).op = "messages"
  PROVE  Board!Next
<1> DEFINE r == Req(t).room
           since == Req(t).since
<1>1. /\ At(t, "read") /\ ~At(t, "idle") /\ ~At(t, "answer") /\ Req(t).op \in BoardOps
      /\ r \in Rooms /\ since \in Nat /\ thread[t].result = "success"
  <2>1. At(t, "read") /\ ~At(t, "idle") /\ ~At(t, "answer")
    BY DEF Read, At
  <2>2. Req(t) \in Requests
    BY <2>1 DEF IInv, HandlerInv, HandlerOK
  <2> QED BY <2>1, <2>2, RequestFields DEF PollInv, NothingListed, BoardOps
<1>2. PICK got \in SUBSET DOMAIN messages :
        /\ SelectedInOrder(RoomMessages(r, since), got)
        /\ List(t, {messages[k].by : k \in got})
  BY <1>1 DEF Read
<1>3. /\ thread'[t].pc = "answer" /\ thread'[t].id = thread[t].id
      /\ thread'[t].req = thread[t].req /\ thread'[t].result = "success"
      /\ thread'[t].data.listed = {messages[k].by : k \in got}
      /\ UNCHANGED messages
      /\ \A s \in Threads \ {t} : thread'[s] = thread[s]
  <2>1. thread' = [thread EXCEPT ![t] = [thread[t] EXCEPT !.pc = "answer",
                                           !.data.listed = {messages[k].by : k \in got}]]
    BY <1>2 DEF List
  <2>2. thread \in [Threads -> ThreadType]
    BY DEF IInv, StateOK
  <2>3. thread'[t] = [thread[t] EXCEPT !.pc = "answer",
                                       !.data.listed = {messages[k].by : k \in got}]
    BY <2>1, <2>2
  <2>4. thread[t] \in ThreadType
    BY <2>2
  <2>5. /\ thread'[t].pc = "answer" /\ thread'[t].id = thread[t].id
        /\ thread'[t].req = thread[t].req /\ thread'[t].result = "success"
    BY <1>1, <2>3, <2>4 DEF ThreadType
  <2>6. thread'[t].data.listed = {messages[k].by : k \in got}
    BY <2>3, <2>4 DEF ThreadType
  <2>7. UNCHANGED messages
    BY DEF Read, tables
  <2>8. \A s \in Threads \ {t} : thread'[s] = thread[s]
    BY <2>1, <2>2
  <2> QED BY <2>5, <2>6, <2>7, <2>8
<1>4. got = {k \in DOMAIN messages' : messages'[k].by \in thread'[t].data.listed}
  BY <1>3 DEF PollInv
<1>5. /\ thread[t].id \in Ids
      /\ BoardCalls[thread[t].id].state = "asked" /\ BoardCalls[thread[t].id].req = Req(t)
      /\ Board!Reply(thread[t].id, TRUE, got)
  BY <1>1, <1>3, <1>4, Replied
<1>6. BoardLog' = BoardLog /\ Board!Asked(thread[t].id, "messages")
  BY <1>1, <1>3, <1>5 DEF BoardLog, Board!Asked, BoardCalls
<1>t. \A k \in DOMAIN messages :
        /\ BoardLog[k].room = messages[k].room /\ BoardLog[k].time = messages[k].time
        /\ messages[k].time \in Nat \ {0}
  <2> SUFFICES ASSUME NEW k \in DOMAIN messages
               PROVE  /\ BoardLog[k].room = messages[k].room /\ BoardLog[k].time = messages[k].time
                      /\ messages[k].time \in Nat \ {0}
    OBVIOUS
  <2>1. messages[k] \in MessageType
    BY MessagesType
  <2>2. messages[k].time \in 1 .. MaxTime
    BY <2>1 DEF MessageType
  <2> QED BY <2>2, ServerAssumption DEF BoardLog
<1>7. Board!Newer(r, since) = RoomMessages(r, since)
  <2>1. DOMAIN BoardLog = DOMAIN messages
    BY DEF BoardLog
  <2>2. Board!Newer(r, since)
          = {k \in DOMAIN BoardLog : BoardLog[k].room = r /\ BoardLog[k].time > since}
    BY DEF Board!Newer, BoardLog
  <2>3. \A k \in DOMAIN messages :
          (since > 0 => messages[k].time > since) <=> messages[k].time > since
    BY <1>1, <1>t
  <2> QED BY <1>t, <2>1, <2>2, <2>3 DEF RoomMessages
<1>8. \A n \in got, k \in RoomMessages(r, since) : Board!Before(k, n) => k \in got
  <2> SUFFICES ASSUME NEW n \in got, NEW k \in RoomMessages(r, since), Board!Before(k, n)
               PROVE  k \in got
    OBVIOUS
  <2>1. n \in DOMAIN messages /\ k \in DOMAIN messages
    BY DEF RoomMessages
  <2>2. Board!Before(k, n) <=> (\/ BoardLog[k].time < BoardLog[n].time
                                \/ BoardLog[k].time = BoardLog[n].time /\ k < n)
    BY DEF Board!Before, BoardLog
  <2>3. ReadBefore(k, n)
    BY <1>t, <2>1, <2>2 DEF ReadBefore
  <2> QED BY <1>2, <2>3 DEF SelectedInOrder
<1>9. got \in SUBSET RoomMessages(r, since)
  BY <1>2 DEF SelectedInOrder, Selected
<1>10. Board!FetchFails(thread[t].id)
  <2> DEFINE req == BoardCalls[thread[t].id].req
  <2>1. /\ got \in SUBSET Board!Newer(req.room, req.since)
        /\ \A n \in got, k \in Board!Newer(req.room, req.since) : Board!Before(k, n) => k \in got
    BY <1>5, <1>7, <1>8, <1>9
  <2> QED BY <1>5, <1>6, <2>1 DEF Board!FetchFails, BoardLog, BoardCalls
<1> QED BY <1>5, <1>10 DEF Board!Next, Board!Serve

LEMMA AnswerReleases ==
  ASSUME IInv, PollInv, IInv', literal, UNCHANGED literal,
         NEW t \in Threads, Answer(t), Req(t).op \in BoardOps
  PROVE  Board!Next
<1>1. At(t, "answer") /\ ~At(t, "idle") /\ None \notin Ids
  BY ServerAssumption DEF Answer, At
<1>2. thread[t].id \in Ids
  BY <1>1 DEF IInv, IdInv, StateOK
<1>3. /\ thread'[t].id = None /\ UNCHANGED messages
      /\ \A s \in Threads \ {t} : thread'[s] = thread[s]
  BY DEF Answer, tables, IInv, StateOK, Idle
<1>0. CallsServed /\ CallsServed'
  <2>1. (IInv => CallsServed)'
    BY Served, PTL
  <2> QED BY <2>1, Served
<1>4. BoardCalls[thread[t].id].state = "done"
  BY <1>0, <1>1, <1>2 DEF CallsServed, CallOf, BoardCalls
<1>p. PICK i \in Ids : i = thread[t].id
  BY <1>2
<1>5. BoardCall(i)' = Board!NoCall
  <2>1. \A s \in Threads : thread'[s].id # i
    <3>1. \A s \in Threads \ {t} : thread[s].id = i => FALSE
      BY <1>1, <1>p DEF IInv, IdInv
    <3> QED BY <1>1, <1>3, <3>1
  <2> QED BY <1>0, <2>1 DEF CallsServed
<1>6. BoardCalls' = [BoardCalls EXCEPT ![i] = Board!NoCall]
  <2>1. BoardCalls' = [BoardCalls EXCEPT ![i] = BoardCall(i)']
    BY <1>3, <1>p, OneCallMoves
  <2> QED BY <1>5, <2>1
<1>7. BoardLog' = BoardLog
  BY <1>3 DEF BoardLog
<1>8. Board!Release(i)
  BY <1>4, <1>6, <1>7, <1>p DEF Board!Release, BoardCalls, BoardLog
<1> QED BY <1>8 DEF Board!Next

(* The steps of handlers whose requests are not the board's.               *)
LEMMA OthersStand ==
  ASSUME IInv, PollInv, IInv', literal, UNCHANGED literal, NEW t \in Threads,
         \/ Validate(t) \/ InsertUser(t) \/ GoOnline(t) \/ GoOffline(t)
         \/ InsertRoom(t) \/ InsertMember(t) \/ Reject(t)
         \/ Read(t) /\ Req(t).op = "users"
         \/ ReadRooms(t) \/ ReadMembers(t) \/ RoomsRead(t) \/ Answer(t),
         Req(t).op \notin BoardOps
  PROVE  UNCHANGED Board!vars
<1>1. CASE Answer(t)
  <2>1. /\ ~At(t, "idle") /\ thread'[t].id = None /\ UNCHANGED messages
        /\ \A s \in Threads \ {t} : thread'[s] = thread[s]
    BY <1>1 DEF Answer, tables, IInv, StateOK, Idle, At
  <2>2. thread[t].id \in Ids
    BY <2>1 DEF IInv, IdInv, StateOK
  <2> QED BY <2>1, <2>2, BoardStands
<1>2. CASE ~Answer(t)
  <2>1. /\ ~At(t, "idle") /\ UNCHANGED messages
        /\ thread'[t].id = thread[t].id /\ thread'[t].req = thread[t].req
        /\ \A s \in Threads \ {t} : thread'[s] = thread[s]
    BY <1>2, ElsewhereSteps
  <2>2. thread[t].id \in Ids
    BY <2>1 DEF IInv, IdInv, StateOK
  <2>3. Req(t)' = Req(t)
    BY <2>1 DEF Req
  <2> QED BY <2>1, <2>2, <2>3, BoardStands
<1> QED BY <1>1, <1>2

LEMMA HandlerMoves ==
  ASSUME IInv, PollInv, IInv', literal, UNCHANGED literal, NEW t \in Threads, Handler(t)
  PROVE  [Board!Next]_(Board!vars)
<1>1. ASSUME NEW i \in Ids, NEW r \in Requests, Receive(t, i, r)
      PROVE  [Board!Next]_(Board!vars)
  BY <1>1, ReceiveAsks
<1>2. HandlerOK(t)
  BY DEF IInv, HandlerInv
<1>3. CASE InsertMember(t)
  <2>1. Req(t).op = "join_room" \/ Req(t).op \notin BoardOps
    BY <1>2, <1>3 DEF InsertMember, HandlerOK, BoardOps
  <2> QED BY <1>3, <2>1, JoinReplies, OthersStand
<1>4. CASE InsertMessage(t)
  BY <1>4, SaveReplies
<1>5. CASE Read(t)
  <2>1. Req(t).op = "messages" \/ (Req(t).op = "users" /\ Req(t).op \notin BoardOps)
    BY <1>5 DEF Read, BoardOps
  <2> QED BY <1>5, <2>1, ReadReplies, OthersStand
<1>6. CASE Answer(t)
  BY <1>6, AnswerReleases, OthersStand
<1>7. CASE \/ Validate(t) \/ InsertUser(t) \/ GoOnline(t) \/ GoOffline(t) \/ InsertRoom(t)
           \/ ReadRooms(t) \/ ReadMembers(t) \/ RoomsRead(t) \/ Reject(t)
  <2>1. Req(t).op \notin BoardOps
    BY <1>2, <1>7 DEF HandlerOK, BoardOps, Validate, InsertUser, GoOnline, GoOffline,
                      InsertRoom, ReadRooms, ReadMembers, RoomsRead, Reject
  <2> QED BY <1>7, <2>1, OthersStand
<1> QED BY <1>1, <1>3, <1>4, <1>5, <1>6, <1>7 DEF Handler, EndUnknown

LEMMA BoardStep ==
  ASSUME IInv, PollInv, literal \in BOOLEAN, [Next]_vars
  PROVE  [Board!Next]_(Board!vars)
<1>1. IInv'
  BY NextKeeps
<1>2. CallsServed'
  <2>1. (IInv => CallsServed)'
    BY Served, PTL
  <2> QED BY <1>1, <2>1
<1>3. UNCHANGED literal \/ ~literal'
  BY DEF Next, Handler, Receive, EndUnknown, Crash, Tick, StatementsFail, Quiet, vars
<1>4. CASE ~literal'
  <2>1. UNCHANGED messages
    BY <1>3, <1>4 DEF Next, Handler, Receive, EndUnknown, Crash, Tick, StatementsFail, Quiet,
                      vars, tables
  <2>2. \A i \in Ids : BoardCall(i)' = Board!NoCall
    BY <1>2, <1>4 DEF CallsServed
  <2> QED BY <2>1, <2>2, AllLost
<1>5. CASE literal /\ UNCHANGED literal
  <2>1. CASE \E t \in Threads : Handler(t)
    BY <1>1, <1>5, <2>1, HandlerMoves
  <2>2. CASE Crash
    <3>1. UNCHANGED messages /\ \A t \in Threads : thread'[t].id = None
      BY <2>2 DEF Crash, tables, Idle
    <3>2. \A i \in Ids : BoardCall(i)' = Board!NoCall
      BY <1>2, <3>1, ServerAssumption DEF CallsServed
    <3> QED BY <3>1, <3>2, AllLost
  <2>3. CASE UNCHANGED <<literal, messages, thread>>
    <3>1. BoardLog' = BoardLog
      BY <2>3 DEF BoardLog
    <3>2. ASSUME NEW i \in Ids PROVE BoardCall(i)' = BoardCall(i)
      BY <2>3 DEF BoardCall, Serving, At, Req
    <3>3. BoardCalls' = BoardCalls
      BY <3>2 DEF BoardCalls
    <3> QED BY <3>1, <3>3 DEF Board!vars, BoardLog, BoardCalls
  <2> QED BY <2>1, <2>2, <2>3 DEF Next, Tick, StatementsFail, Quiet, vars, tables
<1> QED BY <1>3, <1>4, <1>5

(* The routes of either server over the tables are the board the page is   *)
(* written against, whatever other handlers do, and whatever fails or is   *)
(* cut off: a send adds one message at the end or none, and a fetch lists  *)
(* what is newer, or the first of it (the calls of a text with a quote,    *)
(* and those after it, count as lost).                                     *)
THEOREM BoardRefinement == Spec => ImplementsMessageBoard
<1>1. Init => Board!Init
  <2> SUFFICES ASSUME Init PROVE Board!Init
    OBVIOUS
  <2>1. BoardLog = <<>>
    BY DEF Init, BoardLog
  <2>2. ASSUME NEW i \in Ids PROVE BoardCall(i) = Board!NoCall
    <3>1. Serving(i) = {}
      BY ServerAssumption DEF Init, Serving, Idle
    <3> QED BY <3>1 DEF BoardCall, Board!NoCall
  <2>3. BoardCalls = [i \in Ids |-> Board!NoCall]
    BY <2>2 DEF BoardCalls
  <2> QED BY <2>1, <2>3 DEF Board!Init, BoardLog, BoardCalls
<1>2. IInv /\ PollInv /\ TypeOK /\ [Next]_vars => [Board!Next]_(Board!vars)
  BY BoardStep DEF TypeOK
<1> QED BY <1>1, <1>2, PollInvariance, TypeCorrect, PTL DEF Spec, Board!Spec, ImplementsMessageBoard
=============================================================================
