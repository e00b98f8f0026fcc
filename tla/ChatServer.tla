----------------------------- MODULE ChatServer -----------------------------
(***************************************************************************)
(* The chat service: the route handlers of ChatroomServerEpoll (one thread *)
(* serves) and of ChatroomServer (the pool's workers serve), over the four *)
(* SQLite tables of DatabaseManager.                                       *)
(*                                                                         *)
(* A call of DatabaseManager is one step, for each runs under its mutex    *)
(* and is one statement that SQLite commits by itself; a handler makes     *)
(* several, and with several threads other handlers come between them.     *)
(* The process may end at any point, and be started again on its tables.   *)
(*                                                                         *)
(* The texts of requests are put into the statements as they are.  A text  *)
(* without a quote is a value in it; with a quote it may be a part of the  *)
(* statement, and the statement may fail, or succeed and mean anything.    *)
(* From the first such request on the model leaves open what the tables    *)
(* hold and what is answered; the properties are about the time before.    *)
(* (A text with a NUL in it, which ends the statement, counts as one with  *)
(* a quote.)                                                               *)
(*                                                                         *)
(* Left out: contents of messages (a message is known by the request that  *)
(* sent it), last_active_time, which nothing reads, and the statements     *)
(* that no handler calls.                                                  *)
(***************************************************************************)
EXTENDS Naturals, Sequences, FiniteSets

CONSTANTS
  Threads,      \* the threads that run handlers
  Ids,          \* names of requests, each made once
  Users, Passwords, Rooms,
  Ops,          \* the operations clients ask for
  MaxTime,      \* bound on the clock, in ms
  None          \* no user, no request, no room

ASSUME ServerAssumption ==
  /\ MaxTime \in Nat \ {0}
  /\ None \notin Ids \cup Users
  /\ None \notin [password : Passwords, online : BOOLEAN]

Requests ==
  { r \in [op : {"register", "login"}, user : Users, password : Passwords]
          \cup [op : {"logout"}, user : Users]
          \cup [op : {"create_room", "join_room", "send_message"}, user : Users, room : Rooms]
          \cup [op : {"messages"}, room : Rooms, since : 0 .. MaxTime]
          \cup [op : {"rooms", "users", "malformed"}] : r.op \in Ops }

Results == {"success", "exists", "refused", "error", "invalid"}

VARIABLES
  literal,      \* no request yet had a quote in one of its texts
  users,        \* table users: [password, online] of those that exist
  rooms,        \* table rooms: the creator of those that exist
  roomUsers,    \* table room_users
  messages,     \* table messages, in the order of their ids
  failing,      \* SQLite has begun to fail statements, now and then
  now,          \* system_clock
  thread,       \* what each thread is doing
  asked,        \* history: the requests made
  answers       \* history: the answers sent while literal

tables == <<users, rooms, roomUsers, messages>>
vars == <<literal, tables, failing, now, thread, asked, answers>>

NoData == [listed |-> {}, todo |-> {}]
Idle == [pc |-> "idle", id |-> None, req |-> None, before |-> {}, time |-> 0,
         result |-> "success", data |-> NoData]

Init ==
  /\ literal = TRUE
  /\ users = [u \in Users |-> None]
  /\ rooms = [r \in Rooms |-> None]
  /\ roomUsers = {}
  /\ messages = <<>>
  /\ failing = FALSE /\ now = 1
  /\ thread = [t \in Threads |-> Idle]
  /\ asked = {} /\ answers = {}
-----------------------------------------------------------------------------
(* DatabaseManager.  "ok" is what the call returns.                        *)

(* Mutant: the column's DEFAULT 0 is dropped.                              *)
CreateUser_NoDefault(u, p, ok) ==
  \/ ok /\ users[u] = None /\ users' = [users EXCEPT ![u] = [password |-> p, online |-> None]]
  \/ ~ok /\ (failing \/ users[u] # None) /\ UNCHANGED users

(* Mutant: INSERT OR REPLACE.                                              *)
CreateUser_Replaces(u, p, ok) ==
  \/ ok /\ users' = [users EXCEPT ![u] = [password |-> p, online |-> FALSE]]
  \/ ~ok /\ failing /\ UNCHANGED users

CreateUser(u, p, ok) ==
  \/ ok /\ users[u] = None /\ users' = [users EXCEPT ![u] = [password |-> p, online |-> FALSE]]
  \/ ~ok /\ (failing \/ users[u] # None) /\ UNCHANGED users

ValidateUser(u, p, ok) ==
  LET valid == users[u] # None /\ users[u].password = p
  IN  ok = valid \/ (~ok /\ failing)

SetUserOnlineStatus(u, online, ok) ==
  \/ ok /\ users' = IF users[u] = None THEN users
                    ELSE [users EXCEPT ![u].online = online]
  \/ ~ok /\ failing /\ UNCHANGED users

CreateRoom(r, u, ok) ==
  \/ ok /\ rooms[r] = None /\ rooms' = [rooms EXCEPT ![r] = u]
  \/ ~ok /\ (failing \/ rooms[r] # None) /\ UNCHANGED rooms

(* The foreign keys of the table are not enforced: SQLite checks none      *)
(* unless told to.                                                         *)
AddUserToRoom(r, u, ok) ==
  \/ ok /\ roomUsers' = roomUsers \cup {<<r, u>>}
  \/ ~ok /\ failing /\ UNCHANGED roomUsers

SaveMessage(m, ok) ==
  \/ ok /\ messages' = Append(messages, m)
  \/ ~ok /\ failing /\ UNCHANGED messages

(* A select that fails, at once or at a later row, returns the rows read   *)
(* before, with no sign of it.                                             *)
Selected(rows, got) == got = rows \/ (failing /\ got \subseteq rows)

(* Messages are read in the order of their times.                          *)
ReadBefore(k, n) ==
  \/ messages[k].time < messages[n].time
  \/ messages[k].time = messages[n].time /\ k < n

SelectedInOrder(rows, got) ==
  /\ Selected(rows, got)
  /\ \A n \in got, k \in rows : ReadBefore(k, n) => k \in got

(* Mutant: the messages of the current millisecond are left for later.     *)
RoomMessages_Settled(r, since) ==
  {i \in DOMAIN messages :
     messages[i].room = r /\ messages[i].time > since /\ messages[i].time < now}

(* Mutant: only the newest is returned, as for a preview (LIMIT 1).        *)
RoomMessages_Newest(r, since) ==
  {i \in DOMAIN messages :
     /\ messages[i].room = r /\ messages[i].time > since
     /\ \A k \in DOMAIN messages :
          messages[k].room = r => messages[k].time <= messages[i].time}

(* The messages, by their ids, that getRoomMessages() returns.             *)
RoomMessages(r, since) ==
  {i \in DOMAIN messages :
     messages[i].room = r /\ (since > 0 => messages[i].time > since)}

ExistingRooms == {r \in Rooms : rooms[r] # None}
ExistingUsers == {u \in Users : users[u] # None}
Members(r) == {u \in Users : <<r, u>> \in roomUsers}
-----------------------------------------------------------------------------
(* The steps of a handler.                                                 *)

Req(t) == thread[t].req
At(t, pc) == thread[t].pc = pc
Goto(t, pc) == thread' = [thread EXCEPT ![t].pc = pc]
Finish(t, result) == thread' = [thread EXCEPT ![t].pc = "answer", ![t].result = result]
List(t, data) == thread' = [thread EXCEPT ![t].pc = "answer", ![t].data.listed = data]

FirstStep ==
  [register |-> "validate", login |-> "validate", logout |-> "offline",
   create_room |-> "create", join_room |-> "add", send_message |-> "save",
   messages |-> "read", rooms |-> "read", users |-> "read", malformed |-> "parse"]

Answered == {a.id : a \in answers}

(* What a request is answered.                                             *)
Reply(t) ==
  [id |-> thread[t].id, req |-> thread[t].req, before |-> thread[t].before,
   result |-> thread[t].result, listed |-> thread[t].data.listed]

(* The requests with texts, of which one may have a quote in it.           *)
HasText(r) == r.op \notin {"rooms", "users", "malformed"}

(* A handler starts.  That of /send_message takes the time at once.        *)
Receive(t, i, r) ==
  /\ At(t, "idle") /\ i \notin asked
  /\ literal' = literal \/ (HasText(r) /\ literal' = FALSE)
  /\ thread' = [thread EXCEPT ![t] =
       [pc |-> FirstStep[r.op], id |-> i, req |-> r, before |-> Answered,
        time |-> IF r.op = "send_message" THEN now ELSE 0,
        result |-> "success", data |-> NoData]]
  /\ asked' = asked \cup {i}
  /\ UNCHANGED <<tables, failing, now, answers>>

(* POST /register and /login.                                              *)
Validate(t) ==
  /\ At(t, "validate")
  /\ \E ok \in BOOLEAN :
       /\ ValidateUser(Req(t).user, Req(t).password, ok)
       /\ \/ Req(t).op = "register" /\ ok /\ Finish(t, "exists")
          \/ Req(t).op = "register" /\ ~ok /\ Goto(t, "insert")
          \/ Req(t).op = "login" /\ ok /\ Goto(t, "online")
          \/ Req(t).op = "login" /\ ~ok /\ Finish(t, "refused")
  /\ UNCHANGED <<tables, failing, now, asked, answers>>

InsertUser(t) ==
  /\ At(t, "insert")
  /\ \E ok \in BOOLEAN :
       /\ CreateUser(Req(t).user, Req(t).password, ok)
       /\ Finish(t, IF ok THEN "success" ELSE "error")
  /\ UNCHANGED <<rooms, roomUsers, messages, failing, now, asked, answers>>

(* Neither of the results of a login's two updates is looked at.           *)
GoOnline(t) ==
  /\ At(t, "online")
  /\ \E ok \in BOOLEAN : SetUserOnlineStatus(Req(t).user, TRUE, ok)
  /\ Finish(t, "success")
  /\ UNCHANGED <<rooms, roomUsers, messages, failing, now, asked, answers>>

(* POST /logout.                                                           *)
GoOffline(t) ==
  /\ At(t, "offline")
  /\ \E ok \in BOOLEAN :
       /\ SetUserOnlineStatus(Req(t).user, FALSE, ok)
       /\ Finish(t, IF ok THEN "success" ELSE "error")
  /\ UNCHANGED <<rooms, roomUsers, messages, failing, now, asked, answers>>

(* POST /create_room, which goes on to add the creator.                    *)
InsertRoom(t) ==
  /\ At(t, "create")
  /\ \E ok \in BOOLEAN :
       /\ CreateRoom(Req(t).room, Req(t).user, ok)
       /\ IF ok THEN Goto(t, "add") ELSE Finish(t, "error")
  /\ UNCHANGED <<users, roomUsers, messages, failing, now, asked, answers>>

(* Mutant: the result of addUserToRoom() is not looked at.                 *)
InsertMember_Unchecked(t) ==
  /\ At(t, "add")
  /\ \E ok \in BOOLEAN : AddUserToRoom(Req(t).room, Req(t).user, ok)
  /\ Finish(t, "success")
  /\ UNCHANGED <<users, rooms, messages, failing, now, asked, answers>>

(* POST /join_room, and the end of /create_room.                           *)
InsertMember(t) ==
  /\ At(t, "add")
  /\ \E ok \in BOOLEAN :
       /\ AddUserToRoom(Req(t).room, Req(t).user, ok)
       /\ Finish(t, IF ok THEN "success" ELSE "error")
  /\ UNCHANGED <<users, rooms, messages, failing, now, asked, answers>>

(* Mutant: the result of saveMessage() is not looked at.                   *)
InsertMessage_Unchecked(t) ==
  /\ At(t, "save")
  /\ \E ok \in BOOLEAN :
       SaveMessage([room |-> Req(t).room, user |-> Req(t).user,
                    time |-> thread[t].time, by |-> thread[t].id], ok)
  /\ Finish(t, "success")
  /\ UNCHANGED <<users, rooms, roomUsers, failing, now, asked, answers>>

(* POST /send_message.                                                     *)
InsertMessage(t) ==
  /\ At(t, "save")
  /\ \E ok \in BOOLEAN :
       /\ SaveMessage([room |-> Req(t).room, user |-> Req(t).user,
                       time |-> thread[t].time, by |-> thread[t].id], ok)
       /\ Finish(t, IF ok THEN "success" ELSE "error")
  /\ UNCHANGED <<users, rooms, roomUsers, failing, now, asked, answers>>

(* POST /messages and GET /users.                                          *)
Read(t) ==
  /\ At(t, "read") /\ Req(t).op \in {"messages", "users"}
  /\ \/ /\ Req(t).op = "messages"
        /\ \E got \in SUBSET DOMAIN messages :
             /\ SelectedInOrder(RoomMessages(Req(t).room, Req(t).since), got)
             /\ List(t, {messages[k].by : k \in got})
     \/ /\ Req(t).op = "users"
        /\ \E got \in SUBSET Users :
             /\ Selected(ExistingUsers, got)
             /\ List(t, {<<u, users[u].online>> : u \in got})
  /\ UNCHANGED <<tables, failing, now, asked, answers>>

(* GET /rooms: the rooms, and then the members of one after the other.     *)
ReadRooms(t) ==
  /\ At(t, "read") /\ Req(t).op = "rooms"
  /\ \E got \in SUBSET Rooms :
       /\ Selected(ExistingRooms, got)
       /\ thread' = [thread EXCEPT ![t].pc = "members", ![t].data.todo = got]
  /\ UNCHANGED <<tables, failing, now, asked, answers>>

ReadMembers(t) ==
  /\ At(t, "members")
  /\ \E r \in thread[t].data.todo, got \in SUBSET Users :
       /\ Selected(Members(r), got)
       /\ thread' = [thread EXCEPT ![t].data.todo = @ \ {r},
                                   ![t].data.listed = @ \cup {<<r, got>>}]
  /\ UNCHANGED <<tables, failing, now, asked, answers>>

RoomsRead(t) ==
  /\ At(t, "members") /\ thread[t].data.todo = {}
  /\ Goto(t, "answer")
  /\ UNCHANGED <<tables, failing, now, asked, answers>>

(* No JSON, or a field is missing.                                         *)
Reject(t) ==
  /\ At(t, "parse")
  /\ Finish(t, "invalid")
  /\ UNCHANGED <<tables, failing, now, asked, answers>>

Answer(t) ==
  /\ At(t, "answer")
  /\ answers' = answers \cup {Reply(t)}
  /\ thread' = [thread EXCEPT ![t] = Idle]
  /\ UNCHANGED <<tables, failing, now, asked>>

(* The process ends and is started again: what was committed stays.        *)
Crash ==
  /\ \E t \in Threads : ~At(t, "idle")
  /\ thread' = [t \in Threads |-> Idle]
  /\ UNCHANGED <<literal, tables, failing, now, asked, answers>>

Tick ==
  /\ now < MaxTime
  /\ now' = now + 1
  /\ UNCHANGED <<literal, tables, failing, thread, asked, answers>>

(* From here on statements may fail: the disk is full, the file is locked. *)
StatementsFail ==
  /\ ~failing
  /\ failing' = TRUE
  /\ UNCHANGED <<literal, tables, now, thread, asked, answers>>

(* After a quote a handler ends somehow; what it finds, does and answers   *)
(* is left open, its own request having the quote or another.              *)
EndUnknown(t) ==
  /\ ~literal /\ ~At(t, "idle")
  /\ thread' = [thread EXCEPT ![t] = Idle]
  /\ UNCHANGED <<literal, tables, failing, now, asked, answers>>

Handler(t) ==
  \/ \E i \in Ids, r \in Requests : Receive(t, i, r)
  \/ /\ literal /\ UNCHANGED literal
     /\ \/ Validate(t) \/ InsertUser(t) \/ GoOnline(t) \/ GoOffline(t)
        \/ InsertRoom(t) \/ InsertMember(t) \/ InsertMessage(t)
        \/ Read(t) \/ ReadRooms(t) \/ ReadMembers(t) \/ RoomsRead(t)
        \/ Reject(t) \/ Answer(t)
  \/ EndUnknown(t)

(* No request is being served.                                             *)
Quiet == (\A t \in Threads : At(t, "idle")) /\ UNCHANGED vars

Next == (\E t \in Threads : Handler(t)) \/ Crash \/ Tick \/ StatementsFail \/ Quiet

Spec == Init /\ [][Next]_vars
-----------------------------------------------------------------------------
(* Properties.                                                             *)

Labels ==
  {"idle", "validate", "insert", "online", "offline", "create", "add", "save", "read",
   "members", "parse", "answer"}

(* What is listed: messages, users with their status, rooms with members.  *)
Items == Ids \cup (Users \X BOOLEAN) \cup (Rooms \X SUBSET Users)

ThreadType ==
  [pc : Labels, id : Ids \cup {None}, req : Requests \cup {None}, before : SUBSET Ids,
   time : 0 .. MaxTime, result : Results,
   data : [listed : SUBSET Items, todo : SUBSET Rooms]]

ReplyType ==
  [id : Ids, req : Requests, before : SUBSET Ids, result : Results, listed : SUBSET Items]

StateOK ==
  /\ users \in [Users -> [password : Passwords, online : BOOLEAN] \cup {None}]
  /\ rooms \in [Rooms -> Users \cup {None}]
  /\ roomUsers \subseteq Rooms \X Users
  /\ messages \in Seq([room : Rooms, user : Users, time : 1 .. MaxTime, by : Ids])
  /\ failing \in BOOLEAN
  /\ now \in 1 .. MaxTime
  /\ asked \subseteq Ids
  /\ thread \in [Threads -> ThreadType]
  /\ answers \subseteq ReplyType

TypeOK == literal \in BOOLEAN /\ StateOK

(* What an answer says is so, and stays so whatever other handlers do and  *)
(* whenever the process ends: a success is in the tables, and a message is *)
(* there once, or not at all if its sender was told it failed; as long as  *)
(* no request has a quote in a text.                                       *)
Sent(i) == {k \in DOMAIN messages : messages[k].by = i}

HoldsFor(a) ==
  CASE a.req.op \in {"register", "login"} ->
         a.result \in {"success", "exists"} =>
           users[a.req.user] # None /\ users[a.req.user].password = a.req.password
    [] a.req.op = "create_room" ->
         a.result = "success" =>
           rooms[a.req.room] = a.req.user /\ <<a.req.room, a.req.user>> \in roomUsers
    [] a.req.op = "join_room" ->
         a.result = "success" => <<a.req.room, a.req.user>> \in roomUsers
    [] a.req.op = "send_message" ->
         Cardinality(Sent(a.id)) = IF a.result = "success" THEN 1 ELSE 0
    [] OTHER -> TRUE

AnswersHold == literal => \A a \in answers : HoldsFor(a)

(* Of the requests that register one name, or that create one room, one    *)
(* succeeds at most, although the handlers look before they insert; of the *)
(* requests answered before one has a quote in a text.                     *)
NameTaken(a, b) ==
  /\ a.result = "success" /\ b.result = "success" /\ a.req.op = b.req.op
  /\ \/ a.req.op = "register" /\ a.req.user = b.req.user
     \/ a.req.op = "create_room" /\ a.req.room = b.req.room

NamesAreUnique == \A a, b \in answers : NameTaken(a, b) => a = b

(* What was acknowledged before a request is made is seen by it: an        *)
(* account opens to its password and to no other and is listed, a member   *)
(* is listed in his room, and a message is in what its room returns, as    *)
(* long as no statement fails and no request has a quote in a text.        *)
Sees(a, b) ==
  CASE b.req.op = "register" /\ a.req.op = "login" /\ a.req.user = b.req.user ->
         a.result = IF a.req.password = b.req.password THEN "success" ELSE "refused"
    [] b.req.op = "register" /\ a.req.op = "users" ->
         \E online \in BOOLEAN : <<b.req.user, online>> \in a.listed
    [] b.req.op = "create_room" /\ a.req.op = "rooms" ->
         \E got \in SUBSET Users : <<b.req.room, got>> \in a.listed /\ b.req.user \in got
    [] b.req.op = "send_message" /\ a.req.op = "messages" /\ a.req.room = b.req.room ->
         \A k \in DOMAIN messages :
           messages[k].by = b.id /\ (messages[k].time > a.req.since \/ a.req.since = 0)
             => b.id \in a.listed
    [] OTHER -> TRUE

AnswersAreFresh ==
  literal /\ ~failing =>
    \A a, b \in answers : b.id \in a.before /\ b.result = "success" => Sees(a, b)

(* Who goes on polling from the newest message he was given misses only    *)
(* messages that were stored after it although their time is not later:    *)
(* sent in the same millisecond, or sent earlier and saved by a slower     *)
(* thread.  Of all others he has each up to the newest, though a select    *)
(* may break off and no answer says so; as long as no text has a quote.    *)
PollsMissNothing ==
  literal =>
    \A a \in answers : a.req.op = "messages" =>
      \A k, n \in DOMAIN messages :
        /\ messages[n].by \in a.listed
        /\ messages[k].room = a.req.room
        /\ a.req.since < messages[k].time /\ messages[k].time <= messages[n].time
        => messages[k].by \in a.listed \/ n < k

(* The tables and the handlers are the MessageBoard the page is written    *)
(* against: a send adds one message at the end or none, and a fetch lists  *)
(* what is newer than its since, or the first of it in the order of the    *)
(* times, whatever other threads do in between, and whatever fails or      *)
(* ends; until a text has a quote: then the board's calls count as lost.   *)
Serving(i) ==
  {t \in Threads :
     literal /\ thread[t].id = i /\ Req(t).op \in {"send_message", "join_room", "messages"}}

BoardCall(i) ==
  IF Serving(i) = {} THEN [state |-> "free", req |-> None, ok |-> FALSE, got |-> {}]
  ELSE LET v == CHOOSE t \in Serving(i) : TRUE
       IN [state |-> IF At(v, "answer") THEN "done" ELSE "asked",
           req   |-> Req(v),
           ok    |-> At(v, "answer") /\ thread[v].result = "success",
           got   |-> {k \in DOMAIN messages : messages[k].by \in thread[v].data.listed}]

Board ==
  INSTANCE MessageBoard WITH
    Calls <- Ids,
    log   <- [k \in DOMAIN messages |->
                [room |-> messages[k].room, user |-> messages[k].user, time |-> messages[k].time]],
    call  <- [i \in Ids |-> BoardCall(i)]

ImplementsMessageBoard == Board!Spec

(* The foreign keys the tables declare.                                    *)
ReferencesHold ==
  /\ \A r \in ExistingRooms : rooms[r] \in ExistingUsers
  /\ roomUsers \subseteq ExistingRooms \X ExistingUsers
  /\ \A k \in DOMAIN messages :
       messages[k].room \in ExistingRooms /\ messages[k].user \in ExistingUsers
=============================================================================
