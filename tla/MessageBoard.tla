---------------------------- MODULE MessageBoard ----------------------------
(***************************************************************************)
(* What the message routes promise to their clients: one log, to which a   *)
(* send adds one message or, if it fails, none, and from which a fetch     *)
(* takes all of a room that is newer than a time, or, if the database      *)
(* fails, the first of it.  A message's time is that of its request, so    *)
(* times need not increase along the log.  ChatServer implements it;       *)
(* ChatPage is written against it.                                         *)
(***************************************************************************)
EXTENDS Naturals, Sequences

CONSTANTS
  Calls,        \* calls that may be under way
  Users, Rooms,
  MaxTime,      \* bound on the times of messages
  None          \* no request

VARIABLES
  log,          \* the messages, in the order in which they were saved
  call          \* what is known of each call

vars == <<log, call>>

Requests ==
  [op : {"send_message", "join_room"}, user : Users, room : Rooms]
    \cup [op : {"messages"}, room : Rooms, since : 0 .. MaxTime]

NoCall == [state |-> "free", req |-> None, ok |-> FALSE, got |-> {}]

Init == log = <<>> /\ call = [i \in Calls |-> NoCall]

Newer(r, since) == {k \in DOMAIN log : log[k].room = r /\ log[k].time > since}

Before(k, n) ==
  \/ log[k].time < log[n].time
  \/ log[k].time = log[n].time /\ k < n

(* A client makes a call, with the slot of an earlier one or a new one.    *)
Ask(i, r) ==
  /\ call[i].state # "asked"
  /\ call' = [call EXCEPT ![i] = [NoCall EXCEPT !.state = "asked", !.req = r]]
  /\ UNCHANGED log

Asked(i, op) == call[i].state = "asked" /\ call[i].req.op = op

Reply(i, ok, got) ==
  call' = [call EXCEPT ![i].state = "done", ![i].ok = ok, ![i].got = got]

Store(i, t) ==
  /\ Asked(i, "send_message")
  /\ log' = Append(log, [room |-> call[i].req.room, user |-> call[i].req.user, time |-> t])
  /\ Reply(i, TRUE, {})

(* The database fails, or the request arrived cut off.                     *)
Refuse(i) ==
  /\ call[i].state = "asked"
  /\ Reply(i, FALSE, {}) /\ UNCHANGED log

Join(i) ==
  /\ Asked(i, "join_room")
  /\ Reply(i, TRUE, {}) /\ UNCHANGED log

Fetch(i) ==
  /\ Asked(i, "messages")
  /\ Reply(i, TRUE, Newer(call[i].req.room, call[i].req.since)) /\ UNCHANGED log

FetchFails(i) ==
  /\ Asked(i, "messages")
  /\ \E got \in SUBSET Newer(call[i].req.room, call[i].req.since) :
       /\ \A n \in got, k \in Newer(call[i].req.room, call[i].req.since) :
            Before(k, n) => k \in got
       /\ Reply(i, TRUE, got)
  /\ UNCHANGED log

(* The answer reaches the client; or it does not, of any number of calls.  *)
Release(i) ==
  /\ call[i].state = "done"
  /\ call' = [call EXCEPT ![i] = NoCall] /\ UNCHANGED log

Lose(S) ==
  /\ \A i \in S : call[i].state # "free"
  /\ call' = [i \in Calls |-> IF i \in S THEN NoCall ELSE call[i]]
  /\ UNCHANGED log

Serve(i) ==
  \/ \E t \in 1 .. MaxTime : Store(i, t)
  \/ Refuse(i) \/ Join(i) \/ Fetch(i) \/ FetchFails(i)

Next ==
  \/ \E i \in Calls : Serve(i) \/ Release(i) \/ \E r \in Requests : Ask(i, r)
  \/ \E S \in SUBSET Calls : Lose(S)

Spec == Init /\ [][Next]_vars
=============================================================================
