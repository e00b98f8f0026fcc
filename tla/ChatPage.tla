------------------------------ MODULE ChatPage ------------------------------
(***************************************************************************)
(* chat.html: one page, whose user joins rooms and sends messages and      *)
(* whose timer polls, over the service as MessageBoard describes it, on    *)
(* which other users post as well.  The page's callbacks run one at a      *)
(* time, but its calls overlap as they like, and what a callback compares  *)
(* or changes may have changed since its call was made.                    *)
(*                                                                         *)
(* A message is its position in the board's log, and the messages' times   *)
(* increase with it, as they do unless two are sent in one millisecond or  *)
(* are saved in another order; its author only changes how it looks.  The  *)
(* lists of rooms and of users, which the page only displays, are left    *)
(* out.                                                                    *)
(***************************************************************************)
EXTENDS Naturals, Sequences, SequencesExt

CONSTANTS
  Slots,        \* calls the page may have under way
  User,
  Rooms,
  MaxLog,       \* bound on the messages ever posted
  None          \* no room, no request

ASSUME PageAssumption == None \notin Rooms /\ MaxLog \in Nat

VARIABLES
  log, call,    \* the board
  room,         \* currentRoom
  since,        \* lastMessageTime
  all,          \* allMessages, a list
  broken,       \* allMessages is no list but the object of an error
  shown,        \* what the message list displays
  why,          \* which function of the page each call belongs to
  loaded,       \* history: allMessages is a list of currentRoom's messages
  stale         \* history: an answer was used that the page had moved on from

Board == INSTANCE MessageBoard WITH
  Calls <- Slots, Users <- {User}, MaxTime <- MaxLog

boardVars == <<log, call>>
pageVars  == <<room, since, all, broken, shown, loaded, stale>>
vars == <<boardVars, pageVars, why>>

Positions == 1 .. MaxLog

Message  == [room : Rooms, user : {User}, time : Positions]
CallType == [state : {"free", "asked", "done"}, req : Board!Requests \cup {None},
             ok : BOOLEAN, got : SUBSET DOMAIN log]

TypeOK ==
  /\ log \in Seq(Message) /\ Len(log) <= MaxLog
  /\ call \in [Slots -> CallType]
  /\ room \in Rooms \cup {None}
  /\ since \in 0 .. MaxLog
  /\ all \in Seq(DOMAIN log) /\ shown \in Seq(DOMAIN log)
  /\ why \in [Slots -> {"nothing", "join", "load", "poll", "send"}]
  /\ broken \in BOOLEAN /\ loaded \in BOOLEAN /\ stale \in BOOLEAN

Init ==
  /\ Board!Init
  /\ room = None /\ since = 0
  /\ all = <<>> /\ shown = <<>>
  /\ why = [i \in Slots |-> "nothing"]
  /\ broken = FALSE /\ loaded = FALSE /\ stale = FALSE
-----------------------------------------------------------------------------
(* The service, and the other users.                                       *)

(* The service carries a call out, or fails to; a call made later may be   *)
(* carried out, and answered, earlier.  Times increase (see above).        *)
ServiceStores(i) == Len(log) < MaxLog /\ Board!Store(i, Len(log) + 1)
ServiceFails(i)  == Board!Refuse(i) \/ Board!FetchFails(i)

Service(i) ==
  /\ ServiceStores(i) \/ Board!Join(i) \/ Board!Fetch(i) \/ ServiceFails(i)
  /\ UNCHANGED <<pageVars, why>>

(* A connection breaks, before or after the call is carried out: the       *)
(* promise is rejected, which changes nothing in the page.                 *)
LoseCall(i) ==
  /\ Board!Lose({i})
  /\ why' = [why EXCEPT ![i] = "nothing"]
  /\ UNCHANGED pageVars

(* What another page's send leaves behind.                                 *)
SomeonePosts ==
  /\ Len(log) < MaxLog
  /\ \E r \in Rooms :
       log' = Append(log, [room |-> r, user |-> User, time |-> Len(log) + 1])
  /\ UNCHANGED <<call, pageVars, why>>
-----------------------------------------------------------------------------
(* Calls.                                                                  *)

Makes(i, reason, r) ==
  /\ why[i] = "nothing"
  /\ Board!Ask(i, r)
  /\ why' = [why EXCEPT ![i] = reason]

(* joinRoom(), sendMessage() and pollMessages().                           *)
JoinRoom(i, r) ==
  /\ room # r
  /\ Makes(i, "join", [op |-> "join_room", user |-> User, room |-> r])
  /\ UNCHANGED pageVars

SendMessage(i) ==
  /\ room # None
  /\ Makes(i, "send", [op |-> "send_message", user |-> User, room |-> room])
  /\ UNCHANGED pageVars

(* Mutant: polls although no room has been joined.                         *)
PollMessages_Anywhere(i) ==
  /\ Makes(i, "poll", [op |-> "messages", room |-> room, since |-> since])
  /\ UNCHANGED pageVars

PollMessages(i) ==
  /\ room # None
  /\ Makes(i, "poll", [op |-> "messages", room |-> room, since |-> since])
  /\ UNCHANGED pageVars
-----------------------------------------------------------------------------
(* Answers.                                                                *)

Answered(i, reason) == why[i] = reason /\ call[i].state = "done"

Ends(i) ==
  /\ Board!Release(i)
  /\ why' = [why EXCEPT ![i] = "nothing"]

(* loadMessages(), as the continuation of a join or a send.                *)
GoesOnToLoad(i, r) ==
  /\ Board!Ask(i, [op |-> "messages", room |-> r, since |-> 0])
  /\ why' = [why EXCEPT ![i] = "load"]

(* Whatever the epoll server answers has status 200, which is all that the *)
(* page looks at; the other server answers errors with their own status.   *)
Fails(i) ==
  /\ Answered(i, "join") \/ Answered(i, "send")
  /\ ~call[i].ok
  /\ Ends(i)
  /\ UNCHANGED pageVars

(* The page is in the new room and its display is cleared, but the list    *)
(* and the time stay those of the old one until the load is answered.      *)
JoinAnswered(i) ==
  /\ Answered(i, "join")
  /\ room' = call[i].req.room
  /\ shown' = <<>>
  /\ loaded' = FALSE /\ stale' = FALSE
  /\ GoesOnToLoad(i, room')
  /\ UNCHANGED <<since, all, broken>>

SendAnswered(i) ==
  /\ Answered(i, "send")
  /\ GoesOnToLoad(i, room)
  /\ UNCHANGED pageVars

InOrder(S) ==
  [n \in 1 .. Cardinality(S) |->
     CHOOSE k \in S : Cardinality({j \in S : j <= k}) = n]

Latest(S)  == IF S = {} THEN 0 ELSE log[Max(S)].time

(* What the list must already hold for the answer of a poll to follow it.  *)
Follows(i) ==
  /\ call[i].req.room = room /\ loaded
  /\ call[i].req.since <= Latest(Range(all))

(* Mutant: the new list is appended to the old one.                        *)
LoadAnswered_Appends(i) ==
  /\ Answered(i, "load") /\ call[i].ok
  /\ all' = all \o InOrder(call[i].got) /\ broken' = FALSE
  /\ since' = Latest(call[i].got)
  /\ shown' = all'
  /\ loaded' = (call[i].req.room = room) /\ stale' = ~loaded'
  /\ Ends(i)
  /\ UNCHANGED room

(* The list and the time are replaced, whatever room is current.           *)
LoadAnswered(i) ==
  /\ Answered(i, "load") /\ call[i].ok
  /\ all' = InOrder(call[i].got) /\ broken' = FALSE
  /\ since' = Latest(call[i].got)
  /\ shown' = all'
  /\ loaded' = (call[i].req.room = room) /\ stale' = ~loaded'
  /\ Ends(i)
  /\ UNCHANGED room

(* The object of an error is taken for the list: it has no length, the     *)
(* display is cleared, and forEach, which it has not either, throws.       *)
LoadRefused(i) ==
  /\ Answered(i, "load") /\ ~call[i].ok
  /\ all' = <<>> /\ broken' = TRUE
  /\ since' = 0
  /\ shown' = <<>>
  /\ loaded' = FALSE /\ stale' = FALSE
  /\ Ends(i)
  /\ UNCHANGED room

(* Mutant: the messages are appended without looking for those there are.  *)
PollAnswered_Repeats(i) ==
  /\ Answered(i, "poll") /\ call[i].got # {} /\ ~broken
  /\ since' = Latest(call[i].got)
  /\ all' = all \o InOrder(call[i].got)
  /\ shown' = all'
  /\ stale' = (stale \/ ~Follows(i))
  /\ Ends(i)
  /\ UNCHANGED <<room, broken, loaded>>

(* Mutant: the time goes on, and the display is left for the next load.    *)
PollAnswered_NotShown(i) ==
  /\ Answered(i, "poll") /\ call[i].got # {} /\ ~broken
  /\ since' = Latest(call[i].got)
  /\ all' = all \o InOrder(call[i].got \ Range(all))
  /\ stale' = (stale \/ ~Follows(i))
  /\ Ends(i)
  /\ UNCHANGED <<room, broken, shown, loaded>>

(* What is new is appended and the time set to the newest of the answer,   *)
(* whatever room is current and whatever has been loaded meanwhile.        *)
PollAnswered(i) ==
  /\ Answered(i, "poll") /\ call[i].got # {} /\ ~broken
  /\ since' = Latest(call[i].got)
  /\ all' = all \o InOrder(call[i].got \ Range(all))
  /\ shown' = all'
  /\ stale' = (stale \/ ~Follows(i))
  /\ Ends(i)
  /\ UNCHANGED <<room, broken, loaded>>

(* The time goes on, and then map throws, for the object of an error has   *)
(* none: these messages are not shown, nor asked for again by a poll.      *)
PollThrows(i) ==
  /\ Answered(i, "poll") /\ call[i].got # {} /\ broken
  /\ since' = Latest(call[i].got)
  /\ Ends(i)
  /\ UNCHANGED <<room, all, broken, shown, loaded, stale>>

(* Nothing is new, or the answer is the object of an error.                *)
PollAnsweredEmpty(i) ==
  /\ Answered(i, "poll") /\ call[i].got = {}
  /\ Ends(i)
  /\ UNCHANGED pageVars

Callback(i) ==
  \/ JoinAnswered(i) \/ SendAnswered(i) \/ Fails(i)
  \/ LoadAnswered(i) \/ LoadRefused(i)
  \/ PollAnswered(i) \/ PollThrows(i) \/ PollAnsweredEmpty(i)

Acts(i) == SendMessage(i) \/ \E r \in Rooms : JoinRoom(i, r)

Next ==
  \/ SomeonePosts
  \/ \E i \in Slots :
       Service(i) \/ LoseCall(i) \/ Acts(i) \/ PollMessages(i) \/ Callback(i)

Spec == Init /\ [][Next]_vars

(* The timer goes on polling, callbacks run, the service answers each call *)
(* or it is lost; and of the polls made again and again some are carried   *)
(* out in full, and of the answers that bring a message again and again    *)
(* some arrive, though not all.                                            *)
FetchPolled(i) == why[i] = "poll" /\ Board!Fetch(i) /\ UNCHANGED <<pageVars, why>>

PollBrings(i, k) == k \in call[i].got /\ PollAnswered(i)

Fairness ==
  /\ SF_vars(\E i \in Slots : PollMessages(i))
  /\ \A i \in Slots : WF_vars(Service(i)) /\ WF_vars(Callback(i))
  /\ SF_vars(\E i \in Slots : FetchPolled(i))
  /\ \A k \in Positions : SF_vars(\E i \in Slots : PollBrings(i, k))

FairSpec == Spec /\ Fairness
-----------------------------------------------------------------------------
(* Properties.                                                             *)

InRoom(k) == k \in DOMAIN log /\ log[k].room = room

Prefix == IsPrefix(shown, InOrder({k \in DOMAIN log : InRoom(k)}))

(* The page shows the messages of its room from the first to some one,     *)
(* without a gap, in order and nothing else, however its calls overlap,    *)
(* fail and are lost, until a poll is answered that was made for another   *)
(* room, before the room was loaded, or from a later message than the list *)
(* ends with, or a load of another room; and again from the next join or   *)
(* load of the room on.                                                    *)
ShowsRoom == ~stale => Prefix

(* Not even then is a message shown twice.                                 *)
NoMessageTwice == IsInjective(shown)

(* Once the page has loaded its room, every message of the room, there or  *)
(* posted later, is shown at last, by polling alone; unless the page joins *)
(* anew, an answer comes that it had moved on from, or a later load, that  *)
(* of a send, is answered with an error: then it is no longer loaded, and  *)
(* blind, for polls move its time on and throw.  (Nor is it promised       *)
(* after a join whose load is lost or refused: the page keeps the time of  *)
(* the old list, or goes blind, and what is older is never shown.)         *)
EveryoneSees ==
  \A k \in Positions :
    loaded /\ InRoom(k) ~>
      k \in Range(shown) \/ ~InRoom(k) \/ ~loaded \/ stale
=============================================================================
