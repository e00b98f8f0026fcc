--------------------------- MODULE ChatPageProofs ---------------------------
(***************************************************************************)
(* Theorems about ChatPage, for any numbers of calls, rooms and messages:  *)
(* the types; that no message is shown twice; and that the page shows its  *)
(* room from the first message on without a gap.                           *)
(***************************************************************************)
EXTENDS ChatPage, SequenceLemmas, FiniteSetTheorems

USE PageAssumption

Ascends(s) == \A i, j \in DOMAIN s : i < j => s[i] < s[j]

(* A call's reason tells its request, and a slot without one is free; who  *)
(* sends is in a room.                                                     *)
Fit(reason, r) ==
  /\ reason = "join" => r \in [op : {"join_room"}, user : {User}, room : Rooms]
  /\ reason = "send" => r \in [op : {"send_message"}, user : {User}, room : Rooms]
  /\ reason = "load" => r \in [op : {"messages"}, room : Rooms, since : {0}]
  /\ reason = "poll" => r \in [op : {"messages"}, room : Rooms, since : 0 .. MaxLog]

CallInv ==
  \A i \in Slots :
    /\ why[i] = "nothing" <=> call[i].state = "free"
    /\ Fit(why[i], call[i].req)
    /\ why[i] = "send" => room # None

(* Times and positions are the same.                                       *)
LogInv == \A k \in DOMAIN log : log[k].time = k

(* An answer has messages of the room that was asked for, newer than the   *)
(* time that was given, and none between them is missing.                  *)
AnswerInv ==
  \A i \in Slots : \A k \in call[i].got :
    /\ log[k].room = call[i].req.room /\ call[i].req.since < k
    /\ \A j \in DOMAIN log :
         log[j].room = call[i].req.room /\ call[i].req.since < j /\ j < k => j \in call[i].got

(* The list has no message twice.  It is what is displayed, or nothing is; *)
(* and if it was loaded and no answer came too late, it holds the room's   *)
(* messages from the first to some one, in order.                          *)
ListInv ==
  /\ IsInjective(all)
  /\ shown = all \/ shown = <<>>
  /\ ~stale /\ ~loaded => shown = <<>>
  /\ ~stale /\ loaded =>
       /\ shown = all /\ Ascends(all)
       /\ \A k \in Range(all) :
            /\ log[k].room = room
            /\ \A j \in DOMAIN log : log[j].room = room /\ j < k => j \in Range(all)

IInv == TypeOK /\ CallInv /\ LogInv /\ AnswerInv /\ ListInv
-----------------------------------------------------------------------------
(***************************************************************************)
(* InOrder(S) is the sequence of S in ascending order: the position of a   *)
(* number in it is its rank in S.                                          *)
(***************************************************************************)
Rank(S, k) == Cardinality({j \in S : j <= k})

LEMMA InOrderRanks ==
  ASSUME NEW S \in SUBSET Nat, IsFiniteSet(S)
  PROVE  /\ Cardinality(S) \in Nat
         /\ InOrder(S) \in [1 .. Cardinality(S) -> S]
         /\ \A k \in S : Rank(S, k) \in 1 .. Cardinality(S) /\ InOrder(S)[Rank(S, k)] = k
         /\ \A n \in 1 .. Cardinality(S) : Rank(S, InOrder(S)[n]) = n
         /\ \A k, l \in S : k < l => Rank(S, k) < Rank(S, l)
<1> DEFINE c == Cardinality(S)
           Upto(k) == {j \in S : j <= k}
           r == [k \in S |-> Rank(S, k)]
<1>1. c \in Nat
  BY FS_CardinalityType
<1>2. \A k \in S : /\ IsFiniteSet(Upto(k)) /\ Upto(k) \in SUBSET S
                   /\ Cardinality(Upto(k)) \in Nat /\ Cardinality(Upto(k)) <= c
                   /\ Cardinality(Upto(k)) # 0
  <2> SUFFICES ASSUME NEW k \in S
               PROVE  /\ IsFiniteSet(Upto(k)) /\ Upto(k) \in SUBSET S
                      /\ Cardinality(Upto(k)) \in Nat /\ Cardinality(Upto(k)) <= c
                      /\ Cardinality(Upto(k)) # 0
    OBVIOUS
  <2>1. Upto(k) \in SUBSET S /\ k \in Upto(k)
    OBVIOUS
  <2>2. IsFiniteSet(Upto(k)) /\ Cardinality(Upto(k)) <= c
    BY <2>1, FS_Subset
  <2>3. Cardinality(Upto(k)) \in Nat /\ Cardinality(Upto(k)) # 0
    BY <2>1, <2>2, FS_CardinalityType, FS_EmptySet
  <2> QED BY <2>1, <2>2, <2>3
<1>3. \A k \in S : r[k] = Cardinality(Upto(k)) /\ r[k] \in 1 .. c
  BY <1>1, <1>2 DEF Rank
<1>4. ASSUME NEW k \in S, NEW l \in S, k < l PROVE r[k] < r[l]
  <2>1. Upto(k) \in SUBSET Upto(l) /\ l \in Upto(l) /\ l \notin Upto(k)
    <3>1. \A j \in S : j \in Nat
      OBVIOUS
    <3>2. \A j \in S : j <= k => j <= l
      BY <1>4, <3>1
    <3>3. l <= l /\ ~(l <= k)
      BY <1>4, <3>1
    <3> QED BY <3>2, <3>3
  <2>2. Cardinality(Upto(k)) <= Cardinality(Upto(l)) /\ Cardinality(Upto(l)) # Cardinality(Upto(k))
    BY <1>2, <2>1, FS_Subset
  <2> QED BY <1>2, <1>3, <2>2
<1> HIDE DEF Upto
<1>5. \A k, l \in S : r[k] = r[l] => k = l
  <2> SUFFICES ASSUME NEW k \in S, NEW l \in S, k # l PROVE r[k] # r[l]
    OBVIOUS
  <2>1. k < l \/ l < k
    OBVIOUS
  <2>2. r[k] < r[l] \/ r[l] < r[k]
    BY <1>4, <2>1
  <2> QED BY <1>3, <2>2
<1>6. \A n \in 1 .. c : \E k \in S : r[k] = n
  <2>1. r \in [S -> 1 .. c]
    BY <1>3
  <2>2. r \in Injection(S, 1 .. c)
    BY <1>5, <2>1 DEF Injection, IsInjective
  <2>3. IsFiniteSet(1 .. c) /\ Cardinality(1 .. c) = c
    BY <1>1, FS_Interval
  <2>4. r \in Surjection(S, 1 .. c)
    BY <2>2, <2>3, FS_Injection
  <2> QED BY <2>4 DEF Surjection
<1>7. ASSUME NEW n \in 1 .. c PROVE InOrder(S)[n] \in S /\ r[InOrder(S)[n]] = n
  <2>1. InOrder(S)[n] = CHOOSE k \in S : Rank(S, k) = n
    BY DEF InOrder, Rank
  <2>2. \E k \in S : Rank(S, k) = n
    BY <1>6
  <2> QED BY <2>1, <2>2
<1>8. \A k \in S : InOrder(S)[r[k]] = k
  BY <1>3, <1>5, <1>7
<1>9. InOrder(S) \in [1 .. c -> S]
  BY <1>7 DEF InOrder
<1> QED BY <1>1, <1>3, <1>4, <1>7, <1>8, <1>9

LEMMA InOrderSorts ==
  ASSUME NEW S \in SUBSET Nat, IsFiniteSet(S)
  PROVE  /\ InOrder(S) \in Seq(S) /\ Len(InOrder(S)) = Cardinality(S)
         /\ Range(InOrder(S)) = S
         /\ Ascends(InOrder(S)) /\ IsInjective(InOrder(S))
<1> DEFINE t == InOrder(S)
           c == Cardinality(S)
<1>1. /\ c \in Nat /\ t \in [1 .. c -> S]
      /\ \A k \in S : Rank(S, k) \in 1 .. c /\ t[Rank(S, k)] = k
      /\ \A n \in 1 .. c : Rank(S, t[n]) = n
      /\ \A k, l \in S : k < l => Rank(S, k) < Rank(S, l)
  BY InOrderRanks
<1> HIDE DEF t
<1>2. t \in Seq(S) /\ Len(t) = c /\ DOMAIN t = 1 .. c
  BY <1>1
<1>3. Range(t) = S
  BY <1>1, <1>2 DEF Range
<1>4. ASSUME NEW m \in 1 .. c, NEW n \in 1 .. c, m < n PROVE t[m] < t[n]
  <2>1. t[m] \in S /\ t[n] \in S /\ t[m] \in Nat /\ t[n] \in Nat
    BY <1>1
  <2>2. ~(t[n] < t[m]) /\ t[m] # t[n]
    BY <1>1, <1>4, <2>1
  <2> QED BY <2>1, <2>2
<1>5. IsInjective(t)
  BY <1>1, <1>2 DEF IsInjective
<1> QED BY <1>2, <1>3, <1>4, <1>5 DEF t, Ascends

(* What ascends in S and leaves nothing of S out is the beginning of S.    *)
LEMMA BeginningOfOrder ==
  ASSUME NEW S \in SUBSET Nat, IsFiniteSet(S), NEW s \in Seq(S), Ascends(s),
         \A x \in S, y \in Range(s) : x < y => x \in Range(s)
  PROVE  IsPrefix(s, InOrder(S))
<1> DEFINE t == InOrder(S)
           c == Cardinality(S)
<1>1. /\ c \in Nat /\ t \in [1 .. c -> S]
      /\ \A k \in S : Rank(S, k) \in 1 .. c /\ t[Rank(S, k)] = k
  BY InOrderRanks
<1>2. DOMAIN s = 1 .. Len(s) /\ Len(s) \in Nat /\ \A i \in 1 .. Len(s) : s[i] \in S /\ s[i] \in Nat
  <2>1. DOMAIN s = 1 .. Len(s) /\ Len(s) \in Nat /\ \A i \in 1 .. Len(s) : s[i] \in S
    OBVIOUS
  <2> QED BY <2>1
<1>3. ASSUME NEW i \in 1 .. Len(s) PROVE Rank(S, s[i]) = i
  <2> DEFINE f == [j \in 1 .. i |-> s[j]]
             U == {j \in S : j <= s[i]}
  <2>1. \A j \in 1 .. i : s[j] \in U
    <3> SUFFICES ASSUME NEW j \in 1 .. i PROVE s[j] \in U
      OBVIOUS
    <3>1. j \in 1 .. Len(s) /\ (j = i \/ j < i)
      BY <1>2
    <3>2. s[j] <= s[i]
      BY <1>2, <3>1 DEF Ascends
    <3> QED BY <1>2, <3>1, <3>2
  <2>2. \A k \in U : \E j \in 1 .. i : s[j] = k
    <3> SUFFICES ASSUME NEW k \in U PROVE \E j \in 1 .. i : s[j] = k
      OBVIOUS
    <3>1. s[i] \in Range(s) /\ k \in Nat /\ k \in S /\ k <= s[i]
      BY <1>2 DEF Range
    <3>2. k \in Range(s)
      BY <1>2, <3>1
    <3>3. PICK j \in 1 .. Len(s) : s[j] = k
      BY <1>2, <3>2 DEF Range
    <3>4. ~(i < j)
      BY <1>2, <3>1, <3>3 DEF Ascends
    <3>5. j \in 1 .. i
      BY <1>2, <3>4
    <3> QED BY <3>3, <3>5
  <2>3. \A j, k \in 1 .. i : s[j] = s[k] => j = k
    <3> SUFFICES ASSUME NEW j \in 1 .. i, NEW k \in 1 .. i, j < k PROVE s[j] # s[k]
      BY <1>2
    <3>1. j \in DOMAIN s /\ k \in DOMAIN s /\ s[j] < s[k] /\ s[j] \in Nat /\ s[k] \in Nat
      BY <1>2 DEF Ascends
    <3> QED BY <3>1
  <2>4. f \in Bijection(1 .. i, U)
    <3> HIDE DEF U
    <3>1. f \in [1 .. i -> U]
      BY <2>1
    <3>2. f \in Injection(1 .. i, U)
      BY <2>3, <3>1 DEF Injection, IsInjective
    <3>3. f \in Surjection(1 .. i, U)
      BY <2>2, <3>1 DEF Surjection
    <3> QED BY <3>2, <3>3 DEF Bijection
  <2>5. IsFiniteSet(1 .. i) /\ Cardinality(1 .. i) = i
    BY FS_Interval
  <2>6. ExistsBijection(1 .. i, U)
    BY <2>4 DEF ExistsBijection
  <2>7. Cardinality(U) = i
    BY <2>5, <2>6, FS_Bijection
  <2> QED BY <2>7 DEF Rank
<1>4. \A i \in 1 .. Len(s) : i \in 1 .. c /\ t[i] = s[i]
  BY <1>1, <1>2, <1>3
<1>5. t \in Seq(S) /\ Len(t) = c /\ Len(s) <= c
  <2>1. t \in Seq(S) /\ Len(t) = c
    BY <1>1
  <2>2. Len(s) <= c
    <3>1. CASE Len(s) = 0
      BY <1>1, <3>1
    <3>2. CASE Len(s) # 0
      BY <1>1, <1>2, <1>4, <3>2
    <3> QED BY <3>1, <3>2
  <2> QED BY <2>1, <2>2
<1> HIDE DEF t, c
<1>6. SubSeq(s, 1, Len(s)) = SubSeq(t, 1, Len(s))
  <2>1. SubSeq(s, 1, Len(s)) = [i \in 1 .. Len(s) |-> s[i]]
    BY <1>2
  <2>2. SubSeq(t, 1, Len(s)) = [i \in 1 .. Len(s) |-> t[i]]
    BY <1>1, <1>2, <1>5
  <2> QED BY <1>4, <2>1, <2>2
<1> QED BY <1>5, <1>6 DEF IsPrefix, t

LEMMA Newest ==
  ASSUME NEW S \in SUBSET Nat, IsFiniteSet(S), S # {}
  PROVE  Max(S) \in S /\ \A y \in S : y <= Max(S)
<1> DEFINE t == InOrder(S)
           c == Cardinality(S)
<1>1. t \in Seq(S) /\ Len(t) = c /\ Range(t) = S /\ Ascends(t) /\ c \in Nat /\ c # 0
  BY InOrderSorts, FS_CardinalityType, FS_EmptySet
<1> HIDE DEF t, c
<1>2. t[c] \in S
  BY <1>1
<1>3. \A y \in S : t[c] >= y
  <2> SUFFICES ASSUME NEW y \in S PROVE t[c] >= y
    OBVIOUS
  <2>1. PICK n \in 1 .. c : t[n] = y
    BY <1>1 DEF Range
  <2>2. n = c \/ n < c
    BY <1>1
  <2>3. t[n] = t[c] \/ t[n] < t[c]
    BY <1>1, <2>2 DEF Ascends
  <2>4. t[n] \in Nat /\ t[c] \in Nat
    BY <1>2, <2>1
  <2> QED BY <2>1, <2>3, <2>4
<1>4. \E x \in S : \A y \in S : x >= y
  BY <1>2, <1>3
<1>5. Max(S) \in S /\ \A y \in S : Max(S) >= y
  BY <1>4 DEF Max
<1> QED BY <1>5
-----------------------------------------------------------------------------
(***************************************************************************)
(* What the steps do to the board: at most one message is added to the     *)
(* log, and one call changes.                                              *)
(***************************************************************************)
Posted ==
  /\ Len(log) < MaxLog
  /\ \E m \in Message : m.time = Len(log) + 1 /\ log' = Append(log, m)

Becomes(i, c) == call' = [call EXCEPT ![i] = c]

Answer(i, ok, got) == [state |-> "done", req |-> call[i].req, ok |-> ok, got |-> got]

(* A record of the fields of a call is known by them.                      *)
LEMMA CallFields ==
  ASSUME NEW c, DOMAIN c = {"state", "req", "ok", "got"},
         c = [f \in {"state", "req", "ok", "got"} |-> c[f]]
  PROVE  c = [state |-> c.state, req |-> c.req, ok |-> c.ok, got |-> c.got]
OBVIOUS

LEMMA Replied ==
  ASSUME TypeOK, NEW i \in Slots, NEW ok, NEW got, Board!Reply(i, ok, got)
  PROVE  Becomes(i, Answer(i, ok, got))
<1> DEFINE b == call[i]
           c == [b EXCEPT !.state = "done", !.ok = ok, !.got = got]
<1>1. /\ call \in [Slots -> CallType] /\ b \in CallType
  BY DEF TypeOK
<1>2. call' = [call EXCEPT ![i] = c]
  BY <1>1 DEF Board!Reply
<1>3. c = Answer(i, ok, got)
  <2>1. DOMAIN b = {"state", "req", "ok", "got"}
    BY <1>1 DEF CallType
  <2>2. /\ c.state = "done" /\ c.req = call[i].req /\ c.ok = ok /\ c.got = got
        /\ DOMAIN c = {"state", "req", "ok", "got"}
        /\ c = [f \in {"state", "req", "ok", "got"} |-> c[f]]
    BY <2>1
  <2> HIDE DEF c
  <2>3. c = [state |-> c.state, req |-> c.req, ok |-> c.ok, got |-> c.got]
    BY <2>2, CallFields
  <2> QED BY <2>2, <2>3 DEF Answer
<1> QED BY <1>2, <1>3 DEF Becomes

LEMMA Asking ==
  ASSUME NEW i \in Slots, NEW r, Board!Ask(i, r)
  PROVE  /\ call[i].state # "asked" /\ UNCHANGED log
         /\ Becomes(i, [state |-> "asked", req |-> r, ok |-> FALSE, got |-> {}])
<1> DEFINE c == [Board!NoCall EXCEPT !.state = "asked", !.req = r]
<1>1. /\ c.state = "asked" /\ c.req = r /\ c.ok = FALSE /\ c.got = {}
      /\ DOMAIN c = {"state", "req", "ok", "got"}
      /\ c = [f \in {"state", "req", "ok", "got"} |-> c[f]]
  BY DEF Board!NoCall
<1>2. call[i].state # "asked" /\ call' = [call EXCEPT ![i] = c] /\ UNCHANGED log
  BY DEF Board!Ask
<1> HIDE DEF c
<1>3. c = [state |-> c.state, req |-> c.req, ok |-> c.ok, got |-> c.got]
  BY <1>1, CallFields
<1> QED BY <1>1, <1>2, <1>3 DEF Becomes

LEMMA Losing ==
  ASSUME TypeOK, NEW i \in Slots, Board!Release(i) \/ Board!Lose({i})
  PROVE  Becomes(i, Board!NoCall) /\ UNCHANGED log
<1>1. call \in [Slots -> CallType]
  BY DEF TypeOK
<1> QED BY <1>1 DEF Board!Release, Board!Lose, Becomes

Wanted(i) == {k \in DOMAIN log : log[k].room = call[i].req.room /\ k > call[i].req.since}

Beginning(i, got) ==
  /\ got \subseteq Wanted(i)
  /\ \A k \in got, j \in Wanted(i) : j < k => j \in got

LEMMA NewerIsWanted ==
  ASSUME LogInv, NEW i \in Slots
  PROVE  Board!Newer(call[i].req.room, call[i].req.since) = Wanted(i)
BY DEF LogInv, Board!Newer, Wanted

(* The service answers a call that is under way: with messages only if     *)
(* that is what was asked for, and then the first of them, or all.         *)
LEMMA Serving ==
  ASSUME TypeOK, CallInv, LogInv, NEW i \in Slots, Service(i)
  PROVE  /\ call[i].state = "asked"
         /\ UNCHANGED log \/ Posted
         /\ \E ok \in BOOLEAN, got \in SUBSET DOMAIN log :
              /\ Becomes(i, Answer(i, ok, got))
              /\ \/ got = {}
                 \/ UNCHANGED log /\ call[i].req.op = "messages" /\ Beginning(i, got)
<1>1. ASSUME NEW ok \in BOOLEAN, Board!Reply(i, ok, {}), UNCHANGED log \/ Posted, call[i].state = "asked"
      PROVE  /\ call[i].state = "asked"
             /\ UNCHANGED log \/ Posted
             /\ \E o \in BOOLEAN, got \in SUBSET DOMAIN log :
                  /\ Becomes(i, Answer(i, o, got))
                  /\ \/ got = {}
                     \/ UNCHANGED log /\ call[i].req.op = "messages" /\ Beginning(i, got)
  <2>1. Becomes(i, Answer(i, ok, {}))
    BY <1>1, Replied
  <2> QED BY <1>1, <2>1
<1>2. CASE ServiceStores(i)
  <2>1. /\ Len(log) < MaxLog /\ call[i].state = "asked" /\ call[i].req.op = "send_message"
        /\ log' = Append(log, [room |-> call[i].req.room, user |-> call[i].req.user, time |-> Len(log) + 1])
        /\ Board!Reply(i, TRUE, {})
    BY <1>2 DEF ServiceStores, Board!Store, Board!Asked
  <2>2. call[i].req \in [op : {"send_message"}, user : {User}, room : Rooms]
    <3>1. why[i] # "nothing" /\ why[i] \in {"nothing", "join", "load", "poll", "send"}
      BY <2>1 DEF CallInv, TypeOK
    <3>2. why[i] = "send"
      BY <2>1, <3>1 DEF CallInv, Fit
    <3> QED BY <3>2 DEF CallInv, Fit
  <2>3. Posted
    <3>1. Len(log) + 1 \in Positions
      BY <2>1 DEF TypeOK, Positions
    <3> QED BY <2>1, <2>2, <3>1 DEF Posted, Message
  <2> QED BY <1>1, <2>1, <2>3
<1>3. CASE Board!Join(i) \/ Board!Refuse(i)
  <2>1. PICK ok \in BOOLEAN : Board!Reply(i, ok, {})
    BY <1>3 DEF Board!Join, Board!Refuse
  <2>2. UNCHANGED log /\ call[i].state = "asked"
    BY <1>3 DEF Board!Join, Board!Refuse, Board!Asked
  <2> QED BY <1>1, <2>1, <2>2
<1>4. CASE Board!Fetch(i) \/ Board!FetchFails(i)
  <2>1. PICK got \in SUBSET Wanted(i) :
          /\ \A n \in got, k \in Wanted(i) : Board!Before(k, n) => k \in got
          /\ Board!Reply(i, TRUE, got)
    <3>1. CASE Board!Fetch(i)
      <4>1. Board!Reply(i, TRUE, Wanted(i))
        BY <3>1, NewerIsWanted DEF Board!Fetch
      <4> QED BY <4>1
    <3>2. CASE Board!FetchFails(i)
      BY <3>2, NewerIsWanted DEF Board!FetchFails
    <3> QED BY <1>4, <3>1, <3>2
  <2>2. /\ call[i].state = "asked" /\ call[i].req.op = "messages" /\ UNCHANGED log
    BY <1>4 DEF Board!Fetch, Board!FetchFails, Board!Asked
  <2>3. Wanted(i) \in SUBSET DOMAIN log
    BY DEF Wanted
  <2>4. \A k, n \in DOMAIN log : k < n => Board!Before(k, n)
    BY DEF Board!Before, LogInv
  <2>5. Beginning(i, got)
    BY <2>1, <2>3, <2>4 DEF Beginning
  <2>6. Becomes(i, Answer(i, TRUE, got)) /\ got \in SUBSET DOMAIN log
    BY <2>1, <2>3, Replied
  <2> QED BY <2>2, <2>5, <2>6
<1> QED BY <1>2, <1>3, <1>4 DEF Service, ServiceFails

(* The log only grows, at its end, so that what was known of it stays true *)
(* (the messages of a room that are older than one of them are the same).  *)
LEMMA LogGrows ==
  ASSUME TypeOK, LogInv, UNCHANGED log \/ Posted
  PROVE  /\ log' \in Seq(Message) /\ Len(log') <= MaxLog /\ LogInv'
         /\ DOMAIN log = 1 .. Len(log) /\ DOMAIN log \subseteq DOMAIN log'
         /\ \A k \in DOMAIN log : log'[k] = log[k]
         /\ \A k \in DOMAIN log, j \in DOMAIN log' : j < k => j \in DOMAIN log
<1>1. log \in Seq(Message) /\ Len(log) <= MaxLog /\ Len(log) \in Nat /\ DOMAIN log = 1 .. Len(log)
  BY DEF TypeOK
<1>2. CASE UNCHANGED log
  BY <1>1, <1>2 DEF LogInv
<1>3. CASE Posted
  <2>1. PICK m \in Message : m.time = Len(log) + 1 /\ log' = Append(log, m)
    BY <1>3 DEF Posted
  <2>2. /\ log' \in Seq(Message) /\ DOMAIN log' = 1 .. Len(log) + 1 /\ Len(log') = Len(log) + 1
        /\ \A k \in DOMAIN log : log'[k] = log[k]
        /\ log'[Len(log) + 1] = m
    <3>1. \A s \in Seq(Message) :
            /\ Append(s, m) \in Seq(Message) /\ DOMAIN Append(s, m) = 1 .. Len(s) + 1
            /\ Len(Append(s, m)) = Len(s) + 1
            /\ \A k \in DOMAIN s : Append(s, m)[k] = s[k]
            /\ Append(s, m)[Len(s) + 1] = m
      OBVIOUS
    <3> QED BY <1>1, <2>1, <3>1
  <2>3. Len(log') <= MaxLog
    <3>1. Len(log) < MaxLog /\ MaxLog \in Nat
      BY <1>3 DEF Posted
    <3> QED BY <1>1, <2>2, <3>1
  <2>4. LogInv'
    <3>1. \A k \in DOMAIN log' : k \in DOMAIN log \/ k = Len(log) + 1
      BY <1>1, <2>2
    <3> QED BY <2>1, <2>2, <3>1 DEF LogInv
  <2> QED BY <1>1, <2>2, <2>3, <2>4
<1> QED BY <1>2, <1>3
-----------------------------------------------------------------------------
(***************************************************************************)
(* A step makes a call, ends one, or has one served.                       *)
(***************************************************************************)
Reasons == {"join", "load", "poll", "send"}

CallMade(i, reason, r) ==
  /\ Becomes(i, [state |-> "asked", req |-> r, ok |-> FALSE, got |-> {}])
  /\ why' = [why EXCEPT ![i] = reason]
  /\ UNCHANGED log

CallEnded(i) ==
  /\ Becomes(i, Board!NoCall)
  /\ why' = [why EXCEPT ![i] = "nothing"]
  /\ UNCHANGED log

CallsKept == call' \in [Slots -> CallType'] /\ why' \in [Slots -> Reasons \cup {"nothing"}]
             /\ CallInv' /\ AnswerInv'

(* What is known of the calls is still known of those that do not change.  *)
LEMMA OneCall ==
  ASSUME TypeOK, CallInv, LogInv, AnswerInv, UNCHANGED log \/ Posted,
         room' = room \/ room' \in Rooms,
         NEW i \in Slots, NEW c, NEW w,
         Becomes(i, c), why' = [why EXCEPT ![i] = w],
         c \in CallType', w \in Reasons \cup {"nothing"},
         w = "nothing" <=> c.state = "free",
         Fit(w, c.req),
         w = "send" => room' # None,
         \A k \in c.got :
            /\ log'[k].room = c.req.room /\ c.req.since < k
            /\ \A j \in DOMAIN log' :
                 log'[j].room = c.req.room /\ c.req.since < j /\ j < k => j \in c.got
  PROVE  CallsKept
<1>1. /\ call \in [Slots -> CallType] /\ why \in [Slots -> Reasons \cup {"nothing"}]
  BY DEF TypeOK, Reasons
<1>2. /\ call' \in [Slots -> CallType \cup {c}] /\ call'[i] = c
      /\ \A j \in Slots \ {i} : call'[j] = call[j]
      /\ why' \in [Slots -> Reasons \cup {"nothing"}] /\ why'[i] = w
      /\ \A j \in Slots \ {i} : why'[j] = why[j]
  BY <1>1 DEF Becomes
<1>3. /\ DOMAIN log \subseteq DOMAIN log'
      /\ \A k \in DOMAIN log : log'[k] = log[k]
      /\ \A k \in DOMAIN log, j \in DOMAIN log' : j < k => j \in DOMAIN log
  BY LogGrows
<1>4. CallType \subseteq CallType'
  BY <1>3 DEF CallType, Board!Requests
<1>5. call' \in [Slots -> CallType']
  BY <1>2, <1>4
<1>6. CallInv'
  <2> SUFFICES ASSUME NEW j \in Slots
               PROVE  /\ why'[j] = "nothing" <=> call'[j].state = "free"
                      /\ Fit(why'[j], call'[j].req)
                      /\ why'[j] = "send" => room' # None
    BY DEF CallInv, Fit
  <2>1. CASE j = i
    BY <1>2, <2>1
  <2>2. CASE j # i
    BY <1>2, <2>2 DEF CallInv
  <2> QED BY <2>1, <2>2
<1>7. AnswerInv'
  <2> SUFFICES ASSUME NEW s \in Slots, NEW k \in call'[s].got
               PROVE  /\ log'[k].room = call'[s].req.room /\ call'[s].req.since < k
                      /\ \A j \in DOMAIN log' :
                           log'[j].room = call'[s].req.room /\ call'[s].req.since < j /\ j < k
                             => j \in call'[s].got
    BY DEF AnswerInv
  <2>1. CASE s = i
    BY <1>2, <2>1
  <2>2. CASE s # i
    <3>1. call'[s] = call[s] /\ k \in call[s].got
      BY <1>2, <2>2
    <3>2. k \in DOMAIN log
      <4>1. call[s] \in CallType
        BY <1>1
      <4> QED BY <3>1, <4>1 DEF CallType
    <3> QED BY <1>3, <3>1, <3>2 DEF AnswerInv
  <2> QED BY <2>1, <2>2
<1> QED BY <1>2, <1>5, <1>6, <1>7 DEF CallsKept

LEMMA NoCallChanges ==
  ASSUME TypeOK, CallInv, LogInv, AnswerInv, UNCHANGED log \/ Posted,
         UNCHANGED <<call, why>>, room' = room
  PROVE  CallsKept
<1>1. /\ DOMAIN log \subseteq DOMAIN log'
      /\ \A k \in DOMAIN log : log'[k] = log[k]
      /\ \A k \in DOMAIN log, j \in DOMAIN log' : j < k => j \in DOMAIN log
  BY LogGrows
<1>2. CallType \subseteq CallType'
  BY <1>1 DEF CallType, Board!Requests
<1>3. call \in [Slots -> CallType] /\ why \in [Slots -> Reasons \cup {"nothing"}]
  BY DEF TypeOK, Reasons
<1>4. CallInv'
  BY DEF CallInv, Fit
<1>5. AnswerInv'
  <2> SUFFICES ASSUME NEW s \in Slots, NEW k \in call[s].got
               PROVE  /\ log'[k].room = call[s].req.room /\ call[s].req.since < k
                      /\ \A j \in DOMAIN log' :
                           log'[j].room = call[s].req.room /\ call[s].req.since < j /\ j < k
                             => j \in call[s].got
    BY DEF AnswerInv
  <2>1. k \in DOMAIN log
    <3>1. call[s] \in CallType
      BY <1>3
    <3> QED BY <3>1 DEF CallType
  <2> QED BY <1>1, <2>1 DEF AnswerInv
<1> QED BY <1>2, <1>3, <1>4, <1>5 DEF CallsKept

LEMMA CallMadeKeeps ==
  ASSUME TypeOK, CallInv, LogInv, AnswerInv, room' = room \/ room' \in Rooms,
         NEW i \in Slots, NEW reason \in Reasons, NEW r,
         CallMade(i, reason, r), Fit(reason, r), reason = "send" => room' # None
  PROVE  CallsKept
<1> DEFINE c == [state |-> "asked", req |-> r, ok |-> FALSE, got |-> {}]
<1>1. r \in Board!Requests
  <2>1. 0 \in 0 .. MaxLog
    OBVIOUS
  <2> QED BY <2>1 DEF Fit, Board!Requests, Reasons
<1>2. c \in CallType'
  BY <1>1 DEF CallType, Board!Requests
<1>3. c.state = "asked" /\ c.req = r /\ c.got = {}
  OBVIOUS
<1>4. Becomes(i, c) /\ why' = [why EXCEPT ![i] = reason] /\ UNCHANGED log
  BY DEF CallMade
<1>5. reason # "nothing"
  BY DEF Reasons
<1> HIDE DEF c
<1> QED BY <1>2, <1>3, <1>4, <1>5, OneCall

LEMMA CallEndedKeeps ==
  ASSUME TypeOK, CallInv, LogInv, AnswerInv, room' = room, NEW i \in Slots, CallEnded(i)
  PROVE  CallsKept
<1> DEFINE c == Board!NoCall
<1>2. c \in CallType'
  BY DEF CallType, Board!NoCall, Board!Requests
<1>3. c.state = "free" /\ c.got = {}
  BY DEF Board!NoCall
<1>4. Becomes(i, c) /\ why' = [why EXCEPT ![i] = "nothing"] /\ UNCHANGED log
  BY DEF CallEnded
<1>5. Fit("nothing", c.req)
  BY DEF Fit
<1> HIDE DEF c
<1> QED BY <1>2, <1>3, <1>4, <1>5, OneCall

LEMMA ServiceKeeps ==
  ASSUME TypeOK, CallInv, LogInv, AnswerInv, NEW i \in Slots, Service(i)
  PROVE  CallsKept /\ (UNCHANGED log \/ Posted)
<1>1. /\ call[i].state = "asked"
      /\ UNCHANGED log \/ Posted
  BY Serving
<1>2. PICK ok \in BOOLEAN, got \in SUBSET DOMAIN log :
              /\ Becomes(i, Answer(i, ok, got))
              /\ \/ got = {}
                 \/ UNCHANGED log /\ call[i].req.op = "messages" /\ Beginning(i, got)
  BY Serving
<1> DEFINE c == Answer(i, ok, got)
<1>3. c.state = "done" /\ c.req = call[i].req /\ c.got = got
  BY DEF Answer
<1>4. c \in CallType'
  <2>1. call[i] \in CallType /\ DOMAIN log \subseteq DOMAIN log'
    BY LogGrows, <1>1 DEF TypeOK
  <2>2. call[i].req \in Board!Requests \cup {None}
    BY <2>1 DEF CallType
  <2> QED BY <2>1, <2>2 DEF CallType, Answer, Board!Requests
<1>5. /\ why[i] \in Reasons \cup {"nothing"} /\ why' = [why EXCEPT ![i] = why[i]] /\ why[i] # "nothing"
      /\ room' = room
  BY <1>1 DEF Service, pageVars, TypeOK, Reasons, CallInv
<1>6. Fit(why[i], c.req) /\ (why[i] = "send" => room' # None)
  BY <1>3, <1>5 DEF CallInv
<1> HIDE DEF c
<1>7. \A k \in c.got :
            /\ log'[k].room = c.req.room /\ c.req.since < k
            /\ \A j \in DOMAIN log' :
                 log'[j].room = c.req.room /\ c.req.since < j /\ j < k => j \in c.got
  <2>1. CASE got = {}
    BY <1>3, <2>1
  <2>2. CASE got # {}
    <3>1. \A k \in got : k \in Nat
      BY DEF TypeOK
    <3>2. why[i] = "load" \/ why[i] = "poll"
      BY <1>2, <1>5, <2>2 DEF CallInv, Fit, Reasons
    <3>3. call[i].req.since \in Nat
      BY <3>2 DEF CallInv, Fit
    <3> QED BY <1>2, <1>3, <2>2, <3>1, <3>3 DEF Beginning, Wanted
  <2> QED BY <2>1, <2>2
<1>8. Becomes(i, c)
  BY <1>2 DEF c
<1> QED BY <1>1, <1>3, <1>4, <1>5, <1>6, <1>7, <1>8, OneCall
-----------------------------------------------------------------------------
(***************************************************************************)
(* Every step keeps what is known of the page.                             *)
(***************************************************************************)
PageType ==
  /\ room \in Rooms \cup {None} /\ since \in 0 .. MaxLog
  /\ all \in Seq(DOMAIN log) /\ shown \in Seq(DOMAIN log)
  /\ broken \in BOOLEAN /\ loaded \in BOOLEAN /\ stale \in BOOLEAN

LEMMA Positioned ==
  ASSUME TypeOK, LogInv, NEW S \in SUBSET DOMAIN log
  PROVE  /\ S \in SUBSET Nat /\ IsFiniteSet(S)
         /\ InOrder(S) \in Seq(DOMAIN log)
         /\ Latest(S) \in 0 .. MaxLog
         /\ \A k \in S : k <= Latest(S)
         /\ Latest(S) # 0 => Latest(S) \in S
<1>1. DOMAIN log = 1 .. Len(log) /\ Len(log) \in Nat /\ Len(log) <= MaxLog /\ MaxLog \in Nat
  BY DEF TypeOK
<1>2. S \in SUBSET Nat /\ IsFiniteSet(S)
  <2>1. IsFiniteSet(1 .. Len(log)) /\ S \in SUBSET (1 .. Len(log))
    BY <1>1, FS_Interval
  <2>2. IsFiniteSet(S)
    BY <2>1, FS_Subset
  <2> QED BY <2>1, <2>2
<1>3. InOrder(S) \in Seq(DOMAIN log)
  <2>1. InOrder(S) \in Seq(S)
    BY <1>2, InOrderSorts
  <2> QED BY <2>1
<1>4. CASE S = {}
  BY <1>1, <1>2, <1>3, <1>4 DEF Latest
<1>5. CASE S # {}
  <2>1. Max(S) \in S /\ \A y \in S : y <= Max(S)
    BY <1>2, <1>5, Newest
  <2>2. Latest(S) = Max(S)
    BY <1>5, <2>1 DEF Latest, LogInv
  <2> QED BY <1>1, <1>2, <1>3, <2>1, <2>2
<1> QED BY <1>4, <1>5

LEMMA PageStands ==
  ASSUME TypeOK, LogInv, ListInv, UNCHANGED log \/ Posted, UNCHANGED pageVars
  PROVE  PageType' /\ ListInv'
<1>1. /\ DOMAIN log \subseteq DOMAIN log'
      /\ \A k \in DOMAIN log : log'[k] = log[k]
      /\ \A k \in DOMAIN log, j \in DOMAIN log' : j < k => j \in DOMAIN log
  BY LogGrows
<1>2. all \in Seq(DOMAIN log) /\ Range(all) \subseteq DOMAIN log
  BY DEF TypeOK, Range
<1>3. PageType'
  BY <1>1 DEF PageType, TypeOK, pageVars
<1>4. ListInv'
  <2>1. room' = room /\ all' = all /\ shown' = shown /\ loaded' = loaded /\ stale' = stale
    BY DEF pageVars
  <2>2. ASSUME ~stale, loaded, NEW k \in Range(all)
        PROVE  /\ log'[k].room = room
               /\ \A j \in DOMAIN log' : log'[j].room = room /\ j < k => j \in Range(all)
    BY <1>1, <1>2, <2>2 DEF ListInv
  <2> QED BY <2>1, <2>2 DEF ListInv, Ascends
<1> QED BY <1>3, <1>4

LEMMA JoinAnsweredKeeps ==
  ASSUME TypeOK, CallInv, LogInv, AnswerInv, ListInv, NEW i \in Slots, JoinAnswered(i)
  PROVE  CallsKept /\ UNCHANGED log /\ PageType' /\ ListInv'
<1>1. /\ why[i] = "join" /\ room' = call[i].req.room /\ shown' = <<>>
      /\ loaded' = FALSE /\ stale' = FALSE /\ all' = all /\ since' = since /\ broken' = broken
      /\ GoesOnToLoad(i, room')
  BY DEF JoinAnswered, Answered
<1>2. room' \in Rooms
  BY <1>1 DEF CallInv, Fit
<1>3. PICK r : r = [op |-> "messages", room |-> call[i].req.room, since |-> 0]
  OBVIOUS
<1>4. Board!Ask(i, r) /\ why' = [why EXCEPT ![i] = "load"]
  BY <1>1, <1>3 DEF GoesOnToLoad
<1>5. CallMade(i, "load", r)
  BY <1>4, Asking DEF CallMade
<1>6. Fit("load", r)
  BY <1>1, <1>2, <1>3 DEF Fit
<1>7. CallsKept
  BY <1>2, <1>5, <1>6, CallMadeKeeps DEF Reasons
<1>8. UNCHANGED log
  BY <1>5 DEF CallMade
<1>9. PageType'
  <2>1. all' \in Seq(DOMAIN log') /\ shown' \in Seq(DOMAIN log') /\ since' \in 0 .. MaxLog
    BY <1>1, <1>8 DEF TypeOK
  <2>2. /\ loaded' \in BOOLEAN /\ stale' \in BOOLEAN /\ broken' \in BOOLEAN
        /\ room' \in Rooms \cup {None}
    BY <1>1, <1>2 DEF TypeOK
  <2> QED BY <2>1, <2>2 DEF PageType
<1>10. ListInv'
  BY <1>1 DEF ListInv
<1> QED BY <1>7, <1>8, <1>9, <1>10

LEMMA LoadAnsweredKeeps ==
  ASSUME TypeOK, CallInv, LogInv, AnswerInv, ListInv, NEW i \in Slots, LoadAnswered(i)
  PROVE  CallsKept /\ UNCHANGED log /\ PageType' /\ ListInv'
<1> DEFINE G == call[i].got
<1>1. /\ why[i] = "load" /\ room' = room /\ broken' = FALSE
      /\ all' = InOrder(G) /\ since' = Latest(G) /\ shown' = all'
      /\ loaded' = (call[i].req.room = room) /\ stale' = ~loaded'
      /\ Board!Release(i) /\ why' = [why EXCEPT ![i] = "nothing"]
  BY DEF LoadAnswered, Answered, Ends
<1>2. CallEnded(i)
  BY <1>1, Losing DEF CallEnded
<1>3. CallsKept /\ UNCHANGED log
  BY <1>1, <1>2, CallEndedKeeps DEF CallEnded
<1>4. G \in SUBSET DOMAIN log
  <2>1. call[i] \in CallType
    BY DEF TypeOK
  <2> QED BY <2>1 DEF CallType
<1>5. /\ G \in SUBSET Nat /\ IsFiniteSet(G)
      /\ InOrder(G) \in Seq(DOMAIN log) /\ Latest(G) \in 0 .. MaxLog
  BY <1>4, Positioned
<1>6. Range(InOrder(G)) = G /\ Ascends(InOrder(G)) /\ IsInjective(InOrder(G))
  BY <1>5, InOrderSorts
<1>7. PageType'
  BY <1>1, <1>3, <1>5 DEF PageType, TypeOK
<1>8. ListInv'
  <2>1. IsInjective(all') /\ shown' = all' /\ Ascends(all') /\ Range(all') = G
    BY <1>1, <1>6 DEF Ascends
  <2>2. ASSUME loaded', NEW k \in G
        PROVE  /\ log'[k].room = room'
               /\ \A j \in DOMAIN log' : log'[j].room = room' /\ j < k => j \in G
    <3>1. call[i].req.room = room /\ call[i].req.since = 0
      BY <1>1, <2>2 DEF CallInv, Fit
    <3>2. /\ log[k].room = room
          /\ \A j \in DOMAIN log : log[j].room = room /\ 0 < j /\ j < k => j \in G
      BY <3>1 DEF AnswerInv
    <3>3. \A j \in DOMAIN log : 0 < j
      BY DEF TypeOK
    <3> QED BY <1>1, <1>3, <3>2, <3>3
  <2>3. stale' = ~loaded'
    BY <1>1
  <2> HIDE DEF G
  <2> QED BY <2>1, <2>2, <2>3 DEF ListInv, Ascends
<1> QED BY <1>3, <1>7, <1>8

(* The list is replaced by nothing that is a list.                         *)
LEMMA LoadRefusedKeeps ==
  ASSUME TypeOK, CallInv, LogInv, AnswerInv, NEW i \in Slots, LoadRefused(i)
  PROVE  CallsKept /\ UNCHANGED log /\ PageType' /\ ListInv'
<1>1. /\ room' = room /\ all' = <<>> /\ shown' = <<>> /\ since' = 0
      /\ broken' = TRUE /\ loaded' = FALSE /\ stale' = FALSE
      /\ Board!Release(i) /\ why' = [why EXCEPT ![i] = "nothing"]
  BY DEF LoadRefused, Ends
<1>2. CallEnded(i)
  BY <1>1, Losing DEF CallEnded
<1>3. CallsKept /\ UNCHANGED log
  BY <1>1, <1>2, CallEndedKeeps DEF CallEnded
<1>4. PageType'
  <2>1. all' \in Seq(DOMAIN log') /\ shown' \in Seq(DOMAIN log') /\ since' \in 0 .. MaxLog
    BY <1>1
  <2>2. room' \in Rooms \cup {None}
    BY <1>1 DEF TypeOK
  <2> QED BY <1>1, <2>1, <2>2 DEF PageType
<1>5. ListInv'
  BY <1>1 DEF ListInv, IsInjective
<1> QED BY <1>3, <1>4, <1>5

LEMMA PollThrowsKeeps ==
  ASSUME TypeOK, CallInv, LogInv, AnswerInv, ListInv, NEW i \in Slots, PollThrows(i)
  PROVE  CallsKept /\ UNCHANGED log /\ PageType' /\ ListInv'
<1> DEFINE G == call[i].got
<1>1. /\ UNCHANGED <<room, all, broken, shown, loaded, stale>> /\ since' = Latest(G)
      /\ Board!Release(i) /\ why' = [why EXCEPT ![i] = "nothing"]
  BY DEF PollThrows, Ends
<1>2. CallEnded(i)
  BY <1>1, Losing DEF CallEnded
<1>3. CallsKept /\ UNCHANGED log
  BY <1>1, <1>2, CallEndedKeeps DEF CallEnded
<1>4. G \in SUBSET DOMAIN log
  <2>1. call[i] \in CallType
    BY DEF TypeOK
  <2> QED BY <2>1 DEF CallType
<1>5. Latest(G) \in 0 .. MaxLog
  BY <1>4, Positioned
<1>6. PageType'
  BY <1>1, <1>3, <1>5 DEF PageType, TypeOK
<1>7. ListInv'
  BY <1>1, <1>3 DEF ListInv, Ascends
<1> QED BY <1>3, <1>6, <1>7

LEMMA PollAnsweredKeeps ==
  ASSUME TypeOK, CallInv, LogInv, AnswerInv, ListInv, NEW i \in Slots, PollAnswered(i)
  PROVE  CallsKept /\ UNCHANGED log /\ PageType' /\ ListInv'
<1> DEFINE G == call[i].got
           N == G \ Range(all)
<1>1. /\ why[i] = "poll" /\ room' = room /\ loaded' = loaded /\ broken' = broken
      /\ all' = all \o InOrder(N) /\ since' = Latest(G) /\ shown' = all'
      /\ stale' = (stale \/ ~Follows(i))
      /\ Board!Release(i) /\ why' = [why EXCEPT ![i] = "nothing"]
  BY DEF PollAnswered, Answered, Ends
<1>2. CallEnded(i)
  BY <1>1, Losing DEF CallEnded
<1>3. CallsKept /\ UNCHANGED log
  BY <1>1, <1>2, CallEndedKeeps DEF CallEnded
<1>4. G \in SUBSET DOMAIN log /\ N \in SUBSET DOMAIN log
  <2>1. call[i] \in CallType
    BY DEF TypeOK
  <2> QED BY <2>1 DEF CallType
<1>5. /\ N \in SUBSET Nat /\ IsFiniteSet(N) /\ InOrder(N) \in Seq(DOMAIN log)
      /\ Latest(G) \in 0 .. MaxLog
  BY <1>4, Positioned
<1>6. Range(InOrder(N)) = N /\ Ascends(InOrder(N)) /\ IsInjective(InOrder(N))
  BY <1>5, InOrderSorts
<1>7. all \in Seq(DOMAIN log) /\ DOMAIN log \in SUBSET Nat /\ Range(all) \in SUBSET DOMAIN log
  BY DEF TypeOK, Range
<1>8. all \o InOrder(N) \in Seq(DOMAIN log)
  BY <1>5, <1>7
<1>9. PageType'
  BY <1>1, <1>3, <1>5, <1>8 DEF PageType, TypeOK
<1>10. Range(all') = Range(all) \cup G /\ IsInjective(all')
  <2>1. Range(all \o InOrder(N)) = Range(all) \cup Range(InOrder(N))
    BY <1>5, <1>7, JoinedRange
  <2>2. IsInjective(all) /\ IsInjective(InOrder(N)) /\ Range(all) \cap Range(InOrder(N)) = {}
          => IsInjective(all \o InOrder(N))
    BY <1>5, <1>7, JoinedRange
  <2> QED BY <1>1, <1>6, <2>1, <2>2 DEF ListInv
<1> HIDE DEF G, N
<1>11. ASSUME ~stale', loaded'
       PROVE  /\ Ascends(all')
              /\ \A k \in Range(all') :
                   /\ log'[k].room = room'
                   /\ \A j \in DOMAIN log' : log'[j].room = room' /\ j < k => j \in Range(all')
  <2>1. ~stale /\ loaded /\ call[i].req.room = room /\ call[i].req.since <= Latest(Range(all))
    BY <1>1, <1>11 DEF Follows
  <2>2. /\ Ascends(all)
        /\ \A k \in Range(all) :
             /\ log[k].room = room
             /\ \A j \in DOMAIN log : log[j].room = room /\ j < k => j \in Range(all)
    BY <2>1 DEF ListInv
  <2>3. \A k \in G : /\ log[k].room = room
                     /\ \A j \in DOMAIN log :
                          log[j].room = room /\ call[i].req.since < j /\ j < k => j \in G
    BY <2>1 DEF AnswerInv, G
  <2>4. \A k \in Range(all) : k <= Latest(Range(all))
    BY <1>7, Positioned
  <2>5. Latest(Range(all)) \in Nat /\ (Latest(Range(all)) # 0 => Latest(Range(all)) \in Range(all))
    BY <1>7, Positioned
  <2>6. call[i].req.since \in Nat
    BY <1>1 DEF CallInv, Fit
  <2>7. \A x \in Range(all), y \in N : x < y
    <3> SUFFICES ASSUME NEW x \in Range(all), NEW y \in N PROVE x < y
      OBVIOUS
    <3>1. y \in DOMAIN log /\ log[y].room = room /\ y \notin Range(all)
      BY <1>4, <2>3 DEF N
    <3>2. x \in Nat /\ y \in Nat /\ ~(y < x) /\ x # y
      BY <1>7, <2>2, <3>1
    <3> QED BY <3>2
  <2>8. Ascends(all')
    <3>1. \A m, n \in DOMAIN (all \o InOrder(N)) : m < n => (all \o InOrder(N))[m] < (all \o InOrder(N))[n]
      <4>1. /\ \A m, n \in DOMAIN all : m < n => all[m] < all[n]
            /\ \A m, n \in DOMAIN InOrder(N) : m < n => InOrder(N)[m] < InOrder(N)[n]
        BY <1>6, <2>2 DEF Ascends
      <4> QED BY <1>5, <1>6, <1>7, <2>7, <4>1, JoinedAscends
    <3> QED BY <1>1, <3>1 DEF Ascends, N, G
  <2>9. ASSUME NEW k \in Range(all) \cup G
        PROVE  /\ log[k].room = room
               /\ \A j \in DOMAIN log : log[j].room = room /\ j < k => j \in Range(all) \cup G
    <3>1. log[k].room = room
      BY <2>2, <2>3, <2>9
    <3>2. ASSUME NEW j \in DOMAIN log, log[j].room = room, j < k
          PROVE  j \in Range(all) \cup G
      <4>1. CASE k \in Range(all)
        BY <2>2, <3>2, <4>1
      <4>2. CASE k \in G /\ call[i].req.since < j
        BY <2>3, <3>2, <4>2
      <4>3. CASE ~(call[i].req.since < j)
        <5>1. j \in Nat \ {0}
          BY DEF TypeOK
        <5>2. j <= Latest(Range(all)) /\ Latest(Range(all)) # 0
          BY <2>1, <2>5, <2>6, <4>3, <5>1
        <5>3. j = Latest(Range(all)) \/ j < Latest(Range(all))
          BY <2>5, <5>1, <5>2
        <5> QED BY <2>2, <2>5, <3>2, <5>2, <5>3
      <4> QED BY <2>9, <4>1, <4>2, <4>3
    <3> QED BY <3>1, <3>2
  <2> QED BY <1>1, <1>3, <1>10, <2>8, <2>9
<1>12. ListInv'
  <2>1. shown' = all' /\ (stale' \/ loaded')
    BY <1>1 DEF Follows
  <2> QED BY <1>10, <1>11, <2>1 DEF ListInv, Ascends
<1> QED BY <1>3, <1>9, <1>12

LEMMA CallsStart ==
  ASSUME TypeOK, CallInv, LogInv, AnswerInv, NEW i \in Slots,
         SendMessage(i) \/ PollMessages(i) \/ \E r \in Rooms : JoinRoom(i, r)
  PROVE  CallsKept /\ UNCHANGED log /\ UNCHANGED pageVars
<1> DEFINE Call(reason, r) ==
             /\ Makes(i, reason, r) /\ UNCHANGED pageVars
             /\ Fit(reason, r) /\ (reason = "send" => room # None)
<1>1. \E reason \in Reasons : \E r : Call(reason, r)
  <2>1. ASSUME SendMessage(i)
        PROVE  \E reason \in Reasons : \E r : Call(reason, r)
    <3>1. PICK r : r = [op |-> "send_message", user |-> User, room |-> room]
      OBVIOUS
    <3>2. Makes(i, "send", r) /\ room # None /\ UNCHANGED pageVars
      BY <2>1, <3>1 DEF SendMessage
    <3>3. room \in Rooms
      BY <3>2 DEF TypeOK
    <3>4. Fit("send", r)
      BY <3>1, <3>3 DEF Fit
    <3> QED BY <3>2, <3>4 DEF Reasons
  <2>2. ASSUME PollMessages(i)
        PROVE  \E reason \in Reasons : \E r : Call(reason, r)
    <3>1. PICK r : r = [op |-> "messages", room |-> room, since |-> since]
      OBVIOUS
    <3>2. Makes(i, "poll", r) /\ room # None /\ UNCHANGED pageVars
      BY <2>2, <3>1 DEF PollMessages
    <3>3. room \in Rooms /\ since \in 0 .. MaxLog
      BY <3>2 DEF TypeOK
    <3>4. Fit("poll", r)
      BY <3>1, <3>3 DEF Fit
    <3> QED BY <3>2, <3>4 DEF Reasons
  <2>3. ASSUME NEW q \in Rooms, JoinRoom(i, q)
        PROVE  \E reason \in Reasons : \E r : Call(reason, r)
    <3>1. PICK r : r = [op |-> "join_room", user |-> User, room |-> q]
      OBVIOUS
    <3>2. Makes(i, "join", r) /\ UNCHANGED pageVars
      BY <2>3, <3>1 DEF JoinRoom
    <3>3. Fit("join", r)
      BY <3>1 DEF Fit
    <3> QED BY <3>2, <3>3 DEF Reasons
  <2> QED BY <2>1, <2>2, <2>3
<1>p. PICK reason \in Reasons : \E r : Call(reason, r)
  BY <1>1
<1>r. PICK r : Call(reason, r)
  BY <1>p
<1>2. CallMade(i, reason, r)
  BY <1>r, Asking DEF Makes, CallMade
<1>3. room' = room
  BY <1>r DEF pageVars
<1>4. UNCHANGED log
  BY <1>2 DEF CallMade
<1> QED BY <1>r, <1>2, <1>3, <1>4, CallMadeKeeps

LEMMA CallsEnd ==
  ASSUME TypeOK, CallInv, LogInv, AnswerInv, NEW i \in Slots,
         LoseCall(i) \/ Fails(i) \/ PollAnsweredEmpty(i)
  PROVE  CallsKept /\ UNCHANGED log /\ UNCHANGED pageVars
<1>1. /\ Board!Release(i) \/ Board!Lose({i})
      /\ why' = [why EXCEPT ![i] = "nothing"]
      /\ UNCHANGED pageVars
  BY DEF LoseCall, Fails, PollAnsweredEmpty, Ends
<1>2. CallEnded(i)
  BY <1>1, Losing DEF CallEnded
<1>3. room' = room /\ UNCHANGED log
  BY <1>1, <1>2 DEF pageVars, CallEnded
<1> QED BY <1>1, <1>2, <1>3, CallEndedKeeps

LEMMA SendAnsweredKeeps ==
  ASSUME TypeOK, CallInv, LogInv, AnswerInv, NEW i \in Slots, SendAnswered(i)
  PROVE  CallsKept /\ UNCHANGED log /\ UNCHANGED pageVars
<1>1. PICK r : r = [op |-> "messages", room |-> room, since |-> 0]
  OBVIOUS
<1>2. /\ Board!Ask(i, r) /\ why' = [why EXCEPT ![i] = "load"] /\ why[i] = "send"
      /\ UNCHANGED pageVars
  BY <1>1 DEF SendAnswered, Answered, GoesOnToLoad
<1>3. CallMade(i, "load", r)
  BY <1>2, Asking DEF CallMade
<1>4. room \in Rooms /\ room' = room
  BY <1>2 DEF CallInv, TypeOK, pageVars
<1>5. Fit("load", r)
  BY <1>1, <1>4 DEF Fit
<1>6. CallsKept
  BY <1>3, <1>4, <1>5, CallMadeKeeps DEF Reasons
<1> QED BY <1>2, <1>3, <1>6 DEF CallMade

LEMMA InitHolds == Init => IInv
<1> SUFFICES ASSUME Init PROVE IInv
  OBVIOUS
<1>1. /\ log = <<>> /\ call = [i \in Slots |-> Board!NoCall]
      /\ room = None /\ since = 0 /\ all = <<>> /\ shown = <<>>
      /\ why = [i \in Slots |-> "nothing"]
      /\ broken = FALSE /\ loaded = FALSE /\ stale = FALSE
  BY DEF Init, Board!Init
<1>2. Board!NoCall \in CallType
  BY DEF Board!NoCall, CallType, Board!Requests
<1>3. log \in Seq(Message) /\ Len(log) <= MaxLog
  BY <1>1
<1>4. all \in Seq(DOMAIN log) /\ shown \in Seq(DOMAIN log) /\ since \in 0 .. MaxLog
  BY <1>1
<1>5. TypeOK
  BY <1>1, <1>2, <1>3, <1>4 DEF TypeOK
<1>6. CallInv /\ LogInv /\ AnswerInv
  BY <1>1 DEF CallInv, Fit, LogInv, AnswerInv, Board!NoCall
<1>7. ListInv
  BY <1>1 DEF ListInv, IsInjective
<1> QED BY <1>5, <1>6, <1>7 DEF IInv

LEMMA Step == IInv /\ [Next]_vars => IInv'
<1> SUFFICES ASSUME TypeOK, CallInv, LogInv, AnswerInv, ListInv, [Next]_vars PROVE IInv'
  BY DEF IInv
<1>1. CallsKept /\ (UNCHANGED log \/ Posted) /\ PageType' /\ ListInv'
  <2>1. ASSUME NEW i \in Slots, Service(i)
        PROVE  CallsKept /\ (UNCHANGED log \/ Posted) /\ UNCHANGED pageVars
    BY <2>1, ServiceKeeps DEF Service
  <2>2. CASE SomeonePosts
    <3>1. Posted
      <4>1. PICK r \in Rooms : log' = Append(log, [room |-> r, user |-> User, time |-> Len(log) + 1])
        BY <2>2 DEF SomeonePosts
      <4>2. Len(log) < MaxLog /\ Len(log) + 1 \in Positions
        BY <2>2 DEF SomeonePosts, TypeOK, Positions
      <4> QED BY <4>1, <4>2 DEF Posted, Message
    <3>2. UNCHANGED <<call, why>> /\ UNCHANGED pageVars /\ room' = room
      BY <2>2 DEF SomeonePosts, pageVars
    <3> QED BY <3>1, <3>2, NoCallChanges, PageStands
  <2>3. CASE UNCHANGED vars
    <3>1. UNCHANGED <<call, why>> /\ UNCHANGED pageVars /\ room' = room /\ UNCHANGED log
      BY <2>3 DEF vars, pageVars, boardVars
    <3> QED BY <3>1, NoCallChanges, PageStands
  <2>4. ASSUME NEW i \in Slots, LoseCall(i) \/ Acts(i) \/ PollMessages(i) \/ Callback(i)
        PROVE  CallsKept /\ (UNCHANGED log \/ Posted) /\ PageType' /\ ListInv'
    <3>1. CASE LoseCall(i) \/ Fails(i) \/ PollAnsweredEmpty(i)
      BY <3>1, CallsEnd, PageStands
    <3>2. CASE SendMessage(i) \/ PollMessages(i) \/ \E r \in Rooms : JoinRoom(i, r)
      BY <3>2, CallsStart, PageStands
    <3>3. CASE SendAnswered(i)
      BY <3>3, SendAnsweredKeeps, PageStands
    <3>4. CASE JoinAnswered(i)
      BY <3>4, JoinAnsweredKeeps
    <3>5. CASE LoadAnswered(i)
      BY <3>5, LoadAnsweredKeeps
    <3>6. CASE PollAnswered(i)
      BY <3>6, PollAnsweredKeeps
    <3>7. CASE LoadRefused(i)
      BY <3>7, LoadRefusedKeeps
    <3>8. CASE PollThrows(i)
      BY <3>8, PollThrowsKeeps
    <3> QED BY <2>4, <3>1, <3>2, <3>3, <3>4, <3>5, <3>6, <3>7, <3>8 DEF Acts, Callback
  <2> QED BY <2>1, <2>2, <2>3, <2>4, PageStands DEF Next
<1>2. LogInv' /\ log' \in Seq(Message) /\ Len(log') <= MaxLog
  BY <1>1, LogGrows
<1>3. TypeOK'
  BY <1>1, <1>2 DEF TypeOK, CallsKept, PageType, Reasons, Message, Positions
<1> QED BY <1>1, <1>2, <1>3 DEF IInv, CallsKept
-----------------------------------------------------------------------------
(***************************************************************************)
(* The theorems.                                                           *)
(***************************************************************************)
THEOREM Invariance == Spec => []IInv
<1> QED BY InitHolds, Step, PTL DEF Spec

(* Every variable of the page and of the board keeps its type; what the    *)
(* page lists and shows are messages that were posted.                     *)
THEOREM TypeCorrect == Spec => []TypeOK
<1>1. IInv => TypeOK
  BY DEF IInv
<1> QED BY <1>1, Invariance, PTL

(* The page never displays a message twice, whatever answers overtake each *)
(* other (pollMessages(), loadMessages()).                                 *)
THEOREM ShownOnce == Spec => []NoMessageTwice
<1>1. IInv => NoMessageTwice
  BY DEF IInv, ListInv, NoMessageTwice, IsInjective
<1> QED BY <1>1, Invariance, PTL

(* What the page displays is how the room begins, unless an answer came    *)
(* that the page had moved on from (pollMessages(), loadMessages()).       *)
THEOREM RoomShown == Spec => []ShowsRoom
<1>1. IInv => ShowsRoom
  <2> SUFFICES ASSUME TypeOK, LogInv, ListInv, ~stale PROVE Prefix
    BY DEF IInv, ShowsRoom
  <2> DEFINE S == {k \in DOMAIN log : InRoom(k)}
  <2>1. S \in SUBSET DOMAIN log
    OBVIOUS
  <2>2. S \in SUBSET Nat /\ IsFiniteSet(S)
    BY <2>1, Positioned
  <2>3. shown \in Seq(S) /\ Ascends(shown) /\ \A x \in S, y \in Range(shown) : x < y => x \in Range(shown)
    <3>1. CASE ~loaded
      <4>1. shown = <<>> /\ Range(shown) = {} /\ Ascends(shown)
        BY <3>1 DEF ListInv, Range, Ascends
      <4> QED BY <4>1
    <3>2. CASE loaded
      <4>1. /\ shown = all /\ Ascends(shown)
            /\ \A k \in Range(shown) :
                 /\ log[k].room = room
                 /\ \A j \in DOMAIN log : log[j].room = room /\ j < k => j \in Range(shown)
        BY <3>2 DEF ListInv
      <4>2. shown \in Seq(DOMAIN log) /\ Range(shown) \subseteq DOMAIN log
        BY DEF TypeOK, Range
      <4>3. Range(shown) \subseteq S
        BY <4>1, <4>2 DEF InRoom
      <4>4. shown \in Seq(S)
        BY <4>2, <4>3 DEF Range
      <4>5. \A x \in S, y \in Range(shown) : x < y => x \in Range(shown)
        BY <4>1 DEF InRoom
      <4> QED BY <4>1, <4>4, <4>5
    <3> QED BY <3>1, <3>2
  <2> HIDE DEF S
  <2>4. IsPrefix(shown, InOrder(S))
    BY <2>2, <2>3, BeginningOfOrder
  <2> QED BY <2>4 DEF Prefix, S
<1> QED BY <1>1, Invariance, PTL
=============================================================================
