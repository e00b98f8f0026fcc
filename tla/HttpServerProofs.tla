-------------------------- MODULE HttpServerProofs --------------------------
(***************************************************************************)
(* Theorems about HttpServer, for any numbers of workers, clients and      *)
(* descriptors: the types; that an open descriptor is in one place on its  *)
(* way from accept() to close(), or forgotten by an exception; that an     *)
(* answer that was begun is whole when the connection is closed; and that  *)
(* a worker's request is understood as it was sent, which rests on what is *)
(* shown of the two parsers of HttpRequest.                                *)
(***************************************************************************)
EXTENDS HttpServer, SequenceLemmas, FiniteSetTheorems

(***************************************************************************)
(* The parsers, for every request that keeps to the protocol and every     *)
(* place at which the one read() may cut it.                               *)
(*                                                                         *)
(* The argument: a request is a sequence of lines (Lined), so that "\r\n"  *)
(* begins only where one of them ends, and "\r\n\r\n" only where its last  *)
(* header ends; the places both parsers look for follow (PlacesFound), and *)
(* what they take lies between them.  FlattenSeq, which joins the headers, *)
(* is recursive: that it has a value (Flattening), and what it keeps, is   *)
(* shown by the least index that would contradict it.                      *)
(***************************************************************************)
USE SymbolsAssumption

(* Where p stands in s.                                                    *)
Stands(s, p, i) ==
  /\ i \in 1 .. Len(s) /\ i + Len(p) <= Len(s) + 1
  /\ \A k \in 1 .. Len(p) : s[i + k - 1] = p[k]

LEMMA SubStands ==
  ASSUME NEW S, NEW s \in Seq(S), NEW p \in Seq(S), p # <<>>,
         NEW from \in Nat \ {0}, NEW i \in from .. Len(s) + 1 - Len(p)
  PROVE  SubSeq(s, i, i + Len(p) - 1) = p <=> Stands(s, p, i)
<1>1. /\ Len(s) \in Nat /\ Len(p) \in Nat /\ Len(p) > 0 /\ i \in 1 .. Len(s)
      /\ i \in Nat /\ i + Len(p) <= Len(s) + 1
  OBVIOUS
<1> DEFINE t == SubSeq(s, i, i + Len(p) - 1)
<1>2. /\ t \in Seq(S) /\ Len(t) = Len(p)
      /\ \A k \in 1 .. Len(p) : t[k] = s[i + k - 1]
  BY <1>1
<1> HIDE DEF t
<1>3. t = p <=> \A k \in 1 .. Len(p) : t[k] = p[k]
  <2>1. p \in Seq(S) /\ t \in Seq(S) /\ Len(t) = Len(p) => (t = p <=> \A k \in 1 .. Len(p) : t[k] = p[k])
    OBVIOUS
  <2> QED BY <1>2, <2>1
<1> QED BY <1>1, <1>2, <1>3 DEF Stands, t

(* std::string::find() finds the first place.                              *)
LEMMA FindFirst ==
  ASSUME NEW S, NEW s \in Seq(S), NEW p \in Seq(S), p # <<>>, NEW from \in Nat \ {0}
  PROVE  \/ Find(s, p, from) = 0 /\ \A i \in Nat : i >= from => ~Stands(s, p, i)
         \/ /\ Find(s, p, from) \in Nat /\ Find(s, p, from) >= from
            /\ Stands(s, p, Find(s, p, from))
            /\ \A i \in Nat : from <= i /\ i < Find(s, p, from) => ~Stands(s, p, i)
<1> DEFINE found == {i \in from .. Len(s) + 1 - Len(p) : SubSeq(s, i, i + Len(p) - 1) = p}
<1>1. Len(s) \in Nat /\ Len(p) \in Nat /\ Len(p) > 0
  OBVIOUS
<1>2. \A i \in Nat : i \in found <=> (i >= from /\ Stands(s, p, i))
  <2>1. \A i \in Nat : i >= from /\ Stands(s, p, i) => i \in from .. Len(s) + 1 - Len(p)
    BY <1>1 DEF Stands
  <2>2. \A i \in from .. Len(s) + 1 - Len(p) : i \in Nat /\ i >= from
    BY <1>1
  <2> QED BY <2>1, <2>2, SubStands
<1>3. found \in SUBSET Nat
  BY <1>1
<1>4. Find(s, p, from) = IF found = {} THEN 0 ELSE Min(found)
  BY DEF Find
<1> HIDE DEF found
<1>5. CASE found = {}
  BY <1>2, <1>4, <1>5
<1>6. CASE found # {}
  <2>1. Min(found) \in found /\ \A y \in found : Min(found) <= y
    BY <1>3, <1>6, LeastNumber DEF Min
  <2>2. Find(s, p, from) = Min(found)
    BY <1>4, <1>6
  <2>3. \A i \in Nat : from <= i /\ i < Min(found) => i \notin found
    <3>1. \A x, y \in Nat : x < y => ~(y <= x)
      OBVIOUS
    <3> QED BY <2>1, <1>3, <3>1
  <2> QED BY <1>2, <1>3, <2>1, <2>2, <2>3
<1> QED BY <1>5, <1>6

(* ... of one symbol,                                                      *)
LEMMA FindSymbol ==
  ASSUME NEW s \in Seq(Symbols), NEW x \in Symbols, NEW from \in Nat \ {0}
  PROVE  \/ Find(s, <<x>>, from) = 0 /\ \A i \in from .. Len(s) : s[i] # x
         \/ /\ Find(s, <<x>>, from) \in from .. Len(s)
            /\ s[Find(s, <<x>>, from)] = x
            /\ \A i \in from .. Find(s, <<x>>, from) - 1 : s[i] # x
<1> DEFINE p == <<x>>
<1>1. /\ p \in Seq(Symbols) /\ p # <<>> /\ Len(p) = 1 /\ Len(s) \in Nat
      /\ p[1] = x /\ 1 .. Len(p) = {1}
  <2>1. p \in Seq(Symbols) /\ p # <<>> /\ Len(p) = 1 /\ Len(s) \in Nat
    OBVIOUS
  <2>2. p[1] = x
    OBVIOUS
  <2> QED BY <2>1, <2>2
<1> HIDE DEF p
<1>2. ASSUME NEW i \in Nat PROVE Stands(s, p, i) <=> (i \in 1 .. Len(s) /\ s[i] = x)
  <2>1. i \in 1 .. Len(s) => i + Len(p) <= Len(s) + 1
    BY <1>1
  <2>2. (\A k \in 1 .. Len(p) : s[i + k - 1] = p[k]) <=> s[i] = x
    <3>1. i + 1 - 1 = i
      OBVIOUS
    <3> QED BY <1>1, <3>1
  <2> QED BY <1>1, <2>1, <2>2 DEF Stands
<1> DEFINE f == Find(s, p, from)
<1>3. \/ f = 0 /\ \A i \in Nat : i >= from => ~Stands(s, p, i)
      \/ /\ f \in Nat /\ f >= from
         /\ Stands(s, p, f)
         /\ \A i \in Nat : from <= i /\ i < f => ~Stands(s, p, i)
  BY <1>1, FindFirst
<1> HIDE DEF f
<1>4. f = 0 /\ (\A i \in Nat : i >= from => ~Stands(s, p, i)) => \A i \in from .. Len(s) : s[i] # x
  BY <1>1, <1>2
<1>5. f \in Nat /\ f >= from /\ Stands(s, p, f) => f \in from .. Len(s) /\ s[f] = x
  BY <1>1, <1>2
<1>6. f \in from .. Len(s) /\ (\A i \in Nat : from <= i /\ i < f => ~Stands(s, p, i))
        => \A i \in from .. f - 1 : s[i] # x
  BY <1>1, <1>2
<1> QED BY <1>3, <1>4, <1>5, <1>6 DEF f, p

LEMMA EolFacts ==
  /\ Eol \in Seq(Symbols) /\ Eol # <<>> /\ Len(Eol) = 2
  /\ Eol[1] = "cr" /\ Eol[2] = "lf"
<1>1. Eol \in Seq(Symbols) /\ Eol # <<>> /\ Len(Eol) = 2
  BY DEF Eol
<1>2. Eol[1] = "cr" /\ Eol[2] = "lf"
  BY DEF Eol
<1> QED BY <1>1, <1>2

(* ... of the end of a line,                                               *)
LEMMA FindEol ==
  ASSUME NEW s \in Seq(Symbols), NEW from \in Nat \ {0}
  PROVE  \/ /\ Find(s, Eol, from) = 0
            /\ \A i \in from .. Len(s) - 1 : ~(s[i] = "cr" /\ s[i + 1] = "lf")
         \/ /\ Find(s, Eol, from) \in from .. Len(s) - 1
            /\ s[Find(s, Eol, from)] = "cr" /\ s[Find(s, Eol, from) + 1] = "lf"
            /\ \A i \in from .. Find(s, Eol, from) - 1 : ~(s[i] = "cr" /\ s[i + 1] = "lf")
<1>1. /\ Eol \in Seq(Symbols) /\ Eol # <<>> /\ Len(Eol) = 2 /\ Len(s) \in Nat
      /\ Eol[1] = "cr" /\ Eol[2] = "lf"
  BY EolFacts
<1>2. ASSUME NEW i \in Nat
      PROVE  Stands(s, Eol, i) <=> (i \in 1 .. Len(s) - 1 /\ s[i] = "cr" /\ s[i + 1] = "lf")
  <2>1. i + Len(Eol) <= Len(s) + 1 <=> i <= Len(s) - 1
    BY <1>1
  <2>2. (\A k \in 1 .. Len(Eol) : s[i + k - 1] = Eol[k]) <=> (s[i] = "cr" /\ s[i + 1] = "lf")
    <3>1. i + 1 - 1 = i /\ i + 2 - 1 = i + 1 /\ 1 .. Len(Eol) = {1, 2}
      BY <1>1
    <3> QED BY <1>1, <3>1
  <2> QED BY <1>1, <2>1, <2>2 DEF Stands
<1> DEFINE f == Find(s, Eol, from)
<1>3. \/ f = 0 /\ \A i \in Nat : i >= from => ~Stands(s, Eol, i)
      \/ /\ f \in Nat /\ f >= from
         /\ Stands(s, Eol, f)
         /\ \A i \in Nat : from <= i /\ i < f => ~Stands(s, Eol, i)
  BY <1>1, FindFirst
<1> HIDE DEF f
<1>4. f = 0 /\ (\A i \in Nat : i >= from => ~Stands(s, Eol, i))
        => \A i \in from .. Len(s) - 1 : ~(s[i] = "cr" /\ s[i + 1] = "lf")
  BY <1>1, <1>2
<1>5. f \in Nat /\ f >= from /\ Stands(s, Eol, f)
        => f \in from .. Len(s) - 1 /\ s[f] = "cr" /\ s[f + 1] = "lf"
  BY <1>1, <1>2
<1>6. f \in from .. Len(s) - 1 /\ (\A i \in Nat : from <= i /\ i < f => ~Stands(s, Eol, i))
        => \A i \in from .. f - 1 : ~(s[i] = "cr" /\ s[i + 1] = "lf")
  BY <1>1, <1>2
<1> QED BY <1>3, <1>4, <1>5, <1>6 DEF f

(* ... and of a blank line.                                                *)
BlankAt(s, i) == s[i] = "cr" /\ s[i + 1] = "lf" /\ s[i + 2] = "cr" /\ s[i + 3] = "lf"

LEMMA FindBlank ==
  ASSUME NEW s \in Seq(Symbols), NEW from \in Nat \ {0}
  PROVE  \/ /\ Find(s, BlankLine, from) = 0
            /\ \A i \in from .. Len(s) - 3 : ~BlankAt(s, i)
         \/ /\ Find(s, BlankLine, from) \in from .. Len(s) - 3
            /\ BlankAt(s, Find(s, BlankLine, from))
            /\ \A i \in from .. Find(s, BlankLine, from) - 1 : ~BlankAt(s, i)
<1>1. /\ BlankLine \in Seq(Symbols) /\ BlankLine # <<>> /\ Len(BlankLine) = 4 /\ Len(s) \in Nat
      /\ BlankLine[1] = "cr" /\ BlankLine[2] = "lf" /\ BlankLine[3] = "cr" /\ BlankLine[4] = "lf"
  <2>1. BlankLine = <<"cr", "lf", "cr", "lf">>
    <3>1. Eol \in Seq(Symbols) /\ Len(Eol) = 2 /\ Eol[1] = "cr" /\ Eol[2] = "lf"
      BY EolFacts
    <3> DEFINE t == Eol \o Eol
    <3>2. /\ t \in Seq(Symbols) /\ Len(t) = Len(Eol) + Len(Eol)
          /\ \A i \in 1 .. Len(Eol) : t[i] = Eol[i]
          /\ \A i \in 1 .. Len(Eol) : t[Len(Eol) + i] = Eol[i]
      <4>1. Eol \in Seq(Symbols)
        BY <3>1
      <4> QED BY <4>1, JoinedParts
    <3> HIDE DEF t
    <3>3. 1 \in 1 .. Len(Eol) /\ 2 \in 1 .. Len(Eol)
      BY <3>1
    <3>4. t \in Seq(Symbols) /\ Len(t) = 4
      BY <3>1, <3>2
    <3>5. t[1] = "cr" /\ t[2] = "lf" /\ t[3] = "cr" /\ t[4] = "lf"
      BY <3>1, <3>2, <3>3
    <3>6. t = <<"cr", "lf", "cr", "lf">>
      BY <3>4, <3>5
    <3> QED BY <3>6 DEF BlankLine, t
  <2>2. /\ BlankLine \in Seq(Symbols) /\ BlankLine # <<>> /\ Len(BlankLine) = 4
        /\ Len(s) \in Nat
    BY <2>1
  <2>3. /\ BlankLine[1] = "cr" /\ BlankLine[2] = "lf"
        /\ BlankLine[3] = "cr" /\ BlankLine[4] = "lf"
    BY <2>1
  <2> QED BY <2>2, <2>3
<1>2. ASSUME NEW i \in Nat
      PROVE  Stands(s, BlankLine, i) <=> (i \in 1 .. Len(s) - 3 /\ BlankAt(s, i))
  <2>1. i + Len(BlankLine) <= Len(s) + 1 <=> i <= Len(s) - 3
    BY <1>1
  <2>2. (\A k \in 1 .. Len(BlankLine) : s[i + k - 1] = BlankLine[k]) <=> BlankAt(s, i)
    <3>1. /\ i + 1 - 1 = i /\ i + 2 - 1 = i + 1 /\ i + 3 - 1 = i + 2 /\ i + 4 - 1 = i + 3
          /\ 1 .. Len(BlankLine) = {1, 2, 3, 4}
      BY <1>1
    <3> QED BY <1>1, <3>1 DEF BlankAt
  <2> QED BY <1>1, <2>1, <2>2 DEF Stands
<1> DEFINE f == Find(s, BlankLine, from)
<1>3. \/ f = 0 /\ \A i \in Nat : i >= from => ~Stands(s, BlankLine, i)
      \/ /\ f \in Nat /\ f >= from
         /\ Stands(s, BlankLine, f)
         /\ \A i \in Nat : from <= i /\ i < f => ~Stands(s, BlankLine, i)
  BY <1>1, FindFirst
<1> HIDE DEF f
<1>4. f = 0 /\ (\A i \in Nat : i >= from => ~Stands(s, BlankLine, i))
        => \A i \in from .. Len(s) - 3 : ~BlankAt(s, i)
  BY <1>1, <1>2
<1>5. f \in Nat /\ f >= from /\ Stands(s, BlankLine, f)
        => f \in from .. Len(s) - 3 /\ BlankAt(s, f)
  BY <1>1, <1>2
<1>6. f \in from .. Len(s) - 3 /\ (\A i \in Nat : from <= i /\ i < f => ~Stands(s, BlankLine, i))
        => \A i \in from .. f - 1 : ~BlankAt(s, i)
  BY <1>1, <1>2
<1> QED BY <1>3, <1>4, <1>5, <1>6 DEF f
-----------------------------------------------------------------------------
(* A line and its end stand in u at place l.                               *)
LineAt(u, l, h) ==
  /\ l + Len(h) + 1 <= Len(u)
  /\ \A k \in 1 .. Len(h) : u[l + k - 1] = h[k]
  /\ u[l + Len(h)] = "cr" /\ u[l + Len(h) + 1] = "lf"

(* u consists of lines of L: one begins wherever another has ended.        *)
Lined(u, L) ==
  /\ u \in Seq(Symbols) /\ Len(u) >= 2 /\ u[Len(u) - 1] = "cr" /\ u[Len(u)] = "lf"
  /\ \A l \in 1 .. Len(u) : l = 1 \/ u[l - 1] = "lf" => \E h \in L : LineAt(u, l, h)

LEMMA EolAppended ==
  ASSUME NEW u \in Seq(Symbols)
  PROVE  /\ u \o Eol \in Seq(Symbols) /\ Len(u \o Eol) = Len(u) + 2
         /\ \A i \in 1 .. Len(u) : (u \o Eol)[i] = u[i]
         /\ (u \o Eol)[Len(u) + 1] = "cr" /\ (u \o Eol)[Len(u) + 2] = "lf"
<1> DEFINE t == u \o Eol
<1>1. Eol \in Seq(Symbols)
  BY EolFacts
<1>2. /\ t \in Seq(Symbols) /\ Len(t) = Len(u) + Len(Eol)
      /\ \A i \in 1 .. Len(u) : t[i] = u[i]
      /\ \A i \in 1 .. Len(Eol) : t[Len(u) + i] = Eol[i]
  BY <1>1, JoinedParts
<1> HIDE DEF t
<1>3. Len(Eol) = 2 /\ Eol[1] = "cr" /\ Eol[2] = "lf" /\ 1 \in 1 .. Len(Eol) /\ 2 \in 1 .. Len(Eol)
  BY EolFacts
<1> QED BY <1>2, <1>3 DEF t

LEMMA OneLine ==
  ASSUME NEW h \in Seq(Symbols), h # <<>>, \A i \in 1 .. Len(h) : h[i] \notin {"cr", "lf"},
         NEW L, h \in L
  PROVE  Lined(h \o Eol, L)
<1> DEFINE u == h \o Eol
<1>1. /\ u \in Seq(Symbols) /\ Len(u) = Len(h) + 2 /\ Len(h) \in Nat \ {0}
      /\ \A i \in 1 .. Len(h) : u[i] = h[i]
      /\ u[Len(h) + 1] = "cr" /\ u[Len(h) + 2] = "lf"
  BY EolAppended
<1> HIDE DEF u
<1>2. LineAt(u, 1, h)
  BY <1>1 DEF LineAt
<1>3. ASSUME NEW l \in 1 .. Len(u), u[l - 1] = "lf" PROVE l = 1
  <2> SUFFICES ASSUME l # 1 PROVE FALSE
    OBVIOUS
  <2>1. l - 1 \in 1 .. Len(h) \/ l - 1 = Len(h) + 1
    BY <1>1
  <2> QED BY <1>1, <1>3, <2>1
<1> QED BY <1>1, <1>2, <1>3 DEF Lined, u

LEMMA LineMoved ==
  ASSUME NEW u \in Seq(Symbols), NEW v \in Seq(Symbols), NEW h \in Seq(Symbols)
  PROVE  /\ \A l \in Nat \ {0} : LineAt(u, l, h) => LineAt(u \o v, l, h)
         /\ \A j \in Nat \ {0} : LineAt(v, j, h) => LineAt(u \o v, Len(u) + j, h)
<1> DEFINE t == u \o v
<1>1. /\ t \in Seq(Symbols) /\ Len(t) = Len(u) + Len(v)
      /\ Len(u) \in Nat /\ Len(v) \in Nat /\ Len(h) \in Nat
      /\ \A i \in 1 .. Len(u) : t[i] = u[i]
      /\ \A i \in 1 .. Len(v) : t[Len(u) + i] = v[i]
  BY JoinedParts
<1> HIDE DEF t
<1>2. ASSUME NEW l \in Nat \ {0}, LineAt(u, l, h) PROVE LineAt(t, l, h)
  <2>1. /\ l + Len(h) + 1 <= Len(u) /\ u[l + Len(h)] = "cr" /\ u[l + Len(h) + 1] = "lf"
        /\ \A k \in 1 .. Len(h) : u[l + k - 1] = h[k]
    BY <1>2 DEF LineAt
  <2>2. /\ l + Len(h) \in 1 .. Len(u) /\ l + Len(h) + 1 \in 1 .. Len(u)
        /\ l + Len(h) + 1 <= Len(t)
        /\ \A k \in 1 .. Len(h) : l + k - 1 \in 1 .. Len(u)
    BY <1>1, <2>1
  <2> QED BY <1>1, <2>1, <2>2 DEF LineAt
<1>3. ASSUME NEW j \in Nat \ {0}, LineAt(v, j, h) PROVE LineAt(t, Len(u) + j, h)
  <2>1. /\ j + Len(h) + 1 <= Len(v) /\ v[j + Len(h)] = "cr" /\ v[j + Len(h) + 1] = "lf"
        /\ \A k \in 1 .. Len(h) : v[j + k - 1] = h[k]
    BY <1>3 DEF LineAt
  <2>2. /\ j + Len(h) \in 1 .. Len(v) /\ j + Len(h) + 1 \in 1 .. Len(v)
        /\ Len(u) + j + Len(h) + 1 <= Len(t)
        /\ Len(u) + j + Len(h) = Len(u) + (j + Len(h))
        /\ Len(u) + j + Len(h) + 1 = Len(u) + (j + Len(h) + 1)
        /\ \A k \in 1 .. Len(h) : j + k - 1 \in 1 .. Len(v)
                                  /\ Len(u) + j + k - 1 = Len(u) + (j + k - 1)
    BY <1>1, <2>1
  <2> QED BY <1>1, <2>1, <2>2 DEF LineAt
<1> QED BY <1>2, <1>3 DEF t

(* Lines put behind lines are lines.                                       *)
LEMMA LinesJoined ==
  ASSUME NEW L \in SUBSET Seq(Symbols), NEW u, NEW v, Lined(u, L), Lined(v, L)
  PROVE  Lined(u \o v, L)
<1> DEFINE t == u \o v
<1>1. /\ u \in Seq(Symbols) /\ v \in Seq(Symbols) /\ Len(u) >= 2 /\ Len(v) >= 2
      /\ v[Len(v) - 1] = "cr" /\ v[Len(v)] = "lf"
  BY DEF Lined
<1>2. /\ t \in Seq(Symbols) /\ Len(t) = Len(u) + Len(v)
      /\ Len(u) \in Nat /\ Len(v) \in Nat
      /\ \A i \in 1 .. Len(u) : t[i] = u[i]
      /\ \A i \in 1 .. Len(v) : t[Len(u) + i] = v[i]
  BY <1>1, JoinedParts
<1>3. /\ \A h \in L, l \in Nat \ {0} : LineAt(u, l, h) => LineAt(t, l, h)
      /\ \A h \in L, j \in Nat \ {0} : LineAt(v, j, h) => LineAt(t, Len(u) + j, h)
  BY <1>1, LineMoved
<1> HIDE DEF t
<1>4. t[Len(t) - 1] = "cr" /\ t[Len(t)] = "lf"
  <2>1. /\ Len(v) - 1 \in 1 .. Len(v) /\ Len(v) \in 1 .. Len(v)
        /\ Len(t) - 1 = Len(u) + (Len(v) - 1) /\ Len(t) = Len(u) + Len(v)
    BY <1>1, <1>2
  <2> QED BY <1>1, <1>2, <2>1
<1>5. ASSUME NEW l \in 1 .. Len(t), l = 1 \/ t[l - 1] = "lf"
      PROVE  \E h \in L : LineAt(t, l, h)
  <2>1. CASE l <= Len(u)
    <3>1. l \in 1 .. Len(u) /\ l \in Nat \ {0} /\ (l = 1 \/ l - 1 \in 1 .. Len(u))
      BY <1>2, <2>1
    <3>2. l = 1 \/ u[l - 1] = "lf"
      BY <1>2, <1>5, <3>1
    <3> QED BY <1>3, <3>1, <3>2 DEF Lined
  <2>2. CASE l > Len(u)
    <3> DEFINE j == l - Len(u)
    <3>1. /\ j \in 1 .. Len(v) /\ j \in Nat \ {0} /\ Len(u) + j = l
          /\ j = 1 \/ (j - 1 \in 1 .. Len(v) /\ Len(u) + (j - 1) = l - 1)
      BY <1>2, <2>2
    <3>2. l # 1
      BY <1>1, <1>2, <2>2
    <3>3. j = 1 \/ v[j - 1] = t[l - 1]
      BY <1>2, <3>1
    <3>4. j = 1 \/ v[j - 1] = "lf"
      BY <1>5, <3>2, <3>3
    <3> HIDE DEF j
    <3> QED BY <1>3, <3>1, <3>4 DEF Lined
  <2> QED BY <1>2, <2>1, <2>2
<1> QED BY <1>1, <1>2, <1>4, <1>5 DEF Lined, t
-----------------------------------------------------------------------------
(* FlattenSeq puts one sequence behind the other, from the first on.       *)
LEMMA Flattening ==
  ASSUME NEW seqs, NEW n \in Nat \ {0}
  PROVE  \E f : f = [i \in 1 .. n |-> IF i = 1 THEN seqs[i] ELSE f[i - 1] \o seqs[i]]
<1> DEFINE Flat(m) == \E f : f = [i \in 1 .. m |-> IF i = 1 THEN seqs[i] ELSE f[i - 1] \o seqs[i]]
           bad == {m \in Nat \ {0} : ~Flat(m)}
<1> SUFFICES bad = {}
  OBVIOUS
<1> SUFFICES ASSUME bad # {} PROVE FALSE
  OBVIOUS
<1>1. PICK m \in bad : \A y \in bad : m <= y
  <2>1. bad \in SUBSET Nat
    OBVIOUS
  <2> HIDE DEF bad
  <2> QED BY <2>1, LeastNumber
<1>2. m \in Nat \ {0} /\ ~Flat(m)
  OBVIOUS
<1>3. CASE m = 1
  <2> DEFINE f == [i \in 1 .. 1 |-> seqs[i]]
  <2>1. f = [i \in 1 .. 1 |-> IF i = 1 THEN seqs[i] ELSE f[i - 1] \o seqs[i]]
    OBVIOUS
  <2> QED BY <1>2, <1>3, <2>1
<1>4. CASE m # 1
  <2>1. m - 1 \in Nat \ {0} /\ m - 1 < m
    BY <1>2, <1>4
  <2>2. Flat(m - 1)
    <3>1. m - 1 \notin bad
      <4> HIDE DEF bad
      <4>1. m \in Nat /\ m - 1 \in Nat
        BY <1>2, <2>1
      <4> QED BY <1>1, <2>1, <4>1
    <3> QED BY <2>1, <3>1
  <2>3. PICK f : f = [i \in 1 .. m - 1 |-> IF i = 1 THEN seqs[i] ELSE f[i - 1] \o seqs[i]]
    BY <2>2
  <2> DEFINE last == f[m - 1] \o seqs[m]
             g == [i \in 1 .. m |-> IF i = m THEN last ELSE f[i]]
  <2>4. ASSUME NEW i \in 1 .. m
        PROVE  g[i] = IF i = 1 THEN seqs[i] ELSE g[i - 1] \o seqs[i]
    <3>1. CASE i = m
      <4>1. m - 1 \in 1 .. m /\ m - 1 # m /\ m \in 1 .. m
        BY <2>1
      <4>2. g[m - 1] = f[m - 1] /\ g[m] = last
        BY <4>1
      <4> HIDE DEF g
      <4> QED BY <1>4, <3>1, <4>2
    <3>2. CASE i # m
      <4>1. i \in 1 .. m - 1 /\ (i # 1 => i - 1 \in 1 .. m /\ i - 1 # m)
        BY <1>2, <2>1, <3>2
      <4>2. g[i] = f[i] /\ (i # 1 => g[i - 1] = f[i - 1])
        BY <3>2, <4>1
      <4> HIDE DEF g
      <4>3. f[i] = IF i = 1 THEN seqs[i] ELSE f[i - 1] \o seqs[i]
        BY <2>3, <4>1
      <4> QED BY <4>2, <4>3
    <3> QED BY <3>1, <3>2
  <2>5. g = [i \in 1 .. m |-> IF i = 1 THEN seqs[i] ELSE g[i - 1] \o seqs[i]]
    <3>1. g = [i \in 1 .. m |-> g[i]]
      OBVIOUS
    <3> HIDE DEF g
    <3> QED BY <2>4, <3>1
  <2> HIDE DEF g
  <2> QED BY <1>2, <2>5
<1> QED BY <1>3, <1>4

LEMMA Flattened ==
  ASSUME NEW seqs, Len(seqs) \in Nat \ {0}
  PROVE  \E f : /\ FlattenSeq(seqs) = f[Len(seqs)] /\ f[1] = seqs[1]
                /\ \A i \in 2 .. Len(seqs) : f[i] = f[i - 1] \o seqs[i]
<1> DEFINE n == Len(seqs)
           P(f) == f = [i \in 1 .. n |-> IF i = 1 THEN seqs[i] ELSE f[i - 1] \o seqs[i]]
           f == CHOOSE g : P(g)
<1>1. \E g : P(g)
  BY Flattening
<1>2. P(f)
  <2> HIDE DEF P
  <2> QED BY <1>1
<1>3. FlattenSeq(seqs) = f[n]
  BY DEF FlattenSeq
<1> HIDE DEF f
<1>4. \A i \in 1 .. n : f[i] = IF i = 1 THEN seqs[i] ELSE f[i - 1] \o seqs[i]
  BY <1>2
<1>5. f[1] = seqs[1]
  BY <1>4
<1>6. ASSUME NEW i \in 2 .. n PROVE f[i] = f[i - 1] \o seqs[i]
  <2>1. i \in 1 .. n /\ i # 1
    OBVIOUS
  <2> QED BY <1>4, <2>1
<1> QED BY <1>3, <1>5, <1>6

(* Sequences of lines are flattened to a sequence of lines.                *)
LEMMA FlattenedLines ==
  ASSUME NEW L \in SUBSET Seq(Symbols), NEW seqs, Len(seqs) \in Nat \ {0},
         \A i \in 1 .. Len(seqs) : Lined(seqs[i], L)
  PROVE  Lined(FlattenSeq(seqs), L)
<1>1. PICK f : /\ FlattenSeq(seqs) = f[Len(seqs)] /\ f[1] = seqs[1]
               /\ \A i \in 2 .. Len(seqs) : f[i] = f[i - 1] \o seqs[i]
  BY Flattened
<1> DEFINE bad == {i \in 1 .. Len(seqs) : ~Lined(f[i], L)}
<1> SUFFICES ASSUME bad # {} PROVE FALSE
  BY <1>1
<1>2. PICK m \in bad : \A y \in bad : m <= y
  <2>1. bad \in SUBSET Nat
    OBVIOUS
  <2> HIDE DEF bad
  <2> QED BY <2>1, LeastNumber
<1>3. m \in 1 .. Len(seqs) /\ ~Lined(f[m], L)
  OBVIOUS
<1>4. m # 1
  BY <1>1, <1>3
<1>5. m \in 2 .. Len(seqs) /\ m - 1 \in 1 .. Len(seqs) /\ m - 1 < m /\ m \in Nat /\ m - 1 \in Nat
  BY <1>3, <1>4
<1>6. Lined(f[m - 1], L)
  <2>1. m - 1 \notin bad
    <3> HIDE DEF bad
    <3> QED BY <1>2, <1>5
  <2> QED BY <1>5, <2>1
<1>7. Lined(f[m - 1] \o seqs[m], L)
  BY <1>3, <1>6, LinesJoined
<1> QED BY <1>1, <1>3, <1>5, <1>7
-----------------------------------------------------------------------------
(* How a request of a client lies in what it sends.                        *)
RequestLine(r) == r.method \o <<"sp">> \o r.target \o <<"sp", "HTTP/1.1">>
HeaderBlock(r) == FlattenSeq([i \in DOMAIN r.headers |-> r.headers[i] \o Eol])
HeadOf(r) == RequestLine(r) \o Eol \o HeaderBlock(r)

LEMMA SymbolsOf ==
  ASSUME NEW r, WellFormed(r)
  PROVE  /\ r.method \in Seq(Symbols) /\ Len(r.method) \in Nat \ {0}
         /\ \A i \in 1 .. Len(r.method) : r.method[i] \notin {"sp", "cr", "lf"}
         /\ r.target \in Seq(Symbols) /\ Len(r.target) \in Nat \ {0}
         /\ \A i \in 1 .. Len(r.target) : r.target[i] \notin {"sp", "cr", "lf"}
         /\ r.body \in Seq(Symbols) /\ Len(r.headers) \in Nat
         /\ \A i \in 1 .. Len(r.headers) :
              /\ r.headers[i] \in Seq(Symbols) /\ r.headers[i] # <<>>
              /\ \A k \in 1 .. Len(r.headers[i]) : r.headers[i][k] \notin {"cr", "lf"}
<1>1. ASSUME NEW u \in Seq(Text) \ {<<>>}
      PROVE  /\ u \in Seq(Symbols) /\ Len(u) \in Nat \ {0}
             /\ \A i \in 1 .. Len(u) : u[i] \notin {"sp", "cr", "lf"}
  BY DEF Text, Line
<1>2. ASSUME NEW u \in Seq(Line) \ {<<>>}
      PROVE  /\ u \in Seq(Symbols) /\ u # <<>>
             /\ \A i \in 1 .. Len(u) : u[i] \notin {"cr", "lf"}
  BY DEF Line
<1>3. /\ r.method \in Seq(Text) \ {<<>>} /\ r.target \in Seq(Text) \ {<<>>}
      /\ r.headers \in Seq(Seq(Line) \ {<<>>}) /\ r.body \in Seq(Symbols)
  BY DEF WellFormed
<1>4. /\ Len(r.headers) \in Nat
      /\ \A i \in 1 .. Len(r.headers) : r.headers[i] \in Seq(Line) \ {<<>>}
  BY <1>3
<1> QED BY <1>1, <1>2, <1>3, <1>4

LEMMA RequestLineRead ==
  ASSUME NEW m \in Seq(Symbols), NEW t \in Seq(Symbols)
  PROVE  LET q == m \o <<"sp">> \o t \o <<"sp", "HTTP/1.1">> IN
         /\ q \in Seq(Symbols) /\ Len(q) = Len(m) + Len(t) + 3
         /\ \A i \in 1 .. Len(m) : q[i] = m[i]
         /\ q[Len(m) + 1] = "sp"
         /\ \A i \in 1 .. Len(t) : q[Len(m) + 1 + i] = t[i]
         /\ q[Len(m) + Len(t) + 2] = "sp" /\ q[Len(m) + Len(t) + 3] = "HTTP/1.1"
<1> DEFINE u == m \o <<"sp">>
           v == u \o t
           q == v \o <<"sp", "HTTP/1.1">>
<1>0. Len(m) \in Nat /\ Len(t) \in Nat
  OBVIOUS
<1>1. /\ u \in Seq(Symbols) /\ Len(u) = Len(m) + 1 /\ u[Len(m) + 1] = "sp"
      /\ \A i \in 1 .. Len(m) : u[i] = m[i]
  OBVIOUS
<1> HIDE DEF u
<1>2. /\ v \in Seq(Symbols) /\ Len(v) = Len(u) + Len(t)
      /\ \A i \in 1 .. Len(u) : v[i] = u[i]
      /\ \A i \in 1 .. Len(t) : v[Len(u) + i] = t[i]
  <2>1. u \in Seq(Symbols)
    BY <1>1
  <2> QED BY <2>1, JoinedParts
<1> HIDE DEF v
<1>3. /\ q \in Seq(Symbols) /\ Len(q) = Len(v) + 2
      /\ q[Len(v) + 1] = "sp" /\ q[Len(v) + 2] = "HTTP/1.1"
      /\ \A i \in 1 .. Len(v) : q[i] = v[i]
  <2> DEFINE p == <<"sp", "HTTP/1.1">>
  <2>1. p \in Seq(Symbols) /\ Len(p) = 2 /\ p[1] = "sp" /\ p[2] = "HTTP/1.1"
    OBVIOUS
  <2>2. /\ v \o p \in Seq(Symbols) /\ Len(v \o p) = Len(v) + Len(p)
        /\ \A i \in 1 .. Len(v) : (v \o p)[i] = v[i]
        /\ \A i \in 1 .. Len(p) : (v \o p)[Len(v) + i] = p[i]
    <3>1. p \in Seq(Symbols) /\ v \in Seq(Symbols)
      BY <1>2, <2>1
    <3> HIDE DEF p
    <3> QED BY <3>1, JoinedParts
  <2> HIDE DEF p
  <2>3. 1 \in 1 .. Len(p) /\ 2 \in 1 .. Len(p)
    BY <2>1
  <2> QED BY <2>1, <2>2, <2>3 DEF p
<1> HIDE DEF q
<1>4. ASSUME NEW i \in 1 .. Len(m) PROVE q[i] = m[i]
  <2>1. i \in 1 .. Len(u) /\ i \in 1 .. Len(v)
    BY <1>0, <1>1, <1>2
  <2> QED BY <1>1, <1>2, <1>3, <2>1
<1>5. q[Len(m) + 1] = "sp"
  <2>1. Len(m) + 1 \in 1 .. Len(u) /\ Len(m) + 1 \in 1 .. Len(v)
    BY <1>0, <1>1, <1>2
  <2> QED BY <1>1, <1>2, <1>3, <2>1
<1>6. ASSUME NEW i \in 1 .. Len(t) PROVE q[Len(m) + 1 + i] = t[i]
  <2>1. Len(m) + 1 + i = Len(u) + i /\ Len(u) + i \in 1 .. Len(v)
    BY <1>0, <1>1, <1>2
  <2> QED BY <1>2, <1>3, <2>1
<1>7. Len(v) = Len(m) + Len(t) + 1 /\ Len(q) = Len(m) + Len(t) + 3
  BY <1>0, <1>1, <1>2, <1>3
<1>8. q[Len(m) + Len(t) + 2] = "sp" /\ q[Len(m) + Len(t) + 3] = "HTTP/1.1"
  <2>1. Len(m) + Len(t) + 2 = Len(v) + 1 /\ Len(m) + Len(t) + 3 = Len(v) + 2
    BY <1>0, <1>7
  <2> QED BY <1>3, <2>1
<1> QED BY <1>3, <1>4, <1>5, <1>6, <1>7, <1>8 DEF q, v, u

(* It has no end of a line in it.                                          *)
LEMMA RequestLineIsOne ==
  ASSUME NEW r, WellFormed(r)
  PROVE  /\ RequestLine(r) \in Seq(Symbols) /\ RequestLine(r) # <<>>
         /\ \A i \in 1 .. Len(RequestLine(r)) : RequestLine(r)[i] \notin {"cr", "lf"}
<1> DEFINE m == r.method
           t == r.target
           q == RequestLine(r)
<1>1. /\ m \in Seq(Symbols) /\ t \in Seq(Symbols) /\ Len(m) \in Nat \ {0} /\ Len(t) \in Nat \ {0}
      /\ \A i \in 1 .. Len(m) : m[i] \notin {"cr", "lf"}
      /\ \A i \in 1 .. Len(t) : t[i] \notin {"cr", "lf"}
  BY SymbolsOf
<1>2. /\ q \in Seq(Symbols) /\ Len(q) = Len(m) + Len(t) + 3
      /\ \A i \in 1 .. Len(m) : q[i] = m[i]
      /\ q[Len(m) + 1] = "sp"
      /\ \A i \in 1 .. Len(t) : q[Len(m) + 1 + i] = t[i]
      /\ q[Len(m) + Len(t) + 2] = "sp" /\ q[Len(m) + Len(t) + 3] = "HTTP/1.1"
  BY <1>1, RequestLineRead DEF RequestLine
<1> HIDE DEF m, t, q
<1>3. q # <<>>
  BY <1>1, <1>2
<1>4. ASSUME NEW i \in 1 .. Len(q) PROVE q[i] \notin {"cr", "lf"}
  <2> DEFINE j == i - (Len(m) + 1)
  <2>1. \/ i \in 1 .. Len(m) \/ i = Len(m) + 1
        \/ j \in 1 .. Len(t) /\ i = Len(m) + 1 + j
        \/ i = Len(m) + Len(t) + 2 \/ i = Len(m) + Len(t) + 3
    <3>1. Len(m) \in Nat /\ Len(t) \in Nat /\ i \in 1 .. Len(m) + Len(t) + 3
      BY <1>1, <1>2
    <3> QED BY <3>1
  <2> HIDE DEF j
  <2> QED BY <1>1, <1>2, <2>1
<1> QED BY <1>2, <1>3, <1>4 DEF q

LEMMA HeaderBlockLined ==
  ASSUME NEW r, WellFormed(r)
  PROVE  IF r.headers = <<>> THEN HeaderBlock(r) = <<>>
         ELSE Lined(HeaderBlock(r), Range(r.headers))
<1> DEFINE hs == r.headers
           seqs == [i \in DOMAIN hs |-> hs[i] \o Eol]
<1>1. /\ Len(hs) \in Nat /\ DOMAIN hs = 1 .. Len(hs)
      /\ \A i \in 1 .. Len(hs) :
           /\ hs[i] \in Seq(Symbols) /\ hs[i] # <<>>
           /\ \A k \in 1 .. Len(hs[i]) : hs[i][k] \notin {"cr", "lf"}
  <2>1. hs \in Seq(Seq(Line) \ {<<>>})
    BY DEF WellFormed
  <2>2. Len(hs) \in Nat /\ DOMAIN hs = 1 .. Len(hs)
    BY <2>1
  <2> QED BY <2>2, SymbolsOf
<1>2. CASE hs = <<>>
  <2>1. seqs = <<>>
    BY <1>2
  <2>2. FlattenSeq(<<>>) = <<>>
    BY DEF FlattenSeq
  <2> QED BY <1>2, <2>1, <2>2 DEF HeaderBlock
<1>3. CASE hs # <<>>
  <2>1. \A i \in 1 .. Len(hs) : hs[i] \o Eol \in Seq(Symbols)
    BY <1>1, EolAppended
  <2>2. seqs \in Seq(Seq(Symbols)) /\ Len(seqs) = Len(hs) /\ Len(hs) \in Nat \ {0}
    <3>1. hs \in Seq(Seq(Line) \ {<<>>})
      BY DEF WellFormed
    <3>2. Len(hs) \in Nat \ {0}
      BY <1>3, <3>1
    <3> QED BY <1>1, <2>1, <3>2
  <2>3. \A i \in 1 .. Len(hs) : hs[i] \in Range(hs)
    BY <1>1 DEF Range
  <2>4. \A i \in 1 .. Len(hs) : Lined(hs[i] \o Eol, Range(hs))
    BY <1>1, <2>3, OneLine
  <2>5. Range(hs) \in SUBSET Seq(Symbols)
    BY <1>1 DEF Range
  <2>6. \A i \in 1 .. Len(seqs) : Lined(seqs[i], Range(hs))
    BY <1>1, <2>2, <2>4
  <2> HIDE DEF seqs
  <2>7. Lined(FlattenSeq(seqs), Range(hs))
    BY <2>2, <2>5, <2>6, FlattenedLines
  <2> QED BY <1>3, <2>7 DEF HeaderBlock, seqs
<1> QED BY <1>2, <1>3

(* All before the blank line's second half are lines; those behind the     *)
(* first are headers.                                                      *)
LEMMA HeadRead ==
  ASSUME NEW r, WellFormed(r)
  PROVE  LET q == RequestLine(r)
             head == HeadOf(r)
         IN /\ Lined(head, {q} \cup Range(r.headers))
            /\ \A i \in 1 .. Len(q) : head[i] = q[i]
            /\ head[Len(q) + 1] = "cr" /\ head[Len(q) + 2] = "lf"
            /\ IF r.headers = <<>> THEN Len(head) = Len(q) + 2 ELSE Len(head) >= Len(q) + 4
            /\ \A l \in Len(q) + 3 .. Len(head) :
                 l = Len(q) + 3 \/ head[l - 1] = "lf" =>
                   \E h \in Range(r.headers) : LineAt(head, l, h)
<1> DEFINE q == RequestLine(r)
           u == q \o Eol
           b == HeaderBlock(r)
           head == u \o b
           L == {q} \cup Range(r.headers)
<1>1. /\ q \in Seq(Symbols) /\ q # <<>>
      /\ \A i \in 1 .. Len(q) : q[i] \notin {"cr", "lf"}
  BY RequestLineIsOne
<1>2. /\ u \in Seq(Symbols) /\ Len(u) = Len(q) + 2
      /\ \A i \in 1 .. Len(q) : u[i] = q[i]
      /\ u[Len(q) + 1] = "cr" /\ u[Len(q) + 2] = "lf"
  <2>1. q \in Seq(Symbols)
    BY <1>1
  <2> HIDE DEF q
  <2> QED BY <2>1, EolAppended
<1>3. Lined(u, L)
  <2>1. q \in L
    OBVIOUS
  <2> HIDE DEF q, L
  <2> QED BY <1>1, <2>1, OneLine
<1>4. Range(r.headers) \in SUBSET Seq(Symbols) /\ L \in SUBSET Seq(Symbols)
  <2>1. r.headers \in Seq(Seq(Line) \ {<<>>})
    BY DEF WellFormed
  <2>2. DOMAIN r.headers = 1 .. Len(r.headers)
    BY <2>1
  <2>3. Range(r.headers) \subseteq Seq(Symbols)
    BY <2>2, SymbolsOf DEF Range
  <2> QED BY <1>1, <2>3
<1>5. HeadOf(r) = head
  BY DEF HeadOf
<1>6. IF r.headers = <<>> THEN b = <<>> ELSE Lined(b, Range(r.headers))
  BY HeaderBlockLined
<1> HIDE DEF u, b
<1>7. CASE r.headers = <<>>
  <2>1. head = u
    BY <1>2, <1>6, <1>7
  <2>2. \A l \in Len(q) + 3 .. Len(u) : FALSE
    <3>1. Len(q) \in Nat
      BY <1>1
    <3> HIDE DEF q
    <3> QED BY <1>2, <3>1
  <2> HIDE DEF q, L, head
  <2> QED BY <1>2, <1>3, <1>5, <1>7, <2>1, <2>2 DEF q, L
<1>8. CASE r.headers # <<>>
  <2>1. Lined(b, Range(r.headers))
    BY <1>6, <1>8
  <2>2. b \in Seq(Symbols) /\ Len(b) >= 2
    BY <2>1 DEF Lined
  <2>3. /\ head \in Seq(Symbols) /\ Len(head) = Len(u) + Len(b)
        /\ \A i \in 1 .. Len(u) : head[i] = u[i]
        /\ \A i \in 1 .. Len(b) : head[Len(u) + i] = b[i]
    <3>1. u \in Seq(Symbols) /\ b \in Seq(Symbols)
      BY <1>2, <2>2
    <3> QED BY <3>1, JoinedParts
  <2>4. \A h \in Range(r.headers), j \in Nat \ {0} : LineAt(b, j, h) => LineAt(head, Len(u) + j, h)
    <3>1. u \in Seq(Symbols) /\ b \in Seq(Symbols) /\ Range(r.headers) \subseteq Seq(Symbols)
      BY <1>2, <1>4, <2>2
    <3> QED BY <3>1, LineMoved
  <2>5. Lined(head, L)
    <3>1. Lined(b, L)
      <4>1. Range(r.headers) \subseteq L
        OBVIOUS
      <4> HIDE DEF L
      <4> QED BY <2>1, <4>1 DEF Lined
    <3> HIDE DEF L
    <3> QED BY <1>3, <1>4, <3>1, LinesJoined
  <2>6. Len(q) \in Nat /\ Len(b) \in Nat
    BY <1>1, <2>2
  <2> HIDE DEF q, L, head
  <2>7. Len(head) >= Len(q) + 4
    BY <1>2, <2>2, <2>3, <2>6
  <2>8. /\ \A i \in 1 .. Len(q) : head[i] = q[i]
        /\ head[Len(q) + 1] = "cr" /\ head[Len(q) + 2] = "lf"
    <3>1. \A i \in 1 .. Len(q) + 2 : head[i] = u[i]
      BY <1>2, <2>3
    <3> QED BY <1>2, <2>6, <3>1
  <2>9. ASSUME NEW l \in Len(q) + 3 .. Len(head), l = Len(q) + 3 \/ head[l - 1] = "lf"
        PROVE  \E h \in Range(r.headers) : LineAt(head, l, h)
    <3> DEFINE j == l - Len(u)
    <3>1. Len(u) = Len(q) + 2 /\ Len(head) = Len(q) + 2 + Len(b)
      BY <1>2, <2>3
    <3>2. /\ j \in 1 .. Len(b) /\ j \in Nat \ {0} /\ Len(u) + j = l
          /\ j = 1 \/ (l # Len(q) + 3 /\ j - 1 \in 1 .. Len(b) /\ Len(u) + (j - 1) = l - 1)
      BY <2>6, <3>1
    <3> HIDE DEF j
    <3>3. j = 1 \/ b[j - 1] = "lf"
      BY <2>3, <2>9, <3>2
    <3>4. PICK h \in Range(r.headers) : LineAt(b, j, h)
      BY <2>1, <3>2, <3>3 DEF Lined
    <3> QED BY <2>4, <3>2, <3>4
  <2> QED BY <1>5, <1>8, <2>5, <2>7, <2>8, <2>9 DEF q, L
<1> QED BY <1>7, <1>8

LEMMA RenderedRead ==
  ASSUME NEW r, WellFormed(r)
  PROVE  LET head == HeadOf(r)
             x == Rendered(r)
         IN /\ x \in Seq(Symbols) /\ Len(x) = Len(head) + 2 + Len(r.body)
            /\ \A i \in 1 .. Len(head) : x[i] = head[i]
            /\ x[Len(head) + 1] = "cr" /\ x[Len(head) + 2] = "lf"
            /\ \A i \in 1 .. Len(r.body) : x[Len(head) + 2 + i] = r.body[i]
<1> DEFINE head == HeadOf(r)
           u == head \o Eol
           x == u \o r.body
<1>1. head \in Seq(Symbols)
  BY HeadRead DEF Lined
<1>2. r.body \in Seq(Symbols)
  BY SymbolsOf
<1>3. x = Rendered(r)
  BY DEF Rendered, HeadOf, RequestLine, HeaderBlock
<1> HIDE DEF head
<1>4. /\ u \in Seq(Symbols) /\ Len(u) = Len(head) + 2
      /\ \A i \in 1 .. Len(head) : u[i] = head[i]
      /\ u[Len(head) + 1] = "cr" /\ u[Len(head) + 2] = "lf"
  BY <1>1, EolAppended
<1> HIDE DEF u
<1>5. /\ x \in Seq(Symbols) /\ Len(x) = Len(u) + Len(r.body)
      /\ \A i \in 1 .. Len(u) : x[i] = u[i]
      /\ \A i \in 1 .. Len(r.body) : x[Len(u) + i] = r.body[i]
  <2>1. u \in Seq(Symbols)
    BY <1>4
  <2> QED BY <1>2, <2>1, JoinedParts
<1> HIDE DEF x
<1>6. Len(head) \in Nat /\ Len(r.body) \in Nat
  BY <1>1, <1>2
<1>7. \A i \in 1 .. Len(head) + 2 : x[i] = u[i]
  BY <1>4, <1>5
<1>8. /\ \A i \in 1 .. Len(head) : x[i] = head[i]
      /\ x[Len(head) + 1] = "cr" /\ x[Len(head) + 2] = "lf"
  BY <1>4, <1>6, <1>7
<1> QED BY <1>3, <1>4, <1>5, <1>8 DEF head

(* No blank line begins before the last line of the head ends.             *)
LEMMA FirstBlank ==
  ASSUME NEW r, WellFormed(r)
  PROVE  LET c == Len(HeadOf(r)) IN
         /\ BlankAt(Rendered(r), c - 1)
         /\ \A i \in 1 .. c - 2 : ~BlankAt(Rendered(r), i)
<1> DEFINE head == HeadOf(r)
           c == Len(head)
           x == Rendered(r)
           L == {RequestLine(r)} \cup Range(r.headers)
<1>1. /\ head \in Seq(Symbols) /\ c >= 2 /\ head[c - 1] = "cr" /\ head[c] = "lf"
      /\ \A l \in 1 .. c : l = 1 \/ head[l - 1] = "lf" => \E h \in L : LineAt(head, l, h)
  BY HeadRead DEF Lined
<1>2. /\ \A i \in 1 .. c : x[i] = head[i]
      /\ x[c + 1] = "cr" /\ x[c + 2] = "lf"
  BY RenderedRead
<1>3. \A h \in L : Len(h) \in Nat \ {0} /\ h[1] \notin {"cr", "lf"}
  <2>1. /\ RequestLine(r) \in Seq(Symbols) /\ RequestLine(r) # <<>>
        /\ \A i \in 1 .. Len(RequestLine(r)) : RequestLine(r)[i] \notin {"cr", "lf"}
    BY RequestLineIsOne
  <2>2. ASSUME NEW i \in 1 .. Len(r.headers)
        PROVE  Len(r.headers[i]) \in Nat \ {0} /\ r.headers[i][1] \notin {"cr", "lf"}
    <3>1. /\ r.headers[i] \in Seq(Symbols) /\ r.headers[i] # <<>>
          /\ \A k \in 1 .. Len(r.headers[i]) : r.headers[i][k] \notin {"cr", "lf"}
      BY SymbolsOf
    <3> QED BY <3>1
  <2>3. DOMAIN r.headers = 1 .. Len(r.headers)
    <3>1. r.headers \in Seq(Seq(Line) \ {<<>>})
      BY DEF WellFormed
    <3> QED BY <3>1
  <2> QED BY <2>1, <2>2, <2>3 DEF Range
<1>4. c \in Nat
  BY <1>1
<1> HIDE DEF head, c, x, L
<1>5. BlankAt(x, c - 1)
  <2>1. c - 1 \in 1 .. c /\ c \in 1 .. c /\ c - 1 + 1 = c /\ c - 1 + 2 = c + 1 /\ c - 1 + 3 = c + 2
    BY <1>1, <1>4
  <2> QED BY <1>1, <1>2, <2>1 DEF BlankAt
<1>6. ASSUME NEW i \in 1 .. c - 2, BlankAt(x, i) PROVE FALSE
  <2>1. /\ i + 1 \in 1 .. c /\ i + 2 \in 1 .. c /\ i + 2 - 1 = i + 1
        /\ i + 2 + 1 - 1 = i + 2
    BY <1>4
  <2>2. head[i + 1] = "lf" /\ head[i + 2] = "cr"
    BY <1>2, <1>6, <2>1 DEF BlankAt
  <2>3. PICK h \in L : LineAt(head, i + 2, h)
    BY <1>1, <2>1, <2>2
  <2>4. head[i + 2] = h[1]
    <3>1. 1 \in 1 .. Len(h)
      BY <1>3
    <3> QED BY <2>1, <2>3, <3>1 DEF LineAt
  <2> QED BY <1>3, <2>2, <2>4
<1> QED BY <1>5, <1>6 DEF c, head, x

LEMMA BeginningRead ==
  ASSUME NEW r, WellFormed(r)
  PROVE  LET x == Rendered(r)
             a == Len(r.method)
             b == Len(r.target)
             c == Len(HeadOf(r))
         IN /\ a \in Nat \ {0} /\ b \in Nat \ {0} /\ c \in Nat
            /\ IF r.headers = <<>> THEN c = a + b + 5 ELSE c >= a + b + 7
            /\ \A i \in 1 .. a : x[i] = r.method[i] /\ x[i] \notin {"sp", "cr", "lf"}
            /\ x[a + 1] = "sp"
            /\ \A i \in 1 .. b : x[a + 1 + i] = r.target[i] /\ x[a + 1 + i] \notin {"sp", "cr", "lf"}
            /\ x[a + b + 2] = "sp" /\ x[a + b + 3] = "HTTP/1.1"
            /\ x[a + b + 4] = "cr" /\ x[a + b + 5] = "lf"
<1> DEFINE m == r.method
           t == r.target
           a == Len(m)
           b == Len(t)
           q == RequestLine(r)
           head == HeadOf(r)
           c == Len(head)
           x == Rendered(r)
<1>1. /\ m \in Seq(Symbols) /\ t \in Seq(Symbols) /\ a \in Nat \ {0} /\ b \in Nat \ {0}
      /\ \A i \in 1 .. a : m[i] \notin {"sp", "cr", "lf"}
      /\ \A i \in 1 .. b : t[i] \notin {"sp", "cr", "lf"}
  BY SymbolsOf
<1>2. /\ Len(q) = a + b + 3
      /\ \A i \in 1 .. a : q[i] = m[i]
      /\ q[a + 1] = "sp"
      /\ \A i \in 1 .. b : q[a + 1 + i] = t[i]
      /\ q[a + b + 2] = "sp" /\ q[a + b + 3] = "HTTP/1.1"
  <2>1. m \in Seq(Symbols) /\ t \in Seq(Symbols)
    BY <1>1
  <2> HIDE DEF m, t
  <2> DEFINE y == m \o <<"sp">> \o t \o <<"sp", "HTTP/1.1">>
  <2>2. q = y
    BY DEF RequestLine, m, t
  <2>3. /\ Len(y) = Len(m) + Len(t) + 3
        /\ \A i \in 1 .. Len(m) : y[i] = m[i]
        /\ y[Len(m) + 1] = "sp"
        /\ \A i \in 1 .. Len(t) : y[Len(m) + 1 + i] = t[i]
        /\ y[Len(m) + Len(t) + 2] = "sp" /\ y[Len(m) + Len(t) + 3] = "HTTP/1.1"
    BY <2>1, RequestLineRead
  <2> HIDE DEF y, q
  <2> QED BY <2>2, <2>3
<1>3. /\ \A i \in 1 .. Len(q) : head[i] = q[i]
      /\ head[Len(q) + 1] = "cr" /\ head[Len(q) + 2] = "lf"
      /\ IF r.headers = <<>> THEN c = Len(q) + 2 ELSE c >= Len(q) + 4
      /\ c \in Nat
  BY HeadRead DEF Lined
<1>4. \A i \in 1 .. c : x[i] = head[i]
  BY RenderedRead
<1> HIDE DEF m, t, a, b, q, head, c, x
<1>5. /\ c >= a + b + 5 /\ Len(q) + 1 = a + b + 4 /\ Len(q) + 2 = a + b + 5
      /\ IF r.headers = <<>> THEN c = a + b + 5 ELSE c >= a + b + 7
  BY <1>1, <1>2, <1>3
<1>6. \A i \in 1 .. a + b + 3 : x[i] = q[i]
  BY <1>1, <1>2, <1>3, <1>4, <1>5
<1>7. x[a + b + 4] = "cr" /\ x[a + b + 5] = "lf"
  <2>1. a + b + 4 \in 1 .. c /\ a + b + 5 \in 1 .. c
    BY <1>1, <1>3, <1>5
  <2> QED BY <1>3, <1>4, <1>5, <2>1
<1>8. ASSUME NEW i \in 1 .. a PROVE x[i] = m[i]
  <2>1. i \in 1 .. a + b + 3
    BY <1>1
  <2> QED BY <1>2, <1>6, <2>1
<1>9. ASSUME NEW i \in 1 .. b PROVE x[a + 1 + i] = t[i]
  <2>1. a + 1 + i \in 1 .. a + b + 3
    BY <1>1
  <2> QED BY <1>2, <1>6, <2>1
<1>10. x[a + 1] = "sp" /\ x[a + b + 2] = "sp" /\ x[a + b + 3] = "HTTP/1.1"
  <2>1. a + 1 \in 1 .. a + b + 3 /\ a + b + 2 \in 1 .. a + b + 3 /\ a + b + 3 \in 1 .. a + b + 3
    BY <1>1
  <2> QED BY <1>2, <1>6, <2>1
<1> QED BY <1>1, <1>3, <1>5, <1>7, <1>8, <1>9, <1>10 DEF x, a, b, c, head, m, t
-----------------------------------------------------------------------------
(* Where the parsers find what they look for, however much has arrived.    *)
LEMMA PlacesFound ==
  ASSUME NEW r, WellFormed(r), NEW n \in 1 .. Len(Rendered(r))
  PROVE  LET s == SubSeq(Rendered(r), 1, n)
             a == Len(r.method)
             b == Len(r.target)
             c == Len(HeadOf(r))
         IN /\ Find(s, <<"sp">>, 1) = IF n > a THEN a + 1 ELSE 0
            /\ n > a =>
                 Find(s, <<"sp">>, a + 2) = IF n > a + b + 1 THEN a + b + 2 ELSE 0
            /\ n > a + b + 1 =>
                 Find(s, Eol, a + b + 2) = IF n > a + b + 4 THEN a + b + 4 ELSE 0
            /\ n > a + b + 4 =>
                 Find(s, BlankLine, a + b + 6) =
                   IF r.headers # <<>> /\ n > c + 1 THEN c - 1 ELSE 0
            /\ Find(s, BlankLine, 1) = IF n > c + 1 THEN c - 1 ELSE 0
<1> DEFINE x == Rendered(r)
           s == SubSeq(x, 1, n)
           a == Len(r.method)
           b == Len(r.target)
           c == Len(HeadOf(r))
<1>1. /\ a \in Nat \ {0} /\ b \in Nat \ {0} /\ c \in Nat
      /\ IF r.headers = <<>> THEN c = a + b + 5 ELSE c >= a + b + 7
      /\ \A i \in 1 .. a : x[i] \notin {"sp", "cr", "lf"}
      /\ x[a + 1] = "sp"
      /\ \A i \in 1 .. b : x[a + 1 + i] \notin {"sp", "cr", "lf"}
      /\ x[a + b + 2] = "sp" /\ x[a + b + 3] = "HTTP/1.1"
      /\ x[a + b + 4] = "cr" /\ x[a + b + 5] = "lf"
  BY BeginningRead
<1>2. x \in Seq(Symbols) /\ Len(x) = c + 2 + Len(r.body) /\ Len(r.body) \in Nat
  <2>1. x \in Seq(Symbols) /\ Len(x) = c + 2 + Len(r.body)
    BY RenderedRead
  <2>2. r.body \in Seq(Symbols)
    BY SymbolsOf
  <2> QED BY <2>1, <2>2
<1>3. s \in Seq(Symbols) /\ Len(s) = n /\ n \in Nat /\ \A i \in 1 .. n : s[i] = x[i]
  <2>1. x \in Seq(Symbols)
    BY <1>2
  <2>2. n \in 1 .. Len(x)
    OBVIOUS
  <2> HIDE DEF x
  <2> QED BY <2>1, <2>2, CutRead
<1>4. BlankAt(x, c - 1) /\ \A i \in 1 .. c - 2 : ~BlankAt(x, i)
  BY FirstBlank
<1> HIDE DEF x, s, a, b, c
<1>4a. a \in Nat /\ b \in Nat /\ c \in Nat /\ n \in Nat
  BY <1>1, <1>3
<1>5. Find(s, <<"sp">>, 1) = IF n > a THEN a + 1 ELSE 0
  <2> DEFINE f == Find(s, <<"sp">>, 1)
  <2>1. \/ f = 0 /\ \A i \in 1 .. n : s[i] # "sp"
        \/ f \in 1 .. n /\ s[f] = "sp" /\ \A i \in 1 .. f - 1 : s[i] # "sp"
    BY <1>3, FindSymbol
  <2> HIDE DEF f
  <2>2. CASE n > a
    <3>1. a + 1 \in 1 .. n /\ s[a + 1] = "sp"
      <4>1. a + 1 \in 1 .. n
        BY <1>4a, <2>2
      <4> QED BY <1>1, <1>3, <4>1
    <3>2. f \in 1 .. n /\ s[f] = "sp" /\ \A i \in 1 .. f - 1 : s[i] # "sp"
      BY <2>1, <3>1
    <3>3. f \notin 1 .. a
      <4>1. s[f] = x[f]
        BY <1>3, <3>2
      <4> QED BY <1>1, <3>2, <4>1
    <3>4. ~(a + 1 < f)
      <4>1. a + 1 < f => a + 1 \in 1 .. f - 1
        BY <1>4a, <3>2
      <4> QED BY <3>1, <3>2, <4>1
    <3>5. f = a + 1
      <4>1. a \in Nat /\ f \in Nat /\ ~(a + 1 < f) /\ ~(f < a + 1)
        BY <1>4a, <3>2, <3>3, <3>4
      <4> QED BY <4>1
    <3> QED BY <2>2, <3>5 DEF f
  <2>3. CASE ~(n > a)
    <3>1. \A i \in 1 .. n : i \in 1 .. a /\ s[i] # "sp"
      BY <1>1, <1>3, <2>3
    <3>2. f = 0
      BY <2>1, <3>1
    <3> QED BY <2>3, <3>2 DEF f
  <2> QED BY <2>2, <2>3 DEF f
<1>6. ASSUME n > a
      PROVE  Find(s, <<"sp">>, a + 2) = IF n > a + b + 1 THEN a + b + 2 ELSE 0
  <2> DEFINE f == Find(s, <<"sp">>, a + 2)
  <2>1. \/ f = 0 /\ \A i \in a + 2 .. n : s[i] # "sp"
        \/ f \in a + 2 .. n /\ s[f] = "sp" /\ \A i \in a + 2 .. f - 1 : s[i] # "sp"
    <3>1. a + 2 \in Nat \ {0}
      BY <1>1
    <3> QED BY <1>3, <3>1, FindSymbol
  <2> HIDE DEF f
  <2>2. \A i \in a + 2 .. a + b + 1 : x[i] # "sp"
    <3> SUFFICES ASSUME NEW i \in a + 2 .. a + b + 1 PROVE x[i] # "sp"
      OBVIOUS
    <3>1. i - (a + 1) \in 1 .. b /\ a + 1 + (i - (a + 1)) = i
      BY <1>1
    <3> QED BY <1>1, <3>1
  <2>3. CASE n > a + b + 1
    <3>1. a + b + 2 \in a + 2 .. n /\ s[a + b + 2] = "sp"
      <4>1. a + b + 2 \in a + 2 .. n /\ a + b + 2 \in 1 .. n
        BY <1>4a, <2>3
      <4> QED BY <1>1, <1>3, <4>1
    <3>2. f \in a + 2 .. n /\ s[f] = "sp" /\ \A i \in a + 2 .. f - 1 : s[i] # "sp"
      BY <2>1, <3>1
    <3>3. f \notin a + 2 .. a + b + 1
      <4>1. f \in 1 .. n
        BY <1>4a, <3>2
      <4>2. s[f] = x[f]
        BY <1>3, <4>1
      <4> QED BY <2>2, <3>2, <4>2
    <3>4. ~(a + b + 2 < f)
      <4>1. a + b + 2 < f => a + b + 2 \in a + 2 .. f - 1
        BY <1>4a, <3>2
      <4> QED BY <3>1, <3>2, <4>1
    <3>5. f = a + b + 2
      <4>1. /\ a \in Nat /\ b \in Nat /\ f \in Nat /\ a + 2 <= f
            /\ ~(a + b + 2 < f) /\ ~(a + 2 <= f /\ f <= a + b + 1)
        BY <1>4a, <3>2, <3>3, <3>4
      <4> QED BY <4>1
    <3> QED BY <2>3, <3>5 DEF f
  <2>4. CASE ~(n > a + b + 1)
    <3>1. \A i \in a + 2 .. n : i \in a + 2 .. a + b + 1 /\ s[i] = x[i]
      <4>1. \A i \in a + 2 .. n : i \in a + 2 .. a + b + 1 /\ i \in 1 .. n
        BY <1>4a, <2>4
      <4> QED BY <1>3, <4>1
    <3>2. f = 0
      BY <2>1, <2>2, <3>1
    <3> QED BY <2>4, <3>2 DEF f
  <2> QED BY <2>3, <2>4 DEF f
<1>7. ASSUME n > a + b + 1
      PROVE  Find(s, Eol, a + b + 2) = IF n > a + b + 4 THEN a + b + 4 ELSE 0
  <2> DEFINE f == Find(s, Eol, a + b + 2)
  <2>1. \/ f = 0 /\ \A i \in a + b + 2 .. n - 1 : ~(s[i] = "cr" /\ s[i + 1] = "lf")
        \/ /\ f \in a + b + 2 .. n - 1 /\ s[f] = "cr" /\ s[f + 1] = "lf"
           /\ \A i \in a + b + 2 .. f - 1 : ~(s[i] = "cr" /\ s[i + 1] = "lf")
    <3>1. a + b + 2 \in Nat \ {0}
      BY <1>1
    <3> QED BY <1>3, <3>1, FindEol
  <2> HIDE DEF f
  <2>2. \A i \in a + b + 2 .. n : i < a + b + 4 => s[i] # "cr"
    <3> SUFFICES ASSUME NEW i \in a + b + 2 .. n, i < a + b + 4 PROVE s[i] # "cr"
      OBVIOUS
    <3>1. i \in 1 .. n /\ (i = a + b + 2 \/ i = a + b + 3)
      BY <1>4a
    <3> QED BY <1>1, <1>3, <3>1
  <2>3. CASE n > a + b + 4
    <3>1. /\ a + b + 4 \in a + b + 2 .. n - 1 /\ s[a + b + 4] = "cr"
          /\ a + b + 4 + 1 = a + b + 5 /\ s[a + b + 5] = "lf"
      <4>1. /\ a + b + 4 \in a + b + 2 .. n - 1 /\ a + b + 4 + 1 = a + b + 5
            /\ a + b + 4 \in 1 .. n /\ a + b + 5 \in 1 .. n
        <5>1. a \in Nat /\ b \in Nat /\ n \in Nat
          BY <1>1, <1>3
        <5> QED BY <2>3, <5>1
      <4> QED BY <1>1, <1>3, <4>1
    <3>2. /\ f \in a + b + 2 .. n - 1 /\ s[f] = "cr"
          /\ \A i \in a + b + 2 .. f - 1 : ~(s[i] = "cr" /\ s[i + 1] = "lf")
      BY <2>1, <3>1
    <3>3. ~(f < a + b + 4)
      <4>1. f \in a + b + 2 .. n
        BY <1>4a, <3>2
      <4> QED BY <2>2, <3>2, <4>1
    <3>4. ~(a + b + 4 < f)
      <4>1. a + b + 4 < f => a + b + 4 \in a + b + 2 .. f - 1
        BY <1>4a, <3>2
      <4> QED BY <3>1, <3>2, <4>1
    <3>5. f = a + b + 4
      <4>1. /\ a \in Nat /\ b \in Nat /\ f \in Nat
            /\ ~(a + b + 4 < f) /\ ~(f < a + b + 4)
        BY <1>4a, <3>2, <3>3, <3>4
      <4> QED BY <4>1
    <3> QED BY <2>3, <3>5 DEF f
  <2>4. CASE ~(n > a + b + 4)
    <3>1. \A i \in a + b + 2 .. n - 1 : i \in a + b + 2 .. n /\ i < a + b + 4
      BY <1>4a, <2>4
    <3>2. f = 0
      BY <2>1, <2>2, <3>1
    <3> QED BY <2>4, <3>2 DEF f
  <2> QED BY <2>3, <2>4 DEF f
<1>8. ASSUME NEW from \in 1 .. c - 1
      PROVE  Find(s, BlankLine, from) = IF n > c + 1 THEN c - 1 ELSE 0
  <2> DEFINE f == Find(s, BlankLine, from)
  <2>1. \/ f = 0 /\ \A i \in from .. n - 3 : ~BlankAt(s, i)
        \/ /\ f \in from .. n - 3 /\ BlankAt(s, f)
           /\ \A i \in from .. f - 1 : ~BlankAt(s, i)
    <3>1. from \in Nat \ {0}
      BY <1>1
    <3> QED BY <1>3, <3>1, FindBlank
  <2> HIDE DEF f
  <2>2. \A i \in 1 .. n - 3 : BlankAt(s, i) <=> BlankAt(x, i)
    <3> SUFFICES ASSUME NEW i \in 1 .. n - 3 PROVE BlankAt(s, i) <=> BlankAt(x, i)
      OBVIOUS
    <3>1. i \in 1 .. n /\ i + 1 \in 1 .. n /\ i + 2 \in 1 .. n /\ i + 3 \in 1 .. n
      BY <1>3
    <3> QED BY <1>3, <3>1 DEF BlankAt
  <2>3. CASE n > c + 1
    <3>1. c - 1 \in from .. n - 3 /\ c - 1 \in 1 .. n - 3
      BY <1>4a, <2>3
    <3>2. BlankAt(s, c - 1)
      BY <1>4, <2>2, <3>1
    <3>3. /\ f \in from .. n - 3 /\ BlankAt(s, f)
          /\ \A i \in from .. f - 1 : ~BlankAt(s, i)
      BY <2>1, <3>1, <3>2
    <3>4. ~(f < c - 1)
      <4> SUFFICES ASSUME f < c - 1 PROVE FALSE
        OBVIOUS
      <4>1. f \in 1 .. n - 3 /\ f \in 1 .. c - 2
        BY <1>4a, <3>3
      <4> QED BY <1>4, <2>2, <3>3, <4>1
    <3>5. ~(c - 1 < f)
      <4>1. c - 1 < f => c - 1 \in from .. f - 1
        BY <1>4a, <3>3
      <4> QED BY <3>2, <3>3, <4>1
    <3>6. f = c - 1
      <4>1. c \in Nat /\ f \in Nat /\ ~(f < c - 1) /\ ~(c - 1 < f)
        BY <1>4a, <3>3, <3>4, <3>5
      <4> QED BY <4>1
    <3> QED BY <2>3, <3>6 DEF f
  <2>4. CASE ~(n > c + 1)
    <3>1. \A i \in from .. n - 3 : i \in 1 .. n - 3 /\ i \in 1 .. c - 2
      BY <1>4a, <2>4
    <3>2. \A i \in from .. n - 3 : ~BlankAt(s, i)
      BY <1>4, <2>2, <3>1
    <3>3. f = 0
      BY <2>1, <3>2
    <3> QED BY <2>4, <3>3 DEF f
  <2> QED BY <2>3, <2>4 DEF f
<1>9. Find(s, BlankLine, 1) = IF n > c + 1 THEN c - 1 ELSE 0
  <2>1. 1 \in 1 .. c - 1
    BY <1>1
  <2> QED BY <1>8, <2>1
<1>10. ASSUME n > a + b + 4
       PROVE  Find(s, BlankLine, a + b + 6) =
                IF r.headers # <<>> /\ n > c + 1 THEN c - 1 ELSE 0
  <2>1. CASE r.headers # <<>>
    <3>1. a + b + 6 \in 1 .. c - 1
      BY <1>1, <2>1
    <3> QED BY <1>8, <2>1, <3>1
  <2>2. CASE r.headers = <<>>
    <3>1. Len(r.body) = 0
      BY <2>2 DEF WellFormed
    <3>2. c = a + b + 5 /\ n <= a + b + 7
      BY <1>1, <1>2, <2>2, <3>1 DEF x
    <3>3. a + b + 6 \in Nat \ {0} /\ \A i \in a + b + 6 .. n - 3 : FALSE
      BY <1>4a, <3>2
    <3> QED BY <1>3, <2>2, <3>3, FindBlank
  <2> QED BY <2>1, <2>2
<1> QED BY <1>5, <1>6, <1>7, <1>9, <1>10 DEF s, x, a, b, c
-----------------------------------------------------------------------------
(* Parts of a sequence, and beginnings.                                    *)
LEMMA PrefixRead ==
  ASSUME NEW S, NEW u \in Seq(S), NEW v \in Seq(S), Len(u) <= Len(v),
         \A i \in 1 .. Len(u) : u[i] = v[i]
  PROVE  IsPrefix(u, v)
<1>1. SubSeq(v, 0 + 1, 0 + Len(u)) = u
  BY PartRead
<1>2. SubSeq(u, 0 + 1, 0 + Len(u)) = u
  BY PartRead
<1>3. 0 + 1 = 1 /\ 0 + Len(u) = Len(u)
  OBVIOUS
<1> QED BY <1>1, <1>2, <1>3 DEF IsPrefix

(* Every line of the headers is one the client sent.                       *)
LEMMA HeaderLineAt ==
  ASSUME NEW r, WellFormed(r),
         NEW l \in Len(r.method) + Len(r.target) + 6 .. Len(HeadOf(r)),
         l = Len(r.method) + Len(r.target) + 6 \/ Rendered(r)[l - 1] = "lf"
  PROVE  \E i \in 1 .. Len(r.headers) : LineAt(HeadOf(r), l, r.headers[i])
<1> DEFINE q == RequestLine(r)
           head == HeadOf(r)
           x == Rendered(r)
           a == Len(r.method)
           b == Len(r.target)
<1>1. r.method \in Seq(Symbols) /\ r.target \in Seq(Symbols) /\ a \in Nat /\ b \in Nat
  BY SymbolsOf
<1>2. Len(q) = a + b + 3
  <2>1. r.method \in Seq(Symbols) /\ r.target \in Seq(Symbols)
    BY <1>1
  <2> QED BY <2>1, RequestLineRead DEF RequestLine
<1>3. \A k \in Len(q) + 3 .. Len(head) :
        k = Len(q) + 3 \/ head[k - 1] = "lf" => \E h \in Range(r.headers) : LineAt(head, k, h)
  BY HeadRead
<1>4. Len(head) \in Nat /\ \A i \in 1 .. Len(head) : x[i] = head[i]
  <2>1. Len(head) \in Nat
    BY BeginningRead
  <2>2. \A i \in 1 .. Len(head) : x[i] = head[i]
    BY RenderedRead
  <2> QED BY <2>1, <2>2
<1>5. DOMAIN r.headers = 1 .. Len(r.headers)
  <2>1. r.headers \in Seq(Seq(Line) \ {<<>>})
    BY DEF WellFormed
  <2> QED BY <2>1
<1> HIDE DEF q, head, x, a, b
<1>6. l \in Len(q) + 3 .. Len(head) /\ l - 1 \in 1 .. Len(head)
  <2>1. l \in a + b + 6 .. Len(head)
    BY DEF a, b, head
  <2> QED BY <1>1, <1>2, <1>4, <2>1
<1>7. l = Len(q) + 3 \/ head[l - 1] = "lf"
  <2>1. l = a + b + 6 \/ x[l - 1] = "lf"
    BY DEF a, b, x
  <2> QED BY <1>1, <1>2, <1>4, <1>6, <2>1
<1>8. PICK h \in Range(r.headers) : LineAt(head, l, h)
  BY <1>3, <1>6, <1>7
<1> QED BY <1>5, <1>8 DEF Range, head

(* The one header to throw on ends at its colon.                           *)
LEMMA FatalHeader ==
  ASSUME NEW r, WellFormed(r), NEW n \in 1 .. Len(Rendered(r)),
         n > Len(HeadOf(r)) + 1,
         NEW line \in HeaderLines(SubSeq(Rendered(r), 1, n),
                                  Len(r.method) + Len(r.target) + 6, Len(HeadOf(r)) - 2),
         Fatal(SubSeq(Rendered(r), 1, n), line)
  PROVE  \E i \in 1 .. Len(r.headers) : EndsAtColon(r.headers[i])
<1> DEFINE x == Rendered(r)
           head == HeadOf(r)
           s == SubSeq(x, 1, n)
           from == Len(r.method) + Len(r.target) + 6
           c == Len(head)
           l == line[1]
<1>1. /\ l \in from .. c - 2 /\ line[2] \in from .. c - 2
      /\ l = from \/ SubSeq(s, l - 2, l - 1) = Eol
      /\ line[2] + 1 = Find(s, Eol, l)
  BY DEF HeaderLines
<1>2. Find(s, <<":">>, l) = line[2]
  BY DEF Fatal
<1>3. from \in Nat /\ from > 6 /\ c \in Nat
  <2>1. Len(r.method) \in Nat \ {0} /\ Len(r.target) \in Nat \ {0} /\ c \in Nat
    BY BeginningRead
  <2>2. \A a, b \in Nat \ {0} : a + b + 6 \in Nat /\ a + b + 6 > 6
    OBVIOUS
  <2>3. from \in Nat /\ from > 6
    BY <2>1, <2>2
  <2> QED BY <2>1, <2>3
<1>4. /\ x \in Seq(Symbols) /\ \A i \in 1 .. c : x[i] = head[i]
  BY RenderedRead
<1>5. s \in Seq(Symbols) /\ Len(s) = n /\ n \in Nat /\ \A i \in 1 .. n : s[i] = x[i]
  <2>1. x \in Seq(Symbols)
    BY <1>4
  <2>2. n \in 1 .. Len(x)
    OBVIOUS
  <2> HIDE DEF x
  <2> QED BY <2>1, <2>2, CutRead
<1>6. n > c + 1
  OBVIOUS
<1> HIDE DEF s, c, l
<1>7. l \in from .. c /\ l \in Nat \ {0} /\ l <= n /\ l - 1 \in 1 .. n /\ l - 2 \in 1 .. n
  <2>1. l \in from .. c - 2 /\ from \in Nat /\ from > 6 /\ c \in Nat /\ n \in Nat
    BY <1>1, <1>3, <1>5
  <2> HIDE DEF from
  <2> QED BY <1>6, <2>1
<1>8. l = from \/ x[l - 1] = "lf"
  <2> SUFFICES ASSUME SubSeq(s, l - 2, l - 1) = Eol PROVE x[l - 1] = "lf"
    BY <1>1
  <2>1. SubSeq(s, l - 2, l - 1)[2] = s[l - 1]
    BY <1>5, <1>7
  <2> QED BY <1>5, <1>7, <2>1, EolFacts
<1>9. PICK i \in 1 .. Len(r.headers) : LineAt(head, l, r.headers[i])
  <2> HIDE DEF x, head
  <2> QED BY <1>7, <1>8, HeaderLineAt DEF x, head, from, c
<1> DEFINE h == r.headers[i]
<1>10. /\ h \in Seq(Symbols) /\ Len(h) \in Nat \ {0}
       /\ \A k \in 1 .. Len(h) : h[k] \notin {"cr", "lf"}
  <2>1. /\ h \in Seq(Symbols) /\ h # <<>>
        /\ \A k \in 1 .. Len(h) : h[k] \notin {"cr", "lf"}
    BY SymbolsOf
  <2> QED BY <2>1
<1>11. /\ l + Len(h) + 1 <= c
       /\ \A k \in 1 .. Len(h) : head[l + k - 1] = h[k]
       /\ head[l + Len(h)] = "cr" /\ head[l + Len(h) + 1] = "lf"
  BY <1>9 DEF LineAt, c
<1> HIDE DEF h, x, head, from
<1>12. /\ \A k \in 1 .. Len(h) : s[l + k - 1] = h[k]
       /\ s[l + Len(h)] = "cr" /\ s[l + Len(h) + 1] = "lf"
       /\ l + Len(h) \in l .. n - 1
  <2>1. \A j \in 1 .. c : s[j] = head[j]
    BY <1>3, <1>4, <1>5, <1>6
  <2>2. /\ l + Len(h) \in 1 .. c /\ l + Len(h) + 1 \in 1 .. c /\ l + Len(h) \in l .. n - 1
        /\ \A k \in 1 .. Len(h) : l + k - 1 \in 1 .. c
    <3>1. l \in Nat \ {0} /\ Len(h) \in Nat /\ c \in Nat /\ n \in Nat
      BY <1>3, <1>5, <1>7, <1>10
    <3> QED BY <1>6, <1>11, <3>1
  <2> QED BY <1>11, <2>1, <2>2
<1>13. Find(s, Eol, l) = l + Len(h)
  <2> DEFINE f == Find(s, Eol, l)
  <2>1. \/ f = 0 /\ \A j \in l .. n - 1 : ~(s[j] = "cr" /\ s[j + 1] = "lf")
        \/ /\ f \in l .. n - 1 /\ s[f] = "cr" /\ s[f + 1] = "lf"
           /\ \A j \in l .. f - 1 : ~(s[j] = "cr" /\ s[j + 1] = "lf")
    BY <1>5, <1>7, FindEol
  <2> HIDE DEF f
  <2>2. /\ f \in l .. n - 1 /\ s[f] = "cr"
        /\ \A j \in l .. f - 1 : ~(s[j] = "cr" /\ s[j + 1] = "lf")
    BY <1>12, <2>1
  <2>3. ~(f < l + Len(h))
    <3> SUFFICES ASSUME f < l + Len(h) PROVE FALSE
      OBVIOUS
    <3>1. f - l + 1 \in 1 .. Len(h) /\ l + (f - l + 1) - 1 = f
      BY <1>5, <1>7, <1>10, <2>2
    <3> QED BY <1>10, <1>12, <2>2, <3>1
  <2>4. ~(l + Len(h) < f)
    BY <1>5, <1>7, <1>10, <1>12, <2>2
  <2>5. l \in Nat /\ Len(h) \in Nat /\ f \in Nat
    BY <1>5, <1>7, <1>10, <2>2
  <2>6. f = l + Len(h)
    BY <2>3, <2>4, <2>5
  <2> QED BY <2>6 DEF f
<1>14. line[2] = l + Len(h) - 1 /\ line[2] # 0
  <2>1. line[2] \in Nat
    BY <1>1, <1>3
  <2> QED BY <1>1, <1>7, <1>10, <1>13, <2>1
<1>15. /\ s[line[2]] = ":"
       /\ \A j \in l .. line[2] - 1 : s[j] # ":"
  <2> DEFINE f == Find(s, <<":">>, l)
  <2>1. \/ f = 0 /\ \A j \in l .. n : s[j] # ":"
        \/ f \in l .. n /\ s[f] = ":" /\ \A j \in l .. f - 1 : s[j] # ":"
    BY <1>5, <1>7, FindSymbol
  <2>2. f = line[2]
    BY <1>2
  <2> HIDE DEF f
  <2> QED BY <1>14, <2>1, <2>2
<1>16. h[Len(h)] = ":" /\ \A k \in 1 .. Len(h) - 1 : h[k] # ":"
  <2>1. Len(h) \in 1 .. Len(h)
    BY <1>10
  <2>2. ASSUME NEW k \in 1 .. Len(h) - 1 PROVE h[k] # ":"
    <3>1. l + k - 1 \in l .. line[2] - 1 /\ k \in 1 .. Len(h)
      BY <1>7, <1>10, <1>14
    <3> QED BY <1>12, <1>15, <3>1
  <2> QED BY <1>12, <1>14, <1>15, <2>1, <2>2
<1>17. Find(h, <<":">>, 1) = Len(h)
  <2> DEFINE f == Find(h, <<":">>, 1)
  <2>1. \/ f = 0 /\ \A k \in 1 .. Len(h) : h[k] # ":"
        \/ f \in 1 .. Len(h) /\ h[f] = ":" /\ \A k \in 1 .. f - 1 : h[k] # ":"
    BY <1>10, FindSymbol
  <2> HIDE DEF f
  <2>2. Len(h) \in 1 .. Len(h)
    BY <1>10
  <2>3. f \in 1 .. Len(h) /\ h[f] = ":"
    BY <1>16, <2>1, <2>2
  <2>4. f \notin 1 .. Len(h) - 1
    BY <1>16, <2>3
  <2>5. f = Len(h)
    BY <1>10, <2>3, <2>4
  <2> QED BY <2>5 DEF f
<1> QED BY <1>17 DEF EndsAtColon, h
-----------------------------------------------------------------------------
LEMMA HeadsBuilt ==
  ASSUME NEW m, NEW p
  PROVE  LET head == [method |-> m, path |-> <<>>, body |-> <<>>, throws |-> FALSE]
             line == [method |-> m, path |-> p, body |-> <<>>, throws |-> FALSE]
         IN /\ [Unparsed EXCEPT !.method = m] = head
            /\ [head EXCEPT !.path = p] = line
            /\ [line EXCEPT !.path = <<>>] = head
<1> DEFINE none == <<>>
           no == FALSE
           head == [method |-> m, path |-> none, body |-> none, throws |-> no]
           line == [method |-> m, path |-> p, body |-> none, throws |-> no]
<1>1. Unparsed = [method |-> none, path |-> none, body |-> none, throws |-> no]
  BY DEF Unparsed
<1> HIDE DEF none, no
<1>2. [Unparsed EXCEPT !.method = m] = head
  BY <1>1
<1>3. [head EXCEPT !.path = p] = line /\ [line EXCEPT !.path = none] = head
  OBVIOUS
<1> QED BY <1>2, <1>3 DEF none, no

(* What HttpRequest::parse() makes of what has arrived.                    *)
LEMMA ParseRead ==
  ASSUME NEW r, WellFormed(r), NEW n \in 1 .. Len(Rendered(r))
  PROVE  LET s == SubSeq(Rendered(r), 1, n)
             a == Len(r.method)
             b == Len(r.target)
             c == Len(HeadOf(r))
             rest == SubSeq(s, c + 3, n)
             path == Before(r.target, "?")
             line == [method |-> r.method, path |-> path, body |-> <<>>, throws |-> FALSE]
         IN Parse(s) =
              IF n <= a THEN Unparsed
              ELSE IF n <= a + b + 1 THEN [line EXCEPT !.path = <<>>]
              ELSE IF r.headers = <<>> \/ n <= c + 1 THEN line
              ELSE [line EXCEPT
                      !.throws = \E l \in HeaderLines(s, a + b + 6, c - 2) : Fatal(s, l),
                      !.body = IF rest # <<>> /\ Last(rest) = "cr" THEN Front(rest) ELSE rest]
<1> DEFINE x == Rendered(r)
           s == SubSeq(x, 1, n)
           a == Len(r.method)
           b == Len(r.target)
           c == Len(HeadOf(r))
           path == Before(r.target, "?")
           line == [method |-> r.method, path |-> path, body |-> <<>>, throws |-> FALSE]
           rest == SubSeq(s, c + 3, n)
           methodEnd == Find(s, <<"sp">>, 1)
           pathEnd == Find(s, <<"sp">>, methodEnd + 1)
           start == Find(s, Eol, pathEnd) + 2
           end == Find(s, BlankLine, start)
           body == SubSeq(s, end + 4, Len(s))
           throws == \E l \in HeaderLines(s, start, end - 1) : Fatal(s, l)
           method == SubSeq(s, 1, methodEnd - 1)
           target == SubSeq(s, methodEnd + 1, pathEnd - 1)
<1>1. Parse(s) =
        IF methodEnd = 0 THEN Unparsed
        ELSE IF pathEnd = 0 THEN [Unparsed EXCEPT !.method = method]
        ELSE IF start = 2 \/ end = 0
          THEN [[Unparsed EXCEPT !.method = method] EXCEPT !.path = Before(target, "?")]
        ELSE [[[Unparsed EXCEPT !.method = method] EXCEPT !.path = Before(target, "?")] EXCEPT
                !.throws = throws,
                !.body = IF body # <<>> /\ Last(body) = "cr" THEN Front(body) ELSE body]
  BY DEF Parse
<1>2. /\ a \in Nat \ {0} /\ b \in Nat \ {0} /\ c \in Nat
      /\ IF r.headers = <<>> THEN c = a + b + 5 ELSE c >= a + b + 7
      /\ \A i \in 1 .. a : x[i] = r.method[i]
      /\ \A i \in 1 .. b : x[a + 1 + i] = r.target[i]
  BY BeginningRead
<1>3. s \in Seq(Symbols) /\ Len(s) = n /\ n \in Nat /\ \A i \in 1 .. n : s[i] = x[i]
  <2>1. x \in Seq(Symbols)
    BY RenderedRead
  <2>2. n \in 1 .. Len(x)
    OBVIOUS
  <2> HIDE DEF x
  <2> QED BY <2>1, <2>2, CutRead
<1>4. /\ methodEnd = IF n > a THEN a + 1 ELSE 0
      /\ n > a => Find(s, <<"sp">>, a + 2) = IF n > a + b + 1 THEN a + b + 2 ELSE 0
      /\ n > a + b + 1 => Find(s, Eol, a + b + 2) = IF n > a + b + 4 THEN a + b + 4 ELSE 0
      /\ n > a + b + 4 =>
           Find(s, BlankLine, a + b + 6) = IF r.headers # <<>> /\ n > c + 1 THEN c - 1 ELSE 0
  BY PlacesFound
<1>5. r.method \in Seq(Symbols) /\ r.target \in Seq(Symbols)
  BY SymbolsOf
<1> HIDE DEF x, s, a, b, c, path
<1>14. a \in Nat /\ a # 0 /\ b \in Nat /\ b # 0 /\ c \in Nat /\ n \in Nat
  BY <1>2, <1>3
<1>15. IF r.headers = <<>> THEN c = a + b + 5 ELSE c >= a + b + 7
  BY <1>2
<1>6. CASE n <= a
  <2>1. methodEnd = 0
    BY <1>4, <1>6, <1>14
  <2>2. Parse(s) = Unparsed
    BY <1>1, <2>1
  <2> QED BY <1>6, <2>2 DEF s, x, a, b, c, path
<1>7. ASSUME n > a
      PROVE  /\ methodEnd = a + 1 /\ pathEnd = IF n > a + b + 1 THEN a + b + 2 ELSE 0
             /\ method = r.method
  <2>1. methodEnd = a + 1
    BY <1>4, <1>7
  <2>2. pathEnd = IF n > a + b + 1 THEN a + b + 2 ELSE 0
    <3>1. methodEnd + 1 = a + 2
      BY <1>14, <2>1
    <3> QED BY <1>4, <1>7, <3>1
  <2>3. SubSeq(s, 0 + 1, 0 + a) = r.method
    <3>1. 0 + a <= Len(s) /\ \A i \in 1 .. a : 0 + i = i /\ s[i] = r.method[i]
      <4>1. a <= n /\ \A i \in 1 .. a : 0 + i = i /\ i \in 1 .. n
        BY <1>7, <1>14
      <4>2. 0 + a <= Len(s)
        BY <1>3, <1>14, <4>1
      <4>3. \A i \in 1 .. a : s[i] = r.method[i]
        BY <1>2, <1>3, <4>1
      <4> QED BY <4>1, <4>2, <4>3
    <3>2. SubSeq(s, 0 + 1, 0 + Len(r.method)) = r.method
      BY <1>3, <1>5, <3>1, PartRead DEF a
    <3> QED BY <3>2 DEF a
  <2>4. method = r.method
    <3>1. 0 + 1 = 1 /\ 0 + a = methodEnd - 1
      BY <1>14, <2>1
    <3> HIDE DEF methodEnd
    <3> QED BY <2>3, <3>1
  <2> QED BY <2>1, <2>2, <2>4
<1> HIDE DEF method, methodEnd
<1>8. CASE n > a /\ n <= a + b + 1
  <2>1. methodEnd # 0 /\ pathEnd = 0 /\ method = r.method
    <3>1. n > a /\ ~(n > a + b + 1) /\ a + 1 # 0
      BY <1>8, <1>14
    <3> QED BY <1>7, <3>1
  <2>2. Parse(s) = [Unparsed EXCEPT !.method = r.method]
    BY <1>1, <2>1
  <2>3. Parse(s) = [line EXCEPT !.path = <<>>]
    BY <2>2, HeadsBuilt
  <2>4. ~(n <= a)
    BY <1>8, <1>14
  <2> QED BY <1>8, <2>3, <2>4 DEF s, x, a, b, c, path
<1>9. ASSUME n > a + b + 1
      PROVE  /\ n > a /\ methodEnd # 0 /\ pathEnd = a + b + 2 /\ pathEnd # 0
             /\ start = IF n > a + b + 4 THEN a + b + 6 ELSE 2
             /\ [[Unparsed EXCEPT !.method = method] EXCEPT !.path = Before(target, "?")] = line
  <2>1. n > a /\ a + 1 # 0 /\ a + b + 2 # 0
    BY <1>9, <1>14
  <2>2. methodEnd = a + 1 /\ methodEnd # 0 /\ pathEnd = a + b + 2 /\ pathEnd # 0 /\ method = r.method
    BY <1>7, <1>9, <2>1
  <2>3. start = IF n > a + b + 4 THEN a + b + 6 ELSE 2
    <3>1. Find(s, Eol, pathEnd) = IF n > a + b + 4 THEN a + b + 4 ELSE 0
      BY <1>4, <1>9, <2>2
    <3> HIDE DEF pathEnd
    <3> QED BY <1>14, <3>1
  <2>4. SubSeq(s, (a + 1) + 1, (a + 1) + b) = r.target
    <3>1. a + 1 \in Nat /\ (a + 1) + b <= n
      BY <1>9, <1>14
    <3>2. \A i \in 1 .. b : s[(a + 1) + i] = r.target[i]
      <4>1. \A i \in 1 .. b : a + 1 + i \in 1 .. n
        BY <1>9, <1>14
      <4> QED BY <1>2, <1>3, <4>1
    <3>3. SubSeq(s, (a + 1) + 1, (a + 1) + Len(r.target)) = r.target
      <4>1. s \in Seq(Symbols) /\ (a + 1) + Len(r.target) <= Len(s)
        BY <1>3, <3>1 DEF b
      <4>2. \A i \in 1 .. Len(r.target) : s[(a + 1) + i] = r.target[i]
        BY <3>2 DEF b
      <4> QED BY <1>5, <3>1, <4>1, <4>2, PartRead
    <3> QED BY <3>3 DEF b
  <2>5. target = r.target
    <3> HIDE DEF pathEnd
    <3>1. methodEnd + 1 = (a + 1) + 1 /\ pathEnd - 1 = (a + 1) + b
      BY <1>14, <2>2
    <3> QED BY <2>4, <3>1
  <2> HIDE DEF target
  <2>6. [[Unparsed EXCEPT !.method = method] EXCEPT !.path = Before(target, "?")] = line
    <3>1. Before(target, "?") = path
      BY <2>5 DEF path
    <3> HIDE DEF path
    <3> QED BY <2>2, <3>1, HeadsBuilt
  <2> QED BY <2>1, <2>2, <2>3, <2>6
<1> HIDE DEF target, pathEnd
<1>10. ASSUME n > a + b + 4
       PROVE  end = IF r.headers # <<>> /\ n > c + 1 THEN c - 1 ELSE 0
  <2>1. n > a + b + 1
    BY <1>10, <1>14
  <2>2. start = a + b + 6
    BY <1>9, <1>10, <2>1
  <2> HIDE DEF start
  <2> QED BY <1>4, <1>10, <2>2
<1>11. CASE n > a + b + 1 /\ (r.headers = <<>> \/ n <= c + 1)
  <2>1. start = 2 \/ end = 0
    <3>1. CASE n > a + b + 4
      <4>1. ~(r.headers # <<>> /\ n > c + 1)
        BY <1>11, <1>14
      <4> QED BY <1>10, <3>1, <4>1
    <3>2. CASE ~(n > a + b + 4)
      BY <1>9, <1>11, <3>2
    <3> QED BY <3>1, <3>2
  <2>2. Parse(s) = line
    <3> HIDE DEF start, end, line
    <3> QED BY <1>1, <1>9, <1>11, <2>1
  <2>3. ~(n <= a) /\ ~(n <= a + b + 1)
    BY <1>11, <1>14
  <2> QED BY <1>11, <2>2, <2>3 DEF s, x, a, b, c, path
<1>12. CASE n > a + b + 1 /\ r.headers # <<>> /\ n > c + 1
  <2>1. n > a + b + 4 /\ c - 1 # 0
    BY <1>12, <1>14, <1>15
  <2>2. start = a + b + 6 /\ start # 2 /\ end = c - 1 /\ end # 0
    <3>1. start = a + b + 6 /\ end = c - 1
      BY <1>9, <1>10, <1>12, <2>1
    <3>2. a + b + 6 # 2
      BY <1>14
    <3> HIDE DEF start, end
    <3> QED BY <2>1, <3>1, <3>2
  <2>3. body = rest /\ throws = \E l \in HeaderLines(s, a + b + 6, c - 2) : Fatal(s, l)
    <3> HIDE DEF start, end
    <3>1. end + 4 = c + 3 /\ Len(s) = n /\ end - 1 = c - 2
      BY <1>3, <1>14, <2>2
    <3> QED BY <2>2, <3>1
  <2> HIDE DEF body, throws, rest, start, end
  <2>4. Parse(s) = [line EXCEPT !.throws = throws,
                                !.body = IF body # <<>> /\ Last(body) = "cr" THEN Front(body) ELSE body]
    <3> HIDE DEF line
    <3> QED BY <1>1, <1>9, <1>12, <2>2
  <2>5. ~(n <= a) /\ ~(n <= a + b + 1) /\ ~(n <= c + 1)
    BY <1>12, <1>14
  <2> QED BY <1>12, <2>3, <2>4, <2>5 DEF s, x, a, b, c, path, rest
<1>13. \/ n <= a
       \/ n > a /\ n <= a + b + 1
       \/ n > a + b + 1 /\ (r.headers = <<>> \/ n <= c + 1)
       \/ n > a + b + 1 /\ r.headers # <<>> /\ n > c + 1
  BY <1>14
<1> QED BY <1>6, <1>8, <1>11, <1>12, <1>13

(* What it takes for the body is a beginning of the client's, all of it    *)
(* once all has arrived.                                                   *)
LEMMA BodyRead ==
  ASSUME NEW r, WellFormed(r), NEW n \in 1 .. Len(Rendered(r)), n > Len(HeadOf(r)) + 1
  PROVE  LET rest == SubSeq(SubSeq(Rendered(r), 1, n), Len(HeadOf(r)) + 3, n)
         IN /\ IsPrefix(rest, r.body)
            /\ rest # <<>> => IsPrefix(Front(rest), r.body)
            /\ n = Len(Rendered(r)) => rest = r.body
<1> DEFINE x == Rendered(r)
           s == SubSeq(x, 1, n)
           c == Len(HeadOf(r))
           k == Len(r.body)
           rest == SubSeq(s, c + 3, n)
<1>1. /\ x \in Seq(Symbols) /\ Len(x) = c + 2 + k
      /\ \A i \in 1 .. k : x[c + 2 + i] = r.body[i]
  BY RenderedRead
<1>2. r.body \in Seq(Symbols)
  BY SymbolsOf
<1>3. s \in Seq(Symbols) /\ Len(s) = n /\ n \in Nat /\ \A i \in 1 .. n : s[i] = x[i]
  <2>1. x \in Seq(Symbols)
    BY <1>1
  <2>2. n \in 1 .. Len(x)
    OBVIOUS
  <2> HIDE DEF x
  <2> QED BY <2>1, <2>2, CutRead
<1>4. c \in Nat /\ k \in Nat /\ n <= c + 2 + k /\ n > c + 1 /\ n \in Nat
  <2>1. c \in Nat
    BY BeginningRead
  <2>2. n \in 1 .. Len(x) /\ n > c + 1
    OBVIOUS
  <2> HIDE DEF x, c
  <2>3. k \in Nat
    BY <1>2
  <2> HIDE DEF k
  <2>4. n <= c + 2 + k
    BY <1>1, <1>3, <2>2
  <2> QED BY <1>3, <2>1, <2>2, <2>3, <2>4
<1> HIDE DEF x, s, c, k
<1>5. /\ rest \in Seq(Symbols) /\ Len(rest) = n - c - 2
      /\ \A i \in 1 .. Len(rest) : rest[i] = s[c + 2 + i]
  <2>1. c + 3 \in 1 .. n + 1 /\ n - (c + 3) + 1 = n - c - 2
    BY <1>4
  <2>2. rest \in Seq(Symbols)
    BY <1>3, <2>1
  <2>3. Len(rest) = n - c - 2
    BY <1>3, <1>4, <2>1
  <2>4. \A i \in 1 .. n - c - 2 : rest[i] = s[c + 3 + i - 1]
    BY <1>3, <1>4, <2>1
  <2>5. \A i \in 1 .. n - c - 2 : c + 3 + i - 1 = c + 2 + i
    BY <1>4
  <2> HIDE DEF rest
  <2> QED BY <2>2, <2>3, <2>4, <2>5
<1> DEFINE d == Len(rest)
<1>6. d \in Nat /\ d = n - c - 2
  BY <1>4, <1>5
<1> HIDE DEF rest, d
<1>7. d <= k /\ (n = c + 2 + k => d = k)
  BY <1>4, <1>6
<1>8. \A i \in 1 .. d : rest[i] = r.body[i]
  <2> SUFFICES ASSUME NEW i \in 1 .. d PROVE rest[i] = r.body[i]
    OBVIOUS
  <2>1. c + 2 + i \in 1 .. n /\ i \in 1 .. k
    BY <1>4, <1>6, <1>7
  <2> QED BY <1>1, <1>3, <1>5, <2>1 DEF d
<1>9. IsPrefix(rest, r.body)
  BY <1>2, <1>5, <1>7, <1>8, PrefixRead DEF d, k
<1>10. ASSUME rest # <<>> PROVE IsPrefix(Front(rest), r.body)
  <2>1. rest \in Seq(Symbols) /\ Len(rest) = d /\ d - 1 \in Nat
    <3>1. Len(rest) # 0
      BY <1>5, <1>10
    <3>2. d # 0
      BY <3>1 DEF d
    <3>3. d - 1 \in Nat
      <4>1. d \in Nat
        BY <1>6
      <4> QED BY <3>2, <4>1
    <3> QED BY <1>5, <3>3 DEF d
  <2>2. Front(rest) \in Seq(Symbols) /\ Len(Front(rest)) = d - 1
    <3>1. d - 1 <= Len(rest)
      BY <2>1
    <3> QED BY <2>1, <3>1 DEF Front
  <2>3. \A i \in 1 .. d - 1 : Front(rest)[i] = rest[i]
    BY <2>1 DEF Front
  <2>4. \A i \in 1 .. d - 1 : i \in 1 .. d
    BY <1>6
  <2>5. /\ Len(Front(rest)) <= Len(r.body)
        /\ \A i \in 1 .. Len(Front(rest)) : Front(rest)[i] = r.body[i]
    <3>1. d - 1 <= k
      BY <1>4, <1>6, <1>7
    <3> QED BY <1>8, <2>2, <2>3, <2>4, <3>1 DEF k
  <2> QED BY <1>2, <2>2, <2>5, PrefixRead
<1>11. ASSUME n = Len(x) PROVE rest = r.body
  <2>1. d = k
    BY <1>1, <1>7, <1>11
  <2> QED BY <1>2, <1>5, <1>8, <2>1 DEF d, k
<1> QED BY <1>9, <1>10, <1>11 DEF rest, s, x, c

(* HttpRequest::parse() takes of what has arrived the method and the path  *)
(* that the client sent and a beginning of his body, or nothing; it throws *)
(* only on a header that ends at its colon; and of all of a request with a *)
(* header it takes all.                                                    *)
THEOREM ParsedRight ==
  ASSUME NEW r, WellFormed(r), NEW n \in 1 .. Len(Rendered(r))
  PROVE  LET got == Parse(SubSeq(Rendered(r), 1, n))
             path == Before(r.target, "?")
             sent == [method |-> r.method, path |-> path, body |-> r.body, throws |-> FALSE]
         IN /\ Understood(got, r, path)
            /\ got.throws => \E i \in DOMAIN r.headers : EndsAtColon(r.headers[i])
            /\ n = Len(Rendered(r)) /\ r.headers # <<>> /\ ~got.throws => got = sent
<1> DEFINE x == Rendered(r)
           s == SubSeq(x, 1, n)
           a == Len(r.method)
           b == Len(r.target)
           c == Len(HeadOf(r))
           rest == SubSeq(s, c + 3, n)
           path == Before(r.target, "?")
           line == [method |-> r.method, path |-> path, body |-> <<>>, throws |-> FALSE]
           throws == \E l \in HeaderLines(s, a + b + 6, c - 2) : Fatal(s, l)
           body == IF rest # <<>> /\ Last(rest) = "cr" THEN Front(rest) ELSE rest
           got == Parse(s)
<1>1. got = IF n <= a THEN Unparsed
            ELSE IF n <= a + b + 1 THEN [line EXCEPT !.path = <<>>]
            ELSE IF r.headers = <<>> \/ n <= c + 1 THEN line
            ELSE [line EXCEPT !.throws = throws, !.body = body]
  BY ParseRead
<1>2. r.body \in Seq(Symbols)
  BY SymbolsOf
<1>3. IsPrefix(<<>>, r.body)
  <2>1. <<>> \in Seq(Symbols) /\ Len(<<>>) = 0 /\ Len(r.body) \in Nat
    BY <1>2
  <2>2. Len(<<>>) <= Len(r.body) /\ \A i \in 1 .. Len(<<>>) : <<>>[i] = r.body[i]
    BY <2>1
  <2> QED BY <1>2, <2>1, <2>2, PrefixRead
<1>4. DOMAIN r.headers = 1 .. Len(r.headers)
  <2>1. r.headers \in Seq(Seq(Line) \ {<<>>})
    BY DEF WellFormed
  <2> QED BY <2>1
<1>6. CASE \/ n <= a \/ n <= a + b + 1 \/ r.headers = <<>> \/ n <= c + 1
  <2>1. got \in {Unparsed, [line EXCEPT !.path = <<>>], line}
    <3> HIDE DEF a, b, c, line, throws, body, got
    <3> QED BY <1>1, <1>6
  <2>2. /\ got.method \in {<<>>, r.method} /\ got.path \in {<<>>, path}
        /\ got.body = <<>> /\ got.throws = FALSE
    <3> HIDE DEF got, path
    <3> QED BY <2>1 DEF Unparsed
  <2>3. Understood(got, r, path)
    <3> HIDE DEF got, path
    <3> QED BY <1>3, <2>2 DEF Understood
  <2>4. ASSUME n = Len(x), r.headers # <<>> PROVE FALSE
    <3>1. /\ a \in Nat /\ b \in Nat /\ c \in Nat /\ c >= a + b + 7
      BY <2>4, BeginningRead
    <3>2. Len(x) = c + 2 + Len(r.body) /\ Len(r.body) \in Nat
      <4>1. Len(x) = c + 2 + Len(r.body)
        BY RenderedRead
      <4> HIDE DEF x, c
      <4> QED BY <1>2, <4>1
    <3> DEFINE k == Len(r.body)
    <3>4. n = c + 2 + k /\ k \in Nat
      BY <2>4, <3>2
    <3> HIDE DEF a, b, c, x, k
    <3>3. n >= c + 2 /\ n \in Nat
      BY <3>1, <3>4
    <3> QED BY <1>6, <2>4, <3>1, <3>3
  <2> HIDE DEF got, path
  <2> QED BY <2>2, <2>3, <2>4 DEF got, path
<1>7. CASE ~(n <= a) /\ ~(n <= a + b + 1) /\ r.headers # <<>> /\ ~(n <= c + 1)
  <2>1. got = [line EXCEPT !.throws = throws, !.body = body]
    <3> HIDE DEF a, b, c, line, throws, body, got
    <3> QED BY <1>1, <1>7
  <2>2. n > c + 1
    <3>1. c \in Nat /\ n \in Nat
      <4>1. x \in Seq(Symbols)
        BY RenderedRead
      <4>2. n \in 1 .. Len(x)
        OBVIOUS
      <4>3. c \in Nat
        BY BeginningRead
      <4> HIDE DEF x, c
      <4> QED BY <4>1, <4>2, <4>3
    <3> HIDE DEF c
    <3> QED BY <1>7, <3>1
  <2>3. /\ IsPrefix(rest, r.body)
        /\ rest # <<>> => IsPrefix(Front(rest), r.body)
        /\ n = Len(x) => rest = r.body
    BY <2>2, BodyRead
  <2>4. IsPrefix(body, r.body)
    <3> HIDE DEF rest
    <3> QED BY <2>3
  <2>5. throws => \E i \in DOMAIN r.headers : EndsAtColon(r.headers[i])
    BY <1>4, <2>2, FatalHeader
  <2>6. n = Len(x) => body = r.body
    <3> HIDE DEF rest
    <3> QED BY <2>3 DEF WellFormed
  <2> HIDE DEF throws, body, path, x
  <2>7. got = [method |-> r.method, path |-> path, body |-> body, throws |-> throws]
    <3> HIDE DEF got
    <3> QED BY <2>1
  <2> HIDE DEF got
  <2>8. got.method = r.method /\ got.path = path /\ got.body = body /\ got.throws = throws
    BY <2>7
  <2>9. Understood(got, r, path)
    BY <2>4, <2>8 DEF Understood
  <2>10. throws \in BOOLEAN
    BY DEF throws
  <2>11. n = Len(x) /\ ~throws => got = [method |-> r.method, path |-> path, body |-> r.body, throws |-> FALSE]
    <3> SUFFICES ASSUME n = Len(x), ~throws
                 PROVE  got = [method |-> r.method, path |-> path, body |-> r.body, throws |-> FALSE]
      OBVIOUS
    <3>1. throws = FALSE /\ body = r.body
      BY <2>6, <2>10
    <3> QED BY <2>7, <3>1
  <2> QED BY <2>5, <2>8, <2>9, <2>11 DEF got, path, x
<1> HIDE DEF a, b, c, rest, path, line, throws, body, got
<1>8. \/ n <= a \/ n <= a + b + 1 \/ r.headers = <<>> \/ n <= c + 1
      \/ ~(n <= a) /\ ~(n <= a + b + 1) /\ r.headers # <<>> /\ ~(n <= c + 1)
  OBVIOUS
<1> QED BY <1>6, <1>7, <1>8
-----------------------------------------------------------------------------
(* What parseHttpRequest() makes of it.                                    *)
LEMMA LeastIs ==
  ASSUME NEW I \in SUBSET Nat, NEW j \in I, \A i \in I : j <= i
  PROVE  Min(I) = j
<1>1. \A y \in I : y \in Nat
  OBVIOUS
<1>2. \E x \in I : \A y \in I : x <= y
  OBVIOUS
<1>3. Min(I) \in I /\ \A y \in I : Min(I) <= y
  BY <1>2 DEF Min
<1>4. Min(I) \in Nat /\ j \in Nat /\ Min(I) <= j /\ j <= Min(I)
  BY <1>1, <1>3
<1> QED BY <1>4

LEMMA WordStarts ==
  ASSUME NEW line \in Seq(Symbols), NEW from \in Nat \ {0}, NEW j \in from .. Len(line),
         line[j] \notin Blank, \A i \in from .. j - 1 : line[i] \in Blank
  PROVE  WordStart(line, from) = j
<1> DEFINE I == {i \in from .. Len(line) : line[i] \notin Blank}
<1>1. WordStart(line, from) = IF I # {} THEN Min(I) ELSE 0
  BY DEF WordStart, SelectInSubSeq
<1>2. I \in SUBSET Nat /\ j \in I
  OBVIOUS
<1>3. ASSUME NEW i \in I PROVE j <= i
  <2>1. i \in from .. Len(line) /\ line[i] \notin Blank
    OBVIOUS
  <2>2. Len(line) \in Nat
    OBVIOUS
  <2>3. i \notin from .. j - 1
    BY <2>1
  <2> HIDE DEF I
  <2> QED BY <2>1, <2>2, <2>3
<1> HIDE DEF I
<1>4. Min(I) = j
  BY <1>2, <1>3, LeastIs
<1> QED BY <1>1, <1>2, <1>4

LEMMA WordEnds ==
  ASSUME NEW line \in Seq(Symbols), NEW from \in Nat \ {0}, NEW j \in from .. Len(line),
         line[j] \in Blank, \A i \in from .. j - 1 : line[i] \notin Blank
  PROVE  WordEnd(line, from) = j - 1
<1> DEFINE I == {i \in from .. Len(line) : line[i] \in Blank}
           k == IF I # {} THEN Min(I) ELSE 0
<1>1. WordEnd(line, from) = IF k = 0 THEN Len(line) ELSE k - 1
  BY DEF WordEnd, SelectInSubSeq
<1>2. I \in SUBSET Nat /\ j \in I
  OBVIOUS
<1>3. ASSUME NEW i \in I PROVE j <= i
  <2>1. i \in from .. Len(line) /\ line[i] \in Blank
    OBVIOUS
  <2>2. Len(line) \in Nat
    OBVIOUS
  <2>3. i \notin from .. j - 1
    BY <2>1
  <2> HIDE DEF I
  <2> QED BY <2>1, <2>2, <2>3
<1> HIDE DEF I
<1>4. Min(I) = j
  BY <1>2, <1>3, LeastIs
<1>5. k = j /\ k # 0
  BY <1>2, <1>4
<1> HIDE DEF k
<1> QED BY <1>1, <1>5

(* The first line of what has arrived: the request line, and the return    *)
(* before its end, if a header follows.                                    *)
LEMMA FirstLineRead ==
  ASSUME NEW r, WellFormed(r), NEW n \in 1 .. Len(Rendered(r)), n > Len(HeadOf(r)) + 1
  PROVE  LET x == Rendered(r)
             line == Before(SubSeq(SubSeq(x, 1, n), 1, Len(HeadOf(r)) - 2), "lf")
             a == Len(r.method)
             b == Len(r.target)
         IN /\ line \in Seq(Symbols) /\ Len(line) >= a + b + 3
            /\ \A i \in 1 .. a + b + 3 : line[i] = x[i]
<1> DEFINE x == Rendered(r)
           s == SubSeq(x, 1, n)
           a == Len(r.method)
           b == Len(r.target)
           c == Len(HeadOf(r))
           u == SubSeq(s, 1, c - 2)
           f == Find(u, <<"lf">>, 1)
           line == Before(u, "lf")
<1>1. /\ a \in Nat \ {0} /\ b \in Nat \ {0} /\ c \in Nat
      /\ IF r.headers = <<>> THEN c = a + b + 5 ELSE c >= a + b + 7
      /\ \A i \in 1 .. a : x[i] \notin {"sp", "cr", "lf"}
      /\ x[a + 1] = "sp"
      /\ \A i \in 1 .. b : x[a + 1 + i] \notin {"sp", "cr", "lf"}
      /\ x[a + b + 2] = "sp" /\ x[a + b + 3] = "HTTP/1.1"
  BY BeginningRead
<1>2. s \in Seq(Symbols) /\ Len(s) = n /\ n \in Nat /\ \A i \in 1 .. n : s[i] = x[i]
  <2>1. x \in Seq(Symbols)
    BY RenderedRead
  <2>2. n \in 1 .. Len(x)
    OBVIOUS
  <2> HIDE DEF x
  <2> QED BY <2>1, <2>2, CutRead
<1>3. n > c + 1
  OBVIOUS
<1> HIDE DEF x, s, a, b, c
<1>4. a \in Nat /\ a # 0 /\ b \in Nat /\ b # 0 /\ c \in Nat /\ n \in Nat /\ c >= a + b + 5
  BY <1>1, <1>2
<1>5. c - 2 \in 1 .. n
  BY <1>3, <1>4
<1>6. /\ u \in Seq(Symbols) /\ Len(u) = c - 2
      /\ \A i \in 1 .. c - 2 : u[i] = s[i]
  BY <1>2, <1>5, CutRead
<1> HIDE DEF u
<1>7. \A i \in 1 .. c - 2 : u[i] = x[i]
  <2>1. \A i \in 1 .. c - 2 : i \in 1 .. n
    BY <1>3, <1>4
  <2> QED BY <1>2, <1>6, <2>1
<1>8. ASSUME NEW i \in 1 .. a + b + 3 PROVE x[i] # "lf" /\ i \in 1 .. c - 2
  <2> DEFINE j == i - (a + 1)
  <2>1. \/ i \in 1 .. a \/ i = a + 1
        \/ j \in 1 .. b /\ i = a + 1 + j
        \/ i = a + b + 2 \/ i = a + b + 3
    BY <1>4
  <2>2. i \in 1 .. c - 2
    BY <1>4
  <2> HIDE DEF j
  <2> QED BY <1>1, <2>1, <2>2
<1>9. \/ f = 0
      \/ f \in 1 .. c - 2 /\ u[f] = "lf"
  BY <1>6, FindSymbol
<1>10. line = IF f = 0 THEN u ELSE SubSeq(u, 1, f - 1)
  BY DEF Before
<1> HIDE DEF f, line
<1>11. CASE f = 0
  <2>1. line = u /\ Len(u) >= a + b + 3
    BY <1>4, <1>6, <1>10, <1>11
  <2>2. \A i \in 1 .. a + b + 3 : u[i] = x[i]
    BY <1>7, <1>8
  <2> QED BY <1>6, <2>1, <2>2 DEF line, u, s, x, a, b, c
<1>12. CASE f # 0
  <2>1. f \in 1 .. c - 2 /\ u[f] = "lf" /\ f \in Nat
    BY <1>4, <1>9, <1>12
  <2>2. f \notin 1 .. a + b + 3
    BY <1>7, <1>8, <2>1
  <2>3. f - 1 >= a + b + 3 /\ f - 1 \in 1 .. c - 2
    BY <1>4, <2>1, <2>2
  <2>4. /\ line \in Seq(Symbols) /\ Len(line) = f - 1
        /\ \A i \in 1 .. f - 1 : line[i] = u[i]
    <3>1. f - 1 \in 1 .. Len(u) /\ line = SubSeq(u, 1, f - 1)
      BY <1>6, <1>10, <1>12, <2>3
    <3> QED BY <1>6, <3>1, CutRead
  <2>5. \A i \in 1 .. a + b + 3 : i \in 1 .. f - 1
    BY <1>4, <2>1, <2>3
  <2>6. \A i \in 1 .. a + b + 3 : line[i] = x[i]
    BY <1>7, <1>8, <2>4, <2>5
  <2> QED BY <2>3, <2>4, <2>6 DEF line, u, s, x, a, b, c
<1> QED BY <1>11, <1>12

LEMMA EpollRead ==
  ASSUME NEW r, WellFormed(r), NEW n \in 1 .. Len(Rendered(r))
  PROVE  LET s == SubSeq(Rendered(r), 1, n)
             c == Len(HeadOf(r))
         IN ParseHttpRequest(s) =
              IF n > c + 1
                THEN [method |-> r.method, path |-> r.target,
                      body |-> SubSeq(s, c + 3, n), throws |-> FALSE]
                ELSE [Unparsed EXCEPT !.throws = TRUE]
<1> DEFINE x == Rendered(r)
           s == SubSeq(x, 1, n)
           a == Len(r.method)
           b == Len(r.target)
           c == Len(HeadOf(r))
           pos == Find(s, BlankLine, 1)
           line == Before(SubSeq(s, 1, pos - 1), "lf")
           first == Word(line, 1)
           next == WordEnd(line, WordStart(line, 1)) + 1
           second == Word(line, next)
           body == SubSeq(s, pos + 4, Len(s))
<1>1. ParseHttpRequest(s) =
        IF pos <= 1 THEN [Unparsed EXCEPT !.throws = TRUE]
        ELSE [method |-> first, path |-> second, body |-> body, throws |-> FALSE]
  BY DEF ParseHttpRequest
<1>2. pos = IF n > c + 1 THEN c - 1 ELSE 0
  BY PlacesFound
<1>3. /\ a \in Nat \ {0} /\ b \in Nat \ {0} /\ c \in Nat
      /\ IF r.headers = <<>> THEN c = a + b + 5 ELSE c >= a + b + 7
      /\ \A i \in 1 .. a : x[i] = r.method[i] /\ x[i] \notin {"sp", "cr", "lf"}
      /\ x[a + 1] = "sp"
      /\ \A i \in 1 .. b : x[a + 1 + i] = r.target[i] /\ x[a + 1 + i] \notin {"sp", "cr", "lf"}
      /\ x[a + b + 2] = "sp"
  BY BeginningRead
<1>4. Len(s) = n
  <2>1. x \in Seq(Symbols)
    BY RenderedRead
  <2>2. n \in 1 .. Len(x)
    OBVIOUS
  <2> HIDE DEF x
  <2> QED BY <2>1, <2>2, CutRead
<1>5. r.method \in Seq(Symbols) /\ r.target \in Seq(Symbols)
  BY SymbolsOf
<1>6. a \in Nat /\ a # 0 /\ b \in Nat /\ b # 0 /\ c \in Nat /\ c >= a + b + 5
  <2>1. /\ a \in Nat \ {0} /\ b \in Nat \ {0} /\ c \in Nat
        /\ IF r.headers = <<>> THEN c = a + b + 5 ELSE c >= a + b + 7
    BY <1>3
  <2> HIDE DEF a, b, c
  <2> QED BY <2>1
<1>7. CASE ~(n > c + 1)
  <2>1. pos <= 1
    BY <1>2, <1>7
  <2> HIDE DEF pos, first, second, body
  <2> QED BY <1>1, <1>7, <2>1
<1>8. CASE n > c + 1
  <2>1. pos = c - 1 /\ ~(pos <= 1) /\ pos - 1 = c - 2 /\ pos + 4 = c + 3
    <3>1. pos = c - 1
      BY <1>2, <1>8
    <3> HIDE DEF pos, a, b, c
    <3>2. c \in Nat /\ c > 5
      BY <1>6
    <3> QED BY <3>1, <3>2
  <2>2. body = SubSeq(s, c + 3, n)
    <3> HIDE DEF pos
    <3> QED BY <1>4, <2>1
  <2>3. /\ line \in Seq(Symbols) /\ Len(line) >= a + b + 3
        /\ \A i \in 1 .. a + b + 3 : line[i] = x[i]
    <3>1. line = Before(SubSeq(s, 1, c - 2), "lf")
      <4> HIDE DEF pos
      <4> QED BY <2>1
    <3> HIDE DEF line
    <3> QED BY <1>8, <3>1, FirstLineRead
  <2>4. Len(line) \in Nat
    <3> HIDE DEF line
    <3> QED BY <2>3
  <2> HIDE DEF line, x, s, a, b, c, pos, body
  <2>17. line \in Seq(Symbols)
    BY <2>3
  <2>5. \A i \in 1 .. a : i \in 1 .. a + b + 3
    BY <1>6
  <2>6. \A i \in 1 .. b : a + 1 + i \in 1 .. a + b + 3
    BY <1>6
  <2>7. /\ \A i \in 1 .. a : line[i] = r.method[i] /\ line[i] \notin Blank
        /\ \A i \in 1 .. b : line[a + 1 + i] = r.target[i] /\ line[a + 1 + i] \notin Blank
    BY <1>3, <2>3, <2>5, <2>6 DEF Blank
  <2>8. line[a + 1] \in Blank /\ line[a + b + 2] \in Blank
    <3>1. a + 1 \in 1 .. a + b + 3 /\ a + b + 2 \in 1 .. a + b + 3
      BY <1>6
    <3> QED BY <1>3, <2>3, <3>1 DEF Blank
  <2>9. WordStart(line, 1) = 1
    <3>1. 1 \in 1 .. Len(line) /\ 1 \in 1 .. a /\ \A i \in 1 .. 1 - 1 : FALSE
      BY <1>6, <2>3, <2>4
    <3> QED BY <2>3, <2>7, <3>1, WordStarts
  <2>10. WordEnd(line, 1) = a + 1 - 1 /\ a + 1 - 1 = a
    <3> DEFINE j == a + 1
    <3>1. j \in 1 .. Len(line) /\ j - 1 = a
      BY <1>6, <2>3, <2>4
    <3>2. line[j] \in Blank
      BY <2>8
    <3> HIDE DEF j
    <3>3. \A i \in 1 .. j - 1 : line[i] \notin Blank
      BY <2>7, <3>1
    <3>4. 1 \in Nat \ {0}
      OBVIOUS
    <3>5. WordEnd(line, 1) = j - 1
      BY <2>17, <3>1, <3>2, <3>3, <3>4, WordEnds
    <3> QED BY <3>1, <3>5 DEF j
  <2>11. first = r.method
    <3>1. ~(1 > Len(line)) /\ 0 + Len(r.method) <= Len(line) /\ 0 + 1 = 1 /\ 0 + a = a
      BY <1>6, <2>3, <2>4 DEF a
    <3>2. first = SubSeq(line, 1, a)
      <4>1. WordStart(line, 1) = 1 /\ WordEnd(line, 1) = a /\ 1 # 0
        BY <2>9, <2>10
      <4> QED BY <3>1, <4>1 DEF Word
    <3>3. \A i \in 1 .. Len(r.method) : line[0 + i] = r.method[i]
      BY <1>6, <2>7 DEF a
    <3>4. SubSeq(line, 0 + 1, 0 + Len(r.method)) = r.method
      BY <1>5, <2>3, <3>1, <3>3, PartRead
    <3> QED BY <3>1, <3>2, <3>4 DEF a
  <2>12. next = a + 1
    BY <2>9, <2>10
  <2>13. WordStart(line, a + 1) = a + 2
    <3> DEFINE from == a + 1
               j == a + 2
    <3>1. from \in Nat \ {0} /\ j \in from .. Len(line) /\ \A i \in from .. j - 1 : i = a + 1
      BY <1>6, <2>3, <2>4
    <3>2. line[j] \notin Blank
      <4>1. 1 \in 1 .. b /\ a + 1 + 1 = j
        BY <1>6
      <4> HIDE DEF j
      <4> QED BY <2>7, <4>1
    <3>3. \A i \in from .. j - 1 : line[i] \in Blank
      BY <2>8, <3>1
    <3> HIDE DEF from, j
    <3>4. WordStart(line, from) = j
      BY <2>17, <3>1, <3>2, <3>3, WordStarts
    <3> QED BY <3>4 DEF from, j
  <2>14. WordEnd(line, a + 2) = a + b + 2 - 1
    <3> DEFINE from == a + 2
               j == a + b + 2
    <3>1. from \in Nat \ {0} /\ j \in from .. Len(line)
      BY <1>6, <2>3, <2>4
    <3>2. ASSUME NEW i \in from .. j - 1 PROVE line[i] \notin Blank
      <4>1. i - (a + 1) \in 1 .. b /\ a + 1 + (i - (a + 1)) = i
        BY <1>6
      <4> QED BY <2>7, <4>1
    <3>3. line[j] \in Blank
      BY <2>8
    <3>4. from = a + 2 /\ j - 1 = a + b + 2 - 1
      BY <1>6
    <3> HIDE DEF from, j
    <3>5. WordEnd(line, from) = j - 1
      BY <2>17, <3>1, <3>2, <3>3, WordEnds
    <3> QED BY <3>4, <3>5
  <2>15. second = r.target
    <3>1. /\ ~(a + 1 > Len(line)) /\ a + 2 # 0 /\ (a + 1) + 1 = a + 2 /\ a + 1 \in Nat
          /\ (a + 1) + b = a + b + 2 - 1
      BY <1>6, <2>3, <2>4
    <3>2. (a + 1) + Len(r.target) <= Len(line)
      <4>1. (a + 1) + b <= Len(line)
        BY <1>6, <2>3, <2>4
      <4> QED BY <4>1 DEF b
    <3>3. second = SubSeq(line, a + 2, a + b + 2 - 1)
      BY <2>12, <2>13, <2>14, <3>1 DEF Word
    <3>4. \A i \in 1 .. Len(r.target) : line[(a + 1) + i] = r.target[i]
      BY <2>7 DEF b
    <3>5. SubSeq(line, (a + 1) + 1, (a + 1) + Len(r.target)) = r.target
      BY <1>5, <2>3, <3>1, <3>2, <3>4, PartRead
    <3> QED BY <3>1, <3>3, <3>5 DEF b
  <2> HIDE DEF first, second
  <2>16. ParseHttpRequest(s) =
           [method |-> r.method, path |-> r.target, body |-> SubSeq(s, c + 3, n), throws |-> FALSE]
    BY <1>1, <2>1, <2>2, <2>11, <2>15
  <2> QED BY <1>8, <2>16 DEF s, x, c
<1> QED BY <1>7, <1>8

(* parseHttpRequest() rejects what holds no blank line; of anything else   *)
(* it takes the method and the whole target that the client sent, and a    *)
(* beginning of his body; of all of a request, all of it.                  *)
THEOREM EpollRight ==
  ASSUME NEW r, WellFormed(r), NEW n \in 1 .. Len(Rendered(r))
  PROVE  LET got == ParseHttpRequest(SubSeq(Rendered(r), 1, n))
         IN /\ got.throws \/ Understood(got, r, r.target)
            /\ n = Len(Rendered(r)) =>
                 got = [method |-> r.method, path |-> r.target, body |-> r.body, throws |-> FALSE]
<1> DEFINE x == Rendered(r)
           s == SubSeq(x, 1, n)
           c == Len(HeadOf(r))
           k == Len(r.body)
           rest == SubSeq(s, c + 3, n)
           got == ParseHttpRequest(s)
<1>1. got = IF n > c + 1
              THEN [method |-> r.method, path |-> r.target, body |-> rest, throws |-> FALSE]
              ELSE [Unparsed EXCEPT !.throws = TRUE]
  BY EpollRead
<1>2. n = Len(x) => n > c + 1
  <2>1. Len(x) = c + 2 + k
    BY RenderedRead
  <2>2. c \in Nat
    BY BeginningRead
  <2>3. k \in Nat
    <3>1. r.body \in Seq(Symbols)
      BY SymbolsOf
    <3> QED BY <3>1
  <2> HIDE DEF x, c, k
  <2> QED BY <2>1, <2>2, <2>3
<1>3. CASE n > c + 1
  <2>1. IsPrefix(rest, r.body) /\ (n = Len(x) => rest = r.body)
    BY <1>3, BodyRead
  <2>2. got = [method |-> r.method, path |-> r.target, body |-> rest, throws |-> FALSE]
    BY <1>1, <1>3
  <2> HIDE DEF got, rest
  <2>3. got.method = r.method /\ got.path = r.target /\ got.body = rest
    BY <2>2
  <2>4. Understood(got, r, r.target)
    BY <2>1, <2>3 DEF Understood
  <2>5. n = Len(x) =>
          got = [method |-> r.method, path |-> r.target, body |-> r.body, throws |-> FALSE]
    BY <2>1, <2>2
  <2> QED BY <2>4, <2>5 DEF got
<1>4. CASE ~(n > c + 1)
  <2>1. got.throws
    <3> DEFINE none == <<>>
               no == FALSE
    <3>1. Unparsed = [method |-> none, path |-> none, body |-> none, throws |-> no]
      BY DEF Unparsed
    <3>2. got = [Unparsed EXCEPT !.throws = TRUE]
      BY <1>1, <1>4
    <3> HIDE DEF none, no, got
    <3> QED BY <3>1, <3>2
  <2> QED BY <1>2, <1>4, <2>1
<1> QED BY <1>3, <1>4

(* Of the look-ups, only that of the epoll server knows the empty answer;  *)
(* otherwise they agree.                                                   *)
LEMMA RoutesAgree ==
  ASSUME NEW method, NEW path, RouteOf(method, path) # "empty"
  PROVE  FindHandler(method, path) = RouteOf(method, path)
BY DEF FindHandler, RouteOf

HIDE SymbolsAssumption
-----------------------------------------------------------------------------
(***************************************************************************)
(* The server.                                                             *)
(***************************************************************************)
USE HttpServerAssumption

(* Where a descriptor may be.                                              *)
InServer(f) ==
  \/ accepted = f
  \/ \E w \in Workers : f \in Range(queues[w])
  \/ \E w \in Workers : held[w] = f

(* It is in one such place at most.                                        *)
PlaceInv ==
  /\ apc = "dispatch" <=> accepted # None
  /\ \A w \in Workers : IsInjective(queues[w])
  /\ \A v, w \in Workers : v # w => Range(queues[v]) \cap Range(queues[w]) = {}
  /\ \A v, w \in Workers : held[w] \notin Range(queues[v])
  /\ \A v, w \in Workers : held[v] = held[w] /\ held[v] # None => v = w
  /\ \A w \in Workers : accepted \notin Range(queues[w])
  /\ \A w \in Workers : accepted # None => held[w] # accepted

(* Two connections have two descriptors, and those that no exception left  *)
(* open are the ones the server has.                                       *)
FdInv ==
  /\ \A c, d \in Clients : fd[c] = fd[d] /\ fd[c] # None => c = d
  /\ \A c \in Clients \ leaked : fd[c] # None => InServer(fd[c])
  /\ \A f \in Fds : InServer(f) => \E c \in Clients \ leaked : fd[c] = f

(* A worker is past read() only with a connection in hand, and writes only *)
(* after a handler has run.                                                *)
WorkInv ==
  \A w \in Workers :
    /\ wpc[w] # "read" => held[w] # None
    /\ wpc[w] # "write" => remaining[w] = 0

Answering(w, c) == held[w] = fd[c] /\ wpc[w] \in {"write", "close"}

(* How far a connection is: one that waits to be accepted was not          *)
(* answered, one that was answered and is open is in the hands of a worker *)
(* that has what is missing of the answer, or will close it.               *)
ConnOK(c) ==
  /\ sock[c].phase = "new" => fd[c] = None /\ c \notin Range(backlog) /\ ~sock[c].answered
  /\ c \in Range(backlog) => fd[c] = None /\ ~sock[c].answered /\ sock[c].phase # "closed"
  /\ fd[c] # None => sock[c].phase \notin {"new", "closed"}
  /\ c \in leaked => fd[c] # None
  /\ ~sock[c].answered => sock[c].got = 0
  /\ sock[c].answered /\ sock[c].phase = "closed" => sock[c].got = Total
  /\ sock[c].answered /\ fd[c] # None =>
       \E w \in Workers :
         /\ Answering(w, c)
         /\ sock[c].got + remaining[w] = Total \/ sock[c].phase = "reset"
  /\ \A w \in Workers : held[w] = fd[c] /\ wpc[w] = "write" => sock[c].answered

ConnInv == IsInjective(backlog) /\ \A c \in Clients : ConnOK(c)

IInv == TypeOK /\ PlaceInv /\ FdInv /\ WorkInv /\ ConnInv
-----------------------------------------------------------------------------
(***************************************************************************)
(* What leaves a part of the invariant as it is.                           *)
(***************************************************************************)
LEMMA PlaceFrame ==
  ASSUME PlaceInv, UNCHANGED <<accepted, queues, held>>,
         (apc' = "dispatch") <=> (apc = "dispatch")
  PROVE  PlaceInv'
BY DEF PlaceInv

LEMMA FdFrame ==
  ASSUME FdInv, UNCHANGED <<accepted, queues, held, fd, leaked>>
  PROVE  FdInv'
<1>1. \A f : InServer(f)' <=> InServer(f)
  BY DEF InServer
<1> QED BY <1>1 DEF FdInv

(* A step that changes the client's side of one connection only.           *)
LEMMA SockFrame ==
  ASSUME ConnInv, UNCHANGED <<held, wpc, remaining, backlog, fd, leaked>>,
         NEW c \in Clients, ConnOK(c)',
         \A d \in Clients \ {c} : sock'[d] = sock[d]
  PROVE  ConnInv'
<1>1. \A d \in Clients \ {c} : ConnOK(d) => ConnOK(d)'
  BY DEF ConnOK, Answering
<1> QED BY <1>1 DEF ConnInv

LEMMA ConnFrame ==
  ASSUME ConnInv, UNCHANGED <<held, wpc, remaining, connVars>>
  PROVE  ConnInv'
<1>1. \A d \in Clients : ConnOK(d) => ConnOK(d)'
  BY DEF ConnOK, Answering, connVars
<1> QED BY <1>1 DEF ConnInv, connVars
-----------------------------------------------------------------------------
(***************************************************************************)
(* The initial states.                                                     *)
(***************************************************************************)
LEMMA InitHolds == Init => IInv
<1> SUFFICES ASSUME Init PROVE IInv
  OBVIOUS
<1>1. \A w \in Workers : queues[w] = <<>> /\ held[w] = None
  BY DEF Init, Pool!Init
<1>2. \A w \in Workers : Range(queues[w]) = {} /\ IsInjective(queues[w])
  BY <1>1 DEF Range, IsInjective
<1>3. TypeOK
  <2>1. /\ queues \in [Workers -> Seq(Fds)] /\ held \in [Workers -> Fds \cup {None}]
        /\ stopped = FALSE
    BY DEF Init, Pool!Init
  <2>2. /\ wpc \in [Workers -> {"read", "find", "write", "close"}]
        /\ request \in [Workers -> Arrivals \cup {Nothing}]
        /\ remaining \in [Workers -> 0 .. Total]
    BY DEF Init
  <2>3. sock \in [Clients -> ConnType] /\ fd \in [Clients -> Fds \cup {None}]
    BY DEF Init, ConnType
  <2>4. backlog \in Seq(Clients) /\ leaked \subseteq Clients /\ accepted \in Fds \cup {None}
    BY DEF Init
  <2>5. /\ running \in BOOLEAN /\ stopped \in BOOLEAN /\ ended \in BOOLEAN
        /\ apc = "start"
    BY <2>1 DEF Init
  <2> QED BY <2>1, <2>2, <2>3, <2>4, <2>5 DEF TypeOK
<1>4. PlaceInv
  BY <1>1, <1>2 DEF Init, PlaceInv
<1>5. FdInv
  BY <1>1, <1>2 DEF Init, FdInv, InServer
<1>6. WorkInv
  BY DEF Init, WorkInv
<1>7. ConnInv
  <2>1. Range(backlog) = {} /\ IsInjective(backlog)
    BY DEF Init, Range, IsInjective
  <2> QED BY <2>1 DEF Init, ConnInv, ConnOK
<1> QED BY <1>3, <1>4, <1>5, <1>6, <1>7 DEF IInv
-----------------------------------------------------------------------------
(***************************************************************************)
(* Clients.                                                                *)
(***************************************************************************)
(* What becomes of the client's side of a connection.                      *)
SockStep(c, phase, got, answered) ==
  /\ sock' \in [Clients -> ConnType]
  /\ \A d \in Clients \ {c} : sock'[d] = sock[d]
  /\ sock'[c].phase = phase /\ sock'[c].got = got /\ sock'[c].answered = answered

LEMMA PhaseStep ==
  ASSUME TypeOK, NEW c \in Clients, NEW p \in {"open", "finished", "reset", "closed"}, Phase(c, p)
  PROVE  SockStep(c, p, sock[c].got, sock[c].answered)
<1> DEFINE s == [sock[c] EXCEPT !.phase = p]
<1>1. s \in ConnType /\ s.phase = p /\ s.got = sock[c].got /\ s.answered = sock[c].answered
  <2>1. sock[c] \in ConnType
    BY DEF TypeOK
  <2> QED BY <2>1 DEF ConnType
<1>2. sock' = [sock EXCEPT ![c] = s]
  BY DEF Phase
<1> HIDE DEF s
<1> QED BY <1>1, <1>2 DEF TypeOK, SockStep

LEMMA SendStep ==
  ASSUME TypeOK, NEW c \in Clients, sock' = [sock EXCEPT ![c].sent = TRUE]
  PROVE  SockStep(c, sock[c].phase, sock[c].got, sock[c].answered)
<1> DEFINE s == [sock[c] EXCEPT !.sent = TRUE]
<1>1. /\ s \in ConnType /\ s.phase = sock[c].phase /\ s.got = sock[c].got
      /\ s.answered = sock[c].answered
  <2>1. sock[c] \in ConnType
    BY DEF TypeOK
  <2> QED BY <2>1 DEF ConnType
<1>2. sock' = [sock EXCEPT ![c] = s]
  OBVIOUS
<1> HIDE DEF s
<1> QED BY <1>1, <1>2 DEF TypeOK, SockStep

LEMMA ConnectKeeps ==
  ASSUME IInv, NEW c \in Clients, Connect(c)
  PROVE  IInv'
<1> USE DEF IInv
<1>1. /\ Phase(c, "open") /\ backlog' = Append(backlog, c) /\ sock[c].phase = "new"
      /\ UNCHANGED <<acceptVars, poolVars, workVars, fd, leaked, ended>>
  BY DEF Connect
<1>2. backlog \in Seq(Clients) /\ c \notin Range(backlog) /\ fd[c] = None /\ ~sock[c].answered
  BY <1>1 DEF TypeOK, ConnInv, ConnOK
<1>3. Range(backlog') = Range(backlog) \cup {c} /\ IsInjective(backlog')
  BY <1>1, <1>2, AppendRange DEF ConnInv
<1>4. SockStep(c, "open", sock[c].got, sock[c].answered)
  BY <1>1, PhaseStep
<1>5. TypeOK'
  <2>1. backlog' \in Seq(Clients) /\ sock' \in [Clients -> ConnType]
    BY <1>1, <1>2, <1>4 DEF SockStep
  <2> QED BY <1>1, <2>1 DEF TypeOK, acceptVars, poolVars, workVars
<1>6. PlaceInv' /\ FdInv' /\ WorkInv'
  BY <1>1, PlaceFrame, FdFrame DEF acceptVars, poolVars, workVars, WorkInv
<1>7. ConnOK(c)'
  BY <1>1, <1>2, <1>4 DEF ConnInv, ConnOK, SockStep, workVars, poolVars
<1>8. ASSUME NEW d \in Clients \ {c} PROVE ConnOK(d)'
  BY <1>1, <1>3, <1>4 DEF ConnInv, ConnOK, Answering, SockStep, workVars, poolVars
<1> QED BY <1>3, <1>5, <1>6, <1>7, <1>8 DEF ConnInv

LEMMA ClientKeeps ==
  ASSUME IInv, NEW c \in Clients, Send(c) \/ Finish(c) \/ Reset(c)
  PROVE  IInv'
<1> USE DEF IInv
<1>1. /\ UNCHANGED <<acceptVars, poolVars, workVars, backlog, fd, leaked, ended>>
      /\ sock[c].phase = "open"
      /\ \E p \in {"open", "finished", "reset"} : SockStep(c, p, sock[c].got, sock[c].answered)
  BY SendStep, PhaseStep DEF Send, Finish, Reset
<1>2. TypeOK'
  BY <1>1 DEF TypeOK, SockStep, acceptVars, poolVars, workVars
<1>3. PlaceInv' /\ FdInv' /\ WorkInv'
  BY <1>1, PlaceFrame, FdFrame DEF acceptVars, poolVars, workVars, WorkInv
<1>4. ConnOK(c)' /\ \A d \in Clients \ {c} : sock'[d] = sock[d]
  BY <1>1 DEF ConnInv, ConnOK, Answering, SockStep, workVars, poolVars
<1> QED BY <1>1, <1>2, <1>3, <1>4, SockFrame DEF workVars, poolVars
-----------------------------------------------------------------------------
(***************************************************************************)
(* The accepting thread.                                                   *)
(***************************************************************************)
LEMMA AcceptKeeps ==
  ASSUME IInv, Accept
  PROVE  IInv'
<1> USE DEF IInv
<1>0. /\ backlog # <<>> /\ backlog \in Seq(Clients) /\ IsInjective(backlog)
      /\ Free # {} /\ Free \in SUBSET Nat
  BY DEF Accept, TypeOK, ConnInv, Free
<1>a. PICK c \in Clients : c = Head(backlog)
  BY <1>0
<1>b. PICK f \in Free : f = Min(Free)
  <2>1. \E x \in Free : \A y \in Free : x <= y
    BY <1>0, LeastNumber
  <2> QED BY <2>1 DEF Min
<1>1. /\ backlog # <<>> /\ backlog \in Seq(Clients) /\ IsInjective(backlog)
      /\ apc # "dispatch" /\ accepted = None
      /\ apc' = "dispatch" /\ accepted' = f /\ fd' = [fd EXCEPT ![c] = f]
      /\ backlog' = Tail(backlog)
      /\ UNCHANGED <<running, poolVars, workVars, sock, leaked, ended>>
  BY <1>0, <1>a, <1>b DEF Accept, PlaceInv
<1>2. /\ c \in Clients /\ c \in Range(backlog) /\ IsInjective(backlog')
      /\ Range(backlog') = Range(backlog) \ {c} /\ backlog' \in Seq(Clients)
  BY <1>1, <1>a, TailRange
<1>4. f \in Fds /\ f # None /\ \A d \in Clients : fd[d] # f
  BY DEF Free
<1>5. ~InServer(f)
  BY <1>4 DEF FdInv
<1>6. /\ fd[c] = None /\ ~sock[c].answered /\ sock[c].phase \notin {"new", "closed"} /\ c \notin leaked
      /\ sock[c].got = 0
  BY <1>2, <1>4 DEF ConnInv, ConnOK
<1>7. TypeOK'
  BY <1>1, <1>2, <1>4 DEF TypeOK, poolVars, workVars
<1>8. PlaceInv'
  BY <1>1, <1>4, <1>5 DEF PlaceInv, InServer, poolVars
<1>9. FdInv'
  <2>1. /\ fd'[c] = f /\ \A d \in Clients \ {c} : fd'[d] = fd[d]
    BY <1>1, <1>2 DEF TypeOK
  <2>2. \A g \in Fds : InServer(g)' <=> (InServer(g) \/ g = f)
    BY <1>1, <1>4, <1>5 DEF InServer, poolVars, PlaceInv
  <2>3. \A a, b \in Clients : fd'[a] = fd'[b] /\ fd'[a] # None => a = b
    BY <1>4, <2>1 DEF FdInv
  <2>4. \A d \in Clients \ leaked : fd'[d] # None => InServer(fd[d])'
    BY <1>4, <2>1, <2>2 DEF FdInv, TypeOK
  <2>5. \A g \in Fds : InServer(g)' => \E d \in Clients \ leaked : fd'[d] = g
    BY <1>2, <1>6, <2>1, <2>2 DEF FdInv
  <2> QED BY <1>1, <2>3, <2>4, <2>5 DEF FdInv
<1>10. WorkInv'
  BY <1>1 DEF WorkInv, workVars, poolVars
<1>11. ConnOK(c)'
  <2>1. fd'[c] = f /\ \A w \in Workers : held'[w] # f
    BY <1>1, <1>2, <1>5 DEF TypeOK, InServer, poolVars
  <2> QED BY <1>1, <1>2, <1>4, <1>6, <2>1 DEF ConnOK, workVars, poolVars
<1>12. ASSUME NEW d \in Clients \ {c} PROVE ConnOK(d)'
  <2>1. fd'[d] = fd[d]
    BY <1>1, <1>2 DEF TypeOK
  <2> QED BY <1>1, <1>2, <2>1 DEF ConnInv, ConnOK, Answering, workVars, poolVars
<1> QED BY <1>2, <1>7, <1>8, <1>9, <1>10, <1>11, <1>12 DEF ConnInv

LEMMA DispatchKeeps ==
  ASSUME IInv, Dispatch
  PROVE  IInv'
<1> USE DEF IInv
<1>1. PICK q \in Workers : Pool!Submit(q, accepted)
  BY DEF Dispatch
<1>2. PICK f : f = accepted
  OBVIOUS
<1>3. /\ f \in Fds /\ apc' = "test" /\ accepted' = None
      /\ queues' = [queues EXCEPT ![q] = Append(queues[q], f)] /\ UNCHANGED <<held, stopped>>
      /\ UNCHANGED <<running, workVars, connVars, ended>>
  BY <1>1, <1>2 DEF Dispatch, Goes, Pool!Submit, PlaceInv, TypeOK
<1>4. /\ queues[q] \in Seq(Fds) /\ IsInjective(queues[q]) /\ f \notin Range(queues[q])
  BY <1>2 DEF TypeOK, PlaceInv
<1>5. /\ queues'[q] = Append(queues[q], f) /\ Append(queues[q], f) \in Seq(Fds)
      /\ Range(queues'[q]) = Range(queues[q]) \cup {f} /\ IsInjective(queues'[q])
      /\ \A v \in Workers \ {q} : queues'[v] = queues[v]
  BY <1>3, <1>4, AppendRange DEF TypeOK
<1>6. TypeOK'
  BY <1>3, <1>5 DEF TypeOK, workVars, connVars
<1>7. PlaceInv'
  <2>1. \A v \in Workers : IsInjective(queues'[v])
    BY <1>5 DEF PlaceInv
  <2>2. \A v \in Workers : f \notin Range(queues[v]) /\ held[v] # f
    BY <1>2, <1>3 DEF PlaceInv
  <2>3. \A v, w \in Workers : v # w => Range(queues'[v]) \cap Range(queues'[w]) = {}
    <3>1. \A v \in Workers \ {q} : Range(queues[v]) \cap Range(queues'[q]) = {}
      BY <1>5, <2>2 DEF PlaceInv
    <3>2. \A v \in Workers \ {q} : Range(queues'[v]) = Range(queues[v])
      BY <1>5
    <3> QED BY <3>1, <3>2 DEF PlaceInv
  <2>4. ASSUME NEW v \in Workers, NEW w \in Workers PROVE held[w] \notin Range(queues'[v])
    <3>1. held[w] \notin Range(queues[v]) /\ held[w] # f
      BY <2>2 DEF PlaceInv
    <3> QED BY <1>5, <3>1
  <2>5. \A v \in Workers : Range(queues'[v]) \subseteq Fds
    BY <1>6 DEF TypeOK, Range
  <2> QED BY <1>3, <2>1, <2>3, <2>4, <2>5 DEF PlaceInv
<1>8. FdInv'
  <2>1. \A g \in Fds : InServer(g)' <=> InServer(g)
    BY <1>2, <1>3, <1>5 DEF InServer
  <2> QED BY <1>3, <2>1 DEF FdInv, TypeOK, connVars
<1>9. WorkInv' /\ ConnInv'
  BY <1>3, ConnFrame DEF WorkInv, workVars
<1> QED BY <1>6, <1>7, <1>8, <1>9

(* The steps at the flag and of the destruction, a signal, and the ends of *)
(* the process.                                                            *)
LEMMA AroundKeeps ==
  ASSUME IInv,
         \/ Run \/ Test \/ AcceptFails \/ AcceptBlocks \/ Signal \/ Destroy \/ Exit
         \/ \E w \in Workers : UseAfterFree(w) \/ BrokenPipe(w)
         \/ UNCHANGED vars
  PROVE  IInv'
<1> USE DEF IInv
<1>1. /\ UNCHANGED <<accepted, queues, held, workVars, connVars>>
      /\ (apc' = "dispatch") <=> (apc = "dispatch")
  BY DEF Run, Test, AcceptFails, AcceptBlocks, Signal, Destroy, Exit, Goes, Pool!Stop, UseAfterFree,
         BrokenPipe, vars, acceptVars, poolVars
<1>2. /\ running' \in BOOLEAN /\ stopped' \in BOOLEAN /\ ended' \in BOOLEAN
      /\ apc' \in {"start", "test", "accept", "blocked", "dispatch", "returned", "join", "gone"}
  BY DEF TypeOK, Run, Test, AcceptFails, AcceptBlocks, Signal, Destroy, Exit, Goes, Pool!Stop,
         UseAfterFree, BrokenPipe, vars, acceptVars, poolVars
<1>3. TypeOK'
  BY <1>1, <1>2 DEF TypeOK, workVars, connVars
<1> QED BY <1>1, <1>3, PlaceFrame, FdFrame, ConnFrame DEF WorkInv, workVars, connVars
-----------------------------------------------------------------------------
(***************************************************************************)
(* The workers.                                                            *)
(***************************************************************************)
LEMMA ServedClient ==
  ASSUME IInv, NEW w \in Workers, held[w] # None
  PROVE  /\ Served(w) \in Clients \ leaked /\ fd[Served(w)] = held[w]
         /\ \A d \in Clients : fd[d] = held[w] => d = Served(w)
         /\ \A v \in Workers : held[v] = held[w] => v = w
<1>1. held[w] \in Fds
  BY DEF IInv, TypeOK
<1>2. PICK c \in Clients \ leaked : fd[c] = held[w]
  BY <1>1 DEF IInv, FdInv, InServer
<1>3. \A d \in Clients : fd[d] = held[w] => d = c
  BY <1>2 DEF IInv, FdInv
<1>4. Served(w) = c
  BY <1>2, <1>3 DEF Served
<1> QED BY <1>2, <1>3, <1>4 DEF IInv, PlaceInv

(* A step of a worker that changes no connection, and not what is missing  *)
(* of an answer, but of one that nobody waits for.                         *)
LEMMA WorkFrame ==
  ASSUME ConnInv, UNCHANGED connVars,
         \A v \in Workers :
           /\ wpc[v] \in {"write", "close"} =>
                /\ held'[v] = held[v] /\ wpc'[v] \in {"write", "close"}
                /\ \/ remaining'[v] = remaining[v]
                   \/ \A d \in Clients : fd[d] = held[v] => sock[d].phase = "reset"
           /\ wpc'[v] = "write" => wpc[v] = "write"
  PROVE  ConnInv'
<1>1. ASSUME NEW d \in Clients PROVE ConnOK(d)'
  <2>1. ConnOK(d) /\ UNCHANGED <<sock, fd, backlog, leaked>>
    BY DEF ConnInv, connVars
  <2>2. sock[d].answered /\ fd[d] # None =>
          \E v \in Workers :
            /\ held'[v] = fd[d] /\ wpc'[v] \in {"write", "close"}
            /\ sock[d].got + remaining'[v] = Total \/ sock[d].phase = "reset"
    BY <2>1 DEF ConnOK, Answering
  <2>3. \A v \in Workers : held'[v] = fd[d] /\ wpc'[v] = "write" => sock[d].answered
    BY <2>1 DEF ConnOK
  <2> QED BY <2>1, <2>2, <2>3 DEF ConnOK, Answering
<1> QED BY <1>1 DEF ConnInv, connVars

LEMMA TakeKeeps ==
  ASSUME IInv, NEW w \in Workers, NEW q \in Workers, Take(w, q)
  PROVE  IInv'
<1> USE DEF IInv
<1>1. PICK f : f = Head(queues[q])
  OBVIOUS
<1>2. /\ held[w] = None /\ queues[q] # <<>>
      /\ held' = [held EXCEPT ![w] = f] /\ queues' = [queues EXCEPT ![q] = Tail(queues[q])]
      /\ UNCHANGED <<stopped, acceptVars, workVars, connVars, ended>>
  BY <1>1 DEF Take, Pool!Begin
<1>3. queues[q] \in Seq(Fds) /\ IsInjective(queues[q])
  BY DEF TypeOK, PlaceInv
<1>4. /\ Tail(queues[q]) \in Seq(Fds) /\ f \in Fds /\ f \in Range(queues[q])
      /\ Range(Tail(queues[q])) = Range(queues[q]) \ {f} /\ IsInjective(Tail(queues[q]))
  BY <1>1, <1>2, <1>3, TailRange
<1>5. /\ queues'[q] = Tail(queues[q]) /\ \A v \in Workers \ {q} : queues'[v] = queues[v]
      /\ held'[w] = f /\ \A v \in Workers \ {w} : held'[v] = held[v]
  BY <1>2 DEF TypeOK
<1>6. TypeOK'
  BY <1>2, <1>4, <1>5 DEF TypeOK, acceptVars, workVars, connVars
<1>7. PlaceInv'
  <2>1. \A v \in Workers : IsInjective(queues'[v]) /\ Range(queues'[v]) \subseteq Range(queues[v])
    BY <1>4, <1>5 DEF PlaceInv
  <2>2. \A v \in Workers : f \notin Range(queues'[v]) /\ held[v] # f
    BY <1>4, <1>5 DEF PlaceInv
  <2>3. accepted # f
    BY <1>4 DEF PlaceInv
  <2>4. \A u, v \in Workers : u # v => Range(queues'[u]) \cap Range(queues'[v]) = {}
    BY <2>1 DEF PlaceInv
  <2>5. \A u, v \in Workers : held'[v] \notin Range(queues'[u])
    BY <1>5, <2>1, <2>2 DEF PlaceInv
  <2>6. \A u, v \in Workers : held'[u] = held'[v] /\ held'[u] # None => u = v
    BY <1>5, <2>2 DEF PlaceInv
  <2>7. \A v \in Workers : accepted \notin Range(queues'[v]) /\ (accepted # None => held'[v] # accepted)
    BY <1>5, <2>1, <2>3 DEF PlaceInv
  <2> QED BY <1>2, <2>1, <2>4, <2>5, <2>6, <2>7 DEF PlaceInv, acceptVars
<1>8. FdInv'
  <2>1. \A g \in Fds : InServer(g)' <=> InServer(g)
    BY <1>2, <1>4, <1>5 DEF InServer, acceptVars
  <2> QED BY <1>2, <2>1 DEF FdInv, TypeOK, connVars
<1>9. WorkInv'
  BY <1>2, <1>5 DEF WorkInv, workVars
<1>10. ConnInv'
  BY <1>2, <1>5, WorkFrame DEF WorkInv, workVars
<1> QED BY <1>6, <1>7, <1>8, <1>9, <1>10

(* read(), and the end of the writing.                                     *)
LEMMA WorkKeeps ==
  ASSUME IInv, NEW w \in Workers, Read(w) \/ ReadNothing(w) \/ WriteEnds(w)
  PROVE  IInv'
<1> USE DEF IInv
<1>1. /\ held[w] # None /\ UNCHANGED <<acceptVars, poolVars, connVars, ended>>
      /\ \/ /\ wpc[w] = "read" /\ UNCHANGED remaining
            /\ wpc' = [wpc EXCEPT ![w] = "find"] \/ wpc' = [wpc EXCEPT ![w] = "close"]
         \/ /\ wpc[w] = "write" /\ wpc' = [wpc EXCEPT ![w] = "close"]
            /\ remaining' = [remaining EXCEPT ![w] = 0]
            /\ remaining[w] = 0 \/ sock[Served(w)].phase = "reset"
      /\ request' \in [Workers -> Arrivals \cup {Nothing}]
  BY DEF Read, ReadNothing, WriteEnds, At, To, TypeOK
<1>2. TypeOK'
  <2>1. wpc' \in [Workers -> {"read", "find", "write", "close"}]
    BY <1>1 DEF TypeOK
  <2>2. remaining' \in [Workers -> 0 .. Total]
    <3>1. remaining' = remaining \/ remaining' = [remaining EXCEPT ![w] = 0]
      BY <1>1
    <3>2. remaining \in [Workers -> 0 .. Total] /\ 0 \in 0 .. Total
      BY DEF TypeOK
    <3> QED BY <3>1, <3>2
  <2> QED BY <1>1, <2>1, <2>2 DEF TypeOK, acceptVars, poolVars, connVars
<1>3. PlaceInv' /\ FdInv'
  BY <1>1, PlaceFrame, FdFrame DEF acceptVars, poolVars, connVars
<1>4. WorkInv'
  BY <1>1 DEF WorkInv, poolVars, TypeOK
<1>5. \A v \in Workers :
        /\ wpc[v] \in {"write", "close"} =>
             /\ held'[v] = held[v] /\ wpc'[v] \in {"write", "close"}
             /\ \/ remaining'[v] = remaining[v]
                \/ \A d \in Clients : fd[d] = held[v] => sock[d].phase = "reset"
        /\ wpc'[v] = "write" => wpc[v] = "write"
  BY <1>1, ServedClient DEF TypeOK, poolVars
<1>6. ConnInv'
  BY <1>1, <1>5, WorkFrame
<1> QED BY <1>2, <1>3, <1>4, <1>6

(* A worker is rid of the connection he had, for an exception or closed.   *)
LEMMA Returned ==
  ASSUME IInv, NEW w \in Workers, NEW c \in Clients \ leaked, held[w] = fd[c], Pool!Return(w),
         UNCHANGED acceptVars,
         \/ fd' = [fd EXCEPT ![c] = None] /\ leaked' = leaked
         \/ fd' = fd /\ leaked' = leaked \cup {c}
  PROVE  PlaceInv' /\ FdInv'
<1> USE DEF IInv
<1>1. /\ held[w] # None /\ held' = [held EXCEPT ![w] = None] /\ UNCHANGED <<queues, stopped>>
  BY DEF Pool!Return
<1>2. held'[w] = None /\ \A v \in Workers \ {w} : held'[v] = held[v]
  BY <1>1 DEF TypeOK
<1>3. PlaceInv'
  <2>1. \A u, v \in Workers : held'[u] = held'[v] /\ held'[u] # None => u = v
    BY <1>2 DEF PlaceInv
  <2>2. \A u, v \in Workers : held'[v] \notin Range(queues[u])
    <3>1. \A u \in Workers : None \notin Range(queues[u])
      BY DEF TypeOK, Range
    <3> QED BY <1>2, <3>1 DEF PlaceInv
  <2>3. \A v \in Workers : accepted # None => held'[v] # accepted
    BY <1>2 DEF PlaceInv
  <2> QED BY <1>1, <2>1, <2>2, <2>3 DEF PlaceInv, acceptVars
<1>4. fd[c] \in Fds /\ fd[c] # None
  BY <1>1 DEF TypeOK
<1>5. \A g \in Fds : InServer(g)' <=> (InServer(g) /\ g # fd[c])
  <2>1. \A v \in Workers : fd[c] \notin Range(queues[v])
    BY DEF PlaceInv
  <2>2. accepted # fd[c]
    BY <1>1 DEF PlaceInv
  <2>3. \A v \in Workers \ {w} : held[v] # fd[c]
    BY <1>1 DEF PlaceInv
  <2> QED BY <1>1, <1>2, <2>1, <2>2, <2>3 DEF InServer, acceptVars
<1>6. \A d \in Clients \ leaked' : fd'[d] = fd[d] \/ fd'[d] = None
  BY DEF TypeOK
<1>7. \A d \in Clients \ leaked' : fd'[d] # None => d # c /\ d \notin leaked
  BY DEF TypeOK
<1>8. \A a, b \in Clients : fd'[a] = fd'[b] /\ fd'[a] # None => a = b
  <2>1. fd' = [fd EXCEPT ![c] = None] \/ fd' = fd
    OBVIOUS
  <2>2. \A d \in Clients : fd'[d] = fd[d] \/ fd'[d] = None
    BY <2>1 DEF TypeOK
  <2> QED BY <2>2 DEF FdInv
<1>9. \A d \in Clients \ leaked' : fd'[d] # None => InServer(fd[d])'
  <2> SUFFICES ASSUME NEW d \in Clients \ leaked', fd'[d] # None PROVE InServer(fd[d])'
    OBVIOUS
  <2>1. fd'[d] = fd[d] /\ d # c /\ d \notin leaked /\ fd[d] \in Fds
    BY <1>6, <1>7 DEF TypeOK
  <2>2. InServer(fd[d]) /\ fd[d] # fd[c]
    BY <2>1, <1>4 DEF FdInv
  <2>3. \A g \in Fds : g = fd[d] => InServer(g)
    BY <2>2
  <2>4. \A g \in Fds : g = fd'[d] => InServer(g)'
    BY <1>5, <2>1, <2>2, <2>3
  <2> QED BY <2>1, <2>4
<1>10. ASSUME NEW g \in Fds, InServer(g)' PROVE \E d \in Clients \ leaked' : fd'[d] = g
  <2>1. InServer(g) /\ g # fd[c]
    BY <1>5, <1>10
  <2>2. PICK d \in Clients \ leaked : fd[d] = g
    BY <2>1 DEF FdInv
  <2>3. d # c /\ d \notin leaked' /\ fd'[d] = g
    BY <2>1, <2>2 DEF TypeOK
  <2> QED BY <2>3
<1> QED BY <1>3, <1>8, <1>9, <1>10 DEF FdInv

LEMMA ParseThrowsKeeps ==
  ASSUME IInv, NEW w \in Workers, ParseThrows(w)
  PROVE  IInv'
<1> USE DEF IInv
<1>1. PICK c : c = Served(w)
  OBVIOUS
<1>2. /\ held[w] # None /\ wpc[w] = "find" /\ Pool!Return(w) /\ leaked' = leaked \cup {c}
      /\ wpc' = [wpc EXCEPT ![w] = "read"] /\ request' = [request EXCEPT ![w] = Nothing]
      /\ UNCHANGED <<acceptVars, remaining, backlog, fd, sock, ended>>
  BY <1>1 DEF ParseThrows, At, To
<1>3. /\ c \in Clients \ leaked /\ fd[c] = held[w]
      /\ \A v \in Workers : held[v] = held[w] => v = w
  BY <1>1, <1>2, ServedClient
<1>4. /\ held' = [held EXCEPT ![w] = None] /\ UNCHANGED <<queues, stopped>>
  BY <1>2 DEF Pool!Return
<1>5. /\ held'[w] = None /\ wpc'[w] = "read"
      /\ \A v \in Workers \ {w} : held'[v] = held[v] /\ wpc'[v] = wpc[v]
  BY <1>2, <1>4 DEF TypeOK
<1>6. TypeOK'
  <2>1. wpc' \in [Workers -> {"read", "find", "write", "close"}]
    BY <1>2 DEF TypeOK
  <2>2. request' \in [Workers -> Arrivals \cup {Nothing}]
    BY <1>2 DEF TypeOK
  <2>3. held' \in [Workers -> Fds \cup {None}]
    BY <1>4 DEF TypeOK
  <2> QED BY <1>2, <1>3, <1>4, <2>1, <2>2, <2>3 DEF TypeOK, acceptVars
<1>7. PlaceInv' /\ FdInv'
  BY <1>2, <1>3, Returned
<1>8. WorkInv'
  BY <1>2, <1>5 DEF WorkInv
<1>9. ConnOK(c)'
  <2>1. fd[c] # None /\ ~sock[c].answered
    BY <1>2, <1>3 DEF ConnInv, ConnOK, Answering
  <2>2. \A v \in Workers : held'[v] # fd[c]
    BY <1>3, <1>5, <2>1
  <2> QED BY <1>2, <1>3, <2>1, <2>2 DEF ConnInv, ConnOK
<1>10. ASSUME NEW d \in Clients \ {c} PROVE ConnOK(d)'
  <2>1. ConnOK(d)
    BY DEF ConnInv
  <2>2. sock[d].answered /\ fd[d] # None =>
          \E v \in Workers : v # w /\ Answering(v, d)
            /\ (sock[d].got + remaining[v] = Total \/ sock[d].phase = "reset")
    BY <1>2, <2>1 DEF ConnOK, Answering
  <2> QED BY <1>2, <1>5, <2>1, <2>2 DEF ConnOK, Answering
<1> QED BY <1>2, <1>6, <1>7, <1>8, <1>9, <1>10 DEF ConnInv

LEMMA CloseKeeps ==
  ASSUME IInv, NEW w \in Workers, Close(w)
  PROVE  IInv'
<1> USE DEF IInv
<1>1. PICK c : c = Served(w)
  OBVIOUS
<1>2. /\ held[w] # None /\ wpc[w] = "close" /\ Pool!Return(w) /\ fd' = [fd EXCEPT ![c] = None]
      /\ \/ sock' = sock /\ sock[c].phase = "reset"
         \/ Phase(c, "closed") /\ sock[c].phase # "reset"
      /\ wpc' = [wpc EXCEPT ![w] = "read"]
      /\ UNCHANGED <<acceptVars, request, remaining, backlog, leaked, ended>>
  <2>1. sock' = IF sock[c].phase = "reset" THEN sock ELSE [sock EXCEPT ![c].phase = "closed"]
    BY <1>1 DEF Close
  <2>2. \/ sock' = sock /\ sock[c].phase = "reset"
        \/ Phase(c, "closed") /\ sock[c].phase # "reset"
    <3>1. CASE sock[c].phase = "reset"
      BY <2>1, <3>1
    <3>2. CASE sock[c].phase # "reset"
      BY <2>1, <3>2 DEF Phase
    <3> QED BY <3>1, <3>2
  <2>3. fd' = [fd EXCEPT ![c] = None]
    BY <1>1 DEF Close
  <2> QED BY <2>2, <2>3 DEF Close, At, To
<1>3. /\ c \in Clients \ leaked /\ fd[c] = held[w]
      /\ \A v \in Workers : held[v] = held[w] => v = w
  BY <1>1, <1>2, ServedClient
<1>4. /\ held' = [held EXCEPT ![w] = None] /\ UNCHANGED <<queues, stopped>>
  BY <1>2 DEF Pool!Return
<1>5. /\ held'[w] = None /\ wpc'[w] = "read" /\ fd'[c] = None
      /\ \A v \in Workers \ {w} : held'[v] = held[v] /\ wpc'[v] = wpc[v]
      /\ \A d \in Clients \ {c} : fd'[d] = fd[d]
  BY <1>2, <1>3, <1>4 DEF TypeOK
<1>6. \/ sock[c].phase = "reset" /\ SockStep(c, "reset", sock[c].got, sock[c].answered)
      \/ sock[c].phase # "reset" /\ SockStep(c, "closed", sock[c].got, sock[c].answered)
  BY <1>2, <1>3, PhaseStep DEF TypeOK, SockStep
<1>7. TypeOK'
  <2>1. wpc' \in [Workers -> {"read", "find", "write", "close"}]
    BY <1>2 DEF TypeOK
  <2>2. held' \in [Workers -> Fds \cup {None}]
    BY <1>4 DEF TypeOK
  <2>3. fd' \in [Clients -> Fds \cup {None}]
    BY <1>2 DEF TypeOK
  <2> QED BY <1>2, <1>4, <1>6, <2>1, <2>2, <2>3 DEF TypeOK, SockStep, acceptVars
<1>8. PlaceInv' /\ FdInv'
  BY <1>2, <1>3, Returned
<1>9. WorkInv'
  BY <1>2, <1>5 DEF WorkInv
<1>10. ConnOK(c)'
  <2>1. fd[c] # None /\ ConnOK(c) /\ c \notin Range(backlog) /\ c \notin leaked
    BY <1>2, <1>3 DEF ConnInv, ConnOK
  <2>2. remaining[w] = 0
    BY <1>2 DEF WorkInv
  <2>3. sock[c].answered => sock[c].got = Total \/ sock[c].phase = "reset"
    <3> SUFFICES ASSUME sock[c].answered PROVE sock[c].got = Total \/ sock[c].phase = "reset"
      OBVIOUS
    <3>1. PICK v \in Workers :
            Answering(v, c) /\ (sock[c].got + remaining[v] = Total \/ sock[c].phase = "reset")
      BY <2>1 DEF ConnOK
    <3>2. v = w
      BY <1>3, <3>1 DEF Answering
    <3>3. sock[c].got \in Nat
      BY <1>3 DEF TypeOK, ConnType
    <3> QED BY <2>2, <3>1, <3>2, <3>3
  <2>4. sock'[c].phase \in {"reset", "closed"} /\ sock'[c].got = sock[c].got
        /\ sock'[c].answered = sock[c].answered
        /\ (sock'[c].phase = "closed" => sock[c].phase # "reset")
    BY <1>6 DEF SockStep
  <2>5. \A v \in Workers : ~(held'[v] = fd'[c] /\ wpc'[v] = "write")
    BY <1>5, <1>9 DEF WorkInv
  <2> QED BY <1>2, <1>5, <2>1, <2>3, <2>4, <2>5 DEF ConnOK
<1>11. ASSUME NEW d \in Clients \ {c} PROVE ConnOK(d)'
  <2>1. ConnOK(d) /\ sock'[d] = sock[d]
    BY <1>6 DEF ConnInv, SockStep
  <2>2. fd[d] # held[w]
    BY <1>2, <1>3 DEF FdInv
  <2> QED BY <1>2, <1>5, <2>1, <2>2 DEF ConnOK, Answering
<1> QED BY <1>2, <1>7, <1>8, <1>9, <1>10, <1>11 DEF ConnInv

LEMMA HandleKeeps ==
  ASSUME IInv, NEW w \in Workers, Handle(w)
  PROVE  IInv'
<1> USE DEF IInv
<1>1. PICK c : c = Served(w)
  OBVIOUS
<1>2. /\ held[w] # None /\ wpc[w] = "find"
      /\ sock' = [sock EXCEPT ![c].answered = TRUE]
      /\ remaining' = [remaining EXCEPT ![w] = Total]
      /\ wpc' = [wpc EXCEPT ![w] = "write"] /\ request' = [request EXCEPT ![w] = Nothing]
      /\ UNCHANGED <<acceptVars, poolVars, backlog, fd, leaked, ended>>
  BY <1>1 DEF Handle, At, To
<1>3. /\ c \in Clients \ leaked /\ fd[c] = held[w]
      /\ \A d \in Clients : fd[d] = held[w] => d = c
      /\ \A v \in Workers : held[v] = held[w] => v = w
  BY <1>1, <1>2, ServedClient
<1>4. SockStep(c, sock[c].phase, sock[c].got, TRUE)
  <2> DEFINE s == [sock[c] EXCEPT !.answered = TRUE]
  <2>1. sock[c] \in ConnType
    BY <1>3 DEF TypeOK
  <2>2. s \in ConnType /\ s.phase = sock[c].phase /\ s.got = sock[c].got /\ s.answered = TRUE
    BY <2>1 DEF ConnType
  <2>3. sock' = [sock EXCEPT ![c] = s]
    BY <1>2
  <2> HIDE DEF s
  <2> QED BY <1>3, <2>2, <2>3 DEF TypeOK, SockStep
<1>5. /\ wpc'[w] = "write" /\ remaining'[w] = Total
      /\ \A v \in Workers \ {w} : wpc'[v] = wpc[v] /\ remaining'[v] = remaining[v]
  BY <1>2 DEF TypeOK
<1>6. TypeOK'
  <2>1. wpc' \in [Workers -> {"read", "find", "write", "close"}]
    BY <1>2 DEF TypeOK
  <2>2. request' \in [Workers -> Arrivals \cup {Nothing}]
    BY <1>2 DEF TypeOK
  <2>3. remaining' \in [Workers -> 0 .. Total]
    BY <1>2 DEF TypeOK
  <2> QED BY <1>2, <1>4, <2>1, <2>2, <2>3 DEF TypeOK, SockStep, acceptVars, poolVars
<1>7. PlaceInv' /\ FdInv'
  BY <1>2, PlaceFrame, FdFrame DEF acceptVars, poolVars
<1>8. WorkInv'
  BY <1>2, <1>5 DEF WorkInv, poolVars
<1>9. ConnOK(c)'
  <2>1. ConnOK(c) /\ fd[c] # None
    BY <1>2, <1>3 DEF ConnInv
  <2>2. ~sock[c].answered
    BY <1>2, <1>3, <2>1 DEF ConnOK, Answering
  <2>3. /\ sock'[c].phase = sock[c].phase /\ sock'[c].got = 0 /\ sock'[c].answered
    BY <1>4, <2>1, <2>2 DEF ConnOK, SockStep
  <2>4. Answering(w, c)' /\ sock'[c].got + remaining'[w] = Total
    BY <1>2, <1>3, <1>5, <2>3 DEF Answering, poolVars
  <2>5. sock[c].phase \notin {"new", "closed"} /\ c \notin Range(backlog)
    BY <2>1 DEF ConnOK
  <2> QED BY <1>2, <1>3, <2>1, <2>3, <2>4, <2>5 DEF ConnOK
<1>10. ASSUME NEW d \in Clients \ {c} PROVE ConnOK(d)'
  <2>1. ConnOK(d) /\ sock'[d] = sock[d] /\ fd[d] # held[w]
    BY <1>3, <1>4 DEF ConnInv, SockStep
  <2> QED BY <1>2, <1>5, <2>1 DEF ConnOK, Answering, poolVars
<1> QED BY <1>2, <1>6, <1>7, <1>8, <1>9, <1>10 DEF ConnInv

LEMMA WriteKeeps ==
  ASSUME IInv, NEW w \in Workers, Write(w)
  PROVE  IInv'
<1> USE DEF IInv
<1>1. PICK c : c = Served(w)
  OBVIOUS
<1>2. PICK n \in 1 .. remaining[w] :
        /\ sock' = [sock EXCEPT ![c].got = @ + n]
        /\ remaining' = [remaining EXCEPT ![w] = @ - n]
  BY <1>1 DEF Write
<1>3. /\ held[w] # None /\ wpc[w] = "write" /\ sock[c].phase # "reset"
      /\ UNCHANGED <<acceptVars, poolVars, wpc, request, backlog, fd, leaked, ended>>
  BY <1>1 DEF Write, At
<1>4. /\ c \in Clients \ leaked /\ fd[c] = held[w]
      /\ \A v \in Workers : held[v] = held[w] => v = w
  BY <1>1, <1>3, ServedClient
<1>5. ConnOK(c) /\ fd[c] # None /\ sock[c].answered
  BY <1>3, <1>4 DEF ConnInv, ConnOK
<1>6. sock[c].got + remaining[w] = Total
  <2>1. PICK v \in Workers :
          Answering(v, c) /\ (sock[c].got + remaining[v] = Total \/ sock[c].phase = "reset")
    BY <1>5 DEF ConnOK
  <2>2. v = w
    BY <1>4, <2>1 DEF Answering
  <2> QED BY <1>3, <2>1, <2>2
<1>7. /\ sock[c] \in ConnType /\ remaining[w] \in Nat /\ sock[c].got \in Nat
      /\ sock[c].got + n \in 0 .. Total /\ remaining[w] - n \in 0 .. Total
      /\ (sock[c].got + n) + (remaining[w] - n) = Total
  <2>1. sock[c] \in ConnType /\ remaining[w] \in Nat
    BY <1>4 DEF TypeOK
  <2>2. sock[c].got \in Nat
    BY <2>1 DEF ConnType
  <2> QED BY <1>6, <2>1, <2>2
<1>8. SockStep(c, sock[c].phase, sock[c].got + n, sock[c].answered)
  <2> DEFINE got == sock[c].got + n
             s == [sock[c] EXCEPT !.got = got]
  <2>1. got \in 0 .. Total /\ sock[c] \in ConnType
    BY <1>7
  <2>2. sock' = [sock EXCEPT ![c] = s]
    BY <1>2
  <2> HIDE DEF got
  <2>3. s \in ConnType /\ s.phase = sock[c].phase /\ s.got = got /\ s.answered = sock[c].answered
    BY <2>1 DEF ConnType
  <2> HIDE DEF s
  <2>4. SockStep(c, sock[c].phase, got, sock[c].answered)
    BY <1>4, <2>2, <2>3 DEF TypeOK, SockStep
  <2> QED BY <2>4 DEF got
<1>9. /\ remaining'[w] = remaining[w] - n
      /\ \A v \in Workers \ {w} : remaining'[v] = remaining[v]
  BY <1>2 DEF TypeOK
<1>10. TypeOK'
  <2>1. remaining' \in [Workers -> 0 .. Total]
    BY <1>2, <1>7 DEF TypeOK
  <2> QED BY <1>3, <1>8, <2>1 DEF TypeOK, SockStep, acceptVars, poolVars
<1>11. PlaceInv' /\ FdInv'
  BY <1>3, PlaceFrame, FdFrame DEF acceptVars, poolVars
<1>12. WorkInv'
  BY <1>3, <1>9 DEF WorkInv, poolVars
<1>13. ConnOK(c)'
  <2>1. /\ sock'[c].phase = sock[c].phase /\ sock'[c].got = sock[c].got + n /\ sock'[c].answered
    BY <1>5, <1>8 DEF SockStep
  <2>2. Answering(w, c)' /\ sock'[c].got + remaining'[w] = Total
    BY <1>3, <1>4, <1>7, <1>9, <2>1 DEF Answering, poolVars
  <2>3. sock[c].phase \notin {"new", "closed"} /\ c \notin Range(backlog) /\ c \notin leaked
    BY <1>4, <1>5 DEF ConnOK
  <2> QED BY <1>3, <1>5, <2>1, <2>2, <2>3 DEF ConnOK
<1>14. ASSUME NEW d \in Clients \ {c} PROVE ConnOK(d)'
  <2>1. ConnOK(d) /\ sock'[d] = sock[d]
    BY <1>8 DEF ConnInv, SockStep
  <2>2. fd[d] = held[w] => fd[d] = None
    BY <1>4 DEF FdInv
  <2> QED BY <1>3, <1>9, <2>1, <2>2 DEF ConnOK, Answering, poolVars
<1> QED BY <1>3, <1>10, <1>11, <1>12, <1>13, <1>14 DEF ConnInv
-----------------------------------------------------------------------------
LEMMA NextKeeps == IInv /\ [Next]_vars => IInv'
<1> SUFFICES ASSUME IInv, [Next]_vars PROVE IInv'
  OBVIOUS
<1>1. CASE \E c \in Clients : Client(c)
  BY <1>1, ConnectKeeps, ClientKeeps DEF Client
<1>2. CASE AcceptThread
  BY <1>2, AcceptKeeps, DispatchKeeps, AroundKeeps DEF AcceptThread
<1>3. CASE Signal \/ UNCHANGED vars
  BY <1>3, AroundKeeps
<1>4. CASE \E w \in Workers : Worker(w)
  <2>1. PICK w \in Workers : Worker(w)
    BY <1>4
  <2>2. CASE HandleClient(w)
    BY <2>2, WorkKeeps, ParseThrowsKeeps, HandleKeeps, WriteKeeps, CloseKeeps DEF HandleClient
  <2>3. CASE UseAfterFree(w) \/ BrokenPipe(w)
    BY <2>3, AroundKeeps
  <2> QED BY <2>1, <2>2, <2>3, TakeKeeps DEF Worker
<1> QED BY <1>1, <1>2, <1>3, <1>4 DEF Next, Ended

(* Every state of every behaviour satisfies the invariant.                 *)
THEOREM Invariance == Spec => []IInv
BY InitHolds, NextKeeps, PTL DEF Spec

(* Every variable has a value of its type.                                 *)
THEOREM TypeCorrect == Spec => []TypeOK
<1>1. IInv => TypeOK
  BY DEF IInv
<1> QED BY <1>1, Invariance, PTL

(* An answer that was begun is at the client, all of it, when handleClient *)
(* closes the connection, in however many pieces it was written.           *)
THEOREM AnswersWhole == Spec => []WholeAnswers
<1>1. IInv => WholeAnswers
  BY DEF IInv, ConnInv, ConnOK, WholeAnswers
<1> QED BY <1>1, Invariance, PTL
-----------------------------------------------------------------------------
LEMMA OnePlace == IInv => DescriptorsOwned
<1> SUFFICES ASSUME IInv, NEW f \in Fds
             PROVE  Cardinality(Places(f)) =
                      IF \E c \in Clients \ leaked : fd[c] = f THEN 1 ELSE 0
  BY DEF DescriptorsOwned
<1> USE DEF IInv
<1>1. ASSUME NEW w \in Workers
      PROVE  f \in Range(queues[w]) <=> \E i \in DOMAIN queues[w] : queues[w][i] = f
  BY DEF Range
<1> DEFINE Accepted == {<<"accepted", 0, 0>> : x \in {f} \cap {accepted}}
           Queued == UNION {{<<"queued", w, i>> : i \in {j \in DOMAIN queues[w] : queues[w][j] = f}} :
                              w \in Workers}
           InHand == {<<"held", w, 0>> : w \in {v \in Workers : held[v] = f}}
<1>2. Places(f) = Accepted \cup Queued \cup InHand
  BY DEF Places
<1> HIDE DEF Accepted, Queued, InHand
<1>3. Accepted = IF accepted = f THEN {<<"accepted", 0, 0>>} ELSE {}
  BY DEF Accepted
<1>4. (\A w \in Workers : f \notin Range(queues[w])) => Queued = {}
  BY <1>1 DEF Queued
<1>5. (\A w \in Workers : held[w] # f) => InHand = {}
  BY DEF InHand
<1>6. (\E c \in Clients \ leaked : fd[c] = f) <=> InServer(f)
  BY DEF FdInv
<1>7. CASE ~InServer(f)
  <2>1. Places(f) = {}
    BY <1>2, <1>3, <1>4, <1>5, <1>7 DEF InServer
  <2> QED BY <1>6, <1>7, <2>1, FS_EmptySet
<1>8. CASE accepted = f
  <2>1. \A w \in Workers : f \notin Range(queues[w]) /\ held[w] # f
    BY <1>8 DEF PlaceInv
  <2>2. Places(f) = {<<"accepted", 0, 0>>}
    BY <1>2, <1>3, <1>4, <1>5, <1>8, <2>1
  <2> QED BY <1>6, <1>8, <2>2, FS_Singleton DEF InServer
<1>9. CASE \E w \in Workers : held[w] = f
  <2>1. PICK w \in Workers : held[w] = f
    BY <1>9
  <2>2. /\ \A v \in Workers : f \notin Range(queues[v])
        /\ \A v \in Workers : held[v] = f => v = w
        /\ accepted # f
    BY <2>1 DEF PlaceInv
  <2>3. InHand = {<<"held", w, 0>>}
    BY <2>1, <2>2 DEF InHand
  <2>4. Places(f) = {<<"held", w, 0>>}
    BY <1>2, <1>3, <1>4, <2>2, <2>3
  <2> QED BY <1>6, <1>9, <2>4, FS_Singleton DEF InServer
<1>10. CASE \E w \in Workers : f \in Range(queues[w])
  <2>1. PICK w \in Workers : f \in Range(queues[w])
    BY <1>10
  <2>2. PICK i \in DOMAIN queues[w] : queues[w][i] = f
    BY <1>1, <2>1
  <2>3. /\ \A v \in Workers : f \in Range(queues[v]) => v = w
        /\ \A v \in Workers : held[v] # f
        /\ accepted # f
        /\ \A j \in DOMAIN queues[w] : queues[w][j] = f => j = i
    BY <2>1, <2>2 DEF PlaceInv, IsInjective
  <2>4. \A v \in Workers : \A j \in DOMAIN queues[v] : queues[v][j] = f => v = w /\ j = i
    BY <1>1, <2>3
  <2>5. Queued = {<<"queued", w, i>>}
    BY <2>2, <2>4 DEF Queued
  <2>6. Places(f) = {<<"queued", w, i>>}
    BY <1>2, <1>3, <1>5, <2>3, <2>5
  <2> QED BY <1>6, <1>10, <2>6, FS_Singleton DEF InServer
<1> QED BY <1>7, <1>8, <1>9, <1>10 DEF InServer

(* An open descriptor is in one place, and one alone, between accept() and *)
(* close(), unless an exception of the parser left it open.                *)
THEOREM OwnedDescriptors == Spec => []DescriptorsOwned
BY OnePlace, Invariance, PTL
-----------------------------------------------------------------------------
(***************************************************************************)
(* What the workers parse.                                                 *)
(***************************************************************************)

(* A worker that has read holds a beginning of somebody's request.         *)
ReadInv == \A w \in Workers : wpc[w] = "find" => request[w] \in Arrivals

LEMMA ReadKeeps == IInv /\ ReadInv /\ [Next]_vars => ReadInv'
<1> SUFFICES ASSUME IInv, ReadInv, [Next]_vars PROVE ReadInv'
  OBVIOUS
<1>1. wpc \in [Workers -> {"read", "find", "write", "close"}] /\ DOMAIN request = Workers
  BY DEF IInv, TypeOK
<1>2. CASE UNCHANGED <<wpc, request>>
  BY <1>2 DEF ReadInv
<1>3. ASSUME NEW w \in Workers, NEW pc, To(w, pc),
             \A v \in Workers \ {w} : request'[v] = request[v],
             pc # "find" \/ request'[w] \in Arrivals
      PROVE  ReadInv'
  <2>1. wpc'[w] = pc /\ \A v \in Workers \ {w} : wpc'[v] = wpc[v]
    BY <1>1, <1>3 DEF To
  <2> QED BY <1>3, <2>1 DEF ReadInv
<1>4. ASSUME NEW w \in Workers, Worker(w) PROVE ReadInv'
  <2>1. CASE (\E q \in Workers : Take(w, q)) \/ UseAfterFree(w) \/ BrokenPipe(w)
    BY <1>2, <2>1 DEF Take, UseAfterFree, BrokenPipe, workVars
  <2>2. CASE Read(w)
    <3>1. PICK a \in Arrivals : request' = [request EXCEPT ![w] = a]
      BY <2>2 DEF Read
    <3>2. To(w, "find")
      BY <2>2 DEF Read
    <3> QED BY <1>1, <1>3, <3>1, <3>2
  <2>3. CASE ReadNothing(w)
    <3>1. To(w, "close") /\ request' = request
      BY <2>3 DEF ReadNothing
    <3> QED BY <1>3, <3>1
  <2>4. CASE ParseThrows(w)
    <3>1. To(w, "read") /\ request' = [request EXCEPT ![w] = Nothing]
      BY <2>4 DEF ParseThrows
    <3> QED BY <1>1, <1>3, <3>1
  <2>5. CASE Handle(w)
    <3>1. To(w, "write") /\ request' = [request EXCEPT ![w] = Nothing]
      BY <2>5 DEF Handle
    <3> QED BY <1>1, <1>3, <3>1
  <2>6. CASE Write(w)
    BY <1>2, <2>6 DEF Write
  <2>7. CASE WriteEnds(w)
    <3>1. To(w, "close") /\ request' = request
      BY <2>7 DEF WriteEnds
    <3> QED BY <1>3, <3>1
  <2>8. CASE Close(w)
    <3>1. To(w, "read") /\ request' = request
      BY <2>8 DEF Close
    <3> QED BY <1>3, <3>1
  <2> QED BY <1>4, <2>1, <2>2, <2>3, <2>4, <2>5, <2>6, <2>7, <2>8 DEF Worker, HandleClient
<1>5. CASE \E c \in Clients : Client(c)
  BY <1>2, <1>5 DEF Client, Connect, Send, Finish, Reset, workVars
<1>6. CASE AcceptThread
  BY <1>2, <1>6
     DEF AcceptThread, Run, Test, Accept, AcceptFails, AcceptBlocks, Dispatch, Destroy, Exit, workVars
<1>7. CASE Signal \/ UNCHANGED vars
  BY <1>2, <1>7 DEF Signal, vars, workVars
<1> QED BY <1>4, <1>5, <1>6, <1>7 DEF Next, Ended

LEMMA AsSent == ReadInv => ParsedAsSent
<1> SUFFICES ASSUME ReadInv, NEW w \in Workers, At(w, "find")
             PROVE  LET r == request[w].of
                        path == Before(r.target, "?")
                        got == Parsed[request[w]]
                        epollGot == ParseHttpRequest(request[w].read)
                        sent == [method |-> r.method, path |-> path, body |-> r.body,
                                 throws |-> FALSE]
                    IN /\ Understood(got, r, path)
                       /\ epollGot.throws \/ Understood(epollGot, r, r.target)
                       /\ got.throws => \E i \in DOMAIN r.headers : EndsAtColon(r.headers[i])
                       /\ request[w].read = Rendered(r) /\ r.headers # <<>> /\ ~got.throws =>
                            /\ got = sent
                            /\ epollGot = [sent EXCEPT !.path = r.target]
                            /\ path = r.target /\ RouteOf(r.method, path) # "empty" =>
                                 FindHandler(r.method, path) = RouteOf(r.method, path)
  BY DEF ParsedAsSent
<1>1. request[w] \in Arrivals
  BY DEF ReadInv, At
<1>2. PICK r \in Requests :
        request[w] \in {[of |-> r, read |-> SubSeq(Rendered(r), 1, n)] : n \in 1 .. Len(Rendered(r))}
  BY <1>1 DEF Arrivals
<1>3. PICK n \in 1 .. Len(Rendered(r)) :
        request[w] = [of |-> r, read |-> SubSeq(Rendered(r), 1, n)]
  BY <1>2
<1>4. WellFormed(r)
  BY RequestsAssumption
<1> DEFINE s == SubSeq(Rendered(r), 1, n)
           path == Before(r.target, "?")
           got == Parse(s)
           epollGot == ParseHttpRequest(s)
           sent == [method |-> r.method, path |-> path, body |-> r.body, throws |-> FALSE]
           meant == [method |-> r.method, path |-> r.target, body |-> r.body, throws |-> FALSE]
<1>5. request[w].of = r /\ request[w].read = s
  BY <1>3
<1>6. Parsed[request[w]] = got
  BY <1>1, <1>5 DEF Parsed
<1>7. s = Rendered(r) => n = Len(Rendered(r))
  <2>1. Rendered(r) \in Seq(Symbols)
    BY <1>4, RenderedRead
  <2>2. Len(s) = n
    BY <2>1, CutRead
  <2> QED BY <2>2
<1>8. /\ Understood(got, r, path)
      /\ got.throws => \E i \in DOMAIN r.headers : EndsAtColon(r.headers[i])
      /\ n = Len(Rendered(r)) /\ r.headers # <<>> /\ ~got.throws => got = sent
  BY <1>4, ParsedRight
<1>9. /\ epollGot.throws \/ Understood(epollGot, r, r.target)
      /\ n = Len(Rendered(r)) => epollGot = meant
  BY <1>4, EpollRight
<1>10. [sent EXCEPT !.path = r.target] = meant
  <2> DEFINE no == FALSE
             m == r.method
             b == r.body
             t == r.target
  <2>1. sent = [method |-> m, path |-> path, body |-> b, throws |-> no]
        /\ meant = [method |-> m, path |-> t, body |-> b, throws |-> no]
    OBVIOUS
  <2> HIDE DEF no, m, b, path, sent, meant
  <2>2. [sent EXCEPT !.path = t] = meant
    BY <2>1
  <2> QED BY <2>2 DEF t
<1>11. RouteOf(r.method, path) # "empty" => FindHandler(r.method, path) = RouteOf(r.method, path)
  BY RoutesAgree
<1> HIDE DEF s, path, got, epollGot, sent, meant
<1>12. /\ Understood(got, r, path)
       /\ epollGot.throws \/ Understood(epollGot, r, r.target)
       /\ got.throws => \E i \in DOMAIN r.headers : EndsAtColon(r.headers[i])
       /\ s = Rendered(r) /\ r.headers # <<>> /\ ~got.throws =>
            /\ got = sent
            /\ epollGot = [sent EXCEPT !.path = r.target]
            /\ path = r.target /\ RouteOf(r.method, path) # "empty" =>
                 FindHandler(r.method, path) = RouteOf(r.method, path)
  BY <1>7, <1>8, <1>9, <1>10, <1>11
<1> QED BY <1>5, <1>6, <1>12 DEF path, epollGot, sent

(* Wherever read() cuts a request, what both servers make of it is what    *)
(* the client sent, or nothing, and all of it if all of it was read.       *)
THEOREM RequestsParsed == Spec => []ParsedAsSent
<1>1. Init => ReadInv
  BY DEF Init, ReadInv
<1>2. Spec => []ReadInv
  BY <1>1, ReadKeeps, Invariance, PTL DEF Spec
<1> QED BY <1>2, AsSent, PTL
=============================================================================
