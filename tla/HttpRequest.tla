----------------------------- MODULE HttpRequest -----------------------------
(***************************************************************************)
(* The two parsers of the program and their routing: HttpRequest::parse()  *)
(* with HttpServer::findHandler(), and parseHttpRequest() with the look-up *)
(* in ChatroomServerEpoll::handleClientEvent().                            *)
(*                                                                         *)
(* A request is a sequence of symbols: the separators the parsers look for *)
(* are symbols, and so is whatever lies between two of them.  The values   *)
(* of headers are only logged, and no handler looks at a query: of the     *)
(* headers there remains where they end and which of them are fatal.       *)
(***************************************************************************)
EXTENDS Naturals, SequencesExt

CONSTANTS
  Symbols,      \* what requests consist of, the separators and everything else
  Routes        \* the methods and paths (both sequences) with a handler

ASSUME SymbolsAssumption == {"sp", "cr", "lf", ":", "?", "HTTP/1.1"} \subseteq Symbols

Eol == <<"cr", "lf">>
BlankLine == Eol \o Eol

(* What a client sends, of a method, a target (a path and perhaps a query),*)
(* header lines, and a body.                                               *)
Rendered(r) ==
  r.method \o <<"sp">> \o r.target \o <<"sp", "HTTP/1.1">> \o Eol
    \o FlattenSeq([i \in DOMAIN r.headers |-> r.headers[i] \o Eol])
    \o Eol \o r.body

(* A request of a client that keeps to the protocol: method and target     *)
(* hold no separator and header lines no end of line, and none is empty; a *)
(* body follows headers (one is its length), and JSON does not end in "cr".*)
Line == Symbols \ {"cr", "lf"}
Text == Line \ {"sp"}

WellFormed(r) ==
  /\ r.method \in Seq(Text) \ {<<>>} /\ r.target \in Seq(Text) \ {<<>>}
  /\ r.headers \in Seq(Seq(Line) \ {<<>>}) /\ r.body \in Seq(Symbols)
  /\ r.body # <<>> => r.headers # <<>> /\ Last(r.body) # "cr"

(* std::string::find: where p begins in s, at "from" or later; 0 for npos. *)
Find(s, p, from) ==
  LET found == {i \in from .. Len(s) + 1 - Len(p) : SubSeq(s, i, i + Len(p) - 1) = p}
  IN IF found = {} THEN 0 ELSE Min(found)

Before(s, symbol) ==
  LET i == Find(s, <<symbol>>, 1) IN IF i = 0 THEN s ELSE SubSeq(s, 1, i - 1)
-----------------------------------------------------------------------------
(* HttpRequest::parse().                                                   *)

(* The header lines between two places, each as its first and last symbol. *)
HeaderLines(s, from, to) ==
  {line \in (from .. to) \X (from .. to) :
     /\ line[1] = from \/ SubSeq(s, line[1] - 2, line[1] - 1) = Eol
     /\ line[2] + 1 = Find(s, Eol, line[1])}

(* "Key:" and nothing after it: substr(colon_pos + 2) starts past its end. *)
Fatal(s, line) == Find(s, <<":">>, line[1]) = line[2]

Unparsed == [method |-> <<>>, path |-> <<>>, body |-> <<>>, throws |-> FALSE]

(* Mutant: the end of the headers is looked for from the start of the      *)
(* request line's end, and the body begins where it is found.              *)
Parse_OneEolShort(s) ==
  LET methodEnd == Find(s, <<"sp">>, 1)
      pathEnd   == Find(s, <<"sp">>, methodEnd + 1)
      start     == Find(s, Eol, pathEnd) + 2
      end       == Find(s, BlankLine, start)
      head      == [Unparsed EXCEPT !.method = SubSeq(s, 1, methodEnd - 1)]
      line      == [head EXCEPT !.path = Before(SubSeq(s, methodEnd + 1, pathEnd - 1), "?")]
  IN IF methodEnd = 0 THEN Unparsed
     ELSE IF pathEnd = 0 THEN head
     ELSE IF start = 2 \/ end = 0 THEN line
     ELSE [line EXCEPT !.throws = \E l \in HeaderLines(s, start, end - 1) : Fatal(s, l),
                       !.body = SubSeq(s, end + 2, Len(s))]

(* The first space ends the method, the second the path; without one, or   *)
(* without a blank line after at least one header, the rest stays empty.   *)
Parse(s) ==
  LET methodEnd == Find(s, <<"sp">>, 1)
      pathEnd   == Find(s, <<"sp">>, methodEnd + 1)
      start     == Find(s, Eol, pathEnd) + 2
      end       == Find(s, BlankLine, start)
      rest      == SubSeq(s, end + 4, Len(s))
      head      == [Unparsed EXCEPT !.method = SubSeq(s, 1, methodEnd - 1)]
      line      == [head EXCEPT !.path = Before(SubSeq(s, methodEnd + 1, pathEnd - 1), "?")]
  IN IF methodEnd = 0 THEN Unparsed
     ELSE IF pathEnd = 0 THEN head
     ELSE IF start = 2 \/ end = 0 THEN line
     ELSE [line EXCEPT !.throws = \E l \in HeaderLines(s, start, end - 1) : Fatal(s, l),
                       !.body = IF rest # <<>> /\ Last(rest) = "cr" THEN Front(rest) ELSE rest]

(* HttpServer::findHandler(): the exact path, else the wildcard of GET.    *)
FindHandler(method, path) ==
  IF <<method, path>> \in Routes THEN "handler"
  ELSE IF method = <<"GET">> THEN "static"
  ELSE "none"
-----------------------------------------------------------------------------
(* parseHttpRequest() of the epoll server.                                 *)

Blank == {"sp", "cr"}

(* operator>>: the next word of a line, after place "from".                *)
WordStart(line, from) == SelectInSubSeq(line, from, Len(line), LAMBDA x : x \notin Blank)
WordEnd(line, from) ==
  LET i == SelectInSubSeq(line, from, Len(line), LAMBDA x : x \in Blank)
  IN IF i = 0 THEN Len(line) ELSE i - 1

Word(line, from) ==
  LET a == WordStart(line, from)
  IN IF from > Len(line) \/ a = 0 THEN <<>> ELSE SubSeq(line, a, WordEnd(line, a))

(* Without a blank line the request is bad; else the first line holds the  *)
(* method and the path, with its query, and the body is what follows.      *)
ParseHttpRequest(raw) ==
  LET pos  == Find(raw, BlankLine, 1)
      line == Before(SubSeq(raw, 1, pos - 1), "lf")
      next == WordEnd(line, WordStart(line, 1)) + 1
  IN IF pos <= 1 THEN [Unparsed EXCEPT !.throws = TRUE]
     ELSE [method |-> Word(line, 1), path |-> Word(line, next),
           body |-> SubSeq(raw, pos + 4, Len(raw)), throws |-> FALSE]

(* The look-up of the epoll server: a path unknown to a method other than  *)
(* GET gets an empty answer if the method has handlers.                    *)
RouteOf(method, path) ==
  IF <<method, path>> \in Routes THEN "handler"
  ELSE IF method = <<"GET">> THEN "static"
  ELSE IF method \in {route[1] : route \in Routes} THEN "empty"
  ELSE "none"
-----------------------------------------------------------------------------
(* What the properties of the two servers say of a parser.                 *)

(* Of a request it takes what the client sent, or nothing: never another   *)
(* method or path, never a body that is not a beginning of his.            *)
Understood(parsed, r, path) ==
  /\ parsed.method \in {<<>>, r.method}
  /\ parsed.path \in {<<>>, path}
  /\ IsPrefix(parsed.body, r.body)

EndsAtColon(line) == (Find(line, <<":">>, 1) = Len(line))
=============================================================================
