--------------------------- MODULE ConnectionLife ---------------------------
(***************************************************************************)
(* What the epoll server promises each client connection, with no          *)
(* descriptors, no event batches and no maps: a connection is queued by    *)
(* the kernel, accepted once, then either answered once or dropped because *)
(* the peer went away, and in both cases released.  The connections do not *)
(* interfere: only closing the listener or the end of the process changes  *)
(* more than one of them.  Reactor implements this specification.          *)
(***************************************************************************)
CONSTANT Conns          \* the connections clients may open, each used once

VARIABLES
  life,                 \* where each connection is in its life
  listening             \* the listening socket is open

lifeVars == <<life, listening>>

Stages == {"absent", "queued", "open", "answered", "dropped", "closed"}

LifeTypeOK ==
  /\ life \in [Conns -> Stages]
  /\ listening \in BOOLEAN

LifeInit ==
  /\ life = [c \in Conns |-> "absent"]
  /\ listening = TRUE

(* One connection moves from one of the stages "from" to the stage "to".   *)
Advance(c, from, to) ==
  /\ life[c] \in from
  /\ life' = [life EXCEPT ![c] = to]
  /\ UNCHANGED listening

Queue(c)   == listening /\ Advance(c, {"absent"}, "queued")
Accept(c)  == listening /\ Advance(c, {"queued"}, "open")
Answer(c)  == Advance(c, {"open"}, "answered")
Drop(c)    == Advance(c, {"open"}, "dropped")
Release(c) == Advance(c, {"answered", "dropped"}, "closed")

(* Closing the listener refuses whoever is still queued.                   *)
CloseListener ==
  /\ listening' = FALSE
  /\ life' = [c \in Conns |-> IF life[c] = "queued" THEN "closed" ELSE life[c]]

(* When the process ends the kernel closes every connection it had.        *)
ServerEnds ==
  /\ listening' = FALSE
  /\ life' = [c \in Conns |-> IF life[c] = "absent" THEN "absent" ELSE "closed"]

LifeNext ==
  \/ \E c \in Conns : Queue(c) \/ Accept(c) \/ Answer(c) \/ Drop(c) \/ Release(c)
  \/ CloseListener
  \/ ServerEnds

LifeSafety == LifeInit /\ [][LifeNext]_lifeVars

(* The short connection: what was answered or dropped does get released.   *)
LifeSpec == LifeSafety /\ \A c \in Conns : WF_lifeVars(Release(c))
=============================================================================
