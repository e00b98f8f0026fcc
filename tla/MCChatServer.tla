---------------------------- MODULE MCChatServer ----------------------------
(* Instances of ChatServer for TLC: everything that has a name is a model  *)
(* value, and the names of a kind are interchangeable.                     *)
EXTENDS ChatServer, TLC

Symmetry ==
  UNION {Permutations(S) : S \in {Threads, Ids, Users, Passwords, Rooms}}
=============================================================================
