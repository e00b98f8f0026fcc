------------------------------ MODULE MCReactor ------------------------------
(* Instances of Reactor for TLC.  The names are model values; the clients  *)
(* and the descriptors are interchangeable in the runs without liveness.   *)
EXTENDS Reactor, TLC

Symmetry == Permutations(Conns) \cup Permutations(Fds)
=============================================================================
