---------------------------- MODULE MCThreadPool ----------------------------
(* Instances of ThreadPool for TLC: tasks and producers are model values,  *)
(* and the workers are numbered, for the round-robin.                      *)
EXTENDS ThreadPool
=============================================================================
