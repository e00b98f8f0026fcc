\* Two threads, messages of the same millisecond, and messages saved out of
\* the order of their timestamps.
SPECIFICATION Spec
CONSTANTS
  Threads = {t1, t2}
  Ids = {i1, i2, i3}
  Users = {u1}
  Passwords = {p1}
  Rooms = {r1, r2}
  Ops = {"send_message", "messages", "join_room"}
  MaxTime = 2
  None = none
SYMMETRY Symmetry
INVARIANTS
  PollsMissNothing
PROPERTIES
  ImplementsMessageBoard
