\* Users and rooms that were never created.
SPECIFICATION Spec
CONSTANTS
  Threads = {t1}
  Ids = {i1, i2}
  Users = {u1, u2}
  Passwords = {p1}
  Rooms = {r1}
  Ops = {"register", "join_room"}
  MaxTime = 2
  None = none
SYMMETRY Symmetry
INVARIANTS
  ReferencesHold
