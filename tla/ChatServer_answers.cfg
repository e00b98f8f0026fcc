\* Every operation, by two threads; statements may begin to fail at any time, and
\* the process may end anywhere.
SPECIFICATION Spec
CONSTANTS
  Threads = {t1, t2}
  Ids = {i1, i2, i3}
  Users = {u1, u2}
  Passwords = {p1, p2}
  Rooms = {r1}
  Ops = {"register", "login", "logout", "create_room", "join_room", "send_message", "messages", "rooms", "users", "malformed"}
  MaxTime = 2
  None = none
SYMMETRY Symmetry
INVARIANTS
  TypeOK
  AnswersHold
  NamesAreUnique
  AnswersAreFresh
