\* Two calls of the page overlap in any way, over two rooms and two messages.
SPECIFICATION FairSpec
CONSTANTS
  Slots = {s1, s2}
  User = me
  Rooms = {r1, r2}
  MaxLog = 2
  None = none
INVARIANTS
  TypeOK
  ShowsRoom
  NoMessageTwice
PROPERTIES
  EveryoneSees
