SPECIFICATION Spec
CHECK_DEADLOCK FALSE
CONSTANTS
  Host = {h1, h2}
  Rec = {r1}
  Kind = {"comment", "reaction", "status"}
  Actor = {"ann", "bob"}
  Mention <- MCMention
  MaxLog = 2
  Slot = {s1, s2}
  MaxError = 1
  Key <- MCKey
  SeenMax = 1
  QueueMax = 1
  PerMessage = 1
  MaxFlights = 1
  MaxFault = 1
SYMMETRY SlotSymmetry
INVARIANTS TypeOK MirroredOnce WrittenOnceIsIndexed
PROPERTY HandleNeverBlanked
