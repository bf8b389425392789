SPECIFICATION Spec
CHECK_DEADLOCK FALSE
CONSTANTS
  Host = {h1, h2}
  Rec = {r1}
  Kind = {"comment"}
  Actor = {"ann", "bob"}
  Mention <- MCMention
  MaxLog = 2
  Slot = {s1}
  MaxError = 0
  Key <- MCKey
  SeenMax = 2
  QueueMax = 1
  PerMessage = 1
  MaxFlights = 1
  MaxFault = 0
PROPERTY DuplicatesHarmless
