SPECIFICATION RouterSpec
CONSTANTS
  a = a
  b = b
  Ids = {a, b}
  Inboxes = {in1, in2}
  Links = {link1}
  NoChan = NoChan
  Messages <- MCMessages
  NoMsg = NoMsg
  Capacity = 2
  LinkCapacity = 1
  MaxMessageSize = 1
CHECK_DEADLOCK FALSE
SYMMETRY MCSymmetry
INVARIANTS
  RouterInv
  Conserved
  InOrder
PROPERTIES
  QueuedOnlyWithoutRoute
