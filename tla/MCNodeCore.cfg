SPECIFICATION NodeSpec
CONSTANTS
  me = me
  dev = dev
  core = core
  far = far
  l1 = l1
  l2 = l2
  l3 = l3
  Ids = {me, dev, far}
  Inboxes = {inbox}
  Links = {l1, l2, l3}
  NoChan = NoChan
  Messages <- CoreMessages
  NoMsg = NoMsg
  Capacity = 1
  LinkCapacity = 1
  MaxMessageSize = 2
  Me = me
  Remote <- CoreRemote
  Dialed = {}
  Allowed = {dev}
  Arrives <- CoreArrives
  AppMessages <- CoreApp
  ReplyTo <- CoreReplyTo
  Dispatcher = Dispatcher
  App = App
  Programs = {"server"}
  Closes = {l1, l2}
  Stalls = {l1}
CHECK_DEADLOCK FALSE
INVARIANTS
  LiveReplacementKept
  SenderAttribution
PROPERTIES
  RouterSpec
