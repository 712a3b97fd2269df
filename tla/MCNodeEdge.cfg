SPECIFICATION NodeSpec
CONSTANTS
  me = me
  dev = dev
  core = core
  far = far
  l1 = l1
  l2 = l2
  l3 = l3
  Ids = {me, core, far}
  Inboxes = {inbox}
  Links = {l1, l2}
  NoChan = NoChan
  Messages <- EdgeMessages
  NoMsg = NoMsg
  Capacity = 1
  LinkCapacity = 1
  MaxMessageSize = 2
  Me = me
  Remote <- EdgeRemote
  Dialed = {l1, l2}
  Allowed = {}
  Arrives <- EdgeArrives
  AppMessages <- EdgeApp
  ReplyTo <- EdgeReplyTo
  Dispatcher = Dispatcher
  App = App
  Programs = {"edge", "shell"}
  Closes = {l1, l2}
  Stalls = {l1}
CHECK_DEADLOCK FALSE
INVARIANTS
  RoutesHaveConnections
  OwnMailStaysLocal
