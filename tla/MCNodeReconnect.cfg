SPECIFICATION FairNodeSpec
CONSTANTS
  me = me
  dev = dev
  core = core
  far = far
  l1 = l1
  l2 = l2
  l3 = l3
  Ids = {me, dev, far}
  Inboxes = {inbox}
  Links = {l1, l2}
  NoChan = NoChan
  Messages <- PushMessages
  NoMsg = NoMsg
  Capacity = 1
  LinkCapacity = 1
  MaxMessageSize = 2
  Me = me
  Remote <- PairRemote
  Dialed = {}
  Allowed = {dev}
  Arrives <- NoArrivals
  AppMessages <- PushMessages
  ReplyTo <- PushReplyTo
  Dispatcher = Dispatcher
  App = App
  Programs = {"server"}
  Closes = {l1}
  Stalls = {}
CHECK_DEADLOCK FALSE
PROPERTIES
  QueuedDeliveredOnReconnect
