SPECIFICATION FairNodeSpec
CONSTANTS
  me = me
  dev = dev
  core = core
  far = far
  l1 = l1
  l2 = l2
  l3 = l3
  Ids = {me, dev, far}
  Inboxes = {inbox}
  Links = {l1}
  NoChan = NoChan
  Messages <- BusyMessages
  NoMsg = NoMsg
  Capacity = 1
  LinkCapacity = 1
  MaxMessageSize = 2
  Me = me
  Remote <- BusyRemote
  Dialed = {}
  Allowed = {dev}
  Arrives <- BusyArrives
  AppMessages = {}
  ReplyTo <- BusyReplyTo
  Dispatcher = Dispatcher
  App = App
  Programs = {"server"}
  Closes = {}
  Stalls = {}
CHECK_DEADLOCK FALSE
PROPERTIES
  MailHandled
