CONSTANTS
  c1 = c1
  c2 = c2
  c3 = c3
  A = A
  B = B
  t = t
  u = u
  v = v
  None = None
  Conns = {c1, c2}
  Clients = {A, B}
  Topics = {t}
  OfflineLimit = 1
  QueueSize = 1
  Connects <- CrossConnects
  Publishes <- CrossPublishes
  Subscribes <- CrossSubscribes
  Unsubscribes <- Nobody
  Malformed = {}
  Leaves <- Nobody
  AuthResults = {TRUE}
  Retransmits = {}
  MaxPackets <- CrossPackets
  MaxKicks <- NoKicks
SPECIFICATION FairSpec
PROPERTIES Progress AllDelivered
CHECK_DEADLOCK FALSE
