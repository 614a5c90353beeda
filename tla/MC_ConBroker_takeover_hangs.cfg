CONSTANTS
  c1 = c1
  c2 = c2
  c3 = c3
  A = A
  B = B
  t = t
  u = u
  v = v
  None = None
  Conns = {c1, c2}
  Clients = {A, B}
  Topics = {t}
  OfflineLimit = 1
  QueueSize = 1
  Connects <- CleanConnects
  Publishes <- Nobody
  Subscribes <- Nobody
  Unsubscribes <- Nobody
  Malformed = {}
  Leaves <- Nobody
  AuthResults = {TRUE}
  Retransmits = {}
  MaxPackets <- SamePackets
  MaxKicks <- NoKicks
SPECIFICATION FairSpec
PROPERTY DisconnectReturns
CHECK_DEADLOCK FALSE
