CONSTANTS
  c1 = c1
  c2 = c2
  c3 = c3
  A = A
  B = B
  t = t
  u = u
  v = v
  None = None
  Conns = {c1}
  Clients = {A, B}
  Topics = {t}
  OfflineLimit = 1
  QueueSize = 1
  Connects <- SoloConnects
  Publishes <- Nobody
  Subscribes <- Nobody
  Unsubscribes <- Nobody
  Malformed = {}
  Leaves <- SoloLeaves
  AuthResults = {TRUE}
  Retransmits = {}
  MaxPackets <- SoloPackets
  MaxKicks <- NoKicks
SPECIFICATION FairSpec
PROPERTY CloseCompletes
CHECK_DEADLOCK FALSE
