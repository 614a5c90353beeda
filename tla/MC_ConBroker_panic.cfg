CONSTANTS
  c1 = c1
  c2 = c2
  c3 = c3
  A = A
  B = B
  t = t
  u = u
  v = v
  None = None
  Conns = {c1, c2}
  Clients = {A, B}
  Topics = {t}
  OfflineLimit = 1
  QueueSize = 2
  Connects <- ClosingConnects
  Publishes <- ClosingPublishes
  Subscribes <- ClosingSubscribes
  Unsubscribes <- Nobody
  Malformed = {}
  Leaves <- ClosingLeaves
  AuthResults = {TRUE}
  Retransmits = {}
  MaxPackets <- ClosingPackets
  MaxKicks <- NoKicks
SPECIFICATION Spec
INVARIANT NoPanic
CHECK_DEADLOCK FALSE
