CONSTANTS
  c1 = c1
  c2 = c2
  c3 = c3
  A = A
  B = B
  t = t
  u = u
  v = v
  None = None
  Conns = {c1, c2, c3}
  Clients = {A, B}
  Topics = {t, u, v}
  OfflineLimit = 1
  QueueSize = 1
  Connects <- TakeoverConnects
  Publishes <- TakeoverPublishes
  Subscribes <- TakeoverSubscribes
  Unsubscribes <- Nobody
  Malformed = {u}
  Leaves <- TakeoverLeaves
  AuthResults = {TRUE, FALSE}
  Retransmits = {c2}
  MaxPackets <- TakeoverPackets
  MaxKicks <- NoKicks
SPECIFICATION Spec
INVARIANTS TypeOK WillDiscipline DeliveryOrder AcceptedIsKept
CHECK_DEADLOCK FALSE
