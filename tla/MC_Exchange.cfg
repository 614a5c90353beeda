CONSTANTS
  w1 = w1
  w2 = w2
  m1 = m1
  m2 = m2
  None = None
  MaxID = 3
  Senders = {w1, w2}
  Counts = {1}
  Messages = {m1, m2}
  Content <- Contents
  Carries <- Carried
  Shared = {m2}
  Says <- SaysAll
  MaxSaid <- Said
  MaxTaken <- Takes
  Granted <- Accepted
  Fresh = {w2}
  Kicks = {w2}
  Breaks = {w2}
  MaxLen = 140
SPECIFICATION ExchangeSpec
INVARIANTS TypeOK NonZeroUnique FirstLapFresh NoLeak InStep  Tracked
CHECK_DEADLOCK FALSE
