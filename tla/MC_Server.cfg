CONSTANTS
  c1 = c1
  c2 = c2
  Conns = {c1, c2}
  Outcomes = {"ok", "config", "listen"}
SPECIFICATION FairSpec
INVARIANTS TypeOK CountCovers WaitsForAll LastAccept
 
CHECK_DEADLOCK FALSE
