\* One fault of any kind; a whole turn and a split one, whose image the filter of the
\* remote end may report by collision, so that neither store has it.
SPECIFICATION FairSpec
CONSTANTS
  r1 = r1  r2 = r2  msg = msg  img = img
  Requests = {r1, r2}
  Blocks = {msg, img}
  Conns = {c1, c2}
  None = None
  Prog <- SecondSplit
  Kids <- Nested
  Collide = {img}
  Env = {"cut", "restart", "dial", "upstream", "hangup", "evict", "forget", "reset"}
  Pairings = {TRUE}
  MaxRepairs = 2
  MaxConns = 1
  MaxReuse = 1
  MaxEvents = 1
  NChunks = 1
PROPERTIES EveryTurnEnds EveryTaskEnds
