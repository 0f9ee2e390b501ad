\* Every fault of the environment, two events; one turn goes whole, one is split.
SPECIFICATION Spec
CONSTANTS
  r1 = r1  r2 = r2  msg = msg  img = img
  Requests = {r1, r2}
  Blocks = {msg}
  Conns = {c1, c2}
  None = None
  Prog <- SecondSplit
  Kids <- Nested
  Collide = {}
  Env = {"cut", "restart", "dial", "upstream", "hangup", "evict", "reset"}
  Pairings = {TRUE, FALSE}
  MaxRepairs = 1
  MaxConns = 1
  MaxReuse = 1
  MaxEvents = 2
  NChunks = 1
SYMMETRY ConnSymmetry
INVARIANTS TypeOK OneOwner PooledIsQuiet NothingForeign OneAnswer StrangerRefused
PROPERTY ImplementsExchange
