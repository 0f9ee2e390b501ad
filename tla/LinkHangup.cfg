\* An agent hangs up; the link never fails.
SPECIFICATION Spec
CONSTANTS
  r1 = r1  r2 = r2  msg = msg  img = img
  Requests = {r1, r2}
  Blocks = {msg}
  Conns = {c1, c2}
  None = None
  Prog <- OneMessage
  Kids <- Flat
  Collide = {}
  Env = {"hangup"}
  Pairings = {TRUE}
  MaxRepairs = 4
  MaxConns = 2
  MaxReuse = 2
  MaxEvents = 1
  NChunks = 1
INVARIANT RetriesOnlyForLink
