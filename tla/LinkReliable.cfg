\* Nothing breaks a connection; the caches may do what they like.
SPECIFICATION Spec
CONSTANTS
  r1 = r1  r2 = r2  msg = msg  img = img
  Requests = {r1, r2}
  Blocks = {msg, img}
  Conns = {c1, c2, c3}
  None = None
  Prog <- OneMessage
  Kids <- Nested
  Collide = {img}
  Env = {"evict", "forget", "reset", "contend", "shadow"}
  Pairings = {TRUE}
  MaxRepairs = 2
  MaxConns = 2
  MaxReuse = 1
  MaxEvents = 2
  NChunks = 1
SYMMETRY ConnSymmetry
PROPERTY ImplementsExchange
