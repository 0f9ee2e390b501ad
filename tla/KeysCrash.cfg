SPECIFICATION Spec
CONSTANTS
  Absent = Absent
  a = a
  b = b
  peer = peer
  default = 0
  one = 1
  two = 2
  dir = dir
  Me = me
  Procs = {me}
  MaxGens = 2
  Machines <- TlsMachine
  Costs <- AllCosts
  TurnLogCap = 2
  MaxTurns = 1
INVARIANT KeysLoadable
