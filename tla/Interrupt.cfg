SPECIFICATION FairSpec
CONSTANTS
  Absent = Absent
  a = a
  b = b
  peer = peer
  default = 0
  one = 1
  two = 2
  dir = dir
  Me = me
  Procs = {me}
  MaxGens = 2
  Machines <- Either
  Costs <- AllCosts
  TurnLogCap = 2
  MaxTurns = 3
PROPERTY StopsWhenTold
