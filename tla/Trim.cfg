\* Four kinds of body, two turns, three policies; two events of four kinds.
SPECIFICATION Spec
CONSTANTS
  Bodies <- AllBodies
  Policies <- AllPolicies
  Gear <- Odd
  Radix = 6
  MaxVarint = 2
  DigestLen = 1
  LenWire = 1
  MinSlack = 28
  PayloadSize = 3
  MaxPayloads = 3
  MaxDepth = 2
  MaxRepairs = 2
  Turns = 2
  MaxEvents = 2
INVARIANTS TypeOK Exact Covered Tiles WireHonest Superset QuietWithoutFaults
PROPERTY AskedOnce
