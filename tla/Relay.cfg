\* Three frames of up to two chunks through queues of one and two places.
SPECIFICATION FairSpec
CONSTANTS
  ChanCap = 2
  LinkCap = 1
  BodyCap = 1
  MaxFrames = 3
  MaxChunks = 2
INVARIANTS TypeOK DoneIsWhole
PROPERTIES Released EveryAnswerEnds
