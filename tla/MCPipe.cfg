SPECIFICATION FairSpec
CONSTANTS
  Readers = {r1, r2}
  Writers = {w1, w2}
  Bytes = {0, 1}
  PipeSize = 2
  W = 4
  Sizes = {1, 3}
  MaxWrites = 1
  MaxKills = 1
  NoProc = NoProc
INVARIANTS NoLostWakeup NoUseAfterFree
PROPERTIES ImplementsStream PageReturned
