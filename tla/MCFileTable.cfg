SPECIFICATION Spec
SYMMETRY Symmetry
VIEW View
CONSTANTS
  Procs = {p1, p2}
  Files = {f1, f2, f3}
  NFds = 2
  Inodes = {i1}
  PipePages = {g1}
  Modes <- MCModes
  Sizes = {2}
  MaxChunk = 1
  MaxSize = 2
  None = None
INVARIANTS TypeOK RefsCounted EndsOwned OffsetsInTurn
