SPECIFICATION Spec
SYMMETRY Symmetry
VIEW View
CONSTANTS
  Procs = {p1, p2, p3}
  Inodes = {0, 1}
  Inums = {1, 2, 3}
  Dir = Dir
  Locks = {0, 1, Dir}
  NoProc = NoProc
  NoLock = NoLock
  NoInode = NoInode
  Free = Free
  File = File
INVARIANTS LastPutFrees
