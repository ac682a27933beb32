SPECIFICATION Spec
SYMMETRY Symmetry
VIEW View
CONSTANTS
  Procs = {p1, p2}
  Pages = {1, 2, 3, 4, 5, 6, 7, 8, 9, 10, 11}
  PerTable = 2
  UserTables = 3
  PgSize = 2
  Contents = {Text, Data}
  Programs <- MCPrograms
  Grows <- MCGrows
  Text = Text
  Data = Data
  None = None
  Junk = Junk
  Zero = Zero
  Args = Args
INVARIANTS TypeOK PagesOwnedOnce SizeMapped
PROPERTIES ImagesKept
