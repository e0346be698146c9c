SPECIFICATION Spec
CONSTANTS
  Paths = {1, 2}
  Names = {1, 2}
  Texts = {t1, t2}
  ToolLists = {none, some}
  NoName = NoName
  Absent = Absent
  Unreadable = Unreadable
  MaxEdits = 1
  MaxStarts = 3
SYMMETRY Symmetry
CHECK_DEADLOCK FALSE
INVARIANTS
  SearchTablesAgree
  FoundOnceSettled
