CONSTANTS
  Columns = {1, 2, 3, 4, 5}
  RangeLimit = 3
  Trees <- MCTrees
  Height <- MCHeight
  Sheets = {"S", "T"}
  Workbooks <- MCWorkbooks
  Requests <- MCRequests
  MaxDependencies = 11
  MaxDepth = 3
SPECIFICATION Spec
CHECK_DEADLOCK FALSE
INVARIANTS
  TypeOK
  GraphCheckIsExact
  ValuesAreMeant
  EditKeepsMeaning
