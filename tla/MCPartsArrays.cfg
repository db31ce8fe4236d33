CONSTANTS
  Parts = {"array"}
  Statements = {s1, s2}
  MaxNotified = 2
  MaxCommands = 5
  Names = {a, b}
  MaxRows = 2
  MaxColumns = 4
  Types <- MCTypes
  MaxNesting = 2
  Cells <- MCCells
  MaxWidth = 2
  Arrays <- MCArrays
  Params = {p, q}
  Capacity = 4
  Arguments <- MCArguments
  MaxObjects = 4
  MaxTable = 3
INIT Init
NEXT Next
INVARIANTS
  ArraysRoundTrip
CHECK_DEADLOCK FALSE
