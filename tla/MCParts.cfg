CONSTANTS
  Parts = {"session", "pipeline", "sql_state", "row", "copy", "array", "parameter", "table"}
  Statements = {s1, s2}
  MaxNotified = 2
  MaxCommands = 5
  Names = {a, b}
  MaxRows = 2
  MaxColumns = 4
  Types <- MCTypes
  MaxNesting = 2
  Cells <- MCCells
  MaxWidth = 2
  Arrays <- MCArrays
  Params = {p, q}
  Capacity = 4
  Arguments <- MCArguments
  MaxObjects = 4
  MaxTable = 3
INIT Init
NEXT Next
INVARIANTS
  NamesAgree
  IteratorStaysValid
  HandledInOrder
  ModeIsOwned
  HandlersExact
  SliceReadsOwn
  NamesFindOwn
  TypesReadInOrder
  RowsRoundTrip
  ArraysArrive
  ArraysReturn
  BoundInOrder
  HeapIsOwned
  LoopsSeeEverything
PROPERTIES
  ImplementsResultQueue
CHECK_DEADLOCK FALSE
