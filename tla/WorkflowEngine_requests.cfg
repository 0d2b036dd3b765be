SPECIFICATION Spec
CONSTANTS
  Instances = {i1}
  Requests = {r1, r2}
  None = None
  Nodes <- ReviewNodes
  Kind <- ReviewKind
  Edges <- ReviewEdges
  Overrides <- Named
  MaxSteps = 5
CHECK_DEADLOCK FALSE
SYMMETRY Symmetry
INVARIANTS
  TypeOK
  CompletedAtEnd
  LogIsPath
  StopsAndCalls
PROPERTY EndedStaysEnded
