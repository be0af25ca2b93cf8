CONSTANT Wires <- MCWires
SPECIFICATION CancelSpec
INVARIANTS
  TypeOK
  Exact
  EndMeansAll
PROPERTIES
  CancelEnds
  LoopEnds
