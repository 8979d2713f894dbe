SPECIFICATION FairStackedSpec
CONSTANTS
  Edges = {e1, e2, e3}
  NoEdge = NoEdge
  Pins = {NoEdge, e1}
  MaxTries = 2
INVARIANT HandlesOnce
