CONSTANTS
  Handlers = {h1}
  Nodes = {n1, n2, n3}
  Names = {"a", "b", "c"}
  Paths <- Branch2
  NoNode = NoNode
SPECIFICATION TSpec
SYMMETRY TreeSymmetry
INVARIANT UniqueLivePath
