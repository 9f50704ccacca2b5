CONSTANTS
  Handlers = {h1}
  Nodes = {n1, n2, n3, n4}
  Names = {"a", "b", "c"}
  Paths <- Branch3
  NoNode = NoNode
SPECIFICATION TSpec
SYMMETRY TreeSymmetry
INVARIANTS TTypeOK PathExtendsParent Recoverable EvaluatorsAgree
