SPECIFICATION Spec
CONSTANTS
  Leaf = {a, b, c}
  MaxLen = 6
  LeafLists <- MCLeafLists
SYMMETRY Symmetry
INVARIANTS VerifiesExactly RootFixesLeaves
CHECK_DEADLOCK FALSE
