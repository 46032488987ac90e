CONSTANTS
  Methods <- MCMethods
  Values = {v1, v2}
  MaxDepth = 5
  MaxStack = 2
  NoValue = NoValue
SYMMETRY Symm
SPECIFICATION Spec
INVARIANTS
  ReturnsLand
  WalkFindsActivations
PROPERTIES
  ImplementsCallStack
