SPECIFICATION AugmentedFairSpec
CONSTANTS
  Nodes = {1, 2, 3, 4, 5, 6, 7, 8}
  Null = 0
  Keyed = 7
  Key <- MCKey
INVARIANTS QueriesRight
PROPERTIES ImplementsSet CallsReturn
