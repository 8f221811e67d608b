SPECIFICATION AugmentedSpec
CONSTANTS
  Nodes = {1, 2, 3, 4, 5, 6, 7, 8, 9, 10}
  Null = 0
  Keyed = 10
  Key <- MCKey
INVARIANTS TypeOK ParentLinks SearchOrder RedApart BlackHeights NoNullDereference Augmented
