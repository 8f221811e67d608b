SPECIFICATION AllSpec
CONSTANTS
  Subjects <- AllSubjects
  Letters <- ThreeLetters
  MaxLen = 6
  Strings <- ThreeStrings
  Sizes <- FiveSizes
  Funcs <- UpToTwoFuncs
CHECK_DEADLOCK FALSE
INVARIANTS HeapKeepsKeys BloomRight PrefixRight StatusTells
PROPERTIES ImplementsDictionary
