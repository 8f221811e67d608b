SPECIFICATION AllSpec
CONSTANTS
  Subjects <- TreeOnly
  Letters <- ThreeLetters
  MaxLen = 6
  Strings <- ThreeStrings
  Sizes <- FiveSizes
  Funcs <- UpToTwoFuncs
CHECK_DEADLOCK FALSE
PROPERTIES SearchAsDocumented
