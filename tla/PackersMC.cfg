\* A buffer of 2 bytes to begin with, four levels of nesting, and at most
\* one byte held when a call begins.
CONSTANTS
  Args <- MCArgs
  PairLists <- MCPairLists
  Sizes <- MCSizes
  Exts <- MCExts
  Options <- MCOptions
  Default <- MCDefault
  NestLimit = 3
  BufSize = 2
  HookViews = FALSE
  MaxContent = 1
SPECIFICATION Spec
INVARIANTS TypeOK Bounds SameAnswers
PROPERTIES ViewsFrozen CallEnds
