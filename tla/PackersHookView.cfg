\* The same with a default() that takes a view of the packer that calls it.
CONSTANTS
  Args <- MCArgs
  PairLists <- MCPairLists
  Sizes <- MCSizes
  Exts <- MCExts
  Options <- MCOptions
  Default <- MCDefault
  NestLimit = 3
  BufSize = 2
  HookViews = TRUE
  MaxContent = 1
SPECIFICATION Spec
PROPERTY ViewsFrozen
