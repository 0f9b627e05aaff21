\* Every input of the sets above with five sets of options.  No input nests
\* deeper than the stack or the recursion limit.
CONSTANTS
  Inputs <- MCInputs
  Options <- MCOptions
  EmbedStackSize = 20
  HooksRaise = FALSE
  RecursionLimit = 20
SPECIFICATION Spec
INVARIANTS ParserOK SameResult
PROPERTIES StepsAdvance Returns
