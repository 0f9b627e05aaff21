\* object_pairs_hook together with strict_map_key.
CONSTANTS
  Inputs <- MCInputs
  Options <- MCPairsStrict
  EmbedStackSize = 20
  HooksRaise = FALSE
  RecursionLimit = 20
SPECIFICATION Spec
INVARIANT FallbackStrictKeys
