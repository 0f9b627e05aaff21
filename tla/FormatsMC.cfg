\* Every edge of every format, with the options that change one.
CONSTANTS
  Samples <- MCItems
  Options <- MCOptions
SPECIFICATION FormatsSpec
INVARIANTS RoundTrip SameBytes NoShorter
