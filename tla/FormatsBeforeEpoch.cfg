\* Datetimes before the epoch with a fraction of a second.
CONSTANTS
  Samples <- MCBeforeEpoch
  Options <- MCOptions
SPECIFICATION FormatsSpec
INVARIANT DatetimeKept
