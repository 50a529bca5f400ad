SPECIFICATION SaveSpec
CONSTANTS
  Savers = {s1, s2, s3}
  MaxText = 2
  MaxSaves = 5
  Torn = Torn
  Unknown = Unknown
INVARIANT SavesAreAtomic
CHECK_DEADLOCK FALSE
