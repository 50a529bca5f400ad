SPECIFICATION Spec
CONSTANTS
  s1 = s1
  s2 = s2
  a = a
  g1 = g1
  g2 = g2
  l1 = l1
  l2 = l2
  l3 = l3
  l4 = l4
  Skills = {s1}
  Agents = {a}
  Scoped = {g1, g2}
  Labels = {l1, l3, l4}
  Label <- BaseName
  Restorable = {a, g1, g2}
  MaxRelease = 2
  UserTexts = {mine, yours}
  Torn = Torn
  Absent = Absent
  Rank <- RankByKind
  None = None
  MaxBackups = 2
  MaxMoves = 2
INVARIANT RestoreIsExact
CHECK_DEADLOCK FALSE
