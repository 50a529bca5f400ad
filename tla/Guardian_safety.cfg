SPECIFICATION Spec
CONSTANTS
  Worktrees = {w1, w2}
  Learners = {l1, l2}
  Findings = {f1, f2}
  Absent = Absent
  Torn = Torn
  Threshold = 2
  RulesCap = 1
  RotationCap = 1
  MaxCommits = 2
  MaxLearns = 2
  MaxBusy = 2
SYMMETRY Symmetry
INVARIANTS RulesEarned StrictLetsOnlyPass LogKeepsRecent
PROPERTY LearnRetires
CHECK_DEADLOCK FALSE
