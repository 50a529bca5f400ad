SPECIFICATION Spec
CONSTANTS
  Procs = {p1, p2}
  Interactive = {p1}
  Repos = {here, there}
  Personas = {"neutral"}
  Absent = Absent
  MaxMoves = 2
SYMMETRY RepoSymmetry
INVARIANTS TypeOK SyncConverges SyncKeepsChoices RepairCures CalmAgreement
PROPERTY ClaimsFollowWrites
CHECK_DEADLOCK FALSE
