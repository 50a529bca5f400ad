SPECIFICATION Spec
CONSTANTS
  Procs = {p1}
  Interactive = {p1}
  Repos = {here, there}
  Personas = {"neutral"}
  Absent = Absent
  MaxMoves = 2
PROPERTY PurgeLeavesNothing
CHECK_DEADLOCK FALSE
