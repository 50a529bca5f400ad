SPECIFICATION Spec
CONSTANTS
  Sessions = {s1}
  Changes = {c1, c2}
  None = None
  MaxTasks = 2
  MaxEdits = 1
INVARIANT RoutesToFirstGap
PROPERTY FollowedToArchive
