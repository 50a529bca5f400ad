SPECIFICATION Spec
CONSTANTS
  Terminals = {t1}
  Places = {"cellar", "gobin", "local"}
  Brewed = {"cellar"}
  GoBins = {"gobin"}
  MaxRelease = 3
  Jobs = {1, 2}
  MaxMoves = 3
INVARIANT SyncOncePerUpgrade
PROPERTY UpgradesAreSound
CHECK_DEADLOCK FALSE
