SPECIFICATION Undisturbed
CONSTANTS
  Paths = {"auth", "acl"}
  Blobs <- MCBlobs
  EmptyTree <- MCEmptyTree
  Hunks <- MCHunks
  Renames <- MCRenames
  Critical = {"auth"}
  Elevated = {"auth", "acl"}
  Lenses = {"R1", "R2"}
  LensRisk = "R1"
  Names = {"clone", "origin"}
  NoOrigin = NoOrigin
  None = None
  Procs = {p1, p2}
  WorkingCopiesIn <- MCCopies
  FindingSets <- MCFindingSets
  GlobalMode = "absent"
PROPERTY HalfwayIsLeft EndedIsIssued
