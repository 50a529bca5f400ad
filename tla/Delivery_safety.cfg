SPECIFICATION Spec
CONSTANTS
  Paths = {"auth", "doc"}
  Blobs <- MCBlobs
  EmptyTree <- MCEmptyTree
  Hunks <- MCHunks
  Renames <- MCRenames
  Critical = {"auth"}
  Elevated = {"auth"}
  Lenses = {"R1", "R2"}
  LensRisk = "R1"
  Names = {"origin", "clone"}
  NoOrigin = NoOrigin
  None = None
  Receipts <- Approvals
  GlobalMode = "absent"
  Copies <- MCCopies
  Staged <- MCStaged
  MaxCommits = 2
INVARIANT TypeOK IInv GatedIsReviewed GatesAgree
