SPECIFICATION FairSpec
CONSTANTS
  Procs = {p1, p2}
  NoProc = NoProc
  States = {"unreviewed", "reviewing"}
  Frozen = {f1, f2}
  Outcomes = {approved, invalidated}
  NoFile = NoFile
  Torn = Torn
  MaxVersion = 2
INVARIANT TypeOK NeverTorn IInv
PROPERTY NoLostUpdate ImplementsAuthority LockReleased
