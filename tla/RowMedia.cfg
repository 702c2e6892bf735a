SPECIFICATION Spec
CONSTANTS
  Requests = {r1, r2}
  Parents = {p1, p2}
  Assets = {1, 2}
  NoParent = NoParent
  NoAsset = NoAsset
  LostCommitReply = FALSE
SYMMETRY RequestSymmetry
INVARIANT TypeOK
INVARIANT LiveRowHasFile
INVARIANT MediaNeverDestroyed
INVARIANT RolledBackUploadLeavesNoFile
INVARIANT EventsTellTheTruth
INVARIANT PreviewWasCommitted
