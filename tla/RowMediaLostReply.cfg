SPECIFICATION Spec
CONSTANTS
  Requests = {r1, r2}
  Parents = {p1}
  Assets = {1, 2}
  NoParent = NoParent
  NoAsset = NoAsset
  LostCommitReply = TRUE
SYMMETRY RequestSymmetry
INVARIANT RolledBackUploadLeavesNoFile
INVARIANT EventsTellTheTruth
INVARIANT PreviewWasCommitted
