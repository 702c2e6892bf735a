SPECIFICATION Spec
CONSTANTS
  Requests = {r1}
  Parents = {p1, p2}
  Assets = {1}
  NoParent = NoParent
  NoAsset = NoAsset
  LostCommitReply = FALSE
SYMMETRY RequestSymmetry
INVARIANT PreviewIsOwnAsset
