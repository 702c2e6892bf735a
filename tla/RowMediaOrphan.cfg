SPECIFICATION Spec
CONSTANTS
  Requests = {r1}
  Parents = {p1}
  Assets = {1, 2}
  NoParent = NoParent
  NoAsset = NoAsset
  LostCommitReply = FALSE
SYMMETRY RequestSymmetry
INVARIANT NoFileWithoutRow
