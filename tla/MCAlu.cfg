\* Every pair of bytes, with and without carry.
SPECIFICATION Spec
INVARIANTS
  AddExact
  SubExact
  CompareAgreesWithSub
  SubUndoesAdd
  IncDecInverse
  RotateNineBits
  XorInvolution
