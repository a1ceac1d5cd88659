SPECIFICATION Spec
CONSTANTS
  MaxCUs = 2
  Kinds <- BothKinds
  Data = {d1}
  MaxPosts = 3
  Codes = {200, 500}
  Times = {1}
  Leftover <- AnySign
  HeadLen = 130
  AttrLen = 216
  AllocSize = 400
INVARIANTS SuccessMeansStored PrefixStored SeqCountsAcks
