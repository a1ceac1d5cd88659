SPECIFICATION Spec
CONSTANTS
  MaxCUs = 2
  Kinds <- OutputOnly
  Data = {d1}
  MaxPosts = 3
  Codes = {200, 500}
  Times = {1, 2}
  Leftover <- AnySign
  HeadLen = 130
  AttrLen = 216
  AllocSize = 400
INVARIANT NoCrash
