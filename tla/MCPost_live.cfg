SPECIFICATION FairSpec
CONSTANTS
  MaxPosts = 3
  ReqSegs = 2
  HeadSegs = 1
  ReplySegs = 2
  Codes = {200, 500}
  Framings = {"length", "close"}
  MaxReplies = 1
  Faults = {"refuse"}
  Buffers = {TRUE, FALSE}
INVARIANT AtMostTwoOpen
PROPERTIES PostReturns HandleCloses
