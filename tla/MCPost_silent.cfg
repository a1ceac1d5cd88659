SPECIFICATION FairSpec
CONSTANTS
  MaxPosts = 2
  ReqSegs = 2
  HeadSegs = 1
  ReplySegs = 2
  Codes = {200, 500}
  Framings = {"length", "close"}
  MaxReplies = 1
  Faults = {"silent"}
  Buffers = {TRUE}
PROPERTY PostReturns
