SPECIFICATION Spec
CONSTANTS
  MaxPosts = 2
  ReqSegs = 2
  HeadSegs = 2
  ReplySegs = 3
  Codes = {200, 500}
  Framings = {"length", "close", "junk"}
  MaxReplies = 1
  Faults = {"refuse", "early", "silent", "nullconn"}
  Buffers = {TRUE, FALSE}
INVARIANTS OwnResult OwnBuffer
PROPERTIES FirstEventWins ImplementsRPC
