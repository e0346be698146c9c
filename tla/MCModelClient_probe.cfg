SPECIFICATION ClientSpec
CONSTANTS
  ears = ears
  text = text
  router = router
  down = down
  bare = bare
  Threads = {t1, t2}
  Servers = {ears, router, down, bare}
  Answering = {ears, router, bare}
  Listing <- MCListing
  Properties <- MCProperties
  Absent = Absent
  Names = {"ears", "main", "draft"}
  None = None
  Name <- MCName
  Configured = "main"
  TTL = 2
  Slow = 1
SYMMETRY ThreadSymmetry
CHECK_DEADLOCK FALSE
INVARIANTS
  ClientTypeOK
  AnswerIsRecent
  AnswerFollowsServer
