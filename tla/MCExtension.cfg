SPECIFICATION FairSpec
CONSTANT
  MaxPosts = 3
INVARIANTS
  TypeOK
  LeaksOnlyWhenLost
PROPERTIES
  OwnReply
  WholeIsKept
  HeldRequestsGoOut
  WholeIsAnswered
CHECK_DEADLOCK FALSE
