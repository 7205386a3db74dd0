SPECIFICATION Spec
CONSTANTS
  a = a
  b = b
  j = j
  k = k
  none = none
  Pages = {a, b}
  Jobs = {j, k}
  NoData = none
  NoPage = none
  Amounts = {0, 1}
  InfoPeriod = 1
  BlobLife = 1
  ReplyShapes <- MCShapes
PROPERTY
  MinesOnlyWanted
