SPECIFICATION Spec
CONSTANT
  MaxPosts = 3
PROPERTY
  RestartReconnects
CHECK_DEADLOCK FALSE
