CONSTANTS
  Requests = {1, 2}
  Creators = {1}
  Given = {2}
  MaxAborts = 0
SPECIFICATION Spec
CHECK_DEADLOCK FALSE
INVARIANT SaveFollowsBase
