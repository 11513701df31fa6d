SPECIFICATION Spec
CONSTANTS
  Users = {u1}
  Installations = {i1}
  Requests = {r1}
  Links = {l1}
  None = None
  FreeLimit = 1
  ProLimit = 1
  DailyLimit = 1
  MaxMonth = 1
  AccountRequired = FALSE
  MayFail = TRUE
INVARIANT UsageAddedOnce
