\* With accounts required: two accounts and two requests over one installation, with failures.
SPECIFICATION FairSpec

CONSTANTS
  Users = {u1, u2}
  Installations = {i1}
  Requests = {r1, r2}
  Links = {l1}
  None = None
  FreeLimit = 1
  ProLimit = 2
  DailyLimit = 1
  MaxMonth = 1
  AccountRequired = TRUE
  MayFail = TRUE

INVARIANT NoAnonymousUsage
PROPERTY RevocationTakesEffect
