\* Two users and two link requests fight over one installation across two months.
SPECIFICATION Spec

CONSTANTS
  Users = {u1, u2}
  Installations = {i1}
  Requests = {r1}
  Links = {l1, l2}
  None = None
  FreeLimit = 1
  ProLimit = 2
  DailyLimit = 1
  MaxMonth = 2
  AccountRequired = FALSE
  MayFail = TRUE

SYMMETRY Symmetry

INVARIANT TypeOK
INVARIANT LedgerBalance
INVARIANT MergedAtMostOnce
INVARIANT ChargesOwner
PROPERTY ImplementsLedger
