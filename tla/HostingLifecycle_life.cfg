SPECIFICATION FairSpec
CONSTANTS
  h1 = h1
  h2 = h2
  u1 = u1
  u2 = u2
  Sites = {h1, h2}
  Users = {u1, u2}
  Owner <- TwoOwners
  Batch = 1
  AdminOps = {"stop", "start", "extend", "forever", "deactivate", "upgrade", "cleanup", "purge"}
  UserOps = {"start", "stop", "delete"}
  Payments = {u1}
  Budgets <- TwoBudgets
INVARIANT ExpiredIsDown
PROPERTY LapsedSuspended
PROPERTY DeletedContainerGone
