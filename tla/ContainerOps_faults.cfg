SPECIFICATION PanelSpec
CONSTANTS
  r1 = r1
  r2 = r2
  r3 = r3
  p1 = p1
  p2 = p2
  c1 = c1
  Requests = {r1, r2, r3}
  Processes = {p1, p2}
  Containers = {c1}
  Process <- Served
  Target <- About
  Kinds = {"restart"}
  Ttl = 2
  HoldLimit <- Hold
  MaxInflight = 2
  MaxOutages = 1
  MaxCrashes = 1
  Sites = {s1}
  Diagnoses = {d1}
  Fixes = {f1, f2}
  Errors = {"none", "python"}
  FixBudgets <- Repairs
  Tickets = {1, 2}
  Staff = {ana, leo}
  DeskRequests = {q1, q2}
  Sockets = {1, 2, 3}
  HistorySize = 2
  DeskBudgets <- Conversations
INVARIANT MutualExclusion
INVARIANT ChatMissesNone
PROPERTY LeavesRunning
PROPERTY TakenOnce
PROPERTY TicketKept
CHECK_DEADLOCK FALSE
