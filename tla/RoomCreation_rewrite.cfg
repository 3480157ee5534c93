SPECIFICATION CreationSpec
CONSTANTS
  q1 = q1
  q2 = q2
  h1 = h1
  h2 = h2
  Requests = {q1, q2}
  Handlers = {h1, h2}
  MaxJobs = 1
  Budgets <- OneRewrite
CHECK_DEADLOCK FALSE
PROPERTY RoomIdStays
