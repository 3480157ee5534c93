SPECIFICATION CreationSpec
CONSTANTS
  q1 = q1
  q2 = q2
  h1 = h1
  h2 = h2
  Requests = {q1, q2}
  Handlers = {h1, h2}
  MaxJobs = 1
  Budgets <- SmallBudgets
INVARIANTS CreationTypeOK ConfirmedExisted
PROPERTIES CreatedStays RoomGetsCreated GroupComesBack
CHECK_DEADLOCK FALSE
