CONSTANTS
  Tasks = {r1, r2}
  Keys = {r1, r2}
  Consumers = {c1}
  Topics = {events, notices, dlq}
  Dlq = dlq
  Events = events
  Notices = notices
  MaxAttempts = 2
  MaxNest = 1
  None = None
  Deliveries = {d1}
  Bodies = {"event"}
SPECIFICATION Spec
INVARIANTS
  DuplicateWasHandled
CHECK_DEADLOCK FALSE
