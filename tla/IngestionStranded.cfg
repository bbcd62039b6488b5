\* Final events get lost; nothing crashes and Core's handler never fails.
SPECIFICATION Spec
CONSTANTS
  MaxReceiveCount = 3
  NoBody = NoBody
  Repos = {r1}
  Requests = {q1}
  JobSlots = {1}
  EventSlots = {1}
  MaxAttempts = 2
  MaxCopies = 1
  Faults = {"publish"}
  MaxFaults = 3
INVARIANT OnlyCoreHandlerStrands
CHECK_DEADLOCK FALSE
