\* A send that SQS accepted but reported as failed.
SPECIFICATION Spec
CONSTANTS
  MaxReceiveCount = 3
  NoBody = NoBody
  Repos = {r1}
  Requests = {q1, q2}
  JobSlots = {1, 2}
  EventSlots = {1, 2}
  MaxAttempts = 2
  MaxCopies = 1
  Faults = {"send"}
  MaxFaults = 1
PROPERTY ReadyIsFinal
CHECK_DEADLOCK FALSE
