\* Nothing fails but the delivery of the end event, which is late.
SPECIFICATION Spec
CONSTANTS
  MaxReceiveCount = 3
  NoBody = NoBody
  Interviews = {i1}
  Requests = {q1}
  Slots = {1}
  MaxCopies = 1
  Faults = {}
  MaxFaults = 0
INVARIANT OneRunPerReport
CHECK_DEADLOCK FALSE
