\* One interview and three faults of any kind: enough to dead-letter a job, or to
\* lose one and fail the next, and one more.
SPECIFICATION FairSpec
CONSTANTS
  MaxReceiveCount = 3
  NoBody = NoBody
  Interviews = {i1}
  Requests = {q1, q2}
  Slots = {1, 2}
  Faults = {"slow", "call", "plan", "store", "worker"}
  MaxFaults = 3
INVARIANTS TypeOK NeverStranded SessionHasPlan
PROPERTIES KeepsPromises EveryPageGetsOn
\* A session that asks its questions is followed no further.
CHECK_DEADLOCK FALSE
