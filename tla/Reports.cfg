\* One interview and two faults of any kind.  A message is dead-lettered on its
\* second receive rather than its third, so that two faults are enough for it.
SPECIFICATION FairSpec
CONSTANTS
  MaxReceiveCount = 2
  NoBody = NoBody
  Interviews = {i1}
  Requests = {q1}
  Slots = {1, 2}
  MaxCopies = 2
  Faults = {"send", "generate", "store", "worker"}
  MaxFaults = 2
INVARIANTS TypeOK WholeMeansCompleted NeverStranded
PROPERTIES KeepsPromises EveryReportIsReady
\* A ready report asks for nothing more.
CHECK_DEADLOCK FALSE
