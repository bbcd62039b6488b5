\* Two requests of one repository, at most two faults of any kind.
SPECIFICATION FairSpec
CONSTANTS
  MaxReceiveCount = 3
  NoBody = NoBody
  Repos = {r1}
  Requests = {q1, q2}
  JobSlots = {1, 2}
  EventSlots = {1, 2}
  MaxAttempts = 2
  MaxCopies = 2
  Faults = {"send", "request", "worker", "publish", "event"}
  MaxFaults = 2
INVARIANTS TypeOK ReadyMeansIndexed NeverStranded
PROPERTIES KeepsPromises EveryIngestionEnds IndexedIsShownReady
\* A repository that is ready, or whose requests died, may need nothing more.
CHECK_DEADLOCK FALSE
