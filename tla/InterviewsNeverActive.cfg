\* Voice Service stays up; a call to Core API may fail.
SPECIFICATION Spec
CONSTANTS
  MaxReceiveCount = 3
  NoBody = NoBody
  Interviews = {i1}
  Connections = {c1}
  EventSlots = {1, 2}
  MaxCopies = 2
  TokenTtl = 1
  SessionLimit = 2
  StartSlack = 1
  Cutoff = 3
  VoiceMayDie = FALSE
INVARIANT ActiveHasSession
