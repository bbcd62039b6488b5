\* The life of one interview that three connections contend for, the token and the
\* cutoff as tight as the assumption allows, with any crash and any event lost.
SPECIFICATION FairSpec
CONSTANTS
  MaxReceiveCount = 3
  NoBody = NoBody
  Interviews = {i1}
  Connections = {c1, c2, c3}
  EventSlots = {1, 2}
  MaxCopies = 2
  TokenTtl = 2
  SessionLimit = 2
  StartSlack = 1
  Cutoff = 3
  VoiceMayDie = TRUE
INVARIANTS TypeOK OneSessionPerToken SessionIsActive
PROPERTIES KeepsPromises EveryInterviewEnds
