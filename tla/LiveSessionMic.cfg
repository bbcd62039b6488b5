SPECIFICATION Spec
CONSTANTS
  Length = 2
  MaxFrames = 1
  AutoStop = 1
  MaxSpoken = 3
  MaxTakes = 2
  MaxInFlight = 3
  Faults = {}
  MaxFaults = 0
INVARIANT MicAfterAudioEnd
CHECK_DEADLOCK FALSE
