\* The services of a device are shown after a failed read of it.
CONSTANTS
  t = t
  r = r
  nobody = nobody
  Macs <- MCMacs
  Repeaters <- MCRepeaters
  Weak <- MCWeak
  Nobody <- nobody
  Lists <- MCLists
  Used <- MCUsed
  MaxCalls = 2
  MaxMade = 3
  MaxVersion = 1
  MaxMoves = 0
  MaxJobs = 0
  MaxTurns = 0
SPECIFICATION Spec
INVARIANTS
  RightDevice
\* Nothing is left to do once the calls are used up.
CHECK_DEADLOCK FALSE
