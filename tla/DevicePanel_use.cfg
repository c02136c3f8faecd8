\* Three calls of the user besides the first scan, two under way at once; the
\* page is left once and one bulk job ends.
CONSTANTS
  t = t
  r = r
  nobody = nobody
  Macs <- MCMacs
  Repeaters <- MCRepeaters
  Weak <- MCWeak
  Nobody <- nobody
  Lists <- MCLists
  Used <- MCUsed
  MaxCalls = 2
  MaxMade = 3
  MaxVersion = 1
  MaxMoves = 1
  MaxJobs = 1
  MaxTurns = 1
SPECIFICATION Spec
INVARIANTS
  PanelTypeOK
  OneConnect
  OwnFields
  AnsweredKept
  LcdRemembered
  NeverStuck
PROPERTIES
  DialogKeepsDevice
  Released
\* Nothing is left to do once the calls and moves are used up.
CHECK_DEADLOCK FALSE
