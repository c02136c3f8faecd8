\* The read runs under bulk's cap and its link may survive every disconnect
\* round; the others have no cap and a link may survive three of the four.
SPECIFICATION Spec
CONSTANTS
  scan = scan
  write = write
  repeat = repeat
  Requests = {scan, write, repeat}
  NoRequest = NoRequest
  Kind <- MCKind
  Retries <- MCRetries
  DisconnectTries = 4
  Capped = {scan}
  Stubborn <- MCStubborn
INVARIANTS
  LockDiscipline
  LinkUnderLock
PROPERTIES
  NoOvertaking
  EveryRequestAnswered
  ImplementsExclusiveLink
  AdviceMatchesLastAttempt
