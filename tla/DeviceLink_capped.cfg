\* The read runs under the cap; a link survives at most three rounds.
SPECIFICATION Spec
CONSTANTS
  scan = scan
  write = write
  repeat = repeat
  Requests = {scan, write, repeat}
  NoRequest = NoRequest
  Kind <- MCKind
  Retries <- MCRetries
  DisconnectTries = 4
  Capped = {scan}
  Stubborn <- MCYielding
INVARIANTS
  GuaranteedDisconnect
