--------------------------- MODULE ExclusiveLink ---------------------------
(***************************************************************************)
(* What the GATT layer promises about one device, with the lock, the retry *)
(* loop and the disconnect procedure left out: there is at most one link   *)
(* to the device, it belongs to a request that is still being served, and  *)
(* every request that was made is answered once its own link is closed.    *)
(* DeviceLink implements this.                                             *)
(***************************************************************************)
CONSTANTS Requests,     \* the operations asked of the device
          NoRequest     \* the owner of the link while there is no link

VARIABLES asked,        \* requests made so far
          answered,     \* requests whose caller has a result
          open          \* the request whose link is open, or NoRequest

vars == <<asked, answered, open>>

Init ==
  /\ asked = {}
  /\ answered = {}
  /\ open = NoRequest

Ask(r) ==
  /\ r \notin asked
  /\ asked' = asked \union {r}
  /\ UNCHANGED <<answered, open>>

Open(r) ==
  /\ r \in asked \ answered
  /\ open = NoRequest
  /\ open' = r
  /\ UNCHANGED <<asked, answered>>

Close ==
  /\ open # NoRequest
  /\ open' = NoRequest
  /\ UNCHANGED <<asked, answered>>

Answer(r) ==
  /\ r \in asked \ answered
  /\ open # r
  /\ answered' = answered \union {r}
  /\ UNCHANGED <<asked, open>>

Next == Close \/ \E r \in Requests : Ask(r) \/ Open(r) \/ Answer(r)

Safe == Init /\ [][Next]_vars

Spec == Safe /\ WF_vars(Close) /\ \A r \in Requests : WF_vars(Answer(r))

=============================================================================
