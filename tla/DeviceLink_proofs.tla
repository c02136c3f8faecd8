-------------------------- MODULE DeviceLink_proofs --------------------------
(* Proofs about DeviceLink, for every set of requests, every mix of the     *)
(* three loops, every attempt budget and every number of disconnect rounds. *)
EXTENDS DeviceLink, SequenceTheorems, TLAPS

(* What is left of a queue when the element at position i has been taken    *)
(* out is a queue (the waiters of gatt.py's _dev_lock).                     *)
LEMMA WithoutIsQueue ==
  ASSUME NEW S, NEW q \in Seq(S), NEW i \in DOMAIN q
  PROVE  /\ Without(q, i) \in Seq(S)
         /\ DOMAIN Without(q, i) = 1..(Len(q) - 1)
<1>1. DOMAIN q = 1..Len(q) /\ Len(q) \in Nat /\ \A k \in 1..Len(q) : q[k] \in S
  BY LenProperties, ElementOfSeq
<1>2. Len(q) - 1 \in Nat
  BY <1>1
<1>3. \A k \in 1..(Len(q) - 1) : (IF k < i THEN q[k] ELSE q[k + 1]) \in S
  BY <1>1
<1>4. QED
  BY <1>2, <1>3 DEF Without

(* The labels the actions use are among those of the type invariant.        *)
LEMMA LabelTypes ==
  /\ \A l \in {"idle", "waiting", "done", "attempt", "connecting", "session",
               "closing", "sleeping"} : l \in Locations
  /\ \A e \in {"none", "result", "error", "stale", "cancelled"} : e \in Endings
  /\ \A a \in {"none", "result", "range_advice", "device_error", "timeout"} : a \in Answers
BY DEF Locations, Holding, Endings, Answers

-----------------------------------------------------------------------------
(* Every variable keeps its type: in particular the attempt budget never    *)
(* goes below zero and _safe_disconnect never exceeds its rounds.           *)
THEOREM TypeCorrect == Spec => []TypeOK
<1>1. Init => TypeOK
  <2>1. <<>> \in Seq(Requests)
    BY EmptySeq
  <2>2. Retries \in [Requests -> Nat] /\ DisconnectTries \in Nat
    BY ConstantsAssumption
  <2>3. QED
    BY <2>1, <2>2, LabelTypes DEF Init, TypeOK
<1>2. TypeOK /\ [Next]_vars => TypeOK'
  <2> SUFFICES ASSUME TypeOK, [Next]_vars PROVE TypeOK'
    OBVIOUS
  <2> USE LabelTypes DEF TypeOK, Goto
  <2>0. DisconnectTries \in Nat
    BY ConstantsAssumption
  <2>1. ASSUME NEW r \in Requests, Request(r) PROVE TypeOK'
    <3>1. waiters' \in Seq(Requests)
      <4>1. Append(waiters, r) \in Seq(Requests)
        BY AppendProperties
      <4>2. QED
        BY <2>1, <4>1, Zenon DEF Request
    <3>2. pc' \in [Requests -> Locations] /\ lock' \in Requests \union {NoRequest}
      BY <2>1 DEF Request
    <3>3. QED
      BY <2>1, <3>1, <3>2 DEF Request
  <2>2. ASSUME NEW r \in Requests, Grant(r) PROVE TypeOK'
    <3>1. waiters' \in Seq(Requests)
      BY <2>2, HeadTailProperties DEF Grant
    <3>2. QED
      BY <2>2, <3>1 DEF Grant
  <2>3. ASSUME NEW r \in Requests, NoDevice(r) PROVE TypeOK'
    <3>1. left' \in [Requests -> Nat]
      BY <2>3 DEF NoDevice
    <3>2. QED
      BY <2>3, <3>1 DEF NoDevice
  <2>4. ASSUME NEW r \in Requests, Connect(r) PROVE TypeOK'
    <3>1. left' \in [Requests -> Nat]
      BY <2>4 DEF Connect
    <3>2. QED
      BY <2>4, <3>1 DEF Connect
  <2>5. ASSUME NEW r \in Requests, ConnectFails(r) PROVE TypeOK'
    BY <2>5 DEF ConnectFails
  <2>6. ASSUME NEW r \in Requests, Connected(r) PROVE TypeOK'
    BY <2>6 DEF Connected
  <2>7. ASSUME NEW r \in Requests, SessionReturns(r) PROVE TypeOK'
    BY <2>7 DEF SessionReturns, EndSession
  <2>8. ASSUME NEW r \in Requests, SessionRaises(r) PROVE TypeOK'
    BY <2>8 DEF SessionRaises, EndSession
  <2>9. ASSUME NEW r \in Requests, SessionStale(r) PROVE TypeOK'
    BY <2>9 DEF SessionStale, EndSession
  <2>10. ASSUME NEW r \in Requests, Disconnects(r) PROVE TypeOK'
    BY <2>10 DEF Disconnects
  <2>11. ASSUME NEW r \in Requests, DisconnectFails(r) PROVE TypeOK'
    <3>1. tries[r] + 1 \in 0..DisconnectTries
      BY <2>0, <2>11 DEF DisconnectFails
    <3>2. QED
      BY <2>11, <3>1 DEF DisconnectFails
  <2>12. ASSUME NEW r \in Requests, CloseAndRetry(r) PROVE TypeOK'
    <3>1. pc' \in [Requests -> Locations]
      BY <2>12 DEF CloseAndRetry
    <3>2. tries' \in [Requests -> 0..DisconnectTries]
      BY <2>0, <2>12 DEF CloseAndRetry
    <3>3. QED
      BY <2>12, <3>1, <3>2 DEF CloseAndRetry
  <2>13. ASSUME NEW r \in Requests, Wake(r) PROVE TypeOK'
    BY <2>13 DEF Wake
  <2>14. ASSUME NEW r \in Requests, NEW a \in Answers, Answered(r, a),
                lock' \in Requests \union {NoRequest}, waiters' \in Seq(Requests),
                UNCHANGED link
         PROVE  TypeOK'
    <3>1. 0 \in 0..DisconnectTries
      BY <2>0
    <3>2. QED
      BY <2>14, <3>1 DEF Answered
  <2>15. ASSUME NEW r \in Requests, CloseAndLeave(r) PROVE TypeOK'
    BY <2>14, <2>15 DEF CloseAndLeave, Leave
  <2>16. ASSUME NEW r \in Requests, Exhausted(r) PROVE TypeOK'
    BY <2>14, <2>16 DEF Exhausted, Leave, Unreachable
  <2>17. ASSUME NEW r \in Requests, Cancel(r) PROVE TypeOK'
    <3>1. CASE pc[r] = "waiting"
      <4>1. waiters' \in Seq(Requests)
        BY <2>17, <3>1, WithoutIsQueue DEF Cancel
      <4>2. QED
        BY <2>14, <2>17, <3>1, <4>1 DEF Cancel
    <3>2. CASE pc[r] = "session"
      BY <2>17, <3>2 DEF Cancel
    <3>3. CASE pc[r] \notin {"waiting", "session"}
      BY <2>14, <2>17, <3>3 DEF Cancel, Leave
    <3>4. QED
      BY <3>1, <3>2, <3>3
  <2>18. ASSUME NEW r \in Requests, LinkDrops(r) PROVE TypeOK'
    BY <2>18 DEF LinkDrops
  <2>19. CASE UNCHANGED vars
    BY <2>19 DEF vars
  <2>20. QED
    BY <2>1, <2>2, <2>3, <2>4, <2>5, <2>6, <2>7, <2>8, <2>9, <2>10, <2>11, <2>12,
       <2>13, <2>15, <2>16, <2>17, <2>18, <2>19
       DEF Next, Step, Progress, Session, Disconnect, Finished
<1>3. QED
  BY <1>1, <1>2, PTL DEF Spec, Safe

-----------------------------------------------------------------------------
(* Steps that keep LockDiscipline for the same reason.  First, the holder   *)
(* moves within its critical section.                                       *)
LEMMA MoveInside ==
  ASSUME TypeOK, LockDiscipline, NEW r \in Requests, pc[r] \in Holding,
         NEW l \in Holding, Goto(r, l), UNCHANGED <<lock, waiters>>
  PROVE  LockDiscipline'
<1>1. \A q \in Requests : pc'[q] = IF q = r THEN l ELSE pc[q]
  BY DEF TypeOK, Goto
<1>2. "waiting" \notin Holding
  BY DEF Holding
<1>3. QED
  BY <1>1, <1>2 DEF LockDiscipline

(* Second, the holder leaves it and releases the lock.                      *)
LEMMA MoveOut ==
  ASSUME TypeOK, LockDiscipline, NEW r \in Requests, pc[r] \in Holding,
         NEW a, Leave(r, a), UNCHANGED waiters
  PROVE  LockDiscipline'
<1>1. \A q \in Requests : pc'[q] = IF q = r THEN "done" ELSE pc[q]
  BY DEF TypeOK, Leave, Answered, Goto
<1>2. "waiting" \notin Holding /\ "done" \notin Holding
  BY DEF Holding
<1>3. NoRequest \notin Requests /\ lock' = NoRequest
  BY ConstantsAssumption DEF Leave
<1>4. QED
  BY <1>1, <1>2, <1>3 DEF LockDiscipline

(* Third, a task leaves the queue from the place i in it.                   *)
LEMMA MoveOffQueue ==
  ASSUME TypeOK, LockDiscipline, NEW r \in Requests, NEW i \in DOMAIN waiters,
         waiters[i] = r, waiters' = Without(waiters, i), UNCHANGED lock, Goto(r, "done")
  PROVE  LockDiscipline'
<1>1. DOMAIN waiters = 1..Len(waiters) /\ Len(waiters) \in Nat
  BY LenProperties DEF TypeOK
<1>2. /\ DOMAIN waiters' = 1..(Len(waiters) - 1)
      /\ \A k \in DOMAIN waiters' :
           waiters'[k] = IF k < i THEN waiters[k] ELSE waiters[k + 1]
  BY DEF Without
<1>3. \A q \in Requests : pc'[q] = IF q = r THEN "done" ELSE pc[q]
  BY DEF TypeOK, Goto
<1>4. "waiting" \notin Holding /\ "done" \notin Holding
  BY DEF Holding
<1>5. pc[r] = "waiting"
  BY DEF LockDiscipline
<1>6. \A j, k \in DOMAIN waiters' : waiters'[j] = waiters'[k] => j = k
  BY <1>1, <1>2 DEF LockDiscipline
<1>7. ASSUME NEW q \in Requests, pc'[q] = "waiting"
      PROVE  \E k \in DOMAIN waiters' : waiters'[k] = q
  <2>1. q # r /\ pc[q] = "waiting"
    BY <1>3, <1>7
  <2>2. PICK k \in DOMAIN waiters : waiters[k] = q
    BY <2>1 DEF LockDiscipline
  <2>3. CASE k < i
    BY <1>1, <1>2, <2>2, <2>3
  <2>4. CASE k > i
    <3>1. k - 1 \in DOMAIN waiters' /\ ~(k - 1 < i) /\ (k - 1) + 1 = k
      BY <1>1, <1>2, <2>4
    <3>2. QED
      BY <1>2, <2>2, <3>1
  <2>5. QED
    BY <1>1, <2>1, <2>2, <2>3, <2>4
<1>8. ASSUME NEW q \in Requests, NEW k \in DOMAIN waiters', waiters'[k] = q
      PROVE  pc'[q] = "waiting"
  <2>1. PICK m \in DOMAIN waiters : m # i /\ waiters[m] = q
    BY <1>1, <1>2, <1>8
  <2>2. q # r /\ pc[q] = "waiting"
    BY <2>1 DEF LockDiscipline
  <2>3. QED
    BY <1>3, <2>2
<1>9. QED
  BY <1>3, <1>4, <1>5, <1>6, <1>7, <1>8 DEF LockDiscipline

(* The task a released lock is granted to is waiting for it.                *)
LEMMA HeadIsWaiting ==
  ASSUME TypeOK, LockDiscipline, NEW r \in Requests, Grant(r)
  PROVE  pc[r] = "waiting"
<1>1. 1 \in DOMAIN waiters /\ waiters[1] = r
  BY LenProperties, EmptySeq DEF Grant, TypeOK
<1>2. QED
  BY <1>1 DEF LockDiscipline

(* The lock of a device has one holder, it is the request that works on the *)
(* device, and the queue holds each waiting task once, also when the cap    *)
(* takes tasks out of it.                                                   *)
THEOREM LockCorrect == Spec => []LockDiscipline
<1>1. Init => LockDiscipline
  BY ConstantsAssumption DEF Init, LockDiscipline, Holding
<1>2. TypeOK /\ LockDiscipline /\ [Next]_vars => LockDiscipline'
  <2> SUFFICES ASSUME TypeOK, LockDiscipline, [Next]_vars PROVE LockDiscipline'
    OBVIOUS
  <2>0. /\ NoRequest \notin Requests
        /\ \A l \in {"attempt", "connecting", "session", "closing", "sleeping"} : l \in Holding
        /\ \A l \in {"idle", "waiting", "done"} : l \notin Holding
    BY ConstantsAssumption DEF Holding
  <2>1. ASSUME NEW r \in Requests, Request(r) PROVE LockDiscipline'
    <3>1. /\ DOMAIN waiters = 1..Len(waiters) /\ Len(waiters) \in Nat
          /\ \A l : \A q \in Requests : Goto(r, l) => pc'[q] = IF q = r THEN l ELSE pc[q]
      BY LenProperties DEF TypeOK, Goto
    <3>2. CASE lock = NoRequest /\ waiters = <<>> /\ lock' = r /\ Goto(r, "attempt") /\ UNCHANGED waiters
      BY <2>0, <2>1, <3>1, <3>2 DEF LockDiscipline, Request
    <3>3. CASE waiters' = Append(waiters, r) /\ Goto(r, "waiting") /\ UNCHANGED lock
      <4>1. /\ DOMAIN waiters' = 1..(Len(waiters) + 1)
            /\ \A k \in 1..Len(waiters) : waiters'[k] = waiters[k]
            /\ waiters'[Len(waiters) + 1] = r
        BY <3>3, AppendProperties, LenProperties DEF TypeOK
      <4>2. pc[r] = "idle"
        BY <2>1 DEF Request
      <4>3. \A k \in DOMAIN waiters : waiters[k] # r
        BY <4>2 DEF LockDiscipline
      <4>4. \A j, k \in DOMAIN waiters' : waiters'[j] = waiters'[k] => j = k
        BY <3>1, <4>1, <4>3 DEF LockDiscipline
      <4>5. \A q \in Requests : pc'[q] = "waiting" <=> \E k \in DOMAIN waiters' : waiters'[k] = q
        BY <3>1, <3>3, <4>1, <4>2, <4>3 DEF LockDiscipline
      <4>6. \A q \in Requests : pc'[q] \in Holding <=> lock' = q
        BY <2>0, <3>1, <3>3, <4>2 DEF LockDiscipline
      <4>7. QED
        BY <4>4, <4>5, <4>6 DEF LockDiscipline
    <3>4. QED
      BY <2>1, <3>2, <3>3 DEF Request
  <2>2. ASSUME NEW r \in Requests, Grant(r) PROVE LockDiscipline'
    <3>1. /\ DOMAIN waiters = 1..Len(waiters) /\ Len(waiters) \in Nat /\ 1 \in DOMAIN waiters
          /\ waiters[1] = r
          /\ DOMAIN waiters' = 1..(Len(waiters) - 1)
          /\ \A k \in DOMAIN waiters' : waiters'[k] = waiters[k + 1]
      BY <2>2, LenProperties, HeadTailProperties, EmptySeq DEF Grant, TypeOK
    <3>2. \A q \in Requests : pc'[q] = IF q = r THEN "attempt" ELSE pc[q]
      BY <2>2 DEF Grant, Goto, TypeOK
    <3>3. \A j, k \in DOMAIN waiters' : waiters'[j] = waiters'[k] => j = k
      BY <3>1 DEF LockDiscipline
    <3>4. \A q \in Requests : pc'[q] \in Holding <=> lock' = q
      BY <2>0, <2>2, <3>2 DEF LockDiscipline, Grant
    <3>5. ASSUME NEW q \in Requests, pc'[q] = "waiting"
          PROVE  \E k \in DOMAIN waiters' : waiters'[k] = q
      <4>1. q # r /\ pc[q] = "waiting"
        BY <2>0, <3>2, <3>5
      <4>2. PICK k \in DOMAIN waiters : waiters[k] = q
        BY <4>1 DEF LockDiscipline
      <4>3. k - 1 \in DOMAIN waiters' /\ (k - 1) + 1 = k
        BY <3>1, <4>1, <4>2
      <4>4. QED
        BY <3>1, <4>2, <4>3
    <3>6. ASSUME NEW q \in Requests, NEW k \in DOMAIN waiters', waiters'[k] = q
          PROVE  pc'[q] = "waiting"
      <4>1. k + 1 \in DOMAIN waiters /\ waiters[k + 1] = q /\ k + 1 # 1
        BY <3>1, <3>6
      <4>2. q # r /\ pc[q] = "waiting"
        BY <3>1, <4>1 DEF LockDiscipline
      <4>3. QED
        BY <3>2, <4>2
    <3>7. QED
      BY <3>3, <3>4, <3>5, <3>6 DEF LockDiscipline
  <2>3. ASSUME NEW r \in Requests, NoDevice(r) \/ Connect(r) PROVE LockDiscipline'
    BY <2>0, <2>3, MoveInside DEF NoDevice, Connect
  <2>4. ASSUME NEW r \in Requests, ConnectFails(r) \/ Connected(r) PROVE LockDiscipline'
    BY <2>0, <2>4, MoveInside DEF ConnectFails, Connected
  <2>5. ASSUME NEW r \in Requests, Session(r) PROVE LockDiscipline'
    BY <2>0, <2>5, MoveInside
       DEF Session, SessionReturns, SessionRaises, SessionStale, EndSession
  <2>6. ASSUME NEW r \in Requests, Disconnect(r) \/ LinkDrops(r) PROVE LockDiscipline'
    BY <2>6 DEF Disconnect, Disconnects, DisconnectFails, LinkDrops, LockDiscipline
  <2>7. ASSUME NEW r \in Requests, CloseAndRetry(r) \/ Wake(r) PROVE LockDiscipline'
    BY <2>0, <2>7, MoveInside DEF CloseAndRetry, Wake
  <2>8. ASSUME NEW r \in Requests, CloseAndLeave(r) PROVE LockDiscipline'
    BY <2>0, <2>8, MoveOut DEF CloseAndLeave
  <2>9. ASSUME NEW r \in Requests, Exhausted(r) PROVE LockDiscipline'
    BY <2>0, <2>9, MoveOut DEF Exhausted
  <2>10. ASSUME NEW r \in Requests, Cancel(r) PROVE LockDiscipline'
    <3>1. CASE pc[r] = "waiting"
      BY <2>10, <3>1, MoveOffQueue DEF Cancel, Answered
    <3>2. CASE pc[r] = "session"
      BY <2>0, <2>10, <3>2, MoveInside DEF Cancel
    <3>3. CASE pc[r] \notin {"waiting", "session"}
      BY <2>0, <2>10, <3>3, MoveOut DEF Cancel
    <3>4. QED
      BY <3>1, <3>2, <3>3
  <2>11. CASE UNCHANGED vars
    BY <2>11 DEF vars, LockDiscipline
  <2>12. QED
    BY <2>1, <2>2, <2>3, <2>4, <2>5, <2>6, <2>7, <2>8, <2>9, <2>10, <2>11
       DEF Next, Step, Progress, Session, Disconnect, Finished
<1>3. QED
  BY <1>1, <1>2, TypeCorrect, PTL DEF Spec, Safe

-----------------------------------------------------------------------------
(* A step of one request leaves the others where they are.                  *)
LEMMA StepIsLocal ==
  ASSUME TypeOK, NEW r \in Requests, Step(r), NEW q \in Requests, q # r
  PROVE  pc'[q] = pc[q] /\ link'[q] = link[q] /\ tries'[q] = tries[q]
<1> USE DEF TypeOK, Goto
<1>1. CASE Request(r) \/ Grant(r) \/ NoDevice(r) \/ Connect(r) \/ ConnectFails(r)
  BY <1>1 DEF Request, Grant, NoDevice, Connect, ConnectFails
<1>2. CASE Connected(r) \/ Session(r) \/ Disconnect(r)
  BY <1>2 DEF Connected, Session, SessionReturns, SessionRaises, SessionStale, EndSession,
              Disconnect, Disconnects, DisconnectFails
<1>3. CASE CloseAndLeave(r) \/ CloseAndRetry(r) \/ Wake(r) \/ Exhausted(r)
  BY <1>3 DEF CloseAndLeave, CloseAndRetry, Wake, Exhausted, Leave, Answered
<1>4. CASE Cancel(r) \/ LinkDrops(r)
  BY <1>4 DEF Cancel, LinkDrops, Leave, Answered
<1>5. QED
  BY <1>1, <1>2, <1>3, <1>4 DEF Step, Progress

(* What makes a request clean.                                              *)
LEMMA CleanRequest ==
  ASSUME NEW r \in Clean
  PROVE  /\ r \in Requests /\ r \notin Capped /\ DisconnectTries \in Nat
         /\ Stubborn[r] \in Nat /\ Stubborn[r] < DisconnectTries
BY ConstantsAssumption DEF Clean

(* Why no link outlives the lock.  An open link means that its request is   *)
(* in the session or in _safe_disconnect, and within the latter the link    *)
(* has survived no more rounds than it can; so when the rounds are over it  *)
(* is closed.                                                               *)
LinkInvOf(r) ==
  /\ link[r] => pc[r] \in {"session", "closing"}
  /\ tries[r] <= Stubborn[r]

LinkInv == \A r \in Clean : LinkInvOf(r)

THEOREM LinkInvariant == Spec => []LinkInv
<1>1. Init => LinkInv
  <2> SUFFICES ASSUME Init, NEW r \in Clean PROVE LinkInvOf(r)
    BY DEF LinkInv
  <2>1. link[r] = FALSE /\ tries[r] = 0
    BY CleanRequest DEF Init
  <2>2. QED
    BY <2>1, CleanRequest DEF LinkInvOf
<1>2. TypeOK /\ LockDiscipline /\ LinkInv /\ [Next]_vars => LinkInv'
  <2> SUFFICES ASSUME TypeOK, LockDiscipline, LinkInv, [Next]_vars PROVE LinkInv'
    OBVIOUS
  <2>1. ASSUME NEW r \in Requests, Step(r), r \in Clean PROVE LinkInvOf(r)'
    <3>0. LinkInvOf(r) /\ tries[r] \in Nat /\ r \notin Capped /\ Stubborn[r] \in Nat
          /\ DisconnectTries \in Nat /\ Stubborn[r] < DisconnectTries
      BY <2>1, CleanRequest DEF LinkInv, TypeOK
    <3> USE <3>0 DEF LinkInvOf, Goto, TypeOK
    <3>1. CASE Request(r) \/ Grant(r)
      BY <3>1, HeadIsWaiting DEF Request, Grant
    <3>2. CASE NoDevice(r) \/ Connect(r) \/ ConnectFails(r) \/ Wake(r)
      BY <3>2 DEF NoDevice, Connect, ConnectFails, Wake
    <3>3. CASE Connected(r)
      BY <3>3 DEF Connected
    <3>4. CASE Session(r)
      BY <3>4 DEF Session, SessionReturns, SessionRaises, SessionStale, EndSession
    <3>5. CASE Disconnects(r) \/ LinkDrops(r)
      BY <3>5 DEF Disconnects, LinkDrops
    <3>6. CASE DisconnectFails(r)
      BY <3>6 DEF DisconnectFails
    <3>7. CASE CloseAndLeave(r) \/ CloseAndRetry(r)
      <4>1. ~link[r] /\ link' = link /\ tries'[r] = 0
        BY <3>7 DEF CloseAndLeave, CloseAndRetry, DisconnectOver, Leave, Answered
      <4>2. QED
        BY <4>1
    <3>8. CASE Exhausted(r)
      BY <3>8 DEF Exhausted, Leave, Answered
    <3>9. CASE Cancel(r)
      BY <3>9 DEF Cancel
    <3>10. QED
      BY <2>1, <3>1, <3>2, <3>3, <3>4, <3>5, <3>6, <3>7, <3>8, <3>9
         DEF Step, Progress, Disconnect
  <2>2. ASSUME NEW r \in Requests, Step(r) PROVE LinkInv'
    <3>1. ASSUME NEW q \in Clean, q # r PROVE LinkInvOf(q)'
      BY <2>2, <3>1, StepIsLocal, CleanRequest DEF LinkInv, LinkInvOf
    <3>2. QED
      BY <2>1, <2>2, <3>1 DEF LinkInv
  <2>3. CASE UNCHANGED vars
    BY <2>3 DEF vars, LinkInv, LinkInvOf
  <2>4. QED
    BY <2>2, <2>3 DEF Next, Finished
<1>3. QED
  BY <1>1, <1>2, TypeCorrect, LockCorrect, PTL DEF Spec, Safe

(* Two parts of the promise of gatt.py:3-5 and 47-49 for every number of    *)
(* requests, for those whose disconnect succeeds in its rounds and is not   *)
(* cancelled: no link without the lock,                                     *)
THEOREM LinkSafe == Spec => []LinkUnderLock
<1>1. LockDiscipline /\ LinkInv => LinkUnderLock
  BY CleanRequest DEF LockDiscipline, LinkInv, LinkInvOf, LinkUnderLock, Holding
<1>2. QED
  BY <1>1, LockCorrect, LinkInvariant, PTL

(* ... and no link left open once the caller has its answer: what           *)
(* GuaranteedDisconnect says of every request, where it is so.              *)
THEOREM DisconnectGuaranteed ==
  ASSUME Clean = Requests PROVE Spec => []GuaranteedDisconnect
<1>1. LinkInv => GuaranteedDisconnect
  BY DEF LinkInv, LinkInvOf, GuaranteedDisconnect
<1>2. QED
  BY <1>1, LinkInvariant, PTL

-----------------------------------------------------------------------------
(* Why the advice fits.  While the loop sleeps or starts an attempt, and    *)
(* after a failed session, its flag says what the last attempt achieved.    *)
AdviceOf(r) ==
  /\ pc[r] \in {"idle", "waiting", "sleeping", "attempt"} => reached[r] = connected[r]
  /\ pc[r] = "connecting" => ~connected[r]
  /\ pc[r] = "session" => connected[r]
  /\ pc[r] = "closing" =>
       connected[r] /\ (ending[r] \in {"error", "stale"} => reached[r])

AdviceInv == \A r \in Requests : Kind[r] # "repeater" => AdviceOf(r)

(* A read or a command is never told that its device is out of range when   *)
(* its last attempt had reached it, nor the other way round.                *)
THEOREM AdviceCorrect == Spec => AdviceMatchesLastAttempt
<1>1. Init => AdviceInv
  BY DEF Init, AdviceInv, AdviceOf
<1>2. TypeOK /\ LockDiscipline /\ AdviceInv /\ [Next]_vars => AdviceInv'
  <2> SUFFICES ASSUME TypeOK, LockDiscipline, [Next]_vars,
                      NEW q \in Requests, Kind[q] # "repeater", AdviceOf(q)
               PROVE  AdviceOf(q)'
    BY DEF AdviceInv
  <2> USE DEF AdviceOf, TypeOK, Goto
  <2>1. ASSUME NEW r \in Requests, Request(r) \/ Grant(r) PROVE AdviceOf(q)'
    <3>1. pc[r] \in {"idle", "waiting"} /\ UNCHANGED <<reached, connected, ending>>
      BY <2>1, HeadIsWaiting DEF Request, Grant
    <3>2. pc' = [pc EXCEPT ![r] = "waiting"] \/ pc' = [pc EXCEPT ![r] = "attempt"]
      BY <2>1, Zenon DEF Request, Grant
    <3>3. pc'[q] = pc[q] \/ (q = r /\ pc'[q] \in {"waiting", "attempt"})
      BY <3>2
    <3>4. QED
      BY <3>1, <3>3
  <2>2. ASSUME NEW r \in Requests, NoDevice(r) PROVE AdviceOf(q)'
    BY <2>2 DEF NoDevice
  <2>3. ASSUME NEW r \in Requests, Connect(r) PROVE AdviceOf(q)'
    BY <2>3 DEF Connect
  <2>4. ASSUME NEW r \in Requests, ConnectFails(r) PROVE AdviceOf(q)'
    BY <2>4 DEF ConnectFails
  <2>5. ASSUME NEW r \in Requests, Connected(r) PROVE AdviceOf(q)'
    BY <2>5 DEF Connected
  <2>6. ASSUME NEW r \in Requests, SessionReturns(r) PROVE AdviceOf(q)'
    BY <2>6 DEF SessionReturns, EndSession
  <2>7. ASSUME NEW r \in Requests, SessionRaises(r) PROVE AdviceOf(q)'
    BY <2>7 DEF SessionRaises, EndSession
  <2>8. ASSUME NEW r \in Requests, SessionStale(r) PROVE AdviceOf(q)'
    <3>1. CASE q = r
      <4>1. Kind[q] = "read"
        BY <2>8, <3>1, ConstantsAssumption DEF SessionStale, Kinds
      <4>2. reached'[q]
        BY <2>8, <3>1, <4>1 DEF SessionStale
      <4>3. pc'[q] = "closing" /\ connected'[q]
        BY <2>8, <3>1 DEF SessionStale, EndSession
      <4>4. QED
        BY <4>2, <4>3
    <3>2. CASE q # r
      BY <2>8, <3>2 DEF SessionStale, EndSession
    <3>3. QED
      BY <3>1, <3>2
  <2>9. ASSUME NEW r \in Requests, Disconnect(r) \/ LinkDrops(r) PROVE AdviceOf(q)'
    BY <2>9 DEF Disconnect, Disconnects, DisconnectFails, LinkDrops
  <2>10. ASSUME NEW r \in Requests, CloseAndRetry(r) PROVE AdviceOf(q)'
    BY <2>10 DEF CloseAndRetry
  <2>11. ASSUME NEW r \in Requests, Wake(r) PROVE AdviceOf(q)'
    BY <2>11 DEF Wake
  <2>12. ASSUME NEW r \in Requests, NEW a, Answered(r, a) PROVE AdviceOf(q)'
    BY <2>12 DEF Answered
  <2>13. ASSUME NEW r \in Requests, CloseAndLeave(r) \/ Exhausted(r) PROVE AdviceOf(q)'
    BY <2>12, <2>13 DEF CloseAndLeave, Exhausted, Leave
  <2>14. ASSUME NEW r \in Requests, Cancel(r) PROVE AdviceOf(q)'
    <3>1. CASE pc[r] = "session"
      BY <2>14, <3>1 DEF Cancel
    <3>2. CASE pc[r] # "session"
      BY <2>12, <2>14, <3>2 DEF Cancel, Leave
    <3>3. QED
      BY <3>1, <3>2
  <2>15. CASE UNCHANGED vars
    BY <2>15 DEF vars
  <2>16. QED
    BY <2>1, <2>2, <2>3, <2>4, <2>5, <2>6, <2>7, <2>8, <2>9, <2>10, <2>11, <2>13, <2>14, <2>15
       DEF Next, Step, Progress, Session, Disconnect, Finished
<1>3. TypeOK /\ AdviceInv /\ [Next]_vars =>
        [HonestAdviceToOthers]_vars
  <2> SUFFICES ASSUME TypeOK, AdviceInv, [Next]_vars, NEW q \in Requests,
                      Kind[q] # "repeater", answer[q] # answer'[q]
               PROVE  /\ answer'[q] = "range_advice" => ~connected[q]
                      /\ answer'[q] = "device_error" => connected[q]
    BY DEF HonestAdvice, HonestAdviceToOthers
  <2>1. ASSUME NEW r \in Requests, NEW a, Answered(r, a), a # "range_advice", a # "device_error"
        PROVE  answer'[q] \notin {"range_advice", "device_error"}
    BY <2>1 DEF Answered, TypeOK
  <2>2. ASSUME NEW r \in Requests, Exhausted(r)
        PROVE  r = q /\ pc[q] = "attempt" /\ answer'[q] = Unreachable(q)
    BY <2>2 DEF Exhausted, Leave, Answered, TypeOK
  <2>3. ASSUME NEW r \in Requests, CloseAndLeave(r) \/ Cancel(r)
        PROVE  answer'[q] \notin {"range_advice", "device_error"}
    BY <2>1, <2>3 DEF CloseAndLeave, Cancel, Leave
  <2>4. \E r \in Requests : Exhausted(r) \/ CloseAndLeave(r) \/ Cancel(r)
    BY DEF Next, Step, Progress, Session, Disconnect, Finished, vars, Request, Grant, NoDevice,
           Connect, ConnectFails, Connected, SessionReturns, SessionRaises, SessionStale,
           EndSession, Disconnects, DisconnectFails, CloseAndRetry, Wake, LinkDrops
  <2>5. CASE \E r \in Requests : Exhausted(r)
    <3>1. pc[q] = "attempt" /\ answer'[q] = Unreachable(q)
      BY <2>2, <2>5
    <3>2. reached[q] = connected[q]
      BY <3>1 DEF AdviceInv, AdviceOf
    <3>3. QED
      BY <3>1, <3>2 DEF Unreachable, TypeOK
  <2>6. QED
    BY <2>3, <2>4, <2>5
<1>4. QED
  BY <1>1, <1>2, <1>3, TypeCorrect, LockCorrect, PTL DEF Spec, Safe, AdviceMatchesLastAttempt

-----------------------------------------------------------------------------
(* Whoever gets the lock was queued ahead of everyone who goes on waiting:  *)
(* it heads the queue, or the queue is empty (gatt.py _dev_lock).           *)
THEOREM QueueInOrder == Spec => NoOvertaking
<1>1. TypeOK /\ LockDiscipline /\ [Next]_vars => [GrantsInOrder]_vars
  <2> SUFFICES ASSUME TypeOK, LockDiscipline, [Next]_vars,
                      NEW r \in Requests, NEW q \in Requests,
                      lock # r, lock' = r, pc[q] = "waiting", pc'[q] = "waiting"
               PROVE  \E i, j \in DOMAIN waiters : i < j /\ waiters[i] = r /\ waiters[j] = q
    BY DEF GrantsInOrder
  <2>1. r # NoRequest /\ pc \in [Requests -> Locations]
    BY ConstantsAssumption DEF TypeOK
  <2>2. PICK j \in DOMAIN waiters : waiters[j] = q
    BY DEF LockDiscipline
  <2>3. DOMAIN waiters = 1..Len(waiters) /\ Len(waiters) \in Nat /\ waiters # <<>>
    BY <2>2, LenProperties, EmptySeq DEF TypeOK
  <2>4. PICK p \in Requests : Request(p) \/ Grant(p)
    BY <2>1 DEF Next, Step, Progress, Session, Disconnect, Finished, vars, NoDevice, Connect,
           ConnectFails, Connected, SessionReturns, SessionRaises, SessionStale, EndSession,
           Disconnects, DisconnectFails, CloseAndLeave, CloseAndRetry, Wake, Exhausted, Cancel,
           LinkDrops, Leave
  <2>5. Grant(p) /\ p = r
    BY <2>3, <2>4 DEF Request, Grant
  <2>6. 1 \in DOMAIN waiters /\ waiters[1] = r
    BY <2>3, <2>5 DEF Grant
  <2>7. q # r
    BY <2>1, <2>5 DEF Grant, Goto
  <2>8. 1 < j
    BY <2>2, <2>3, <2>6, <2>7
  <2>9. QED
    BY <2>2, <2>6, <2>8
<1>2. QED
  BY <1>1, TypeCorrect, LockCorrect, PTL DEF Spec, Safe, NoOvertaking

-----------------------------------------------------------------------------
(* The open link of a function that opens no two of them.                   *)
LEMMA OpenOfUnique ==
  ASSUME NEW l, NEW h, \A r \in Clean : l[r] => r = h
  PROVE  /\ \A r \in Clean : l[r] => OpenOf(l) = r
         /\ (\A r \in Clean : ~l[r]) => OpenOf(l) = NoRequest
         /\ \A r \in Clean : OpenOf(l) = r => l[r]
<1>1. ASSUME NEW r \in Clean, l[r] PROVE OpenOf(l) = r
  BY <1>1 DEF OpenOf
<1>2. ASSUME NEW r \in Clean, OpenOf(l) = r PROVE l[r]
  BY <1>2, CleanRequest, ConstantsAssumption DEF OpenOf
<1>3. QED
  BY <1>1, <1>2 DEF OpenOf

(* The safety half of ImplementsExclusiveLink: every step of the GATT layer *)
(* is a step of the exclusive link or leaves it alone.                      *)
THEOREM ImplementsSafe == Spec => Abstract!Safe
<1>1. Init => Abstract!Init
  <2> SUFFICES ASSUME Init PROVE Abstract!Init
    OBVIOUS
  <2>1. \A r \in Clean : ~link[r] /\ pc[r] = "idle"
    BY CleanRequest DEF Init
  <2>2. OpenOf(link) = NoRequest
    BY <2>1 DEF OpenOf
  <2>3. QED
    BY <2>1, <2>2 DEF Abstract!Init
<1>2. TypeOK /\ LockDiscipline /\ LinkInv /\ LinkUnderLock /\ LinkUnderLock' /\ [Next]_vars
        => [Abstract!Next]_Abstract!vars
  <2> SUFFICES ASSUME TypeOK, LockDiscipline, LinkInv, LinkUnderLock, LinkUnderLock', [Next]_vars
               PROVE  [Abstract!Next]_Abstract!vars
    OBVIOUS
  <2> DEFINE Asked == {q \in Clean : pc[q] # "idle"}
             Done == {q \in Clean : pc[q] = "done"}
  <2>0. /\ \A r \in Clean : link[r] => OpenOf(link) = r
        /\ (\A r \in Clean : ~link[r]) => OpenOf(link) = NoRequest
        /\ \A r \in Clean : OpenOf(link) = r => link[r]
    <3>1. \A r \in Clean : link[r] => r = lock
      BY DEF LinkUnderLock
    <3>2. QED
      BY <3>1, OpenOfUnique, Zenon
  <2>00. /\ \A r \in Clean : link'[r] => OpenOf(link') = r
         /\ (\A r \in Clean : ~link'[r]) => OpenOf(link') = NoRequest
    <3>1. \A r \in Clean : link'[r] => r = lock'
      BY DEF LinkUnderLock
    <3>2. QED
      BY <3>1, OpenOfUnique, Zenon
  <2>1. ASSUME \A q \in Clean : link'[q] = link[q] PROVE OpenOf(link') = OpenOf(link)
    BY <2>0, <2>00, <2>1
  <2>2. ASSUME NEW r \in Requests, Step(r), r \notin Clean PROVE UNCHANGED Abstract!vars
    <3>1. \A q \in Clean : pc'[q] = pc[q] /\ link'[q] = link[q]
      BY <2>2, StepIsLocal, CleanRequest
    <3>2. OpenOf(link') = OpenOf(link)
      BY <2>1, <3>1
    <3>3. Asked' = Asked /\ Done' = Done
      BY <3>1
    <3>4. QED
      BY <3>2, <3>3 DEF Abstract!vars
  <2>3. ASSUME NEW r \in Requests, Step(r), r \in Clean
        PROVE  Abstract!Next \/ UNCHANGED Abstract!vars
    <3>0. /\ \A q \in Clean : q # r => pc'[q] = pc[q] /\ link'[q] = link[q]
          /\ LinkInvOf(r)
      BY <2>3, StepIsLocal, CleanRequest DEF LinkInv
    <3>1. CASE Request(r)
      <4>1. pc[r] = "idle" /\ link' = link /\ pc'[r] \in {"waiting", "attempt"}
        BY <3>1 DEF Request, Goto, TypeOK
      <4>2. Asked' = Asked \union {r} /\ Done' = Done /\ r \notin Asked
        BY <2>3, <3>0, <4>1
      <4>3. Abstract!Ask(r)
        BY <4>1, <4>2 DEF Abstract!Ask
      <4>4. QED
        BY <2>3, <4>3 DEF Abstract!Next
    <3>2. ASSUME pc[r] \notin {"idle", "done"}, pc'[r] \notin {"idle", "done"}, link' = link
          PROVE  UNCHANGED Abstract!vars
      <4>1. Asked' = Asked /\ Done' = Done
        BY <3>0, <3>2
      <4>2. QED
        BY <3>2, <4>1 DEF Abstract!vars
    <3>3. CASE Connected(r)
      <4>1. pc[r] = "connecting" /\ lock = r /\ link'[r] /\ pc'[r] = "session"
        BY <3>3 DEF Connected, Goto, LockDiscipline, Holding, TypeOK
      <4>2. \A q \in Clean : ~link[q]
        BY <3>0, <4>1 DEF LinkInvOf, LinkUnderLock
      <4>3. OpenOf(link) = NoRequest /\ OpenOf(link') = r
        BY <2>0, <2>00, <2>3, <4>1, <4>2
      <4>4. Asked' = Asked /\ Done' = Done /\ r \in Asked \ Done
        BY <2>3, <3>0, <4>1
      <4>5. Abstract!Open(r)
        BY <4>3, <4>4 DEF Abstract!Open
      <4>6. QED
        BY <2>3, <4>5 DEF Abstract!Next
    <3>4. CASE Disconnects(r) \/ LinkDrops(r)
      <4>1. link[r] /\ pc' = pc /\ ~link'[r]
        BY <3>4 DEF Disconnects, LinkDrops, TypeOK
      <4>2. \A q \in Clean : ~link'[q]
        BY <2>3, <3>0, <4>1 DEF LinkUnderLock
      <4>3. OpenOf(link) = r /\ OpenOf(link') = NoRequest /\ r # NoRequest
        BY <2>0, <2>00, <2>3, <4>1, <4>2, ConstantsAssumption
      <4>4. Abstract!Close
        BY <4>1, <4>3 DEF Abstract!Close
      <4>5. QED
        BY <4>4 DEF Abstract!Next
    <3>5. CASE CloseAndLeave(r) \/ Exhausted(r)
      <4>1. tries[r] # DisconnectTries
        BY <2>3, <3>0, CleanRequest DEF LinkInvOf, TypeOK
      <4>2. ~link[r] /\ link' = link /\ pc[r] \in {"closing", "attempt"} /\ pc'[r] = "done"
        BY <3>0, <3>5, <4>1
           DEF CloseAndLeave, Exhausted, DisconnectOver, Leave, Answered, Goto, LinkInvOf, TypeOK
      <4>3. Asked' = Asked /\ Done' = Done \union {r} /\ r \in Asked \ Done
        BY <2>3, <3>0, <4>2
      <4>4. OpenOf(link) # r
        BY <2>0, <2>3, <4>2
      <4>5. Abstract!Answer(r)
        BY <4>2, <4>3, <4>4 DEF Abstract!Answer
      <4>6. QED
        BY <2>3, <4>5 DEF Abstract!Next
    <3>6. CASE NoDevice(r) \/ Connect(r) \/ ConnectFails(r) \/ Session(r) \/ CloseAndRetry(r)
               \/ Wake(r) \/ Grant(r)
      <4>1. /\ pc[r] \notin {"idle", "done"} /\ link' = link
            /\ \E l \in {"sleeping", "connecting", "closing", "attempt"} : Goto(r, l)
        BY <3>6, HeadIsWaiting
           DEF NoDevice, Connect, ConnectFails, Session, SessionReturns, SessionRaises,
               SessionStale, EndSession, CloseAndRetry, Wake, Grant
      <4>2. pc'[r] \notin {"idle", "done"}
        BY <4>1 DEF Goto, TypeOK
      <4>3. QED
        BY <3>2, <4>1, <4>2
    <3>7. CASE DisconnectFails(r)
      BY <3>7 DEF DisconnectFails, Abstract!vars
    <3>8. CASE Cancel(r)
      BY <2>3, <3>8, CleanRequest DEF Cancel
    <3>9. QED
      BY <2>3, <3>1, <3>3, <3>4, <3>5, <3>6, <3>7, <3>8 DEF Step, Progress, Disconnect
  <2>4. CASE UNCHANGED vars
    BY <2>4 DEF vars, Abstract!vars
  <2>5. QED
    BY <2>2, <2>3, <2>4 DEF Next, Finished
<1>3. QED
  BY <1>1, <1>2, TypeCorrect, LockCorrect, LinkInvariant, LinkSafe, PTL DEF Spec, Safe, Abstract!Safe
=============================================================================
