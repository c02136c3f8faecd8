-------------------------- MODULE DevicePanel_proofs --------------------------
(***************************************************************************)
(* The safety of one panel element, for any devices and any number of      *)
(* calls, moves and changes.  In this order:                               *)
(*                                                                         *)
(* - OneConnect, from inflight: every read under way has its device in it, *)
(*   no two the same, and a device whose weak signal the user is asked     *)
(*   about is not in it.  The guard of Connect looks at inflight before    *)
(*   that question, not after it: nothing else starts a read in between.   *)
(* - PanelTypeOK, from Typed, on which all that follows rests.             *)
(* - AnsweredKept, from KeptInv: of the automatic snapshots under way the  *)
(*   last one of a device is as new as what was reported of it.            *)
(* - NeverStuck, from StuckInv.                                            *)
(* - OwnFields and DialogKeepsDevice, from OwnFrame: at most one call is   *)
(*   wanted, and that one is of the device the dialog and _loaded are of.  *)
(* - LcdRemembered, from LcdInv on top of OwnFrame.                        *)
(***************************************************************************)
EXTENDS DevicePanel, TLAPS, SequenceTheorems

-----------------------------------------------------------------------------
(* A sequence of calls, whatever their fields hold. *)
IsCall(c) == {"kind", "mac", "what", "live"} \subseteq DOMAIN c
IsCalls(s) == \E S : s \in Seq(S) /\ \A c \in S : IsCall(c)

(* flying has the device of every read in s, and no two reads have the same. *)
ReadsFly(s, flying) ==
  /\ IsCalls(s)
  /\ \A i \in DOMAIN s : s[i].kind = "read" => s[i].mac \in flying
  /\ \A i, j \in DOMAIN s :
       s[i].kind = "read" /\ s[j].kind = "read" /\ s[i].mac = s[j].mac => i = j

ReadsInv ==
  /\ ReadsFly(calls, inflight)
  /\ confirm.why = "weak" => confirm.mac \notin inflight

(* Two sequences with the same kinds and devices have the same reads. *)
LEMMA SameReads ==
  ASSUME NEW s, NEW q, NEW flying, ReadsFly(s, flying), IsCalls(q),
         DOMAIN q = DOMAIN s,
         \A i \in DOMAIN s : q[i].kind = s[i].kind /\ q[i].mac = s[i].mac
  PROVE  ReadsFly(q, flying)
BY DEF ReadsFly

(* Making calls stale leaves them calls. *)
LEMMA IsCallsStaled == ASSUME IsCalls(calls) PROVE IsCalls(Staled)
<1>1. PICK S : calls \in Seq(S) /\ \A c \in S : IsCall(c)
  BY DEF IsCalls
<1> DEFINE Q == {[c EXCEPT !.live = FALSE] : c \in S}
<1>2. Staled \in Seq(Q)
  BY <1>1 DEF Staled
<1>3. \A c \in Q : IsCall(c)
  BY <1>1 DEF IsCall
<1> HIDE DEF Q
<1> QED BY <1>2, <1>3 DEF IsCalls

(* Making earlier calls stale leaves the reads as they are. *)
LEMMA ReadsStaled ==
  ASSUME NEW flying, ReadsFly(calls, flying) PROVE ReadsFly(Staled, flying)
<1>1. PICK S : calls \in Seq(S) /\ \A c \in S : IsCall(c)
  BY DEF IsCalls, ReadsFly
<1>2. DOMAIN Staled = DOMAIN calls
  BY DEF Staled
<1>3. \A i \in DOMAIN calls : IsCall(calls[i])
  BY <1>1
<1>4. \A i \in DOMAIN calls : Staled[i].kind = calls[i].kind /\ Staled[i].mac = calls[i].mac
  BY <1>3 DEF Staled, IsCall
<1> QED BY <1>2, <1>4, IsCallsStaled, SameReads DEF ReadsFly

(* One more call. *)
LEMMA Appended ==
  ASSUME NEW s, IsCalls(s), NEW c, IsCall(c)
  PROVE  /\ IsCalls(Append(s, c))
         /\ Len(s) \in Nat /\ DOMAIN s = 1..Len(s) /\ DOMAIN Append(s, c) = 1..(Len(s) + 1)
         /\ \A i \in DOMAIN s : Append(s, c)[i] = s[i]
         /\ Append(s, c)[Len(s) + 1] = c
<1>1. PICK S : s \in Seq(S) /\ \A e \in S : IsCall(e)
  BY DEF IsCalls
<1>2. s \in Seq(S \union {c}) /\ \A e \in S \union {c} : IsCall(e)
  BY <1>1
<1>3. Append(s, c) \in Seq(S \union {c})
  BY <1>2
<1> QED BY <1>1, <1>2, <1>3 DEF IsCalls

(* One more call that is no read. *)
LEMMA ReadsAppend ==
  ASSUME NEW s, NEW flying, ReadsFly(s, flying), NEW c, IsCall(c), c.kind # "read"
  PROVE  ReadsFly(Append(s, c), flying)
<1> DEFINE q == Append(s, c)
<1>1. /\ IsCalls(q) /\ Len(s) \in Nat /\ DOMAIN s = 1..Len(s) /\ DOMAIN q = 1..(Len(s) + 1)
      /\ \A i \in DOMAIN s : q[i] = s[i]
      /\ q[Len(s) + 1] = c
  BY Appended DEF ReadsFly
<1> HIDE DEF q
<1>2. \A i \in DOMAIN q : q[i].kind = "read" => i \in DOMAIN s /\ q[i] = s[i]
  BY <1>1
<1> QED BY <1>1, <1>2 DEF ReadsFly, q

(* One more read, of a device none is under way for. *)
LEMMA ReadsBegun ==
  ASSUME NEW s, NEW flying, ReadsFly(s, flying), NEW c, IsCall(c), c.mac \notin flying
  PROVE  ReadsFly(Append(s, c), flying \union {c.mac})
<1> DEFINE q == Append(s, c)
<1>1. /\ IsCalls(q) /\ Len(s) \in Nat /\ DOMAIN s = 1..Len(s) /\ DOMAIN q = 1..(Len(s) + 1)
      /\ \A i \in DOMAIN s : q[i] = s[i]
      /\ q[Len(s) + 1] = c
  BY Appended DEF ReadsFly
<1> HIDE DEF q
<1>2. \A i \in DOMAIN q : (i \in DOMAIN s /\ q[i] = s[i]) \/ (i = Len(s) + 1 /\ q[i] = c)
  BY <1>1
<1>3. \A i \in DOMAIN s : s[i].kind = "read" => s[i].mac \in flying /\ s[i].mac # c.mac
  BY DEF ReadsFly
<1>4. \A i \in DOMAIN q : q[i].kind = "read" => q[i].mac \in flying \union {c.mac}
  <2> TAKE i \in DOMAIN q
  <2> QED BY <1>2, <1>3
<1>5. \A i, j \in DOMAIN q :
        q[i].kind = "read" /\ q[j].kind = "read" /\ q[i].mac = q[j].mac => i = j
  <2> SUFFICES ASSUME NEW i \in DOMAIN q, NEW j \in DOMAIN q,
                      q[i].kind = "read", q[j].kind = "read", q[i].mac = q[j].mac
               PROVE  i = j
    OBVIOUS
  <2>1. CASE i \in DOMAIN s /\ q[i] = s[i] /\ j \in DOMAIN s /\ q[j] = s[j]
    BY <2>1 DEF ReadsFly
  <2>2. CASE i = Len(s) + 1 /\ q[i] = c /\ j = Len(s) + 1 /\ q[j] = c
    BY <2>2
  <2>3. CASE i \in DOMAIN s /\ q[i] = s[i] /\ q[j] = c
    BY <1>3, <2>3
  <2>4. CASE q[i] = c /\ j \in DOMAIN s /\ q[j] = s[j]
    BY <1>3, <2>4
  <2> QED BY <1>2, <2>1, <2>2, <2>3, <2>4
<1> QED BY <1>1, <1>4, <1>5 DEF ReadsFly, q

(* An element taken out of a sequence. *)
LEMMA RemovedFrom ==
  ASSUME NEW S, NEW s \in Seq(S), NEW i \in DOMAIN s
  PROVE  /\ RemoveAt(s, i) \in Seq(S)
         /\ Len(s) \in Nat /\ DOMAIN s = 1..Len(s) /\ i \in 1..Len(s)
         /\ Len(RemoveAt(s, i)) = Len(s) - 1 /\ DOMAIN RemoveAt(s, i) = 1..(Len(s) - 1)
         /\ \A j \in 1..(Len(s) - 1) : RemoveAt(s, i)[j] = IF j < i THEN s[j] ELSE s[j + 1]
<1>2. i \in 1..Len(s) /\ Len(s) \in Nat /\ DOMAIN s = 1..Len(s)
  OBVIOUS
<1> DEFINE a == SubSeq(s, 1, i - 1)
           b == SubSeq(s, i + 1, Len(s))
<1>3. a \in Seq(S) /\ Len(a) = i - 1 /\ \A j \in 1..(i - 1) : a[j] = s[j]
  BY <1>2
<1>4. b \in Seq(S) /\ Len(b) = Len(s) - i /\ \A j \in 1..(Len(s) - i) : b[j] = s[j + i]
  BY <1>2
<1>5. RemoveAt(s, i) = a \o b
  BY DEF RemoveAt
<1> HIDE DEF a, b
<1>6. a \o b \in Seq(S) /\ Len(a \o b) = (i - 1) + (Len(s) - i)
      /\ \A j \in 1..((i - 1) + (Len(s) - i)) :
           (a \o b)[j] = IF j <= i - 1 THEN a[j] ELSE b[j - (i - 1)]
  <2>1. a \o b \in Seq(S) /\ Len(a \o b) = Len(a) + Len(b)
        /\ \A j \in 1..(Len(a) + Len(b)) :
             (a \o b)[j] = IF j <= Len(a) THEN a[j] ELSE b[j - Len(a)]
    BY <1>3, <1>4, ConcatProperties, Zenon
  <2>2. Len(a) = i - 1 /\ Len(b) = Len(s) - i
    BY <1>3, <1>4
  <2> QED BY <2>1, <2>2, Zenon
<1>7. DOMAIN (a \o b) = 1..(Len(s) - 1) /\ Len(a \o b) = Len(s) - 1
  <2>1. DOMAIN (a \o b) = 1..((i - 1) + (Len(s) - i))
    BY <1>6, LenProperties, Zenon
  <2> QED BY <1>2, <1>6, <2>1
<1>8. \A j \in 1..(Len(s) - 1) : (a \o b)[j] = IF j < i THEN s[j] ELSE s[j + 1]
  <2> TAKE j \in 1..(Len(s) - 1)
  <2>0. (a \o b)[j] = IF j <= i - 1 THEN a[j] ELSE b[j - (i - 1)]
    BY <1>2, <1>6
  <2>1. CASE j < i
    BY <1>2, <1>3, <2>0, <2>1
  <2>2. CASE ~(j < i)
    <3>1. (a \o b)[j] = b[j - (i - 1)]
      BY <1>2, <2>0, <2>2
    <3>2. j - (i - 1) \in 1..(Len(s) - i) /\ (j - (i - 1)) + i = j + 1
      BY <1>2, <2>2
    <3> QED BY <1>4, <2>2, <3>1, <3>2
  <2> QED BY <2>1, <2>2
<1> QED BY <1>2, <1>5, <1>6, <1>7, <1>8, Zenon

(* A call that is answered is gone, and the others are as before. *)
LEMMA Removed ==
  ASSUME NEW s, IsCalls(s), NEW i \in DOMAIN s
  PROVE  /\ IsCalls(RemoveAt(s, i))
         /\ \A j \in DOMAIN RemoveAt(s, i) :
              /\ RemoveAt(s, i)[j] = IF j < i THEN s[j] ELSE s[j + 1]
              /\ (IF j < i THEN j ELSE j + 1) \in DOMAIN s
         /\ DOMAIN RemoveAt(s, i) \subseteq Nat /\ i \in Nat
<1>1. PICK S : s \in Seq(S) /\ \A e \in S : IsCall(e)
  BY DEF IsCalls
<1> DEFINE q == RemoveAt(s, i)
<1>2. /\ q \in Seq(S) /\ Len(s) \in Nat /\ DOMAIN s = 1..Len(s) /\ i \in 1..Len(s)
      /\ DOMAIN q = 1..(Len(s) - 1)
      /\ \A j \in 1..(Len(s) - 1) : q[j] = IF j < i THEN s[j] ELSE s[j + 1]
  BY <1>1, RemovedFrom
<1> HIDE DEF q
<1>3. \A j \in 1..(Len(s) - 1) : (IF j < i THEN j ELSE j + 1) \in 1..Len(s)
  BY <1>2
<1>4. 1..(Len(s) - 1) \subseteq Nat /\ i \in Nat
  BY <1>2
<1>5. IsCalls(q)
  BY <1>1, <1>2 DEF IsCalls
<1>6. \A j \in DOMAIN q : /\ q[j] = IF j < i THEN s[j] ELSE s[j + 1]
                          /\ (IF j < i THEN j ELSE j + 1) \in DOMAIN s
  BY <1>2, <1>3, Zenon
<1>7. DOMAIN q \subseteq Nat
  BY <1>2, <1>4, Zenon
<1> QED BY <1>4, <1>5, <1>6, <1>7, Zenon DEF q

(* Once a call is answered, flying may lack the device of that call. *)
LEMMA ReadsRemoved ==
  ASSUME NEW s, NEW flying, ReadsFly(s, flying), NEW i \in DOMAIN s, NEW left,
         s[i].kind = "read" => flying \ {s[i].mac} \subseteq left,
         s[i].kind # "read" => flying \subseteq left
  PROVE  ReadsFly(RemoveAt(s, i), left)
<1> DEFINE q == RemoveAt(s, i)
           from(j) == IF j < i THEN j ELSE j + 1
<1>1. /\ IsCalls(q) /\ DOMAIN q \subseteq Nat /\ i \in Nat
      /\ \A j \in DOMAIN q : q[j] = s[from(j)] /\ from(j) \in DOMAIN s
  BY Removed DEF ReadsFly
<1>2. \A j \in DOMAIN q : from(j) # i
  BY <1>1
<1>3. \A j, k \in DOMAIN q : from(j) = from(k) => j = k
  BY <1>1
<1> HIDE DEF q, from
<1>4. \A j \in DOMAIN q : q[j].kind = "read" => q[j].mac \in left
  BY <1>1, <1>2 DEF ReadsFly
<1>5. \A j, k \in DOMAIN q :
        q[j].kind = "read" /\ q[k].kind = "read" /\ q[j].mac = q[k].mac => j = k
  BY <1>1, <1>3 DEF ReadsFly
<1> QED BY <1>1, <1>4, <1>5 DEF ReadsFly, q

(* A call that goes on as another, no read. *)
LEMMA ReadsTurned ==
  ASSUME NEW s, NEW flying, ReadsFly(s, flying), NEW i \in DOMAIN s, NEW c, IsCall(c),
         c.kind # "read", NEW left,
         s[i].kind = "read" => flying \ {s[i].mac} \subseteq left,
         s[i].kind # "read" => flying \subseteq left
  PROVE  ReadsFly([s EXCEPT ![i] = c], left)
<1> DEFINE q == [s EXCEPT ![i] = c]
<1>1. PICK S : s \in Seq(S) /\ \A e \in S : IsCall(e)
  BY DEF IsCalls, ReadsFly
<1>2. s \in Seq(S \union {c}) /\ \A e \in S \union {c} : IsCall(e)
  BY <1>1
<1>3. q \in Seq(S \union {c})
  BY <1>2
<1>4. IsCalls(q)
  BY <1>2, <1>3 DEF IsCalls
<1>5. DOMAIN q = DOMAIN s /\ q[i] = c /\ \A j \in DOMAIN s : j # i => q[j] = s[j]
  OBVIOUS
<1> HIDE DEF q
<1>6. \A j \in DOMAIN q : q[j].kind = "read" => j # i /\ q[j] = s[j] /\ j \in DOMAIN s
  BY <1>5
<1>7. \A j \in DOMAIN q : q[j].kind = "read" => q[j].mac \in left
  BY <1>6 DEF ReadsFly
<1>8. \A j, k \in DOMAIN q :
        q[j].kind = "read" /\ q[k].kind = "read" /\ q[j].mac = q[k].mac => j = k
  BY <1>6 DEF ReadsFly
<1> QED BY <1>4, <1>7, <1>8 DEF ReadsFly, q

-----------------------------------------------------------------------------
(* What the actions do to calls and inflight. *)

(* The question about a weak signal is not a new one. *)
SameQuestion == confirm'.why = "weak" => confirm' = confirm

(* A step that touches neither the calls nor inflight. *)
LEMMA Quiet ==
  ASSUME ReadsInv, UNCHANGED <<calls, inflight>>, SameQuestion PROVE ReadsInv'
BY DEF ReadsInv, SameQuestion

(* A step that makes every call stale. *)
LEMMA Staling ==
  ASSUME ReadsInv, calls' = Staled, inflight' = inflight, SameQuestion PROVE ReadsInv'
<1>1. ReadsFly(Staled, inflight)
  BY ReadsStaled DEF ReadsInv
<1> QED BY <1>1 DEF ReadsInv, SameQuestion

(* What Call makes is a call. *)
LEMMA ACall ==
  ASSUME NEW kind, NEW m, NEW what
  PROVE  /\ IsCall(Call(kind, m, what))
         /\ Call(kind, m, what).kind = kind /\ Call(kind, m, what).mac = m
BY DEF IsCall, Call

(* A call whose answer nothing is compared with. *)
LEMMA Sending ==
  ASSUME ReadsInv, NEW c, IsCall(c), c.kind # "read", Send(c), inflight' = inflight, SameQuestion
  PROVE  ReadsInv'
<1>1. ReadsFly(Append(calls, c), inflight)
  BY ReadsAppend DEF ReadsInv
<1> QED BY <1>1 DEF ReadsInv, SameQuestion, Send

(* A call that takes a token. *)
LEMMA Issuing ==
  ASSUME ReadsInv, NEW c, IsCall(c), c.kind # "read", Issue(c), inflight' = inflight, SameQuestion
  PROVE  ReadsInv'
<1>1. ReadsFly(Append(Staled, c), inflight)
  BY ReadsStaled, ReadsAppend DEF ReadsInv
<1> QED BY <1>1 DEF ReadsInv, SameQuestion, Issue

(* A read of a device that is not in inflight. *)
LEMMA Beginning ==
  ASSUME ReadsInv, NEW m, m \notin inflight, NEW then, BeginRead(m, then), confirm' = NoConfirm
  PROVE  ReadsInv'
<1> DEFINE c == Call("read", m, then)
<1>1. IsCall(c) /\ c.mac = m
  BY ACall
<1>2. calls' = Append(Staled, c) /\ inflight' = inflight \union {c.mac}
  BY <1>1 DEF BeginRead, Issue
<1> HIDE DEF c
<1>3. ReadsFly(Append(Staled, c), inflight \union {c.mac})
  BY <1>1, ReadsStaled, ReadsBegun DEF ReadsInv
<1>4. confirm'.why # "weak"
  BY DEF NoConfirm
<1> QED BY <1>2, <1>3, <1>4 DEF ReadsInv

(* _readSelected: it looks at inflight first. *)
LEMMA Starting ==
  ASSUME ReadsInv, NEW then, StartRead(then) PROVE ReadsInv'
<1>1. selected \notin inflight
  BY DEF StartRead, ReadGuard
<1>2. CASE selected \in Weak
  <2>1. Ask("weak", selected, then)
    BY <1>2 DEF StartRead
  <2>2. confirm'.mac = selected /\ UNCHANGED <<calls, inflight>>
    BY <2>1 DEF Ask
  <2> QED BY <1>1, <2>2 DEF ReadsInv
<1>3. CASE selected \notin Weak
  BY <1>1, <1>3, Beginning DEF StartRead
<1> QED BY <1>2, <1>3

(* An answer to a call that is no read. *)
LEMMA Ending ==
  ASSUME ReadsInv, NEW i \in DOMAIN calls, calls[i].kind # "read", calls' = RemoveAt(calls, i),
         inflight' = inflight, SameQuestion
  PROVE  ReadsInv'
<1>1. ReadsFly(RemoveAt(calls, i), inflight)
  BY ReadsRemoved DEF ReadsInv
<1> QED BY <1>1 DEF ReadsInv, SameQuestion

(* A call goes on as another; a read lets go of its device. *)
LEMMA Turning ==
  ASSUME ReadsInv, NEW i \in DOMAIN calls, NEW c, IsCall(c), c.kind # "read",
         calls' = [calls EXCEPT ![i] = c], UNCHANGED confirm,
         \/ calls[i].kind # "read" /\ inflight' = inflight
         \/ calls[i].kind = "read" /\ inflight' = inflight \ {calls[i].mac}
  PROVE  ReadsInv'
<1>1. /\ calls[i].kind = "read" => inflight \ {calls[i].mac} \subseteq inflight'
      /\ calls[i].kind # "read" => inflight \subseteq inflight'
  OBVIOUS
<1>2. ReadsFly([calls EXCEPT ![i] = c], inflight')
  BY <1>1, ReadsTurned DEF ReadsInv
<1> QED BY <1>2 DEF ReadsInv

(* Which of these each action is: first the user's. *)
LEMMA UserKeeps ==
  ASSUME ReadsInv, User PROVE ReadsInv'
<1> USE DEF SameQuestion, NoConfirm
<1>1. CASE Scan
  BY <1>1, Issuing, ACall DEF Scan
<1>2. CASE Cancel
  BY <1>2, Staling DEF Cancel
<1>3. CASE Leave
  BY <1>3, Staling DEF Leave
<1>4. CASE Return
  BY <1>4, Quiet DEF Return
<1>5. CASE Connect
  BY <1>5, Starting DEF Connect
<1>6. CASE Retry
  BY <1>6, Starting DEF Retry
<1>7. CASE AcceptRead
  <2>1. CASE confirm.why = "weak" /\ confirm' = NoConfirm /\ BeginRead(confirm.mac, confirm.what)
    <3>1. confirm.mac \notin inflight
      BY <2>1 DEF ReadsInv
    <3> QED BY <2>1, <3>1, Beginning
  <2>2. CASE StartRead("history")
    BY <2>2, Starting
  <2> QED BY <1>7, <2>1, <2>2 DEF AcceptRead
<1>8. CASE Decline
  BY <1>8, Quiet DEF Decline
<1>9. CASE ShowServices
  BY <1>9, Sending, ACall DEF ShowServices
<1>10. CASE Back
  BY <1>10, Quiet DEF Back
<1>11. CASE Edit \/ CancelEdit \/ OpenCommands
  BY <1>11, Quiet DEF Edit, CancelEdit, OpenCommands, Turn
<1>12. CASE Save
  BY <1>12, Issuing, ACall DEF Save
<1>13. CASE AcceptCommand
  BY <1>13, Issuing, ACall DEF AcceptCommand, BeginCommand
<1>14. CASE Close
  <2>1. CASE lcd = Nobody
    BY <1>14, <2>1, Staling DEF Close
  <2>2. CASE lcd # Nobody
    BY <1>14, <2>2, Quiet DEF Close
  <2> QED BY <2>1, <2>2
<1>15. CASE Toggle
  BY <1>15, Quiet DEF Toggle
<1>16. ASSUME NEW m \in Macs, Select(m) PROVE ReadsInv'
  BY <1>16, Quiet DEF Select
<1>17. ASSUME NEW m \in Macs, Dot(m) PROVE ReadsInv'
  BY <1>17, Quiet DEF Dot
<1>18. ASSUME NEW m \in Macs, Rescan(m) PROVE ReadsInv'
  BY <1>18, Sending, ACall DEF Rescan
<1>19. ASSUME NEW m \in Macs, NEW c \in Used, Command(m, c) PROVE ReadsInv'
  <2>1. CASE Ask("command", m, c)
    BY <2>1, Quiet DEF Ask
  <2>2. CASE BeginCommand(m, c) /\ UNCHANGED confirm
    BY <2>2, Issuing, ACall DEF BeginCommand
  <2> QED BY <1>19, <2>1, <2>2 DEF Command
<1>20. ASSUME NEW clear \in BOOLEAN, AnswerLcd(clear) PROVE ReadsInv'
  <2>1. CASE clear
    BY <1>20, <2>1, Issuing, ACall DEF AnswerLcd
  <2>2. CASE ~clear
    BY <1>20, <2>2, Staling DEF AnswerLcd
  <2> QED BY <2>1, <2>2
<1>21. ASSUME NEW l \in Lists, NEW m \in Macs \union {Nobody}, OpenList(l, m) PROVE ReadsInv'
  BY <1>21, Sending, ACall DEF OpenList
<1> QED
  BY <1>1, <1>2, <1>3, <1>4, <1>5, <1>6, <1>7, <1>8, <1>9, <1>10, <1>11, <1>12, <1>13, <1>14,
     <1>15, <1>16, <1>17, <1>18, <1>19, <1>20, <1>21, Zenon DEF User

(* Then the answers: all but four only end their call. *)
LEMMA AnswersKeep ==
  ASSUME ReadsInv, NEW i \in DOMAIN calls, Answer(i) PROVE ReadsInv'
<1> USE DEF SameQuestion, Answering
<1>0. PICK S : calls \in Seq(S) /\ \A c \in S : IsCall(c)
  BY DEF ReadsInv, ReadsFly, IsCalls
<1>1. CASE ScanAnswered(i) \/ ScanFailed(i) \/ IndexAnswered(i)
  BY <1>1, Ending DEF ScanAnswered, ScanFailed, IndexAnswered
<1>2. CASE ReadThenHistory(i)
  <2> DEFINE c == [calls[i] EXCEPT !.kind = "load", !.what = "snapshots"]
  <2>1. calls' = [calls EXCEPT ![i] = c]
    BY <1>0, <1>2 DEF ReadThenHistory
  <2>2. IsCall(c) /\ c.kind # "read"
    BY <1>0 DEF IsCall
  <2>3. calls[i].kind = "read" /\ inflight' = inflight \ {calls[i].mac} /\ UNCHANGED confirm
    BY <1>2 DEF ReadThenHistory, Release
  <2> HIDE DEF c
  <2> QED BY <2>1, <2>2, <2>3, Turning
<1>3. CASE WriteAnswered(i)
  BY <1>3, Ending DEF WriteAnswered
<1>4. CASE SettingTaken(i) \/ LcdAnswered(i) \/ CommandEnds(i)
  BY <1>4, Ending DEF SettingTaken, LcdAnswered, LcdDone, CommandEnds, Ends
<1>5. CASE Restored(i)
  <2> DEFINE q == RemoveAt(calls, i)
             c == Call("reread", calls[i].mac, "none")
  <2>1. calls[i].kind # "read" /\ inflight' = inflight /\ UNCHANGED confirm
    BY <1>5 DEF Restored
  <2>2. ReadsFly(q, inflight)
    BY <2>1, ReadsRemoved DEF ReadsInv
  <2>3. IsCall(c) /\ c.kind # "read"
    BY ACall
  <2>4. calls' = q \/ calls' = Append(q, c)
    BY <1>5 DEF Restored
  <2> HIDE DEF q, c
  <2>5. ReadsFly(Append(q, c), inflight)
    BY <2>2, <2>3, ReadsAppend
  <2> QED BY <2>1, <2>2, <2>4, <2>5 DEF ReadsInv
<1>6. ASSUME NEW found \in SUBSET Macs, ScanShown(i, found) PROVE ReadsInv'
  <2> DEFINE c == [calls[i] EXCEPT !.kind = "index"]
  <2>1. calls' = [calls EXCEPT ![i] = c]
    BY <1>0, <1>6 DEF ScanShown
  <2>2. IsCall(c) /\ c.kind # "read"
    BY <1>0 DEF IsCall
  <2>3. calls[i].kind # "read" /\ inflight' = inflight /\ UNCHANGED confirm
    BY <1>6 DEF ScanShown
  <2> HIDE DEF c
  <2> QED BY <2>1, <2>2, <2>3, Turning
<1>7. ASSUME NEW ok \in BOOLEAN, ReadAnswered(i, ok) PROVE ReadsInv'
  <2>1. /\ calls[i].kind = "read" /\ calls' = RemoveAt(calls, i)
        /\ inflight' = inflight \ {calls[i].mac} /\ UNCHANGED confirm
    BY <1>7 DEF ReadAnswered, Release
  <2>2. ReadsFly(RemoveAt(calls, i), inflight \ {calls[i].mac})
    BY <2>1, ReadsRemoved DEF ReadsInv
  <2> QED BY <2>1, <2>2 DEF ReadsInv
<1>8. ASSUME NEW ok \in BOOLEAN, ServicesAnswered(i, ok) \/ WriteFailed(i, ok) PROVE ReadsInv'
  BY <1>8, Ending DEF ServicesAnswered, WriteFailed
<1>9. ASSUME NEW ok \in BOOLEAN, RepeaterAnswered(i, ok) \/ LcdCleared(i, ok) PROVE ReadsInv'
  BY <1>9, Ending DEF RepeaterAnswered, Ends, LcdCleared
<1>10. ASSUME NEW ok \in BOOLEAN,
              LoadAnswered(i, ok) \/ RescanAnswered(i, ok) \/ RereadAnswered(i, ok)
       PROVE  ReadsInv'
  BY <1>10, Ending DEF LoadAnswered, RescanAnswered, RereadAnswered
<1> QED
  BY <1>1, <1>2, <1>3, <1>4, <1>5, <1>6, <1>7, <1>8, <1>9, <1>10, Zenon DEF Answer

-----------------------------------------------------------------------------
LEMMA ReadsInvInit == Init => ReadsInv
<1> SUFFICES ASSUME Init PROVE ReadsInv
  OBVIOUS
<1> DEFINE c == Call("scan", Nobody, "none")
<1>1. IsCall(c) /\ c.kind # "read"
  BY ACall
<1>2. calls = <<c>> /\ confirm.why # "weak"
  BY DEF Init, NoConfirm
<1> HIDE DEF c
<1>3. calls \in Seq({c}) /\ \A e \in {c} : IsCall(e)
  BY <1>1, <1>2
<1>4. \A i \in DOMAIN calls : calls[i].kind # "read"
  BY <1>1, <1>2
<1>5. IsCalls(calls)
  BY <1>3 DEF IsCalls
<1>6. ReadsFly(calls, inflight)
  BY <1>4, <1>5 DEF ReadsFly
<1> QED BY <1>2, <1>6 DEF ReadsInv

LEMMA ReadsInvStep == ReadsInv /\ [Next]_vars => ReadsInv'
<1> SUFFICES ASSUME ReadsInv, [Next]_vars PROVE ReadsInv'
  OBVIOUS
<1>1. CASE User
  BY <1>1, UserKeeps
<1>2. CASE \E i \in DOMAIN calls : Answer(i)
  BY <1>2, AnswersKeep
<1>3. CASE \E kept \in BOOLEAN : SaveAnswered(kept)
  BY <1>3, Quiet DEF SaveAnswered, SameQuestion
<1>4. CASE \E active \in BOOLEAN : Poll(active)
  BY <1>4, Quiet DEF Poll, SameQuestion
<1>5. CASE UNCHANGED vars
  BY <1>5, Quiet DEF vars, SameQuestion
<1> QED BY <1>1, <1>2, <1>3, <1>4, <1>5 DEF Next

(* A device is never read for Connect twice at a time by one panel, with any *)
(* devices and any number of calls (_readSelected, _inflightMacs): whatever  *)
(* is cancelled, closed or left while the read of it goes on in Home         *)
(* Assistant, the device is let go of only by the answer to that read.       *)
THEOREM OneConnectCorrect == Spec => []OneConnect
<1>1. ReadsInv => OneConnect
  BY DEF ReadsInv, ReadsFly, OneConnect
<1> QED BY <1>1, ReadsInvInit, ReadsInvStep, PTL DEF Spec

-----------------------------------------------------------------------------
(* Types.  A call that connects has a device, a dialog of a device shows one, *)
(* and a question is about one.                                               *)
GoodCall(c) ==
  /\ c.kind \in {"read", "services", "write", "command", "clear_lcd", "rescan", "reread"}
       => c.mac \in Macs
  /\ c.kind = "read" => c.what \in {"view", "history"}
  /\ c.kind = "command" => c.what \in Commands
  /\ c.kind = "load" => c.what \in Listings
GoodCalls == {c \in Calls : GoodCall(c)}

OfDevice == {"loading", "error", "view", "edit", "commands", "services"}

Toolbars == [busy : BOOLEAN, scan : BOOLEAN, connect : BOOLEAN, cancel : BOOLEAN]
BudgetTyped ==
  /\ budget \in [calls : 0..MaxMade, moves : 0..MaxMoves, jobs : 0..MaxJobs]
  /\ bulk => budget.jobs > 0

CallsTyped == calls \in Seq(GoodCalls) /\ Len(calls) <= MaxCalls
PageTyped ==
  /\ attached \in BOOLEAN /\ bulk \in BOOLEAN /\ locked \in BOOLEAN /\ expanded \in BOOLEAN
  /\ listed \subseteq Macs /\ selected \in Macs \union {Nobody}
  /\ top \in Toolbars
  /\ lcd \in Macs \union {Nobody}
  /\ inflight \subseteq Macs
  /\ unheard \subseteq Macs /\ mixed \in BOOLEAN
  /\ BudgetTyped
DialogTyped ==
  /\ dialog \in Screens
  /\ dialog.body \in OfDevice => dialog.mac \in Macs
  /\ dialog.body = "none" => dialog = NoDialog
ConfirmTyped ==
  /\ confirm \in [why : {"none", "weak", "dot", "lcd", "command"}, mac : Macs \union {Nobody},
                  what : {"none", "view", "history"} \union Commands]
  /\ confirm.why \in {"weak", "command", "lcd"} => confirm.mac \in Macs
  /\ confirm.why = "command" => confirm.what \in Commands
  /\ confirm.why = "weak" => confirm.what \in {"view", "history"}
ScreenTyped == DialogTyped /\ ConfirmTyped
Reports == [version : 0..MaxVersion, lost : BOOLEAN]
DataTyped ==
  /\ loaded \in Fields
  /\ saves \in Seq([mac : Macs, fields : Fields])
  /\ device \in [Macs -> [version : 0..MaxVersion, lcd : BOOLEAN]]
  /\ store \in [Macs -> Fields]
  /\ acked \in [Macs -> Reports]
Typed == CallsTyped /\ PageTyped /\ ScreenTyped /\ DataTyped

(* Typed is PanelTypeOK, and what it needs to be kept. *)
LEMMA TypedIsTyped == Typed => PanelTypeOK
<1>1. GoodCalls \subseteq Calls
  BY DEF GoodCalls
<1>2. CallsTyped => calls \in Seq(Calls)
  BY <1>1 DEF CallsTyped
<1> QED
  BY <1>2 DEF Typed, CallsTyped, PageTyped, ScreenTyped, DialogTyped, ConfirmTyped,
     DataTyped, Reports, PanelTypeOK, Toolbars, BudgetTyped

(* What is in a sequence of calls, in whatever order.                         *)
Elems(s) == {s[i] : i \in DOMAIN s}

(* The calls made stale: the same kinds and devices. *)
LEMMA CallsStaled ==
  ASSUME CallsTyped
  PROVE  /\ Staled \in Seq(GoodCalls) /\ Len(Staled) = Len(calls)
         /\ \A c \in Elems(Staled) : ~c.live
         /\ \A c \in Elems(Staled) : \E d \in Elems(calls) : c.kind = d.kind /\ c.mac = d.mac
         /\ \A d \in Elems(calls) : \E c \in Elems(Staled) : c.kind = d.kind /\ c.mac = d.mac
<1>1. /\ DOMAIN Staled = DOMAIN calls
      /\ \A i \in DOMAIN calls : Staled[i] = [calls[i] EXCEPT !.live = FALSE]
  BY DEF Staled
<1>2. \A c \in GoodCalls : /\ [c EXCEPT !.live = FALSE] \in GoodCalls
                           /\ ~[c EXCEPT !.live = FALSE].live
                           /\ [c EXCEPT !.live = FALSE].kind = c.kind
                           /\ [c EXCEPT !.live = FALSE].mac = c.mac
  BY DEF GoodCalls, Calls, GoodCall
<1>3. \A i \in DOMAIN calls : calls[i] \in GoodCalls
  BY DEF CallsTyped
<1>4. \A i \in DOMAIN calls : Staled[i] \in GoodCalls /\ ~Staled[i].live
        /\ Staled[i].kind = calls[i].kind /\ Staled[i].mac = calls[i].mac
  BY <1>1, <1>2, <1>3
<1>5. Staled \in Seq(GoodCalls) /\ Len(Staled) = Len(calls)
  BY <1>1, <1>4 DEF CallsTyped, Staled
<1> QED BY <1>1, <1>4, <1>5 DEF Elems

(* One call more. *)
LEMMA CallsAppended ==
  ASSUME NEW s \in Seq(GoodCalls), NEW c \in GoodCalls
  PROVE  /\ Append(s, c) \in Seq(GoodCalls) /\ Len(Append(s, c)) = Len(s) + 1
         /\ Elems(Append(s, c)) = Elems(s) \union {c}
<1>1. /\ DOMAIN s = 1..Len(s) /\ Len(s) \in Nat
      /\ Append(s, c) \in Seq(GoodCalls) /\ Len(Append(s, c)) = Len(s) + 1
      /\ DOMAIN Append(s, c) = 1..(Len(s) + 1)
      /\ \A i \in 1..Len(s) : Append(s, c)[i] = s[i]
      /\ Append(s, c)[Len(s) + 1] = c
  OBVIOUS
<1> QED BY <1>1 DEF Elems

(* One call less: the others are all still there. *)
LEMMA CallsRemoved ==
  ASSUME NEW s \in Seq(GoodCalls), NEW i \in DOMAIN s
  PROVE  /\ RemoveAt(s, i) \in Seq(GoodCalls) /\ Len(RemoveAt(s, i)) = Len(s) - 1
         /\ Elems(RemoveAt(s, i)) \subseteq Elems(s)
         /\ Elems(s) \subseteq Elems(RemoveAt(s, i)) \union {s[i]}
<1> DEFINE q == RemoveAt(s, i)
<1>1. /\ i \in 1..Len(s) /\ Len(s) \in Nat /\ DOMAIN s = 1..Len(s)
      /\ q \in Seq(GoodCalls) /\ Len(q) = Len(s) - 1 /\ DOMAIN q = 1..(Len(s) - 1)
      /\ \A j \in 1..(Len(s) - 1) : q[j] = IF j < i THEN s[j] ELSE s[j + 1]
  BY RemovedFrom
<1> HIDE DEF q
<1>9. \A j \in DOMAIN q : q[j] \in Elems(s)
  <2> TAKE j \in DOMAIN q
  <2>1. (IF j < i THEN j ELSE j + 1) \in DOMAIN s
    BY <1>1
  <2> QED BY <1>1, <2>1 DEF Elems
<1>10. ASSUME NEW k \in DOMAIN s, k # i PROVE s[k] \in Elems(q)
  <2>1. CASE k < i
    <3>1. k \in 1..(Len(s) - 1)
      BY <1>1, <2>1
    <3> QED BY <1>1, <2>1, <3>1 DEF Elems
  <2>2. CASE k > i
    <3>1. k - 1 \in 1..(Len(s) - 1) /\ ~(k - 1 < i) /\ (k - 1) + 1 = k
      BY <1>1, <2>2
    <3> QED BY <1>1, <3>1 DEF Elems
  <2> QED BY <1>1, <1>10, <2>1, <2>2
<1>11. Elems(q) \subseteq Elems(s)
  BY <1>9 DEF Elems
<1>12. Elems(s) \subseteq Elems(q) \union {s[i]}
  BY <1>10 DEF Elems
<1> QED BY <1>1, <1>11, <1>12 DEF q

(* One call in the place of another. *)
LEMMA CallsTurned ==
  ASSUME NEW s \in Seq(GoodCalls), NEW i \in DOMAIN s, NEW c \in GoodCalls
  PROVE  /\ [s EXCEPT ![i] = c] \in Seq(GoodCalls) /\ Len([s EXCEPT ![i] = c]) = Len(s)
         /\ Elems([s EXCEPT ![i] = c]) \subseteq Elems(s) \union {c}
         /\ c \in Elems([s EXCEPT ![i] = c])
         /\ Elems(s) \subseteq Elems([s EXCEPT ![i] = c]) \union {s[i]}
<1> DEFINE q == [s EXCEPT ![i] = c]
<1>1. DOMAIN q = DOMAIN s /\ q[i] = c /\ \A j \in DOMAIN s : j # i => q[j] = s[j]
  OBVIOUS
<1>2. q \in Seq(GoodCalls) /\ Len(q) = Len(s)
  OBVIOUS
<1> HIDE DEF q
<1>3. Elems(q) \subseteq Elems(s) \union {c}
  BY <1>1 DEF Elems
<1>4. c \in Elems(q)
  BY <1>1 DEF Elems
<1>5. Elems(s) \subseteq Elems(q) \union {s[i]}
  BY <1>1 DEF Elems
<1> QED BY <1>2, <1>3, <1>4, <1>5 DEF q

-----------------------------------------------------------------------------
(* What an action does to the calls, and to the bound on them.                *)
LEMMA BoundsTyped ==
  /\ MaxCalls \in Nat /\ MaxMade \in Nat /\ MaxVersion \in Nat /\ MaxMoves \in Nat /\ MaxJobs \in Nat
  /\ MaxCalls >= 1
BY PanelAssumption

(* A call is paid for from the budget, and so is a move, and a job. *)
LEMMA MadeTyped ==
  ASSUME BudgetTyped, Made, UNCHANGED bulk
  PROVE  BudgetTyped'
<1>1. budget.calls - 1 \in 0..MaxMade /\ budget' = [budget EXCEPT !.calls = budget.calls - 1]
  BY BoundsTyped DEF BudgetTyped, Made
<1> QED BY <1>1 DEF BudgetTyped

LEMMA SameBudget == ASSUME BudgetTyped, UNCHANGED <<budget, bulk>> PROVE BudgetTyped'
BY DEF BudgetTyped

LEMMA SpentTyped ==
  ASSUME BudgetTyped,
         \/ budget.moves > 0 /\ budget' = [budget EXCEPT !.moves = @ - 1] /\ UNCHANGED bulk
         \/ bulk /\ ~bulk' /\ budget' = [budget EXCEPT !.jobs = @ - 1]
  PROVE  BudgetTyped'
<1>1. /\ budget.moves > 0 => budget.moves - 1 \in 0..MaxMoves
      /\ budget.jobs > 0 => budget.jobs - 1 \in 0..MaxJobs
  BY BoundsTyped DEF BudgetTyped
<1> QED BY <1>1 DEF BudgetTyped

(* A call is made within the bound; the sequence stays typed. *)
LEMMA IssueTyped ==
  ASSUME CallsTyped, NEW c \in GoodCalls, Issue(c) \/ Send(c)
  PROVE  CallsTyped'
<1>1. Staled \in Seq(GoodCalls) /\ Len(Staled) = Len(calls)
  BY CallsStaled
<1>2. calls \in Seq(GoodCalls) /\ Len(calls) \in Nat /\ Len(calls) < MaxCalls
  BY DEF CallsTyped, Issue, Send, Made
<1>3. calls' = Append(Staled, c) \/ calls' = Append(calls, c)
  BY DEF Issue, Send
<1>4. calls' \in Seq(GoodCalls) /\ Len(calls') = Len(calls) + 1
  BY <1>1, <1>2, <1>3, CallsAppended
<1> QED BY <1>2, <1>4, BoundsTyped DEF CallsTyped

LEMMA StaleTyped ==
  ASSUME CallsTyped, calls' = Staled
  PROVE  CallsTyped'
BY CallsStaled DEF CallsTyped

LEMMA EndedTyped ==
  ASSUME CallsTyped, NEW i \in DOMAIN calls, calls' = RemoveAt(calls, i)
  PROVE  CallsTyped'
<1>1. calls' \in Seq(GoodCalls) /\ Len(calls') = Len(calls) - 1 /\ Len(calls) \in Nat
  BY CallsRemoved DEF CallsTyped
<1> QED BY <1>1, BoundsTyped DEF CallsTyped

(* Which calls are made: one for a device has a device.                       *)
LEMMA ACallIsGood ==
  /\ \A m \in Macs \union {Nobody} : Call("scan", m, "none") \in GoodCalls
  /\ \A m \in Macs : \A k \in {"services", "write", "clear_lcd", "rescan", "reread"} :
       Call(k, m, "none") \in GoodCalls
  /\ \A m \in Macs, what \in {"view", "history"} : Call("read", m, what) \in GoodCalls
  /\ \A m \in Macs, c \in Commands : Call("command", m, c) \in GoodCalls
  /\ \A m \in Macs \union {Nobody}, l \in Lists : Call("load", m, l) \in GoodCalls
BY PanelAssumption DEF GoodCalls, GoodCall, Calls, Call, Kinds, Listings

(* The toolbar.                                                               *)
LEMMA ToolbarTyped ==
  /\ \A f : EndOp(f) \in Toolbars
  /\ \A b \in BOOLEAN : BeginOp(b) \in Toolbars
  /\ \A t \in Toolbars : \A b \in BOOLEAN :
       [t EXCEPT !.connect = b] \in Toolbars /\ [t EXCEPT !.busy = b] \in Toolbars
  /\ \A m, f : Connectable(m, f) \in BOOLEAN
BY DEF EndOp, BeginOp, Toolbars, Connectable

(* The dialogs.                                                               *)
LEMMA ShownTyped ==
  ASSUME NEW b \in Bodies, NEW m \in Macs \union {Nobody}
  PROVE  /\ Shown(b, m) \in Screens
         /\ Shown(b, m).body = b /\ Shown(b, m).mac = m /\ Shown(b, m).title = m
BY DEF Shown, Screens

LEMMA NoDialogTyped ==
  /\ NoDialog \in Screens /\ NoDialog.body = "none"
  /\ NoDialog.mac = Nobody /\ NoDialog.title = Nobody
BY ShownTyped DEF NoDialog, Bodies

(* A dialog with another body, of the same or of another device. *)
LEMMA BodyTyped ==
  ASSUME NEW d \in Screens, NEW b \in Bodies
  PROVE  /\ [d EXCEPT !.body = b] \in Screens
         /\ [d EXCEPT !.body = b].body = b /\ [d EXCEPT !.body = b].mac = d.mac
         /\ [d EXCEPT !.body = b].title = d.title
BY DEF Screens

LEMMA BodyOfTyped ==
  ASSUME NEW d \in Screens, NEW b \in Bodies, NEW m \in Macs \union {Nobody}
  PROVE  /\ [d EXCEPT !.body = b, !.mac = m] \in Screens
         /\ [d EXCEPT !.body = b, !.mac = m].body = b /\ [d EXCEPT !.body = b, !.mac = m].mac = m
         /\ [d EXCEPT !.body = b, !.mac = m].title = d.title
BY DEF Screens

(* Every body a dialog has is one of these.  *)
LEMMA BodiesTyped == OfDevice \union Listings \union {"none", "waiting", "results"} = Bodies
BY DEF OfDevice, Bodies

(* The version of a device grows within its bound.                            *)
LEMMA VersionTyped ==
  ASSUME DataTyped, NEW m \in Macs
  PROVE  /\ \A f \in Reads(m) : f \in Fields /\ f.of = m /\ f.version = device[m].version
         /\ Grows(m) => /\ device' \in [Macs -> [version : 0..MaxVersion, lcd : BOOLEAN]]
                        /\ device'[m].version = device[m].version + 1
                        /\ \A n \in Macs : n # m => device'[n] = device[n]
                        /\ \A n \in Macs : device'[n].lcd = device[n].lcd
         /\ NoFields \in Fields
         /\ \A v \in 0..MaxVersion :
              /\ \A raw \in BOOLEAN : [of |-> m, version |-> v, raw |-> raw] \in Fields
              /\ [loaded EXCEPT !.version = v] \in Fields
              /\ [loaded EXCEPT !.version = v].of = loaded.of
              /\ [loaded EXCEPT !.version = v].version = v
<1>1. /\ device \in [Macs -> [version : 0..MaxVersion, lcd : BOOLEAN]]
      /\ device[m].version \in 0..MaxVersion /\ device[m].lcd \in BOOLEAN /\ loaded \in Fields
  BY DEF DataTyped
<1>2. ASSUME Grows(m)
      PROVE  /\ device' \in [Macs -> [version : 0..MaxVersion, lcd : BOOLEAN]]
             /\ device'[m].version = device[m].version + 1
             /\ \A n \in Macs : n # m => device'[n] = device[n]
             /\ \A n \in Macs : device'[n].lcd = device[n].lcd
  <2> DEFINE v == device[m].version + 1
  <2>1. v \in 0..MaxVersion
    BY <1>1, <1>2, BoundsTyped DEF Grows
  <2>2. device' = [device EXCEPT ![m] = [device[m] EXCEPT !.version = v]]
    BY <1>1, <1>2 DEF Grows, Grown
  <2> HIDE DEF v
  <2>3. /\ [device[m] EXCEPT !.version = v] \in [version : 0..MaxVersion, lcd : BOOLEAN]
        /\ [device[m] EXCEPT !.version = v].version = v
        /\ [device[m] EXCEPT !.version = v].lcd = device[m].lcd
    BY <1>1, <2>1
  <2> QED BY <1>1, <2>2, <2>3 DEF v
<1>3. NoFields \in Fields
  BY BoundsTyped DEF NoFields, Fields
<1>4. \A f \in Reads(m) : f \in Fields /\ f.of = m /\ f.version = device[m].version
  <2> SUFFICES ASSUME NEW raw \in BOOLEAN
               PROVE  LET f == [of |-> m, version |-> device[m].version, raw |-> raw]
                      IN  f \in Fields /\ f.of = m /\ f.version = device[m].version
    BY DEF Reads, Raws
  <2> QED BY <1>1 DEF Fields
<1>5. \A v \in 0..MaxVersion :
              /\ \A raw \in BOOLEAN : [of |-> m, version |-> v, raw |-> raw] \in Fields
              /\ [loaded EXCEPT !.version = v] \in Fields
              /\ [loaded EXCEPT !.version = v].of = loaded.of
              /\ [loaded EXCEPT !.version = v].version = v
  BY <1>1 DEF Fields
<1> QED BY <1>2, <1>3, <1>4, <1>5

(* A read is stored, or for want of the bytes a snapshot needs it is not. *)
LEMMA ReadSaved ==
  ASSUME DataTyped, NEW m \in Macs, NEW f \in Reads(m)
  PROVE  /\ f \in Fields /\ f.of = m /\ f.version = device[m].version
         /\ Saved(f) = store \/ Saved(f) = [store EXCEPT ![m] = f]
         /\ Saved(f) \in [Macs -> Fields]
<1>1. f \in Fields /\ f.of = m /\ f.version = device[m].version
  BY VersionTyped
<1>2. Saved(f) = store \/ Saved(f) = [store EXCEPT ![m] = f]
  BY <1>1 DEF Saved
<1> HIDE DEF Saved
<1> QED BY <1>1, <1>2 DEF DataTyped

-----------------------------------------------------------------------------
(* The calls stay well made.  A call whose answer changes what a dialog shows, *)
(* as long as it is wanted, takes a token.                                     *)
IsWanted(c) == c.live /\ c.kind \in {"read", "write", "command"}
CallsEffect ==
  \/ UNCHANGED calls
  \/ calls' = Staled
  \/ \E c \in GoodCalls : Issue(c)
  \/ \E c \in GoodCalls : Send(c) /\ ~IsWanted(c)

(* No answer to one of these is ever waited for. *)
LEMMA ACallIsUnwanted ==
  \A k \in {"scan", "services", "clear_lcd", "rescan", "reread", "load"} :
    \A m, what : ~IsWanted(Call(k, m, what))
BY DEF IsWanted, Call

LEMMA SameCalls == ASSUME CallsTyped, UNCHANGED calls PROVE CallsTyped'
BY DEF CallsTyped

(* _readSelected asks, or begins to read a device that is selected. *)
LEMMA StartReadIsGood ==
  ASSUME Typed, NEW then \in {"view", "history"}, StartRead(then)
  PROVE  /\ selected \in Macs
         /\ \/ Ask("weak", selected, then)
            \/ /\ confirm' = NoConfirm /\ BeginRead(selected, then)
               /\ Issue(Call("read", selected, then))
BY DEF StartRead, ReadGuard, Typed, PageTyped, BeginRead

LEMMA StartReadCalls ==
  ASSUME Typed, NEW then \in {"view", "history"}, StartRead(then)
  PROVE  CallsEffect
<1>1. selected \in Macs => Call("read", selected, then) \in GoodCalls
  BY ACallIsGood
<1> QED BY <1>1, StartReadIsGood DEF Ask, CallsEffect

LEMMA OfferedIsGood ==
  ASSUME Typed, NEW m \in Macs, NEW c \in Used, Command(m, c)
  PROVE  c \in Commands
BY PanelAssumption DEF Commands, Changing

(* What the user's steps do to the calls, one by one. *)
LEMMA UserEffect == ASSUME Typed, User PROVE CallsEffect
<1> USE DEF Typed, CallsEffect
<1>1. CASE Scan
  <2>1. Call("scan", Nobody, "none") \in GoodCalls
    BY ACallIsGood
  <2> QED BY <1>1, <2>1 DEF Scan
<1>2. CASE Cancel \/ Leave
  BY <1>2 DEF Cancel, Leave
<1>3. CASE Return \/ Decline \/ Back \/ Toggle
  BY <1>3 DEF Return, Decline, Back, Toggle
<1>4. CASE Connect \/ Retry
  BY <1>4, StartReadCalls DEF Connect, Retry
<1>5. CASE AcceptRead
  <2>1. CASE confirm.why = "weak" /\ confirm' = NoConfirm /\ BeginRead(confirm.mac, confirm.what)
    <3>1. Call("read", confirm.mac, confirm.what) \in GoodCalls
      BY <2>1, ACallIsGood DEF ScreenTyped, DialogTyped, ConfirmTyped
    <3> QED BY <2>1, <3>1 DEF BeginRead
  <2>2. CASE StartRead("history")
    BY <2>2, StartReadCalls
  <2> QED BY <1>5, <2>1, <2>2 DEF AcceptRead
<1>6. CASE ShowServices
  <2>1. dialog.mac \in Macs
    BY <1>6 DEF ShowServices, In, ScreenTyped, DialogTyped, OfDevice
  <2>2. Call("services", dialog.mac, "none") \in GoodCalls
        /\ ~IsWanted(Call("services", dialog.mac, "none"))
    BY <2>1, ACallIsGood, ACallIsUnwanted
  <2> QED BY <1>6, <2>2 DEF ShowServices
<1>7. CASE Edit \/ CancelEdit \/ OpenCommands
  BY <1>7 DEF Edit, CancelEdit, OpenCommands, Turn
<1>8. CASE Save
  <2>1. dialog.mac \in Macs
    BY <1>8 DEF Save, In, ScreenTyped, DialogTyped, OfDevice
  <2>2. Call("write", dialog.mac, "none") \in GoodCalls
    BY <2>1, ACallIsGood
  <2> QED BY <1>8, <2>2 DEF Save
<1>9. CASE AcceptCommand
  <2>1. Call("command", confirm.mac, confirm.what) \in GoodCalls
    BY <1>9, ACallIsGood DEF AcceptCommand, ScreenTyped, DialogTyped, ConfirmTyped
  <2> QED BY <1>9, <2>1 DEF AcceptCommand, BeginCommand
<1>10. CASE Close
  BY <1>10 DEF Close
<1>11. ASSUME NEW m \in Macs, Select(m) \/ Dot(m) PROVE CallsEffect
  BY <1>11 DEF Select, Dot
<1>12. ASSUME NEW m \in Macs, Rescan(m) PROVE CallsEffect
  <2>1. Call("rescan", m, "none") \in GoodCalls /\ ~IsWanted(Call("rescan", m, "none"))
    BY ACallIsGood, ACallIsUnwanted
  <2> QED BY <1>12, <2>1 DEF Rescan
<1>13. ASSUME NEW m \in Macs, NEW c \in Used, Command(m, c) PROVE CallsEffect
  <2>1. Call("command", m, c) \in GoodCalls
    BY <1>13, OfferedIsGood, ACallIsGood
  <2> QED BY <1>13, <2>1 DEF Command, Ask, BeginCommand
<1>14. ASSUME NEW clear \in BOOLEAN, AnswerLcd(clear) PROVE CallsEffect
  <2>1. Call("clear_lcd", confirm.mac, "none") \in GoodCalls
    BY <1>14, ACallIsGood DEF AnswerLcd, ScreenTyped, DialogTyped, ConfirmTyped
  <2> QED BY <1>14, <2>1 DEF AnswerLcd
<1>15. ASSUME NEW l \in Lists, NEW m \in Macs \union {Nobody}, OpenList(l, m) PROVE CallsEffect
  <2>1. Call("load", m, l) \in GoodCalls /\ ~IsWanted(Call("load", m, l))
    BY ACallIsGood, ACallIsUnwanted
  <2> QED BY <1>15, <2>1 DEF OpenList
<1> QED
  BY <1>1, <1>2, <1>3, <1>4, <1>5, <1>6, <1>7, <1>8, <1>9, <1>10, <1>11, <1>12, <1>13, <1>14,
     <1>15, Zenon DEF User

LEMMA UserCalls == ASSUME Typed, User PROVE CallsTyped'
BY UserEffect, SameCalls, StaleTyped, IssueTyped DEF CallsEffect, Typed

(* An answer ends its call; three go on as another. *)
LEMMA TurnedTyped ==
  ASSUME CallsTyped, NEW i \in DOMAIN calls, NEW c \in GoodCalls,
         calls' = [calls EXCEPT ![i] = c]
  PROVE  CallsTyped'
BY CallsTurned DEF CallsTyped

(* What the answers do to the calls, one by one. *)
LEMMA AnswerEffect ==
  ASSUME CallsTyped, NEW i \in DOMAIN calls, Answer(i)
  PROVE  \/ calls' = RemoveAt(calls, i)
         \/ /\ calls[i].kind = "command" /\ calls[i].what = "restore"
            /\ calls' = Append(RemoveAt(calls, i), Call("reread", calls[i].mac, "none"))
         \/ \E c \in GoodCalls :
              /\ c.kind \in {"index", "load"} /\ calls[i].kind \in {"scan", "read"}
              /\ calls' = [calls EXCEPT ![i] = c]
<1>0. calls \in Seq(GoodCalls) /\ calls[i] \in GoodCalls
  BY DEF CallsTyped
<1> USE DEF Answering
<1>1. CASE ReadThenHistory(i)
  <2> DEFINE c == [calls[i] EXCEPT !.kind = "load", !.what = "snapshots"]
  <2>0. /\ calls' = [calls EXCEPT ![i].kind = "load", ![i].what = "snapshots"]
        /\ calls[i].kind = "read"
    BY <1>1 DEF ReadThenHistory
  <2>1. calls' = [calls EXCEPT ![i] = c]
    BY <1>0, <2>0
  <2>2. c \in GoodCalls /\ c.kind = "load"
    BY <1>0 DEF GoodCalls, GoodCall, Calls, Kinds, Listings
  <2> HIDE DEF c
  <2> QED BY <2>0, <2>1, <2>2
<1>2. ASSUME NEW found \in SUBSET Macs, ScanShown(i, found)
      PROVE  \E c \in GoodCalls :
              /\ c.kind \in {"index", "load"} /\ calls[i].kind \in {"scan", "read"}
              /\ calls' = [calls EXCEPT ![i] = c]
  <2> DEFINE c == [calls[i] EXCEPT !.kind = "index"]
  <2>1. calls' = [calls EXCEPT ![i] = c] /\ calls[i].kind = "scan"
    BY <1>0, <1>2 DEF ScanShown, CallsTyped
  <2>2. c \in GoodCalls /\ c.kind = "index"
    BY <1>0 DEF GoodCalls, GoodCall, Calls, Kinds
  <2> HIDE DEF c
  <2> QED BY <2>1, <2>2
<1>3. CASE Restored(i)
  BY <1>3 DEF Restored
<1>4. CASE ScanAnswered(i) \/ ScanFailed(i) \/ IndexAnswered(i) \/ WriteAnswered(i)
  BY <1>4 DEF ScanAnswered, ScanFailed, IndexAnswered, WriteAnswered
<1>5. CASE SettingTaken(i) \/ LcdAnswered(i) \/ CommandEnds(i)
  BY <1>5 DEF SettingTaken, LcdAnswered, LcdDone, CommandEnds, Ends
<1>6. ASSUME NEW ok \in BOOLEAN, ReadAnswered(i, ok) \/ ServicesAnswered(i, ok) \/ WriteFailed(i, ok)
      PROVE  calls' = RemoveAt(calls, i)
  BY <1>6 DEF ReadAnswered, ServicesAnswered, WriteFailed
<1>7. ASSUME NEW ok \in BOOLEAN, RepeaterAnswered(i, ok) \/ LcdCleared(i, ok)
      PROVE  calls' = RemoveAt(calls, i)
  BY <1>7 DEF RepeaterAnswered, Ends, LcdCleared
<1>8. ASSUME NEW ok \in BOOLEAN,
             LoadAnswered(i, ok) \/ RescanAnswered(i, ok) \/ RereadAnswered(i, ok)
      PROVE  calls' = RemoveAt(calls, i)
  BY <1>8 DEF LoadAnswered, RescanAnswered, RereadAnswered
<1> QED
  BY <1>1, <1>2, <1>3, <1>4, <1>5, <1>6, <1>7, <1>8, Zenon DEF Answer

LEMMA AnswerCalls ==
  ASSUME CallsTyped, NEW i \in DOMAIN calls, Answer(i) PROVE CallsTyped'
<1>0. calls \in Seq(GoodCalls) /\ calls[i] \in GoodCalls /\ Len(calls) \in Nat /\ Len(calls) <= MaxCalls
  BY DEF CallsTyped
<1>1. CASE calls' = RemoveAt(calls, i)
  BY <1>1, EndedTyped
<1>2. CASE /\ calls[i].kind = "command"
           /\ calls' = Append(RemoveAt(calls, i), Call("reread", calls[i].mac, "none"))
  <2>1. Call("reread", calls[i].mac, "none") \in GoodCalls
    BY <1>0, <1>2, ACallIsGood DEF GoodCalls, GoodCall
  <2>2. RemoveAt(calls, i) \in Seq(GoodCalls) /\ Len(RemoveAt(calls, i)) = Len(calls) - 1
    BY <1>0, CallsRemoved
  <2>3. calls' \in Seq(GoodCalls) /\ Len(calls') = (Len(calls) - 1) + 1
    BY <1>2, <2>1, <2>2, CallsAppended
  <2> QED BY <1>0, <2>3 DEF CallsTyped
<1> QED BY <1>1, <1>2, AnswerEffect, TurnedTyped, Zenon

LEMMA CallsStep == ASSUME Typed, [Next]_vars PROVE CallsTyped'
<1> USE DEF Typed
<1>1. CASE User
  BY <1>1, UserCalls
<1>2. CASE \E i \in DOMAIN calls : Answer(i)
  BY <1>2, AnswerCalls
<1>3. CASE \E kept \in BOOLEAN : SaveAnswered(kept)
  BY <1>3, SameCalls DEF SaveAnswered
<1>4. CASE \E active \in BOOLEAN : Poll(active)
  BY <1>4, SameCalls DEF Poll
<1>5. CASE UNCHANGED vars
  BY <1>5, SameCalls DEF vars
<1> QED BY <1>1, <1>2, <1>3, <1>4, <1>5 DEF Next

-----------------------------------------------------------------------------
(* The page, its toolbar and the counters stay typed. *)
LEMMA BeginReadPage ==
  ASSUME PageTyped, NEW m \in Macs, NEW then, BeginRead(m, then), UNCHANGED <<unheard, mixed>>
  PROVE  PageTyped'
BY MadeTyped, ToolbarTyped DEF BeginRead, Issue, PageTyped, table

(* A step that leaves the page as it is. *)
LEMMA SamePage ==
  ASSUME PageTyped,
         UNCHANGED <<attached, bulk, locked, expanded, listed, selected, top, lcd, inflight,
                     unheard, mixed, budget>>
  PROVE  PageTyped'
BY SameBudget DEF PageTyped

LEMMA StartReadPage ==
  ASSUME Typed, NEW then \in {"view", "history"}, StartRead(then)
  PROVE  PageTyped'
<1>1. CASE Ask("weak", selected, then)
  BY <1>1, SamePage DEF Ask, page, table, screen, history, Typed
<1>2. CASE BeginRead(selected, then)
  <2>1. UNCHANGED <<unheard, mixed>>
    BY <1>2 DEF BeginRead, history
  <2> QED BY <1>2, <2>1, StartReadIsGood, BeginReadPage DEF Typed
<1> QED BY <1>1, <1>2, StartReadIsGood

(* The user's steps keep the page typed. *)
LEMMA UserPage == ASSUME Typed, User PROVE PageTyped'
<1> USE DEF Typed, page, table, screen, history
<1>1. CASE Scan
  BY <1>1, MadeTyped, ToolbarTyped DEF Scan, Issue, PageTyped
<1>2. CASE Cancel
  BY <1>2, ToolbarTyped, SameBudget DEF Cancel, PageTyped
<1>3. CASE Leave
  BY <1>3, ToolbarTyped, SpentTyped DEF Leave, PageTyped
<1>4. CASE Return
  BY <1>4, SameBudget DEF Return, PageTyped
<1>5. CASE Connect
  BY <1>5, StartReadPage DEF Connect
<1>6. CASE Retry
  BY <1>6, StartReadPage DEF Retry
<1>7. CASE AcceptRead
  <2>1. CASE confirm.why = "weak" /\ confirm' = NoConfirm /\ BeginRead(confirm.mac, confirm.what)
    BY <2>1, BeginReadPage DEF BeginRead, ScreenTyped, DialogTyped, ConfirmTyped
  <2>2. CASE StartRead("history")
    BY <2>2, StartReadPage
  <2> QED BY <1>7, <2>1, <2>2 DEF AcceptRead
<1>8. CASE Decline
  BY <1>8, SamePage DEF Decline
<1>9. CASE ShowServices
  BY <1>9, MadeTyped DEF ShowServices, Send, PageTyped
<1>10. CASE Back
  BY <1>10, SameBudget DEF Back, View, PageTyped
<1>11. CASE Edit \/ CancelEdit \/ OpenCommands
  BY <1>11, SameBudget DEF Edit, CancelEdit, OpenCommands, Turn, Body, PageTyped
<1>12. CASE Save
  BY <1>12, MadeTyped DEF Save, Issue, PageTyped
<1>13. CASE AcceptCommand
  BY <1>13, MadeTyped DEF AcceptCommand, BeginCommand, Issue, PageTyped
<1>14. CASE Close
  BY <1>14, ToolbarTyped, SameBudget DEF Close, CloseNow, PageTyped
<1>15. CASE Toggle
  <2>1. expanded' = ~expanded /\ UNCHANGED <<page, table, top, bulk, locked, lcd, inflight, history>>
    BY <1>15 DEF Toggle
  <2>2. expanded' \in BOOLEAN
    BY <2>1 DEF PageTyped
  <2> QED BY <2>1, <2>2, SameBudget DEF PageTyped
<1>16. ASSUME NEW m \in Macs, Select(m) \/ Dot(m) PROVE PageTyped'
  BY <1>16, ToolbarTyped, SameBudget DEF Select, Dot, PageTyped
<1>17. ASSUME NEW m \in Macs, Rescan(m) PROVE PageTyped'
  BY <1>17, MadeTyped DEF Rescan, Send, PageTyped
<1>18. ASSUME NEW m \in Macs, NEW c \in Used, Command(m, c) PROVE PageTyped'
  <2>1. CASE Ask("command", m, c)
    BY <2>1, SamePage DEF Ask
  <2>2. CASE BeginCommand(m, c) /\ UNCHANGED confirm
    BY <2>2, MadeTyped DEF BeginCommand, Issue, PageTyped
  <2> QED BY <1>18, <2>1, <2>2 DEF Command
<1>19. ASSUME NEW clear \in BOOLEAN, AnswerLcd(clear) PROVE PageTyped'
  <2>0. unheard' \subseteq Macs
    BY <1>19 DEF AnswerLcd, ScreenTyped, DialogTyped, ConfirmTyped, PageTyped
  <2>1. BudgetTyped'
    BY <1>19, MadeTyped, SameBudget DEF AnswerLcd, Issue, PageTyped
  <2> QED BY <1>19, <2>0, <2>1, ToolbarTyped DEF AnswerLcd, CloseNow, PageTyped
<1>20. ASSUME NEW l \in Lists, NEW m \in Macs \union {Nobody}, OpenList(l, m) PROVE PageTyped'
  <2>1. expanded' \in BOOLEAN
    BY <1>20, Zenon DEF OpenList, PageTyped
  <2> QED BY <1>20, <2>1, MadeTyped DEF OpenList, Send, PageTyped
<1> QED
  BY <1>1, <1>2, <1>3, <1>4, <1>5, <1>6, <1>7, <1>8, <1>9, <1>10, <1>11, <1>12, <1>13, <1>14,
     <1>15, <1>16, <1>17, <1>18, <1>19, <1>20, Zenon DEF User

(* An overlay is put on or taken off. *)
LEMMA UnheardTyped ==
  ASSUME unheard \subseteq Macs, NEW m \in Macs, NEW on, NEW heard, Overlay(m, on, heard)
  PROVE  unheard' \subseteq Macs
BY DEF Overlay

(* The answers keep the page typed. *)
LEMMA AnswerPage ==
  ASSUME Typed, NEW i \in DOMAIN calls, Answer(i) PROVE PageTyped'
<1> USE DEF Typed, page, table, screen, history
<1> DEFINE c == calls[i]
<1>0. c \in GoodCalls
  BY DEF CallsTyped
<1>00. /\ c.live \in BOOLEAN
       /\ c.kind \in {"read", "services", "write", "command", "clear_lcd", "rescan", "reread"}
            => c.mac \in Macs
  BY <1>0 DEF GoodCalls, GoodCall, Calls
<1>1. CASE ScanAnswered(i) \/ ScanFailed(i) \/ IndexAnswered(i)
  BY <1>1, ToolbarTyped, SameBudget DEF ScanAnswered, ScanFailed, IndexAnswered, PageTyped
<1>2. CASE ReadThenHistory(i)
  <2>1. top' \in Toolbars
    BY <1>2, ToolbarTyped DEF ReadThenHistory
  <2> QED BY <1>2, <2>1, SameBudget DEF ReadThenHistory, PageTyped, Release
<1>3. CASE WriteAnswered(i)
  BY <1>3, SameBudget DEF WriteAnswered, View, PageTyped
<1>4. CASE SettingTaken(i) \/ CommandEnds(i)
  <2>1. c.mac \in Macs
    BY <1>4, <1>00 DEF SettingTaken, CommandEnds, Ends, Answering
  <2>2. unheard' \subseteq Macs
    BY <1>4, <2>1, UnheardTyped DEF SettingTaken, CommandEnds, PageTyped
  <2>3. UNCHANGED <<page, table, top, bulk, expanded, lcd, inflight, mixed>> /\ locked' \in BOOLEAN
    BY <1>4, <1>00 DEF SettingTaken, CommandEnds, Unlock, PageTyped
  <2> QED BY <2>2, <2>3, SameBudget DEF PageTyped
<1>5. CASE LcdAnswered(i)
  <2>1. c.mac \in Macs
    BY <1>5, <1>00 DEF LcdAnswered, LcdDone, Ends, Answering
  <2>2. unheard' \subseteq Macs /\ lcd' \in Macs \union {Nobody}
    BY <1>5, <2>1, UnheardTyped DEF LcdAnswered, LcdDone, PageTyped
  <2>3. UNCHANGED <<page, table, top, bulk, expanded, inflight, mixed>> /\ locked' \in BOOLEAN
    BY <1>5, <1>00 DEF LcdAnswered, LcdDone, Unlock, PageTyped
  <2> QED BY <2>2, <2>3, SameBudget DEF PageTyped
<1>6. CASE Restored(i)
  BY <1>6, <1>00, SameBudget DEF Restored, Unlock, PageTyped
<1>7. ASSUME NEW found \in SUBSET Macs, ScanShown(i, found) PROVE PageTyped'
  <2>1. selected' \in Macs \union {Nobody} /\ listed' \subseteq Macs
    BY <1>7 DEF ScanShown, PageTyped
  <2> QED BY <1>7, <2>1, SameBudget DEF ScanShown, PageTyped
<1>8. ASSUME NEW ok \in BOOLEAN, ReadAnswered(i, ok) PROVE PageTyped'
  <2>1. top' \in Toolbars /\ inflight' \subseteq Macs
    BY <1>8, ToolbarTyped DEF ReadAnswered, Release, PageTyped
  <2>2. locked' \in BOOLEAN
    BY <1>8 DEF ReadAnswered, View, SameScreen, PageTyped
  <2> QED BY <1>8, <2>1, <2>2, SameBudget DEF ReadAnswered, PageTyped
<1>9. ASSUME NEW ok \in BOOLEAN, ServicesAnswered(i, ok) PROVE PageTyped'
  <2>1. mixed' \in BOOLEAN
    BY <1>9, Zenon DEF ServicesAnswered, PageTyped
  <2> QED BY <1>9, <2>1, SameBudget DEF ServicesAnswered, SameScreen, PageTyped
<1>10. ASSUME NEW ok \in BOOLEAN, WriteFailed(i, ok) \/ RepeaterAnswered(i, ok) PROVE PageTyped'
  BY <1>10, <1>00, SameBudget DEF WriteFailed, RepeaterAnswered, View, SameScreen, PageTyped
<1>11. ASSUME NEW ok \in BOOLEAN, LcdCleared(i, ok) PROVE PageTyped'
  <2>1. c.mac \in Macs
    BY <1>11, <1>00 DEF LcdCleared, Answering
  <2>2. unheard' \subseteq Macs
    BY <1>11, <2>1, UnheardTyped DEF LcdCleared, PageTyped
  <2> QED BY <1>11, <2>2, SameBudget DEF LcdCleared, PageTyped
<1>12. ASSUME NEW ok \in BOOLEAN, LoadAnswered(i, ok) PROVE PageTyped'
  <2>1. expanded' \in BOOLEAN
    BY <1>12, Zenon DEF LoadAnswered, PageTyped
  <2>2. listed' \subseteq Macs
    BY <1>12 DEF LoadAnswered, PageTyped
  <2> QED BY <1>12, <2>1, <2>2, SameBudget DEF LoadAnswered, Body, SameScreen, PageTyped
<1>13. ASSUME NEW ok \in BOOLEAN, RescanAnswered(i, ok) \/ RereadAnswered(i, ok) PROVE PageTyped'
  BY <1>13, SameBudget DEF RescanAnswered, RereadAnswered, Body, SameScreen, PageTyped
<1> QED
  BY <1>1, <1>2, <1>3, <1>4, <1>5, <1>6, <1>7, <1>8, <1>9, <1>10, <1>11, <1>12, <1>13, Zenon
  DEF Answer

LEMMA PageStep == ASSUME Typed, [Next]_vars PROVE PageTyped'
<1> USE DEF Typed, page, table, screen, history
<1>1. CASE User
  BY <1>1, UserPage
<1>2. CASE \E i \in DOMAIN calls : Answer(i)
  BY <1>2, AnswerPage
<1>3. CASE \E kept \in BOOLEAN : SaveAnswered(kept)
  BY <1>3, SamePage DEF SaveAnswered
<1>4. ASSUME NEW active \in BOOLEAN, Poll(active) PROVE PageTyped'
  <2>1. top' \in Toolbars
    <3>1. (~active /\ Connectable(selected, inflight)) \in BOOLEAN
      OBVIOUS
    <3> QED BY <1>4, <3>1, ToolbarTyped DEF Poll, PageTyped
  <2>2. BudgetTyped'
    <3>1. CASE bulk /\ ~active
      <4>1. ~bulk' /\ budget' = [budget EXCEPT !.jobs = @ - 1]
        BY <1>4, <3>1 DEF Poll
      <4> QED BY <3>1, <4>1, SpentTyped DEF PageTyped
    <3>2. CASE ~(bulk /\ ~active)
      <4>1. UNCHANGED budget /\ (bulk' => bulk \/ budget.jobs > 0)
        BY <1>4, <3>2 DEF Poll
      <4> QED BY <4>1 DEF PageTyped, BudgetTyped
    <3> QED BY <3>1, <3>2
  <2> QED BY <1>4, <2>1, <2>2 DEF Poll, PageTyped
<1>5. CASE UNCHANGED vars
  BY <1>5, SamePage DEF vars
<1> QED BY <1>1, <1>2, <1>3, <1>4, <1>5 DEF Next

-----------------------------------------------------------------------------
(* The dialog and the question stay typed. *)
LEMMA SameDialog == ASSUME DialogTyped, UNCHANGED dialog PROVE DialogTyped'
BY DEF DialogTyped

LEMMA NoDialogShown == ASSUME dialog' = NoDialog PROVE DialogTyped'
BY NoDialogTyped DEF DialogTyped, OfDevice

(* The dialogs that are shown are typed; one of a device has a device. *)
LEMMA DialogShown ==
  ASSUME NEW b \in Bodies \ {"none"}, NEW m \in Macs \union {Nobody}, b \in OfDevice => m \in Macs,
         dialog' = Shown(b, m)
  PROVE  DialogTyped'
BY ShownTyped DEF DialogTyped

LEMMA BodyTurned ==
  ASSUME DialogTyped, NEW b \in Bodies \ {"none"}, b \in OfDevice => dialog.mac \in Macs,
         dialog' = [dialog EXCEPT !.body = b]
  PROVE  DialogTyped'
BY BodyTyped DEF DialogTyped

LEMMA BodyOfTurned ==
  ASSUME DialogTyped, NEW b \in Bodies \ {"none"}, NEW m \in Macs,
         dialog' = [dialog EXCEPT !.body = b, !.mac = m]
  PROVE  DialogTyped'
<1>1. /\ dialog' \in Screens /\ dialog'.body = b /\ dialog'.mac = m
  BY DEF DialogTyped, Screens
<1> QED BY <1>1 DEF DialogTyped

(* The questions that are asked are typed. *)
LEMMA NoQuestion == ASSUME confirm' = NoConfirm PROVE ConfirmTyped'
BY DEF ConfirmTyped, NoConfirm

LEMMA SameConfirm == ASSUME ConfirmTyped, UNCHANGED confirm PROVE ConfirmTyped'
BY DEF ConfirmTyped

LEMMA Asked ==
  ASSUME NEW why \in {"weak", "dot", "lcd", "command"}, NEW m \in Macs,
         NEW what \in {"none", "view", "history"} \union Commands,
         why = "command" => what \in Commands,
         why = "weak" => what \in {"view", "history"},
         confirm' = [why |-> why, mac |-> m, what |-> what]
  PROVE  ConfirmTyped'
BY DEF ConfirmTyped

LEMMA BeginReadScreen ==
  ASSUME NEW m \in Macs, NEW then, BeginRead(m, then), confirm' = NoConfirm PROVE ScreenTyped'
<1>1. DialogTyped'
  BY DialogShown DEF BeginRead, OfDevice, Bodies
<1> QED BY <1>1, NoQuestion DEF ScreenTyped

LEMMA StartReadScreen ==
  ASSUME Typed, NEW then \in {"view", "history"}, StartRead(then) PROVE ScreenTyped'
<1>1. CASE Ask("weak", selected, then)
  <2>1. ConfirmTyped'
    BY <1>1, StartReadIsGood, Asked DEF Ask
  <2> QED BY <1>1, <2>1, SameDialog DEF Ask, screen, Typed, ScreenTyped
<1>2. CASE confirm' = NoConfirm /\ BeginRead(selected, then)
  BY <1>2, StartReadIsGood, BeginReadScreen
<1> QED BY <1>1, <1>2, StartReadIsGood

(* The user's steps keep the dialog and the question typed. *)
LEMMA UserScreen == ASSUME Typed, User PROVE ScreenTyped'
<1> USE DEF Typed, screen, ScreenTyped
<1>1. CASE Scan \/ Cancel \/ Leave \/ Return
  BY <1>1, SameDialog, SameConfirm DEF Scan, Cancel, Leave, Return
<1>2. CASE Connect \/ Retry
  BY <1>2, StartReadScreen DEF Connect, Retry
<1>3. CASE AcceptRead
  <2>1. CASE confirm.why = "weak" /\ confirm' = NoConfirm /\ BeginRead(confirm.mac, confirm.what)
    BY <2>1, BeginReadScreen DEF ConfirmTyped
  <2>2. CASE StartRead("history")
    BY <2>2, StartReadScreen
  <2> QED BY <1>3, <2>1, <2>2 DEF AcceptRead
<1>4. CASE Decline
  BY <1>4, SameDialog, NoQuestion DEF Decline
<1>5. CASE ShowServices \/ Save \/ Toggle
  BY <1>5, SameDialog, SameConfirm DEF ShowServices, Save, Toggle
<1>6. CASE Back
  <2>1. dialog.mac \in Macs
    BY <1>6 DEF Back, In, DialogTyped, OfDevice
  <2>2. DialogTyped'
    BY <1>6, <2>1, DialogShown DEF Back, View, Bodies
  <2> QED BY <1>6, <2>2, SameConfirm DEF Back
<1>7. CASE Edit \/ CancelEdit \/ OpenCommands
  <2>1. dialog.mac \in Macs
    BY <1>7 DEF Edit, CancelEdit, OpenCommands, Turn, In, DialogTyped, OfDevice
  <2>2. DialogTyped'
    BY <1>7, <2>1, BodyTurned DEF Edit, CancelEdit, OpenCommands, Turn, Body, Bodies
  <2> QED BY <1>7, <2>2, SameConfirm DEF Edit, CancelEdit, OpenCommands, Turn
<1>8. CASE AcceptCommand
  BY <1>8, SameDialog, NoQuestion DEF AcceptCommand, BeginCommand
<1>9. CASE Close
  <2>1. CASE lcd = Nobody
    BY <1>9, <2>1, NoDialogShown, SameConfirm DEF Close, CloseNow
  <2>2. CASE lcd # Nobody
    <3>1. lcd \in Macs
      BY <2>2 DEF PageTyped
    <3>2. ConfirmTyped'
      BY <1>9, <2>2, <3>1, Asked DEF Close
    <3> QED BY <1>9, <2>2, <3>2, SameDialog DEF Close
  <2> QED BY <2>1, <2>2
<1>10. ASSUME NEW m \in Macs, Select(m) \/ Rescan(m) PROVE ScreenTyped'
  BY <1>10, SameDialog, SameConfirm DEF Select, Rescan
<1>11. ASSUME NEW m \in Macs, Dot(m) PROVE ScreenTyped'
  <2>1. ConfirmTyped'
    BY <1>11, Asked DEF Dot
  <2> QED BY <1>11, <2>1, SameDialog DEF Dot
<1>12. ASSUME NEW m \in Macs, NEW c \in Used, Command(m, c) PROVE ScreenTyped'
  <2>1. CASE Ask("command", m, c)
    <3>1. ConfirmTyped'
      BY <1>12, <2>1, OfferedIsGood, Asked DEF Ask
    <3> QED BY <2>1, <3>1, SameDialog DEF Ask
  <2>2. CASE BeginCommand(m, c) /\ UNCHANGED confirm
    BY <2>2, SameDialog, SameConfirm DEF BeginCommand
  <2> QED BY <1>12, <2>1, <2>2 DEF Command
<1>13. ASSUME NEW clear \in BOOLEAN, AnswerLcd(clear) PROVE ScreenTyped'
  BY <1>13, NoDialogShown, NoQuestion DEF AnswerLcd, CloseNow
<1>14. ASSUME NEW l \in Lists, NEW m \in Macs \union {Nobody}, OpenList(l, m) PROVE ScreenTyped'
  <2>1. DialogTyped'
    BY <1>14, DialogShown DEF OpenList, OfDevice, Bodies
  <2> QED BY <1>14, <2>1, SameConfirm DEF OpenList
<1> QED
  BY <1>1, <1>2, <1>3, <1>4, <1>5, <1>6, <1>7, <1>8, <1>9, <1>10, <1>11, <1>12, <1>13, <1>14, Zenon
  DEF User

(* The answers keep the dialog and the question typed. *)
LEMMA AnswerScreen ==
  ASSUME Typed, NEW i \in DOMAIN calls, Answer(i) PROVE ScreenTyped'
<1> USE DEF Typed, screen, ScreenTyped
<1> DEFINE c == calls[i]
<1>0. c \in GoodCalls
  BY DEF CallsTyped
<1>00. /\ c.kind \in {"read", "services", "write", "command", "clear_lcd", "rescan", "reread"}
            => c.mac \in Macs
       /\ c.kind = "load" => c.what \in Listings
  BY <1>0 DEF GoodCalls, GoodCall, Calls
<1>000. {"view", "error", "services", "waiting"} \union Listings \subseteq Bodies \ {"none"}
        /\ "waiting" \notin OfDevice
  BY DEF Bodies, Listings, OfDevice
<1>1. CASE ScanAnswered(i) \/ ScanFailed(i) \/ IndexAnswered(i)
  BY <1>1, SameDialog, SameConfirm DEF ScanAnswered, ScanFailed, IndexAnswered
<1>2. CASE ReadThenHistory(i)
  <2>1. DialogTyped'
    BY <1>2, <1>000, DialogShown DEF ReadThenHistory
  <2> QED BY <1>2, <2>1, SameConfirm DEF ReadThenHistory
<1>3. CASE WriteAnswered(i)
  <2>1. DialogTyped'
    BY <1>3, <1>00, <1>000, DialogShown, SameDialog DEF WriteAnswered, View, Answering
  <2> QED BY <1>3, <2>1, SameConfirm DEF WriteAnswered
<1>4. CASE SettingTaken(i) \/ CommandEnds(i) \/ LcdAnswered(i) \/ Restored(i)
  BY <1>4, SameDialog, SameConfirm DEF SettingTaken, CommandEnds, LcdAnswered, LcdDone, Restored, Unlock
<1>5. ASSUME NEW found \in SUBSET Macs, ScanShown(i, found) PROVE ScreenTyped'
  BY <1>5, SameDialog, SameConfirm DEF ScanShown
<1>6. ASSUME NEW ok \in BOOLEAN, ReadAnswered(i, ok) PROVE ScreenTyped'
  <2>1. c.mac \in Macs /\ UNCHANGED confirm
    BY <1>6, <1>00 DEF ReadAnswered, Answering
  <2>2. \/ UNCHANGED dialog
        \/ dialog' = Shown("view", c.mac)
        \/ dialog' = [dialog EXCEPT !.body = "error", !.mac = c.mac]
    BY <1>6 DEF ReadAnswered, View, SameScreen
  <2>3. DialogTyped'
    BY <1>000, <2>1, <2>2, SameDialog, DialogShown, BodyOfTurned
  <2> QED BY <2>1, <2>3, SameConfirm
<1>7. ASSUME NEW ok \in BOOLEAN, ServicesAnswered(i, ok) PROVE ScreenTyped'
  <2>1. c.mac \in Macs /\ UNCHANGED confirm
    BY <1>7, <1>00 DEF ServicesAnswered, Answering
  <2>2. UNCHANGED dialog \/ dialog' = [dialog EXCEPT !.body = "services", !.mac = c.mac]
    BY <1>7 DEF ServicesAnswered, SameScreen
  <2>3. DialogTyped'
    BY <1>000, <2>1, <2>2, SameDialog, BodyOfTurned
  <2> QED BY <2>1, <2>3, SameConfirm
<1>8. ASSUME NEW ok \in BOOLEAN, WriteFailed(i, ok) \/ RepeaterAnswered(i, ok) PROVE ScreenTyped'
  <2>1. c.mac \in Macs /\ UNCHANGED confirm
    BY <1>8, <1>00 DEF WriteFailed, RepeaterAnswered, Ends, Answering
  <2>2. UNCHANGED dialog \/ dialog' = Shown("view", c.mac)
    BY <1>8 DEF WriteFailed, RepeaterAnswered, View, SameScreen
  <2>3. DialogTyped'
    BY <1>000, <2>1, <2>2, SameDialog, DialogShown
  <2> QED BY <2>1, <2>3, SameConfirm
<1>9. ASSUME NEW ok \in BOOLEAN, LcdCleared(i, ok) \/ RereadAnswered(i, ok) PROVE ScreenTyped'
  BY <1>9, SameDialog, SameConfirm DEF LcdCleared, RereadAnswered
<1>10. ASSUME NEW ok \in BOOLEAN, LoadAnswered(i, ok) \/ RescanAnswered(i, ok) PROVE ScreenTyped'
  <2>1. UNCHANGED confirm
    BY <1>10 DEF LoadAnswered, RescanAnswered
  <2>2. UNCHANGED dialog \/ \E b \in Listings : dialog' = [dialog EXCEPT !.body = b]
    <3>1. "compare" \in Listings
      BY DEF Listings
    <3> QED BY <1>10, <1>00, <3>1 DEF LoadAnswered, RescanAnswered, Body, SameScreen, Answering
  <2>3. \A b \in Listings : b \in Bodies \ {"none"} /\ b \notin OfDevice
    BY DEF Listings, Bodies, OfDevice
  <2>4. DialogTyped'
    BY <2>2, <2>3, SameDialog, BodyTurned
  <2> QED BY <2>1, <2>4, SameConfirm
<1> QED
  BY <1>1, <1>2, <1>3, <1>4, <1>5, <1>6, <1>7, <1>8, <1>9, <1>10, Zenon DEF Answer

LEMMA ScreenStep == ASSUME Typed, [Next]_vars PROVE ScreenTyped'
<1> USE DEF Typed, screen, ScreenTyped
<1>1. CASE User
  BY <1>1, UserScreen
<1>2. CASE \E i \in DOMAIN calls : Answer(i)
  BY <1>2, AnswerScreen
<1>3. CASE (\E kept \in BOOLEAN : SaveAnswered(kept)) \/ UNCHANGED vars
  BY <1>3, SameDialog, SameConfirm DEF SaveAnswered, vars
<1>4. ASSUME NEW active \in BOOLEAN, Poll(active) PROVE ScreenTyped'
  <2>1. "results" \in Bodies \ {"none"} /\ "results" \notin OfDevice
    BY DEF Bodies, OfDevice
  <2>2. UNCHANGED dialog \/ dialog' = Shown("results", Nobody)
    BY <1>4 DEF Poll
  <2>3. DialogTyped' /\ UNCHANGED confirm
    BY <1>4, <2>1, <2>2, DialogShown, SameDialog DEF Poll
  <2> QED BY <2>3, SameConfirm
<1> QED BY <1>1, <1>2, <1>3, <1>4 DEF Next

-----------------------------------------------------------------------------
(* The data stay typed. *)
LEMMA SameData ==
  ASSUME DataTyped, UNCHANGED <<loaded, saves, device, store, acked>> PROVE DataTyped'
BY DEF DataTyped

(* A snapshot is saved. *)
LEMMA Stored ==
  ASSUME DataTyped, NEW m \in Macs, NEW f \in Fields
  PROVE  [store EXCEPT ![m] = f] \in [Macs -> Fields]
BY DEF DataTyped

(* An overlay is put on or taken off; no version changes. *)
LEMMA OverlayTyped ==
  ASSUME DataTyped, NEW m \in Macs, NEW on \in BOOLEAN, NEW heard, Overlay(m, on, heard)
  PROVE  /\ device' \in [Macs -> [version : 0..MaxVersion, lcd : BOOLEAN]]
         /\ \A n \in Macs : device'[n].version = device[n].version
         /\ \A n \in Macs : device'[n].lcd = IF n = m THEN on ELSE device[n].lcd
BY DEF DataTyped, Overlay

(* An automatic snapshot is on its way, or is not for want of what it needs. *)
LEMMA BackedUp ==
  ASSUME DataTyped, NEW m \in Macs, AutoBackup(m), loaded' \in Fields,
         device' \in [Macs -> [version : 0..MaxVersion, lcd : BOOLEAN]]
  PROVE  /\ saves' \in Seq([mac : Macs, fields : Fields])
         /\ acked' \in [Macs -> Reports]
<1>1. [mac |-> m, fields |-> loaded'] \in [mac : Macs, fields : Fields] /\ loaded'.raw \in BOOLEAN
  BY DEF Fields
<1>2. [version |-> device'[m].version, lost |-> ~loaded'.raw] \in Reports
  BY <1>1 DEF Reports
<1> DEFINE last == [mac |-> m, fields |-> loaded']
           Save1 == [mac : Macs, fields : Fields]
<1>3. last \in Save1 /\ saves \in Seq(Save1)
  BY <1>1 DEF DataTyped
<1>4. /\ saves' = saves \/ saves' = Append(saves, last)
      /\ acked' = [acked EXCEPT ![m] = [version |-> device'[m].version, lost |-> ~loaded'.raw]]
  BY DEF AutoBackup, Sends
<1>5. acked' \in [Macs -> Reports]
  BY <1>2, <1>4 DEF DataTyped
<1> HIDE DEF last, Save1
<1>6. saves' \in Seq(Save1)
  BY <1>3, <1>4
<1> QED BY <1>5, <1>6 DEF Save1

(* The user's steps change no data but what the panel holds. *)
LEMMA UserData == ASSUME Typed, User PROVE DataTyped'
<1> USE DEF Typed, outside, history
<1>1. CASE Scan
  <2>1. loaded' \in Fields
    BY <1>1, BoundsTyped DEF Scan, NoFields, Fields
  <2> QED BY <1>1, <2>1 DEF Scan, DataTyped
<1>2. CASE Cancel \/ Leave \/ Return
  BY <1>2, SameData DEF Cancel, Leave, Return
<1>3. CASE Connect \/ Retry \/ AcceptRead
  <2>1. UNCHANGED <<loaded, saves, device, store, acked>>
    BY <1>3 DEF Connect, Retry, AcceptRead, StartRead, Ask, BeginRead
  <2> QED BY <2>1, SameData
<1>4. CASE Decline \/ ShowServices \/ Save \/ Toggle \/ Back
  BY <1>4, SameData DEF Decline, ShowServices, Save, Toggle, Back
<1>5. CASE Edit \/ CancelEdit \/ OpenCommands
  BY <1>5, SameData DEF Edit, CancelEdit, OpenCommands, Turn
<1>6. CASE AcceptCommand \/ Close
  BY <1>6, SameData DEF AcceptCommand, BeginCommand, Close
<1>7. ASSUME NEW m \in Macs, Select(m) \/ Rescan(m) \/ Dot(m) PROVE DataTyped'
  BY <1>7, SameData DEF Select, Rescan, Dot
<1>8. ASSUME NEW m \in Macs, NEW c \in Used, Command(m, c) PROVE DataTyped'
  BY <1>8, SameData DEF Command, Ask, BeginCommand
<1>9. ASSUME NEW clear \in BOOLEAN, AnswerLcd(clear) PROVE DataTyped'
  BY <1>9, SameData DEF AnswerLcd
<1>10. ASSUME NEW l \in Lists, NEW m \in Macs \union {Nobody}, OpenList(l, m) PROVE DataTyped'
  BY <1>10, SameData DEF OpenList
<1> QED
  BY <1>1, <1>2, <1>3, <1>4, <1>5, <1>6, <1>7, <1>8, <1>9, <1>10, Zenon DEF User

(* What an answered show or clear did to the overlay, and was heard to do. *)
LEMMA OverlayDone ==
  ASSUME Typed, NEW i \in DOMAIN calls, LcdAnswered(i), calls[i].mac \in Macs
  PROVE  \E on \in BOOLEAN, heard \in {"on", "off", "nothing"} : Overlay(calls[i].mac, on, heard)
<1> DEFINE c == calls[i]
           heard == IF ~c.live THEN "nothing" ELSE IF c.what = "show" THEN "on" ELSE "off"
<1>1. PICK taken \in BOOLEAN :
        Overlay(c.mac, IF taken THEN c.what = "show" ELSE device[c.mac].lcd, heard)
  BY DEF LcdAnswered, LcdDone
<1>2. (IF taken THEN c.what = "show" ELSE device[c.mac].lcd) \in BOOLEAN
  BY DEF Typed, DataTyped
<1> QED BY <1>1, <1>2

(* The answers keep the data typed. *)
LEMMA AnswerData ==
  ASSUME Typed, NEW i \in DOMAIN calls, Answer(i) PROVE DataTyped'
<1> USE DEF Typed, outside, history
<1> DEFINE c == calls[i]
           grown == \/ device' = device
                    \/ Grows(c.mac)
<1>0. c \in GoodCalls
  BY DEF CallsTyped
<1>00. /\ c.kind \in {"read", "services", "write", "command", "clear_lcd", "rescan", "reread"}
            => c.mac \in Macs
       /\ c.live \in BOOLEAN
  BY <1>0 DEF GoodCalls, GoodCall, Calls
<1> DEFINE Devices == [Macs -> [version : 0..MaxVersion, lcd : BOOLEAN]]
<1>000. /\ c.mac \in Macs /\ grown => device' \in Devices
        /\ loaded \in Fields /\ device \in Devices
  BY VersionTyped DEF DataTyped
<1>0000. ASSUME c.mac \in Macs, device' \in Devices
         PROVE  /\ device'[c.mac].version \in 0..MaxVersion
                /\ [loaded EXCEPT !.version = device'[c.mac].version] \in Fields
                /\ \A raw \in BOOLEAN :
                     [of |-> c.mac, version |-> device'[c.mac].version, raw |-> raw] \in Fields
  <2>1. device'[c.mac].version \in 0..MaxVersion
    BY <1>0000
  <2> QED BY <1>0000, <2>1, VersionTyped
<1>1. CASE ScanAnswered(i) \/ ScanFailed(i) \/ IndexAnswered(i)
  BY <1>1, SameData DEF ScanAnswered, ScanFailed, IndexAnswered
<1>2. CASE ReadThenHistory(i)
  <2>1. c.mac \in Macs /\ UNCHANGED <<saves, device, acked>>
    BY <1>2, <1>00 DEF ReadThenHistory
  <2>2. PICK f \in Reads(c.mac) : loaded' = f /\ store' = Saved(f)
    BY <1>2 DEF ReadThenHistory
  <2>3. loaded' \in Fields /\ store' \in [Macs -> Fields]
    BY <2>1, <2>2, ReadSaved DEF DataTyped
  <2> QED BY <2>1, <2>3 DEF DataTyped
<1>3. CASE WriteAnswered(i)
  <2>1. c.mac \in Macs /\ grown /\ UNCHANGED store
    BY <1>3, <1>00 DEF WriteAnswered, Answering
  <2>2. device' \in Devices
    BY <1>000, <2>1
  <2>3. loaded' \in Fields
    BY <1>3, <1>000, <1>0000, <2>1, <2>2 DEF WriteAnswered
  <2>4. AutoBackup(c.mac) \/ UNCHANGED <<saves, acked>>
    BY <1>3 DEF WriteAnswered
  <2> HIDE DEF c, Devices
  <2> QED BY <2>1, <2>2, <2>3, <2>4, BackedUp DEF DataTyped, Devices
<1>4. CASE SettingTaken(i)
  <2>1. c.mac \in Macs /\ grown
    BY <1>4, <1>00 DEF SettingTaken, Ends, Answering
  <2>2. device' \in Devices
    BY <1>000, <2>1
  <2>3. loaded' \in Fields
    BY <1>4, <1>000, <1>0000, <2>1, <2>2 DEF SettingTaken
  <2>4. AutoBackup(c.mac) \/ UNCHANGED <<saves, acked>>
    BY <1>4 DEF SettingTaken
  <2>5. store' \in [Macs -> Fields]
    BY <1>4, <1>0000, <2>1, <2>2, Stored DEF SettingTaken, DataTyped
  <2> HIDE DEF c, Devices
  <2> QED BY <2>1, <2>2, <2>3, <2>4, <2>5, BackedUp DEF DataTyped, Devices
<1>5. CASE LcdAnswered(i)
  <2>1. c.mac \in Macs /\ UNCHANGED <<loaded, saves, store, acked>>
    BY <1>5, <1>00 DEF LcdAnswered, LcdDone, Ends, Answering
  <2>2. PICK on \in BOOLEAN, heard \in {"on", "off", "nothing"} : Overlay(c.mac, on, heard)
    BY <1>5, <2>1, OverlayDone
  <2>3. device' \in Devices
    BY <2>1, <2>2, OverlayTyped
  <2> QED BY <2>1, <2>3 DEF DataTyped
<1>6. CASE CommandEnds(i)
  <2>1. c.mac \in Macs /\ UNCHANGED <<loaded, saves, store, acked>>
    BY <1>6, <1>00 DEF CommandEnds, Ends, Answering
  <2>2. grown \/ Overlay(c.mac, c.what = "show", "nothing")
    BY <1>6 DEF CommandEnds
  <2>3. device' \in Devices
    BY <1>000, <2>1, <2>2, OverlayTyped
  <2> QED BY <2>1, <2>3 DEF DataTyped
<1>7. CASE Restored(i)
  <2>1. c.mac \in Macs /\ grown /\ UNCHANGED <<loaded, saves, store, acked>>
    BY <1>7, <1>00 DEF Restored
  <2>2. device' \in Devices
    BY <1>000, <2>1
  <2> QED BY <2>1, <2>2 DEF DataTyped
<1>8. ASSUME NEW found \in SUBSET Macs, ScanShown(i, found) PROVE DataTyped'
  BY <1>8, SameData DEF ScanShown
<1>9. ASSUME NEW ok \in BOOLEAN, ReadAnswered(i, ok) PROVE DataTyped'
  <2>1. c.mac \in Macs /\ UNCHANGED <<saves, device, acked>>
    BY <1>9, <1>00 DEF ReadAnswered, Answering
  <2>2. PICK f \in Reads(c.mac) : /\ store' = IF ok THEN Saved(f) ELSE store
                                 /\ loaded' = IF c.live /\ ok THEN f ELSE loaded
    BY <1>9 DEF ReadAnswered
  <2>3. loaded' \in Fields /\ store' \in [Macs -> Fields]
    BY <1>000, <2>1, <2>2, ReadSaved DEF DataTyped
  <2> QED BY <2>1, <2>3 DEF DataTyped
<1>10. ASSUME NEW ok \in BOOLEAN, ServicesAnswered(i, ok) \/ LoadAnswered(i, ok) PROVE DataTyped'
  BY <1>10, SameData DEF ServicesAnswered, LoadAnswered
<1>11. ASSUME NEW ok \in BOOLEAN, WriteFailed(i, ok) PROVE DataTyped'
  <2>1. c.mac \in Macs /\ grown /\ UNCHANGED <<loaded, saves, store, acked>>
    BY <1>11, <1>00 DEF WriteFailed, Answering
  <2>2. device' \in Devices
    BY <1>000, <2>1
  <2> QED BY <2>1, <2>2 DEF DataTyped
<1>12. ASSUME NEW ok \in BOOLEAN, RepeaterAnswered(i, ok) PROVE DataTyped'
  <2>1. c.mac \in Macs /\ grown /\ UNCHANGED store
    BY <1>12, <1>00 DEF RepeaterAnswered, Ends, Answering
  <2>2. device' \in Devices
    BY <1>000, <2>1
  <2>3. loaded' \in Fields
    BY <1>12, <1>000, <1>0000, <2>1, <2>2 DEF RepeaterAnswered, Raws
  <2>4. AutoBackup(c.mac) \/ UNCHANGED <<saves, acked>>
    BY <1>12 DEF RepeaterAnswered
  <2> HIDE DEF c, Devices
  <2> QED BY <2>1, <2>2, <2>3, <2>4, BackedUp DEF DataTyped, Devices
<1>13. ASSUME NEW ok \in BOOLEAN, LcdCleared(i, ok) PROVE DataTyped'
  <2>1. c.mac \in Macs /\ UNCHANGED <<loaded, saves, store, acked>>
    BY <1>13, <1>00 DEF LcdCleared, Answering
  <2>2. Overlay(c.mac, device[c.mac].lcd /\ ~ok, "off")
    BY <1>13 DEF LcdCleared
  <2>3. (device[c.mac].lcd /\ ~ok) \in BOOLEAN
    OBVIOUS
  <2>4. device' \in Devices
    BY <2>1, <2>2, <2>3, OverlayTyped
  <2> QED BY <2>1, <2>4 DEF DataTyped
<1>14. ASSUME NEW ok \in BOOLEAN, RescanAnswered(i, ok) \/ RereadAnswered(i, ok) PROVE DataTyped'
  <2>1. c.mac \in Macs /\ UNCHANGED <<loaded, saves, device, acked>>
    BY <1>14, <1>00 DEF RescanAnswered, RereadAnswered, Answering
  <2>2. PICK f \in Reads(c.mac) : store' = IF ok THEN Saved(f) ELSE store
    BY <1>14 DEF RescanAnswered, RereadAnswered
  <2>3. store' \in [Macs -> Fields]
    BY <2>1, <2>2, ReadSaved DEF DataTyped
  <2> QED BY <2>1, <2>3 DEF DataTyped
<1> QED
  BY <1>1, <1>2, <1>3, <1>4, <1>5, <1>6, <1>7, <1>8, <1>9, <1>10, <1>11, <1>12, <1>13, <1>14, Zenon
  DEF Answer

LEMMA SaveAnsweredData == ASSUME Typed, NEW kept \in BOOLEAN, SaveAnswered(kept) PROVE DataTyped'
<1> USE DEF Typed, outside, history
<1> DEFINE Save1 == [mac : Macs, fields : Fields]
<1>1. saves \in Seq(Save1) /\ saves # <<>>
  BY DEF SaveAnswered, DataTyped
<1> HIDE DEF Save1
<1>2. Head(saves) \in Save1 /\ Tail(saves) \in Seq(Save1)
  BY <1>1, HeadTailProperties
<1> USE DEF Save1
<1>3. Head(saves).mac \in Macs /\ Head(saves).fields \in Fields
  BY <1>2
<1> DEFINE m == Head(saves).mac
           fields == Head(saves).fields
<1>4. saves' = Tail(saves) /\ UNCHANGED <<loaded, device>>
  BY DEF SaveAnswered
<1>5. store' = [store EXCEPT ![m] = fields] \/ UNCHANGED store
  BY DEF SaveAnswered
<1>6. \/ acked' = [acked EXCEPT ![m].lost = @ \/ fields.version >= acked[m].version]
      \/ UNCHANGED acked
  BY DEF SaveAnswered
<1>7. store' \in [Macs -> Fields]
  BY <1>3, <1>5, Stored DEF DataTyped
<1>8. acked' \in [Macs -> Reports]
  <2>1. acked \in [Macs -> Reports] /\ m \in Macs
    BY <1>3 DEF DataTyped
  <2> DEFINE lost == acked[m].lost \/ fields.version >= acked[m].version
  <2>2. acked' = [acked EXCEPT ![m] = [acked[m] EXCEPT !.lost = lost]] \/ acked' = acked
    BY <1>6, <2>1 DEF Reports
  <2>3. lost \in BOOLEAN
    BY <2>1 DEF Reports
  <2> HIDE DEF lost, m
  <2> QED BY <2>1, <2>2, <2>3 DEF Reports
<1> HIDE DEF m, fields
<1> QED BY <1>2, <1>4, <1>7, <1>8 DEF DataTyped

LEMMA DataStep == ASSUME Typed, [Next]_vars PROVE DataTyped'
<1> USE DEF Typed, outside, history
<1>1. CASE User
  BY <1>1, UserData
<1>2. CASE \E i \in DOMAIN calls : Answer(i)
  BY <1>2, AnswerData
<1>3. CASE \E kept \in BOOLEAN : SaveAnswered(kept)
  BY <1>3, SaveAnsweredData
<1>4. CASE (\E active \in BOOLEAN : Poll(active)) \/ UNCHANGED vars
  BY <1>4, SameData DEF Poll, vars
<1> QED BY <1>1, <1>2, <1>3, <1>4 DEF Next

-----------------------------------------------------------------------------
(* Typed is inductive. *)
LEMMA TypedInit == Init => Typed
<1> SUFFICES ASSUME Init PROVE Typed
  OBVIOUS
<1>1. Call("scan", Nobody, "none") \in GoodCalls
  BY ACallIsGood
<1>2. CallsTyped
  <2> DEFINE c == Call("scan", Nobody, "none")
  <2>1. calls = <<c>> /\ c \in GoodCalls
    BY <1>1 DEF Init
  <2> HIDE DEF c
  <2>2. calls \in Seq(GoodCalls) /\ Len(calls) = 1
    BY <2>1
  <2> QED BY <2>2, BoundsTyped DEF CallsTyped
<1>3. BudgetTyped
  BY BoundsTyped DEF Init, BudgetTyped
<1>4. PageTyped
  BY <1>3, ToolbarTyped DEF Init, PageTyped
<1>5. DialogTyped
  BY NoDialogTyped DEF Init, DialogTyped, OfDevice
<1>6. ConfirmTyped
  BY DEF Init, ConfirmTyped, NoConfirm
<1>7. DataTyped
  <2>1. NoFields \in Fields /\ 0 \in 0..MaxVersion
    BY BoundsTyped DEF NoFields, Fields
  <2> QED BY <2>1 DEF Init, DataTyped, Reports
<1> QED BY <1>2, <1>4, <1>5, <1>6, <1>7 DEF Typed, ScreenTyped

LEMMA TypedStep == Typed /\ [Next]_vars => Typed'
<1> SUFFICES ASSUME Typed, [Next]_vars PROVE Typed'
  OBVIOUS
<1> QED BY CallsStep, PageStep, ScreenStep, DataStep DEF Typed

(* The panel's state has its types, and every call, dialog and question that   *)
(* is about a device names one, with any devices, lists and commands and any   *)
(* number of calls (_callWS, _op, _modal, _confirm).                           *)
THEOREM PanelTypeCorrect == Spec => []PanelTypeOK
BY TypedIsTyped, TypedInit, TypedStep, PTL DEF Spec

-----------------------------------------------------------------------------
(* Why what the panel reported as done is kept.  A version is reported once    *)
(* the device has it, so that no version on the way to the snapshots is ahead  *)
(* of the device; and a save that brings an older version has one behind it    *)
(* that makes up for it, or what was reported is given up: it came without the *)
(* bytes a snapshot needs, or the save that would have brought it failed.      *)
KeptBehind(s, told, i) ==
  \E j \in DOMAIN s : j > i /\ s[j].mac = s[i].mac /\ s[j].fields.version >= told[s[i].mac].version

KeptInv ==
  /\ \A m \in Macs : acked[m].version <= device[m].version
  /\ \A i \in DOMAIN saves :
       ~acked[saves[i].mac].lost /\ saves[i].fields.version < acked[saves[i].mac].version
         => KeptBehind(saves, acked, i)
  /\ \A m \in Macs : ~acked[m].lost /\ acked[m].version > store[m].version =>
       \E i \in DOMAIN saves : saves[i].mac = m /\ saves[i].fields.version >= acked[m].version

(* What the arithmetic needs. *)
LEMMA VersionsAreNat ==
  ASSUME DataTyped
  PROVE  /\ \A m \in Macs : device[m].version \in Nat /\ store[m].version \in Nat /\ acked[m].version \in Nat
         /\ \A i \in DOMAIN saves : saves[i].mac \in Macs /\ saves[i].fields.version \in Nat
         /\ Len(saves) \in Nat /\ DOMAIN saves = 1..Len(saves)
<1>1. ASSUME NEW f \in Fields PROVE f.version \in Nat
  <2>1. f.version \in 0..MaxVersion
    BY DEF Fields
  <2> QED BY <2>1, BoundsTyped
<1>2. \A i \in DOMAIN saves : saves[i].mac \in Macs /\ saves[i].fields \in Fields
  <2> DEFINE Save1 == [mac : Macs, fields : Fields]
  <2>1. saves \in Seq(Save1) /\ \A s \in Save1 : s.mac \in Macs /\ s.fields \in Fields
    BY DEF DataTyped
  <2> HIDE DEF Save1
  <2> QED BY <2>1
<1>3. Len(saves) \in Nat /\ DOMAIN saves = 1..Len(saves)
  BY DEF DataTyped
<1>4. \A m \in Macs : device[m].version \in Nat /\ acked[m].version \in Nat /\ store[m] \in Fields
  BY BoundsTyped DEF DataTyped, Reports
<1> QED BY <1>1, <1>2, <1>3, <1>4

(* Devices change forward, and what else is saved was just read. *)
LEMMA KeptForward ==
  ASSUME DataTyped, DataTyped', KeptInv, UNCHANGED <<saves, acked>>,
         \A m \in Macs : device'[m].version >= device[m].version,
         \A m \in Macs : store'[m] = store[m] \/ store'[m].version >= device[m].version
  PROVE  KeptInv'
<1>1. \A m \in Macs : device[m].version \in Nat /\ store[m].version \in Nat /\ acked[m].version \in Nat
  BY VersionsAreNat
<1>2. \A m \in Macs : device'[m].version \in Nat /\ store'[m].version \in Nat
  BY <1>1, VersionsAreNat, BoundsTyped DEF DataTyped, Fields
<1>3. \A m \in Macs : acked'[m].version <= device'[m].version
  BY <1>1, <1>2 DEF KeptInv
<1>4. \A m \in Macs : acked[m].version > store'[m].version => acked[m].version > store[m].version
  BY <1>1, <1>2 DEF KeptInv
<1> QED BY <1>3, <1>4 DEF KeptInv, KeptBehind

(* A step that touches neither snapshots nor what was reported. *)
LEMMA SameKept ==
  ASSUME DataTyped, KeptInv, UNCHANGED <<saves, acked, store, device>>
  PROVE  KeptInv'
BY DEF KeptInv, KeptBehind

(* A change is reported, and the newest save has it. *)
LEMMA KeptBackedUp ==
  ASSUME DataTyped, DataTyped', KeptInv, NEW m \in Macs, AutoBackup(m), UNCHANGED store,
         \A n \in Macs : device'[n].version >= device[n].version,
         loaded'.version = device'[m].version
  PROVE  KeptInv'
<1> DEFINE n == Len(saves)
           last == [mac |-> m, fields |-> loaded']
<1>1. /\ last.mac = m /\ last.fields.version = device'[m].version
      /\ saves' = IF loaded'.raw THEN Append(saves, last) ELSE saves
      /\ acked' = [acked EXCEPT ![m] = [version |-> device'[m].version, lost |-> ~loaded'.raw]]
  BY DEF AutoBackup, Sends
<1>2. /\ n \in Nat /\ DOMAIN saves = 1..n
      /\ \A i \in DOMAIN saves : saves[i].mac \in Macs /\ saves[i].fields.version \in Nat
      /\ \A k \in Macs : /\ device[k].version \in Nat /\ store[k].version \in Nat
                         /\ acked[k].version \in Nat
  BY VersionsAreNat
<1>3. device'[m].version \in Nat /\ \A k \in Macs : device'[k].version \in Nat
  BY BoundsTyped DEF DataTyped
<1>4. /\ acked'[m].version = device'[m].version /\ acked'[m].lost = ~loaded'.raw
      /\ \A k \in Macs : k # m => acked'[k] = acked[k]
  BY <1>1 DEF DataTyped
<1> HIDE DEF last
<1>5. \A i \in 1..n : i \in DOMAIN saves' /\ saves'[i] = saves[i]
  BY <1>1, <1>2 DEF DataTyped
<1>6. loaded'.raw => DOMAIN saves' = 1..(n + 1) /\ saves'[n + 1] = last /\ n + 1 \in 1..(n + 1)
  BY <1>1, <1>2 DEF DataTyped
<1>7. ~loaded'.raw => DOMAIN saves' = 1..n
  BY <1>1, <1>2
<1>8. \A k \in Macs : acked'[k].version <= device'[k].version
  BY <1>2, <1>3, <1>4 DEF KeptInv
<1>9. ASSUME NEW i \in DOMAIN saves', ~acked'[saves'[i].mac].lost,
             saves'[i].fields.version < acked'[saves'[i].mac].version
      PROVE  KeptBehind(saves', acked', i)
  <2>1. i \in 1..n
    <3>1. loaded'.raw /\ i = n + 1 => FALSE
      BY <1>1, <1>3, <1>4, <1>6, <1>9
    <3> QED BY <1>2, <1>6, <1>7, <3>1
  <2>2. CASE saves[i].mac = m
    <3>1. loaded'.raw
      BY <1>4, <1>5, <1>9, <2>1, <2>2
    <3>2. n + 1 \in DOMAIN saves' /\ n + 1 > i /\ saves'[n + 1].mac = saves'[i].mac
          /\ saves'[n + 1].fields.version >= acked'[saves'[i].mac].version
      BY <1>1, <1>2, <1>3, <1>4, <1>5, <1>6, <2>1, <2>2, <3>1
    <3> QED BY <3>2 DEF KeptBehind
  <2>3. CASE saves[i].mac # m
    <3>1. saves[i].fields.version < acked[saves[i].mac].version /\ ~acked[saves[i].mac].lost
          /\ acked'[saves[i].mac] = acked[saves[i].mac] /\ saves'[i] = saves[i]
      BY <1>2, <1>4, <1>5, <1>9, <2>1, <2>3
    <3>2. PICK j \in 1..n : j > i /\ saves[j].mac = saves[i].mac
                            /\ saves[j].fields.version >= acked[saves[i].mac].version
      BY <1>2, <2>1, <3>1 DEF KeptInv, KeptBehind
    <3>3. j \in DOMAIN saves' /\ saves'[j] = saves[j]
      BY <1>5
    <3> QED BY <3>1, <3>2, <3>3 DEF KeptBehind
  <2> QED BY <2>2, <2>3
<1>10. ASSUME NEW k \in Macs, ~acked'[k].lost, acked'[k].version > store'[k].version
      PROVE  \E i \in DOMAIN saves' : saves'[i].mac = k /\ saves'[i].fields.version >= acked'[k].version
  <2>1. CASE k = m
    <3>1. n + 1 \in DOMAIN saves' /\ saves'[n + 1].mac = k
          /\ saves'[n + 1].fields.version >= acked'[k].version
      <4>1. loaded'.raw
        BY <1>4, <1>10, <2>1
      <4>2. saves'[n + 1] = last /\ n + 1 \in DOMAIN saves'
        BY <1>6, <4>1
      <4>3. acked'[k].version = device'[m].version
        BY <1>4, <2>1
      <4> QED BY <1>1, <1>3, <2>1, <4>2, <4>3
    <3> QED BY <3>1
  <2>2. CASE k # m
    <3>1. PICK i \in 1..n : saves[i].mac = k /\ saves[i].fields.version >= acked[k].version
      BY <1>2, <1>4, <1>10, <2>2 DEF KeptInv
    <3>2. i \in DOMAIN saves' /\ saves'[i] = saves[i]
      BY <1>5
    <3> QED BY <1>4, <2>2, <3>1, <3>2
  <2> QED BY <2>1, <2>2
<1> QED BY <1>8, <1>9, <1>10 DEF KeptInv

(* The oldest save is done: if it brings less than was reported, another       *)
(* follows, and if it fails what it alone would have brought is given up.      *)
LEMMA KeptSaved == ASSUME DataTyped, KeptInv, NEW kept \in BOOLEAN, SaveAnswered(kept) PROVE KeptInv'
<1> USE DEF outside, history
<1> DEFINE Save1 == [mac : Macs, fields : Fields]
           n == Len(saves)
           m == saves[1].mac
           fields == saves[1].fields
<1>1. saves \in Seq(Save1) /\ saves # <<>>
  BY DEF SaveAnswered, DataTyped
<1> HIDE DEF Save1
<1>2. /\ n \in Nat /\ n >= 1 /\ DOMAIN saves = 1..n /\ Head(saves) = saves[1]
      /\ DOMAIN Tail(saves) = 1..(n - 1) /\ \A i \in 1..(n - 1) : Tail(saves)[i] = saves[i + 1]
  BY <1>1
<1>3. saves' = Tail(saves) /\ UNCHANGED device
  BY DEF SaveAnswered
<1>4. /\ \A i \in 1..n : saves[i].mac \in Macs /\ saves[i].fields.version \in Nat
      /\ \A k \in Macs : store[k].version \in Nat /\ acked[k].version \in Nat
  BY <1>2, VersionsAreNat
<1>5. 1 \in 1..n /\ \A j \in 1..n : j > 1 => j - 1 \in 1..(n - 1) /\ saves'[j - 1] = saves[j]
  <2>1. \A j \in 1..n : j > 1 => j - 1 \in 1..(n - 1) /\ (j - 1) + 1 = j
    BY <1>2
  <2> QED BY <1>2, <1>3, <2>1
<1>6. DOMAIN saves' = 1..(n - 1) /\ \A i \in 1..(n - 1) : i + 1 \in 1..n /\ saves'[i] = saves[i + 1]
  BY <1>2, <1>3
<1>7. /\ \A k \in Macs : acked'[k].version = acked[k].version /\ (acked[k].lost => acked'[k].lost)
      /\ \/ store' = [store EXCEPT ![m] = fields]
         \/ store' = store /\ (~acked'[m].lost => fields.version < acked[m].version)
  <2>1. m \in Macs /\ fields.version \in Nat /\ acked \in [Macs -> Reports]
    BY <1>4, <1>5 DEF DataTyped
  <2>2. CASE kept
    BY <1>2, <2>2 DEF SaveAnswered
  <2>3. CASE ~kept
    <3> DEFINE lost == acked[m].lost \/ fields.version >= acked[m].version
    <3>1. acked' = [acked EXCEPT ![m] = [acked[m] EXCEPT !.lost = lost]] /\ UNCHANGED store
      BY <1>2, <2>1, <2>3 DEF SaveAnswered, Reports
    <3> HIDE DEF m, fields, lost
    <3>2. acked'[m].lost = lost /\ acked'[m].version = acked[m].version
          /\ \A k \in Macs : k # m => acked'[k] = acked[k]
      BY <2>1, <3>1 DEF Reports
    <3>3. ~lost => fields.version < acked[m].version
      BY <1>4, <2>1 DEF lost
    <3> QED BY <3>1, <3>2, <3>3 DEF lost
  <2> QED BY <2>2, <2>3
<1>8. ASSUME NEW i \in DOMAIN saves', ~acked'[saves'[i].mac].lost,
             saves'[i].fields.version < acked'[saves'[i].mac].version
      PROVE  KeptBehind(saves', acked', i)
  <2>1. i \in 1..(n - 1) /\ i + 1 \in DOMAIN saves /\ saves'[i] = saves[i + 1]
        /\ saves[i + 1].mac \in Macs
    BY <1>2, <1>4, <1>6
  <2>2. KeptBehind(saves, acked, i + 1)
    BY <1>7, <1>8, <2>1 DEF KeptInv
  <2>3. PICK j \in 1..n : j > i + 1 /\ saves[j].mac = saves[i + 1].mac
                          /\ saves[j].fields.version >= acked[saves[i + 1].mac].version
    BY <1>2, <2>2 DEF KeptBehind
  <2>4. j - 1 \in DOMAIN saves' /\ j - 1 > i /\ saves'[j - 1] = saves[j]
    BY <1>2, <1>5, <1>6, <2>1, <2>3
  <2> QED BY <1>7, <2>1, <2>3, <2>4 DEF KeptBehind
<1>9. ASSUME NEW k \in Macs, ~acked'[k].lost, acked'[k].version > store'[k].version
      PROVE  \E i \in DOMAIN saves' : saves'[i].mac = k /\ saves'[i].fields.version >= acked'[k].version
  <2>1. acked'[k].version = acked[k].version /\ ~acked[k].lost
    BY <1>7, <1>9
  <2>2. CASE k = m
    <3>1. fields.version < acked[m].version
      BY <1>4, <1>5, <1>7, <1>9, <2>1, <2>2 DEF DataTyped
    <3>2. PICK j \in 1..n : j > 1 /\ saves[j].mac = k /\ saves[j].fields.version >= acked[k].version
      BY <1>2, <1>5, <2>1, <2>2, <3>1 DEF KeptInv, KeptBehind
    <3> QED BY <1>5, <1>6, <2>1, <3>2
  <2>3. CASE k # m
    <3>1. store'[k] = store[k]
      BY <1>7, <2>3 DEF DataTyped
    <3>2. PICK j \in 1..n : saves[j].mac = k /\ saves[j].fields.version >= acked[k].version
      BY <1>2, <1>9, <2>1, <3>1 DEF KeptInv
    <3>3. j > 1
      BY <1>2, <2>3, <3>2
    <3> QED BY <1>5, <1>6, <2>1, <3>2, <3>3
  <2> QED BY <2>2, <2>3
<1>10. \A k \in Macs : acked'[k].version <= device'[k].version
  BY <1>3, <1>7 DEF KeptInv
<1> QED BY <1>8, <1>9, <1>10 DEF KeptInv

(* The user saves nothing and reports nothing. *)
LEMMA UserKept == ASSUME Typed, KeptInv, User PROVE KeptInv'
<1> USE DEF Typed, outside, history
<1>1. CASE Scan \/ Cancel \/ Leave \/ Return
  BY <1>1, SameKept DEF Scan, Cancel, Leave, Return
<1>2. CASE Connect \/ Retry \/ AcceptRead
  <2>1. UNCHANGED <<saves, device, store, acked>>
    BY <1>2 DEF Connect, Retry, AcceptRead, StartRead, Ask, BeginRead
  <2> QED BY <2>1, SameKept
<1>3. CASE Decline \/ ShowServices \/ Save \/ Toggle \/ Back
  BY <1>3, SameKept DEF Decline, ShowServices, Save, Toggle, Back
<1>4. CASE Edit \/ CancelEdit \/ OpenCommands
  BY <1>4, SameKept DEF Edit, CancelEdit, OpenCommands, Turn
<1>5. CASE AcceptCommand \/ Close
  BY <1>5, SameKept DEF AcceptCommand, BeginCommand, Close
<1>6. ASSUME NEW m \in Macs, Select(m) \/ Rescan(m) \/ Dot(m) PROVE KeptInv'
  BY <1>6, SameKept DEF Select, Rescan, Dot
<1>7. ASSUME NEW m \in Macs, NEW c \in Used, Command(m, c) PROVE KeptInv'
  BY <1>7, SameKept DEF Command, Ask, BeginCommand
<1>8. ASSUME NEW clear \in BOOLEAN, AnswerLcd(clear) PROVE KeptInv'
  BY <1>8, SameKept DEF AnswerLcd
<1>9. ASSUME NEW l \in Lists, NEW m \in Macs \union {Nobody}, OpenList(l, m) PROVE KeptInv'
  BY <1>9, SameKept DEF OpenList
<1> QED
  BY <1>1, <1>2, <1>3, <1>4, <1>5, <1>6, <1>7, <1>8, <1>9, Zenon DEF User

(* A device takes a change, or keeps what it has. *)
LEMMA GrownForward ==
  ASSUME DataTyped, NEW m \in Macs, Grows(m) \/ UNCHANGED device
  PROVE  \A n \in Macs : device'[n].version >= device[n].version
<1>1. \A n \in Macs : device[n].version \in Nat
  BY VersionsAreNat
<1>2. CASE Grows(m)
  <2>1. /\ device'[m].version = device[m].version + 1
        /\ \A n \in Macs : n # m => device'[n] = device[n]
    BY <1>2, VersionTyped
  <2>2. device'[m].version >= device[m].version
    BY <1>1, <2>1
  <2> QED BY <1>1, <2>1, <2>2
<1> QED BY <1>1, <1>2

(* What was just read is as new as the device. *)
LEMMA ReadStored ==
  ASSUME DataTyped, NEW m \in Macs, NEW f \in Reads(m), store' = store \/ store' = Saved(f)
  PROVE  \A n \in Macs : store'[n] = store[n] \/ store'[n].version >= device[n].version
<1>1. /\ device[m].version \in Nat /\ f.version = device[m].version
      /\ store' = store \/ store' = [store EXCEPT ![m] = f]
  BY VersionsAreNat, ReadSaved
<1>2. CASE store' = [store EXCEPT ![m] = f]
  <2>1. store'[m] = f /\ \A n \in Macs : n # m => store'[n] = store[n]
    BY <1>2 DEF DataTyped
  <2>2. store'[m].version >= device[m].version
    BY <1>1, <2>1
  <2> QED BY <2>1, <2>2
<1> QED BY <1>1, <1>2

(* Each answer saves at least what it reports. *)
LEMMA AnswerKept ==
  ASSUME Typed, DataTyped', KeptInv, NEW i \in DOMAIN calls, Answer(i) PROVE KeptInv'
<1> USE DEF Typed, outside, history
<1> DEFINE c == calls[i]
           grown == Grows(c.mac) \/ UNCHANGED device
<1>0. c \in GoodCalls
  BY DEF CallsTyped
<1>00. /\ c.kind \in {"read", "services", "write", "command", "clear_lcd", "rescan", "reread"}
            => c.mac \in Macs
       /\ c.live \in BOOLEAN
  BY <1>0 DEF GoodCalls, GoodCall, Calls
<1>000. ASSUME c.mac \in Macs, grown
        PROVE  \A n \in Macs : device'[n].version >= device[n].version
  BY <1>000, GrownForward
<1>0000. \A v \in 0..MaxVersion, m \in Macs : [loaded EXCEPT !.version = v].version = v
  BY VersionTyped
<1>1. CASE ScanAnswered(i) \/ ScanFailed(i) \/ IndexAnswered(i)
  BY <1>1, SameKept DEF ScanAnswered, ScanFailed, IndexAnswered
<1>2. CASE ReadThenHistory(i)
  <2>1. c.mac \in Macs /\ UNCHANGED <<saves, device, acked>>
    BY <1>2, <1>00 DEF ReadThenHistory
  <2>2. PICK f \in Reads(c.mac) : store' = Saved(f)
    BY <1>2 DEF ReadThenHistory
  <2> HIDE DEF c
  <2> QED BY <1>000, <2>1, <2>2, ReadStored, KeptForward
<1>3. CASE WriteAnswered(i)
  <2>1. c.mac \in Macs /\ grown /\ UNCHANGED store
    BY <1>3, <1>00 DEF WriteAnswered, Answering
  <2>2. device'[c.mac].version \in 0..MaxVersion
    BY <2>1 DEF DataTyped
  <2>3. \/ AutoBackup(c.mac) /\ loaded' = [loaded EXCEPT !.version = device'[c.mac].version]
        \/ UNCHANGED <<saves, acked>>
    BY <1>3 DEF WriteAnswered
  <2> HIDE DEF c
  <2>4. CASE AutoBackup(c.mac) /\ loaded' = [loaded EXCEPT !.version = device'[c.mac].version]
    <3>1. loaded'.version = device'[c.mac].version
      BY <1>0000, <2>1, <2>2, <2>4
    <3> QED BY <1>000, <2>1, <2>4, <3>1, KeptBackedUp
  <2>5. CASE UNCHANGED <<saves, acked>>
    BY <1>000, <2>1, <2>5, KeptForward
  <2> QED BY <2>3, <2>4, <2>5
<1>4. CASE SettingTaken(i)
  <2>1. c.mac \in Macs /\ grown
    BY <1>4, <1>00 DEF SettingTaken, Ends, Answering
  <2>2. device'[c.mac].version \in 0..MaxVersion /\ device'[c.mac].version >= device[c.mac].version
    BY <1>000, <2>1 DEF DataTyped
  <2>3. \/ /\ AutoBackup(c.mac) /\ loaded' = [loaded EXCEPT !.version = device'[c.mac].version]
           /\ c.what = "setting"
        \/ UNCHANGED <<saves, acked>>
    BY <1>4 DEF SettingTaken
  <2>4. store' = IF c.what = "encrypt"
                 THEN [store EXCEPT ![c.mac] = 
                         [of |-> c.mac, version |-> device'[c.mac].version, raw |-> TRUE]]
                 ELSE store
    BY <1>4 DEF SettingTaken
  <2> HIDE DEF c
  <2>5. CASE /\ AutoBackup(c.mac) /\ loaded' = [loaded EXCEPT !.version = device'[c.mac].version]
             /\ c.what = "setting"
    <3>1. loaded'.version = device'[c.mac].version
      BY <1>0000, <2>1, <2>2, <2>5
    <3>2. UNCHANGED store
      BY <2>4, <2>5
    <3> QED BY <1>000, <2>1, <2>5, <3>1, <3>2, KeptBackedUp
  <2>6. CASE UNCHANGED <<saves, acked>>
    <3>1. \A n \in Macs : store'[n] = store[n] \/ store'[n].version >= device[n].version
      BY <2>1, <2>2, <2>4 DEF DataTyped
    <3> QED BY <1>000, <2>1, <2>6, <3>1, KeptForward
  <2> QED BY <2>3, <2>5, <2>6
<1>5. CASE LcdAnswered(i)
  <2>1. c.mac \in Macs /\ UNCHANGED <<saves, store, acked>>
    BY <1>5, <1>00 DEF LcdAnswered, LcdDone, Ends, Answering
  <2>2. PICK on \in BOOLEAN, heard \in {"on", "off", "nothing"} : Overlay(c.mac, on, heard)
    BY <1>5, <2>1, OverlayDone
  <2>3. \A n \in Macs : device'[n].version = device[n].version /\ device[n].version \in Nat
    BY <2>1, <2>2, OverlayTyped, VersionsAreNat
  <2>4. \A n \in Macs : device'[n].version >= device[n].version
    BY <2>3
  <2> QED BY <2>1, <2>4, KeptForward
<1>6. CASE CommandEnds(i)
  <2>1. c.mac \in Macs /\ UNCHANGED <<saves, store, acked>>
    BY <1>6, <1>00 DEF CommandEnds, Ends, Answering
  <2>2. CASE grown
    BY <1>000, <2>1, <2>2, KeptForward
  <2>3. CASE Overlay(c.mac, c.what = "show", "nothing")
    <3>1. \A n \in Macs : device'[n].version = device[n].version /\ device[n].version \in Nat
      BY <2>1, <2>3, OverlayTyped, VersionsAreNat
    <3>2. \A n \in Macs : device'[n].version >= device[n].version
      BY <3>1
    <3> QED BY <2>1, <3>2, KeptForward
  <2> QED BY <1>6, <2>2, <2>3 DEF CommandEnds
<1>7. CASE Restored(i)
  <2>1. c.mac \in Macs /\ grown /\ UNCHANGED <<saves, store, acked>>
    BY <1>7, <1>00 DEF Restored
  <2> QED BY <1>000, <2>1, KeptForward
<1>8. ASSUME NEW found \in SUBSET Macs, ScanShown(i, found) PROVE KeptInv'
  BY <1>8, SameKept DEF ScanShown
<1>9. ASSUME NEW ok \in BOOLEAN, ReadAnswered(i, ok) PROVE KeptInv'
  <2>1. c.mac \in Macs /\ UNCHANGED <<saves, device, acked>>
    BY <1>9, <1>00 DEF ReadAnswered, Answering
  <2>2. PICK f \in Reads(c.mac) : store' = store \/ store' = Saved(f)
    BY <1>9 DEF ReadAnswered
  <2> HIDE DEF c
  <2> QED BY <1>000, <2>1, <2>2, ReadStored, KeptForward
<1>10. ASSUME NEW ok \in BOOLEAN, ServicesAnswered(i, ok) \/ LoadAnswered(i, ok) PROVE KeptInv'
  BY <1>10, SameKept DEF ServicesAnswered, LoadAnswered
<1>11. ASSUME NEW ok \in BOOLEAN, WriteFailed(i, ok) PROVE KeptInv'
  <2>1. c.mac \in Macs /\ grown /\ UNCHANGED <<saves, store, acked>>
    BY <1>11, <1>00 DEF WriteFailed, Answering
  <2> QED BY <1>000, <2>1, KeptForward
<1>12. ASSUME NEW ok \in BOOLEAN, RepeaterAnswered(i, ok) PROVE KeptInv'
  <2>1. c.mac \in Macs /\ grown /\ UNCHANGED store
    BY <1>12, <1>00 DEF RepeaterAnswered, Ends, Answering
  <2>3. \/ AutoBackup(c.mac) /\ loaded'.version = device'[c.mac].version
        \/ UNCHANGED <<saves, acked>>
    BY <1>12 DEF RepeaterAnswered
  <2> HIDE DEF c
  <2>4. CASE AutoBackup(c.mac) /\ loaded'.version = device'[c.mac].version
    BY <1>000, <2>1, <2>4, KeptBackedUp
  <2>5. CASE UNCHANGED <<saves, acked>>
    BY <1>000, <2>1, <2>5, KeptForward
  <2> QED BY <2>3, <2>4, <2>5
<1>13. ASSUME NEW ok \in BOOLEAN, LcdCleared(i, ok) PROVE KeptInv'
  <2>1. c.mac \in Macs
    BY <1>13, <1>00 DEF LcdCleared, Answering
  <2>2. Overlay(c.mac, device[c.mac].lcd /\ ~ok, "off") /\ UNCHANGED <<saves, store, acked>>
    BY <1>13 DEF LcdCleared
  <2>3. (device[c.mac].lcd /\ ~ok) \in BOOLEAN
    OBVIOUS
  <2>4. \A n \in Macs : device'[n].version = device[n].version /\ device[n].version \in Nat
    BY <2>1, <2>2, <2>3, OverlayTyped, VersionsAreNat
  <2>5. \A n \in Macs : device'[n].version >= device[n].version
    BY <2>4
  <2> QED BY <2>2, <2>5, KeptForward
<1>14. ASSUME NEW ok \in BOOLEAN, RescanAnswered(i, ok) \/ RereadAnswered(i, ok) PROVE KeptInv'
  <2>1. c.mac \in Macs /\ UNCHANGED <<saves, device, acked>>
    BY <1>14, <1>00 DEF RescanAnswered, RereadAnswered, Answering
  <2>2. PICK f \in Reads(c.mac) : store' = store \/ store' = Saved(f)
    BY <1>14 DEF RescanAnswered, RereadAnswered
  <2> HIDE DEF c
  <2> QED BY <1>000, <2>1, <2>2, ReadStored, KeptForward
<1> QED
  BY <1>1, <1>2, <1>3, <1>4, <1>5, <1>6, <1>7, <1>8, <1>9, <1>10, <1>11, <1>12, <1>13, <1>14, Zenon
  DEF Answer

LEMMA KeptStep == Typed /\ KeptInv /\ [Next]_vars => KeptInv'
<1> SUFFICES ASSUME Typed, KeptInv, [Next]_vars PROVE KeptInv'
  OBVIOUS
<1> USE DEF outside, history
<1>0. Typed'
  BY TypedStep
<1>1. CASE User
  BY <1>1, UserKept
<1>2. CASE \E i \in DOMAIN calls : Answer(i)
  BY <1>0, <1>2, AnswerKept DEF Typed
<1>3. CASE \E kept \in BOOLEAN : SaveAnswered(kept)
  BY <1>3, KeptSaved DEF Typed
<1>4. CASE (\E active \in BOOLEAN : Poll(active)) \/ UNCHANGED vars
  BY <1>4, SameKept DEF Poll, vars, Typed
<1> QED BY <1>1, <1>2, <1>3, <1>4 DEF Next

(* What the panel reported as done on a device is in the newest snapshot of it *)
(* or on its way there, whatever is read, restored and saved meanwhile, with   *)
(* any devices and any number of changes; but for a change whose fields lack   *)
(* the raw bytes, which _autoBackup does not send, and one whose own save      *)
(* failed, of which nobody hears.                                              *)
THEOREM AnsweredKeptCorrect == Spec => []AnsweredKept
<1>1. Init => KeptInv
  <2> SUFFICES ASSUME Init PROVE KeptInv
    OBVIOUS
  <2>1. Typed
    BY TypedInit
  <2>2. saves = <<>> /\ \A m \in Macs : acked[m].version = 0 /\ device[m].version = 0 /\ store[m].version = 0
    BY DEF Init, NoFields
  <2> QED BY <2>2 DEF KeptInv
<1>2. KeptInv => AnsweredKept
  BY DEF KeptInv, AnsweredKept
<1> QED BY <1>1, <1>2, TypedInit, TypedStep, KeptStep, PTL DEF Spec

-----------------------------------------------------------------------------
(* The calls whose answers change what a dialog shows, while they are wanted. *)
Wanted == {c \in Elems(calls) : IsWanted(c)}

(* A call that takes a token is the only one wanted. *)
LEMMA WantedIssued ==
  ASSUME CallsTyped, NEW c \in GoodCalls, Issue(c)
  PROVE  /\ \A d \in Wanted' : d = c /\ IsWanted(c)
         /\ IsWanted(c) => c \in Wanted'
<1>1. calls' = Append(Staled, c) /\ Elems(calls') = Elems(Staled) \union {c}
  BY CallsStaled, CallsAppended DEF Issue
<1>2. \A d \in Elems(Staled) : ~d.live
  BY CallsStaled
<1> QED BY <1>1, <1>2 DEF Wanted, IsWanted

(* A call without a token is not wanted, and takes nothing from another. *)
LEMMA WantedSent ==
  ASSUME CallsTyped, NEW c \in GoodCalls, Send(c), ~IsWanted(c)
  PROVE  Wanted' = Wanted
<1>1. Elems(calls') = Elems(calls) \union {c}
  BY CallsAppended DEF Send, CallsTyped
<1> QED BY <1>1 DEF Wanted, IsWanted

(* Once the calls are stale none is wanted. *)
LEMMA WantedStaled == ASSUME CallsTyped, calls' = Staled PROVE Wanted' = {}
BY CallsStaled DEF Wanted, IsWanted

LEMMA SameWanted == ASSUME UNCHANGED calls PROVE Wanted' = Wanted
BY DEF Wanted, IsWanted, Elems

(* An answer makes at most its own call unwanted. *)
LEMMA ElemsAnswered ==
  ASSUME CallsTyped, NEW i \in DOMAIN calls, Answer(i)
  PROVE  /\ calls[i] \in Elems(calls) /\ calls[i] \in GoodCalls
         /\ Elems(calls) \subseteq Elems(calls') \union {calls[i]}
         /\ \A d \in Elems(calls') :
              \/ d \in Elems(calls)
              \/ d.kind \in {"index", "load", "reread"} /\ d \in GoodCalls
<1>0. calls \in Seq(GoodCalls) /\ calls[i] \in GoodCalls /\ calls[i] \in Elems(calls)
  BY DEF CallsTyped, Elems
<1>1. CASE calls' = RemoveAt(calls, i)
  BY <1>0, <1>1, CallsRemoved
<1>2. CASE /\ calls[i].kind = "command"
           /\ calls' = Append(RemoveAt(calls, i), Call("reread", calls[i].mac, "none"))
  <2>1. Call("reread", calls[i].mac, "none") \in GoodCalls
        /\ Call("reread", calls[i].mac, "none").kind = "reread"
    BY <1>0, <1>2, ACallIsGood DEF GoodCalls, GoodCall, Call
  <2>2. RemoveAt(calls, i) \in Seq(GoodCalls)
    BY <1>0, CallsRemoved
  <2>3. Elems(calls') = Elems(RemoveAt(calls, i)) \union {Call("reread", calls[i].mac, "none")}
    BY <1>2, <2>1, <2>2, CallsAppended
  <2>4. Elems(RemoveAt(calls, i)) \subseteq Elems(calls)
        /\ Elems(calls) \subseteq Elems(RemoveAt(calls, i)) \union {calls[i]}
    BY <1>0, CallsRemoved
  <2> QED BY <1>0, <2>1, <2>3, <2>4
<1>3. ASSUME NEW c \in GoodCalls, c.kind \in {"index", "load"}, calls' = [calls EXCEPT ![i] = c]
      PROVE  /\ Elems(calls) \subseteq Elems(calls') \union {calls[i]}
             /\ Elems(calls') \subseteq Elems(calls) \union {c}
  BY <1>0, <1>3, CallsTurned
<1> QED BY <1>0, <1>1, <1>2, <1>3, AnswerEffect

(* An answer brings up no wanted call, and leaves all but its own. *)
LEMMA WantedAnswered ==
  ASSUME CallsTyped, NEW i \in DOMAIN calls, Answer(i)
  PROVE  /\ Wanted' \subseteq Wanted
         /\ \A c \in Wanted : c = calls[i] \/ c \in Wanted'
         /\ IsWanted(calls[i]) => calls[i] \in Wanted
BY ElemsAnswered DEF Wanted, IsWanted

(* A dialog is open exactly when it has a body. *)
LEMMA OpenBody == ASSUME DialogTyped PROVE Open <=> dialog.body # "none"
BY NoDialogTyped DEF DialogTyped, Open

(* Which steps leave a dialog open. *)
LEMMA BodyNext ==
  ASSUME DialogTyped
  PROVE  /\ UNCHANGED dialog => (Open' <=> Open)
         /\ dialog' = NoDialog => ~Open'
         /\ \A b \in Bodies \ {"none"}, m \in Macs \union {Nobody} : dialog' = Shown(b, m) => Open'
         /\ \A b \in Bodies \ {"none"} : dialog' = [dialog EXCEPT !.body = b] => Open'
         /\ \A b \in Bodies \ {"none"}, m \in Macs \union {Nobody} :
              dialog' = [dialog EXCEPT !.body = b, !.mac = m] => Open'
<1>1. UNCHANGED dialog => (Open' <=> Open)
  BY DEF Open
<1>2. dialog' = NoDialog => ~Open'
  BY DEF Open
<1>3. dialog'.body # "none" => Open'
  BY NoDialogTyped DEF Open
<1>4. \A b \in Bodies \ {"none"}, m \in Macs \union {Nobody} : dialog' = Shown(b, m) => Open'
  BY <1>3, ShownTyped
<1>5. \A b \in Bodies \ {"none"} : dialog' = [dialog EXCEPT !.body = b] => Open'
  BY <1>3 DEF DialogTyped, Screens
<1>6. \A b \in Bodies \ {"none"}, m \in Macs \union {Nobody} :
        dialog' = [dialog EXCEPT !.body = b, !.mac = m] => Open'
  BY <1>3 DEF DialogTyped, Screens
<1> QED BY <1>1, <1>2, <1>4, <1>5, <1>6

-----------------------------------------------------------------------------
(* Why the panel is never stuck.  A toolbar that cannot scan can cancel, or a  *)
(* dialog is over it; and the buttons of a dialog are disabled while a change  *)
(* of its device is wanted, which a second call could only take the place of.  *)
Usable == top.scan \/ top.cancel \/ Open
StuckInv ==
  /\ Usable
  /\ locked \/ confirm.why = "command" => Open
  /\ locked /\ budget.moves = MaxMoves => \E c \in Wanted : c.kind # "read"

(* What the toolbar can do at the end and at the beginning of an operation. *)
LEMMA ToolbarFacts ==
  /\ \A f : EndOp(f).scan /\ ~EndOp(f).cancel
  /\ \A b \in BOOLEAN : BeginOp(b).cancel = b
  /\ \A t \in Toolbars, b \in BOOLEAN :
       /\ [t EXCEPT !.connect = b].scan = t.scan /\ [t EXCEPT !.connect = b].cancel = t.cancel
       /\ [t EXCEPT !.busy = b].scan = t.scan /\ [t EXCEPT !.busy = b].cancel = t.cancel
BY DEF EndOp, BeginOp, Toolbars

(* A step that takes nothing away that the user could go on with. *)
LEMMA StillUsable ==
  ASSUME StuckInv, Open => Open', Usable \/ Open => Usable',
         locked' => locked /\ \A c \in Wanted : c.kind # "read" => c \in Wanted',
         confirm'.why = "command" => confirm.why = "command" \/ Open,
         budget'.moves = budget.moves
  PROVE  StuckInv'
BY DEF StuckInv

(* A step after which the buttons work, under a toolbar or a dialog. *)
LEMMA UnlockedUsable ==
  ASSUME ~locked', confirm'.why # "command", Usable' PROVE StuckInv'
BY DEF StuckInv

(* A change of the device of an open dialog begins. *)
LEMMA LockedUsable ==
  ASSUME Typed, StuckInv, Open, UNCHANGED dialog, NEW c \in GoodCalls, Issue(c),
         c.live, c.kind \in {"write", "command"}
  PROVE  StuckInv'
<1>1. Open' /\ Usable'
  BY DEF Open, Usable
<1>2. c \in Wanted'
  BY WantedIssued DEF IsWanted, Typed
<1> QED BY <1>1, <1>2 DEF StuckInv

LEMMA MadeMoves == ASSUME BudgetTyped, Made PROVE budget'.moves = budget.moves
BY DEF Made, BudgetTyped

LEMMA ToolbarKept == ASSUME UNCHANGED <<top, dialog>> PROVE Usable \/ Open => Usable' /\ (Open => Open')
BY DEF Usable, Open

(* A read begins under its own dialog. *)
LEMMA BeginReadUsable ==
  ASSUME Typed, NEW m \in Macs, NEW then, BeginRead(m, then), confirm' = NoConfirm
  PROVE  StuckInv'
<1>1. dialog' = Shown("loading", m) /\ ~locked'
  BY DEF BeginRead
<1>2. Open'
  BY <1>1, BodyNext DEF Typed, ScreenTyped, Bodies
<1> QED BY <1>1, <1>2, UnlockedUsable DEF NoConfirm, Usable

LEMMA StartReadUsable ==
  ASSUME Typed, StuckInv, NEW then \in {"view", "history"}, StartRead(then) PROVE StuckInv'
<1>1. CASE Ask("weak", selected, then)
  <2>1. UNCHANGED <<top, dialog, locked, calls, budget>> /\ confirm'.why = "weak"
    BY <1>1 DEF Ask, page, screen
  <2> QED BY <2>1, ToolbarKept, SameWanted, StillUsable
<1>2. CASE confirm' = NoConfirm /\ BeginRead(selected, then)
  BY <1>2, StartReadIsGood, BeginReadUsable
<1> QED BY <1>1, <1>2, StartReadIsGood

(* The user's steps leave a way on. *)
LEMMA UserUsable == ASSUME Typed, StuckInv, User PROVE StuckInv'
<1> USE DEF Typed, page, table, screen, history
<1>1. CASE Scan
  <2>1. ~locked /\ UNCHANGED <<locked, confirm, dialog>> /\ confirm.why # "command"
    BY <1>1 DEF Scan, OnPage, Free, StuckInv, Open, NoConfirm
  <2>2. top'.cancel
    BY <1>1, ToolbarFacts DEF Scan
  <2> QED BY <2>1, <2>2, UnlockedUsable DEF Usable
<1>2. CASE Cancel
  <2>1. ~locked /\ UNCHANGED <<locked, confirm, dialog>> /\ confirm.why # "command"
    BY <1>2 DEF Cancel, OnPage, Free, StuckInv, Open, NoConfirm
  <2>2. top'.scan
    BY <1>2, ToolbarFacts DEF Cancel
  <2> QED BY <2>1, <2>2, UnlockedUsable DEF Usable
<1>3. CASE Leave
  <2>1. UNCHANGED <<locked, confirm, dialog>> /\ (Open => Open')
    BY <1>3 DEF Leave, Open
  <2>2. top'.scan = top.scan /\ top'.cancel = top.cancel
    BY <1>3, ToolbarFacts DEF Leave, PageTyped
  <2>3. budget'.moves # MaxMoves
    <3>1. budget.moves \in 0..MaxMoves /\ budget'.moves = budget.moves - 1
      BY <1>3 DEF Leave, PageTyped, BudgetTyped
    <3> QED BY <3>1, BoundsTyped
  <2> QED BY <2>1, <2>2, <2>3 DEF StuckInv, Usable
<1>4. CASE Return
  BY <1>4, ToolbarKept, SameWanted, StillUsable DEF Return
<1>5. CASE Connect \/ Retry
  BY <1>5, StartReadUsable DEF Connect, Retry
<1>6. CASE AcceptRead
  <2>1. CASE confirm.why = "weak" /\ confirm' = NoConfirm /\ BeginRead(confirm.mac, confirm.what)
    BY <2>1, BeginReadUsable DEF ScreenTyped, ConfirmTyped
  <2>2. CASE StartRead("history")
    BY <2>2, StartReadUsable
  <2> QED BY <1>6, <2>1, <2>2 DEF AcceptRead
<1>7. CASE Decline
  BY <1>7, ToolbarKept, SameWanted, StillUsable DEF Decline, NoConfirm
<1>8. CASE ShowServices
  <2>1. Call("services", dialog.mac, "none") \in GoodCalls
        /\ ~IsWanted(Call("services", dialog.mac, "none"))
    <3>1. dialog.mac \in Macs
      BY <1>8 DEF ShowServices, In, ScreenTyped, DialogTyped, OfDevice
    <3> QED BY <3>1, ACallIsGood DEF Call, IsWanted
  <2>2. Wanted' = Wanted /\ budget'.moves = budget.moves
    BY <1>8, <2>1, WantedSent, MadeMoves DEF ShowServices, PageTyped, Send
  <2> QED BY <1>8, <2>2, ToolbarKept, StillUsable DEF ShowServices
<1>9. CASE Back
  <2>1. ~locked' /\ dialog' = Shown("view", dialog.mac) /\ confirm'.why # "command"
    BY <1>9 DEF Back, View, In, Free, NoConfirm
  <2>2. Open'
    BY <2>1, BodyNext DEF ScreenTyped, DialogTyped, Screens, Bodies
  <2> QED BY <2>1, <2>2, UnlockedUsable DEF Usable
<1>10. CASE Edit \/ CancelEdit \/ OpenCommands
  <2>1. PICK b \in {"view", "edit", "commands"} :
          ~locked' /\ dialog' = [dialog EXCEPT !.body = b] /\ confirm'.why # "command"
    BY <1>10 DEF Edit, CancelEdit, OpenCommands, Turn, Body, In, Free, NoConfirm
  <2>2. Open'
    BY <2>1, BodyNext DEF ScreenTyped, DialogTyped, Bodies
  <2> QED BY <2>1, <2>2, UnlockedUsable DEF Usable
<1>11. CASE Save
  <2>1. dialog.mac \in Macs /\ Open
    BY <1>11, OpenBody DEF Save, In, ScreenTyped, DialogTyped, OfDevice
  <2>2. /\ Call("write", dialog.mac, "none") \in GoodCalls
        /\ Call("write", dialog.mac, "none").live /\ Call("write", dialog.mac, "none").kind = "write"
    BY <2>1, ACallIsGood DEF Call
  <2> QED BY <1>11, <2>1, <2>2, LockedUsable DEF Save
<1>12. ASSUME NEW m \in Macs, NEW c \in Commands, BeginCommand(m, c), Open PROVE StuckInv'
  <2>1. Call("command", m, c) \in GoodCalls /\ Call("command", m, c).live
        /\ Call("command", m, c).kind = "command"
    BY ACallIsGood DEF Call
  <2> QED BY <1>12, <2>1, LockedUsable DEF BeginCommand
<1>13. CASE AcceptCommand
  <2>1. confirm.mac \in Macs /\ confirm.what \in Commands /\ Open
        /\ BeginCommand(confirm.mac, confirm.what)
    BY <1>13 DEF AcceptCommand, ScreenTyped, ConfirmTyped, StuckInv
  <2> QED BY <1>12, <2>1
<1>14. CASE Close
  <2>1. CASE lcd = Nobody
    <3>1. ~locked' /\ top'.scan /\ confirm'.why # "command"
      BY <1>14, <2>1, ToolbarFacts DEF Close, CloseNow, Free, NoConfirm
    <3> QED BY <3>1, UnlockedUsable DEF Usable
  <2>2. CASE lcd # Nobody
    <3>1. confirm'.why = "lcd" /\ UNCHANGED <<top, dialog, locked, calls, budget>>
      BY <1>14, <2>2 DEF Close
    <3> QED BY <3>1, ToolbarKept, SameWanted, StillUsable
  <2> QED BY <2>1, <2>2
<1>15. CASE Toggle
  BY <1>15, ToolbarKept, SameWanted, StillUsable DEF Toggle
<1>16. ASSUME NEW m \in Macs, Select(m) \/ Dot(m) PROVE StuckInv'
  <2>1. UNCHANGED <<dialog, locked, calls, budget>>
        /\ (confirm'.why = "command" => confirm.why = "command")
    BY <1>16 DEF Select, Dot
  <2>2. top'.scan = top.scan /\ top'.cancel = top.cancel
    <3>1. top' = top \/ top' = [top EXCEPT !.connect = Connectable(m, inflight)]
      BY <1>16 DEF Select, Dot
    <3>2. top \in Toolbars /\ Connectable(m, inflight) \in BOOLEAN
      BY DEF PageTyped, Connectable
    <3> QED BY <3>1, <3>2, ToolbarFacts DEF Toolbars
  <2>3. (Open => Open') /\ (Usable \/ Open => Usable')
    BY <2>1, <2>2 DEF Open, Usable
  <2> QED BY <2>1, <2>3, SameWanted, StillUsable
<1>17. ASSUME NEW m \in Macs, Rescan(m) PROVE StuckInv'
  <2>1. Call("rescan", m, "none") \in GoodCalls /\ ~IsWanted(Call("rescan", m, "none"))
    BY ACallIsGood DEF Call, IsWanted
  <2>2. Wanted' = Wanted /\ budget'.moves = budget.moves
    BY <1>17, <2>1, WantedSent, MadeMoves DEF Rescan, PageTyped, Send
  <2> QED BY <1>17, <2>2, ToolbarKept, StillUsable DEF Rescan
<1>18. ASSUME NEW m \in Macs, NEW c \in Used, Command(m, c) PROVE StuckInv'
  <2>0. Open /\ c \in Commands
    BY <1>18, OpenBody, OfferedIsGood DEF Command, Offered, In, ScreenTyped
  <2>1. CASE Ask("command", m, c)
    <3>1. UNCHANGED <<top, dialog, locked, calls, budget>>
      BY <2>1 DEF Ask
    <3> QED BY <2>0, <3>1, ToolbarKept, SameWanted, StillUsable
  <2>2. CASE BeginCommand(m, c) /\ UNCHANGED confirm
    BY <1>12, <2>0, <2>2
  <2> QED BY <1>18, <2>1, <2>2 DEF Command
<1>19. ASSUME NEW clear \in BOOLEAN, AnswerLcd(clear) PROVE StuckInv'
  <2>1. ~locked' /\ top'.scan /\ confirm'.why # "command"
    BY <1>19, ToolbarFacts DEF AnswerLcd, CloseNow, NoConfirm
  <2> QED BY <2>1, UnlockedUsable DEF Usable
<1>20. ASSUME NEW l \in Lists, NEW m \in Macs \union {Nobody}, OpenList(l, m) PROVE StuckInv'
  <2>1. ~locked' /\ confirm'.why # "command" /\ dialog' = Shown("waiting", Nobody)
    BY <1>20 DEF OpenList, OnPage, Free, NoConfirm
  <2>2. Open'
    BY <2>1, BodyNext DEF ScreenTyped, Bodies
  <2> QED BY <2>1, <2>2, UnlockedUsable DEF Usable
<1> QED
  BY <1>1, <1>2, <1>3, <1>4, <1>5, <1>6, <1>7, <1>8, <1>9, <1>10, <1>11, <1>13, <1>14,
     <1>15, <1>16, <1>17, <1>18, <1>19, <1>20, Zenon DEF User

(* The answers close no dialog, and an answer unlocks what waited for it. *)
LEMMA AnswerUsable ==
  ASSUME Typed, StuckInv, NEW i \in DOMAIN calls, Answer(i) PROVE StuckInv'
<1> USE DEF Typed, page, table, screen, history
<1> DEFINE c == calls[i]
<1>0. c \in GoodCalls
  BY DEF CallsTyped
<1>00. /\ c.kind \in {"read", "services", "write", "command", "clear_lcd", "rescan", "reread"}
            => c.mac \in Macs
       /\ c.kind = "load" => c.what \in Listings
       /\ c.live \in BOOLEAN
  BY <1>0 DEF GoodCalls, GoodCall, Calls
<1>w. \A d \in Wanted : d = c \/ d \in Wanted'
  BY WantedAnswered
<1>l. IsWanted(c) \in BOOLEAN /\ (~c.live => ~IsWanted(c)) /\ (c.kind = "read" => ~(c.kind # "read"))
      /\ \A d \in Wanted : IsWanted(d)
  BY DEF IsWanted, Wanted
<1>b. {"view", "error", "services", "waiting"} \union Listings \subseteq Bodies \ {"none"}
  BY DEF Bodies, Listings
<1>1. CASE ScanAnswered(i) \/ ScanFailed(i) \/ IndexAnswered(i)
  <2>1. UNCHANGED <<dialog, locked, confirm, budget>> /\ c.kind \in {"scan", "index"}
        /\ (top' = top \/ top'.scan)
    BY <1>1, ToolbarFacts DEF ScanAnswered, ScanFailed, IndexAnswered, Answering
  <2>2. (Open => Open') /\ (Usable \/ Open => Usable')
    BY <2>1 DEF Open, Usable
  <2> QED BY <1>w, <1>l, <2>1, <2>2, StillUsable DEF IsWanted
<1>2. CASE ReadThenHistory(i)
  <2>1. ~locked' /\ top'.scan /\ UNCHANGED <<confirm, budget>> /\ dialog' = Shown("waiting", Nobody)
    BY <1>2, ToolbarFacts DEF ReadThenHistory
  <2>2. Open'
    BY <1>b, <2>1, BodyNext DEF ScreenTyped
  <2> QED BY <2>1, <2>2, StillUsable DEF Usable
<1>3. ASSUME \/ UNCHANGED dialog /\ (locked' => locked /\ ~c.live)
             \/ dialog' = Shown("view", c.mac) /\ ~locked',
             c.mac \in Macs, UNCHANGED <<top, confirm, budget>>
      PROVE  StuckInv'
  <2>1. Open => Open'
    BY <1>b, <1>3, BodyNext DEF ScreenTyped
  <2>2. Usable \/ Open => Usable'
    BY <1>3, <2>1 DEF Usable
  <2> QED BY <1>w, <1>l, <1>3, <2>1, <2>2, StillUsable
<1>4. CASE WriteAnswered(i)
  <2>1. IF c.live THEN View(c.mac) ELSE UNCHANGED <<dialog, locked>>
    BY <1>4 DEF WriteAnswered
  <2>2. c.mac \in Macs /\ UNCHANGED <<top, confirm, budget>>
    BY <1>4, <1>00 DEF WriteAnswered, Answering
  <2> QED BY <1>3, <2>1, <2>2 DEF View
<1>5. CASE SettingTaken(i) \/ CommandEnds(i) \/ LcdAnswered(i) \/ Restored(i)
  <2>1. Unlock(i) /\ c.mac \in Macs /\ UNCHANGED <<top, confirm, budget>>
    BY <1>5, <1>00 DEF SettingTaken, CommandEnds, LcdAnswered, LcdDone, Restored, Ends, Answering
  <2> QED BY <1>3, <2>1 DEF Unlock
<1>6. ASSUME NEW found \in SUBSET Macs, ScanShown(i, found) PROVE StuckInv'
  <2>1. c.kind = "scan"
    BY <1>6 DEF ScanShown
  <2> QED BY <1>6, <1>w, <1>l, <2>1, ToolbarKept, StillUsable DEF ScanShown, IsWanted
<1>7. ASSUME NEW ok \in BOOLEAN, ReadAnswered(i, ok) PROVE StuckInv'
  <2>1. c.mac \in Macs /\ c.kind = "read" /\ UNCHANGED <<confirm, budget>>
    BY <1>7, <1>00 DEF ReadAnswered, Answering
  <2>2. \/ UNCHANGED <<dialog, locked>>
        \/ dialog' = Shown("view", c.mac) /\ ~locked'
        \/ dialog' = [dialog EXCEPT !.body = "error", !.mac = c.mac] /\ ~locked'
    BY <1>7 DEF ReadAnswered, View, SameScreen
  <2>3. Open => Open'
    BY <1>b, <2>1, <2>2, BodyNext DEF ScreenTyped
  <2>4. top'.scan \/ (top'.scan = top.scan /\ top'.cancel = top.cancel)
    <3>1. top' = EndOp(inflight') \/ top' = [top EXCEPT !.connect = Connectable(selected, inflight')]
      BY <1>7 DEF ReadAnswered
    <3>2. top \in Toolbars /\ Connectable(selected, inflight') \in BOOLEAN
      BY DEF PageTyped, Connectable
    <3> QED BY <3>1, <3>2, ToolbarFacts DEF Toolbars
  <2>5. Usable \/ Open => Usable'
    BY <2>3, <2>4 DEF Usable
  <2>6. \A d \in Wanted : d.kind # "read" => d \in Wanted'
    BY <1>w, <2>1
  <2>7. locked' => locked
    BY <2>2
  <2> QED BY <2>1, <2>3, <2>5, <2>6, <2>7, StillUsable
<1>8. ASSUME NEW ok \in BOOLEAN, ServicesAnswered(i, ok) PROVE StuckInv'
  <2>1. c.mac \in Macs /\ c.kind = "services" /\ UNCHANGED <<confirm, budget, top>>
    BY <1>8, <1>00 DEF ServicesAnswered, Answering
  <2>2. \/ UNCHANGED <<dialog, locked>>
        \/ dialog' = [dialog EXCEPT !.body = "services", !.mac = c.mac] /\ ~locked'
    BY <1>8 DEF ServicesAnswered, SameScreen
  <2>3. Open => Open'
    BY <1>b, <2>1, <2>2, BodyNext DEF ScreenTyped
  <2>4. Usable \/ Open => Usable'
    BY <2>1, <2>3 DEF Usable
  <2> QED BY <1>w, <1>l, <2>1, <2>2, <2>3, <2>4, StillUsable DEF IsWanted
<1>9. ASSUME NEW ok \in BOOLEAN, WriteFailed(i, ok) \/ RepeaterAnswered(i, ok) PROVE StuckInv'
  <2>1. c.mac \in Macs /\ UNCHANGED <<top, confirm, budget>>
    BY <1>9, <1>00 DEF WriteFailed, RepeaterAnswered, Ends, Answering
  <2>2. \/ UNCHANGED dialog /\ (locked' => locked /\ ~c.live)
        \/ dialog' = Shown("view", c.mac) /\ ~locked'
    BY <1>9, <1>00 DEF WriteFailed, RepeaterAnswered, View, SameScreen
  <2> QED BY <1>3, <2>1, <2>2
<1>10. ASSUME NEW ok \in BOOLEAN, LcdCleared(i, ok) \/ RereadAnswered(i, ok) PROVE StuckInv'
  <2>1. c.kind \in {"clear_lcd", "reread"} /\ UNCHANGED <<top, confirm, budget, dialog, locked>>
    BY <1>10 DEF LcdCleared, RereadAnswered, Answering
  <2> QED BY <1>w, <1>l, <2>1, ToolbarKept, StillUsable DEF IsWanted
<1>11. ASSUME NEW ok \in BOOLEAN, LoadAnswered(i, ok) \/ RescanAnswered(i, ok) PROVE StuckInv'
  <2>1. c.kind \in {"load", "rescan"} /\ UNCHANGED <<top, confirm, budget>>
    BY <1>11 DEF LoadAnswered, RescanAnswered, Answering
  <2>2. "compare" \in Listings
    BY DEF Listings
  <2>3. \/ UNCHANGED <<dialog, locked>>
        \/ ~locked' /\ \E b \in Listings : dialog' = [dialog EXCEPT !.body = b]
    BY <1>11, <1>00, <2>2 DEF LoadAnswered, RescanAnswered, Body, SameScreen, Answering
  <2>4. Open => Open'
    BY <1>b, <2>3, BodyNext DEF ScreenTyped
  <2>5. Usable \/ Open => Usable'
    BY <2>1, <2>4 DEF Usable
  <2>6. \A d \in Wanted : d \in Wanted'
    BY <1>w, <1>l, <2>1 DEF IsWanted
  <2>7. locked' => locked
    BY <2>3
  <2> QED BY <2>1, <2>4, <2>5, <2>6, <2>7, StillUsable
<1> QED
  BY <1>1, <1>2, <1>4, <1>5, <1>6, <1>7, <1>8, <1>9, <1>10, <1>11, Zenon DEF Answer

LEMMA StuckStep == Typed /\ StuckInv /\ [Next]_vars => StuckInv'
<1> SUFFICES ASSUME Typed, StuckInv, [Next]_vars PROVE StuckInv'
  OBVIOUS
<1> USE DEF Typed, page, table, screen, history
<1>1. CASE User
  BY <1>1, UserUsable
<1>2. CASE \E i \in DOMAIN calls : Answer(i)
  BY <1>2, AnswerUsable
<1>3. CASE (\E kept \in BOOLEAN : SaveAnswered(kept)) \/ UNCHANGED vars
  BY <1>3, ToolbarKept, SameWanted, StillUsable DEF SaveAnswered, vars
<1>4. ASSUME NEW active \in BOOLEAN, Poll(active) PROVE StuckInv'
  <2>0. UNCHANGED <<confirm, calls>> /\ budget'.moves = budget.moves
    BY <1>4 DEF Poll, PageTyped, BudgetTyped
  <2>1. UNCHANGED <<dialog, locked>> \/ (~locked' /\ dialog' = Shown("results", Nobody))
    BY <1>4 DEF Poll
  <2>2. Open => Open'
    BY <2>1, BodyNext DEF ScreenTyped, Bodies
  <2>3. top'.scan = top.scan /\ top'.cancel = top.cancel
    <3>1. (~active /\ Connectable(selected, inflight)) \in BOOLEAN
      OBVIOUS
    <3> QED BY <1>4, <3>1, ToolbarFacts DEF Poll, PageTyped
  <2>4. Usable \/ Open => Usable'
    BY <2>2, <2>3 DEF Usable
  <2> QED BY <2>0, <2>1, <2>2, <2>4, SameWanted, StillUsable
<1> QED BY <1>1, <1>2, <1>3, <1>4 DEF Next

(* The panel comes back from whatever runs: whenever its toolbar cannot scan    *)
(* it can cancel or a dialog is open, and while the buttons of a dialog are     *)
(* disabled, on a page never left, an answer is wanted that enables them, with  *)
(* any devices, dialogs and any number of calls (_beginOp, _endOp, _lockModal). *)
THEOREM NeverStuckCorrect == Spec => []NeverStuck
<1>1. Init => StuckInv
  <2> SUFFICES ASSUME Init PROVE StuckInv
    OBVIOUS
  <2> QED BY ToolbarFacts, UnlockedUsable DEF Init, StuckInv, Usable, NoConfirm
<1>2. StuckInv => NeverStuck
  <2> SUFFICES ASSUME StuckInv PROVE NeverStuck
    OBVIOUS
  <2>1. ASSUME NEW c \in Wanted, c.kind # "read" PROVE Pending({"write", "command"})
    BY <2>1 DEF Wanted, IsWanted, Elems, Pending
  <2> QED BY <2>1 DEF StuckInv, Usable, NeverStuck
<1> QED BY <1>1, <1>2, TypedInit, TypedStep, StuckStep, PTL DEF Spec

-----------------------------------------------------------------------------
(* At most one call is wanted: each of them takes a token, which makes those  *)
(* before it stale.                                                           *)
OneOf(s) == \A i, j \in DOMAIN s : IsWanted(s[i]) /\ IsWanted(s[j]) => i = j
OneWanted == OneOf(calls)

(* A call that takes a token is the only one wanted: the others are stale. *)
LEMMA OneIssued ==
  ASSUME CallsTyped, NEW c \in GoodCalls, Issue(c) PROVE OneWanted'
<1> DEFINE n == Len(Staled)
<1>1. Staled \in Seq(GoodCalls) /\ \A d \in Elems(Staled) : ~d.live
  BY CallsStaled
<1>2. /\ n \in Nat /\ DOMAIN Staled = 1..n /\ DOMAIN Append(Staled, c) = 1..(n + 1)
      /\ \A i \in 1..n : Append(Staled, c)[i] = Staled[i]
  BY <1>1
<1>3. \A i \in 1..n : ~Append(Staled, c)[i].live
  BY <1>1, <1>2 DEF Elems
<1>4. calls' = Append(Staled, c)
  BY DEF Issue
<1> QED BY <1>2, <1>3, <1>4 DEF OneWanted, OneOf, IsWanted

LEMMA OneStaled == ASSUME CallsTyped, calls' = Staled PROVE OneWanted'
<1>1. DOMAIN calls' = DOMAIN Staled /\ \A i \in DOMAIN Staled : ~calls'[i].live
  BY CallsStaled DEF Elems
<1> QED BY <1>1 DEF OneWanted, OneOf, IsWanted

(* A call that is not wanted may come after one that is. *)
LEMMA OneAppended ==
  ASSUME NEW s \in Seq(GoodCalls), NEW c \in GoodCalls, OneOf(s), ~IsWanted(c)
  PROVE  OneOf(Append(s, c))
<1> DEFINE n == Len(s)
<1>1. /\ n \in Nat /\ DOMAIN s = 1..n /\ DOMAIN Append(s, c) = 1..(n + 1)
      /\ \A i \in 1..n : Append(s, c)[i] = s[i]
      /\ Append(s, c)[n + 1] = c
  OBVIOUS
<1>2. \A i \in 1..(n + 1) : IsWanted(Append(s, c)[i]) => i \in 1..n
  BY <1>1
<1> QED BY <1>1, <1>2 DEF OneOf

(* Once the wanted call is answered none is left; another answer leaves it.   *)
LEMMA OneRemoved ==
  ASSUME NEW s \in Seq(GoodCalls), NEW i \in DOMAIN s, OneOf(s)
  PROVE  /\ OneOf(RemoveAt(s, i))
         /\ IsWanted(s[i]) => \A d \in Elems(RemoveAt(s, i)) : ~IsWanted(d)
<1> DEFINE q == RemoveAt(s, i)
           from(j) == IF j < i THEN j ELSE j + 1
<1>1. /\ Len(s) \in Nat /\ DOMAIN s = 1..Len(s) /\ i \in 1..Len(s) /\ DOMAIN q = 1..(Len(s) - 1)
      /\ \A j \in 1..(Len(s) - 1) : q[j] = IF j < i THEN s[j] ELSE s[j + 1]
  BY RemovedFrom
<1>2. \A j \in DOMAIN q : q[j] = s[from(j)] /\ from(j) \in DOMAIN s /\ from(j) # i
  BY <1>1
<1>3. \A j, k \in DOMAIN q : from(j) = from(k) => j = k
  BY <1>1
<1> HIDE DEF q, from
<1>4. OneOf(q)
  BY <1>2, <1>3 DEF OneOf
<1>5. IsWanted(s[i]) => \A d \in Elems(q) : ~IsWanted(d)
  BY <1>2 DEF OneOf, Elems
<1> QED BY <1>4, <1>5 DEF q

(* A call that goes on as another is not wanted any more. *)
LEMMA OneTurned ==
  ASSUME NEW s \in Seq(GoodCalls), NEW i \in DOMAIN s, OneOf(s), NEW c \in GoodCalls, ~IsWanted(c)
  PROVE  /\ OneOf([s EXCEPT ![i] = c])
         /\ IsWanted(s[i]) => \A d \in Elems([s EXCEPT ![i] = c]) : ~IsWanted(d)
<1> DEFINE q == [s EXCEPT ![i] = c]
<1>1. DOMAIN q = DOMAIN s /\ q[i] = c /\ \A j \in DOMAIN s : j # i => q[j] = s[j]
  OBVIOUS
<1> HIDE DEF q
<1>2. OneOf(q)
  BY <1>1 DEF OneOf
<1>3. IsWanted(s[i]) => \A d \in Elems(q) : ~IsWanted(d)
  BY <1>1 DEF OneOf, Elems
<1> QED BY <1>2, <1>3 DEF q

(* After the answer to the wanted call none is wanted. *)
LEMMA OneAnswered ==
  ASSUME CallsTyped, OneWanted, NEW i \in DOMAIN calls, Answer(i)
  PROVE  /\ OneWanted'
         /\ IsWanted(calls[i]) => Wanted' = {}
<1>0. calls \in Seq(GoodCalls) /\ calls[i] \in GoodCalls
  BY DEF CallsTyped
<1>1. CASE calls' = RemoveAt(calls, i)
  BY <1>0, <1>1, OneRemoved DEF OneWanted, Wanted
<1>2. CASE /\ calls[i].kind = "command"
           /\ calls' = Append(RemoveAt(calls, i), Call("reread", calls[i].mac, "none"))
  <2> DEFINE c == Call("reread", calls[i].mac, "none")
             q == RemoveAt(calls, i)
  <2>1. c \in GoodCalls /\ ~IsWanted(c)
    BY <1>0, <1>2, ACallIsGood DEF GoodCalls, GoodCall, Call, IsWanted
  <2>2. q \in Seq(GoodCalls) /\ OneOf(q) /\ (IsWanted(calls[i]) => \A d \in Elems(q) : ~IsWanted(d))
    BY <1>0, CallsRemoved, OneRemoved DEF OneWanted
  <2>3. calls' = Append(q, c)
    BY <1>2
  <2> HIDE DEF c, q
  <2>4. OneOf(Append(q, c)) /\ Elems(Append(q, c)) = Elems(q) \union {c}
    BY <2>1, <2>2, OneAppended, CallsAppended
  <2> QED BY <2>1, <2>2, <2>3, <2>4 DEF OneWanted, Wanted
<1>3. ASSUME NEW c \in GoodCalls, c.kind \in {"index", "load"}, calls' = [calls EXCEPT ![i] = c]
      PROVE  OneWanted' /\ (IsWanted(calls[i]) => Wanted' = {})
  <2>1. ~IsWanted(c)
    BY <1>3 DEF IsWanted
  <2> QED BY <1>0, <1>3, <2>1, OneTurned DEF OneWanted, Wanted
<1> QED BY <1>1, <1>2, <1>3, AnswerEffect

(* How each step of the user changes which call is wanted. *)
LEMMA OneSent ==
  ASSUME CallsTyped, OneWanted, NEW c \in GoodCalls, Send(c), ~IsWanted(c) PROVE OneWanted'
BY OneAppended DEF OneWanted, CallsTyped, Send

LEMMA OneUser == ASSUME Typed, OneWanted, User PROVE OneWanted'
<1>1. UNCHANGED calls => OneWanted'
  BY DEF OneWanted, OneOf
<1> QED BY <1>1, UserEffect, OneStaled, OneIssued, OneSent DEF CallsEffect, Typed

-----------------------------------------------------------------------------
(* Why what is shown, edited and saved as a device's was read from it, unless  *)
(* two devices met in one dialog.  A dialog of a device has that device in its *)
(* title; the read that is wanted is of the device in the title; and a change  *)
(* that is wanted or waits for a yes is of the device _loaded is of, while the *)
(* title names it or, once the result of a bulk job came up, nobody.  A bulk   *)
(* job and a read that is wanted exclude each other, or that result would take *)
(* the title from under the read.                                              *)
Edits(c) == c.kind = "write" \/ (c.kind = "command" /\ c.what # "restore")
About(m) == loaded.of = m /\ dialog.title \in {Nobody, m}

ShownOwn ==
  /\ dialog.body \in OfDevice => dialog.mac = dialog.title
  /\ dialog.body \in {"view", "edit", "commands"} => loaded.of = dialog.mac
WantedOwn ==
  \A c \in Wanted : (c.kind = "read" => dialog.title = c.mac) /\ (Edits(c) => About(c.mac))
AskedOwn == confirm.why = "command" /\ confirm.what # "restore" => About(confirm.mac)
JobOwn == bulk => confirm.why # "weak" /\ \A c \in Wanted : c.kind # "read"
DataOwn ==
  /\ \A i \in DOMAIN saves : saves[i].fields.of = saves[i].mac
  /\ \A m \in Macs : store[m].of \in {m, Nobody}
OwnInv == ~mixed => ShownOwn /\ WantedOwn /\ AskedOwn /\ JobOwn /\ DataOwn

(* Nothing that is shown changes, and no call is wanted that was not. *)
LEMMA OwnKept ==
  ASSUME OwnInv, UNCHANGED <<dialog, loaded, bulk, mixed>>, Wanted' \subseteq Wanted,
         UNCHANGED confirm \/ confirm'.why \notin {"weak", "command"},
         DataOwn => DataOwn'
  PROVE  OwnInv'
BY DEF OwnInv, ShownOwn, WantedOwn, AskedOwn, JobOwn, About, Edits

LEMMA DataSame == ASSUME UNCHANGED <<saves, store>> PROVE DataOwn => DataOwn'
BY DEF DataOwn

(* A snapshot is stored of the device it was read from. *)
LEMMA DataStored ==
  ASSUME DataTyped, NEW m \in Macs, NEW f, f.of = m, UNCHANGED saves,
         store' = store \/ store' = [store EXCEPT ![m] = f]
  PROVE  DataOwn => DataOwn'
BY DEF DataOwn, DataTyped

(* The fields that are sent to be saved are of the device they are saved for. *)
LEMMA DataBackedUp ==
  ASSUME DataTyped, NEW m \in Macs, AutoBackup(m), loaded'.of = m, UNCHANGED store
  PROVE  DataOwn => DataOwn'
<1> DEFINE n == Len(saves)
           last == [mac |-> m, fields |-> loaded']
<1>0. saves' = saves \/ (saves' = Append(saves, last) /\ last.fields.of = last.mac)
  BY DEF AutoBackup, Sends
<1> SUFFICES ASSUME saves' = Append(saves, last), last.fields.of = last.mac
             PROVE  DataOwn => DataOwn'
  BY <1>0, DataSame
<1> HIDE DEF last
<1>2. /\ n \in Nat /\ DOMAIN saves = 1..n /\ DOMAIN saves' = 1..(n + 1) /\ saves'[n + 1] = last
      /\ \A i \in 1..n : saves'[i] = saves[i]
  BY DEF DataTyped
<1> QED BY <1>2 DEF DataOwn

(* No call is wanted, no question waits: only the dialog is to be looked at. *)
LEMMA OwnIdle ==
  ASSUME ~mixed' => ShownOwn', Wanted' = {}, confirm' = NoConfirm, ~mixed' => DataOwn'
  PROVE  OwnInv'
BY DEF OwnInv, WantedOwn, AskedOwn, JobOwn, NoConfirm

(* With no dialog open there is no wanted read: it has its device in the title. *)
LEMMA NoReadOnPage ==
  ASSUME Typed, OwnInv, ~mixed, dialog.title = Nobody PROVE \A c \in Wanted : c.kind # "read"
<1>1. \A c \in Wanted : c \in GoodCalls
  BY DEF Wanted, Elems, Typed, CallsTyped
<1>2. \A c \in Wanted : c.kind = "read" => c.mac \in Macs
  BY <1>1 DEF GoodCalls, GoodCall
<1> QED BY <1>2, PanelAssumption DEF OwnInv, WantedOwn

(* A read begins: its device is in the title. *)
LEMMA BeginReadOwn ==
  ASSUME Typed, OwnInv, NEW m \in Macs, NEW then \in {"view", "history"}, BeginRead(m, then),
         confirm' = NoConfirm, ~mixed => ~bulk
  PROVE  OwnInv'
<1> DEFINE c == Call("read", m, then)
<1>1. c \in GoodCalls /\ c.kind = "read" /\ c.mac = m
  BY ACallIsGood DEF Call
<1>2. \A d \in Wanted' : d = c
  BY <1>1, WantedIssued DEF BeginRead, Typed
<1>3. dialog' = Shown("loading", m) /\ UNCHANGED <<bulk, loaded, mixed, saves, store>>
  BY DEF BeginRead, outside, history
<1>4. dialog'.title = m /\ dialog'.mac = m /\ dialog'.body = "loading"
  BY <1>3, ShownTyped DEF Bodies
<1> HIDE DEF c
<1>5. ShownOwn' /\ WantedOwn' /\ AskedOwn'
  BY <1>1, <1>2, <1>4 DEF ShownOwn, WantedOwn, AskedOwn, NoConfirm, Edits
<1>6. ~mixed => JobOwn' /\ DataOwn'
  BY <1>3, DataSame DEF OwnInv, JobOwn
<1> QED BY <1>3, <1>5, <1>6 DEF OwnInv

(* _readSelected begins no read while a bulk job runs. *)
LEMMA StartReadOwn ==
  ASSUME Typed, OwnInv, NEW then \in {"view", "history"}, StartRead(then) PROVE OwnInv'
<1>0. ~bulk
  BY DEF StartRead, ReadGuard
<1>1. CASE Ask("weak", selected, then)
  <2>1. UNCHANGED <<dialog, loaded, bulk, mixed, saves, store, calls>> /\ confirm'.why = "weak"
    BY <1>1 DEF Ask, screen, outside, history
  <2>2. Wanted' = Wanted
    BY <2>1, SameWanted
  <2> QED
    BY <1>0, <2>1, <2>2, DataSame
    DEF OwnInv, ShownOwn, WantedOwn, AskedOwn, JobOwn, About, Edits
<1>2. CASE confirm' = NoConfirm /\ BeginRead(selected, then)
  BY <1>0, <1>2, StartReadIsGood, BeginReadOwn
<1> QED BY <1>1, <1>2, StartReadIsGood

(* A change of the device that is shown begins. *)
LEMMA EditOwn ==
  ASSUME Typed, OwnInv, UNCHANGED <<dialog, loaded, bulk, mixed, saves, store>>,
         NEW c \in GoodCalls, Issue(c), c.kind \in {"write", "command"},
         ~mixed /\ Edits(c) => About(c.mac),
         UNCHANGED confirm \/ confirm' = NoConfirm
  PROVE  OwnInv'
<1>1. \A d \in Wanted' : d = c
  BY WantedIssued DEF Typed
<1>2. ~mixed => ShownOwn' /\ AskedOwn' /\ DataOwn'
  BY DataSame DEF OwnInv, ShownOwn, AskedOwn, About, NoConfirm
<1>3. ~mixed => WantedOwn' /\ JobOwn'
  BY <1>1 DEF OwnInv, WantedOwn, JobOwn, About, Edits, NoConfirm
<1> QED BY <1>2, <1>3 DEF OwnInv

(* The user's steps, one by one. *)
LEMMA UserOwn == ASSUME Typed, OwnInv, User PROVE OwnInv'
<1> USE DEF Typed, screen, outside, history
<1>0. UNCHANGED calls => Wanted' \subseteq Wanted
  BY SameWanted
<1>s. calls' = Staled => Wanted' = {} /\ Wanted' \subseteq Wanted
  BY WantedStaled
<1>1. CASE Scan
  <2>1. /\ dialog = NoDialog /\ confirm = NoConfirm /\ Issue(Call("scan", Nobody, "none"))
        /\ UNCHANGED <<dialog, confirm, mixed, saves, store>>
    BY <1>1 DEF Scan, OnPage, Free
  <2>2. Wanted' = {}
    BY <2>1, ACallIsGood, ACallIsUnwanted, WantedIssued
  <2>3. ~mixed' => ShownOwn' /\ DataOwn'
    BY <2>1, NoDialogTyped, DataSame DEF OwnInv, ShownOwn, OfDevice
  <2> QED BY <2>1, <2>2, <2>3, OwnIdle
<1>2. CASE Cancel \/ Leave
  BY <1>2, <1>s, DataSame, OwnKept DEF Cancel, Leave
<1>3. CASE Return \/ Toggle
  BY <1>3, <1>0, DataSame, OwnKept DEF Return, Toggle
<1>4. CASE Decline
  <2>1. confirm'.why \notin {"weak", "command"}
    BY <1>4 DEF Decline, NoConfirm
  <2> QED BY <1>4, <1>0, <2>1, DataSame, OwnKept DEF Decline
<1>5. CASE Connect \/ Retry
  BY <1>5, StartReadOwn DEF Connect, Retry
<1>6. CASE AcceptRead
  <2>1. CASE confirm.why = "weak" /\ confirm' = NoConfirm /\ BeginRead(confirm.mac, confirm.what)
    <3>1. confirm.mac \in Macs /\ confirm.what \in {"view", "history"}
      BY <2>1 DEF ScreenTyped, ConfirmTyped
    <3>2. ~mixed => ~bulk
      BY <2>1 DEF OwnInv, JobOwn
    <3> QED BY <2>1, <3>1, <3>2, BeginReadOwn
  <2>2. CASE StartRead("history")
    BY <2>2, StartReadOwn
  <2> QED BY <1>6, <2>1, <2>2 DEF AcceptRead
<1>7. CASE ShowServices
  <2>1. dialog.mac \in Macs
    BY <1>7 DEF ShowServices, In, ScreenTyped, DialogTyped, OfDevice
  <2>2. Wanted' = Wanted
    BY <1>7, <2>1, ACallIsGood, ACallIsUnwanted, WantedSent DEF ShowServices
  <2> QED BY <1>7, <2>2, DataSame, OwnKept DEF ShowServices
<1>8. CASE Back
  <2>1. /\ dialog.body = "services" /\ dialog' = Shown("view", dialog.mac)
        /\ UNCHANGED <<confirm, loaded, bulk, saves, store, calls>>
        /\ (~mixed' => ~mixed /\ loaded.of = dialog.mac)
    BY <1>8, Zenon DEF Back, In, View
  <2>2. dialog'.title = dialog.mac /\ dialog'.mac = dialog.mac /\ dialog'.body = "view"
    BY <2>1, ShownTyped DEF ScreenTyped, DialogTyped, Screens, Bodies
  <2>3. ~mixed' => dialog.mac = dialog.title
    BY <2>1 DEF OwnInv, ShownOwn, OfDevice
  <2>4. Wanted' = Wanted
    BY <2>1, SameWanted
  <2> QED
    BY <2>1, <2>2, <2>3, <2>4, DataSame
    DEF OwnInv, ShownOwn, WantedOwn, AskedOwn, JobOwn, About, Edits
<1>9. CASE Edit \/ CancelEdit \/ OpenCommands
  <2>1. PICK b \in {"view", "edit", "commands"} :
          /\ dialog' = [dialog EXCEPT !.body = b] /\ dialog.body \in {"view", "edit", "commands"}
          /\ UNCHANGED <<confirm, loaded, bulk, mixed, saves, store, calls>>
    BY <1>9 DEF Edit, CancelEdit, OpenCommands, Turn, Body, In
  <2>2. dialog'.title = dialog.title /\ dialog'.mac = dialog.mac /\ dialog'.body = b
    BY <2>1 DEF ScreenTyped, DialogTyped, Screens
  <2>3. Wanted' = Wanted
    BY <2>1, SameWanted
  <2> QED
    BY <2>1, <2>2, <2>3, DataSame
    DEF OwnInv, ShownOwn, WantedOwn, AskedOwn, JobOwn, About, Edits, OfDevice
<1>10. CASE Save
  <2>1. dialog.body = "edit" /\ dialog.mac \in Macs
    BY <1>10 DEF Save, In, ScreenTyped, DialogTyped, OfDevice
  <2>2. ~mixed => About(dialog.mac)
    BY <2>1 DEF OwnInv, ShownOwn, About, OfDevice
  <2>3. /\ Call("write", dialog.mac, "none") \in GoodCalls
        /\ Call("write", dialog.mac, "none").kind = "write"
        /\ Call("write", dialog.mac, "none").mac = dialog.mac
    BY <2>1, ACallIsGood DEF Call
  <2> QED BY <1>10, <2>2, <2>3, EditOwn DEF Save
<1>11. ASSUME NEW m \in Macs, NEW what \in Commands, BeginCommand(m, what),
              ~mixed /\ what # "restore" => About(m), UNCHANGED confirm \/ confirm' = NoConfirm
       PROVE  OwnInv'
  <2>1. /\ Call("command", m, what) \in GoodCalls
        /\ Call("command", m, what).kind = "command"
        /\ Call("command", m, what).mac = m /\ Call("command", m, what).what = what
    BY ACallIsGood DEF Call
  <2> QED BY <1>11, <2>1, EditOwn DEF BeginCommand, Edits
<1>12. CASE AcceptCommand
  <2>1. confirm.mac \in Macs /\ confirm.what \in Commands
    BY <1>12 DEF AcceptCommand, ScreenTyped, ConfirmTyped
  <2>2. ~mixed /\ confirm.what # "restore" => About(confirm.mac)
    BY <1>12 DEF AcceptCommand, OwnInv, AskedOwn
  <2> QED BY <1>12, <1>11, <2>1, <2>2 DEF AcceptCommand
<1>13. CASE Close
  <2>1. CASE lcd = Nobody
    <3>1. /\ dialog' = NoDialog /\ Wanted' = {} /\ confirm' = NoConfirm
          /\ UNCHANGED <<mixed, saves, store>>
      BY <1>13, <1>s, <2>1 DEF Close, CloseNow, Free
    <3>2. ~mixed' => ShownOwn' /\ DataOwn'
      BY <3>1, NoDialogTyped, DataSame DEF OwnInv, ShownOwn, OfDevice
    <3> QED BY <3>1, <3>2, OwnIdle
  <2>2. CASE lcd # Nobody
    <3>1. confirm'.why = "lcd" /\ UNCHANGED <<dialog, loaded, bulk, mixed, saves, store, calls>>
      BY <1>13, <2>2 DEF Close
    <3> QED BY <1>0, <3>1, DataSame, OwnKept
  <2> QED BY <2>1, <2>2
<1>14. ASSUME NEW m \in Macs, Select(m) PROVE OwnInv'
  BY <1>14, <1>0, DataSame, OwnKept DEF Select
<1>15. ASSUME NEW m \in Macs, Dot(m) PROVE OwnInv'
  <2>1. confirm'.why = "dot"
    BY <1>15 DEF Dot
  <2> QED BY <1>15, <1>0, <2>1, DataSame, OwnKept DEF Dot
<1>16. ASSUME NEW m \in Macs, Rescan(m) PROVE OwnInv'
  <2>1. Wanted' = Wanted
    BY <1>16, ACallIsGood, ACallIsUnwanted, WantedSent DEF Rescan
  <2> QED BY <1>16, <2>1, DataSame, OwnKept DEF Rescan
<1>17. ASSUME NEW m \in Macs, NEW c \in Used, Command(m, c) PROVE OwnInv'
  <2>1. c \in Commands
    BY <1>17, OfferedIsGood
  <2>2. ~mixed /\ c # "restore" => About(m)
    BY <1>17 DEF Command, Offered, In, OwnInv, ShownOwn, About, OfDevice
  <2>3. CASE Ask("command", m, c)
    <3>1. /\ confirm'.why = "command" /\ confirm'.mac = m /\ confirm'.what = c
          /\ UNCHANGED <<dialog, loaded, bulk, mixed, saves, store, calls>>
      BY <2>3 DEF Ask
    <3>2. Wanted' = Wanted
      BY <3>1, SameWanted
    <3> QED
      BY <2>2, <3>1, <3>2, DataSame
      DEF OwnInv, ShownOwn, WantedOwn, AskedOwn, JobOwn, About, Edits
  <2>4. CASE BeginCommand(m, c) /\ UNCHANGED confirm
    BY <1>11, <2>1, <2>2, <2>4
  <2> QED BY <1>17, <2>3, <2>4 DEF Command
<1>18. ASSUME NEW clear \in BOOLEAN, AnswerLcd(clear) PROVE OwnInv'
  <2>1. /\ dialog' = NoDialog /\ confirm' = NoConfirm /\ UNCHANGED <<mixed, saves, store>>
        /\ confirm.why = "lcd"
    BY <1>18 DEF AnswerLcd, CloseNow
  <2>2. confirm.mac \in Macs
    BY <2>1 DEF ScreenTyped, ConfirmTyped
  <2>3. Issue(Call("clear_lcd", confirm.mac, "none")) => Wanted' = {}
    BY <2>2, ACallIsGood, ACallIsUnwanted, WantedIssued
  <2>4. Wanted' = {}
    BY <1>18, <1>s, <2>3 DEF AnswerLcd
  <2>5. ~mixed' => ShownOwn' /\ DataOwn'
    BY <2>1, NoDialogTyped, DataSame DEF OwnInv, ShownOwn, OfDevice
  <2> QED BY <2>1, <2>4, <2>5, OwnIdle
<1>19. ASSUME NEW l \in Lists, NEW m \in Macs \union {Nobody}, OpenList(l, m) PROVE OwnInv'
  <2>1. /\ dialog = NoDialog /\ dialog' = Shown("waiting", Nobody) /\ confirm' = NoConfirm
        /\ UNCHANGED <<loaded, bulk, mixed, saves, store>>
    BY <1>19 DEF OpenList, OnPage, Free
  <2>2. Wanted' = Wanted
    BY <1>19, ACallIsGood, ACallIsUnwanted, WantedSent DEF OpenList
  <2>3. dialog'.title = Nobody /\ dialog'.body = "waiting" /\ dialog.title = Nobody
    BY <2>1, ShownTyped, NoDialogTyped DEF Bodies
  <2>4. ~mixed => \A c \in Wanted : c.kind # "read"
    BY <2>3, NoReadOnPage
  <2>5. ~mixed => ShownOwn' /\ WantedOwn' /\ AskedOwn' /\ JobOwn' /\ DataOwn'
    BY <2>1, <2>2, <2>3, <2>4, DataSame
    DEF OwnInv, ShownOwn, WantedOwn, AskedOwn, JobOwn, About, Edits, OfDevice, NoConfirm
  <2> QED BY <2>1, <2>5 DEF OwnInv
<1> QED
  BY <1>1, <1>2, <1>3, <1>4, <1>5, <1>6, <1>7, <1>8, <1>9, <1>10, <1>12, <1>13, <1>14,
     <1>15, <1>16, <1>17, <1>18, <1>19, Zenon DEF User

(* The change that was wanted is taken: the fields are of its device still, and *)
(* a dialog that has its title shows it.                                        *)
LEMMA EditedOwn ==
  ASSUME Typed, OwnInv, NEW c \in Wanted, Edits(c), c.mac \in Macs, Wanted' = {},
         loaded'.of = loaded.of \/ loaded'.of = c.mac,
         UNCHANGED dialog \/ dialog' = Shown("view", c.mac),
         UNCHANGED <<bulk, mixed>>, UNCHANGED confirm, ~mixed => (DataOwn => DataOwn')
  PROVE  OwnInv'
<1> SUFFICES ASSUME ~mixed PROVE ShownOwn' /\ WantedOwn' /\ AskedOwn' /\ JobOwn' /\ DataOwn'
  BY DEF OwnInv
<1>1. loaded.of = c.mac /\ dialog.title \in {Nobody, c.mac} /\ loaded'.of = c.mac
  BY DEF OwnInv, WantedOwn, About
<1>2. dialog' = Shown("view", c.mac) => dialog'.title = c.mac /\ dialog'.mac = c.mac
  BY ShownTyped DEF Bodies
<1>3. WantedOwn' /\ JobOwn' /\ DataOwn'
  BY DEF OwnInv, WantedOwn, JobOwn
<1>4. ShownOwn'
  BY <1>1, <1>2 DEF OwnInv, ShownOwn
<1>5. AskedOwn'
  <2> SUFFICES ASSUME confirm.why = "command", confirm.what # "restore" PROVE About(confirm.mac)'
    BY DEF AskedOwn, About
  <2>1. loaded.of = confirm.mac /\ dialog.title \in {Nobody, confirm.mac}
    BY DEF OwnInv, AskedOwn, About
  <2>2. loaded'.of = confirm'.mac /\ dialog'.title \in {Nobody, confirm'.mac}
    BY <1>1, <1>2, <2>1
  <2> QED BY <2>2 DEF About
<1> QED BY <1>3, <1>4, <1>5

(* The read that was wanted is answered: its device is in the title. *)
LEMMA ReadOwn ==
  ASSUME Typed, OwnInv, NEW c \in Wanted, c.kind = "read", c.mac \in Macs, Wanted' = {},
         \/ loaded'.of = c.mac /\ dialog'.title \in {Nobody, c.mac}
            /\ (dialog'.body \in OfDevice => dialog'.mac = c.mac /\ dialog'.title = c.mac)
         \/ UNCHANGED loaded /\ dialog' = [dialog EXCEPT !.body = "error", !.mac = c.mac],
         UNCHANGED <<bulk, mixed>>, UNCHANGED confirm, ~mixed => (DataOwn => DataOwn')
  PROVE  OwnInv'
<1> SUFFICES ASSUME ~mixed PROVE ShownOwn' /\ WantedOwn' /\ AskedOwn' /\ JobOwn' /\ DataOwn'
  BY DEF OwnInv
<1>1. dialog.title = c.mac /\ c.mac # Nobody
  BY PanelAssumption DEF OwnInv, WantedOwn
<1>2. dialog' = [dialog EXCEPT !.body = "error", !.mac = c.mac]
        => dialog'.title = c.mac /\ dialog'.mac = c.mac /\ dialog'.body = "error"
  BY <1>1 DEF Typed, ScreenTyped, DialogTyped, Screens
<1>3. WantedOwn' /\ JobOwn' /\ DataOwn'
  BY DEF OwnInv, WantedOwn, JobOwn
<1>4. ShownOwn'
  BY <1>2 DEF ShownOwn, OfDevice
<1>5. AskedOwn'
  <2> SUFFICES ASSUME confirm.why = "command", confirm.what # "restore" PROVE About(confirm.mac)'
    BY DEF AskedOwn, About
  <2>1. loaded.of = confirm.mac /\ confirm.mac = c.mac
    BY <1>1 DEF OwnInv, AskedOwn, About
  <2>2. loaded'.of = confirm'.mac /\ dialog'.title \in {Nobody, confirm'.mac}
    BY <1>2, <2>1
  <2> QED BY <2>2 DEF About
<1> QED BY <1>3, <1>4, <1>5

(* The answers, one by one: what a wanted one shows is of its own device. *)
LEMMA AnswerOwn ==
  ASSUME Typed, Typed', OneWanted, OwnInv, NEW i \in DOMAIN calls, Answer(i) PROVE OwnInv'
<1> USE DEF Typed, screen, outside, history
<1> DEFINE c == calls[i]
<1>0. c \in GoodCalls
  BY DEF CallsTyped
<1>00. /\ c.kind \in {"read", "services", "write", "command", "clear_lcd", "rescan", "reread"}
            => c.mac \in Macs
       /\ c.kind = "load" => c.what \in Listings
       /\ c.live \in BOOLEAN
  BY <1>0 DEF GoodCalls, GoodCall, Calls
<1>w. Wanted' \subseteq Wanted
  BY WantedAnswered
<1>1. IsWanted(c) => c \in Wanted /\ Wanted' = {}
  BY WantedAnswered, OneAnswered
<1>2. CASE ScanAnswered(i) \/ ScanFailed(i) \/ IndexAnswered(i)
  BY <1>2, <1>w, DataSame, OwnKept DEF ScanAnswered, ScanFailed, IndexAnswered
<1>3. CASE ReadThenHistory(i)
  <2>1. /\ c.mac \in Macs /\ c.kind = "read" /\ IsWanted(c)
        /\ dialog' = Shown("waiting", Nobody) /\ UNCHANGED <<bulk, mixed, confirm, saves>>
    BY <1>3, <1>00 DEF ReadThenHistory, IsWanted
  <2>f. PICK f \in Reads(c.mac) : store' = Saved(f) /\ loaded' = f
    BY <1>3 DEF ReadThenHistory
  <2>2. f.of = c.mac /\ (Saved(f) = store \/ Saved(f) = [store EXCEPT ![c.mac] = f])
    BY <2>1, ReadSaved
  <2>3. dialog'.title = Nobody /\ dialog'.body = "waiting"
    BY <2>1, ShownTyped DEF Bodies
  <2>4. DataOwn => DataOwn'
    BY <2>1, <2>2, <2>f, DataStored
  <2> HIDE DEF c
  <2> QED BY <1>1, <2>1, <2>2, <2>3, <2>4, <2>f, ReadOwn DEF OfDevice
<1>4. CASE WriteAnswered(i)
  <2>1. c.mac \in Macs /\ c.kind = "write" /\ UNCHANGED <<bulk, mixed, confirm, store>>
    BY <1>4, <1>00 DEF WriteAnswered, Answering
  <2>2. CASE c.live
    <3>1. /\ loaded' = [loaded EXCEPT !.version = device'[c.mac].version]
          /\ dialog' = Shown("view", c.mac) /\ AutoBackup(c.mac)
      BY <1>4, <2>2 DEF WriteAnswered, View
    <3>2. loaded'.of = loaded.of /\ IsWanted(c) /\ Edits(c)
      BY <2>1, <2>2, <3>1 DEF DataTyped, Fields, IsWanted, Edits
    <3>3. ~mixed => loaded'.of = c.mac
      BY <1>1, <3>2 DEF OwnInv, WantedOwn, About
    <3> HIDE DEF c
    <3>4. ~mixed => (DataOwn => DataOwn')
      BY <2>1, <3>1, <3>3, DataBackedUp
    <3> QED BY <1>1, <2>1, <3>1, <3>2, <3>4, EditedOwn
  <2>3. CASE ~c.live
    <3>1. UNCHANGED <<loaded, dialog, saves>>
      BY <1>4, <2>3 DEF WriteAnswered
    <3> QED BY <1>w, <2>1, <3>1, DataSame, OwnKept
  <2> QED BY <2>2, <2>3
<1>5. CASE SettingTaken(i)
  <2>1. /\ c.mac \in Macs /\ c.kind = "command" /\ c.what \in {"setting", "factory", "encrypt"}
        /\ UNCHANGED <<bulk, mixed, confirm, dialog>>
    BY <1>5, <1>00 DEF SettingTaken, Ends, Answering, Unlock
  <2>2. /\ store' = IF c.what = "encrypt"
                    THEN [store EXCEPT ![c.mac] = [of |-> c.mac, version |-> device'[c.mac].version,
                                                   raw |-> TRUE]]
                    ELSE store
        /\ IF c.live /\ c.what = "setting" THEN AutoBackup(c.mac) ELSE UNCHANGED <<saves, acked>>
        /\ loaded' = IF c.live THEN [loaded EXCEPT !.version = device'[c.mac].version] ELSE loaded
    BY <1>5 DEF SettingTaken
  <2>3. loaded'.of = loaded.of
    BY <2>2 DEF DataTyped, Fields
  <2>4. CASE c.live
    <3>1. IsWanted(c) /\ Edits(c)
      BY <2>1, <2>4 DEF IsWanted, Edits
    <3>2. ~mixed => loaded'.of = c.mac
      BY <1>1, <2>3, <3>1 DEF OwnInv, WantedOwn, About
    <3> HIDE DEF c
    <3>3. ~mixed => (DataOwn => DataOwn')
      <4>1. CASE c.what = "setting"
        BY <2>1, <2>2, <2>4, <3>2, <4>1, DataBackedUp
      <4>2. CASE c.what # "setting"
        <5> DEFINE f == [of |-> c.mac, version |-> device'[c.mac].version, raw |-> TRUE]
        <5>1. f.of = c.mac /\ UNCHANGED saves
          BY <2>2, <4>2
        <5>2. store' = store \/ store' = [store EXCEPT ![c.mac] = f]
          BY <2>2
        <5> HIDE DEF f
        <5> QED BY <2>1, <5>1, <5>2, DataStored
      <4> QED BY <4>1, <4>2
    <3> QED BY <1>1, <2>1, <2>3, <3>1, <3>3, EditedOwn
  <2>5. CASE ~c.live
    <3> DEFINE f == [of |-> c.mac, version |-> device'[c.mac].version, raw |-> TRUE]
    <3>1. f.of = c.mac /\ UNCHANGED saves /\ UNCHANGED loaded
      BY <2>2, <2>5
    <3>2. store' = store \/ store' = [store EXCEPT ![c.mac] = f]
      BY <2>2
    <3> HIDE DEF f, c
    <3>3. DataOwn => DataOwn'
      BY <2>1, <3>1, <3>2, DataStored
    <3> QED BY <1>w, <2>1, <3>1, <3>3, OwnKept
  <2> QED BY <2>4, <2>5
<1>6. CASE LcdAnswered(i) \/ CommandEnds(i) \/ Restored(i)
  BY <1>6, <1>w, DataSame, OwnKept DEF LcdAnswered, LcdDone, CommandEnds, Restored, Unlock
<1>7. ASSUME NEW found \in SUBSET Macs, ScanShown(i, found) PROVE OwnInv'
  BY <1>7, <1>w, DataSame, OwnKept DEF ScanShown
<1>8. ASSUME NEW ok \in BOOLEAN, ReadAnswered(i, ok) PROVE OwnInv'
  <2>1. /\ c.mac \in Macs /\ c.kind = "read" /\ UNCHANGED <<bulk, mixed, confirm, saves>>
    BY <1>8, <1>00 DEF ReadAnswered, Answering
  <2>f. PICK f \in Reads(c.mac) :
          /\ store' = store \/ store' = Saved(f)
          /\ c.live => \/ loaded' = f /\ dialog' = Shown("view", c.mac)
                       \/ UNCHANGED loaded /\ dialog' = [dialog EXCEPT !.body = "error", !.mac = c.mac]
    BY <1>8 DEF ReadAnswered, View
  <2>2. /\ f.of = c.mac
        /\ store' = store \/ store' = [store EXCEPT ![c.mac] = f]
    BY <2>1, <2>f, ReadSaved
  <2>3. DataOwn => DataOwn'
    <3> HIDE DEF c
    <3> QED BY <2>1, <2>2, DataStored
  <2>4. CASE c.live
    <3>1. IsWanted(c)
      BY <2>1, <2>4 DEF IsWanted
    <3>2. \/ loaded' = f /\ dialog' = Shown("view", c.mac)
          \/ UNCHANGED loaded /\ dialog' = [dialog EXCEPT !.body = "error", !.mac = c.mac]
      BY <2>f, <2>4
    <3>3. dialog' = Shown("view", c.mac) => dialog'.title = c.mac /\ dialog'.mac = c.mac
      BY <2>1, ShownTyped DEF Bodies
    <3> HIDE DEF c
    <3> QED BY <1>1, <2>1, <2>2, <2>3, <3>1, <3>2, <3>3, ReadOwn
  <2>5. CASE ~c.live
    <3>1. UNCHANGED <<loaded, dialog>>
      BY <1>8, <2>5 DEF ReadAnswered, SameScreen
    <3> QED BY <1>w, <2>1, <2>3, <3>1, OwnKept
  <2> QED BY <2>4, <2>5
<1>9. ASSUME NEW ok \in BOOLEAN, ServicesAnswered(i, ok) PROVE OwnInv'
  <2>1. /\ c.mac \in Macs /\ UNCHANGED <<bulk, confirm, saves, store, loaded>>
        /\ (~mixed' => ~mixed /\ (ok /\ Open => dialog.title = c.mac))
    BY <1>9, <1>00, Zenon DEF ServicesAnswered, Answering
  <2>2. \/ UNCHANGED dialog
        \/ ok /\ Open /\ dialog' = [dialog EXCEPT !.body = "services", !.mac = c.mac]
    BY <1>9 DEF ServicesAnswered, SameScreen
  <2>3. dialog' = [dialog EXCEPT !.body = "services", !.mac = c.mac]
          => dialog'.title = dialog.title /\ dialog'.mac = c.mac /\ dialog'.body = "services"
    BY <2>1 DEF ScreenTyped, DialogTyped, Screens
  <2>4. dialog'.title = dialog.title
    BY <2>2, <2>3
  <2>5. ~mixed' => ShownOwn'
    BY <2>1, <2>2, <2>3 DEF OwnInv, ShownOwn
  <2> HIDE DEF c
  <2>6. ~mixed' => WantedOwn' /\ AskedOwn' /\ JobOwn' /\ DataOwn'
    BY <1>w, <2>1, <2>4, DataSame DEF OwnInv, WantedOwn, AskedOwn, JobOwn, About, Edits
  <2> QED BY <2>5, <2>6 DEF OwnInv
<1>10. ASSUME NEW ok \in BOOLEAN, WriteFailed(i, ok) PROVE OwnInv'
  <2>1. c.mac \in Macs /\ c.kind = "write" /\ UNCHANGED <<bulk, mixed, confirm, store, saves, loaded>>
    BY <1>10, <1>00 DEF WriteFailed, Answering
  <2>2. UNCHANGED dialog \/ (c.live /\ dialog' = Shown("view", c.mac))
    BY <1>10 DEF WriteFailed, View
  <2>3. CASE UNCHANGED dialog
    BY <1>w, <2>1, <2>3, DataSame, OwnKept
  <2>4. CASE c.live /\ dialog' = Shown("view", c.mac)
    <3>1. IsWanted(c) /\ Edits(c)
      BY <2>1, <2>4 DEF IsWanted, Edits
    <3> HIDE DEF c
    <3> QED BY <1>1, <2>1, <2>4, <3>1, DataSame, EditedOwn
  <2> QED BY <2>2, <2>3, <2>4
<1>11. ASSUME NEW ok \in BOOLEAN, RepeaterAnswered(i, ok) PROVE OwnInv'
  <2>1. /\ c.mac \in Macs /\ c.kind = "command" /\ c.what \in {"rsave", "wake"}
        /\ UNCHANGED <<bulk, mixed, confirm, store>>
    BY <1>11, <1>00 DEF RepeaterAnswered, Ends, Answering
  <2>2. AutoBackup(c.mac) \/ UNCHANGED saves
    BY <1>11 DEF RepeaterAnswered
  <2>3. CASE c.live
    <3>1. loaded'.of = c.mac /\ dialog' = Shown("view", c.mac)
      BY <1>11, <2>3 DEF RepeaterAnswered, View
    <3>2. loaded'.of = c.mac /\ IsWanted(c) /\ Edits(c)
      BY <2>1, <2>3, <3>1 DEF IsWanted, Edits
    <3> HIDE DEF c
    <3>3. DataOwn => DataOwn'
      BY <2>1, <2>2, <3>2, DataBackedUp, DataSame
    <3> QED BY <1>1, <2>1, <3>1, <3>2, <3>3, EditedOwn
  <2>4. CASE ~c.live
    <3>1. UNCHANGED <<loaded, dialog, saves>>
      BY <1>11, <2>4 DEF RepeaterAnswered, SameScreen
    <3> QED BY <1>w, <2>1, <3>1, DataSame, OwnKept
  <2> QED BY <2>3, <2>4
<1>12. ASSUME NEW ok \in BOOLEAN, LcdCleared(i, ok) PROVE OwnInv'
  BY <1>12, <1>w, DataSame, OwnKept DEF LcdCleared
<1>13. ASSUME NEW ok \in BOOLEAN, RereadAnswered(i, ok) PROVE OwnInv'
  <2>1. /\ c.mac \in Macs /\ UNCHANGED <<dialog, loaded, bulk, mixed, confirm, saves>>
    BY <1>13, <1>00 DEF RereadAnswered, Answering
  <2>f. PICK f \in Reads(c.mac) : store' = store \/ store' = Saved(f)
    BY <1>13 DEF RereadAnswered
  <2>2. f.of = c.mac /\ (store' = store \/ store' = [store EXCEPT ![c.mac] = f])
    BY <2>1, <2>f, ReadSaved
  <2> HIDE DEF c
  <2> QED BY <1>w, <2>1, <2>2, DataStored, OwnKept
<1>14. ASSUME NEW ok \in BOOLEAN, LoadAnswered(i, ok) \/ RescanAnswered(i, ok) PROVE OwnInv'
  <2>1. UNCHANGED <<loaded, bulk, mixed, confirm, saves>>
    BY <1>14 DEF LoadAnswered, RescanAnswered
  <2>2. \/ UNCHANGED dialog
        \/ \E b \in Listings : dialog' = [dialog EXCEPT !.body = b]
    <3>1. "compare" \in Listings
      BY DEF Listings
    <3> QED BY <1>14, <1>00, <3>1 DEF LoadAnswered, RescanAnswered, Body, SameScreen, Answering
  <2>3. \A b \in Listings : b \in Bodies /\ b \notin OfDevice
    BY DEF Listings, Bodies, OfDevice
  <2>4. dialog'.title = dialog.title /\ (dialog' = dialog \/ dialog'.body \notin OfDevice)
    <3>1. ASSUME NEW b \in Listings, dialog' = [dialog EXCEPT !.body = b]
          PROVE  dialog'.title = dialog.title /\ dialog'.body = b
      BY <3>1 DEF ScreenTyped, DialogTyped, Screens
    <3> QED BY <2>2, <2>3, <3>1
  <2>5. DataOwn => DataOwn'
    <3>1. CASE LoadAnswered(i, ok)
      BY <2>1, <3>1, DataSame DEF LoadAnswered
    <3>2. CASE RescanAnswered(i, ok)
      <4>1. c.mac \in Macs
        BY <3>2, <1>00 DEF RescanAnswered, Answering
      <4>f. PICK f \in Reads(c.mac) : store' = store \/ store' = Saved(f)
        BY <3>2 DEF RescanAnswered
      <4>2. f.of = c.mac /\ (store' = store \/ store' = [store EXCEPT ![c.mac] = f])
        BY <4>1, <4>f, ReadSaved
      <4> HIDE DEF c
      <4> QED BY <2>1, <4>1, <4>2, DataStored
    <3> QED BY <1>14, <3>1, <3>2
  <2>6. ~mixed => ShownOwn'
    BY <2>1, <2>4 DEF OwnInv, ShownOwn, OfDevice
  <2>7. ~mixed => WantedOwn' /\ AskedOwn' /\ JobOwn'
    BY <1>w, <2>1, <2>4 DEF OwnInv, WantedOwn, AskedOwn, JobOwn, About, Edits
  <2> QED BY <2>1, <2>5, <2>6, <2>7 DEF OwnInv
<1> QED
  BY <1>2, <1>3, <1>4, <1>5, <1>6, <1>7, <1>8, <1>9, <1>10, <1>11, <1>12, <1>13, <1>14, Zenon
  DEF Answer

(* The result of a job takes the title from the device, never under a read. *)
LEMMA PollOwn ==
  ASSUME Typed, OwnInv, NEW active \in BOOLEAN, Poll(active) PROVE OwnInv'
<1> USE DEF Typed, screen, outside, history
<1>1. UNCHANGED <<confirm, loaded, mixed, saves, store, calls>> /\ bulk' = active
  BY DEF Poll
<1>2. Wanted' = Wanted
  BY <1>1, SameWanted
<1>3. CASE bulk /\ ~active
  <2>1. dialog' = Shown("results", Nobody)
    BY <1>3 DEF Poll
  <2>2. dialog'.title = Nobody /\ dialog'.body = "results"
    BY <2>1, ShownTyped DEF Bodies
  <2>3. ~mixed => ShownOwn' /\ WantedOwn' /\ AskedOwn' /\ JobOwn' /\ DataOwn'
    BY <1>1, <1>2, <1>3, <2>2, DataSame
    DEF OwnInv, ShownOwn, WantedOwn, AskedOwn, JobOwn, About, Edits, OfDevice
  <2> QED BY <1>1, <2>3 DEF OwnInv
<1>4. CASE ~(bulk /\ ~active)
  <2>1. UNCHANGED dialog /\ (bulk \/ (dialog = NoDialog /\ confirm = NoConfirm))
    <3>1. bulk \/ (dialog = NoDialog /\ confirm = NoConfirm)
      BY DEF Poll, OnPage, Free
    <3>2. UNCHANGED dialog
      BY <1>4 DEF Poll
    <3> QED BY <3>1, <3>2
  <2>2. ~mixed => JobOwn'
    <3>1. CASE dialog = NoDialog /\ confirm = NoConfirm
      BY <1>1, <1>2, <3>1, NoDialogTyped, NoReadOnPage DEF JobOwn, NoConfirm
    <3>2. CASE bulk' => bulk
      BY <1>1, <1>2, <3>2 DEF OwnInv, JobOwn
    <3> QED BY <2>1, <3>1, <3>2
  <2>3. ~mixed => ShownOwn' /\ WantedOwn' /\ AskedOwn' /\ DataOwn'
    BY <1>1, <1>2, <2>1, DataSame DEF OwnInv, ShownOwn, WantedOwn, AskedOwn, About, Edits
  <2> QED BY <1>1, <2>2, <2>3 DEF OwnInv
<1> QED BY <1>3, <1>4

LEMMA SaveAnsweredOwn == ASSUME Typed, OwnInv, NEW kept \in BOOLEAN, SaveAnswered(kept) PROVE OwnInv'
<1> USE DEF Typed, screen, outside, history
<1> DEFINE Save1 == [mac : Macs, fields : Fields]
           n == Len(saves)
<1>1. saves \in Seq(Save1) /\ saves # <<>>
  BY DEF SaveAnswered, DataTyped
<1> HIDE DEF Save1
<1>2. /\ n \in Nat /\ n >= 1 /\ DOMAIN saves = 1..n /\ Head(saves) = saves[1]
      /\ DOMAIN Tail(saves) = 1..(n - 1) /\ \A i \in 1..(n - 1) : Tail(saves)[i] = saves[i + 1]
  BY <1>1
<1>3. /\ saves' = Tail(saves)
      /\ store' = store \/ store' = [store EXCEPT ![saves[1].mac] = saves[1].fields]
      /\ UNCHANGED <<dialog, loaded, bulk, mixed, confirm, calls>>
  BY <1>2 DEF SaveAnswered
<1>4. 1 \in DOMAIN saves /\ \A i \in 1..(n - 1) : i + 1 \in DOMAIN saves
  BY <1>2
<1>5. DataOwn => DataOwn'
  <2> SUFFICES ASSUME DataOwn PROVE DataOwn'
    OBVIOUS
  <2>1. \A i \in DOMAIN saves' : saves'[i].fields.of = saves'[i].mac
    BY <1>2, <1>3, <1>4 DEF DataOwn
  <2>2. store \in [Macs -> Fields] /\ saves[1].fields.of = saves[1].mac
    BY <1>4 DEF DataOwn, DataTyped
  <2>3. \A m \in Macs : store'[m].of \in {m, Nobody}
    BY <1>3, <2>2 DEF DataOwn
  <2> QED BY <2>1, <2>3 DEF DataOwn
<1> QED BY <1>3, <1>5, SameWanted, OwnKept

OwnFrame == Typed /\ OneWanted /\ OwnInv

(* OwnFrame is inductive. *)
LEMMA OwnInit == Init => OwnFrame
<1> SUFFICES ASSUME Init PROVE OwnFrame
  OBVIOUS
<1>1. Typed
  BY TypedInit
<1>2. \A c \in Elems(calls) : ~IsWanted(c)
  BY ACallIsUnwanted DEF Init, Elems
<1>3. OneWanted /\ Wanted = {}
  BY <1>2 DEF OneWanted, OneOf, Wanted, Elems
<1>4. /\ dialog = NoDialog /\ confirm.why = "none" /\ bulk = FALSE /\ saves = <<>>
      /\ \A m \in Macs : store[m].of = Nobody
  BY DEF Init, NoConfirm, NoFields
<1>5. ShownOwn /\ WantedOwn /\ AskedOwn /\ JobOwn /\ DataOwn
  BY <1>3, <1>4, NoDialogTyped DEF ShownOwn, WantedOwn, AskedOwn, JobOwn, DataOwn, OfDevice
<1> QED BY <1>1, <1>3, <1>5 DEF OwnFrame, OwnInv

LEMMA OwnStep == OwnFrame /\ [Next]_vars => OwnFrame'
<1> SUFFICES ASSUME OwnFrame, [Next]_vars PROVE OwnFrame'
  OBVIOUS
<1> USE DEF OwnFrame, screen, outside, history
<1>0. Typed'
  BY TypedStep
<1>c. UNCHANGED calls => OneWanted'
  BY DEF OneWanted
<1>1. CASE User
  BY <1>0, <1>1, UserOwn, OneUser
<1>2. CASE \E i \in DOMAIN calls : Answer(i)
  BY <1>0, <1>2, AnswerOwn, OneAnswered DEF Typed
<1>3. CASE \E kept \in BOOLEAN : SaveAnswered(kept)
  BY <1>0, <1>c, <1>3, SaveAnsweredOwn DEF SaveAnswered
<1>4. CASE \E active \in BOOLEAN : Poll(active)
  BY <1>0, <1>c, <1>4, PollOwn DEF Poll
<1>5. CASE UNCHANGED vars
  BY <1>0, <1>c, <1>5, SameWanted, DataSame, OwnKept DEF vars
<1> QED BY <1>1, <1>2, <1>3, <1>4, <1>5 DEF Next

(* What is shown and edited as a device's settings, and what is saved as its   *)
(* snapshot, was read from that device, as long as no two devices met in one   *)
(* dialog by way of services, with any devices and any number of calls:        *)
(* whatever is closed, cancelled and opened while answers are under way        *)
(* (_loaded, _op, _autoBackup).                                                *)
THEOREM OwnFieldsCorrect == Spec => []OwnFields
<1>1. OwnFrame => OwnFields
  BY DEF OwnFrame, OwnInv, ShownOwn, DataOwn, OwnFields
<1> QED BY <1>1, OwnInit, OwnStep, PTL DEF Spec

-----------------------------------------------------------------------------
(* A step in which the dialog shows the settings of its own device, or none.  *)
KeepsDevice == ~mixed /\ dialog.title \in Macs /\ dialog'.body = "view" => dialog'.mac = dialog.title

(* The dialogs a step may show without changing whose settings are shown. *)
LEMMA ViewKept ==
  ASSUME OwnFrame,
         \/ UNCHANGED dialog \/ dialog' = NoDialog
         \/ \E b \in {"loading", "waiting", "results"}, m \in Macs \union {Nobody} : dialog' = Shown(b, m)
         \/ \E b \in Bodies : /\ dialog' = [dialog EXCEPT !.body = b]
                              /\ b # "view" \/ dialog.body \in OfDevice
         \/ \E b \in {"error", "services"}, m \in Macs : dialog' = [dialog EXCEPT !.body = b, !.mac = m]
         \/ \E m \in Macs : /\ dialog' = Shown("view", m)
                            /\ ~mixed => dialog.title \in {Nobody, m}
  PROVE  KeepsDevice
<1> USE DEF OwnFrame, Typed, ScreenTyped, DialogTyped, KeepsDevice
<1>1. ~mixed /\ dialog.body \in OfDevice => dialog.mac = dialog.title
  BY DEF OwnInv, ShownOwn
<1>2. UNCHANGED dialog \/ dialog' = NoDialog => KeepsDevice
  BY <1>1, NoDialogTyped DEF OfDevice
<1>3. ASSUME NEW b \in {"loading", "waiting", "results"}, NEW m \in Macs \union {Nobody},
             dialog' = Shown(b, m)
      PROVE  KeepsDevice
  BY <1>3 DEF Shown
<1>4. ASSUME NEW b \in Bodies, dialog' = [dialog EXCEPT !.body = b], b # "view" \/ dialog.body \in OfDevice
      PROVE  KeepsDevice
  BY <1>1, <1>4 DEF Screens
<1>5. ASSUME NEW b \in {"error", "services"}, NEW m \in Macs, dialog' = [dialog EXCEPT !.body = b, !.mac = m]
      PROVE  KeepsDevice
  BY <1>5 DEF Screens
<1>6. ASSUME NEW m \in Macs, dialog' = Shown("view", m), ~mixed => dialog.title \in {Nobody, m}
      PROVE  KeepsDevice
  BY <1>6, PanelAssumption DEF Shown
<1> QED BY <1>2, <1>3, <1>4, <1>5, <1>6

(* The user's steps, one by one. *)
LEMMA UserKeepsDevice == ASSUME OwnFrame, User PROVE KeepsDevice
<1> USE DEF screen
<1>1. CASE Scan \/ Cancel \/ Leave \/ Return \/ Decline
  BY <1>1, ViewKept DEF Scan, Cancel, Leave, Return, Decline
<1>2. ASSUME NEW m \in Macs, NEW then, BeginRead(m, then) PROVE KeepsDevice
  BY <1>2, ViewKept DEF BeginRead
<1>3. ASSUME NEW then \in {"view", "history"}, StartRead(then) PROVE KeepsDevice
  <2>1. CASE Ask("weak", selected, then)
    BY <2>1, ViewKept DEF Ask
  <2> QED BY <1>2, <1>3, <2>1, StartReadIsGood DEF OwnFrame
<1>4. CASE Connect \/ Retry
  BY <1>3, <1>4 DEF Connect, Retry
<1>5. CASE AcceptRead
  <2>1. confirm.why = "weak" => confirm.mac \in Macs
    BY DEF OwnFrame, Typed, ScreenTyped, ConfirmTyped
  <2> QED BY <1>2, <1>3, <1>5, <2>1 DEF AcceptRead
<1>6. CASE ShowServices \/ Save \/ AcceptCommand \/ Toggle
  BY <1>6, ViewKept DEF ShowServices, Save, AcceptCommand, BeginCommand, Toggle
<1>7. CASE Back
  <2>1. dialog.body \in OfDevice /\ dialog' = Shown("view", dialog.mac)
    BY <1>7 DEF Back, In, View, OfDevice
  <2>2. dialog.mac \in Macs /\ (~mixed => dialog.title = dialog.mac)
    BY <2>1 DEF OwnFrame, OwnInv, ShownOwn, Typed, ScreenTyped, DialogTyped
  <2> QED BY <2>1, <2>2, ViewKept
<1>8. CASE Edit \/ CancelEdit \/ OpenCommands
  <2>1. PICK b \in {"view", "edit", "commands"} :
          dialog' = [dialog EXCEPT !.body = b] /\ dialog.body \in OfDevice
    BY <1>8 DEF Edit, CancelEdit, OpenCommands, Turn, Body, In, OfDevice
  <2>2. b \in Bodies
    BY DEF Bodies
  <2> QED BY <2>1, <2>2, ViewKept
<1>9. CASE Close
  BY <1>9, ViewKept DEF Close, CloseNow
<1>10. ASSUME NEW m \in Macs, Select(m) \/ Dot(m) \/ Rescan(m) PROVE KeepsDevice
  BY <1>10, ViewKept DEF Select, Dot, Rescan
<1>11. ASSUME NEW m \in Macs, NEW c \in Used, Command(m, c) PROVE KeepsDevice
  BY <1>11, ViewKept DEF Command, Ask, BeginCommand
<1>12. ASSUME NEW clear \in BOOLEAN, AnswerLcd(clear) PROVE KeepsDevice
  BY <1>12, ViewKept DEF AnswerLcd, CloseNow
<1>13. ASSUME NEW l \in Lists, NEW m \in Macs \union {Nobody}, OpenList(l, m) PROVE KeepsDevice
  BY <1>13, ViewKept DEF OpenList
<1> QED
  BY <1>1, <1>4, <1>5, <1>6, <1>7, <1>8, <1>9, <1>10, <1>11, <1>12, <1>13, Zenon DEF User

(* The answer that shows a device is wanted, and the device is in the title.  *)
LEMMA AnswerKeepsDevice ==
  ASSUME OwnFrame, NEW i \in DOMAIN calls, Answer(i) PROVE KeepsDevice
<1> USE DEF screen
<1> DEFINE c == calls[i]
<1>0. c \in GoodCalls
  BY DEF OwnFrame, Typed, CallsTyped
<1>00. /\ c.kind \in {"read", "services", "write", "command", "clear_lcd", "rescan", "reread"}
            => c.mac \in Macs
       /\ c.kind = "load" => c.what \in Listings
  BY <1>0 DEF GoodCalls, GoodCall, Calls
<1>1. ASSUME c.live, c.kind = "read" \/ Edits(c), ~mixed PROVE dialog.title \in {Nobody, c.mac}
  <2>1. IsWanted(c) /\ c \in Elems(calls)
    BY <1>1 DEF IsWanted, Edits, Elems
  <2> QED BY <1>1, <2>1 DEF OwnFrame, OwnInv, WantedOwn, Wanted, About
<1>2. CASE ScanAnswered(i) \/ ScanFailed(i) \/ IndexAnswered(i)
  BY <1>2, ViewKept DEF ScanAnswered, ScanFailed, IndexAnswered
<1>3. CASE ReadThenHistory(i)
  BY <1>3, ViewKept DEF ReadThenHistory
<1>4. CASE WriteAnswered(i)
  <2>1. UNCHANGED dialog \/ (c.live /\ dialog' = Shown("view", c.mac))
    BY <1>4 DEF WriteAnswered, View
  <2>2. c.mac \in Macs /\ Edits(c)
    BY <1>4, <1>00 DEF WriteAnswered, Answering, Edits
  <2> QED BY <1>1, <2>1, <2>2, ViewKept
<1>5. CASE SettingTaken(i) \/ LcdAnswered(i) \/ CommandEnds(i) \/ Restored(i)
  BY <1>5, ViewKept DEF SettingTaken, LcdAnswered, LcdDone, CommandEnds, Restored, Unlock
<1>6. ASSUME NEW found \in SUBSET Macs, ScanShown(i, found) PROVE KeepsDevice
  BY <1>6, ViewKept DEF ScanShown
<1>7. ASSUME NEW ok \in BOOLEAN, ReadAnswered(i, ok) PROVE KeepsDevice
  <2>1. \/ UNCHANGED dialog
        \/ c.live /\ dialog' = Shown("view", c.mac)
        \/ dialog' = [dialog EXCEPT !.body = "error", !.mac = c.mac]
    BY <1>7 DEF ReadAnswered, View, SameScreen
  <2>2. c.mac \in Macs /\ c.kind = "read"
    BY <1>7, <1>00 DEF ReadAnswered, Answering
  <2> QED BY <1>1, <2>1, <2>2, ViewKept
<1>8. ASSUME NEW ok \in BOOLEAN, ServicesAnswered(i, ok) PROVE KeepsDevice
  <2>1. UNCHANGED dialog \/ dialog' = [dialog EXCEPT !.body = "services", !.mac = c.mac]
    BY <1>8 DEF ServicesAnswered, SameScreen
  <2>2. c.mac \in Macs
    BY <1>8, <1>00 DEF ServicesAnswered, Answering
  <2> QED BY <2>1, <2>2, ViewKept
<1>9. ASSUME NEW ok \in BOOLEAN, WriteFailed(i, ok) \/ RepeaterAnswered(i, ok) PROVE KeepsDevice
  <2>1. UNCHANGED dialog \/ (c.live /\ dialog' = Shown("view", c.mac))
    BY <1>9 DEF WriteFailed, RepeaterAnswered, View, SameScreen
  <2>2. c.mac \in Macs /\ Edits(c)
    BY <1>9, <1>00 DEF WriteFailed, RepeaterAnswered, Ends, Answering, Edits
  <2> QED BY <1>1, <2>1, <2>2, ViewKept
<1>10. ASSUME NEW ok \in BOOLEAN, LcdCleared(i, ok) \/ RereadAnswered(i, ok) PROVE KeepsDevice
  BY <1>10, ViewKept DEF LcdCleared, RereadAnswered
<1>11. ASSUME NEW ok \in BOOLEAN, LoadAnswered(i, ok) \/ RescanAnswered(i, ok) PROVE KeepsDevice
  <2>1. \A b \in Listings : b \in Bodies /\ b # "view"
    BY DEF Listings, Bodies
  <2>2. UNCHANGED dialog \/ \E b \in Listings : dialog' = [dialog EXCEPT !.body = b]
    <3>1. "compare" \in Listings
      BY DEF Listings
    <3> QED BY <1>11, <1>00, <3>1 DEF LoadAnswered, RescanAnswered, Body, SameScreen, Answering
  <2> QED BY <2>1, <2>2, ViewKept
<1> QED
  BY <1>2, <1>3, <1>4, <1>5, <1>6, <1>7, <1>8, <1>9, <1>10, <1>11, Zenon DEF Answer

(* The dialog of one device never turns into the settings of another, however  *)
(* late an answer comes, with any devices and any number of calls: closing,    *)
(* cancelling and leaving the page take a token (_op, _drawView).              *)
THEOREM DialogKept == Spec => DialogKeepsDevice
<1>1. OwnFrame /\ [Next]_vars => KeepsDevice
  <2> SUFFICES ASSUME OwnFrame, [Next]_vars PROVE KeepsDevice
    OBVIOUS
  <2> USE DEF screen
  <2>1. CASE User
    BY <2>1, UserKeepsDevice
  <2>2. CASE \E i \in DOMAIN calls : Answer(i)
    BY <2>2, AnswerKeepsDevice
  <2>3. CASE (\E kept \in BOOLEAN : SaveAnswered(kept)) \/ UNCHANGED vars
    BY <2>3, ViewKept DEF SaveAnswered, vars
  <2>4. CASE \E active \in BOOLEAN : Poll(active)
    BY <2>4, ViewKept DEF Poll
  <2> QED BY <2>1, <2>2, <2>3, <2>4 DEF Next
<1> QED BY <1>1, OwnInit, OwnStep, PTL DEF Spec, DialogKeepsDevice, KeepsDevice

-----------------------------------------------------------------------------
(* Why an overlay that stays is remembered.  The answer to show is wanted only *)
(* under a dialog that can hold the overlay's device, so a dialog is open as   *)
(* long as lcd names a device; that device is the one _loaded is of, as is the *)
(* device of every change that is wanted, so that no answer makes lcd forget   *)
(* one device for another; and a question that starts a read was asked with    *)
(* nothing to remember, and no answer on its way that would bring something.   *)
Shows(c) == c.kind = "command" /\ c.what = "show"
Holding == dialog.body \notin {"none", "error"}
NoRead == \A c \in Wanted : c.kind # "read"
Clearing == {c.mac : c \in {d \in Elems(calls) : d.kind = "clear_lcd"}}

HeldLcd ==
  /\ \A c \in Wanted : Shows(c) => Holding
  /\ lcd # Nobody => Holding /\ loaded.of = lcd /\ NoRead
AskedLcd ==
  /\ confirm.why \in {"weak", "dot"} => lcd = Nobody /\ \A c \in Wanted : ~Shows(c)
  /\ confirm.why = "command" => confirm.what # "show"
  /\ confirm.why = "lcd" => lcd \in {Nobody, confirm.mac} /\ loaded.of = confirm.mac /\ NoRead
Overlays == \A m \in Macs : device[m].lcd => lcd = m \/ m \in unheard \/ m \in Clearing
LcdInv == ~mixed => HeldLcd /\ AskedLcd /\ Overlays

(* Nothing is forgotten by a step that takes no overlay call off. *)
LEMMA SameOverlays ==
  ASSUME Overlays, \A m \in Macs : device'[m].lcd => device[m].lcd, UNCHANGED lcd,
         unheard \subseteq unheard', Clearing \subseteq Clearing'
  PROVE  Overlays'
BY DEF Overlays

(* A step under which what is held stays held. *)
LEMMA LcdKept ==
  ASSUME LcdInv, mixed => mixed', UNCHANGED lcd, Wanted' \subseteq Wanted,
         loaded'.of = loaded.of, Holding => Holding',
         UNCHANGED confirm \/ confirm' = NoConfirm,
         Overlays => Overlays'
  PROVE  LcdInv'
BY DEF LcdInv, HeldLcd, AskedLcd, NoRead, Shows, NoConfirm

(* One in which nothing is to be held, and no question waits. *)
LEMMA LcdIdle ==
  ASSUME LcdInv, mixed => mixed', lcd' = Nobody, \A c \in Wanted' : Shows(c) => Holding',
         confirm' = NoConfirm, Overlays => Overlays'
  PROVE  LcdInv'
BY DEF LcdInv, HeldLcd, AskedLcd, NoConfirm

(* Calls to take an overlay off stay, until they are answered. *)
LEMMA ClearingKept == ASSUME CallsTyped, CallsEffect PROVE Clearing \subseteq Clearing'
<1>1. CASE UNCHANGED calls
  BY <1>1 DEF Clearing, Elems
<1>2. CASE calls' = Staled
  BY <1>2, CallsStaled DEF Clearing
<1>3. ASSUME NEW c \in GoodCalls, Issue(c) PROVE Clearing \subseteq Clearing'
  <2>1. Elems(calls') = Elems(Staled) \union {c}
    BY <1>3, CallsStaled, CallsAppended DEF Issue
  <2>2. \A d \in Elems(calls) : \E e \in Elems(calls') : e.kind = d.kind /\ e.mac = d.mac
    BY <2>1, CallsStaled
  <2> QED BY <2>2 DEF Clearing
<1>4. ASSUME NEW c \in GoodCalls, Send(c) PROVE Clearing \subseteq Clearing'
  <2>1. Elems(calls') = Elems(calls) \union {c}
    BY <1>4, CallsAppended DEF Send, CallsTyped
  <2> QED BY <2>1 DEF Clearing
<1> QED BY <1>1, <1>2, <1>3, <1>4 DEF CallsEffect

(* An answer takes back at most its own call. *)
LEMMA ClearingAnswered ==
  ASSUME CallsTyped, NEW i \in DOMAIN calls, Answer(i)
  PROVE  /\ \A m \in Clearing : m = calls[i].mac \/ m \in Clearing'
         /\ calls[i].kind # "clear_lcd" => Clearing \subseteq Clearing'
<1>1. \A d \in Elems(calls) : d = calls[i] \/ d \in Elems(calls')
  BY ElemsAnswered
<1> QED BY <1>1 DEF Clearing

(* The call that takes an overlay off is on its way. *)
LEMMA ClearingSent ==
  ASSUME CallsTyped, NEW c \in GoodCalls, Issue(c), c.kind = "clear_lcd"
  PROVE  c.mac \in Clearing'
<1>1. Elems(calls') = Elems(Staled) \union {c}
  BY CallsStaled, CallsAppended DEF Issue
<1> QED BY <1>1 DEF Clearing

(* Nothing is remembered, and no answer to show is wanted, without a dialog   *)
(* or in one that shows an error.                                             *)
LEMMA NothingHeld ==
  ASSUME LcdInv, ~mixed, ~Holding PROVE lcd = Nobody /\ \A c \in Wanted : ~Shows(c)
BY DEF LcdInv, HeldLcd

(* The page without a dialog holds nothing. *)
LEMMA PageHoldsNothing == ASSUME dialog = NoDialog PROVE ~Holding
BY NoDialogTyped DEF Holding

(* A change of a setting leaves the overlays. *)
LEMMA GrownOverlays ==
  ASSUME DataTyped, NEW m \in Macs, Grows(m) \/ UNCHANGED device
  PROVE  \A n \in Macs : device'[n].lcd = device[n].lcd
BY VersionTyped

(* An overlay is put on or taken off: it is remembered as before, unless the   *)
(* panel hears of it, or it was not there.                                     *)
LEMMA OverlayFacts ==
  ASSUME DataTyped, NEW m \in Macs, NEW on \in BOOLEAN, NEW heard, Overlay(m, on, heard)
  PROVE  /\ \A n \in Macs : device'[n].lcd = IF n = m THEN on ELSE device[n].lcd
         /\ \A n \in Macs : n # m /\ n \in unheard => n \in unheard'
         /\ on /\ heard # "on" => m \in unheard' \/ (heard # "off" /\ device[m].lcd /\ UNCHANGED unheard)
<1>1. \A n \in Macs : device'[n].lcd = IF n = m THEN on ELSE device[n].lcd
  BY OverlayTyped
<1> QED BY <1>1 DEF Overlay

LEMMA OverlayKept ==
  ASSUME DataTyped, NEW m \in Macs, NEW on \in BOOLEAN, NEW heard, Overlay(m, on, heard),
         heard # "on", UNCHANGED lcd, \A n \in Clearing : n \in Clearing' \/ (heard = "off" /\ n = m)
  PROVE  Overlays => Overlays'
<1> SUFFICES ASSUME Overlays, NEW n \in Macs, device'[n].lcd
             PROVE  lcd' = n \/ n \in unheard' \/ n \in Clearing'
  BY DEF Overlays
<1>1. CASE n = m
  <2>1. on
    BY <1>1, OverlayFacts
  <2>2. m \in unheard' \/ (heard # "off" /\ device[m].lcd /\ UNCHANGED unheard)
    BY <2>1, OverlayFacts
  <2> QED BY <1>1, <2>2 DEF Overlays
<1>2. CASE n # m
  <2>1. device[n].lcd /\ (n \in unheard => n \in unheard')
    BY <1>2, OverlayFacts
  <2> QED BY <1>2, <2>1 DEF Overlays
<1> QED BY <1>1, <1>2

(* A read begins with nothing remembered. *)
LEMMA BeginReadLcd ==
  ASSUME Typed, LcdInv, NEW m \in Macs, NEW then \in {"view", "history"}, BeginRead(m, then),
         confirm' = NoConfirm, ~mixed => lcd = Nobody
  PROVE  LcdInv'
<1> DEFINE c == Call("read", m, then)
<1>1. c \in GoodCalls /\ c.kind = "read"
  BY ACallIsGood DEF Call
<1>2. Issue(c) /\ UNCHANGED <<mixed, lcd, device, unheard>>
  BY DEF BeginRead, outside, history
<1>3. \A d \in Wanted' : d = c
  BY <1>1, <1>2, WantedIssued DEF Typed
<1>4. Clearing \subseteq Clearing'
  BY <1>1, <1>2, ClearingKept DEF CallsEffect, Typed
<1> HIDE DEF c
<1>5. Overlays => Overlays'
  BY <1>2, <1>4, SameOverlays
<1>6. \A d \in Wanted' : ~Shows(d)
  BY <1>1, <1>3 DEF Shows
<1>7. CASE mixed
  BY <1>2, <1>7 DEF LcdInv
<1>8. CASE ~mixed
  BY <1>2, <1>5, <1>6, <1>8, LcdIdle
<1> QED BY <1>7, <1>8

(* _readSelected, with nothing remembered and nothing wanted that would be. *)
LEMMA StartReadLcd ==
  ASSUME Typed, LcdInv, NEW then \in {"view", "history"}, StartRead(then),
         ~mixed => lcd = Nobody /\ \A c \in Wanted : ~Shows(c)
  PROVE  LcdInv'
<1>1. CASE Ask("weak", selected, then)
  <2>1. UNCHANGED <<dialog, loaded, lcd, mixed, device, unheard, calls>> /\ confirm'.why = "weak"
    BY <1>1 DEF Ask, screen, outside, history
  <2>2. Wanted' = Wanted /\ Clearing' = Clearing
    BY <2>1, SameWanted DEF Clearing, Elems
  <2>3. Overlays => Overlays'
    BY <2>1, <2>2, SameOverlays
  <2> QED BY <2>1, <2>2, <2>3 DEF LcdInv, HeldLcd, AskedLcd
<1>2. CASE confirm' = NoConfirm /\ BeginRead(selected, then)
  BY <1>2, StartReadIsGood, BeginReadLcd
<1> QED BY <1>1, <1>2, StartReadIsGood

(* A change of the device of a dialog begins. *)
LEMMA EditLcd ==
  ASSUME Typed, LcdInv, UNCHANGED <<dialog, loaded, lcd, mixed, device, unheard>>,
         NEW c \in GoodCalls, Issue(c), c.kind # "read", Shows(c) => Holding,
         UNCHANGED confirm \/ confirm' = NoConfirm, confirm'.why \notin {"weak", "dot"}
  PROVE  LcdInv'
<1>1. \A d \in Wanted' : d = c
  BY WantedIssued DEF Typed
<1>2. Clearing \subseteq Clearing'
  BY ClearingKept DEF CallsEffect, Typed
<1>3. Overlays => Overlays'
  BY <1>2, SameOverlays
<1>4. Holding' = Holding
  BY DEF Holding
<1>5. HeldLcd => HeldLcd'
  BY <1>1, <1>4 DEF HeldLcd, NoRead, Shows
<1>6. AskedLcd => AskedLcd'
  BY <1>1 DEF AskedLcd, NoRead, NoConfirm
<1> QED BY <1>3, <1>5, <1>6 DEF LcdInv

(* The user's steps, one by one. *)
LEMMA UserLcd == ASSUME OwnFrame, LcdInv, User PROVE LcdInv'
<1> USE DEF OwnFrame, Typed, screen, outside, history
<1>c. Clearing \subseteq Clearing'
  BY UserEffect, ClearingKept
<1>o. UNCHANGED <<device, lcd, unheard>> => (Overlays => Overlays')
  BY <1>c, SameOverlays
<1>0. UNCHANGED calls => Wanted' \subseteq Wanted
  BY SameWanted
<1>s. calls' = Staled => Wanted' = {} /\ Wanted' \subseteq Wanted
  BY WantedStaled
<1>h. UNCHANGED dialog => Holding' = Holding
  BY DEF Holding
<1>p. ASSUME OnPage, ~mixed PROVE lcd = Nobody /\ \A c \in Wanted : ~Shows(c)
  BY <1>p, NothingHeld, PageHoldsNothing DEF OnPage
<1>1. CASE Scan
  <2>1. /\ Issue(Call("scan", Nobody, "none")) /\ OnPage /\ confirm' = NoConfirm
        /\ UNCHANGED <<mixed, lcd, device, unheard>>
    BY <1>1 DEF Scan, OnPage, Free
  <2>2. Wanted' = {}
    BY <2>1, ACallIsGood, ACallIsUnwanted, WantedIssued
  <2>3. CASE mixed
    BY <2>1, <2>3 DEF LcdInv
  <2>4. CASE ~mixed
    BY <1>p, <1>o, <2>1, <2>2, <2>4, LcdIdle
  <2> QED BY <2>3, <2>4
<1>2. CASE Cancel \/ Leave
  BY <1>2, <1>s, <1>o, <1>h, LcdKept DEF Cancel, Leave
<1>3. CASE Return \/ Toggle \/ Decline
  BY <1>3, <1>0, <1>o, <1>h, LcdKept DEF Return, Toggle, Decline
<1>5. CASE Connect
  BY <1>5, <1>p, StartReadLcd DEF Connect
<1>6. CASE Retry
  <2>1. ~Holding
    BY <1>6 DEF Retry, In, Holding
  <2> QED BY <1>6, <2>1, NothingHeld, StartReadLcd DEF Retry
<1>7. CASE AcceptRead
  <2>0. confirm.why \in {"weak", "dot"}
    BY <1>7 DEF AcceptRead
  <2>1. ~mixed => lcd = Nobody /\ \A c \in Wanted : ~Shows(c)
    BY <2>0 DEF LcdInv, AskedLcd
  <2>2. CASE confirm.why = "weak" /\ confirm' = NoConfirm /\ BeginRead(confirm.mac, confirm.what)
    <3>1. confirm.mac \in Macs /\ confirm.what \in {"view", "history"}
      BY <2>2 DEF ScreenTyped, ConfirmTyped
    <3> QED BY <2>1, <2>2, <3>1, BeginReadLcd
  <2>3. CASE StartRead("history")
    BY <2>1, <2>3, StartReadLcd
  <2> QED BY <1>7, <2>2, <2>3 DEF AcceptRead
<1>8. CASE ShowServices
  <2>1. dialog.mac \in Macs
    BY <1>8 DEF ShowServices, In, ScreenTyped, DialogTyped, OfDevice
  <2>2. Wanted' = Wanted
    BY <1>8, <2>1, ACallIsGood, ACallIsUnwanted, WantedSent DEF ShowServices
  <2> QED BY <1>8, <2>2, <1>o, <1>h, LcdKept DEF ShowServices
<1>9. CASE Back
  <2>1. /\ dialog' = Shown("view", dialog.mac) /\ (mixed => mixed')
        /\ UNCHANGED <<confirm, loaded, lcd, device, unheard, calls>>
    BY <1>9, Zenon DEF Back, In, View
  <2>2. dialog'.body = "view"
    BY <2>1, ShownTyped DEF ScreenTyped, DialogTyped, Screens, Bodies
  <2>3. Holding'
    BY <2>2 DEF Holding
  <2> QED BY <2>1, <2>3, <1>0, <1>o, LcdKept
<1>10. CASE Edit \/ CancelEdit \/ OpenCommands
  <2>1. PICK b \in {"view", "edit", "commands"} :
          /\ dialog' = [dialog EXCEPT !.body = b]
          /\ UNCHANGED <<confirm, loaded, lcd, mixed, device, unheard, calls>>
    BY <1>10 DEF Edit, CancelEdit, OpenCommands, Turn, Body
  <2>2. Holding'
    BY <2>1 DEF ScreenTyped, DialogTyped, Screens, Holding
  <2> QED BY <2>1, <2>2, <1>0, <1>o, LcdKept
<1>11. CASE Save
  <2>1. dialog.mac \in Macs
    BY <1>11 DEF Save, In, ScreenTyped, DialogTyped, OfDevice
  <2>2. /\ Call("write", dialog.mac, "none") \in GoodCalls
        /\ Call("write", dialog.mac, "none").kind = "write"
        /\ ~Shows(Call("write", dialog.mac, "none"))
    BY <2>1, ACallIsGood DEF Call, Shows
  <2>3. confirm.why = "none"
    BY <1>11 DEF Save, In, Free, NoConfirm
  <2> QED BY <1>11, <2>2, <2>3, EditLcd DEF Save
<1>12. ASSUME NEW m \in Macs, NEW what \in Commands, BeginCommand(m, what), what = "show" => Holding,
              UNCHANGED confirm \/ confirm' = NoConfirm, confirm'.why \notin {"weak", "dot"}
       PROVE  LcdInv'
  <2>1. /\ Call("command", m, what) \in GoodCalls
        /\ Call("command", m, what).kind = "command" /\ Call("command", m, what).what = what
    BY ACallIsGood DEF Call
  <2> QED BY <1>12, <2>1, EditLcd DEF BeginCommand, Shows
<1>13. CASE AcceptCommand
  <2>1. confirm.mac \in Macs /\ confirm.what \in Commands
    BY <1>13 DEF AcceptCommand, ScreenTyped, ConfirmTyped
  <2>2. ~mixed => confirm.what # "show"
    BY <1>13 DEF AcceptCommand, LcdInv, AskedLcd
  <2>3. CASE mixed
    BY <1>13, <2>3 DEF AcceptCommand, BeginCommand, LcdInv
  <2>4. CASE ~mixed
    BY <1>12, <1>13, <2>1, <2>2, <2>4 DEF AcceptCommand, NoConfirm
  <2> QED BY <2>3, <2>4
<1>14. ASSUME NEW m \in Macs, NEW c \in Used, Command(m, c) PROVE LcdInv'
  <2>1. c \in Commands
    BY <1>14, OfferedIsGood
  <2>2. Holding /\ confirm.why = "none"
    BY <1>14 DEF Command, Offered, In, Free, Holding, NoConfirm
  <2>3. CASE c \in Asking /\ Ask("command", m, c)
    <3>1. /\ confirm'.why = "command" /\ confirm'.what # "show"
          /\ UNCHANGED <<dialog, loaded, lcd, mixed, device, unheard, calls>>
      BY <2>3 DEF Ask, Asking
    <3>2. Wanted' = Wanted /\ Holding' = Holding
      BY <3>1, <1>h, SameWanted
    <3> QED BY <1>o, <3>1, <3>2 DEF LcdInv, HeldLcd, AskedLcd, NoRead
  <2>4. CASE BeginCommand(m, c) /\ UNCHANGED confirm
    BY <1>12, <2>1, <2>2, <2>4
  <2> QED BY <1>14, <2>3, <2>4 DEF Command
<1>15. CASE Close
  <2>1. CASE lcd = Nobody
    <3>1. /\ calls' = Staled /\ confirm' = NoConfirm /\ UNCHANGED <<mixed, lcd, device, unheard>>
      BY <1>15, <2>1 DEF Close, Free
    <3> QED BY <1>s, <1>o, <2>1, <3>1, LcdIdle
  <2>2. CASE lcd # Nobody
    <3>1. /\ confirm'.why = "lcd" /\ confirm'.mac = lcd
          /\ UNCHANGED <<dialog, loaded, lcd, mixed, device, unheard, calls>>
      BY <1>15, <2>2 DEF Close
    <3>2. Wanted' = Wanted /\ Holding' = Holding
      BY <3>1, <1>h, SameWanted
    <3> QED BY <1>o, <2>2, <3>1, <3>2 DEF LcdInv, HeldLcd, AskedLcd, NoRead
  <2> QED BY <2>1, <2>2
<1>16. ASSUME NEW m \in Macs, Select(m) PROVE LcdInv'
  BY <1>16, <1>0, <1>o, <1>h, LcdKept DEF Select
<1>17. ASSUME NEW m \in Macs, Dot(m) PROVE LcdInv'
  <2>1. /\ confirm'.why = "dot" /\ OnPage
        /\ UNCHANGED <<dialog, loaded, lcd, mixed, device, unheard, calls>>
    BY <1>17 DEF Dot
  <2>2. Wanted' = Wanted /\ Holding' = Holding
    BY <2>1, <1>h, SameWanted
  <2> QED BY <1>p, <1>o, <2>1, <2>2 DEF LcdInv, HeldLcd, AskedLcd, NoRead
<1>18. ASSUME NEW m \in Macs, Rescan(m) PROVE LcdInv'
  <2>1. Wanted' = Wanted
    BY <1>18, ACallIsGood, ACallIsUnwanted, WantedSent DEF Rescan
  <2> QED BY <1>18, <2>1, <1>o, <1>h, LcdKept DEF Rescan
<1>19. ASSUME NEW clear \in BOOLEAN, AnswerLcd(clear) PROVE LcdInv'
  <2> DEFINE k == Call("clear_lcd", confirm.mac, "none")
  <2>1. /\ confirm.why = "lcd" /\ confirm' = NoConfirm /\ lcd' = Nobody
        /\ UNCHANGED <<mixed, device>>
        /\ \/ Issue(k) /\ UNCHANGED unheard
           \/ calls' = Staled /\ unheard' = unheard \union {confirm.mac}
    BY <1>19 DEF AnswerLcd
  <2>2. k \in GoodCalls /\ k.kind = "clear_lcd" /\ k.mac = confirm.mac /\ ~IsWanted(k)
    BY <2>1, ACallIsGood, ACallIsUnwanted DEF ScreenTyped, ConfirmTyped, Call
  <2> HIDE DEF k
  <2>3. Wanted' = {}
    BY <1>s, <2>1, <2>2, WantedIssued
  <2>4. confirm.mac \in unheard' \/ confirm.mac \in Clearing'
    BY <2>1, <2>2, ClearingSent
  <2>5. unheard \subseteq unheard'
    BY <2>1
  <2>6. ~mixed => (Overlays => Overlays')
    BY <1>c, <2>1, <2>4, <2>5 DEF LcdInv, AskedLcd, Overlays
  <2>7. CASE mixed
    BY <2>1, <2>7 DEF LcdInv
  <2>8. CASE ~mixed
    BY <2>1, <2>3, <2>6, <2>8, LcdIdle
  <2> QED BY <2>7, <2>8
<1>20. ASSUME NEW l \in Lists, NEW m \in Macs \union {Nobody}, OpenList(l, m) PROVE LcdInv'
  <2>1. /\ OnPage /\ dialog' = Shown("waiting", Nobody) /\ confirm' = NoConfirm
        /\ UNCHANGED <<lcd, mixed, device, unheard>>
    BY <1>20 DEF OpenList, OnPage, Free
  <2>2. dialog'.body = "waiting"
    BY <2>1, ShownTyped DEF Bodies
  <2>3. Holding'
    BY <2>2 DEF Holding
  <2>4. CASE mixed
    BY <2>1, <2>4 DEF LcdInv
  <2>5. CASE ~mixed
    BY <1>p, <1>o, <2>1, <2>3, <2>5, LcdIdle
  <2> QED BY <2>4, <2>5
<1> QED
  BY <1>1, <1>2, <1>3, <1>5, <1>6, <1>7, <1>8, <1>9, <1>10, <1>11, <1>13, <1>14, <1>15, <1>16,
     <1>17, <1>18, <1>19, <1>20, Zenon DEF User

(* An overlay is put on or taken off, as long as that is wanted of the device *)
(* that lcd names, or of any when it names none.                              *)
LEMMA LcdAnsweredLcd ==
  ASSUME OwnFrame, LcdInv, NEW i \in DOMAIN calls, LcdAnswered(i), Answer(i) PROVE LcdInv'
<1> USE DEF OwnFrame, Typed, screen, outside, history
<1> DEFINE c == calls[i]
           shown == c.what = "show"
<1>0. c \in GoodCalls
  BY DEF CallsTyped
<1>1. /\ c.mac \in Macs /\ c.kind = "command" /\ c.what \in {"show", "clear"}
      /\ UNCHANGED <<dialog, loaded, confirm, mixed>>
  BY <1>0 DEF LcdAnswered, LcdDone, Ends, Answering, Unlock, GoodCalls, GoodCall
<1>2. lcd' = IF ~c.live THEN lcd ELSE IF shown THEN c.mac ELSE Nobody
  BY DEF LcdAnswered, LcdDone
<1> DEFINE heard == IF ~c.live THEN "nothing" ELSE IF shown THEN "on" ELSE "off"
<1>3. PICK taken \in BOOLEAN : Overlay(c.mac, IF taken THEN shown ELSE device[c.mac].lcd, heard)
  BY DEF LcdAnswered, LcdDone
<1> DEFINE on == IF taken THEN shown ELSE device[c.mac].lcd
<1>4. on \in BOOLEAN /\ Overlay(c.mac, on, heard)
  BY <1>1, <1>3 DEF DataTyped
<1>5. Clearing \subseteq Clearing'
  BY <1>1, ClearingAnswered
<1>6. IsWanted(c) => c \in Wanted /\ Wanted' = {}
  BY WantedAnswered, OneAnswered
<1>7. Wanted' \subseteq Wanted
  BY WantedAnswered
<1>13. /\ \A n \in Macs : device'[n].lcd = IF n = c.mac THEN on ELSE device[n].lcd
       /\ \A n \in Macs : n # c.mac /\ n \in unheard => n \in unheard'
       /\ on /\ heard = "off" => c.mac \in unheard'
  <2> HIDE DEF on, heard, c, shown
  <2> QED BY <1>1, <1>4, OverlayFacts
<1>14. /\ ~c.live => heard = "nothing"
       /\ c.live => heard = IF shown THEN "on" ELSE "off"
  OBVIOUS
<1> HIDE DEF c, shown, on, heard
<1>8. CASE mixed
  BY <1>1, <1>8 DEF LcdInv
<1>9. CASE ~mixed /\ ~c.live
  <2>1. UNCHANGED lcd
    BY <1>2, <1>9
  <2>2. Overlays'
    BY <1>1, <1>4, <1>5, <1>9, <1>14, <2>1, OverlayKept DEF LcdInv
  <2> QED BY <1>1, <1>7, <2>1, <2>2, LcdKept DEF Holding
<1>10. CASE ~mixed /\ c.live
  <2>1. c \in Wanted /\ Wanted' = {} /\ Edits(c)
    BY <1>1, <1>6, <1>10 DEF IsWanted, Edits
  <2>2. loaded.of = c.mac
    BY <1>10, <2>1 DEF OwnInv, WantedOwn, About
  <2>3. lcd \in {Nobody, c.mac} /\ lcd' \in {Nobody, c.mac}
    BY <1>2, <1>10, <2>2 DEF LcdInv, HeldLcd
  <2>4. shown => Shows(c)
    BY <1>1 DEF Shows, shown
  <2>5. Overlays'
    <3> SUFFICES ASSUME NEW n \in Macs, device'[n].lcd
                 PROVE  lcd' = n \/ n \in unheard' \/ n \in Clearing'
      BY DEF Overlays
    <3>1. CASE n = c.mac
      <4>1. shown => lcd' = n
        BY <1>2, <1>10, <3>1
      <4>2. ~shown => n \in unheard'
        BY <1>10, <1>13, <1>14, <3>1
      <4> QED BY <4>1, <4>2
    <3>2. CASE n # c.mac
      <4>1. lcd = n \/ n \in unheard \/ n \in Clearing
        BY <1>10, <1>13, <3>2 DEF LcdInv, Overlays
      <4>2. n # Nobody
        BY PanelAssumption
      <4> QED BY <1>5, <1>13, <2>3, <3>2, <4>1, <4>2
    <3> QED BY <3>1, <3>2
  <2>6. HeldLcd'
    <3>1. lcd' # Nobody => shown
      BY <1>2, <1>10
    <3>2. lcd' # Nobody => Holding
      BY <1>10, <2>1, <2>4, <3>1 DEF LcdInv, HeldLcd
    <3> QED BY <1>1, <2>1, <2>2, <2>3, <3>2 DEF HeldLcd, Holding, NoRead
  <2>7. AskedLcd'
    <3>1. confirm.why \in {"weak", "dot"} => lcd' = Nobody
      BY <1>2, <1>10, <2>1, <2>4 DEF LcdInv, AskedLcd
    <3>2. confirm.why = "lcd" => confirm.mac = c.mac
      BY <1>10, <2>2 DEF LcdInv, AskedLcd
    <3> QED BY <1>1, <1>10, <2>1, <2>2, <2>3, <3>1, <3>2 DEF LcdInv, AskedLcd, NoRead
  <2> QED BY <2>5, <2>6, <2>7 DEF LcdInv
<1> QED BY <1>8, <1>9, <1>10

(* A read that was wanted is answered: there was nothing to hold. *)
LEMMA ReadLcd ==
  ASSUME LcdInv, NEW c \in Wanted, c.kind = "read", Wanted' = {}, UNCHANGED <<lcd, confirm, mixed>>,
         Overlays => Overlays'
  PROVE  LcdInv'
<1> SUFFICES ASSUME ~mixed PROVE HeldLcd' /\ AskedLcd' /\ Overlays'
  BY DEF LcdInv
<1>1. lcd = Nobody /\ confirm.why # "lcd"
  BY DEF LcdInv, HeldLcd, AskedLcd, NoRead
<1> QED BY <1>1 DEF LcdInv, HeldLcd, AskedLcd

(* The answers, one by one. *)
LEMMA AnswerLcdInv ==
  ASSUME OwnFrame, LcdInv, NEW i \in DOMAIN calls, Answer(i) PROVE LcdInv'
<1> USE DEF OwnFrame, Typed, screen, outside, history
<1> DEFINE c == calls[i]
<1>0. c \in GoodCalls
  BY DEF CallsTyped
<1>00. /\ c.kind \in {"read", "services", "write", "command", "clear_lcd", "rescan", "reread"}
            => c.mac \in Macs
       /\ c.kind = "load" => c.what \in Listings
       /\ c.live \in BOOLEAN
  BY <1>0 DEF GoodCalls, GoodCall, Calls
<1>w. Wanted' \subseteq Wanted
  BY WantedAnswered
<1>1. IsWanted(c) => c \in Wanted /\ Wanted' = {}
  BY WantedAnswered, OneAnswered
<1>c. c.kind # "clear_lcd" => Clearing \subseteq Clearing'
  BY ClearingAnswered
<1>o. ASSUME c.kind # "clear_lcd", UNCHANGED <<lcd, unheard>>,
             UNCHANGED device \/ (c.mac \in Macs /\ (Grows(c.mac) \/ UNCHANGED device))
      PROVE  Overlays => Overlays'
  <2>1. \A n \in Macs : device'[n].lcd => device[n].lcd
    BY <1>o, GrownOverlays
  <2> QED BY <1>c, <1>o, <2>1, SameOverlays
<1>h. UNCHANGED dialog => Holding' = Holding
  BY DEF Holding
<1>2. CASE ScanAnswered(i) \/ ScanFailed(i) \/ IndexAnswered(i)
  <2>1. c.kind # "clear_lcd" /\ UNCHANGED <<lcd, unheard, device, dialog, loaded, confirm, mixed>>
    BY <1>2 DEF ScanAnswered, ScanFailed, IndexAnswered, Answering
  <2> QED BY <1>w, <1>o, <1>h, <2>1, LcdKept
<1>3. CASE ReadThenHistory(i)
  <2>1. c.kind = "read" /\ IsWanted(c) /\ UNCHANGED <<lcd, unheard, device, confirm, mixed>>
    BY <1>3 DEF ReadThenHistory, IsWanted
  <2>2. Overlays => Overlays'
    BY <1>o, <2>1
  <2> HIDE DEF c
  <2> QED BY <1>1, <2>1, <2>2, ReadLcd
<1>v. dialog' = Shown("view", c.mac) /\ c.mac \in Macs => Holding'
  <2>1. dialog' = Shown("view", c.mac) /\ c.mac \in Macs => dialog'.body = "view"
    BY ShownTyped DEF Bodies
  <2> QED BY <2>1 DEF Holding
<1>4. CASE WriteAnswered(i)
  <2>1. /\ c.mac \in Macs /\ c.kind = "write" /\ Grows(c.mac)
        /\ UNCHANGED <<lcd, unheard, confirm, mixed>>
    BY <1>4, <1>00 DEF WriteAnswered, Answering
  <2>2. UNCHANGED loaded \/ loaded' = [loaded EXCEPT !.version = device'[c.mac].version]
    BY <1>4 DEF WriteAnswered
  <2>3. loaded'.of = loaded.of
    BY <2>2 DEF DataTyped, Fields
  <2>4. UNCHANGED dialog \/ dialog' = Shown("view", c.mac)
    BY <1>4 DEF WriteAnswered, View
  <2> QED BY <1>w, <1>o, <1>h, <1>v, <2>1, <2>3, <2>4, LcdKept
<1>5. CASE SettingTaken(i)
  <2>1. /\ c.mac \in Macs /\ c.kind = "command" /\ Grows(c.mac)
        /\ UNCHANGED <<lcd, unheard, confirm, mixed, dialog>>
    BY <1>5, <1>00 DEF SettingTaken, Ends, Answering, Unlock
  <2>2. UNCHANGED loaded \/ loaded' = [loaded EXCEPT !.version = device'[c.mac].version]
    BY <1>5 DEF SettingTaken
  <2>3. loaded'.of = loaded.of
    BY <2>2 DEF DataTyped, Fields
  <2> QED BY <1>w, <1>o, <1>h, <2>1, <2>3, LcdKept
<1>6. CASE CommandEnds(i)
  <2>1. /\ c.mac \in Macs /\ c.kind = "command" /\ UNCHANGED <<lcd, confirm, mixed, dialog, loaded>>
    BY <1>6, <1>00 DEF CommandEnds, Ends, Answering, Unlock
  <2>2. \/ (Grows(c.mac) \/ UNCHANGED device) /\ UNCHANGED unheard
        \/ Overlay(c.mac, c.what = "show", "nothing")
    BY <1>6 DEF CommandEnds
  <2>3. CASE (Grows(c.mac) \/ UNCHANGED device) /\ UNCHANGED unheard
    BY <1>w, <1>o, <1>h, <2>1, <2>3, LcdKept
  <2>4. CASE Overlay(c.mac, c.what = "show", "nothing")
    <3> DEFINE on == c.what = "show"
    <3>1. on \in BOOLEAN /\ Overlay(c.mac, on, "nothing") /\ Clearing \subseteq Clearing'
      BY <1>c, <2>1, <2>4
    <3> HIDE DEF on, c
    <3>2. Overlays => Overlays'
      BY <2>1, <3>1, OverlayKept
    <3> QED BY <1>w, <1>h, <2>1, <3>2, LcdKept
  <2> QED BY <2>2, <2>3, <2>4
<1>7. CASE Restored(i)
  <2>1. /\ c.mac \in Macs /\ c.kind = "command" /\ Grows(c.mac)
        /\ UNCHANGED <<lcd, unheard, confirm, mixed, dialog, loaded>>
    BY <1>7, <1>00 DEF Restored, Unlock
  <2> QED BY <1>w, <1>o, <1>h, <2>1, LcdKept
<1>8. CASE LcdAnswered(i)
  BY <1>8, LcdAnsweredLcd
<1>9. ASSUME NEW found \in SUBSET Macs, ScanShown(i, found) PROVE LcdInv'
  <2>1. c.kind # "clear_lcd" /\ UNCHANGED <<lcd, unheard, device, dialog, loaded, confirm, mixed>>
    BY <1>9 DEF ScanShown
  <2> QED BY <1>w, <1>o, <1>h, <2>1, LcdKept
<1>10. ASSUME NEW ok \in BOOLEAN, ReadAnswered(i, ok) PROVE LcdInv'
  <2>1. c.kind = "read" /\ UNCHANGED <<lcd, unheard, device, confirm, mixed>>
    BY <1>10 DEF ReadAnswered, Answering
  <2>2. Overlays => Overlays'
    BY <1>o, <2>1
  <2>3. CASE c.live
    <3>1. IsWanted(c)
      BY <2>1, <2>3 DEF IsWanted
    <3> HIDE DEF c
    <3> QED BY <1>1, <2>1, <2>2, <3>1, ReadLcd
  <2>4. CASE ~c.live
    <3>1. UNCHANGED <<loaded, dialog>>
      BY <1>10, <2>4 DEF ReadAnswered, SameScreen
    <3> QED BY <1>w, <1>h, <2>1, <2>2, <3>1, LcdKept
  <2> QED BY <2>3, <2>4
<1>11. ASSUME NEW ok \in BOOLEAN, ServicesAnswered(i, ok) PROVE LcdInv'
  <2>1. /\ c.kind = "services" /\ (mixed => mixed')
        /\ UNCHANGED <<lcd, unheard, device, confirm, loaded>>
    BY <1>11, Zenon DEF ServicesAnswered, Answering
  <2>2. UNCHANGED dialog \/ dialog' = [dialog EXCEPT !.body = "services", !.mac = c.mac]
    BY <1>11 DEF ServicesAnswered, SameScreen
  <2>3. Holding => Holding'
    BY <2>2 DEF Holding, ScreenTyped, DialogTyped, Screens
  <2> QED BY <1>w, <1>o, <2>1, <2>3, LcdKept
<1>12. ASSUME NEW ok \in BOOLEAN, WriteFailed(i, ok) PROVE LcdInv'
  <2>1. /\ c.mac \in Macs /\ c.kind = "write" /\ (Grows(c.mac) \/ UNCHANGED device)
        /\ UNCHANGED <<lcd, unheard, confirm, mixed, loaded>>
    BY <1>12, <1>00 DEF WriteFailed, Answering
  <2>2. UNCHANGED dialog \/ dialog' = Shown("view", c.mac)
    BY <1>12 DEF WriteFailed, View
  <2> QED BY <1>w, <1>o, <1>h, <1>v, <2>1, <2>2, LcdKept
<1>13. ASSUME NEW ok \in BOOLEAN, RepeaterAnswered(i, ok) PROVE LcdInv'
  <2>1. /\ c.mac \in Macs /\ c.kind = "command" /\ c.what \in {"rsave", "wake"}
        /\ (Grows(c.mac) \/ UNCHANGED device) /\ UNCHANGED <<lcd, unheard, confirm, mixed>>
    BY <1>13, <1>00 DEF RepeaterAnswered, Ends, Answering
  <2>2. CASE c.live
    <3>1. loaded'.of = c.mac /\ dialog' = Shown("view", c.mac)
      BY <1>13, <2>2 DEF RepeaterAnswered, View
    <3>2. c \in Wanted /\ Edits(c) /\ loaded'.of = c.mac
      BY <1>1, <2>1, <2>2, <3>1 DEF IsWanted, Edits
    <3>3. ~mixed => loaded'.of = loaded.of
      BY <3>2 DEF OwnInv, WantedOwn, About
    <3>4. CASE mixed
      BY <2>1, <3>4 DEF LcdInv
    <3> QED BY <1>w, <1>o, <1>v, <2>1, <3>1, <3>3, <3>4, LcdKept
  <2>3. CASE ~c.live
    <3>1. UNCHANGED <<loaded, dialog>>
      BY <1>13, <2>3 DEF RepeaterAnswered, SameScreen
    <3> QED BY <1>w, <1>o, <1>h, <2>1, <3>1, LcdKept
  <2> QED BY <2>2, <2>3
<1>14. ASSUME NEW ok \in BOOLEAN, LcdCleared(i, ok) PROVE LcdInv'
  <2>1. /\ c.mac \in Macs /\ UNCHANGED <<lcd, confirm, mixed, dialog, loaded>>
    BY <1>14, <1>00 DEF LcdCleared, Answering
  <2>2. \A m \in Clearing : m = c.mac \/ m \in Clearing'
    BY ClearingAnswered
  <2> DEFINE on == device[c.mac].lcd /\ ~ok
  <2>3. on \in BOOLEAN /\ Overlay(c.mac, on, "off")
    BY <1>14 DEF LcdCleared
  <2> HIDE DEF c, on
  <2>6. Overlays => Overlays'
    BY <2>1, <2>2, <2>3, OverlayKept
  <2> QED BY <1>w, <1>h, <2>1, <2>6, LcdKept
<1>15. ASSUME NEW ok \in BOOLEAN, RereadAnswered(i, ok) PROVE LcdInv'
  <2>1. c.kind = "reread" /\ UNCHANGED <<lcd, unheard, device, dialog, loaded, confirm, mixed>>
    BY <1>15 DEF RereadAnswered, Answering
  <2> QED BY <1>w, <1>o, <1>h, <2>1, LcdKept
<1>16. ASSUME NEW ok \in BOOLEAN, LoadAnswered(i, ok) \/ RescanAnswered(i, ok) PROVE LcdInv'
  <2>1. c.kind \in {"load", "rescan"} /\ UNCHANGED <<lcd, unheard, device, loaded, confirm, mixed>>
    BY <1>16 DEF LoadAnswered, RescanAnswered, Answering
  <2>2. \/ UNCHANGED dialog
        \/ \E b \in Listings : dialog' = [dialog EXCEPT !.body = b]
    <3>1. "compare" \in Listings
      BY DEF Listings
    <3> QED BY <1>16, <1>00, <3>1 DEF LoadAnswered, RescanAnswered, Body, SameScreen, Answering
  <2>3. Holding => Holding'
    BY <2>2 DEF Holding, ScreenTyped, DialogTyped, Screens, Listings
  <2> QED BY <1>w, <1>o, <2>1, <2>3, LcdKept
<1> QED
  BY <1>2, <1>3, <1>4, <1>5, <1>6, <1>7, <1>8, <1>9, <1>10, <1>11, <1>12, <1>13, <1>14, <1>15,
     <1>16, Zenon DEF Answer

LEMMA LcdStep == OwnFrame /\ LcdInv /\ [Next]_vars => LcdInv'
<1> SUFFICES ASSUME OwnFrame, LcdInv, [Next]_vars PROVE LcdInv'
  OBVIOUS
<1> USE DEF screen, outside, history
<1>0. UNCHANGED calls => Wanted' \subseteq Wanted /\ Clearing \subseteq Clearing'
  BY SameWanted DEF Clearing, Elems
<1>1. CASE User
  BY <1>1, UserLcd
<1>2. CASE \E i \in DOMAIN calls : Answer(i)
  BY <1>2, AnswerLcdInv
<1>3. CASE (\E kept \in BOOLEAN : SaveAnswered(kept)) \/ UNCHANGED vars
  <2>1. UNCHANGED <<calls, dialog, loaded, confirm, mixed, lcd, device, unheard>>
    BY <1>3 DEF SaveAnswered, vars
  <2> QED BY <1>0, <2>1, SameOverlays, LcdKept DEF Holding
<1>4. ASSUME NEW active \in BOOLEAN, Poll(active) PROVE LcdInv'
  <2>1. UNCHANGED <<calls, loaded, confirm, mixed, lcd, device, unheard>>
    BY <1>4 DEF Poll
  <2>2. UNCHANGED dialog \/ dialog' = Shown("results", Nobody)
    BY <1>4 DEF Poll
  <2>3. dialog' = Shown("results", Nobody) => dialog'.body = "results"
    BY ShownTyped DEF Bodies
  <2>4. Holding => Holding'
    BY <2>2, <2>3 DEF Holding
  <2> QED BY <1>0, <2>1, <2>4, SameOverlays, LcdKept
<1> QED BY <1>1, <1>2, <1>3, <1>4 DEF Next

(* An overlay that stays on a device is asked about when a dialog closes,      *)
(* unless the panel was told to leave it, or never told that it is there: its  *)
(* command was answered too late or as failed though it took effect, or was    *)
(* answered as cleared without an effect.  So with any devices and any number  *)
(* of calls, whatever is closed, cancelled and opened meanwhile, as long as no *)
(* two devices met in one dialog (_lcdPermanentMac, _closeModal).              *)
THEOREM LcdRememberedCorrect == Spec => []LcdRemembered
<1>1. Init => LcdInv
  <2> SUFFICES ASSUME Init PROVE LcdInv
    OBVIOUS
  <2>1. Typed
    BY TypedInit
  <2>2. \A c \in Elems(calls) : ~IsWanted(c)
    BY ACallIsUnwanted DEF Init, Elems
  <2>3. lcd = Nobody /\ confirm.why = "none" /\ \A m \in Macs : ~device[m].lcd
    BY DEF Init, NoConfirm
  <2> QED BY <2>2, <2>3 DEF LcdInv, HeldLcd, AskedLcd, Overlays, Wanted
<1>2. LcdInv => LcdRemembered
  <2>1. \A m \in Clearing : \E i \in DOMAIN calls : calls[i].kind = "clear_lcd" /\ calls[i].mac = m
    BY DEF Clearing, Elems
  <2> QED BY <2>1 DEF LcdInv, Overlays, LcdRemembered
<1> QED BY <1>1, <1>2, OwnInit, OwnStep, LcdStep, PTL DEF Spec
===============================================================================
