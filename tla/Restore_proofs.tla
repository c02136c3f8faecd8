--------------------------- MODULE Restore_proofs ---------------------------
(* Theorems about Restore, for any snapshots and any parts asked for. *)
EXTENDS Restore, TLAPS

(* The steps of the attempts, one disjunct each. *)
Write == \E p \in Parts : Send(p) \/ SendFails(p)

Rest == NoConnection \/ Connected \/ Mismatch \/ ReadFirst \/ Finish \/ Exhausted \/ Save

LEMMA StepsOf == Next => Ask \/ Rest \/ Write \/ UNCHANGED vars
BY DEF Next, Rest, Write, Finished

(* What is read of the target is typed, and is nothing that it does not     *)
(* have.                                                                    *)
LEMMA ReadableFields ==
  ASSUME TypeOK, NEW fields \in Readable
  PROVE  /\ fields \in Fields
         /\ fields.given \subseteq device.given
         /\ snap.kind = "thermometer" /\ fields.crypto # "none" =>
              fields.crypto = device.crypto /\ "config" \in fields.read
<1>1. PartsOf(snap.kind) \subseteq Parts
  BY DEF PartsOf, Parts
<1>2. CASE fields = Unread
  BY <1>2 DEF Unread, Fields, Cryptos
<1>3. CASE fields # Unread
  <2>1. PICK r \in SUBSET PartsOf(snap.kind) :
          /\ snap.kind = "thermometer" => "config" \in r
          /\ fields = [read |-> r, given |-> device.given \intersect r,
                       crypto |-> IF snap.kind = "thermometer" THEN device.crypto ELSE "none"]
    BY <1>3 DEF Readable
  <2>2. r \in SUBSET Parts /\ device.given \intersect r \in SUBSET Parts
    BY <1>1
  <2>3. (IF snap.kind = "thermometer" THEN device.crypto ELSE "none") \in Cryptos
    BY DEF TypeOK, Cryptos
  <2> QED
    BY <2>1, <2>2, <2>3 DEF Fields
<1> QED
  BY <1>2, <1>3

(* Overwriting a part keeps the type of the target, its kind and whatever   *)
(* it had of the snapshot already.                                          *)
LEMMA OverwrittenDevice ==
  ASSUME TypeOK, NEW p \in Parts
  PROVE  /\ Overwritten(p) \in [kind : Kinds, crypto : Cryptos, given : SUBSET Parts]
         /\ Overwritten(p).kind = device.kind
         /\ Overwritten(p).given = device.given \union {p}
         /\ Overwritten(p).crypto =
              IF p = "config" /\ snap.kind = "thermometer" THEN before.crypto ELSE device.crypto
BY DEF TypeOK, Overwritten, Fields

-----------------------------------------------------------------------------
(* Every variable of Restore keeps its type. *)
THEOREM TypeCorrect == Spec => []TypeOK
<1>1. Init => TypeOK
  <2> SUFFICES ASSUME Init PROVE TypeOK
    OBVIOUS
  <2>1. device \in [kind : Kinds, crypto : Cryptos, given : SUBSET Parts]
    BY DEF Init
  <2>2. snap \in SnapshotType /\ asked \in SUBSET Parts
    BY SnapshotAssumption DEF Init
  <2>3. before \in Fields /\ saved \in Fields
    BY DEF Init, Unread, Fields, Cryptos
  <2>4. answer \in AnswerType
    BY DEF Init, NoAnswer, AnswerType, Safeties
  <2> QED
    BY <2>1, <2>2, <2>3, <2>4 DEF Init, TypeOK, NoResults
<1>2. TypeOK /\ [Next]_vars => TypeOK'
  <2> SUFFICES ASSUME TypeOK, [Next]_vars PROVE TypeOK'
    OBVIOUS
  <2>1. CASE Ask
    BY <2>1 DEF TypeOK, Ask, AnswerWith, AnswerType, Tries, input, attempt
  <2>2. CASE NoConnection
    BY <2>2 DEF TypeOK, NoConnection, input, attempt
  <2>3. CASE Connected
    BY <2>3 DEF TypeOK, Connected, Connect, Shown, NoResults, Unread, Fields, Cryptos, input
  <2>4. CASE Mismatch
    <3>1. left' \in Nat /\ table' \in Kinds /\ todo' \in SUBSET Parts /\ before' \in Fields
          /\ out' \in [done : SUBSET Parts, good : SUBSET Parts]
      BY <2>4 DEF TypeOK, Mismatch, Connect, Shown, NoResults, Unread, Fields, Cryptos
    <3>2. rediscover' \in BOOLEAN /\ answer' \in AnswerType /\ pc' \in {"attempt", "done"}
      BY <2>4 DEF TypeOK, Mismatch, AnswerWith, AnswerType
    <3> QED
      BY <2>4, <3>1, <3>2 DEF TypeOK, Mismatch, input
  <2>5. CASE ReadFirst
    <3>1. CASE NoPayload
      BY <2>5, <3>1 DEF TypeOK, ReadFirst, AnswerWith, AnswerType, input, attempt
    <3>2. CASE ~NoPayload
      <4>1. PICK fields \in Readable :
              /\ before' = fields
              /\ todo' = Wanted \ Refused(fields)
              /\ out' = [done |-> Refused(fields), good |-> {}]
        BY <2>5, <3>2 DEF ReadFirst
      <4>2. Wanted \in SUBSET Parts /\ Refused(fields) \in SUBSET Parts
        BY DEF Wanted, Refused, TypeOK
      <4>3. before' \in Fields
        BY <4>1, ReadableFields
      <4>4. pc' = "writing" /\ UNCHANGED answer
        BY <2>5, <3>2 DEF ReadFirst
      <4> QED
        BY <2>5, <4>1, <4>2, <4>3, <4>4 DEF TypeOK, ReadFirst, input
    <3> QED
      BY <3>1, <3>2
  <2>6. ASSUME NEW p \in Parts, Send(p) PROVE TypeOK'
    <3>1. device' \in [kind : Kinds, crypto : Cryptos, given : SUBSET Parts]
      BY <2>6, OverwrittenDevice DEF Send, TypeOK
    <3>2. out' \in [done : SUBSET Parts, good : SUBSET Parts] /\ todo' \in SUBSET Parts
      BY <2>6 DEF Send, TypeOK
    <3> QED
      BY <2>6, <3>1, <3>2 DEF Send, TypeOK, input
  <2>7. ASSUME NEW p \in Parts, SendFails(p) PROVE TypeOK'
    <3>1. device' \in [kind : Kinds, crypto : Cryptos, given : SUBSET Parts]
      BY <2>7, OverwrittenDevice DEF SendFails, TypeOK
    <3> QED
      BY <2>7, <3>1 DEF SendFails, TypeOK, input, attempt
  <2>8. CASE Finish
    BY <2>8 DEF TypeOK, Finish, AnswerType, input, attempt
  <2>9. CASE Exhausted
    BY <2>9 DEF TypeOK, Exhausted, AnswerWith, AnswerType, input, attempt
  <2>10. CASE Save
    <3>1. answer' \in AnswerType /\ saved' \in Fields /\ pc' = "done"
      BY <2>10 DEF TypeOK, Save, AnswerType, Safeties
    <3> QED
      BY <2>10, <3>1 DEF TypeOK, Save, input, attempt
  <2>11. CASE UNCHANGED vars
    BY <2>11 DEF TypeOK, vars
  <2> QED
    BY <2>1, <2>2, <2>3, <2>4, <2>5, <2>6, <2>7, <2>8, <2>9, <2>10, <2>11, StepsOf
       DEF Rest, Write
<1> QED
  BY <1>1, <1>2, PTL DEF Spec

-----------------------------------------------------------------------------
(* A config that is about to be written has the target's own flag, which    *)
(* was read in the same attempt; the key of another device is never about   *)
(* to be written.                                                           *)
OwnInv ==
  pc = "writing" /\ snap.kind = "thermometer" =>
    /\ "config" \in todo => before.crypto = device.crypto
    /\ snap.clone => "bind_key" \notin todo

(* The two facts that every step of a restore rests on. *)
LEMMA WriteKeepsOwn ==
  ASSUME TypeOK, OwnInv, NEW p \in Parts, Send(p) \/ SendFails(p)
  PROVE  OwnKept /\ device'.crypto = device.crypto
<1>1. pc = "writing" /\ p \in todo /\ (device' = Overwritten(p) \/ device' = device)
      /\ snap' = snap
  BY DEF Send, SendFails, Turn, input
<1>2. CASE device' = device
  BY <1>2 DEF OwnKept
<1>3. CASE device' = Overwritten(p)
  <2>1. device'.crypto = device.crypto
    BY <1>1, <1>3, OverwrittenDevice DEF OwnInv
  <2>2. snap.clone /\ snap.kind = "thermometer" => p # "bind_key"
    BY <1>1 DEF OwnInv
  <2>3. device'.given = device.given \union {p}
    BY <1>3, OverwrittenDevice
  <2> QED
    BY <2>1, <2>2, <2>3 DEF OwnKept
<1> QED
  BY <1>1, <1>2, <1>3

LEMMA OwnStep == TypeOK /\ OwnInv /\ [Next]_vars => OwnInv' /\ [OwnKept]_vars
<1> SUFFICES ASSUME TypeOK, OwnInv, [Next]_vars PROVE OwnInv' /\ [OwnKept]_vars
  OBVIOUS
<1>1. CASE Ask \/ NoConnection \/ Connected \/ Mismatch \/ Finish \/ Exhausted \/ Save
  <2>1. device' = device /\ pc' # "writing"
    BY <1>1 DEF Ask, NoConnection, Connected, Mismatch, Finish, Exhausted, Save, AnswerWith
  <2> QED
    BY <2>1 DEF OwnInv, OwnKept
<1>2. CASE ReadFirst
  <2>1. device' = device /\ snap' = snap
    BY <1>2 DEF ReadFirst, input
  <2>2. CASE NoPayload
    BY <1>2, <2>1, <2>2 DEF ReadFirst, AnswerWith, OwnInv, OwnKept
  <2>3. CASE ~NoPayload
    <3>1. PICK fields \in Readable : before' = fields /\ todo' = Wanted \ Refused(fields)
      BY <1>2, <2>3 DEF ReadFirst
    <3>2. ASSUME snap.kind = "thermometer", "config" \in todo'
          PROVE  before'.crypto = device.crypto
      <4>1. fields.crypto # "none"
        BY <3>1, <3>2 DEF Refused, Wanted
      <4> QED
        BY <3>1, <3>2, <4>1, ReadableFields
    <3>3. ASSUME snap.kind = "thermometer", snap.clone PROVE "bind_key" \notin todo'
      BY <3>1, <3>3 DEF Refused, Wanted
    <3> QED
      BY <2>1, <3>2, <3>3 DEF OwnInv, OwnKept
  <2> QED
    BY <2>2, <2>3
<1>3. ASSUME NEW p \in Parts, Send(p) PROVE OwnInv' /\ [OwnKept]_vars
  <2>1. OwnKept /\ device'.crypto = device.crypto
    BY <1>3, WriteKeepsOwn
  <2>2. todo' \subseteq todo /\ before' = before /\ snap' = snap /\ pc' = pc
    BY <1>3 DEF Send, input
  <2> QED
    BY <2>1, <2>2 DEF OwnInv
<1>4. ASSUME NEW p \in Parts, SendFails(p) PROVE OwnInv' /\ [OwnKept]_vars
  <2>1. OwnKept
    BY <1>4, WriteKeepsOwn
  <2>2. pc' # "writing"
    BY <1>4 DEF SendFails
  <2> QED
    BY <2>1, <2>2 DEF OwnInv
<1>5. CASE UNCHANGED vars
  BY <1>5 DEF vars, OwnInv
<1> QED
  BY <1>1, <1>2, <1>3, <1>4, <1>5, StepsOf DEF Rest, Write

(* Whatever the snapshot is and however often an attempt is repeated, the   *)
(* target keeps its encryption flag, and a clone carries no key.            *)
THEOREM OwnCorrect == Spec => TargetKeepsItsOwn
<1>1. Init => OwnInv
  BY DEF Init, OwnInv
<1>2. QED
  BY <1>1, OwnStep, TypeCorrect, PTL DEF Spec, TargetKeepsItsOwn

-----------------------------------------------------------------------------
(* While parts are written: each that is wanted is to do or has a result,   *)
(* and each that went well, and whose reply says so, is on the device.      *)
Sure(p) == p \in snap.has /\ (p \in EchoOnly => before = Unread)

ResultInv ==
  /\ pc = "writing" =>
       /\ Wanted \subseteq todo \union out.done
       /\ \A p \in out.good : Sure(p) => p \in device.given
  /\ OkIsRestored
  /\ answer.ok => pc \in {"saving", "done"}

(* The parts on the device never lose the given value again. *)
LEMMA GivenGrows ==
  ASSUME TypeOK, NEW p \in Parts, Send(p) \/ SendFails(p)
  PROVE  device.given \subseteq device'.given
BY OverwrittenDevice DEF Send, SendFails

LEMMA ResultStep == TypeOK /\ ResultInv /\ [Next]_vars => ResultInv'
<1> SUFFICES ASSUME TypeOK, ResultInv, [Next]_vars PROVE ResultInv'
  OBVIOUS
<1>1. CASE Ask \/ NoConnection \/ Connected \/ Mismatch \/ Exhausted
  <2>1. pc' # "writing"
    BY <1>1 DEF Ask, NoConnection, Connected, Mismatch, Exhausted, AnswerWith
  <2>2. answer'.ok = answer.ok /\ pc \notin {"saving", "done"}
    BY <1>1 DEF Ask, NoConnection, Connected, Mismatch, Exhausted, Connect, AnswerWith,
                TypeOK, AnswerType
  <2> QED
    BY <2>1, <2>2 DEF ResultInv, OkIsRestored
<1>2. CASE ReadFirst
  <2>1. device' = device /\ UNCHANGED <<snap, asked>> /\ pc = "reading"
    BY <1>2 DEF ReadFirst, input
  <2>2. answer'.ok = answer.ok
    BY <1>2 DEF ReadFirst, AnswerWith, TypeOK, AnswerType
  <2>3. CASE NoPayload
    BY <1>2, <2>1, <2>2, <2>3 DEF ReadFirst, AnswerWith, ResultInv, OkIsRestored
  <2>4. CASE ~NoPayload
    <3>1. PICK fields \in Readable :
            /\ todo' = Wanted \ Refused(fields)
            /\ out' = [done |-> Refused(fields), good |-> {}]
      BY <1>2, <2>4 DEF ReadFirst
    <3>2. Wanted' = Wanted
      BY <2>1 DEF Wanted
    <3> QED
      BY <2>1, <2>2, <3>1, <3>2 DEF ResultInv, OkIsRestored
  <2> QED
    BY <2>3, <2>4
<1>3. ASSUME NEW p \in Parts, Send(p) PROVE ResultInv'
  <2>1. UNCHANGED <<snap, asked, answer, pc>> /\ pc = "writing"
    BY <1>3 DEF Send, input
  <2>2. Wanted' = Wanted
    BY <2>1 DEF Wanted
  <2>3. Wanted' \subseteq todo' \union out'.done
    BY <1>3, <2>1, <2>2 DEF Send, ResultInv
  <2>4. \A q \in out'.good : Sure(q) => q \in device'.given
    <3>1. PICK taken, verified \in BOOLEAN :
            /\ IF p = "device_name" /\ p \notin snap.has
               THEN verified ELSE verified => taken \/ EarlierReply(p)
            /\ device' = IF taken THEN Overwritten(p) ELSE device
            /\ out' = [done |-> out.done \union {p},
                       good |-> IF verified THEN out.good \union {p} ELSE out.good]
      BY <1>3 DEF Send
    <3>2. verified /\ Sure(p) => p \in device'.given
      BY <3>1, OverwrittenDevice DEF Sure, EarlierReply
    <3>3. \A q \in out.good : Sure(q) => q \in device'.given
      BY <1>3, <2>1, GivenGrows DEF ResultInv
    <3>4. \A q \in out'.good : q \in out.good \/ (q = p /\ verified)
      BY <3>1
    <3> QED
      BY <3>2, <3>3, <3>4
  <2>5. before' = before
    BY <1>3 DEF Send
  <2> QED
    BY <2>1, <2>3, <2>4, <2>5 DEF ResultInv, OkIsRestored, Sure
<1>4. ASSUME NEW p \in Parts, SendFails(p) PROVE ResultInv'
  BY <1>4 DEF SendFails, ResultInv, OkIsRestored, input, attempt
<1>5. CASE Finish
  <2>1. UNCHANGED <<snap, asked, device, before>> /\ pc = "writing" /\ todo = {} /\ pc' = "saving"
    BY <1>5 DEF Finish, input, attempt
  <2>2. answer'.ok <=> out.done # {} /\ out.done = out.good
    BY <1>5 DEF Finish, TypeOK, AnswerType
  <2>3. asked \intersect PartsOf(snap.kind) \intersect snap.has \subseteq Wanted
    BY DEF Wanted
  <2>4. answer'.ok => \A p \in asked \intersect PartsOf(snap.kind) \intersect snap.has :
                        Sure(p) => p \in device.given
    BY <2>1, <2>2, <2>3 DEF ResultInv
  <2> QED
    BY <2>1, <2>4 DEF ResultInv, OkIsRestored, Sure
<1>6. CASE Save
  <2>1. UNCHANGED <<snap, asked, device, before>> /\ pc' = "done" /\ answer'.ok = answer.ok
    BY <1>6 DEF Save, input, attempt, TypeOK, AnswerType
  <2> QED
    BY <2>1 DEF ResultInv, OkIsRestored
<1>7. CASE UNCHANGED vars
  BY <1>7 DEF vars, input, ResultInv, OkIsRestored, Wanted, Sure
<1> QED
  BY <1>1, <1>2, <1>3, <1>4, <1>5, <1>6, <1>7, StepsOf DEF Rest, Write

(* A restore that is reported as done has put everything that was asked for *)
(* and that the snapshot has on the device, but for parts of which only the *)
(* echo was looked at, on a link they were read on before.                  *)
THEOREM OkCorrect == Spec => []OkIsRestored
<1>1. Init => ResultInv
  BY DEF Init, ResultInv, OkIsRestored, NoAnswer
<1>2. ResultInv => OkIsRestored
  BY DEF ResultInv
<1>3. QED
  BY <1>1, <1>2, ResultStep, TypeCorrect, PTL DEF Spec

-----------------------------------------------------------------------------
(* As long as no attempt failed with something written, an attempt starts   *)
(* with an untouched device; what it read then has nothing of the snapshot, *)
(* and a thermometer's config that is about to be written was read.         *)
BeforeInv ==
  ~broke =>
    /\ pc \in {"idle", "attempt", "reading"} => device.given = {}
    /\ before.given = {} /\ saved.given = {}
    /\ pc \in {"writing", "saving"} /\ snap.kind = "thermometer" =>
         /\ "config" \in device.given => "config" \in before.read
         /\ pc = "writing" /\ "config" \in todo => "config" \in before.read
    /\ SafetyIsBefore

LEMMA BeforeStep == TypeOK /\ BeforeInv /\ [Next]_vars => BeforeInv'
<1> SUFFICES ASSUME TypeOK, BeforeInv, [Next]_vars PROVE BeforeInv'
  OBVIOUS
<1>1. CASE Ask \/ NoConnection \/ Connected \/ Mismatch \/ Exhausted
  <2>1. UNCHANGED <<device, snap, saved, broke>> /\ pc \in {"idle", "attempt"}
        /\ pc' \in {"attempt", "reading", "done"}
        /\ (before' = before \/ before' = Unread)
    BY <1>1 DEF Ask, NoConnection, Connected, Mismatch, Exhausted, Connect, AnswerWith,
                input, attempt
  <2> QED
    BY <2>1 DEF BeforeInv, SafetyIsBefore, Unread
<1>2. CASE ReadFirst
  <2>1. UNCHANGED <<device, snap, saved, broke>> /\ pc = "reading"
    BY <1>2 DEF ReadFirst, input
  <2>2. CASE NoPayload
    <3>1. before' = before /\ pc' = "done"
      BY <1>2, <2>2 DEF ReadFirst, AnswerWith, attempt
    <3> QED
      BY <2>1, <3>1 DEF BeforeInv, SafetyIsBefore
  <2>3. CASE ~NoPayload
    <3>1. PICK fields \in Readable : before' = fields /\ todo' = Wanted \ Refused(fields)
      BY <1>2, <2>3 DEF ReadFirst
    <3>2. pc' = "writing"
      BY <1>2, <2>3 DEF ReadFirst
    <3>3. snap.kind = "thermometer" /\ "config" \in todo' => "config" \in before'.read
      <4> SUFFICES ASSUME snap.kind = "thermometer", "config" \in todo'
                   PROVE  "config" \in before'.read
        OBVIOUS
      <4>1. fields.crypto # "none"
        BY <3>1 DEF Refused, Wanted
      <4> QED
        BY <3>1, <4>1, ReadableFields
    <3>4. before'.given \subseteq device.given
      BY <3>1, ReadableFields
    <3> QED
      BY <2>1, <3>2, <3>3, <3>4 DEF BeforeInv, SafetyIsBefore
  <2> QED
    BY <2>2, <2>3
<1>3. ASSUME NEW p \in Parts, Send(p) PROVE BeforeInv'
  <2>1. UNCHANGED <<snap, saved, broke, before, pc>> /\ pc = "writing" /\ p \in todo
        /\ todo' \subseteq todo
    BY <1>3 DEF Send, Turn, input
  <2>2. device'.given \subseteq device.given \union {p}
    BY <1>3, OverwrittenDevice DEF Send
  <2>3. ASSUME ~broke, snap.kind = "thermometer"
        PROVE  /\ "config" \in device'.given => "config" \in before.read
               /\ "config" \in todo' => "config" \in before.read
    BY <2>1, <2>2, <2>3 DEF BeforeInv
  <2>4. pc' = "writing" /\ broke' = broke /\ before' = before /\ saved' = saved /\ snap' = snap
    BY <2>1
  <2> QED
    BY <2>3, <2>4 DEF BeforeInv, SafetyIsBefore
<1>4. ASSUME NEW p \in Parts, SendFails(p) PROVE BeforeInv'
  <2>1. UNCHANGED <<snap, saved, before>> /\ pc = "writing" /\ pc' = "attempt"
        /\ broke' = (broke \/ device'.given # {})
    BY <1>4 DEF SendFails, input, attempt
  <2>2. device.given \subseteq device'.given
    BY <1>4, GivenGrows
  <2> QED
    BY <2>1, <2>2 DEF BeforeInv, SafetyIsBefore
<1>5. CASE Finish
  BY <1>5 DEF Finish, BeforeInv, SafetyIsBefore, input, attempt
<1>6. CASE Save
  <2>1. UNCHANGED <<device, snap, broke, before>> /\ pc = "saving" /\ pc' = "done"
        /\ (saved' = saved \/ saved' = before)
    BY <1>6 DEF Save, input, attempt
  <2>2. "config" \in before.read => answer'.safety \in {"saved", "raised"}
    BY <1>6 DEF Save, TypeOK, AnswerType, Unread
  <2> QED
    BY <2>1, <2>2 DEF BeforeInv, SafetyIsBefore
<1>7. CASE UNCHANGED vars
  BY <1>7 DEF vars, input, BeforeInv, SafetyIsBefore
<1> QED
  BY <1>1, <1>2, <1>3, <1>4, <1>5, <1>6, <1>7, StepsOf DEF Rest, Write

(* The safety snapshot is the target as it was, unless an attempt failed    *)
(* after writing.                                                           *)
THEOREM SafetyCorrect == Spec => []SafetyIsBefore
<1>1. Init => BeforeInv
  BY DEF Init, BeforeInv, SafetyIsBefore, Unread
<1>2. TypeOK /\ BeforeInv => SafetyIsBefore
  BY DEF BeforeInv, SafetyIsBefore
<1>3. QED
  BY <1>1, <1>2, BeforeStep, TypeCorrect, PTL DEF Spec

-----------------------------------------------------------------------------
LEMMA RefusalStep == TypeOK /\ RefusedRightly /\ [Next]_vars => RefusedRightly'
<1> SUFFICES ASSUME TypeOK, RefusedRightly, [Next]_vars PROVE RefusedRightly'
  OBVIOUS
<1>1. CASE Mismatch
  <2>1. UNCHANGED <<device, snap>>
    BY <1>1 DEF Mismatch, input
  <2>2. CASE UNCHANGED answer
    BY <2>1, <2>2 DEF RefusedRightly
  <2>3. CASE snap.kind = "thermometer" \/ rediscover
    BY <1>1, <2>1, <2>3 DEF Mismatch, Shown, TypeOK, Kinds, RefusedRightly
  <2> QED
    BY <1>1, <2>2, <2>3 DEF Mismatch
<1>2. CASE Ask \/ NoConnection \/ Connected \/ ReadFirst \/ Finish \/ Exhausted \/ Save
  <2>1. UNCHANGED <<device, snap>>
    BY <1>2 DEF Ask, NoConnection, Connected, ReadFirst, Finish, Exhausted, Save, input
  <2>2. answer'.sort \in {answer.sort, "refused", "parts", "unreachable"}
    BY <1>2 DEF Ask, NoConnection, Connected, ReadFirst, Finish, Exhausted, Save, AnswerWith,
                TypeOK, AnswerType
  <2> QED
    BY <2>1, <2>2 DEF RefusedRightly
<1>3. ASSUME NEW p \in Parts, Send(p) \/ SendFails(p) PROVE RefusedRightly'
  <2>1. device'.kind = device.kind /\ UNCHANGED <<snap, answer>>
    BY <1>3, OverwrittenDevice DEF Send, SendFails, input
  <2> QED
    BY <2>1 DEF RefusedRightly
<1>4. CASE UNCHANGED vars
  BY <1>4 DEF vars, input, RefusedRightly
<1> QED
  BY <1>1, <1>2, <1>3, <1>4, StepsOf DEF Rest, Write

(* A repeater's snapshot is refused as of another kind only for a target    *)
(* that is a thermometer, whatever Home Assistant's cached table shows.     *)
THEOREM RefusalCorrect == Spec => []RefusedRightly
<1>1. Init => RefusedRightly
  BY DEF Init, RefusedRightly, NoAnswer
<1>2. QED
  BY <1>1, RefusalStep, TypeCorrect, PTL DEF Spec

=============================================================================
