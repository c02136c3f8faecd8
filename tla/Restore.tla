------------------------------ MODULE Restore ------------------------------
(***************************************************************************)
(* One restore or clone of a snapshot: ws_restore, gatt.async_restore and  *)
(* _restore_repeater, with the retry loops they run in (_with_client,      *)
(* _with_blethr_client).  An attempt reads the target first, for the       *)
(* safety snapshot, and then writes part after part; one that raises is    *)
(* followed by another, which starts from whatever the device has by then. *)
(*                                                                         *)
(* A part of the target has its own value or the one given by the          *)
(* snapshot, which are told apart even where they would be equal.  The     *)
(* device lock is held from the first attempt to the last step before      *)
(* Save, so nobody else changes the target.                                *)
(***************************************************************************)
EXTENDS Naturals

CONSTANTS
  Snapshots,  \* the snapshots a client may send
  Selections  \* the sets of parts it may ask for

ThermometerParts == {"config", "device_name", "comfort", "bind_key", "sensor"}
RepeaterParts == {"config", "ext_mac", "ext_bind_key"}
Parts == ThermometerParts \union RepeaterParts

Kinds == {"thermometer", "repeater"}
PartsOf(kind) == IF kind = "thermometer" THEN ThermometerParts ELSE RepeaterParts

(* The flag of encrypted advertising; older firmware has none. *)
Cryptos == {"on", "off", "none"}

(* has: the parts it has a usable value of; clone: it is of another device; *)
(* sound: its config is long enough, and within what the device may be set  *)
(* to; crypto: the flag in its config.                                      *)
SnapshotType == [kind : Kinds, clone : BOOLEAN, has : SUBSET Parts,
                 sound : BOOLEAN, crypto : Cryptos]

ASSUME SnapshotAssumption ==
  /\ Snapshots \subseteq SnapshotType
  /\ Selections \subseteq SUBSET Parts

(* What was read of the target: which parts, those with the given value     *)
(* among them, and the flag, which comes with a thermometer's config.       *)
Fields == [read : SUBSET Parts, given : SUBSET Parts, crypto : Cryptos]
Unread == [read |-> {}, given |-> {}, crypto |-> "none"]

Safeties == {"none", "saved", "incomplete", "raised"}
NoAnswer == [sort |-> "none", ok |-> FALSE, safety |-> "none"]
AnswerType == [sort : {"none", "parts", "refused", "mismatch", "unreachable"},
               ok : BOOLEAN, safety : Safeties]

VARIABLES
  device,      \* the target: its kind, its flag, the parts with the given value
  table,       \* the kind that Home Assistant's cached GATT table shows
  snap, asked, \* what the client sent
  pc,          \* where the restore is
  left,        \* attempts the loop has left
  rediscover,  \* the loop's flag: the next connection ignores the cached table
  todo,        \* parts this attempt has yet to write
  before,      \* before_fields of this attempt
  out,         \* parts this attempt has a result of, those that are true
  answer,
  saved,       \* the safety snapshot
  broke        \* history: an attempt failed with something written

vars == <<device, table, snap, asked, pc, left, rediscover, todo, before, out,
          answer, saved, broke>>

TypeOK ==
  /\ device \in [kind : Kinds, crypto : Cryptos, given : SUBSET Parts]
  /\ table \in Kinds
  /\ snap \in SnapshotType
  /\ asked \in SUBSET Parts
  /\ pc \in {"idle", "attempt", "reading", "writing", "saving", "done"}
  /\ left \in Nat
  /\ rediscover \in BOOLEAN
  /\ todo \in SUBSET Parts
  /\ before \in Fields
  /\ out \in [done : SUBSET Parts, good : SUBSET Parts]
  /\ answer \in AnswerType
  /\ saved \in Fields
  /\ broke \in BOOLEAN

NoResults == [done |-> {}, good |-> {}]

Init ==
  /\ device \in [kind : Kinds, crypto : Cryptos, given : {{}}]
  /\ device.kind = "repeater" => device.crypto = "none"
  /\ table \in Kinds
  /\ snap \in Snapshots
  /\ asked \in Selections
  /\ pc = "idle"
  /\ left = 0
  /\ rediscover = FALSE
  /\ todo = {}
  /\ before = Unread
  /\ out = NoResults
  /\ answer = NoAnswer
  /\ saved = Unread
  /\ broke = FALSE

input == <<snap, asked>>
attempt == <<todo, before, out>>

-----------------------------------------------------------------------------
(* The parts to restore: asked for, and in the snapshot.  A thermometer's   *)
(* name is always in it, since none means to clear it, and so is the key of *)
(* a clone, which is refused whatever it is.                                *)
Wanted ==
  {p \in asked \intersect PartsOf(snap.kind) :
     \/ p \in snap.has
     \/ p = "device_name"
     \/ p = "bind_key" /\ snap.clone}

ConfigWanted == "config" \in Wanted

Tries == IF snap.kind = "repeater" THEN 3 ELSE 2

AnswerWith(sort) ==
  /\ pc' = "done"
  /\ answer' = [answer EXCEPT !.sort = sort]

(* A config that is too short for a thermometer, or no payload for a        *)
(* repeater: nothing to restore, or settings out of range.                  *)
TooShort == snap.kind = "thermometer" /\ ConfigWanted /\ ~snap.sound
NoPayload ==
  snap.kind = "repeater" /\ (Wanted = {} \/ (ConfigWanted /\ ~snap.sound))

(* A thermometer config that is too short is refused without connecting. *)
Ask ==
  /\ pc = "idle"
  /\ \/ /\ TooShort
        /\ AnswerWith("refused")
        /\ UNCHANGED left
     \/ /\ ~TooShort
        /\ pc' = "attempt"
        /\ left' = Tries
        /\ UNCHANGED answer
  /\ UNCHANGED <<device, table, input, rediscover, attempt, saved, broke>>

(* No proxy can connect, or connecting fails: sleep and go round. *)
NoConnection ==
  /\ pc = "attempt" /\ left > 0
  /\ left' = left - 1
  /\ UNCHANGED <<device, table, input, pc, rediscover, attempt, answer, saved, broke>>

(* What the next connection takes the device for. *)
Shown == IF rediscover THEN device.kind ELSE table

Connect ==
  /\ pc = "attempt" /\ left > 0
  /\ left' = left - 1
  /\ table' = Shown
  /\ todo' = {} /\ before' = Unread /\ out' = NoResults

(* The client shows the snapshot's kind: fn runs. *)
Connected ==
  /\ Connect
  /\ Shown = snap.kind
  /\ pc' = "reading"
  /\ UNCHANGED <<device, input, rediscover, answer, saved, broke>>

(* Mutant of Mismatch: the cached table is believed at once. *)
MismatchAtOnce ==
  /\ Connect
  /\ Shown # snap.kind
  /\ AnswerWith("mismatch")
  /\ UNCHANGED <<device, input, rediscover, saved, broke>>

(* It shows the other kind.  The loop of the repeater commands suspects the *)
(* cached table first; _with_client knows nothing of kinds, and async_restore *)
(* refuses as it is.                                                        *)
Mismatch ==
  /\ Connect
  /\ Shown # snap.kind
  /\ \/ /\ snap.kind = "repeater" /\ ~rediscover
        /\ rediscover' = TRUE
        /\ pc' = "attempt"
        /\ UNCHANGED answer
     \/ /\ snap.kind = "thermometer" \/ rediscover
        /\ AnswerWith("mismatch")
        /\ UNCHANGED rediscover
  /\ UNCHANGED <<device, input, saved, broke>>

(* What reading the target may give: any command of it may go unanswered.   *)
(* A thermometer without its config gives nothing at all, and nor does a    *)
(* device that is not what its table shows.                                 *)
Readable ==
  {Unread} \union
  {[read |-> r, given |-> device.given \intersect r,
    crypto |-> IF snap.kind = "thermometer" THEN device.crypto ELSE "none"] :
     r \in {s \in SUBSET PartsOf(snap.kind) :
              /\ device.kind = snap.kind
              /\ snap.kind = "thermometer" => "config" \in s}}

(* The parts that are reported as failed and not tried: a config when the   *)
(* target's own flag is not known, and the key of another device.           *)
Refused(fields) ==
  IF snap.kind = "repeater" THEN {}
  ELSE {p \in Wanted : \/ p = "config" /\ fields.crypto = "none"
                       \/ p = "bind_key" /\ snap.clone}

(* Read the target before overwriting anything; an exception is swallowed.  *)
(* A repeater's payloads are then built, all before the first is sent.      *)
ReadFirst ==
  /\ pc = "reading"
  /\ \/ /\ NoPayload
        /\ AnswerWith("refused")
        /\ UNCHANGED attempt
     \/ /\ ~NoPayload
        /\ \E fields \in Readable :
             /\ before' = fields
             /\ todo' = Wanted \ Refused(fields)
             /\ out' = [done |-> Refused(fields), good |-> {}]
        /\ pc' = "writing"
        /\ UNCHANGED answer
  /\ UNCHANGED <<device, table, input, left, rediscover, saved, broke>>

-----------------------------------------------------------------------------
Rank(p) ==
  CASE p = "config" -> 1
    [] p \in {"device_name", "ext_mac"} -> 2
    [] p \in {"comfort", "ext_bind_key"} -> 3
    [] p = "bind_key" -> 4
    [] p = "sensor" -> 5

(* The parts are written in the order of the code. *)
Turn(p) == p \in todo /\ \A q \in todo : Rank(p) <= Rank(q)

(* Mutant of Overwritten: the config goes out with the snapshot's flag. *)
OverwrittenWhole(p) ==
  [device EXCEPT !.given = @ \union {p},
                 !.crypto = IF p = "config" /\ snap.kind = "thermometer"
                              THEN snap.crypto ELSE @]

(* A config is sent with the flag that was read of the target. *)
Overwritten(p) ==
  [device EXCEPT !.given = @ \union {p},
                 !.crypto = IF p = "config" /\ snap.kind = "thermometer"
                              THEN before.crypto ELSE @]

(* Of these parts the values in the reply are not looked at, only which     *)
(* command it is a reply to.                                                *)
EchoOnly == {"comfort", "bind_key", "sensor"}

(* The reply to the write of p may be a late one to the command that read p *)
(* on this link, or what the characteristic still has of it.  Without its   *)
(* config the target was asked for nothing else.                            *)
EarlierReply(p) == p \in EchoOnly /\ before # Unread

(* A part is written and its reply looked at.  The device may have taken    *)
(* it and not say so.  Clearing the name counts as done whatever it says.   *)
Send(p) ==
  /\ pc = "writing" /\ Turn(p) /\ device.kind = snap.kind
  /\ \E taken, verified \in BOOLEAN :
       /\ IF p = "device_name" /\ p \notin snap.has
          THEN verified ELSE verified => taken \/ EarlierReply(p)
       /\ device' = IF taken THEN Overwritten(p) ELSE device
       /\ out' = [done |-> out.done \union {p},
                  good |-> IF verified THEN out.good \union {p} ELSE out.good]
  /\ todo' = todo \ {p}
  /\ UNCHANGED <<table, input, pc, left, rediscover, before, answer, saved, broke>>

(* An exchange raises, with the part taken or not: the attempt is over.     *)
(* A device that is not what its table shows takes nothing.                 *)
SendFails(p) ==
  /\ pc = "writing" /\ Turn(p)
  /\ \E taken \in BOOLEAN :
       /\ taken => device.kind = snap.kind
       /\ device' = IF taken THEN Overwritten(p) ELSE device
  /\ broke' = (broke \/ device'.given # {})
  /\ pc' = "attempt"
  /\ UNCHANGED <<table, input, left, rediscover, attempt, answer, saved>>

(* Mutant of Finish: any part that went well is enough. *)
FinishAny ==
  /\ pc = "writing" /\ todo = {}
  /\ answer' = [answer EXCEPT !.sort = "parts", !.ok = out.good # {}]
  /\ pc' = "saving"
  /\ UNCHANGED <<device, table, input, left, rediscover, attempt, saved, broke>>

(* Mutant of Finish: the fields for the safety snapshot are read last. *)
FinishReadsLast ==
  /\ pc = "writing" /\ todo = {}
  /\ before' \in Readable
  /\ answer' = [answer EXCEPT !.sort = "parts",
                              !.ok = out.done # {} /\ out.done = out.good]
  /\ pc' = "saving"
  /\ UNCHANGED <<device, table, input, left, rediscover, todo, out, saved, broke>>

(* Every part had its turn: the link is closed and ws_restore gets the      *)
(* result, with the fields of this attempt.                                 *)
Finish ==
  /\ pc = "writing" /\ todo = {}
  /\ answer' = [answer EXCEPT !.sort = "parts",
                              !.ok = out.done # {} /\ out.done = out.good]
  /\ pc' = "saving"
  /\ UNCHANGED <<device, table, input, left, rediscover, attempt, saved, broke>>

(* The attempts are used up; nothing is said of what was read or written. *)
Exhausted ==
  /\ pc = "attempt" /\ left = 0
  /\ AnswerWith("unreachable")
  /\ UNCHANGED <<device, table, input, left, rediscover, attempt, saved, broke>>

(* ws_restore saves the fields as a snapshot: async_save refuses one that   *)
(* has no config, and an exception is swallowed.                            *)
Save ==
  /\ pc = "saving"
  /\ pc' = "done"
  /\ \/ /\ before = Unread
        /\ UNCHANGED <<answer, saved>>
     \/ /\ before # Unread /\ "config" \notin before.read
        /\ answer' = [answer EXCEPT !.safety = "incomplete"]
        /\ UNCHANGED saved
     \/ /\ "config" \in before.read
        /\ answer' = [answer EXCEPT !.safety = "saved"]
        /\ saved' = before
     \/ /\ before # Unread
        /\ answer' = [answer EXCEPT !.safety = "raised"]
        /\ UNCHANGED saved
  /\ UNCHANGED <<device, table, input, left, rediscover, attempt, broke>>

Finished == pc = "done" /\ UNCHANGED vars

Next ==
  \/ Ask \/ NoConnection \/ Connected \/ Mismatch \/ ReadFirst
  \/ \E p \in Parts : Send(p) \/ SendFails(p)
  \/ Finish \/ Exhausted \/ Save \/ Finished

Spec == Init /\ [][Next]_vars

-----------------------------------------------------------------------------
(* A restore leaves the target's encryption flag as it is, whatever the     *)
(* snapshot has and however often an attempt is repeated, and a clone never *)
(* carries a key (gatt.py:1387-1389).                                       *)
OwnKept ==
  /\ device'.crypto = device.crypto
  /\ snap.clone /\ snap.kind = "thermometer" =>
       ("bind_key" \in device'.given <=> "bind_key" \in device.given)

TargetKeepsItsOwn == [][OwnKept]_vars

(* A restore that is reported as done has put every part that was asked for *)
(* and that the snapshot has on the device, over all attempts: those that   *)
(* were compared with what was sent, and, where the device was asked for    *)
(* nothing before, also those of which only the echo was looked at.  That   *)
(* "each part is written then verified" (gatt.py:1384-1385) holds for the   *)
(* former only.                                                             *)
OkIsRestored ==
  answer.ok =>
    LET due == asked \intersect PartsOf(snap.kind) \intersect snap.has
    IN  {p \in due : p \in EchoOnly => before = Unread} \subseteq device.given

(* The safety snapshot is the target as it was: it has no part that this    *)
(* restore wrote, and a thermometer whose config was overwritten has one,   *)
(* unless an attempt failed after writing (gatt.py:1423-1425).              *)
SafetyIsBefore ==
  pc = "done" /\ ~broke =>
    /\ saved.given = {}
    /\ snap.kind = "thermometer" /\ "config" \in device.given =>
         answer.safety \in {"saved", "raised"}

(* A repeater's snapshot is refused for a thermometer only when the target  *)
(* is one: a table from before it was reflashed is not believed             *)
(* (gatt.py:1566-1577).                                                     *)
RefusedRightly ==
  answer.sort = "mismatch" /\ snap.kind = "repeater" => device.kind = "thermometer"

(* "A safety snapshot of the target is always taken before an overwrite, so *)
(* any restore is reversible" (README.md:30): what was overwritten is in    *)
(* the safety snapshot, as it was.                                          *)
Reversible == pc = "done" => device.given \subseteq saved.read \ saved.given

=============================================================================
