---------------------------- MODULE SetEncryption ----------------------------
(***************************************************************************)
(* gatt.async_set_encryption and encryption.async_sync_bthome: turning the *)
(* encrypted advertising of one thermometer on or off, and bringing Home   *)
(* Assistant's BTHome entry along.  Several calls for the same device may  *)
(* overlap (the panel and a bulk job, or two panels): the part that talks  *)
(* to the device runs under the device's lock, the part that updates Home  *)
(* Assistant does not.                                                     *)
(*                                                                         *)
(* The device keeps a key and a flag; the key outlives the flag.  Home     *)
(* Assistant keeps the key twice: in the entry's data and in the running   *)
(* BTHome coordinator, which picks the data up when the entry is reloaded. *)
(* The lock is DeviceLink's; here it is free or held, and who gets it next *)
(* is left open.  A restart of Home Assistant forgets every running call:  *)
(* whoever made it gets no answer.                                         *)
(***************************************************************************)
EXTENDS Naturals

CONSTANTS
  Calls,       \* the calls of async_set_encryption
  NoCall,      \* the holder of the device lock while it is free
  Enable,      \* which calls turn encryption on; the others turn it off
  GivenKey,    \* the key_hex argument of a call, NoKey if it has none
  Keys,        \* bind keys
  FirstKey,    \* the one the device starts with
  NoKey,       \* no key: an entry without a bind key, a call without key_hex
  NotLoaded,   \* what the coordinator has after a reload that failed
  Tries,       \* attempts of _with_client (2 in the code)
  MaxFaults    \* bound: failed radio exchanges, failed reloads and restarts

ASSUME EncryptionAssumption ==
  /\ NoCall \notin Calls
  /\ Enable \subseteq Calls
  /\ NoKey \notin Keys
  /\ FirstKey \in Keys
  /\ NotLoaded \notin Keys \union {NoKey}
  /\ GivenKey \in [Calls -> Keys \union {NoKey}]
  /\ Tries \in Nat \ {0}
  /\ MaxFaults \in Nat

VARIABLES
  flag,      \* the device advertises encrypted
  devKey,    \* the bind key stored on the device
  accepts,   \* the device is a thermometer whose firmware knows encryption
  haSide,    \* what Home Assistant has for the device
  entryKey,  \* bindkey in the entry's data
  loaded,    \* the key the running BTHome coordinator decrypts with
  lock,      \* the call that holds _dev_lock
  pc,        \* where each call is
  left,      \* attempts it has left
  seen,      \* the flag it read from the device
  key,       \* the key it chose
  out,       \* the result it is about to return
  owed,      \* its last result asked for the call to be run again
  cut,       \* calls that a restart stopped after they had sent something
  unheeded,  \* history: the last reload of the entry answered False, which is ignored
  told,      \* keys that some caller was told
  restarted, \* history: Home Assistant was restarted under a running call
  faults     \* failures so far

device == <<flag, devKey>>
environment == <<accepts, haSide>>
entry == <<entryKey, loaded>>
frame == <<left, seen, key>>
report == <<owed, cut, unheeded, told, restarted>>
vars == <<device, environment, entry, lock, pc, frame, out, report, faults>>

OnDevice == {"connect", "pick_key", "send_key", "send_flag", "read_back", "closing"}
Syncing == {"settle", "reload"}
Quiet == {"idle", "done"}
Results == {"none", "ok", "error", "maybe_changed"}
HaSides == {"entry", "disabled_entry", "no_entry", "not_bthome"}

TypeOK ==
  /\ flag \in BOOLEAN
  /\ devKey \in Keys
  /\ accepts \in BOOLEAN
  /\ haSide \in HaSides
  /\ entryKey \in Keys \union {NoKey}
  /\ loaded \in Keys \union {NoKey, NotLoaded}
  /\ lock \in Calls \union {NoCall}
  /\ pc \in [Calls -> OnDevice \union Syncing \union Quiet \union {"queued"}]
  /\ left \in [Calls -> 0..Tries]
  /\ seen \in [Calls -> BOOLEAN]
  /\ key \in [Calls -> Keys \union {NoKey}]
  /\ out \in [Calls -> Results]
  /\ owed \in [Calls -> BOOLEAN]
  /\ cut \subseteq Calls /\ unheeded \in BOOLEAN
  /\ told \subseteq Keys
  /\ restarted \in BOOLEAN
  /\ faults \in 0..MaxFaults

(* What Home Assistant needs to read the device's advertisements. *)
Needed == IF flag THEN devKey ELSE NoKey

(* Home Assistant starts out in step with the device, and whoever gave the  *)
(* device its first key has it.                                             *)
Init ==
  /\ flag \in BOOLEAN
  /\ devKey = FirstKey
  /\ accepts \in BOOLEAN
  /\ haSide \in HaSides
  /\ entryKey = Needed
  /\ loaded = IF haSide = "entry" THEN entryKey ELSE NotLoaded
  /\ lock = NoCall
  /\ pc = [c \in Calls |-> "idle"]
  /\ left = [c \in Calls |-> 0]
  /\ seen = [c \in Calls |-> FALSE]
  /\ key = [c \in Calls |-> NoKey]
  /\ out = [c \in Calls |-> "none"]
  /\ owed = [c \in Calls |-> FALSE]
  /\ cut = {} /\ unheeded = FALSE
  /\ told = {devKey}
  /\ restarted = FALSE
  /\ faults = 0

Goto(c, label) == pc' = [pc EXCEPT ![c] = label]
Fault == faults < MaxFaults /\ faults' = faults + 1

(* The connection ends with this result; _safe_disconnect comes next. *)
Conclude(c, result) ==
  /\ Goto(c, "closing")
  /\ out' = [out EXCEPT ![c] = result]

(* unsure(): something was sent and cannot be confirmed. *)
Unsure(c) == Conclude(c, "maybe_changed")

(* The call has sent something: an enable its key, a disable the cleared    *)
(* flag.                                                                    *)
Touched(c) == c \in Enable \/ seen[c]

(* The device may have changed, or does with the next step, and the entry has  *)
(* not followed.                                                               *)
HalfDone(c) ==
  \/ pc[c] = "send_flag"
  \/ pc[c] = "read_back" /\ Touched(c)
  \/ pc[c] = "closing" /\ out[c] # "error"

-----------------------------------------------------------------------------
Call(c) ==
  /\ pc[c] = "idle"
  /\ Goto(c, "queued")
  /\ UNCHANGED <<device, environment, entry, lock, frame, out, report, faults>>

(* The message of an unsure or failed result: run it again to finish.  So does *)
(* whoever got no answer, since Home Assistant was restarted.                  *)
Unfinished(c) == owed[c] \/ c \in cut

Rerun(c) ==
  /\ pc[c] = "done" /\ Unfinished(c)
  /\ Goto(c, "queued")
  /\ UNCHANGED <<device, environment, entry, lock, frame, out, report, faults>>

(* Mutant of Acquire: the lock is not waited for. *)
AcquireUnlocked(c) ==
  /\ pc[c] = "queued"
  /\ lock' = c
  /\ left' = [left EXCEPT ![c] = Tries]
  /\ Goto(c, "connect")
  /\ UNCHANGED <<device, environment, entry, seen, key, out, report, faults>>

Acquire(c) ==
  /\ pc[c] = "queued" /\ lock = NoCall
  /\ lock' = c
  /\ left' = [left EXCEPT ![c] = Tries]
  /\ Goto(c, "connect")
  /\ UNCHANGED <<device, environment, entry, seen, key, out, report, faults>>

(* An exception before anything was sent: _with_client tries again. *)
Raise(c) ==
  /\ Fault
  /\ pc[c] \in {"connect", "pick_key"} \/ (pc[c] = "read_back" /\ ~Touched(c))
  /\ left' = [left EXCEPT ![c] = @ - 1]
  /\ \/ left[c] > 1 /\ Goto(c, "connect") /\ UNCHANGED out
     \/ left[c] = 1 /\ Conclude(c, "error")
  /\ UNCHANGED <<device, environment, entry, lock, seen, key, report>>

(* A repeater, or a firmware without encryption: refused, nothing sent. *)
Refuse(c) ==
  /\ pc[c] = "connect" /\ ~accepts
  /\ Conclude(c, "error")
  /\ UNCHANGED <<device, environment, entry, lock, frame, report, faults>>

(* The config is read; with_adv_crypto builds the target from it. *)
Inspect(c) ==
  /\ pc[c] = "connect" /\ accepts
  /\ seen' = [seen EXCEPT ![c] = flag]
  /\ \/ c \in Enable /\ Goto(c, "pick_key")
     \/ c \notin Enable /\ flag /\ Goto(c, "send_flag")
     \/ c \notin Enable /\ ~flag /\ Goto(c, "read_back")
  /\ UNCHANGED <<device, environment, entry, lock, left, key, out, report, faults>>

(* new_bindkey(): 16 random bytes, nobody has them yet. *)
KeysInUse == {devKey, entryKey, loaded} \union told \union {key[c] : c \in Calls}
NewKey == CHOOSE k \in Keys : k \notin KeysInUse

(* key_hex, else the key of a device that encrypts already, else a new one; *)
(* a reply to the key query that is lost or short counts as no key.         *)
PickKey(c) ==
  /\ pc[c] = "pick_key"
  /\ \E k \in Keys :
       /\ \/ k = GivenKey[c] /\ UNCHANGED faults
          \/ GivenKey[c] = NoKey /\ seen[c] /\ k = devKey /\ UNCHANGED faults
          \/ GivenKey[c] = NoKey /\ seen[c] /\ k = NewKey /\ Fault
          \/ GivenKey[c] = NoKey /\ ~seen[c] /\ k = NewKey /\ UNCHANGED faults
       /\ key' = [key EXCEPT ![c] = k]
  /\ Goto(c, "send_key")
  /\ UNCHANGED <<device, environment, entry, lock, left, seen, out, report>>

(* Command 0x18 with the key; the device echoes it. *)
SendKey(c) ==
  /\ pc[c] = "send_key"
  /\ devKey' = key[c]
  /\ IF seen[c] THEN Goto(c, "read_back") ELSE Goto(c, "send_flag")
  /\ UNCHANGED <<flag, environment, entry, lock, frame, out, report, faults>>

(* The echo is missing or the exchange raised: the device may have the key. *)
SendKeyUnsure(c) ==
  /\ pc[c] = "send_key" /\ Fault
  /\ devKey' \in {devKey, key[c]}
  /\ Unsure(c)
  /\ UNCHANGED <<flag, environment, entry, lock, frame, report>>

(* Command 0x55 with the target config, a write without response. *)
SendFlag(c) ==
  /\ pc[c] = "send_flag"
  /\ \/ flag' = (c \in Enable) /\ UNCHANGED faults
     \/ UNCHANGED flag /\ Fault
  /\ Goto(c, "read_back")
  /\ UNCHANGED <<devKey, environment, entry, lock, frame, out, report>>

SendFlagUnsure(c) ==
  /\ pc[c] = "send_flag" /\ Fault
  /\ (flag' = flag \/ flag' = (c \in Enable))
  /\ Unsure(c)
  /\ UNCHANGED <<devKey, environment, entry, lock, frame, report>>

(* Mutant of Verified: only the key is compared. *)
VerifiedKey(c) == c \in Enable => devKey = key[c]

(* _read_all_fields, compared with what was asked for. *)
Verified(c) ==
  /\ flag = (c \in Enable)
  /\ c \in Enable => devKey = key[c]

ReadBack(c) ==
  /\ pc[c] = "read_back"
  /\ \/ Verified(c) /\ Conclude(c, "ok")
     \/ ~Verified(c) /\ Unsure(c)
  /\ UNCHANGED <<device, environment, entry, lock, frame, report, faults>>

(* It raised, or the key is missing from it. *)
ReadBackUnsure(c) ==
  /\ pc[c] = "read_back" /\ Touched(c) /\ Fault
  /\ Unsure(c)
  /\ UNCHANGED <<device, environment, entry, lock, frame, report>>

-----------------------------------------------------------------------------
(* The disconnect is over and the lock is released.  Up to the call of      *)
(* async_update_entry nothing is awaited, so all of it is one step.         *)
Finish(c) ==
  /\ Goto(c, "done")
  /\ key' = [key EXCEPT ![c] = NoKey]
  /\ left' = [left EXCEPT ![c] = 0]
  /\ seen' = [seen EXCEPT ![c] = FALSE]
  /\ out' = [out EXCEPT ![c] = "none"]

(* The call is answered; only an exception before the first write says nothing *)
(* of an earlier one.                                                          *)
Answer(c, again) ==
  /\ owed' = [owed EXCEPT ![c] = again]
  /\ cut' = cut \ {c}

TellKey(c) == told' = told \union ({key[c]} \ {NoKey})

CloseError(c) ==
  /\ pc[c] = "closing" /\ out[c] = "error"
  /\ lock' = NoCall
  /\ Finish(c)
  /\ UNCHANGED <<device, environment, entry, report, faults>>

(* Mutant of CloseUnsure: the answer that asks for a re-run has no key. *)
CloseUnsureKeyless(c) ==
  /\ pc[c] = "closing" /\ out[c] = "maybe_changed"
  /\ lock' = NoCall
  /\ Answer(c, TRUE)
  /\ Finish(c)
  /\ UNCHANGED <<device, environment, entry, unheeded, told, restarted, faults>>

CloseUnsure(c) ==
  /\ pc[c] = "closing" /\ out[c] = "maybe_changed"
  /\ lock' = NoCall
  /\ Answer(c, TRUE)
  /\ TellKey(c)
  /\ Finish(c)
  /\ UNCHANGED <<device, environment, entry, unheeded, restarted, faults>>

(* Nothing to update: the caller gets the key and the reason. *)
CloseManual(c) ==
  /\ pc[c] = "closing" /\ out[c] = "ok"
  /\ haSide \in {"no_entry", "not_bthome"}
  /\ lock' = NoCall
  /\ Answer(c, FALSE)
  /\ TellKey(c)
  /\ Finish(c)
  /\ UNCHANGED <<device, environment, entry, unheeded, restarted, faults>>

(* Set or remove the entry's key. *)
UpdateEntry(c) == entryKey' = IF c \in Enable THEN key[c] ELSE NoKey

CloseUpdate(c) ==
  /\ pc[c] = "closing" /\ out[c] = "ok"
  /\ lock' = NoCall
  /\ UpdateEntry(c)
  /\ \/ /\ haSide = "entry"
        /\ IF c \in Enable THEN Goto(c, "reload") ELSE Goto(c, "settle")
        /\ UNCHANGED <<frame, out, owed, cut>>
     \/ /\ haSide = "disabled_entry"
        /\ Answer(c, FALSE)
        /\ Finish(c)
  /\ UNCHANGED <<device, environment, loaded, unheeded, told, restarted, faults>>

(* _async_wait_for_plain_advert: a plain advertisement, or 15 s. *)
Settle(c) ==
  /\ pc[c] = "settle"
  /\ Goto(c, "reload")
  /\ UNCHANGED <<device, environment, entry, lock, frame, out, report, faults>>

(* Mutant of Reload: the coordinator gets what this call wrote to the entry, *)
(* not what the entry has by now.                                            *)
ReloadOwnKey(c) ==
  /\ pc[c] = "reload"
  /\ loaded' = IF c \in Enable THEN key[c] ELSE NoKey
  /\ unheeded' = FALSE
  /\ Answer(c, FALSE)
  /\ Finish(c)
  /\ UNCHANGED <<device, environment, entryKey, lock, told, restarted, faults>>

Reload(c) ==
  /\ pc[c] = "reload"
  /\ loaded' = entryKey
  /\ unheeded' = FALSE
  /\ Answer(c, FALSE)
  /\ Finish(c)
  /\ UNCHANGED <<device, environment, entryKey, lock, told, restarted, faults>>

(* async_reload answers False, as it does when the entry could not be unloaded *)
(* or set up: nobody looks at that, and the result is "updated".               *)
ReloadRefused(c) ==
  /\ pc[c] = "reload" /\ Fault
  /\ loaded' \in {loaded, NotLoaded}
  /\ unheeded' = TRUE
  /\ Answer(c, FALSE)
  /\ Finish(c)
  /\ UNCHANGED <<device, environment, entryKey, lock, told, restarted>>

(* The wait or the reload raised: the result is "failed". *)
SyncFailsAs(c, again) ==
  /\ pc[c] \in Syncing /\ Fault
  /\ loaded' \in {loaded, NotLoaded}
  /\ Answer(c, again)
  /\ TellKey(c)
  /\ Finish(c)
  /\ UNCHANGED <<device, environment, entryKey, lock, unheeded, restarted>>

(* Mutant of SyncFails: the failure is not reported. *)
SyncFailsQuietly(c) == SyncFailsAs(c, FALSE)

SyncFails(c) == SyncFailsAs(c, TRUE)

(* Home Assistant restarts: running calls are gone without an answer, those   *)
(* that were half done are remembered, and entries are set up anew.           *)
Restart ==
  /\ \E c \in Calls : pc[c] \notin Quiet
  /\ Fault
  /\ lock' = NoCall
  /\ pc' = [c \in Calls |-> IF pc[c] \in Quiet THEN pc[c] ELSE "done"]
  /\ cut' = cut \union {c \in Calls : HalfDone(c)}
  /\ key' = [c \in Calls |-> NoKey]
  /\ left' = [c \in Calls |-> 0]
  /\ seen' = [c \in Calls |-> FALSE]
  /\ out' = [c \in Calls |-> "none"]
  /\ loaded' = IF haSide = "entry" THEN entryKey ELSE NotLoaded
  /\ restarted' = TRUE /\ unheeded' = FALSE
  /\ UNCHANGED <<device, environment, entryKey, owed, told>>

-----------------------------------------------------------------------------
TalkToDevice(c) ==
  \/ Acquire(c) \/ Raise(c) \/ Refuse(c) \/ Inspect(c) \/ PickKey(c)
  \/ SendKey(c) \/ SendKeyUnsure(c) \/ SendFlag(c) \/ SendFlagUnsure(c)
  \/ ReadBack(c) \/ ReadBackUnsure(c)

Close(c) == CloseError(c) \/ CloseUnsure(c) \/ CloseManual(c) \/ CloseUpdate(c)

Sync(c) == Settle(c) \/ Reload(c) \/ ReloadRefused(c) \/ SyncFails(c)

(* What a running call does without the user. *)
Progress(c) == TalkToDevice(c) \/ Close(c) \/ Sync(c)

AllQuiet == \A c \in Calls : pc[c] \in Quiet

(* Every call has been made and none is to be run again. *)
Finished ==
  /\ \A c \in Calls : pc[c] = "done" /\ ~Unfinished(c)
  /\ UNCHANGED vars

Next ==
  \/ \E c \in Calls : Call(c) \/ Rerun(c) \/ Progress(c)
  \/ Restart
  \/ Finished

Safe == Init /\ [][Next]_vars

(* Every await of a running call ends.  A user who is told to run it again    *)
(* does, and so does one whose half done call got no answer.                  *)
Spec == Safe /\ \A c \in Calls : WF_vars(Progress(c)) /\ WF_vars(Rerun(c))

-----------------------------------------------------------------------------
(* One call at a time talks to the device.                                  *)
OneTalker == \A c \in Calls : pc[c] \in OnDevice <=> lock = c

(* Home Assistant reads the device: where there is an entry it has the key  *)
(* the advertisements need, and so has its coordinator unless disabled, or   *)
(* unless Home Assistant answered, unheeded, that it could not reload it.    *)
InStep ==
  /\ haSide \in {"entry", "disabled_entry"} => entryKey = Needed
  /\ haSide = "entry" => loaded = Needed \/ unheeded

(* Nothing in Home Assistant moves unless the device took the change        *)
(* (gatt.py:1213): whenever the entry's key changes, it changes to what the *)
(* device needs at that moment, whatever other calls are doing.             *)
MovesWithDevice == entryKey' # entryKey => entryKey' = Needed'

EntryFollowsDevice == [][MovesWithDevice]_vars

(* Device and Home Assistant never disagree silently (gatt.py:1217-1221 and *)
(* bulk.py:107-117): when no call is running and they disagree, a caller     *)
(* was asked to run its call again, and has not yet done so with success, or *)
(* a restart stopped a call that was half done, which got no answer at all.  *)
NoSilentDisagreement == AllQuiet /\ ~InStep => \E c \in Calls : Unfinished(c)

(* The key is not lost (gatt.py:1217-1221): a key the device encrypts with  *)
(* is in the entry, was told to a caller or is known to a running call,     *)
(* unless a restart took the call that chose it.                            *)
KeyAccounted ==
  flag /\ ~restarted =>
    devKey \in told \union {entryKey} \union {key[c] : c \in Calls}

(* Running the same call again brings both back in step (gatt.py:1217-1221) *)
(* once the failures end, from whatever point each call had been abandoned. *)
RerunResyncs == <>[]InStep

(* A device that already encrypts keeps its key unless a caller gave another *)
(* one (gatt.py:1210-1211 and 1220-1221), however calls overlap, as long as   *)
(* no reply is lost: without the reply to the key query a new key is taken.   *)
EncryptingKeepsKey ==
  [][flag /\ devKey' # devKey => faults > 0 \/ \E c \in Calls : GivenKey[c] = devKey']_vars

=============================================================================
