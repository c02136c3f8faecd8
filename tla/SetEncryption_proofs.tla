------------------------ MODULE SetEncryption_proofs ------------------------
(* Proofs about SetEncryption, for every number of overlapping calls and of *)
(* failures.                                                                *)
EXTENDS SetEncryption, TLAPS

(* The labels the actions use are among those of the type invariant.        *)
LEMMA LabelTypes ==
  /\ \A l \in {"connect", "pick_key", "send_key", "send_flag", "read_back", "closing",
               "settle", "reload", "idle", "done", "queued"} :
       l \in OnDevice \union Syncing \union Quiet \union {"queued"}
  /\ \A r \in {"none", "ok", "error", "maybe_changed"} : r \in Results
BY DEF OnDevice, Syncing, Quiet, Results

(* Counting a failure stays within the bound.                               *)
LEMMA FaultTypes == TypeOK /\ Fault => faults' \in 0..MaxFaults
BY EncryptionAssumption DEF TypeOK, Fault

(* The call that sends a key has one: what keeps devKey a key.              *)
KeyChosen == \A c \in Calls : pc[c] = "send_key" => key[c] # NoKey

(* Every variable keeps its type, the attempt budget included.              *)
THEOREM TypeCorrect == Spec => []TypeOK
<1> USE LabelTypes
<1>1. Init => TypeOK /\ KeyChosen
  <2> SUFFICES ASSUME Init PROVE TypeOK /\ KeyChosen
    OBVIOUS
  <2>1. 0 \in 0..MaxFaults /\ 0 \in 0..Tries
    BY EncryptionAssumption
  <2>2. Needed \in Keys \union {NoKey} /\ loaded \in Keys \union {NoKey, NotLoaded}
    BY EncryptionAssumption DEF Init, Needed
  <2>3. TypeOK
    BY <2>1, <2>2, EncryptionAssumption DEF Init, TypeOK
  <2>4. KeyChosen
    BY DEF Init, KeyChosen
  <2>5. QED
    BY <2>3, <2>4
<1>2. TypeOK /\ KeyChosen /\ [Next]_vars => TypeOK' /\ KeyChosen'
  <2> SUFFICES ASSUME TypeOK, KeyChosen, [Next]_vars PROVE TypeOK' /\ KeyChosen'
    OBVIOUS
  <2> USE FaultTypes DEF TypeOK, KeyChosen, Goto, Conclude, Unsure, device, environment, entry,
                         frame, report
  <2>0. Tries \in Nat \ {0} /\ 0 \in 0..Tries /\ Tries \in 0..Tries
    BY EncryptionAssumption
  <2>1. ASSUME NEW c \in Calls, Call(c) \/ Rerun(c) PROVE TypeOK' /\ KeyChosen'
    BY <2>1 DEF Call, Rerun
  <2>2. ASSUME NEW c \in Calls, Acquire(c) PROVE TypeOK' /\ KeyChosen'
    BY <2>0, <2>2 DEF Acquire
  <2>3. ASSUME NEW c \in Calls, Raise(c) PROVE TypeOK' /\ KeyChosen'
    <3>1. left[c] - 1 \in 0..Tries
      BY <2>0, <2>3 DEF Raise
    <3>2. left' \in [Calls -> 0..Tries]
      BY <2>3, <3>1 DEF Raise
    <3>3. QED
      BY <2>3, <3>2 DEF Raise
  <2>4. ASSUME NEW c \in Calls, Refuse(c) PROVE TypeOK' /\ KeyChosen'
    BY <2>4 DEF Refuse
  <2>5. ASSUME NEW c \in Calls, Inspect(c) PROVE TypeOK' /\ KeyChosen'
    BY <2>5 DEF Inspect
  <2>6. ASSUME NEW c \in Calls, PickKey(c) PROVE TypeOK' /\ KeyChosen'
    <3>1. PICK k \in Keys : key' = [key EXCEPT ![c] = k]
      BY <2>6 DEF PickKey
    <3>2. faults' \in 0..MaxFaults
      BY <2>6 DEF PickKey
    <3>3. NoKey \notin Keys
      BY EncryptionAssumption
    <3>4. QED
      BY <2>6, <3>1, <3>2, <3>3 DEF PickKey
  <2>7. ASSUME NEW c \in Calls, SendKey(c) PROVE TypeOK' /\ KeyChosen'
    BY <2>7 DEF SendKey
  <2>8. ASSUME NEW c \in Calls, SendKeyUnsure(c) PROVE TypeOK' /\ KeyChosen'
    BY <2>8 DEF SendKeyUnsure
  <2>9. ASSUME NEW c \in Calls, SendFlag(c) PROVE TypeOK' /\ KeyChosen'
    <3>1. flag' = (c \in Enable) \/ flag' = flag
      BY <2>9 DEF SendFlag
    <3>0. flag' \in BOOLEAN
      <4>1. (c \in Enable) \in BOOLEAN
        OBVIOUS
      <4>2. flag \in BOOLEAN
        OBVIOUS
      <4>3. QED
        BY ONLY <3>1, <4>1, <4>2, Zenon
    <3>2. faults' \in 0..MaxFaults
      BY <2>9 DEF SendFlag
    <3>3. /\ pc' = [pc EXCEPT ![c] = "read_back"]
          /\ UNCHANGED <<devKey, environment, entry, lock, frame, out, report>>
      BY <2>9 DEF SendFlag
    <3>4. QED
      BY <3>0, <3>2, <3>3
  <2>10. ASSUME NEW c \in Calls, SendFlagUnsure(c) PROVE TypeOK' /\ KeyChosen'
    <3>1. flag' = (c \in Enable) \/ flag' = flag
      BY <2>10 DEF SendFlagUnsure
    <3>0. flag' \in BOOLEAN
      <4>1. (c \in Enable) \in BOOLEAN
        OBVIOUS
      <4>2. flag \in BOOLEAN
        OBVIOUS
      <4>3. QED
        BY ONLY <3>1, <4>1, <4>2, Zenon
    <3>2. faults' \in 0..MaxFaults
      BY <2>10 DEF SendFlagUnsure
    <3>3. /\ pc' = [pc EXCEPT ![c] = "closing"]
          /\ out' = [out EXCEPT ![c] = "maybe_changed"]
          /\ UNCHANGED <<devKey, environment, entry, lock, frame, report>>
      BY <2>10 DEF SendFlagUnsure
    <3>4. QED
      BY <3>0, <3>2, <3>3
  <2>11. ASSUME NEW c \in Calls, ReadBack(c) PROVE TypeOK' /\ KeyChosen'
    BY <2>11 DEF ReadBack
  <2>12. ASSUME NEW c \in Calls, ReadBackUnsure(c) PROVE TypeOK' /\ KeyChosen'
    BY <2>12 DEF ReadBackUnsure
  <2> USE <2>0 DEF Finish, Answer
  <2>13. ASSUME NEW c \in Calls, CloseError(c) PROVE TypeOK' /\ KeyChosen'
    BY <2>13 DEF CloseError
  <2>14. told \union ({key[c] : c \in Calls} \ {NoKey}) \subseteq Keys
    OBVIOUS
  <2>15. ASSUME NEW c \in Calls, CloseUnsure(c) PROVE TypeOK' /\ KeyChosen'
    <3>1. told' \subseteq Keys
      BY <2>15 DEF CloseUnsure, TellKey
    <3>2. QED
      BY <2>15, <3>1 DEF CloseUnsure
  <2>23. ASSUME NEW c \in Calls, CloseManual(c) PROVE TypeOK' /\ KeyChosen'
    <3>1. told' \subseteq Keys
      BY <2>23 DEF CloseManual, TellKey
    <3>2. QED
      BY <2>23, <3>1 DEF CloseManual
  <2>16. ASSUME NEW c \in Calls, CloseUpdate(c) PROVE TypeOK' /\ KeyChosen'
    <3>1. entryKey' \in Keys \union {NoKey}
      BY <2>16 DEF CloseUpdate, UpdateEntry
    <3>2. lock' = NoCall /\ UNCHANGED <<device, environment, loaded, unheeded, told, restarted, faults>>
      BY <2>16 DEF CloseUpdate
    <3>3. \/ Goto(c, "reload") /\ UNCHANGED <<frame, out, owed, cut>>
          \/ Goto(c, "settle") /\ UNCHANGED <<frame, out, owed, cut>>
          \/ Answer(c, FALSE) /\ Finish(c)
      BY <2>16 DEF CloseUpdate
    <3>4. CASE Goto(c, "reload") /\ UNCHANGED <<frame, out, owed, cut>>
      BY <3>1, <3>2, <3>4
    <3>5. CASE Goto(c, "settle") /\ UNCHANGED <<frame, out, owed, cut>>
      BY <3>1, <3>2, <3>5
    <3>6. CASE Answer(c, FALSE) /\ Finish(c)
      BY <3>1, <3>2, <3>6
    <3>7. QED
      BY <3>3, <3>4, <3>5, <3>6
  <2>17. ASSUME NEW c \in Calls, Settle(c) PROVE TypeOK' /\ KeyChosen'
    BY <2>17 DEF Settle
  <2>18. ASSUME NEW c \in Calls, Reload(c) \/ ReloadRefused(c) PROVE TypeOK' /\ KeyChosen'
    <3>1. loaded' \in Keys \union {NoKey, NotLoaded} /\ unheeded' \in BOOLEAN
      BY <2>18 DEF Reload, ReloadRefused
    <3>2. faults' \in 0..MaxFaults
      BY <2>18 DEF Reload, ReloadRefused
    <3>3. /\ Finish(c) /\ Answer(c, FALSE)
          /\ UNCHANGED <<device, environment, entryKey, lock, told, restarted>>
      BY <2>18 DEF Reload, ReloadRefused
    <3>4. QED
      BY <3>1, <3>2, <3>3
  <2>19. ASSUME NEW c \in Calls, SyncFails(c) PROVE TypeOK' /\ KeyChosen'
    <3>1. told' \subseteq Keys
      BY <2>19 DEF SyncFails, SyncFailsAs, TellKey
    <3>2. QED
      BY <2>19, <3>1 DEF SyncFails, SyncFailsAs
  <2>20. CASE Restart
    <3>1. pc' \in [Calls -> OnDevice \union Syncing \union Quiet \union {"queued"}]
      BY <2>20 DEF Restart
    <3>2. key' \in [Calls -> Keys \union {NoKey}] /\ left' \in [Calls -> 0..Tries]
      BY <2>20 DEF Restart
    <3>3. owed' \in [Calls -> BOOLEAN] /\ cut' \subseteq Calls /\ unheeded' \in BOOLEAN
      BY <2>20 DEF Restart
    <3>4. seen' \in [Calls -> BOOLEAN] /\ out' \in [Calls -> Results]
      BY <2>20 DEF Restart
    <3>5. loaded' \in Keys \union {NoKey, NotLoaded} /\ faults' \in 0..MaxFaults
      BY <2>20 DEF Restart
    <3>6. lock' = NoCall /\ restarted' = TRUE /\ UNCHANGED <<device, environment, entryKey, told>>
      BY <2>20 DEF Restart
    <3>7. TypeOK'
      BY <3>1, <3>2, <3>3, <3>4, <3>5, <3>6
    <3>8. \A c \in Calls : pc'[c] # "send_key"
      BY <2>20 DEF Restart, Quiet
    <3>9. QED
      BY <3>7, <3>8
  <2>21. CASE UNCHANGED vars
    BY <2>21 DEF vars
  <2>22. QED
    BY <2>1, <2>2, <2>3, <2>4, <2>5, <2>6, <2>7, <2>8, <2>9, <2>10, <2>11, <2>12, <2>13, <2>15,
       <2>16, <2>23, <2>17, <2>18, <2>19, <2>20, <2>21
       DEF Next, Progress, TalkToDevice, Close, Sync, Finished
<1>3. QED
  BY <1>1, <1>2, PTL DEF Spec, Safe

-----------------------------------------------------------------------------
(* The kinds of label OneTalker and the key lemmas tell apart.              *)
LEMMA OnDeviceLabels ==
  /\ \A l \in {"connect", "pick_key", "send_key", "send_flag", "read_back", "closing"} :
       l \in OnDevice
  /\ \A l \in {"settle", "reload", "idle", "done", "queued"} : l \notin OnDevice
  /\ \A l \in Quiet : l \notin OnDevice
BY DEF OnDevice, Quiet

(* One call at a time talks to the device, restarts included.               *)
THEOREM OneTalkerCorrect == Spec => []OneTalker
<1> USE OnDeviceLabels
<1>1. Init => OneTalker
  BY EncryptionAssumption DEF Init, OneTalker
<1>2. TypeOK /\ OneTalker /\ [Next]_vars => OneTalker'
  <2> SUFFICES ASSUME TypeOK, OneTalker, [Next]_vars, NEW d \in Calls
               PROVE  (pc[d] \in OnDevice <=> lock = d)'
    BY DEF OneTalker
  <2> DEFINE Claim == (pc[d] \in OnDevice <=> lock = d)'
  <2>0. /\ pc \in [Calls -> OnDevice \union Syncing \union Quiet \union {"queued"}]
        /\ \A c \in Calls : pc[c] \in OnDevice <=> lock = c
        /\ NoCall \notin Calls
    BY EncryptionAssumption DEF TypeOK, OneTalker
  <2> USE <2>0 DEF Goto, Conclude, Unsure
  <2>1. ASSUME NEW c \in Calls, Call(c) \/ Rerun(c) PROVE Claim
    BY <2>1 DEF Call, Rerun
  <2>2. ASSUME NEW c \in Calls, Acquire(c) PROVE Claim
    BY <2>2 DEF Acquire
  <2>3. ASSUME NEW c \in Calls, Raise(c) PROVE Claim
    BY <2>3 DEF Raise
  <2>4. ASSUME NEW c \in Calls, Refuse(c) \/ Inspect(c) PROVE Claim
    BY <2>4 DEF Refuse, Inspect
  <2>5. ASSUME NEW c \in Calls, PickKey(c) PROVE Claim
    BY <2>5 DEF PickKey
  <2>6. ASSUME NEW c \in Calls, SendKey(c) \/ SendKeyUnsure(c) PROVE Claim
    BY <2>6 DEF SendKey, SendKeyUnsure
  <2>7. ASSUME NEW c \in Calls, SendFlag(c) \/ SendFlagUnsure(c) PROVE Claim
    BY <2>7 DEF SendFlag, SendFlagUnsure
  <2>8. ASSUME NEW c \in Calls, ReadBack(c) \/ ReadBackUnsure(c) PROVE Claim
    BY <2>8 DEF ReadBack, ReadBackUnsure
  <2>9. ASSUME NEW c \in Calls, Close(c) PROVE Claim
    <3>1. /\ pc[c] = "closing" /\ lock' = NoCall
          /\ \E l \in {"done", "settle", "reload"} : pc' = [pc EXCEPT ![c] = l]
      BY <2>9 DEF Close, CloseError, CloseUnsure, CloseManual, CloseUpdate, Finish
    <3>2. QED
      BY <3>1
  <2>10. ASSUME NEW c \in Calls, Sync(c) PROVE Claim
    <3>1. pc[c] \in Syncing /\ UNCHANGED lock
      BY <2>10 DEF Sync, Settle, Reload, ReloadRefused, SyncFails, SyncFailsAs, Syncing
    <3>2. pc' = [pc EXCEPT ![c] = "done"] \/ pc' = [pc EXCEPT ![c] = "reload"]
      BY <2>10 DEF Sync, Settle, Reload, ReloadRefused, SyncFails, SyncFailsAs, Finish
    <3>3. QED
      BY <3>1, <3>2 DEF Syncing
  <2>11. CASE Restart
    BY <2>11 DEF Restart
  <2>12. CASE UNCHANGED vars
    BY <2>12 DEF vars
  <2>13. QED
    BY <2>1, <2>2, <2>3, <2>4, <2>5, <2>6, <2>7, <2>8, <2>9, <2>10, <2>11, <2>12
       DEF Next, Progress, TalkToDevice, Finished
<1>3. QED
  BY <1>1, <1>2, TypeCorrect, PTL DEF Spec, Safe

-----------------------------------------------------------------------------
(* What a call knows at each point.  A call keeps a key only from PickKey   *)
(* to the end of its session, and what it sent or verified stays true as    *)
(* long as it is the one that talks to the device.                          *)
CallInv(d) ==
  /\ pc[d] = "pick_key" => d \in Enable
  /\ d \notin Enable => key[d] = NoKey
  /\ pc[d] \in {"connect", "pick_key"} => key[d] = NoKey
  /\ pc[d] \notin OnDevice \union Syncing => key[d] = NoKey
  /\ pc[d] = "closing" /\ out[d] = "error" => key[d] = NoKey
  /\ pc[d] = "send_flag" /\ d \in Enable => devKey = key[d]
  /\ pc[d] = "closing" /\ out[d] = "ok" => Verified(d)

CallsInv == \A d \in Calls : CallInv(d)

(* Every call's knowledge is kept by every step.                            *)
LEMMA CallsStep ==
  TypeOK /\ OneTalker /\ CallsInv /\ [Next]_vars => CallsInv'
<1> SUFFICES ASSUME TypeOK, OneTalker, CallsInv, [Next]_vars, NEW d \in Calls
             PROVE  CallInv(d)'
  BY DEF CallsInv
<1> USE OnDeviceLabels
<1>0. /\ pc \in [Calls -> OnDevice \union Syncing \union Quiet \union {"queued"}]
      /\ key \in [Calls -> Keys \union {NoKey}]
      /\ out \in [Calls -> Results]
      /\ CallInv(d)
      /\ \A c \in Calls : pc[c] \in OnDevice => (c # d => pc[d] \notin OnDevice)
  BY DEF TypeOK, CallsInv, OneTalker
<1> USE <1>0 DEF Goto, Conclude, Unsure, frame, Syncing
<1>1. ASSUME NEW c \in Calls, Call(c) \/ Rerun(c) PROVE CallInv(d)'
  BY <1>1 DEF Call, Rerun, CallInv, Verified, device, Quiet
<1>2. ASSUME NEW c \in Calls, Acquire(c) PROVE CallInv(d)'
  BY <1>2 DEF Acquire, CallInv, Verified, device
<1>3. ASSUME NEW c \in Calls, Raise(c) PROVE CallInv(d)'
  BY <1>3 DEF Raise, Touched, CallInv, Verified, device
<1>4. ASSUME NEW c \in Calls, Refuse(c) PROVE CallInv(d)'
  BY <1>4 DEF Refuse, CallInv, Verified, device
<1>5. ASSUME NEW c \in Calls, Inspect(c) PROVE CallInv(d)'
  BY <1>5 DEF Inspect, CallInv, Verified, device
<1>6. ASSUME NEW c \in Calls, PickKey(c) PROVE CallInv(d)'
  <2>1. PICK k \in Keys : key' = [key EXCEPT ![c] = k]
    BY <1>6 DEF PickKey
  <2>2. QED
    BY <1>6, <2>1 DEF PickKey, CallInv, Verified, device
<1>7. ASSUME NEW c \in Calls, SendKey(c) PROVE CallInv(d)'
  BY <1>7 DEF SendKey, CallInv, Verified
<1>8. ASSUME NEW c \in Calls, SendKeyUnsure(c) PROVE CallInv(d)'
  BY <1>8 DEF SendKeyUnsure, CallInv, Verified
<1>9. ASSUME NEW c \in Calls, SendFlag(c) PROVE CallInv(d)'
  BY <1>9 DEF SendFlag, CallInv, Verified
<1>10. ASSUME NEW c \in Calls, SendFlagUnsure(c) PROVE CallInv(d)'
  BY <1>10 DEF SendFlagUnsure, CallInv, Verified
<1>11. ASSUME NEW c \in Calls, ReadBack(c) PROVE CallInv(d)'
  BY <1>11 DEF ReadBack, CallInv, Verified, device
<1>12. ASSUME NEW c \in Calls, ReadBackUnsure(c) PROVE CallInv(d)'
  BY <1>12 DEF ReadBackUnsure, CallInv, Verified, device
<1>13. ASSUME NEW c \in Calls, CloseError(c) \/ CloseUnsure(c) \/ CloseManual(c)
       PROVE  CallInv(d)'
  <2>1. UNCHANGED device /\ Finish(c)
    BY <1>13 DEF CloseError, CloseUnsure, CloseManual
  <2>2. QED
    BY <2>1 DEF Finish, CallInv, Verified, device
<1>14. ASSUME NEW c \in Calls, CloseUpdate(c) PROVE CallInv(d)'
  <2>1. UNCHANGED device /\ pc[c] = "closing"
    BY <1>14 DEF CloseUpdate
  <2>2. \/ Goto(c, "reload") /\ UNCHANGED <<key, out>>
        \/ Goto(c, "settle") /\ UNCHANGED <<key, out>>
        \/ Finish(c)
    BY <1>14 DEF CloseUpdate
  <2>3. CASE Goto(c, "reload") /\ UNCHANGED <<key, out>>
    BY <2>1, <2>3 DEF CallInv, Verified, device
  <2>4. CASE Goto(c, "settle") /\ UNCHANGED <<key, out>>
    BY <2>1, <2>4 DEF CallInv, Verified, device
  <2>5. CASE Finish(c)
    BY <2>1, <2>5 DEF Finish, CallInv, Verified, device
  <2>6. QED
    BY <2>2, <2>3, <2>4, <2>5
<1>15. ASSUME NEW c \in Calls, Settle(c) PROVE CallInv(d)'
  BY <1>15 DEF Settle, CallInv, Verified, device
<1>16. ASSUME NEW c \in Calls, Reload(c) \/ ReloadRefused(c) \/ SyncFails(c) PROVE CallInv(d)'
  <2>1. UNCHANGED device /\ Finish(c)
    BY <1>16 DEF Reload, ReloadRefused, SyncFails, SyncFailsAs
  <2>2. QED
    BY <2>1 DEF Finish, CallInv, Verified, device
<1>17. CASE Restart
  BY <1>17 DEF Restart, CallInv, Quiet
<1>18. CASE UNCHANGED vars
  BY <1>18 DEF vars, CallInv, Verified, device
<1>19. QED
  BY <1>1, <1>2, <1>3, <1>4, <1>5, <1>6, <1>7, <1>8, <1>9, <1>10, <1>11, <1>12, <1>13, <1>14,
     <1>15, <1>16, <1>17, <1>18 DEF Next, Progress, TalkToDevice, Close, Sync, Finished

(* What every call knows is an invariant.                                   *)
LEMMA CallsCorrect == Spec => []CallsInv
<1>1. Init => CallsInv
  BY DEF Init, CallsInv, CallInv, OnDevice, Syncing
<1>2. QED
  BY <1>1, CallsStep, TypeCorrect, OneTalkerCorrect, PTL DEF Spec, Safe

(* Nothing in Home Assistant moves unless the device took the change: the   *)
(* entry's key only ever changes to what the device needs at that moment    *)
(* (gatt.py:1213).                                                          *)
THEOREM EntryFollows == Spec => EntryFollowsDevice
<1>1. CallsInv /\ [Next]_vars => MovesWithDevice
  <2> SUFFICES ASSUME CallsInv, [Next]_vars, entryKey' # entryKey
               PROVE  entryKey' = Needed'
    BY DEF MovesWithDevice
  <2>1. PICK c \in Calls : CloseUpdate(c)
    BY DEF Next, Progress, TalkToDevice, Close, Sync, Finished, Call, Rerun, Acquire, Raise,
           Refuse, Inspect, PickKey, SendKey, SendKeyUnsure, SendFlag, SendFlagUnsure,
           ReadBack, ReadBackUnsure, CloseError, CloseUnsure, CloseManual, Settle, Reload,
           ReloadRefused, SyncFails, SyncFailsAs, Restart, entry, vars
  <2>2. Verified(c) /\ UNCHANGED device
    BY <2>1 DEF CloseUpdate, CallsInv, CallInv
  <2>3. QED
    BY <2>1, <2>2 DEF CloseUpdate, UpdateEntry, Verified, Needed, device
<1>2. QED
  BY <1>1, CallsCorrect, PTL DEF Spec, Safe, EntryFollowsDevice

-----------------------------------------------------------------------------
(* Who has the key of an encrypting device: a caller, the entry, or the     *)
(* call that talks to it.  Stronger than KeyAccounted in leaving out the    *)
(* calls that are only bringing Home Assistant along: they forget theirs.   *)
Holders == told \union {entryKey} \union {key[c] : c \in {d \in Calls : pc[d] \in OnDevice}}
DeviceKeyHeld == flag /\ ~restarted => devKey \in Holders

(* A step that leaves the device, the entry and the told keys alone and     *)
(* moves one call c keeps the key held if c stays on the device with its    *)
(* key, or had none.                                                        *)
LEMMA HeldByCall ==
  ASSUME TypeOK, DeviceKeyHeld, NEW c \in Calls,
         UNCHANGED <<flag, devKey, entryKey, told, restarted>>,
         \A d \in Calls \ {c} : pc'[d] = pc[d] /\ key'[d] = key[d],
         \/ pc[c] \in OnDevice => pc'[c] \in OnDevice /\ key'[c] = key[c]
         \/ key[c] = NoKey
  PROVE  DeviceKeyHeld'
<1>1. devKey # NoKey
  BY EncryptionAssumption DEF TypeOK
<1>2. SUFFICES ASSUME flag, ~restarted, devKey \in Holders PROVE devKey \in Holders'
  BY DEF DeviceKeyHeld
<1>3. CASE devKey \in told \union {entryKey}
  BY <1>3 DEF Holders
<1>4. CASE \E d \in Calls : pc[d] \in OnDevice /\ devKey = key[d]
  BY <1>1, <1>4 DEF Holders
<1>5. QED
  BY <1>2, <1>3, <1>4 DEF Holders

(* The key of an encrypting device is never lost.                           *)
LEMMA HeldStep ==
  TypeOK /\ OneTalker /\ CallsInv /\ DeviceKeyHeld /\ [Next]_vars => DeviceKeyHeld'
<1> SUFFICES ASSUME TypeOK, OneTalker, CallsInv, DeviceKeyHeld, [Next]_vars
             PROVE  DeviceKeyHeld'
  OBVIOUS
<1> USE OnDeviceLabels
<1>0. /\ pc \in [Calls -> OnDevice \union Syncing \union Quiet \union {"queued"}]
      /\ key \in [Calls -> Keys \union {NoKey}]
      /\ devKey # NoKey
      /\ \A c \in Calls : CallInv(c)
  BY EncryptionAssumption DEF TypeOK, CallsInv
<1> USE <1>0 DEF Goto, Conclude, Unsure, frame, device, entry, report
<1>1. ASSUME NEW c \in Calls, Call(c) \/ Rerun(c) PROVE DeviceKeyHeld'
  BY <1>1, HeldByCall DEF Call, Rerun, Quiet
<1>2. ASSUME NEW c \in Calls, Acquire(c) PROVE DeviceKeyHeld'
  BY <1>2, HeldByCall DEF Acquire
<1>3. ASSUME NEW c \in Calls, Raise(c) PROVE DeviceKeyHeld'
  BY <1>3, HeldByCall DEF Raise
<1>4. ASSUME NEW c \in Calls, Refuse(c) \/ Inspect(c) PROVE DeviceKeyHeld'
  BY <1>4, HeldByCall DEF Refuse, Inspect
<1>5. ASSUME NEW c \in Calls, PickKey(c) PROVE DeviceKeyHeld'
  <2>1. PICK k \in Keys : key' = [key EXCEPT ![c] = k]
    BY <1>5 DEF PickKey
  <2>2. key[c] = NoKey
    BY <1>5 DEF PickKey, CallInv
  <2>3. QED
    BY <1>5, <2>1, <2>2, HeldByCall DEF PickKey
<1>6. ASSUME NEW c \in Calls, SendKey(c) PROVE DeviceKeyHeld'
  <2>1. devKey' = key'[c] /\ pc'[c] \in OnDevice
    BY <1>6 DEF SendKey
  <2>2. QED
    BY <2>1 DEF DeviceKeyHeld, Holders
<1>7. ASSUME NEW c \in Calls, SendKeyUnsure(c) PROVE DeviceKeyHeld'
  <2>1. /\ devKey' = devKey \/ devKey' = key'[c]
        /\ pc'[c] \in OnDevice
    BY <1>7 DEF SendKeyUnsure
  <2>2. CASE devKey' = key'[c]
    BY <2>1, <2>2 DEF DeviceKeyHeld, Holders
  <2>3. CASE devKey' = devKey
    BY <1>7, <2>3, HeldByCall DEF SendKeyUnsure
  <2>4. QED
    BY <2>1, <2>2, <2>3
<1>8. ASSUME NEW c \in Calls, SendFlag(c) \/ SendFlagUnsure(c) PROVE DeviceKeyHeld'
  <2>1. /\ UNCHANGED <<devKey, key, entryKey, told, restarted>>
        /\ pc[c] = "send_flag"
        /\ \A d \in Calls \ {c} : pc'[d] = pc[d]
        /\ pc'[c] \in OnDevice
        /\ flag' = flag \/ flag' = (c \in Enable)
    BY <1>8 DEF SendFlag, SendFlagUnsure
  <2>2. CASE flag' = flag
    BY <2>1, <2>2, HeldByCall
  <2>3. CASE flag' = (c \in Enable) /\ c \in Enable
    <3>1. devKey' = key'[c]
      BY <2>1, <2>3 DEF CallInv
    <3>2. QED
      BY <2>1, <3>1 DEF DeviceKeyHeld, Holders
  <2>4. CASE flag' = (c \in Enable) /\ c \notin Enable
    BY <2>4 DEF DeviceKeyHeld
  <2>5. QED
    BY <2>1, <2>2, <2>3, <2>4
<1>9. ASSUME NEW c \in Calls, ReadBack(c) \/ ReadBackUnsure(c) PROVE DeviceKeyHeld'
  BY <1>9, HeldByCall DEF ReadBack, ReadBackUnsure
<1>10. ASSUME NEW c \in Calls, CloseError(c) PROVE DeviceKeyHeld'
  <2>1. key[c] = NoKey
    BY <1>10 DEF CloseError, CallInv
  <2>2. QED
    BY <1>10, <2>1, HeldByCall DEF CloseError, Finish
<1>11. ASSUME NEW c \in Calls, CloseUnsure(c) \/ CloseManual(c) PROVE DeviceKeyHeld'
  <2>1. /\ UNCHANGED <<flag, devKey, entryKey, restarted>>
        /\ told' = told \union ({key[c]} \ {NoKey})
        /\ \A d \in Calls \ {c} : pc'[d] = pc[d] /\ key'[d] = key[d]
    BY <1>11 DEF CloseUnsure, CloseManual, TellKey, Finish
  <2>2. SUFFICES ASSUME devKey \in Holders PROVE devKey \in Holders'
    BY <2>1 DEF DeviceKeyHeld
  <2>3. CASE devKey \in told \union {entryKey}
    BY <2>1, <2>3 DEF Holders
  <2>4. CASE \E d \in Calls : pc[d] \in OnDevice /\ devKey = key[d]
    BY <2>1, <2>4 DEF Holders
  <2>5. QED
    BY <2>2, <2>3, <2>4 DEF Holders
<1>12. ASSUME NEW c \in Calls, CloseUpdate(c) PROVE DeviceKeyHeld'
  <2>1. Verified(c) /\ UNCHANGED device
    BY <1>12 DEF CloseUpdate, CallInv
  <2>2. QED
    BY <1>12, <2>1 DEF CloseUpdate, UpdateEntry, Verified, DeviceKeyHeld, Holders
<1>13. ASSUME NEW c \in Calls, Settle(c) PROVE DeviceKeyHeld'
  BY <1>13, HeldByCall DEF Settle
<1>14. ASSUME NEW c \in Calls, Reload(c) \/ ReloadRefused(c) PROVE DeviceKeyHeld'
  BY <1>14, HeldByCall DEF Reload, ReloadRefused, Finish
<1>15. ASSUME NEW c \in Calls, SyncFails(c) PROVE DeviceKeyHeld'
  <2>1. /\ UNCHANGED <<flag, devKey, entryKey, restarted>>
        /\ told \subseteq told'
        /\ \A d \in Calls : pc[d] \in OnDevice => pc'[d] = pc[d] /\ key'[d] = key[d]
    BY <1>15 DEF SyncFails, SyncFailsAs, TellKey, Finish, Syncing
  <2>2. QED
    BY <2>1 DEF DeviceKeyHeld, Holders
<1>16. CASE Restart
  BY <1>16 DEF Restart, DeviceKeyHeld
<1>17. CASE UNCHANGED vars
  BY <1>17 DEF vars, DeviceKeyHeld, Holders
<1>18. QED
  BY <1>1, <1>2, <1>3, <1>4, <1>5, <1>6, <1>7, <1>8, <1>9, <1>10, <1>11, <1>12, <1>13, <1>14,
     <1>15, <1>16, <1>17 DEF Next, Progress, TalkToDevice, Close, Sync, Finished

(* The key is not lost: whatever fails and however calls overlap, a key the *)
(* device encrypts with is in the entry, was told to a caller or is known   *)
(* to a running call, unless a restart took the call that chose it          *)
(* (gatt.py:1217-1221).                                                     *)
THEOREM KeyNeverLost == Spec => []KeyAccounted
<1>1. Init => DeviceKeyHeld
  BY DEF Init, DeviceKeyHeld, Holders
<1>2. DeviceKeyHeld => KeyAccounted
  BY DEF DeviceKeyHeld, Holders, KeyAccounted
<1>3. QED
  BY <1>1, <1>2, HeldStep, TypeCorrect, OneTalkerCorrect, CallsCorrect, PTL DEF Spec, Safe

-----------------------------------------------------------------------------
(* Who answers for a disagreement.  Between the device and the entry: a call *)
(* that has sent something and is not through, or one that was to be run     *)
(* again, or was stopped half done, and has not brought the entry along      *)
(* since.  Between the entry and the coordinator: a call that is bringing it *)
(* along, or that failed to and said so.                                     *)
Answers(c) == HalfDone(c) \/ (Unfinished(c) /\ pc[c] \notin Syncing)

DeviceFollowed ==
  haSide \in {"entry", "disabled_entry"} /\ entryKey # Needed => \E c \in Calls : Answers(c)

EntryFollowed ==
  haSide = "entry" /\ loaded # entryKey /\ ~unheeded =>
    \E c \in Calls : Unfinished(c) \/ pc[c] \in Syncing

(* What a call saw of the device is so until it sends something, and the key *)
(* it sends to an encrypting device is the device's own, or given by the     *)
(* caller, unless the reply to the query of the key was lost.                *)
SeenInv(c) ==
  /\ pc[c] = "send_flag" /\ c \notin Enable => seen[c]
  /\ pc[c] \in {"pick_key", "send_key"} => c \in Enable
  /\ pc[c] \in {"pick_key", "send_key"} => (seen[c] <=> flag)
  /\ pc[c] = "send_key" /\ flag => faults > 0 \/ key[c] \in {GivenKey[c], devKey}

SeenCallsInv == \A c \in Calls : SeenInv(c)

(* The coordinator lags the entry only while a call brings it along or       *)
(* failed to.                                                                *)
LEMMA EntryFollowedStep == TypeOK /\ EntryFollowed /\ [Next]_vars => EntryFollowed'
<1> SUFFICES ASSUME TypeOK, EntryFollowed, [Next]_vars PROVE EntryFollowed'
  OBVIOUS
<1>0. /\ pc \in [Calls -> OnDevice \union Syncing \union Quiet \union {"queued"}]
      /\ owed \in [Calls -> BOOLEAN]
  BY DEF TypeOK
<1>1. ASSUME NEW c \in Calls, UNCHANGED <<haSide, loaded, entryKey, unheeded, owed, cut>>, NEW l,
             pc' = [pc EXCEPT ![c] = l], pc[c] \in Syncing => l \in Syncing
      PROVE  EntryFollowed'
  BY <1>0, <1>1 DEF EntryFollowed, Unfinished
<1>2. ASSUME NEW c \in Calls, Call(c) \/ Rerun(c) \/ TalkToDevice(c) \/ Settle(c)
      PROVE  EntryFollowed'
  <2>1. /\ UNCHANGED <<haSide, loaded, entryKey, unheeded, owed, cut>>
        /\ pc[c] \in Syncing => pc' = [pc EXCEPT ![c] = "reload"]
        /\ \E l : pc' = [pc EXCEPT ![c] = l]
    BY <1>2 DEF Call, Rerun, TalkToDevice, Acquire, Raise, Refuse, Inspect, PickKey, SendKey,
                SendKeyUnsure, SendFlag, SendFlagUnsure, ReadBack, ReadBackUnsure, Settle, Goto,
                Conclude, Unsure, environment, entry, report, Syncing
  <2> QED BY <1>1, <2>1 DEF Syncing
<1>3. ASSUME NEW c \in Calls, CloseError(c) PROVE EntryFollowed'
  BY <1>1, <1>3 DEF CloseError, Finish, Goto, environment, entry, report, Syncing
<1>4. ASSUME NEW c \in Calls, CloseUnsure(c) PROVE EntryFollowed'
  <2>1. owed' = [owed EXCEPT ![c] = TRUE]
    BY <1>4 DEF CloseUnsure, Answer
  <2>2. owed'[c]
    BY <1>0, <2>1
  <2> QED BY <2>2 DEF EntryFollowed, Unfinished
<1>5. ASSUME NEW c \in Calls, CloseManual(c) PROVE EntryFollowed'
  BY <1>5 DEF CloseManual, EntryFollowed, environment
<1>6. ASSUME NEW c \in Calls, CloseUpdate(c) PROVE EntryFollowed'
  <2>1. \/ haSide' # "entry"
        \/ pc' = [pc EXCEPT ![c] = "reload"] \/ pc' = [pc EXCEPT ![c] = "settle"]
    BY <1>6 DEF CloseUpdate, Goto, environment
  <2>2. haSide' # "entry" \/ pc'[c] \in Syncing
    BY <1>0, <2>1 DEF Syncing
  <2> QED BY <2>2 DEF EntryFollowed
<1>7. ASSUME NEW c \in Calls, Reload(c) \/ ReloadRefused(c) PROVE EntryFollowed'
  BY <1>7 DEF Reload, ReloadRefused, EntryFollowed
<1>8. ASSUME NEW c \in Calls, SyncFails(c) PROVE EntryFollowed'
  <2>1. owed' = [owed EXCEPT ![c] = TRUE]
    BY <1>8 DEF SyncFails, SyncFailsAs, Answer
  <2>2. owed'[c]
    BY <1>0, <2>1
  <2> QED BY <2>2 DEF EntryFollowed, Unfinished
<1>9. CASE Restart
  BY <1>9 DEF Restart, EntryFollowed, environment
<1>10. CASE UNCHANGED vars
  BY <1>10 DEF vars, EntryFollowed, Unfinished, environment, entry, report
<1> QED BY <1>2, <1>3, <1>4, <1>5, <1>6, <1>7, <1>8, <1>9, <1>10
        DEF Next, Progress, Close, Sync, Finished

(* A step of one call that leaves device and entry alone. *)
LEMMA AnswersKept ==
  ASSUME DeviceFollowed, NEW c \in Calls, UNCHANGED <<haSide, entryKey, flag, devKey>>,
         \A d \in Calls \ {c} : Answers(d) => Answers(d)', Answers(c) => Answers(c)'
  PROVE  DeviceFollowed'
BY DEF DeviceFollowed, Needed

(* A call that is not moved goes on answering. *)
LEMMA OthersAnswer ==
  ASSUME NEW d \in Calls, pc'[d] = pc[d], out'[d] = out[d], owed'[d] = owed[d], d \in cut => d \in cut',
         seen'[d] = seen[d],
         Answers(d)
  PROVE  Answers(d)'
BY DEF Answers, HalfDone, Touched, Unfinished

(* Only the call that talks to the device changes it. *)
LEMMA SeenStep ==
  TypeOK /\ OneTalker /\ SeenCallsInv /\ [Next]_vars => SeenCallsInv'
<1> SUFFICES ASSUME TypeOK, OneTalker, \A c \in Calls : SeenInv(c), [Next]_vars, NEW d \in Calls
             PROVE  SeenInv(d)'
  BY DEF SeenCallsInv
<1> USE OnDeviceLabels
<1>0. /\ pc \in [Calls -> OnDevice \union Syncing \union Quiet \union {"queued"}]
      /\ key \in [Calls -> Keys \union {NoKey}] /\ seen \in [Calls -> BOOLEAN]
      /\ out \in [Calls -> Results] /\ faults \in Nat
      /\ SeenInv(d)
      /\ \A c \in Calls : pc[c] \in OnDevice => (c # d => pc[d] \notin OnDevice)
  BY EncryptionAssumption DEF TypeOK, OneTalker
<1> USE <1>0 DEF Goto, Conclude, Unsure, frame, Syncing, SeenInv, device
<1>1. ASSUME NEW c \in Calls, Call(c) \/ Rerun(c) PROVE SeenInv(d)'
  BY <1>1 DEF Call, Rerun, Quiet
<1>2. ASSUME NEW c \in Calls, Acquire(c) PROVE SeenInv(d)'
  BY <1>2 DEF Acquire
<1>3. ASSUME NEW c \in Calls, Raise(c) PROVE SeenInv(d)'
  BY <1>3 DEF Raise, Fault
<1>4. ASSUME NEW c \in Calls, Refuse(c) PROVE SeenInv(d)'
  BY <1>4 DEF Refuse
<1>5. ASSUME NEW c \in Calls, Inspect(c) PROVE SeenInv(d)'
  BY <1>5 DEF Inspect
<1>6. ASSUME NEW c \in Calls, PickKey(c) PROVE SeenInv(d)'
  <2>1. PICK k \in Keys :
          /\ \/ k = GivenKey[c] /\ UNCHANGED faults
             \/ seen[c] /\ k = devKey /\ UNCHANGED faults
             \/ Fault
             \/ ~seen[c] /\ UNCHANGED faults
          /\ key' = [key EXCEPT ![c] = k]
    BY <1>6 DEF PickKey
  <2>2. /\ pc[c] = "pick_key" /\ pc' = [pc EXCEPT ![c] = "send_key"]
        /\ UNCHANGED <<flag, devKey, seen>>
    BY <1>6 DEF PickKey
  <2>3. CASE c = d
    <3>1. seen[d] <=> flag
      BY <2>2, <2>3
    <3>2. flag => faults' > 0 \/ key'[d] \in {GivenKey[d], devKey}
      BY <2>1, <2>2, <2>3, <3>1 DEF Fault
    <3> QED BY <2>2, <2>3, <3>1, <3>2
  <2>4. CASE c # d
    <3>1. pc'[d] = pc[d] /\ pc[d] \notin OnDevice
      BY <2>2, <2>4
    <3> QED BY <3>1
  <2> QED BY <2>3, <2>4
<1>7. ASSUME NEW c \in Calls, SendKey(c) PROVE SeenInv(d)'
  <2>1. /\ pc[c] = "send_key" /\ UNCHANGED seen
        /\ pc' = [pc EXCEPT ![c] = "read_back"] \/ pc' = [pc EXCEPT ![c] = "send_flag"]
    BY <1>7 DEF SendKey
  <2>2. CASE c = d
    <3>1. d \in Enable
      BY <2>1, <2>2
    <3> QED BY <2>1, <2>2, <3>1
  <2>3. CASE c # d
    <3>1. pc'[d] = pc[d] /\ pc[d] \notin OnDevice
      BY <2>1, <2>3
    <3> QED BY <3>1
  <2> QED BY <2>2, <2>3
<1>8. ASSUME NEW c \in Calls, SendKeyUnsure(c) PROVE SeenInv(d)'
  BY <1>8 DEF SendKeyUnsure
<1>9. ASSUME NEW c \in Calls, SendFlag(c) \/ SendFlagUnsure(c) PROVE SeenInv(d)'
  <2>1. pc[c] = "send_flag" /\ (pc' = [pc EXCEPT ![c] = "read_back"] \/ pc' = [pc EXCEPT ![c] = "closing"])
    BY <1>9 DEF SendFlag, SendFlagUnsure
  <2> QED BY <2>1
<1>10. ASSUME NEW c \in Calls, ReadBack(c) \/ ReadBackUnsure(c) PROVE SeenInv(d)'
  BY <1>10 DEF ReadBack, ReadBackUnsure
<1>11. ASSUME NEW c \in Calls, Close(c) PROVE SeenInv(d)'
  <2>1. pc[c] = "closing" /\ \E l \in {"done", "settle", "reload"} : pc' = [pc EXCEPT ![c] = l]
    BY <1>11 DEF Close, CloseError, CloseUnsure, CloseManual, CloseUpdate, Finish
  <2> QED BY <2>1
<1>12. ASSUME NEW c \in Calls, Sync(c) PROVE SeenInv(d)'
  <2>1. UNCHANGED <<flag, devKey>> /\ \E l \in {"done", "reload"} : pc' = [pc EXCEPT ![c] = l]
    BY <1>12 DEF Sync, Settle, Reload, ReloadRefused, SyncFails, SyncFailsAs, Finish
  <2>2. faults' \in {faults, faults + 1}
    BY <1>12 DEF Sync, Settle, Reload, ReloadRefused, SyncFails, SyncFailsAs, Fault
  <2>3. \A e \in Calls \ {c} : seen'[e] = seen[e] /\ key'[e] = key[e]
    BY <1>12 DEF Sync, Settle, Reload, ReloadRefused, SyncFails, SyncFailsAs, Finish
  <2> QED BY <2>1, <2>2, <2>3
<1>13. CASE Restart
  BY <1>13 DEF Restart, Quiet
<1>14. CASE UNCHANGED vars
  BY <1>14 DEF vars
<1> QED BY <1>1, <1>2, <1>3, <1>4, <1>5, <1>6, <1>7, <1>8, <1>9, <1>10, <1>11, <1>12, <1>13, <1>14
        DEF Next, Progress, TalkToDevice, Finished

(* Whoever changes the device answers for it until the entry has followed.   *)
LEMMA DeviceFollowedStep ==
  TypeOK /\ CallsInv /\ SeenCallsInv /\ DeviceFollowed /\ [Next]_vars => DeviceFollowed'
<1> SUFFICES ASSUME TypeOK, CallsInv, \A c \in Calls : SeenInv(c), DeviceFollowed, [Next]_vars
             PROVE  DeviceFollowed'
  BY DEF SeenCallsInv
<1>0. /\ pc \in [Calls -> OnDevice \union Syncing \union Quiet \union {"queued"}]
      /\ owed \in [Calls -> BOOLEAN] /\ seen \in [Calls -> BOOLEAN]
      /\ out \in [Calls -> Results]
      /\ \A c \in Calls : SeenInv(c) /\ CallInv(c)
  BY DEF TypeOK, CallsInv
<1> USE <1>0
<1>a. ASSUME NEW c \in Calls, Answers(c)' PROVE DeviceFollowed'
  BY <1>a DEF DeviceFollowed
<1>b. ASSUME NEW c \in Calls, UNCHANGED <<haSide, entryKey, flag, devKey>>,
             \A d \in Calls \ {c} : /\ pc'[d] = pc[d] /\ out'[d] = out[d]
                                    /\ owed'[d] = owed[d] /\ seen'[d] = seen[d]
                                    /\ (d \in cut => d \in cut'),
             Answers(c) => Answers(c)'
      PROVE  DeviceFollowed'
  <2>1. ASSUME NEW d \in Calls \ {c}, Answers(d) PROVE Answers(d)'
    BY <1>b, <2>1, OthersAnswer
  <2> QED BY <1>b, <2>1, AnswersKept
<1> USE DEF Goto, Conclude, Unsure, frame, device, environment, entry, report
<1>1. ASSUME NEW c \in Calls, Call(c) \/ Rerun(c) \/ Acquire(c) \/ Refuse(c) \/ PickKey(c)
      PROVE  DeviceFollowed'
  <2>1. /\ UNCHANGED <<haSide, entryKey, flag, devKey, owed, cut, seen>>
        /\ \A d \in Calls \ {c} : pc'[d] = pc[d] /\ out'[d] = out[d]
        /\ pc[c] \in Quiet \union {"queued", "connect", "pick_key"}
        /\ pc'[c] \in {"queued", "connect", "closing", "send_key"}
    BY <1>1 DEF Call, Rerun, Acquire, Refuse, PickKey, Quiet
  <2>2. Answers(c) => Answers(c)'
    BY <2>1 DEF Answers, HalfDone, Unfinished, Quiet, Syncing
  <2> QED BY <1>b, <2>1, <2>2
<1>2. ASSUME NEW c \in Calls, Inspect(c) PROVE DeviceFollowed'
  <2>1. /\ UNCHANGED <<haSide, entryKey, flag, devKey, owed, cut, out>>
        /\ \A d \in Calls \ {c} : pc'[d] = pc[d] /\ seen'[d] = seen[d]
        /\ pc[c] = "connect" /\ pc'[c] \in OnDevice
    BY <1>2, OnDeviceLabels DEF Inspect
  <2>2. Answers(c) => Answers(c)'
    BY <2>1 DEF Answers, HalfDone, Unfinished, OnDevice, Syncing
  <2> QED BY <1>b, <2>1, <2>2
<1>3. ASSUME NEW c \in Calls, Raise(c) PROVE DeviceFollowed'
  <2>1. /\ UNCHANGED <<haSide, entryKey, flag, devKey, owed, cut, seen>>
        /\ \A d \in Calls \ {c} : pc'[d] = pc[d] /\ out'[d] = out[d]
        /\ pc[c] \in {"connect", "pick_key"} \/ (pc[c] = "read_back" /\ ~Touched(c))
        /\ pc'[c] \in {"connect", "closing"}
    BY <1>3 DEF Raise
  <2>2. Answers(c) => Answers(c)'
    BY <2>1 DEF Answers, HalfDone, Unfinished, Syncing
  <2> QED BY <1>b, <2>1, <2>2
<1>4. ASSUME NEW c \in Calls, SendKey(c) PROVE DeviceFollowed'
  <2>1. /\ pc[c] = "send_key" /\ UNCHANGED seen
        /\ pc'[c] \in {"read_back", "send_flag"}
    BY <1>4 DEF SendKey
  <2>2. c \in Enable
    BY <2>1 DEF SeenInv
  <2> QED BY <1>a, <2>1, <2>2 DEF Answers, HalfDone, Unfinished, Touched
<1>5. ASSUME NEW c \in Calls, SendKeyUnsure(c) \/ SendFlagUnsure(c) \/ ReadBack(c) \/ ReadBackUnsure(c)
      PROVE  DeviceFollowed'
  <2>1. pc'[c] = "closing" /\ out'[c] \in {"ok", "maybe_changed"}
    BY <1>5 DEF SendKeyUnsure, SendFlagUnsure, ReadBack, ReadBackUnsure
  <2> QED BY <1>a, <2>1 DEF Answers, HalfDone
<1>6. ASSUME NEW c \in Calls, SendFlag(c) PROVE DeviceFollowed'
  <2>1. pc[c] = "send_flag" /\ pc'[c] = "read_back" /\ UNCHANGED seen
    BY <1>6 DEF SendFlag
  <2>2. Touched(c)'
    BY <2>1 DEF SeenInv, Touched
  <2> QED BY <1>a, <2>1, <2>2 DEF Answers, HalfDone
<1>7. ASSUME NEW c \in Calls, CloseError(c) PROVE DeviceFollowed'
  <2>1. /\ UNCHANGED <<haSide, entryKey, flag, devKey, owed, cut>>
        /\ \A d \in Calls \ {c} : pc'[d] = pc[d] /\ out'[d] = out[d] /\ seen'[d] = seen[d]
        /\ pc[c] = "closing" /\ out[c] = "error" /\ pc'[c] = "done"
    BY <1>7 DEF CloseError, Finish
  <2>2. Answers(c) => Answers(c)'
    BY <2>1 DEF Answers, HalfDone, Unfinished, Syncing
  <2> QED BY <1>b, <2>1, <2>2
<1>8. ASSUME NEW c \in Calls, CloseUnsure(c) \/ SyncFails(c) PROVE DeviceFollowed'
  <2>1. /\ owed' = [owed EXCEPT ![c] = TRUE] /\ pc' = [pc EXCEPT ![c] = "done"]
    BY <1>8 DEF CloseUnsure, SyncFails, SyncFailsAs, Answer, Finish
  <2> QED BY <1>a, <2>1 DEF Answers, Unfinished, Syncing
<1>9. ASSUME NEW c \in Calls, CloseManual(c) PROVE DeviceFollowed'
  BY <1>9 DEF CloseManual, DeviceFollowed
<1>10. ASSUME NEW c \in Calls, CloseUpdate(c) PROVE DeviceFollowed'
  <2>1. entryKey' = Needed'
    BY <1>10 DEF CloseUpdate, UpdateEntry, CallInv, Verified, Needed
  <2> QED BY <2>1 DEF DeviceFollowed
<1>11. ASSUME NEW c \in Calls, Settle(c) \/ Reload(c) \/ ReloadRefused(c) PROVE DeviceFollowed'
  <2>1. /\ UNCHANGED <<haSide, entryKey, flag, devKey>>
        /\ \A d \in Calls \ {c} : /\ pc'[d] = pc[d] /\ out'[d] = out[d]
                                  /\ owed'[d] = owed[d] /\ seen'[d] = seen[d]
                                    /\ (d \in cut => d \in cut')
        /\ pc[c] \in Syncing
    BY <1>11 DEF Settle, Reload, ReloadRefused, Answer, Finish, Syncing
  <2>2. ~Answers(c)
    BY <2>1 DEF Answers, HalfDone, Unfinished, Syncing
  <2> QED BY <1>b, <2>1, <2>2
<1>12. CASE Restart
  <2>1. /\ cut' = cut \union {c \in Calls : HalfDone(c)}
        /\ UNCHANGED <<haSide, entryKey, flag, devKey, owed>>
        /\ \A c \in Calls : pc'[c] \notin Syncing
    BY <1>12, OnDeviceLabels DEF Restart, Quiet, Syncing
  <2>2. ASSUME NEW c \in Calls, Answers(c) PROVE Answers(c)'
    BY <2>1, <2>2 DEF Answers, Unfinished
  <2> QED BY <2>1, <2>2 DEF DeviceFollowed, Needed
<1>13. CASE UNCHANGED vars
  <2>1. \A c \in Calls : Answers(c) => Answers(c)'
    BY <1>13 DEF vars, Answers, HalfDone, Unfinished, Touched
  <2> QED BY <1>13, <2>1 DEF vars, DeviceFollowed, Needed
<1> QED BY <1>1, <1>2, <1>3, <1>4, <1>5, <1>6, <1>7, <1>8, <1>9, <1>10, <1>11, <1>12, <1>13
        DEF Next, Progress, TalkToDevice, Close, Sync, Finished

(* What the calls saw of the device is an invariant.                        *)
LEMMA SeenCorrect == Spec => []SeenCallsInv
<1>1. Init => SeenCallsInv
  BY DEF Init, SeenCallsInv, SeenInv
<1>2. QED
  BY <1>1, SeenStep, TypeCorrect, OneTalkerCorrect, PTL DEF Spec, Safe

(* Device and Home Assistant never disagree silently: when no call is        *)
(* running and they disagree, a caller was asked to run its call again, or a *)
(* restart stopped a call that was half done, whose caller got no answer     *)
(* (gatt.py:1217-1221 and bulk.py:107-117).                                  *)
THEOREM DisagreementTold == Spec => []NoSilentDisagreement
<1>1. Init => DeviceFollowed /\ EntryFollowed
  BY DEF Init, DeviceFollowed, EntryFollowed, Needed
<1>2. DeviceFollowed /\ EntryFollowed => NoSilentDisagreement
  <2> SUFFICES ASSUME DeviceFollowed, EntryFollowed, AllQuiet, ~InStep
               PROVE  \E c \in Calls : Unfinished(c)
    BY DEF NoSilentDisagreement
  <2>1. \A c \in Calls : ~HalfDone(c) /\ pc[c] \notin Syncing
    BY DEF AllQuiet, Quiet, HalfDone, Syncing
  <2>2. CASE haSide \in {"entry", "disabled_entry"} /\ entryKey # Needed
    BY <2>1, <2>2 DEF DeviceFollowed, Answers
  <2>3. CASE haSide = "entry" /\ loaded # entryKey /\ ~unheeded
    BY <2>1, <2>3 DEF EntryFollowed
  <2> QED BY <2>2, <2>3 DEF InStep
<1>3. QED
  BY <1>1, <1>2, EntryFollowedStep, DeviceFollowedStep, TypeCorrect, CallsCorrect, SeenCorrect,
     PTL DEF Spec, Safe

(* A device that already encrypts keeps its key unless a caller gave another *)
(* one or a reply was lost, however calls overlap (gatt.py:1210-1211 and     *)
(* 1220-1221).                                                               *)
THEOREM EncryptingKeyKept == Spec => EncryptingKeepsKey
<1> DEFINE Kept == flag /\ devKey' # devKey => faults > 0 \/ \E c \in Calls : GivenKey[c] = devKey'
<1>1. SeenCallsInv /\ [Next]_vars => Kept
  <2> SUFFICES ASSUME SeenCallsInv, [Next]_vars, flag, devKey' # devKey
               PROVE  faults > 0 \/ \E c \in Calls : GivenKey[c] = devKey'
    OBVIOUS
  <2>1. PICK c \in Calls : SendKey(c) \/ SendKeyUnsure(c)
    BY DEF Next, Progress, TalkToDevice, Close, Sync, Finished, Call, Rerun, Acquire, Raise,
           Refuse, Inspect, PickKey, SendFlag, SendFlagUnsure, ReadBack, ReadBackUnsure,
           CloseError, CloseUnsure, CloseManual, CloseUpdate, Settle, Reload, ReloadRefused,
           SyncFails, SyncFailsAs, Restart,
           device, vars
  <2>2. pc[c] = "send_key" /\ devKey' = key[c]
    BY <2>1 DEF SendKey, SendKeyUnsure
  <2> QED BY <2>2 DEF SeenCallsInv, SeenInv
<1>2. QED
  BY <1>1, SeenCorrect, PTL DEF Spec, Safe, EncryptingKeepsKey
=============================================================================
