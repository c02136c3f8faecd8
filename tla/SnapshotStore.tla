---------------------------- MODULE SnapshotStore ----------------------------
(***************************************************************************)
(* The snapshots of one device (backups.py) and its cached BLE name        *)
(* (gatt.async_remember_ble_name): the dicts in hass.data, the two Store   *)
(* files behind them, and the setup of the integration that loads both     *)
(* (__init__.async_setup_entry), also while operations are under way.      *)
(*                                                                         *)
(* Mutating a dict is immediate, writing it to its file is an await.       *)
(* Several tasks may be in such an await at once, and a task that read the *)
(* device may reach its save long after: an encryption change brings Home  *)
(* Assistant's BTHome entry along first.                                   *)
(*                                                                         *)
(* A state of the device is its name and a version that every change       *)
(* raises; two snapshots have the same _state_sig when both agree.         *)
(***************************************************************************)
EXTENDS Naturals, Sequences, SequencesExt

CONSTANTS
  Tasks,       \* the calls made to the integration, also the snapshots' ids
  Kind,        \* what each of them is
  NewName,     \* the name a rename sets; NoName clears it
  Names,       \* BLE names
  NoName,      \* no name, an empty name
  Limit,       \* BACKUP_LIMIT (20 in the code)
  Setup,       \* the writer of the file while setup saves the seeded names
  Nobody,      \* no writer, nothing left to write, no fields
  MaxCrashes,  \* bound: Home Assistant stops without warning
  MaxReloads   \* bound: reloads of the integration's config entry

Kinds == {"read", "encrypt", "rename", "delete"}

ASSUME StoreAssumption ==
  /\ Kind \in [Tasks -> Kinds]
  /\ NewName \in [Tasks -> Names \union {NoName}]
  /\ NoName \notin Names
  /\ Limit \in Nat \ {0}
  /\ Setup \notin Tasks
  /\ MaxCrashes \in Nat /\ MaxReloads \in Nat
  /\ Nobody \notin Tasks \union {Setup} \union (0..MaxReloads)

VARIABLES
  dev,      \* the device: its name and the version of its state
  stores,   \* the names and the backups, in memory and on disk
  pc,       \* where each task is
  on,       \* the Store object whose lock or write it is waiting for
  held,     \* the fields it has read
  added,    \* the tasks whose answer says that a snapshot was added
  removed,  \* history: snapshots that were deleted or trimmed
  target,   \* the snapshot a delete was asked for
  setup,    \* where setup is
  fetched,  \* what setup has read from the file it waits for
  raced,    \* history: a task was under way while a reload replaced the dicts
  budget    \* crashes and reloads still allowed

work == <<pc, on, held, added, removed, target>>
loading == <<setup, fetched, raced>>
vars == <<dev, stores, work, loading, budget>>

Gens == 0..MaxReloads
States == [name : Names \union {NoName}, version : Nat]
Snapshots == [id : Tasks, state : States]
Waiting == {"naming", "saving"}
Reloading == {"names", "backups"}
Running == Waiting \union {"syncing", "renamed", "shown"}

(* One Store and its dict.  A reload makes new ones while tasks still hold  *)
(* the old: `dict` and `object` are the generations hass.data refers to,    *)
(* `pend` is the dict async_save left to be written, `taken` what a write   *)
(* in progress is going to put into the file.                               *)
StoreRecords(contents) ==
  [disk : contents, dict : Gens, object : Gens,
   shelf : [Gens -> contents],
   pend : [Gens -> Gens \union {Nobody}],
   writer : [Gens -> Tasks \union {Setup, Nobody}],
   taken : [Gens -> contents]]

Histories == {h \in Seq(Snapshots) : Len(h) <= Limit}

TypeOK ==
  /\ dev \in States
  /\ stores \in [names : StoreRecords(Names \union {NoName}),
                backups : StoreRecords(Histories)]
  /\ pc \in [Tasks -> Running \union {"idle", "done", "lost"}]
  /\ on \in [Tasks -> Gens]
  /\ held \in [Tasks -> States \union {Nobody}]
  /\ added \subseteq Tasks
  /\ removed \subseteq Tasks
  /\ target \in [Tasks -> Tasks \union {Nobody}]
  /\ setup \in {"ready", "starting", "seeding"} \union Reloading
  /\ raced \in BOOLEAN
  /\ fetched \in Names \union {NoName, Nobody} \union Histories
  /\ budget \in [crashes : 0..MaxCrashes, reloads : 0..MaxReloads]

(* A Store just made, and its dict as loaded from the file. *)
Loaded(contents, empty) ==
  [disk |-> contents, dict |-> 0, object |-> 0,
   shelf |-> [g \in Gens |-> IF g = 0 THEN contents ELSE empty],
   pend |-> [g \in Gens |-> Nobody],
   writer |-> [g \in Gens |-> Nobody],
   taken |-> [g \in Gens |-> empty]]

Init ==
  /\ dev \in [name : Names \union {NoName}, version : {0}]
  /\ stores = [names |-> Loaded(NoName, NoName), backups |-> Loaded(<<>>, <<>>)]
  /\ pc = [t \in Tasks |-> "idle"]
  /\ on = [t \in Tasks |-> 0]
  /\ held = [t \in Tasks |-> Nobody]
  /\ added = {}
  /\ removed = {}
  /\ target = [t \in Tasks |-> Nobody]
  /\ setup = "ready"
  /\ fetched = Nobody
  /\ raced = FALSE
  /\ budget = [crashes |-> MaxCrashes, reloads |-> MaxReloads]

-----------------------------------------------------------------------------
(* homeassistant.helpers.storage.Store, as this code uses it: async_save    *)
(* leaves the dict to be written, takes the store's lock, and writes what   *)
(* the dict holds by then; a save whose dict an earlier one in the queue    *)
(* has written already returns at once.                                     *)
InMemory(s) == s.shelf[s.dict]

(* The dict is mutated and handed to async_save; with the lock free the     *)
(* write starts in the same step.                                           *)
Put(s, who, contents) ==
  LET o == s.object
      mutated == [s EXCEPT !.shelf[s.dict] = contents]
  IN IF s.writer[o] = Nobody /\ s.pend[o] = Nobody
     THEN [mutated EXCEPT !.writer[o] = who, !.taken[o] = contents]
     ELSE [mutated EXCEPT !.pend[o] = s.dict]

StartWrite(s, o, who) ==
  [s EXCEPT !.writer[o] = who, !.taken[o] = s.shelf[s.pend[o]], !.pend[o] = Nobody]

EndWrite(s, o) == [s EXCEPT !.disk = s.taken[o], !.writer[o] = Nobody]

StoreOf(t) == IF pc[t] = "naming" THEN stores.names ELSE stores.backups
WithStoreOf(t, s) == IF pc[t] = "naming" THEN [stores EXCEPT !.names = s]
                                         ELSE [stores EXCEPT !.backups = s]

-----------------------------------------------------------------------------
History(ss) == InMemory(ss.backups)
Newest(h) == h[Len(h)]
Ids(h) == {h[i].id : i \in DOMAIN h}

(* Mutants of Trimmed: one too many is kept, and the newest is dropped. *)
TrimmedLate(h) ==
  IF Len(h) > Limit + 1 THEN SubSeq(h, Len(h) - Limit + 1, Len(h)) ELSE h
TrimmedNewest(h) == IF Len(h) > Limit THEN SubSeq(h, 1, Limit) ELSE h

Trimmed(h) == IF Len(h) > Limit THEN SubSeq(h, Len(h) - Limit + 1, Len(h)) ELSE h

(* backups.async_save of the fields f by task t, with the stores as in ss:  *)
(* the same state as the newest snapshot only updates its last_seen.        *)
Save(t, f, ss) ==
  LET h == History(ss)
      same == h # <<>> /\ Newest(h).state = f
      new == IF same THEN h ELSE Trimmed(Append(h, [id |-> t, state |-> f]))
  IN /\ stores' = [ss EXCEPT !.backups = Put(@, t, new)]
     /\ added' = IF same THEN added ELSE added \union {t}
     /\ removed' = removed \union (Ids(h) \ Ids(new))
     /\ pc' = [pc EXCEPT ![t] = "saving"]
     /\ on' = [on EXCEPT ![t] = ss.backups.object]
     /\ held' = [held EXCEPT ![t] = Nobody]
     /\ UNCHANGED target

(* gatt.async_remember_ble_name with a name (or, cleared, without one) that *)
(* is not the cached one already.                                           *)
Remember(t, name) ==
  /\ stores' = [stores EXCEPT !.names = Put(@, t, name)]
  /\ pc' = [pc EXCEPT ![t] = "naming"]
  /\ on' = [on EXCEPT ![t] = stores.names.object]
  /\ UNCHANGED <<added, removed, target>>

CachedName == InMemory(stores.names)

(* ws_read once async_read has returned: the name is cached, if there is    *)
(* one, and the fields are saved; only a write to a file comes between.     *)
Read(t) ==
  /\ Kind[t] = "read" /\ pc[t] = "idle"
  /\ \/ dev.name \in {NoName, CachedName} /\ Save(t, dev, stores)
     \/ /\ dev.name \notin {NoName, CachedName}
        /\ held' = [held EXCEPT ![t] = dev]
        /\ Remember(t, dev.name)
  /\ UNCHANGED <<dev, setup, fetched, budget>>

(* ws_set_encryption: the device has changed and was read back; its BTHome  *)
(* entry is brought along (up to 15 s and a reload) before the save.        *)
Encrypt(t) ==
  /\ Kind[t] = "encrypt" /\ pc[t] = "idle"
  /\ dev' = [dev EXCEPT !.version = @ + 1]
  /\ held' = [held EXCEPT ![t] = dev']
  /\ pc' = [pc EXCEPT ![t] = "syncing"]
  /\ UNCHANGED <<stores, on, added, removed, target, setup, fetched, budget>>

EncryptSaves(t) ==
  /\ pc[t] = "syncing"
  /\ Save(t, held[t], stores)
  /\ UNCHANGED <<dev, loading, budget>>

(* ws_set_device_name: the device has the new name, or none; its clock is   *)
(* put back over another connection before the name is cached.              *)
Rename(t) ==
  /\ Kind[t] = "rename" /\ pc[t] = "idle"
  /\ dev' = [name |-> NewName[t], version |-> dev.version + 1]
  /\ held' = [held EXCEPT ![t] = dev']
  /\ pc' = [pc EXCEPT ![t] = "renamed"]
  /\ UNCHANGED <<stores, on, added, removed, target, setup, fetched, budget>>

(* Mutant of RenameRemembers: the cache is changed and not saved. *)
RenameUnsaved(t) ==
  /\ pc[t] = "renamed"
  /\ stores' = [stores EXCEPT !.names.shelf[stores.names.dict] = NewName[t]]
  /\ pc' = [pc EXCEPT ![t] = "shown"]
  /\ UNCHANGED <<on, added, removed, target, dev, held, loading, budget>>

RenameRemembers(t) ==
  /\ pc[t] = "renamed"
  /\ \/ NewName[t] # CachedName /\ Remember(t, NewName[t])
     \/ /\ NewName[t] = CachedName
        /\ pc' = [pc EXCEPT ![t] = "shown"]
        /\ UNCHANGED <<stores, on, added, removed, target>>
  /\ UNCHANGED <<dev, held, loading, budget>>

(* The panel sends the renamed device's fields to ws_backup_save if its     *)
(* dialog is still open (_runCmd returned a result).                        *)
PanelSaves(t) ==
  /\ pc[t] = "shown"
  /\ Save(t, held[t], stores)
  /\ UNCHANGED <<dev, loading, budget>>

PanelGone(t) ==
  /\ pc[t] = "shown"
  /\ pc' = [pc EXCEPT ![t] = "done"]
  /\ held' = [held EXCEPT ![t] = Nobody]
  /\ UNCHANGED <<dev, stores, on, added, removed, target, loading, budget>>

(* backups.async_delete of one snapshot, h[i]: no other has its id. *)
Without(h, i) == RemoveAt(h, i)

(* Mutant of Delete: answered before the write. *)
DeleteUnsaved(t) ==
  /\ Kind[t] = "delete" /\ pc[t] = "idle"
  /\ \E i \in DOMAIN History(stores) :
       /\ stores' = [stores EXCEPT !.backups.shelf[stores.backups.dict] =
                                     Without(History(stores), i)]
       /\ removed' = removed \union {History(stores)[i].id}
       /\ target' = [target EXCEPT ![t] = History(stores)[i].id]
  /\ pc' = [pc EXCEPT ![t] = "done"]
  /\ UNCHANGED <<dev, on, held, added, setup, fetched, budget>>

Delete(t) ==
  /\ Kind[t] = "delete" /\ pc[t] = "idle"
  /\ \E i \in DOMAIN History(stores) :
       /\ stores' = [stores EXCEPT !.backups = Put(@, t, Without(History(stores), i))]
       /\ removed' = removed \union {History(stores)[i].id}
       /\ target' = [target EXCEPT ![t] = History(stores)[i].id]
  /\ pc' = [pc EXCEPT ![t] = "saving"]
  /\ on' = [on EXCEPT ![t] = stores.backups.object]
  /\ UNCHANGED <<dev, held, added, setup, fetched, budget>>

-----------------------------------------------------------------------------
(* The lock of the Store is free: the next in its queue writes what is left *)
(* to be written.                                                           *)
TakeTurn(t) ==
  /\ pc[t] \in Waiting
  /\ StoreOf(t).writer[on[t]] = Nobody /\ StoreOf(t).pend[on[t]] # Nobody
  /\ stores' = WithStoreOf(t, StartWrite(StoreOf(t), on[t], t))
  /\ UNCHANGED <<dev, work, loading, budget>>

(* The await of async_save returns; s is the store as it is then.  A read   *)
(* goes on to save its snapshot, the others have their answer.              *)
Resume(t, s) ==
  \/ /\ pc[t] = "naming" /\ Kind[t] = "read"
     /\ Save(t, held[t], WithStoreOf(t, s))
  \/ /\ pc[t] = "naming" /\ Kind[t] = "rename"
     /\ stores' = WithStoreOf(t, s)
     /\ pc' = [pc EXCEPT ![t] = "shown"]
     /\ UNCHANGED <<on, held, added, removed, target>>
  \/ /\ pc[t] = "saving"
     /\ stores' = WithStoreOf(t, s)
     /\ pc' = [pc EXCEPT ![t] = "done"]
     /\ UNCHANGED <<on, held, added, removed, target>>

Written(t) ==
  /\ pc[t] \in Waiting
  /\ StoreOf(t).writer[on[t]] = t
  /\ Resume(t, EndWrite(StoreOf(t), on[t]))
  /\ UNCHANGED <<dev, loading, budget>>

NothingLeft(t) ==
  /\ pc[t] \in Waiting
  /\ StoreOf(t).writer[on[t]] = Nobody /\ StoreOf(t).pend[on[t]] = Nobody
  /\ Resume(t, StoreOf(t))
  /\ UNCHANGED <<dev, loading, budget>>

-----------------------------------------------------------------------------
(* The seeding of the name cache: a device without a cached name gets the   *)
(* one in its newest snapshot.                                              *)
Seed(ss) == IF History(ss) # <<>> /\ InMemory(ss.names) = NoName
            THEN Newest(History(ss)).state.name ELSE NoName

(* Setup after the backups were loaded: seed, and save what was seeded.  At  *)
(* the first start the commands are registered only after that.             *)
SeedAndSave(ss, label) ==
  IF Seed(ss) = NoName
  THEN stores' = ss /\ setup' = "ready"
  ELSE /\ stores' = [ss EXCEPT !.names = Put(@, Setup, Seed(ss))]
       /\ setup' = label

(* The entry is reloaded: async_unload_entry keeps hass.data, then setup    *)
(* runs.  The new Store for the names replaces the old one before its file  *)
(* is read, the names and the backups are replaced once theirs is.          *)
Reload ==
  /\ setup = "ready" /\ budget.reloads > 0
  /\ budget' = [budget EXCEPT !.reloads = @ - 1]
  /\ stores' = [stores EXCEPT !.names.object = @ + 1]
  /\ setup' = "names"
  /\ raced' = (raced \/ \E t \in Tasks : pc[t] \in Running)
  /\ UNCHANGED <<dev, work, fetched>>

ReadFile ==
  /\ setup \in Reloading /\ fetched = Nobody
  /\ fetched' = IF setup = "names" THEN stores.names.disk ELSE stores.backups.disk
  /\ UNCHANGED <<dev, stores, work, setup, raced, budget>>

NamesLoaded ==
  /\ setup = "names" /\ fetched # Nobody
  /\ LET g == stores.names.object
     IN stores' = [stores EXCEPT !.names.dict = g, !.names.shelf[g] = fetched]
  /\ setup' = "backups"
  /\ fetched' = Nobody
  /\ UNCHANGED <<dev, work, raced, budget>>

BackupsLoaded ==
  /\ setup = "backups" /\ fetched # Nobody
  /\ LET g == stores.names.object
     IN SeedAndSave([stores EXCEPT !.backups.dict = g, !.backups.object = g,
                                   !.backups.shelf[g] = fetched], "seeding")
  /\ fetched' = Nobody
  /\ UNCHANGED <<dev, work, raced, budget>>

(* Setup's own save of the seeded names, as any other. *)
SeedTurn ==
  LET s == stores.names IN
  /\ setup \in {"starting", "seeding"}
  /\ s.writer[s.object] = Nobody /\ s.pend[s.object] # Nobody
  /\ stores' = [stores EXCEPT !.names = StartWrite(s, s.object, Setup)]
  /\ UNCHANGED <<dev, work, loading, budget>>

Seeded ==
  LET s == stores.names IN
  /\ setup \in {"starting", "seeding"}
  /\ \/ s.writer[s.object] = Setup /\ stores' = [stores EXCEPT !.names = EndWrite(s, s.object)]
     \/ s.writer[s.object] = Nobody /\ s.pend[s.object] = Nobody /\ UNCHANGED stores
  /\ setup' = "ready"
  /\ UNCHANGED <<dev, work, fetched, raced, budget>>

(* Home Assistant stops without warning and starts again: tasks and dicts   *)
(* are gone, the files hold what the last write put there.                  *)
Crash ==
  /\ budget.crashes > 0
  /\ budget' = [budget EXCEPT !.crashes = @ - 1]
  /\ pc' = [t \in Tasks |-> IF pc[t] \in Running THEN "lost" ELSE pc[t]]
  /\ on' = [t \in Tasks |-> 0]
  /\ held' = [t \in Tasks |-> Nobody]
  /\ SeedAndSave([names |-> Loaded(stores.names.disk, NoName),
                  backups |-> Loaded(stores.backups.disk, <<>>)], "starting")
  /\ fetched' = Nobody
  /\ UNCHANGED <<dev, added, removed, target, raced>>

-----------------------------------------------------------------------------
(* A command arrives; none can before the first setup has registered them.  *)
Ask(t) ==
  /\ setup # "starting"
  /\ Read(t) \/ Encrypt(t) \/ Rename(t) \/ Delete(t)
  /\ raced' = (raced \/ setup \in Reloading)

(* What a task does by itself once it was asked. *)
Progress(t) ==
  \/ EncryptSaves(t) \/ RenameRemembers(t) \/ PanelSaves(t) \/ PanelGone(t)
  \/ TakeTurn(t) \/ Written(t) \/ NothingLeft(t)

SetupProgress == ReadFile \/ NamesLoaded \/ BackupsLoaded \/ SeedTurn \/ Seeded

Quiet == setup = "ready" /\ \A t \in Tasks : pc[t] \notin Running

(* Everything was asked, or there is nothing left to delete. *)
Finished == Quiet /\ UNCHANGED vars

Next ==
  \/ \E t \in Tasks : Ask(t) \/ Progress(t)
  \/ SetupProgress \/ Reload \/ Crash
  \/ Finished

Spec == Init /\ [][Next]_vars

-----------------------------------------------------------------------------
(* A snapshot that an answer counted is never lost (backups.py:3-6): it is  *)
(* in the history until it is deleted or pushed out by newer ones.          *)
AnsweredIsKept ==
  \A t \in added : pc[t] = "done" => t \in removed \union Ids(History(stores))

(* That holds however writes overlap, wherever Home Assistant stops, and    *)
(* over a reload that no task overlaps (__init__.py:59-66).                 *)
AnsweredSurvives == ~raced => AnsweredIsKept

(* A snapshot whose deletion was answered does not come back, not with the  *)
(* late end of a write that began before, a crash, or such a reload.        *)
DeletedStaysDeleted ==
  ~raced => \A t \in Tasks : Kind[t] = "delete" /\ pc[t] = "done" => target[t] \notin Ids(History(stores))

(* Whenever nothing is under way the files hold what the dicts hold: no     *)
(* mutation was left unwritten by a save that trusted another to write it.  *)
FilesInSync ==
  Quiet /\ ~raced => /\ stores.names.disk = CachedName
           /\ stores.backups.disk = History(stores)
=============================================================================
