----------------------------- MODULE DevicePanel -----------------------------
(***************************************************************************)
(* One panel element (www/telink-manager-panel.js) and its dialogs: the    *)
(* scan, the read behind Connect, the dialog of a device with its edit and *)
(* command screens, the list dialogs, and the automatic snapshots.         *)
(*                                                                         *)
(* Every call to Home Assistant is an await, and the user goes on: closes  *)
(* the dialog, cancels, leaves the page, opens another device.  _op, a     *)
(* counter, tells a call whether its answer is still wanted: here a call   *)
(* is live until _op moves on.  A dialog covers the table and the toolbar, *)
(* a confirmation covers both, and a click beside a dialog closes it also  *)
(* while its buttons are disabled.                                         *)
(*                                                                         *)
(* Of a device's settings a version is kept, which every change raises;    *)
(* of the fields the panel holds, the device they are of, the version, and *)
(* whether they have the bytes a snapshot needs: a repeater whose reply to *)
(* the configuration command is lost is read without them.                 *)
(* Calls for one device are answered in order: it has a lock (DeviceLink). *)
(***************************************************************************)
EXTENDS Naturals, Sequences, SequencesExt

CONSTANTS
  Macs,        \* devices
  Repeaters,   \* those with the repeater firmware
  Weak,        \* those whose read asks first: weak signal, not connectable
  Nobody,      \* no device
  Lists,       \* the list dialogs that are opened
  Used,        \* the commands that are given
  MaxCalls,    \* bound: calls under way
  MaxMade,     \* bound: calls made
  MaxVersion,  \* bound: changes of a device
  MaxMoves,    \* bound: leaving the page
  MaxJobs,     \* bound: bulk jobs that are seen to end
  MaxTurns     \* bound: both together, a job under way counted

ASSUME PanelAssumption ==
  /\ Repeaters \subseteq Macs /\ Weak \subseteq Macs /\ Nobody \notin Macs
  /\ Lists \subseteq {"snapshots", "compare", "coverage"}
  /\ Used \subseteq {"setting", "encrypt", "factory", "rsave", "restore", "show", "clear", "plain", "wake"}
  /\ {MaxCalls, MaxMade, MaxVersion, MaxMoves, MaxJobs, MaxTurns} \subseteq Nat /\ MaxCalls >= 1

VARIABLES
  attached,  \* the element is on the page
  listed,    \* _devs: the devices in the table
  selected,  \* _selected
  top,       \* _busy, and the toolbar: Refresh, Connect, Cancel
  bulk,      \* _bulkStatus.active
  dialog,    \* the dialog that is open
  locked,    \* its buttons are disabled
  expanded,  \* _cmpTarget is the history of a device in the snapshots dialog
  confirm,   \* the confirmation that is waiting
  loaded,    \* _loaded
  lcd,       \* _lcdPermanentMac
  inflight,  \* _inflightMacs
  calls,     \* calls under way, in the order they were made
  saves,     \* automatic snapshots under way
  device,    \* each device: version of its settings, overlay that stays
  store,     \* the newest snapshot of each device
  acked,     \* history: the newest version the panel reported as set, and
             \* whether its snapshot was not sent, or could not be saved
  unheard,   \* history: devices with an overlay the panel was not told of
  mixed,     \* history: by way of services, two devices met in one dialog
  budget     \* calls, moves and jobs still allowed

page == <<attached, budget>>
table == <<listed, selected>>
screen == <<dialog, locked, expanded>>
outside == <<device, store>>
history == <<acked, unheard, mixed>>
vars == <<page, table, top, bulk, screen, confirm, loaded, lcd, inflight,
          calls, saves, outside, history>>

Listings == {"snapshots", "compare", "coverage"}
Bodies == {"none", "loading", "error", "view", "edit", "commands", "services", "waiting",
           "results"} \union Listings
Screens == [title : Macs \union {Nobody}, body : Bodies, mac : Macs \union {Nobody}]
Shown(body, m) == [title |-> m, body |-> body, mac |-> m]
NoDialog == Shown("none", Nobody)

Fields == [of : Macs \union {Nobody}, version : 0..MaxVersion, raw : BOOLEAN]
NoFields == [of |-> Nobody, version |-> 0, raw |-> FALSE]

(* What a read of a device may bring; raw is missing from a repeater's fields  *)
(* when that reply was lost, and a snapshot without it is refused by the store. *)
Raws(m) == IF m \in Repeaters THEN BOOLEAN ELSE {TRUE}
Reads(m) == {[of |-> m, version |-> device[m].version, raw |-> raw] : raw \in Raws(m)}
Saved(f) == IF f.raw THEN [store EXCEPT ![f.of] = f] ELSE store

Changing == {"setting", "encrypt", "factory", "rsave", "restore"}
Commands == Changing \union {"show", "clear", "plain", "wake"}
Kinds == {"scan", "index", "read", "services", "write", "command", "clear_lcd",
          "load", "rescan", "reread"}
Calls == [kind : Kinds, mac : Macs \union {Nobody},
          what : {"none", "view", "history"} \union Commands \union Listings, live : BOOLEAN]
NoConfirm == [why |-> "none", mac |-> Nobody, what |-> "none"]

PanelTypeOK ==
  /\ attached \in BOOLEAN /\ bulk \in BOOLEAN /\ locked \in BOOLEAN /\ expanded \in BOOLEAN
  /\ listed \subseteq Macs /\ selected \in Macs \union {Nobody}
  /\ top \in [busy : BOOLEAN, scan : BOOLEAN, connect : BOOLEAN, cancel : BOOLEAN]
  /\ dialog \in Screens
  /\ confirm \in [why : {"none", "weak", "dot", "lcd", "command"}, mac : Macs \union {Nobody},
                  what : {"none", "view", "history"} \union Commands]
  /\ loaded \in Fields
  /\ lcd \in Macs \union {Nobody}
  /\ inflight \subseteq Macs
  /\ calls \in Seq(Calls) /\ Len(calls) <= MaxCalls
  /\ saves \in Seq([mac : Macs, fields : Fields])
  /\ device \in [Macs -> [version : 0..MaxVersion, lcd : BOOLEAN]]
  /\ store \in [Macs -> Fields]
  /\ acked \in [Macs -> [version : 0..MaxVersion, lost : BOOLEAN]]
  /\ unheard \subseteq Macs /\ mixed \in BOOLEAN
  /\ budget \in [calls : 0..MaxMade, moves : 0..MaxMoves, jobs : 0..MaxJobs]

-----------------------------------------------------------------------------
(* The toolbar. *)

(* _readDisabled: Connect is for a selected device that is not being read. *)
Connectable(m, flying) == m # Nobody /\ m \notin flying

BeginOp(cancel) == [busy |-> TRUE, scan |-> FALSE, connect |-> FALSE, cancel |-> cancel]
EndOp(flying) == [busy |-> FALSE, scan |-> TRUE,
                  connect |-> Connectable(selected, flying), cancel |-> FALSE]

Call(kind, m, what) == [kind |-> kind, mac |-> m, what |-> what, live |-> TRUE]
NothingStaled == calls
Staled == [i \in DOMAIN calls |-> [calls[i] EXCEPT !.live = FALSE]]

(* A call that takes a token, whose answer makes every earlier one stale, *)
(* and a call whose answer nothing is compared with.                      *)
Made == /\ Len(calls) < MaxCalls /\ budget.calls > 0
        /\ budget' = [budget EXCEPT !.calls = @ - 1]
Issue(c) == Made /\ calls' = Append(Staled, c)
Send(c) == Made /\ calls' = Append(calls, c)

Free == attached /\ confirm = NoConfirm
OnPage == Free /\ dialog = NoDialog
In(body) == Free /\ dialog.body = body /\ ~locked
Open == dialog # NoDialog

(* A page just loaded: its first scan is under way. *)
Init ==
  /\ attached = TRUE /\ listed = {} /\ selected = Nobody
  /\ top = BeginOp(TRUE) /\ bulk = FALSE
  /\ dialog = NoDialog /\ locked = FALSE /\ expanded = FALSE /\ confirm = NoConfirm
  /\ loaded = NoFields /\ lcd = Nobody /\ inflight = {}
  /\ calls = <<Call("scan", Nobody, "none")>> /\ saves = <<>>
  /\ device = [m \in Macs |-> [version |-> 0, lcd |-> FALSE]]
  /\ store = [m \in Macs |-> NoFields]
  /\ acked = [m \in Macs |-> [version |-> 0, lost |-> FALSE]] /\ unheard = {} /\ mixed = FALSE
  /\ budget = [calls |-> MaxMade, moves |-> MaxMoves, jobs |-> MaxJobs]

Scan ==
  /\ OnPage /\ top.scan /\ ~top.busy
  /\ Issue(Call("scan", Nobody, "none"))
  /\ top' = BeginOp(TRUE)
  /\ loaded' = NoFields
  /\ UNCHANGED <<attached, table, bulk, screen, confirm, lcd, inflight, saves, outside, history>>

(* _select: a row is clicked; while a scan or a read runs it is ignored. *)
Select(m) ==
  /\ OnPage /\ ~top.busy /\ m \in listed
  /\ selected' = m
  /\ top' = [top EXCEPT !.connect = Connectable(m, inflight)]
  /\ UNCHANGED <<page, listed, bulk, screen, confirm, loaded, lcd, inflight, calls, saves,
                 outside, history>>

Cancel ==
  /\ OnPage /\ top.cancel
  /\ calls' = Staled
  /\ top' = EndOp(inflight)
  /\ UNCHANGED <<page, table, bulk, screen, confirm, loaded, lcd, inflight, saves, outside,
                 history>>

(* The page may be left, or a bulk job begin, once more. *)
TurnLeft ==
  (MaxMoves - budget.moves) + (MaxJobs - budget.jobs) + (IF bulk THEN 1 ELSE 0) < MaxTurns

(* A poll of the bulk job is answered, of a job begun from the page: Connect *)
(* follows it, and the end of the job brings up its result in place of       *)
(* whatever dialog is open.                                                  *)
Poll(active) ==
  /\ attached /\ IF bulk THEN TRUE ELSE active /\ OnPage /\ budget.jobs > 0 /\ TurnLeft
  /\ bulk' = active
  /\ top' = [top EXCEPT !.connect = ~active /\ Connectable(selected, inflight)]
  /\ IF bulk /\ ~active
     THEN /\ dialog' = Shown("results", Nobody) /\ locked' = FALSE
          /\ budget' = [budget EXCEPT !.jobs = @ - 1]
          /\ UNCHANGED <<attached, expanded>>
     ELSE UNCHANGED <<page, screen>>
  /\ UNCHANGED <<table, confirm, loaded, lcd, inflight, calls, saves, outside, history>>

(* disconnectedCallback, and the element attached again. *)
Leave ==
  /\ attached /\ budget.moves > 0 /\ TurnLeft
  /\ attached' = FALSE /\ budget' = [budget EXCEPT !.moves = @ - 1]
  /\ calls' = Staled
  /\ top' = [top EXCEPT !.busy = FALSE]
  /\ UNCHANGED <<table, bulk, screen, confirm, loaded, lcd, inflight, saves, outside, history>>

Return ==
  /\ ~attached /\ attached' = TRUE
  /\ UNCHANGED <<budget, table, top, bulk, screen, confirm, loaded, lcd, inflight, calls,
                 saves, outside, history>>

-----------------------------------------------------------------------------
(* The read behind Connect. *)

ReadGuardAnyDevice == ~top.busy /\ ~bulk /\ selected # Nobody
ReadGuard == ~top.busy /\ ~bulk /\ selected \notin inflight \union {Nobody}

BeginRead(m, then) ==
  /\ Issue(Call("read", m, then))
  /\ dialog' = Shown("loading", m) /\ locked' = FALSE
  /\ top' = BeginOp(FALSE)
  /\ inflight' = inflight \union {m}
  /\ UNCHANGED <<attached, table, bulk, expanded, loaded, lcd, saves, outside, history>>

Ask(why, m, what) ==
  /\ confirm' = [why |-> why, mac |-> m, what |-> what]
  /\ UNCHANGED <<page, table, top, bulk, screen, loaded, lcd, inflight, calls, saves, outside,
                 history>>

(* _readSelected: a weak signal asks first, and what was checked before *)
(* the question is not checked again after it.                          *)
StartRead(then) ==
  /\ ReadGuard
  /\ IF selected \in Weak THEN Ask("weak", selected, then)
     ELSE confirm' = NoConfirm /\ BeginRead(selected, then)

(* The button, or a double click on a row. *)
Connect == OnPage /\ (top.connect \/ selected \in listed) /\ StartRead("view")

(* Retry reads the device that is selected. *)
Retry == In("error") /\ StartRead("view")

(* A device without snapshots: the dot selects it, unless something runs, *)
(* and asks; whatever is selected then is read.                           *)
Dot(m) ==
  /\ OnPage /\ m \in listed /\ store[m] = NoFields
  /\ confirm' = [why |-> "dot", mac |-> m, what |-> "history"]
  /\ IF top.busy THEN UNCHANGED <<selected, top>>
     ELSE /\ selected' = m
          /\ top' = [top EXCEPT !.connect = Connectable(m, inflight)]
  /\ UNCHANGED <<page, listed, bulk, screen, loaded, lcd, inflight, calls, saves, outside,
                 history>>

AcceptRead ==
  /\ attached
  /\ \/ confirm.why = "weak" /\ confirm' = NoConfirm /\ BeginRead(confirm.mac, confirm.what)
     \/ confirm.why = "dot" /\ StartRead("history")

(* No is said, or _readSelected refuses. *)
Decline ==
  /\ attached /\ confirm.why \in {"weak", "dot", "command"}
  /\ confirm' = NoConfirm
  /\ UNCHANGED <<page, table, top, bulk, screen, loaded, lcd, inflight, calls, saves, outside,
                 history>>

-----------------------------------------------------------------------------
(* Answers.  Home Assistant answers in order what it has to connect for. *)

Connects(c, m) == c.mac = m /\ m # Nobody /\ c.kind # "load"
Answerable(i) == ~\E j \in 1..(i - 1) : Connects(calls[i], calls[i].mac) /\ Connects(calls[j], calls[i].mac)
Answering(i, kind) == calls[i].kind = kind /\ Answerable(i) /\ calls' = RemoveAt(calls, i)

Body(body) == dialog' = [dialog EXCEPT !.body = body] /\ locked' = FALSE
View(m) == dialog' = Shown("view", m) /\ locked' = FALSE
SameScreen == UNCHANGED <<dialog, locked>>

(* The device takes a change, within the bound. *)
GrownTwice(m) == [device EXCEPT ![m].version = @ + 2]
Grown(m) == [device EXCEPT ![m].version = @ + 1]

Grows(m) == device[m].version < MaxVersion /\ device' = Grown(m)

(* _autoBackup: the fields the panel holds are sent to be saved, if they *)
(* have what a snapshot needs.                                           *)
Sends(m, fields) ==
  /\ saves' = IF fields.raw THEN Append(saves, [mac |-> m, fields |-> fields]) ELSE saves
  /\ acked' = [acked EXCEPT ![m] = [version |-> device'[m].version, lost |-> ~fields.raw]]
AutoBackupBefore(m) == Sends(m, loaded)
AutoBackup(m) == Sends(m, loaded')

ScanAnswered(i) ==
  /\ Answering(i, "scan") /\ ~calls[i].live
  /\ UNCHANGED <<page, table, top, bulk, screen, confirm, loaded, lcd, inflight, saves, outside,
                 history>>

ScanFailed(i) ==
  /\ Answering(i, "scan") /\ calls[i].live
  /\ top' = EndOp(inflight)
  /\ UNCHANGED <<page, table, bulk, screen, confirm, loaded, lcd, inflight, saves, outside,
                 history>>

(* The list, with the selection if it is still there or else the first row; *)
(* the number of snapshots is asked for within the same operation.          *)
ScanShown(i, found) ==
  /\ calls[i].kind = "scan" /\ calls[i].live
  /\ calls' = [calls EXCEPT ![i].kind = "index"]
  /\ listed' = found
  /\ selected' \in IF selected \in found THEN {selected}
                   ELSE IF found = {} THEN {Nobody} ELSE found
  /\ UNCHANGED <<page, top, bulk, screen, confirm, loaded, lcd, inflight, saves, outside, history>>

IndexAnswered(i) ==
  /\ Answering(i, "index")
  /\ top' = IF calls[i].live THEN EndOp(inflight) ELSE top
  /\ UNCHANGED <<page, table, bulk, screen, confirm, loaded, lcd, inflight, saves, outside,
                 history>>

(* Connect to the device again only when its read is really over. *)
ReleaseWanted(c) == inflight' = IF c.live THEN inflight \ {c.mac} ELSE inflight
Release(c) == inflight' = inflight \ {c.mac}

(* A read that went well is saved by the backend, wanted or not; one that is *)
(* no longer wanted only lets go of the device.                              *)
ReadAnswered(i, ok) ==
  LET c == calls[i] IN
  /\ Answering(i, "read") /\ (c.live /\ ok => c.what = "view")
  /\ Release(c)
  /\ \E f \in Reads(c.mac) :
       /\ store' = IF ok THEN Saved(f) ELSE store
       /\ loaded' = IF c.live /\ ok THEN f ELSE loaded
  /\ IF c.live
     THEN /\ top' = EndOp(inflight')
          /\ IF ok THEN View(c.mac)
             ELSE dialog' = [dialog EXCEPT !.body = "error", !.mac = c.mac] /\ locked' = FALSE
     ELSE top' = [top EXCEPT !.connect = Connectable(selected, inflight')] /\ SameScreen
  /\ UNCHANGED <<page, table, bulk, expanded, confirm, lcd, saves, device, history>>

(* From a dot: the read ends in the history of the device. *)
ReadThenHistory(i) ==
  LET c == calls[i] IN
  /\ c.kind = "read" /\ c.live /\ c.what = "history" /\ Answerable(i)
  /\ calls' = [calls EXCEPT ![i].kind = "load", ![i].what = "snapshots"]
  /\ Release(c)
  /\ \E f \in Reads(c.mac) : store' = Saved(f) /\ loaded' = f
  /\ top' = EndOp(inflight')
  /\ dialog' = Shown("waiting", Nobody) /\ locked' = FALSE /\ expanded' = FALSE
  /\ UNCHANGED <<page, table, bulk, confirm, lcd, saves, device, history>>

-----------------------------------------------------------------------------
(* The screens of a device. *)

Repeater == loaded.of \in Repeaters

(* From a view, or from a failed read; nothing is compared with the answer, *)
(* which is drawn in whatever dialog is open by then.                       *)
ShowServices ==
  /\ \/ In("error")
     \/ In("view") /\ Repeater
  /\ Send(Call("services", dialog.mac, "none"))
  /\ UNCHANGED <<attached, table, top, bulk, screen, confirm, loaded, lcd, inflight, saves, outside,
                 history>>

ServicesAnswered(i, ok) ==
  /\ Answering(i, "services")
  /\ IF ok /\ Open
     THEN dialog' = [dialog EXCEPT !.body = "services", !.mac = calls[i].mac] /\ locked' = FALSE
     ELSE SameScreen
  /\ mixed' = (mixed \/ (ok /\ Open /\ dialog.title # calls[i].mac))
  /\ UNCHANGED <<page, table, top, bulk, expanded, confirm, loaded, lcd, inflight, saves, outside,
                 acked, unheard>>

(* Back shows _loaded as the device whose services were shown. *)
Back ==
  /\ In("services") /\ loaded # NoFields
  /\ View(dialog.mac)
  /\ mixed' = (mixed \/ loaded.of # dialog.mac)
  /\ UNCHANGED <<page, table, top, bulk, expanded, confirm, loaded, lcd, inflight, calls, saves,
                 outside, acked, unheard>>

Turn(from, to) ==
  /\ In(from) /\ Body(to)
  /\ UNCHANGED <<page, table, top, bulk, expanded, confirm, loaded, lcd, inflight, calls, saves,
                 outside, history>>
Edit == Turn("view", "edit")
CancelEdit == Turn("edit", "view")
OpenCommands == ~Repeater /\ Turn("view", "commands")

(* _save: the buttons are disabled until the answer. *)
Save ==
  /\ In("edit") /\ ~Repeater
  /\ Issue(Call("write", dialog.mac, "none"))
  /\ locked' = TRUE
  /\ UNCHANGED <<attached, table, top, bulk, dialog, expanded, confirm, loaded, lcd, inflight, saves,
                 outside, history>>

(* Written and verified; the snapshot follows only in an answer still wanted. *)
WriteAnswered(i) ==
  LET c == calls[i] IN
  /\ Answering(i, "write") /\ Grows(c.mac)
  /\ IF c.live
     THEN /\ loaded' = [loaded EXCEPT !.version = device'[c.mac].version]
          /\ View(c.mac) /\ AutoBackup(c.mac)
     ELSE UNCHANGED <<loaded, dialog, locked, saves, acked>>
  /\ UNCHANGED <<page, table, top, bulk, expanded, confirm, lcd, inflight, store, unheard, mixed>>

(* It failed, though the device may have taken it, or nothing was to change, *)
(* as also an attempt says that finds what an earlier one wrote.             *)
WriteFailed(i, unchanged) ==
  LET c == calls[i] IN
  /\ Answering(i, "write")
  /\ Grows(c.mac) \/ UNCHANGED device
  /\ IF c.live /\ unchanged THEN View(c.mac)
     ELSE locked' = (locked /\ ~c.live) /\ UNCHANGED dialog
  /\ UNCHANGED <<page, table, top, bulk, expanded, confirm, loaded, lcd, inflight, saves, store,
                 history>>

-----------------------------------------------------------------------------
(* The commands: of a thermometer, of a repeater, and restore and clone.  *)

Offered(c, m) ==
  \/ /\ In("commands") /\ m = dialog.mac
     /\ c \in {"setting", "plain", "show", "clear", "encrypt", "factory"}
  \/ In("view") /\ Repeater /\ m = dialog.mac /\ c = "wake"
  \/ In("edit") /\ Repeater /\ m = dialog.mac /\ c \in {"rsave", "wake", "plain"}
  \/ /\ In("snapshots") /\ expanded /\ c = "restore"
     /\ m \in listed \union {n \in Macs : store[n] # NoFields}
Asking == {"encrypt", "factory", "restore", "plain", "setting", "rsave"}  \* always the first three
Confirmed == {"encrypt", "factory", "restore"}

(* _runCmd *)
BeginCommand(m, c) ==
  /\ Issue(Call("command", m, c))
  /\ locked' = TRUE
  /\ UNCHANGED <<attached, table, top, bulk, dialog, expanded, loaded, lcd, inflight, saves, outside,
                 history>>

Command(m, c) ==
  /\ c \in Used /\ Offered(c, m)
  /\ \/ c \in Asking /\ Ask("command", m, c)
     \/ c \notin Confirmed /\ BeginCommand(m, c) /\ UNCHANGED confirm

AcceptCommand ==
  /\ attached /\ confirm.why = "command" /\ confirm' = NoConfirm
  /\ BeginCommand(confirm.mac, confirm.what)

Ends(i, what) == calls[i].what \in what /\ Answering(i, "command")
Unlock(i) == locked' = (locked /\ ~calls[i].live) /\ UNCHANGED dialog

(* A setting taken: merged into what was loaded, and saved.  A factory reset *)
(* is merged as well, and not saved.  The backend saves what it encrypted.   *)
SettingTaken(i) ==
  LET c == calls[i] IN
  /\ Ends(i, {"setting", "factory", "encrypt"}) /\ Grows(c.mac)
  /\ loaded' = IF c.live THEN [loaded EXCEPT !.version = device'[c.mac].version] ELSE loaded
  /\ store' = IF c.what = "encrypt"
              THEN [store EXCEPT ![c.mac] =
                      [of |-> c.mac, version |-> device'[c.mac].version, raw |-> TRUE]]
              ELSE store
  /\ IF c.live /\ c.what = "setting" THEN AutoBackup(c.mac) ELSE UNCHANGED <<saves, acked>>
  /\ Unlock(i)
  /\ UNCHANGED <<page, table, top, bulk, expanded, confirm, lcd, inflight, unheard, mixed>>

(* A repeater answers with the fields it was read to have after the write, *)
(* also when only part was written, and whatever of them could be read;    *)
(* waking it, or setting its clock, changes no setting.                    *)
RepeaterAnswered(i, ok) ==
  LET c == calls[i] IN
  /\ Ends(i, {"rsave", "wake"})
  /\ IF c.what = "rsave" THEN Grows(c.mac) ELSE UNCHANGED device
  /\ IF c.live
     THEN /\ \E raw \in Raws(c.mac) :
               loaded' = [of |-> c.mac, version |-> device'[c.mac].version, raw |-> raw]
          /\ View(c.mac)
     ELSE SameScreen /\ UNCHANGED loaded
  /\ IF c.live /\ ok /\ c.what = "rsave" THEN AutoBackup(c.mac) ELSE UNCHANGED <<saves, acked>>
  /\ UNCHANGED <<page, table, top, bulk, expanded, confirm, lcd, inflight, store, unheard, mixed>>

(* An overlay that stays is put on, or taken off, by a write without response: *)
(* it may take effect though every attempt fails, or have none though one went *)
(* well.  on: it is there afterwards; heard: what the panel is told of it.     *)
Overlay(m, on, heard) ==
  /\ device' = [device EXCEPT ![m].lcd = on]
  /\ unheard' = IF ~on \/ heard = "on" THEN unheard \ {m}
                ELSE IF heard = "off" \/ ~device[m].lcd THEN unheard \union {m} ELSE unheard

(* Answered as done: the panel remembers one device. *)
LcdDone(i, remembered) ==
  LET c == calls[i]
      shown == c.what = "show"
      heard == IF ~c.live THEN "nothing" ELSE IF shown THEN "on" ELSE "off" IN
  /\ Ends(i, {"show", "clear"})
  /\ \E taken \in BOOLEAN : Overlay(c.mac, IF taken THEN shown ELSE device[c.mac].lcd, heard)
  /\ lcd' = IF ~c.live THEN lcd ELSE IF shown THEN remembered ELSE Nobody
  /\ Unlock(i)
  /\ UNCHANGED <<page, table, top, bulk, expanded, confirm, loaded, inflight, saves, store, acked,
                 mixed>>
LcdForgotten(i) == LcdDone(i, lcd)
LcdAnswered(i) == LcdDone(i, calls[i].mac)

(* Restored or cloned: the device is read again, and the backend saves that. *)
Restored(i) ==
  LET c == calls[i] IN
  /\ c.kind = "command" /\ c.what = "restore" /\ Answerable(i) /\ Grows(c.mac)
  /\ calls' = IF c.live THEN Append(RemoveAt(calls, i), Call("reread", c.mac, "none"))
              ELSE RemoveAt(calls, i)
  /\ Unlock(i)
  /\ UNCHANGED <<page, table, top, bulk, expanded, confirm, loaded, lcd, inflight, saves, store,
                 history>>

(* The history is drawn again, where it still is. *)
RereadAnswered(i, ok) ==
  LET m == calls[i].mac IN
  /\ Answering(i, "reread")
  /\ \E f \in Reads(m) : store' = IF ok THEN Saved(f) ELSE store
  /\ expanded' = TRUE
  /\ UNCHANGED <<page, table, top, bulk, dialog, locked, confirm, loaded, lcd, inflight, saves,
                 device, history>>

(* Any other command, and every failure: what failed may have been taken. *)
CommandEnds(i) ==
  LET c == calls[i] IN
  /\ Ends(i, Commands)
  /\ \/ c.what \in Changing /\ Grows(c.mac) /\ UNCHANGED unheard
     \/ c.what \in {"show", "clear"} /\ Overlay(c.mac, c.what = "show", "nothing")
     \/ UNCHANGED <<device, unheard>>
  /\ Unlock(i)
  /\ UNCHANGED <<page, table, top, bulk, expanded, confirm, loaded, lcd, inflight, saves, store,
                 acked, mixed>>

-----------------------------------------------------------------------------
(* Closing. *)

CloseNowBusy ==
  /\ dialog' = NoDialog /\ locked' = FALSE
  /\ top' = top
CloseNow ==
  /\ dialog' = NoDialog /\ locked' = FALSE
  /\ top' = EndOp(inflight)

(* _closeModal: the x, a Close or Cancel button, or a click beside the dialog; *)
(* with an overlay left on a device it asks first.                             *)
Close ==
  /\ Free /\ Open
  /\ IF lcd = Nobody
     THEN CloseNow /\ calls' = Staled /\ UNCHANGED confirm
     ELSE /\ confirm' = [why |-> "lcd", mac |-> lcd, what |-> "none"]
          /\ UNCHANGED <<calls, dialog, locked, top>>
  /\ UNCHANGED <<page, table, bulk, expanded, loaded, lcd, inflight, saves, outside, history>>

AnswerLcd(clear) ==
  /\ attached /\ confirm.why = "lcd" /\ confirm' = NoConfirm
  /\ CloseNow
  /\ lcd' = Nobody
  /\ IF clear THEN Issue(Call("clear_lcd", confirm.mac, "none")) /\ UNCHANGED unheard
     ELSE calls' = Staled /\ unheard' = unheard \union {confirm.mac} /\ UNCHANGED budget
  /\ UNCHANGED <<attached, table, bulk, expanded, loaded, inflight, saves, outside, acked, mixed>>

(* It is said to be cleared whatever the command answers. *)
LcdCleared(i, taken) ==
  LET m == calls[i].mac IN
  /\ Answering(i, "clear_lcd")
  /\ Overlay(m, device[m].lcd /\ ~taken, "off")
  /\ UNCHANGED <<page, table, top, bulk, screen, confirm, loaded, lcd, inflight, saves, store,
                 acked, mixed>>

-----------------------------------------------------------------------------
(* The list dialogs.  What they load is drawn in whatever dialog is open.  *)

(* m: the device whose history opens with the list. *)
OpenList(l, m) ==
  /\ OnPage /\ (m # Nobody => l = "snapshots" /\ m \in listed /\ store[m] # NoFields)
  /\ Send(Call("load", m, l))
  /\ dialog' = Shown("waiting", Nobody) /\ locked' = FALSE
  /\ expanded' = (l # "snapshots" /\ expanded)
  /\ UNCHANGED <<attached, table, top, bulk, confirm, loaded, lcd, inflight, saves, outside, history>>

LoadAnswered(i, ok) ==
  LET c == calls[i] IN
  /\ Answering(i, "load")
  /\ IF Open /\ (ok \/ c.what # "coverage") THEN Body(c.what) ELSE SameScreen
  /\ expanded' = CASE c.what = "snapshots" -> expanded \/ (Open /\ c.mac # Nobody)
                   [] c.what = "compare" -> FALSE
                   [] OTHER -> expanded
  /\ \/ UNCHANGED listed
     \/ c.what = "compare" /\ listed = {} /\ listed' \in SUBSET Macs
  /\ UNCHANGED <<page, selected, top, bulk, confirm, loaded, lcd, inflight, saves, outside, history>>

Toggle ==
  /\ In("snapshots") /\ (expanded \/ \E m \in Macs : store[m] # NoFields)
  /\ expanded' = ~expanded
  /\ UNCHANGED <<page, table, top, bulk, dialog, locked, confirm, loaded, lcd, inflight, calls,
                 saves, outside, history>>

(* _compareRescan: one at a time for a device. *)
Rescan(m) ==
  /\ In("compare") /\ ~expanded
  /\ ~\E i \in DOMAIN calls : calls[i].kind = "rescan" /\ calls[i].mac = m
  /\ Send(Call("rescan", m, "none"))
  /\ UNCHANGED <<attached, table, top, bulk, screen, confirm, loaded, lcd, inflight, saves, outside,
                 history>>

(* The comparison is drawn again, in whatever dialog is open. *)
RescanAnswered(i, ok) ==
  LET m == calls[i].mac IN
  /\ Answering(i, "rescan")
  /\ \E f \in Reads(m) : store' = IF ok THEN Saved(f) ELSE store
  /\ IF Open /\ ~expanded THEN Body("compare") ELSE SameScreen
  /\ UNCHANGED <<page, table, top, bulk, expanded, confirm, loaded, lcd, inflight, saves, device,
                 history>>

(* A save that fails is not heard of, and not repeated. *)
SaveAnswered(kept) ==
  LET m == Head(saves).mac
      fields == Head(saves).fields IN
  /\ saves # <<>>
  /\ saves' = Tail(saves)
  /\ IF kept THEN store' = [store EXCEPT ![m] = fields] /\ UNCHANGED acked
     ELSE /\ acked' = [acked EXCEPT ![m].lost = @ \/ fields.version >= acked[m].version]
          /\ UNCHANGED store
  /\ UNCHANGED <<page, table, top, bulk, screen, confirm, loaded, lcd, inflight, calls, device,
                 unheard, mixed>>

-----------------------------------------------------------------------------
User ==
  \/ Scan \/ Cancel \/ Leave \/ Return
  \/ Connect \/ Retry \/ AcceptRead \/ Decline
  \/ ShowServices \/ Back \/ Edit \/ CancelEdit \/ OpenCommands \/ Save
  \/ AcceptCommand \/ Close \/ Toggle
  \/ \E m \in Macs : Select(m) \/ Dot(m) \/ Rescan(m) \/ \E c \in Used : Command(m, c)
  \/ \E clear \in BOOLEAN : AnswerLcd(clear)
  \/ \E l \in Lists, m \in Macs \union {Nobody} : OpenList(l, m)

Answer(i) ==
  \/ ScanAnswered(i) \/ ScanFailed(i) \/ IndexAnswered(i) \/ ReadThenHistory(i)
  \/ WriteAnswered(i) \/ SettingTaken(i) \/ LcdAnswered(i) \/ Restored(i) \/ CommandEnds(i)
  \/ \E found \in SUBSET Macs : ScanShown(i, found)
  \/ \E ok \in BOOLEAN :
       \/ ReadAnswered(i, ok) \/ ServicesAnswered(i, ok) \/ WriteFailed(i, ok)
       \/ RepeaterAnswered(i, ok) \/ LcdCleared(i, ok) \/ LoadAnswered(i, ok)
       \/ RescanAnswered(i, ok) \/ RereadAnswered(i, ok)

Next ==
  \/ User
  \/ \E i \in DOMAIN calls : Answer(i)
  \/ \E kept \in BOOLEAN : SaveAnswered(kept)
  \/ \E active \in BOOLEAN : Poll(active)

(* Home Assistant answers what it has to connect for: its timeouts see to it. *)
Fairness == \A m \in Macs : WF_vars(\E i \in DOMAIN calls : Connects(calls[i], m) /\ Answer(i))

Spec == Init /\ [][Next]_vars /\ Fairness

-----------------------------------------------------------------------------
Pending(kinds) == \E i \in DOMAIN calls : calls[i].live /\ calls[i].kind \in kinds

(* The panel comes back from whatever runs: a toolbar that is disabled has an *)
(* operation behind it, a dialog over it or a Cancel button, and the buttons  *)
(* of a dialog are disabled while an answer is wanted, on a page never left.  *)
NeverStuck ==
  /\ attached /\ ~top.scan => Pending({"scan", "index", "read"}) \/ Open \/ top.cancel
  /\ attached /\ locked /\ budget.moves = MaxMoves => Pending({"write", "command"})

(* A device is read for Connect once at a time: two links at once can wedge it. *)
OneConnect ==
  \A i, j \in DOMAIN calls :
    calls[i].kind = "read" /\ calls[j].kind = "read" /\ calls[i].mac = calls[j].mac => i = j

(* What is shown and edited as a device's settings, and what is saved as its *)
(* snapshot, was read from it, unless two devices met by way of services.    *)
OwnFields ==
  ~mixed =>
    /\ dialog.body \in {"view", "edit", "commands"} => loaded.of = dialog.mac
    /\ \A i \in DOMAIN saves : saves[i].fields.of = saves[i].mac
    /\ \A m \in Macs : store[m].of \in {m, Nobody}

(* A change the panel reported as done is in the snapshots, or on its way to *)
(* them, unless the fields that came with it lack what a snapshot needs, or   *)
(* its own save failed, of which nobody hears.                                *)
AnsweredKept ==
  ~mixed => \A m \in Macs :
    ~acked[m].lost /\ acked[m].version > store[m].version =>
      \E i \in DOMAIN saves : saves[i].mac = m /\ saves[i].fields.version >= acked[m].version

(* An overlay that stays on a device is asked about when a dialog closes, or  *)
(* about to be taken off, unless the panel was told to leave it, or was never *)
(* told that it is there: the command answered too late, failed and took      *)
(* effect all the same, or said it was off without an effect.                 *)
LcdRemembered ==
  ~mixed => \A m \in Macs : device[m].lcd =>
    lcd = m \/ m \in unheard \/ \E i \in DOMAIN calls : calls[i].kind = "clear_lcd" /\ calls[i].mac = m

(* The dialog of one device never turns into the settings of another, which *)
(* a late answer would make it: closing, cancelling and leaving take a token. *)
DialogKeepsDevice ==
  [][~mixed /\ dialog.title \in Macs /\ dialog'.body = "view" => dialog'.mac = dialog.title]_vars

(* What is shown and edited is what was last read of that device: _loaded is *)
(* "last read fields (baseline for diff)".                                   *)
RightDevice == dialog.body \in {"view", "edit", "commands"} => loaded.of = dialog.mac

(* A device is connectable again after its read, cancelled or not. *)
Released == \A m \in Macs : m \in inflight ~> m \notin inflight
=============================================================================
