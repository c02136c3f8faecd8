# Telink Manager: TLA+ specifications and proofs

Telink Manager is a Home Assistant integration that reads and changes the
settings of Telink thermometers (PVVX firmware) and of their repeaters (BLETHR
firmware) over Bluetooth proxies. It is one asyncio program, a panel in the
browser, and devices that answer when they like. What is hard about it is not
in any one function: requests for one device contend for its only link, an
operation that changes a device and then Home Assistant can stop between the
two, a snapshot is saved while others are, and all of it may be cut off by a
time limit or a restart.

The specifications here follow the code step by step where that matters and
abstract the data to what the properties tell apart. An asyncio task runs until
its next `await`, so **one step of a specification is the code between two
awaits**. Paths below are relative to `src/custom_components/telink_manager/`.

## Inventory

| Component | State it keeps | Operations | Interacts by | Hard about it | What makes it correct |
|---|---|---|---|---|---|
| GATT access path (`gatt.py`) | one `asyncio.Lock` per device; per attempt: client, `rediscover`, `reached`, retries left | `async_read`, `_with_client`, `_with_blethr_client`, `_safe_disconnect`, `_unreachable` | every operation on a device goes through it; the bulk job puts a time limit around it | contention, retries, stale GATT tables, disconnects that fail, cancellation | one link at a time; no link without the lock; order of the queue; advice that fits the last attempt; everybody is answered |
| Encryption change (`gatt.async_set_encryption`, `encryption.py`) | the device's flag and key; the BTHome entry's key; the key its coordinator has loaded | key, flag, read-back, `async_sync_bthome` | device under the lock, Home Assistant's config entries outside it; snapshot and bulk job get the result | failures after the first write; overlapping calls; restart between device and Home Assistant | Home Assistant moves only with the device; no key is lost; a disagreement is reported unless a restart or a refused reload made it; running again repairs it |
| Snapshot store (`backups.py`), name cache | dicts in `hass.data`, two Store files | `async_save`, `async_delete`, `async_remember_ble_name`, `history`, `compare` | called by the WebSocket handlers, the bulk job and setup | writes that overlap; a crash between dict and file; reload of the entry; results saved late | what was answered survives; what was deleted stays deleted; files follow the dicts; the last snapshot is the latest state |
| Integration setup (`__init__.py`) | friend names, name cache, "registered" flags | set up, seed names, unload | replaces the dicts of the store while tasks run | reload under way; seeding a cleared name | a cleared name stays cleared |
| Bulk job (`bulk.py`) | one job record: counters, running set, failures, manual keys | start, status, cancel, dismiss, workers per proxy | calls `async_read` and `async_set_encryption`, saves snapshots | workers share one record; cancel; a start or a dismiss that is late | counters add up; one job works at a time; a job ends; its result leaves nothing out and is seen |
| Restore and clone (`gatt.async_restore`) | safety snapshot, fields before | read, write, verify, each part optional | `_with_client`, snapshot store | partial writes, and the retry after them | the safety snapshot is the state before; encryption is never flipped |
| Settings writes (`gatt.py`) | none of their own | `async_write`, name, comfort, time, sensor, MAC, key, reset, reboot | `_with_client` | read-modify-write, verification | what is reported as verified is on the device |
| Repeater protocol (`blethr.py`) | notification queue of a session; recording gaps | `async_read_fields`, `async_apply`, `build_cfg`, `parse_cfg` | `_with_blethr_client` | late and lost notifications | a reply is matched with its command |
| Codecs (`pvvx_struct.py`, `adv.py`) | none; remembered sources per device | parse, build, with_adv_crypto; staleness, relaying, diagnosis | called everywhere | widths, signed fields, firmware variants | build and parse are inverse; unknown bits are kept |
| Scan and coverage (`gatt.py`) | last source per device | `async_scan`, `async_coverage`, `async_proxies` | reads the Bluetooth integration | caches of other integrations | a device is listed once, under its best proxy |
| WebSocket API (`websocket_api.py`) | none | one handler per command | glues the above and the snapshot store | what follows the answer, and what precedes it | every change is snapshotted |
| Panel, calls and dialogs (`www/telink-manager-panel.js`) | operation token `_op`, `_busy`, `_inflightMacs`, `_loaded`, `_lcdPermanentMac`, the open dialog and its disabled buttons, a waiting confirmation | scan, Connect, edit, commands, services, restore, snapshots, compare, close, cancel, leave | WebSocket calls; answers come back to whatever is on screen by then | answers after the dialog was closed, the page left or another operation begun; buttons that each path must enable again | no answer shows or saves one device as another; what was reported as done is snapshotted; the panel comes back from whatever runs |
| Panel, edit screens | the fields; what the form filled in itself | typing, lookups, Save | reads snapshots for a repeater's source, sends changes | seconds and milliseconds against steps, fields that follow one another, a lookup answered while the user types | what is shown is what is written; a typed key stays; a source gets its own key |
| Panel, bulk job | polling timer, last status, result shown | start, poll, cancel, dismiss | WebSocket commands | several panels and several polls under way | progress is followed while it shows; a result is seen |
| Config flow, constants | none | confirm | - | - | - |

`PROJECT.json` has the same list with the state of each part, and the hazards,
each at its line with the properties that cover it.

## Modules

| Module | Models | Kind |
|---|---|---|
| `ExclusiveLink` | what the access path promises for one device | abstract specification |
| `DeviceLink` | lock, retry loops, disconnect, time limit for one device | specification |
| `DeviceLink_proofs` | | theorems about `DeviceLink`, and that it implements the safety of `ExclusiveLink` |
| `SetEncryption` | the encryption change and the BTHome sync for one device | specification |
| `SetEncryption_proofs` | | theorems about `SetEncryption` |
| `SnapshotStore` | snapshots and cached name of one device, their files, setup and reload | specification |
| `SnapshotStore_proofs` | | theorems about `SnapshotStore` |
| `BulkJob` | the job record, its workers, and the commands start, cancel, dismiss | specification |
| `BulkJob_proofs` | | theorems about `BulkJob` |
| `BulkPanel` | extends `BulkJob` by panels that start, follow and cancel the job over their connections | composition |
| `BulkPanel_proofs` | | theorems about `BulkPanel`: the panels run the job as `BulkJob` has it |
| `DevicePanel` | one panel element: toolbar, Connect, the dialogs of a device, list dialogs, automatic snapshots | specification |
| `DevicePanel_proofs` | | theorems about `DevicePanel` |
| `SettingsForm`, `RepeaterForm` | the edit screens of a thermometer, down to what the device stores, and of a repeater | specifications |
| `PanelForms` | which of the two is opened | composition |
| `PanelForms_proofs` | | theorems about both edit screens |
| `Restore` | one restore or clone: the retry loop, reading, writing part by part, the safety snapshot | specification |
| `Restore_proofs` | | theorems about `Restore` |
| `MCDeviceLink`, `MCSetEncryption`, `MCSnapshotStore`, `MCBulkPanel`, `MCDevicePanel`, `MCPanelForms`, `MCRestore` | | constants for TLC |

The components meet at two places: the device lock, and what is read from the
device. `DeviceLink` is the access path in full with the conversation reduced
to its outcome. `SetEncryption` is a conversation in full with the access path
reduced to "the lock is free or held, and an attempt may fail", which is what
`DeviceLink`'s properties justify: one talker (`LockDiscipline`,
`LinkUnderLock`), and everybody gets the lock (`EveryRequestAnswered`).
`Restore` is another conversation in full, which holds the lock from its first
attempt to its answer, so that nobody else changes the device meanwhile.
`SnapshotStore` starts where a conversation has returned, and so does `BulkJob`,
which knows what a device answered as an outcome. `DevicePanel` sees both from
the browser: a call and its outcome, answered in order for one device because of
the device lock. `BulkPanel` composes it with
the panels, its clients.

Definitions whose name contains a defect (`RequestBarges`,
`FinishReadsLast`...) and whose comment says *Mutant of* are not part of any
specification. Each is a plausible mistake in the code that makes one property
fail in the run that checks it, so that no property holds by the shape of the
model alone; `PROJECT.json` pairs them.

### DeviceLink

`pc` is where each request is: in the lock's queue (`waiting`), deciding about
the next attempt (`attempt`), in `establish_connection`, in the session, in
`_safe_disconnect` (`closing`), in the sleep between attempts. `left` is what
remains of `range(retries)`; `rediscover` and `reached` are the loop's
variables. `Kind` picks the loop: `async_read` for `"read"`, `_with_client` for
`"command"`, `_with_blethr_client` for `"repeater"`; they differ in which of
the two flags they set where. `ending` is how the session ended while
`finally` closes the link. `connected` is a history variable.

- The lock is asyncio's: taken at once when free and nobody waits, else first
  come first served; a cancelled waiter leaves the queue.
- A session ends with a result (a refusal counts as one), an exception, or,
  once per loop, a stale table; all three are possible whenever the code has
  the branch.
- `_safe_disconnect` is a sequence of up to `DisconnectTries` rounds. The link of
  a request survives at most `Stubborn` of them: the constant decides, for each
  request, whether the code's four rounds are enough. `Clean` are the requests
  for which they are, and which nothing cancels.
- `Cancel` is the expiry of the time limit in `bulk._read_one`, for the requests
  in `Capped`, at every await the read can be in. It raises `CancelledError`,
  which `except Exception` does not catch: in the session it still closes the
  link, in `_safe_disconnect` it abandons the closing.
- `LinkDrops` is the radio.

### SetEncryption

`flag` and `devKey` are the device; `entryKey` the entry's data; `loaded` what
the running coordinator decrypts with. `haSide` is what Home Assistant has for
the device: an entry, a disabled one, none, or a device that does not advertise
BTHome. A call goes through `connect` (the config is read), `pick_key`,
`send_key`, `send_flag`, `read_back`, `closing`, then without the lock through
`settle` (waiting for a plain advertisement) and `reload`. `touched` of the code
is `Touched`. The return value is `out`; `owed` says that the caller was told
to run the call again, and `told` collects the keys given to callers.

A restart forgets every running call, and nobody gets an answer. `cut` are the calls
that were half done when it came (`HalfDone`: the device may have changed, or does with
the next step, and the entry has not followed). A reload that answers False instead of
raising is not looked at by the code, which reports "updated" (encryption.py:92);
`unheeded` says that the last reload was one of these. So `NoSilentDisagreement` names
the three ways in which device and Home Assistant can be apart while nothing runs: a
caller was told, a restart cut a call off, a refused reload went unheeded; and no fourth.

A lost reply, a failed write, an exception, a failed reload and a restart each
cost one of `MaxFaults`. A write that failed may or may not have reached the
device. New keys are fresh (`NewKey`), so two random keys are never equal.

### SnapshotStore

For one device: `stores.backups` and `stores.names` are the two Stores, each
with the file, the dict and what async_save left to be written. Home
Assistant's `Store` is outside `src/`; it is modelled as this code relies on
it: `async_save` remembers the dict, waits for the Store's lock, and writes
what the dict holds *then*; the next in the queue finds nothing left and
returns. A reload of the integration makes new Stores and new dicts while tasks
hold the old ones, hence the generations. `budget` bounds crashes and reloads. While setup is `"starting"` no handler is registered.
`raced` is a history variable: whether a task was under way when a reload replaced the dicts.

The states of a device are its name and a version; two snapshots are the same
for `_state_sig` when both agree. The device changes by the modelled commands
only. `Read`, `Encrypt`, `Rename`, `Delete` are the
WebSocket handlers once the device has answered.

### BulkJob

`jobs[current]` is the record in `hass.data`; an older job is kept only while a
worker of it is still under way, which `OneJob` says never happens. A worker is
`new`, at a device (`device`), saving what it read (`store`) or `over`; it goes
from one await to the next in a step, so counting a device and turning to the
next one are one step (`TakeNext`, `Counted`). What `_read_one` and
`_encrypt_one` make of an answer is the outcome: `Outcomes` lists, for each
action, the branches of the code, and `Saved`, `Failing` and `ByHand` what each
branch does. Exceptions of a device's operation are caught there and are the
outcome `"failed"`, so the `gather` of `_run` does not end early. A restart
loses the job (it is only in `hass.data`) and is left out.

### BulkPanel

A panel is an element of the page: `here` (attached), `polling`
(`_bulkPollTimer`), `shown` (`_bulkResultShown`), `active` (the status it was
last told) and `dialog`. Requests and answers of one panel are two queues, as on
a WebSocket connection; between panels any order is possible. `Leave` and
`Return` are `disconnectedCallback` and `connectedCallback` of one element,
which still gets the answers it awaits; `Refresh` makes a new element and a new
connection. Who leaves, who reloads the page and whose connection is lost is given by
`Roaming`, `Reloading` and `Losing`. The timer is a `setInterval`, which does not wait
for an answer, and a user clicks when he likes: `MaxInFlight` bounds how many answers a
panel awaits when it asks for one more. Answers to cancel and dismiss, which nobody
reads, are left out.

History variables: `seen`, the jobs whose result was shown on a page the user was at;
`own`, the last job each panel was told it has started; `late`, whether a result was
shown while a start of the same panel was on its way.

### DevicePanel

`dialog` is the dialog that is open: the device in its title, what its body
shows (`view`, `edit`, `commands`, `services`, a list, `loading`...) and the device
the body's buttons act on, which are two things in the code as well, since
answers redraw the body without the title. `top` is the toolbar, `locked` whether
the buttons of the dialog are disabled, `confirm` the confirmation that is waiting
with what it will go on to. `calls` are the calls to Home Assistant under way.
`_op` is a counter that a call compares with its copy; here a call is `live` until
the counter moves on (`Staled`), so nothing has to be counted. Whether an answer
takes a token is kept as the code has it: services, the lists and a rescan of the
comparison take none, and draw in whatever dialog is open.

A device is a version, raised by every change, and whether an overlay stays on its
display. `loaded`, `store` and what is being saved are a device, a version, and whether
they are complete (`raw`): a repeater whose reply to the configuration command is lost is
read without it, and neither the panel (1970) nor the store (backups.py:240) saves that.
A change may be taken by the device and still be answered as a failure. So may an
overlay, which is written without response and retried: a command that failed may have
put it on, and one that went well may have had no effect (`Overlay`). A save may fail,
which nobody hears of (`SaveAnswered`). History variables: `acked`, the newest version
the panel reported as set, and whether its snapshot was not sent or not saved; `unheard`,
overlays the panel was not told of; `mixed`, whether two
devices met in one dialog by way of services (see the violated run below).

What may be pressed is what the page lets the user reach: a dialog covers the
table and the toolbar, a confirmation covers both, and a click beside a dialog
closes it also while its buttons are disabled (`Close` does not ask for
`~locked`).

### SettingsForm, RepeaterForm, PanelForms

`SettingsForm` has one field for each way of converting: interval, multiplier,
period, LCD refresh, latency, averaging, delay, event beacons, one choice
(`smiley`) and one tick (`switch`) for the others like them. What is typed is in
half steps, so that it can lie between two steps of the device; `Blank` is an
empty field, a setting the firmware's layout lacks, and what is no number.
`Show` is what the screen is opened with, `Sent` and `Changes` are
`_collectChanges`, `Accepted` and `Built` are `pvvx_struct.build`, and
`SaveSettings` is `async_write` with its attempts, in four outcomes. `SaveRefused`: a
value is out of its bounds, nothing is written. `SaveFailed`: the attempts are used up
before the write was taken or after it, or what is read back is not what was written, as
when the firmware adjusts it (`Stored`) or the write is lost. `SaveUnchanged`: the
device has it already, be it by an earlier attempt of the same Save; the view shows what
was loaded before. `SaveVerified`: read back and the same (`Matches`). `device` and
`settings` (`_loaded`) may differ after the middle two.

`IsStep` and `Nearest` say what "to the nearest step" means for `WrittenIsShown`: what the
*device* has afterwards is a value that can be written, and none is nearer to what is in
the field. An empty field means what the code makes of it (`Meant`).

`RepeaterForm` has the source, its key and interval. Picking or typing a source
starts a lookup (`lookups`); what the user does meanwhile is any other action, closing
the form and opening it for another repeater included (`Reopen`). Lookups are answered in
the order they were made, since Home Assistant answers them from memory over one
connection. One whose form was closed fills its interval into the field that is there by
then, and its key into the field that is gone. `Snapshots` gives each source a history,
oldest first: `SnapKey` is the newest key in it, if the last snapshot encrypts.
`ghost` is history of the open form: whether the key and the interval in the fields are the user's,
whether a key was typed during a lookup (`raced`), and whether the source in the
form is one that was looked up (`skipped`). Of the other fields of a repeater
each is on its own, so they are left out.

### Restore

The target is its kind, its encryption flag and `given`: the parts that have the
snapshot's value. A part is the snapshot's or the target's own, also where the
two would be equal, so that what was overwritten can be told. A snapshot is its
kind, whether it is of another device (`clone`), the parts it has a usable value
of, whether its config is sound, and its flag. `asked` is the selection of the
client.

`pc`, `left` and `rediscover` are the loop's; `table` is the GATT table Home
Assistant has cached, which may be that of the firmware before. An attempt reads
the target (`before`), and writes what is `todo` in the order of the code, each part
a step; `out` is the code's `out`. A write may be taken by the device or not, and
be answered or not; an exception ends the attempt and begins the next. What is verified was
taken, but for three parts: of the replies to the comfort, bind key and sensor commands
only the opcode is looked at (`EchoOnly`; gatt.py:1458, 1469, 1480), and once the target
was read on this link an earlier reply, or what the characteristic still has of it, has
the same one (`EarlierReply`). `Save` is the rest of `ws_restore`. `broke` is history: an
attempt failed with something of this restore written.

The thermometer's and the repeater's restore are one set of actions, since they
differ in their parts, in the number of attempts and in what they do about a
stale table; `Refused` and `NoPayload` are the parts, or the whole, that each
of them gives up on without writing.

## Runs

| Run | Instance | Shows |
|---|---|---|
| `DeviceLink_use` | a read (3 attempts), capped, whose link may survive all 4 rounds; a command (2) and a repeater command (2 + 1), at most 3 survived | `LockDiscipline`, `LinkUnderLock`, `NoOvertaking`, `EveryRequestAnswered`, `AdviceMatchesLastAttempt`; implements `ExclusiveLink`, liveness included |
| `DeviceLink_capped` | the read is capped | **violated**: `GuaranteedDisconnect` |
| `SetEncryption_overlap` | two enables (one with a key) and a disable; 2 faults; 7 keys | `OneTalker`, `NoSilentDisagreement`, `KeyAccounted`, `EntryFollowsDevice`, `RerunResyncs`, `EncryptingKeepsKey` |
| `SnapshotStore_crash` | a read, an encryption change, a rename, a deletion; limit 2; 1 crash, 1 reload | `TypeOK`, `AnsweredSurvives`, `DeletedStaysDeleted`, `FilesInSync` |
| `SnapshotStore_lost` | a read, an encryption change, 1 reload | **violated**: `AnsweredIsKept` |
| `BulkPanel_tabs` | 2 panels: one awaits up to 2 answers when it asks, is left and returned to or loses its connection, one reloads its page; 1 break in all; 1 device, reading; 2 jobs | `OneJob`, `OwnProgressFollowed`, `PollingEnds` |
| `BulkPanel_alone` | 1 panel that awaits up to 2 answers; 2 devices behind 2 proxies, enabling; 1 reload of the page, 2 jobs | `CountsAddUp`, `ResultTells`, `JobEnds`, `ResultSeen` |
| `DevicePanel_use` | a thermometer and a repeater with a weak signal; 3 calls besides the first scan, 2 under way at once; 1 leaving, 1 bulk job, every command but the factory reset, and every list but that of coverage | `PanelTypeOK`, `OneConnect`, `OwnFields`, `AnsweredKept`, `LcdRemembered`, `NeverStuck`, `DialogKeepsDevice`, `Released` |
| `DevicePanel_back` | the same, nobody leaves, no job | **violated**: `RightDevice` |
| `PanelForms_edit` | 5 settings (each layout, each field at its ends), 10 typed values and an empty field, 2 typed fields between and around saves; 4 repeaters with 3 sources (encrypted, plain, only typed), 4 touches | `EffectiveIsWritten`, `WrittenIsShown`, `NothingLeftToSave`, `SavedFitsSource`, `HandKeyKept` |
| `Restore_attempts` | snapshots of either kind, whole, or without the name (thermometer) or the key (repeater), sound or not, of the target or of another device; 6 selections of parts; targets of either kind, with a right or a stale table; the code's attempts | `OkIsRestored`, `SafetyIsBefore`, `RefusedRightly`, `TargetKeepsItsOwn` |
| `Restore_undone` | the same | **violated**: `Reversible` |

Of the type invariants, all of which are proved, two are run as well: `TypeOK` of
`SnapshotStore` and `PanelTypeOK` of `DevicePanel` say more than types, such as that a
history never exceeds its limit.

Why the bounds are enough. *DeviceLink*: three requests are what it takes for
one to leave the middle of the queue while another holds the lock, and one per
loop covers the loops; attempts and rounds are the code's own numbers. One link that
outlives its closing and two that do not show that the first harms no other.
*SetEncryption*: with two enables and a disable each can be overtaken by one of
either sort in every phase; two faults allow a failure during the repair of
another, or a failure and a restart; seven keys are enough for `NewKey` never to
run out (TLC stops at a `CHOOSE` that has no witness).
*SnapshotStore*: four tasks in the queue of one Store cover writing, pending
and "nothing left"; a limit of 2 instead of 20 makes trimming happen; one crash
or reload meets every interleaving, as either ends what was running. A reload and then
a crash, or the other way round, is in. There is no symmetry reduction: the tasks
differ in what they do.
*BulkPanel*: a second job is what a start can do to a first, and two answers under way are
what it takes for an old one to meet a new one. Of the two runs each leaves out what its
properties do not look at. With one panel there are two workers in parallel, and enabling,
which has every outcome but that of a disable whose entry was not updated; that one
counts as failing and asks for no key, and each of these two another outcome has as well.
That a worker goes on to its next device is in the proofs, for any number. With
two panels one device will do, as how far a job is matters to none of the properties
checked there but `OneJob`, which is proved; and `MCView` leaves the job's counters, its
outcomes, `seen` and `late`, which no guard reads, out of the state. `MaxBreaks` is one leaving,
reload or lost connection: each starts the panel's polling anew, and what is under way is
covered by the two answers.
*DevicePanel*: a late answer takes two calls, and the third is for what the user
does with it; each is of any kind, of either device, and closing, cancelling and
turning pages are not bounded at all. The commands that behave alike are one
(`Used`). One version per device tells before from after. *PanelForms*: two typed
values make one field follow another that was typed itself; values are the ends of
the ranges, one beyond, and halves. Four touches of a repeater's screen are: a key,
a source, another source, and a change of mind, with answers in between.
*Restore*: one restore, since the lock keeps others away until it has its answer. The
thermometer's name is the part whose absence is a value, and the repeater's key stands
for a part that a snapshot lacks; the selections are all parts, the first and the last
to be written, and single ones, the key that a clone is refused among them. Nothing is
cut: attempts are bounded by the code.

### What the violated runs show

1. *The disconnect is not guaranteed* (`DeviceLink_capped`). The cap of a bulk
   read expires inside `_safe_disconnect`, which does not catch
   `CancelledError`. The lock is released with the link open.
2. *A counted snapshot disappears* (`SnapshotStore_lost`). Setup has read the
   file when a save of the old dict is still pending; setup then installs what
   it read.
3. *Settings of one device under another* (`DevicePanel_back`). A device was read;
   the read of a second one fails, whose dialog then offers "GATT services". Their
   Back button shows `_loaded`, still the first device's settings, as the second's
   (panel, 847), and Edit and Save go on from there.
4. *A restore that is not reversible* (`Restore_undone`). A part is overwritten, an
   exchange after it raises, and the next attempts do not connect: `_with_client`
   answers with its error (gatt.py:893), without the fields that were read for the
   safety snapshot, and `ws_restore` has none to save. The counterexample has a name
   only; a config or a sensor calibration goes the same way.

### Known limits of what the passing runs say

Each of these is a behaviour of the specifications that a property leaves out on
purpose, since the code does have it. None is checked by a run of its own.

- `AdviceMatchesLastAttempt` is for reads and commands: `_with_blethr_client` does
  not set `reached` when it finds a stale table (gatt.py:1566, against 836), so
  its last attempt may reach the device and still give the advice about range.
- `EncryptingKeepsKey` is for a device none of whose replies was lost. A reply to the
  key query that is lost or short counts as "no key" (gatt.py:1257), and enabling
  a device that encrypts already then writes a new random key over its own.
- `NoSilentDisagreement` names two ways to disagree of which nobody is told: a restart while
  a call is half done, and a reload that answers False, after which the result is
  "updated" (encryption.py:92, 102). `RerunResyncs` assumes that whoever got no answer runs
  the call again, and says nothing of a refused reload, as nobody has a reason to.
- `AnsweredSurvives`, `DeletedStaysDeleted` and `FilesInSync` of `SnapshotStore` are for
  reloads that no task overlapped (`raced`); `SnapshotStore_lost` shows why.
- The history of `SnapshotStore` is in the order of the saves, not of the states:
  an encryption change keeps its fields through the BTHome sync
  (websocket_api.py:255), and a read in between is newer and saved earlier.
  What Compare takes for the latest state is then the older one.
- The seeding of `SnapshotStore` takes the name of the last snapshot
  (\_\_init\_\_.py:77); if the panel did not take one after a name was cleared, the
  cleared name is back in the cache after the next start.
- `ResultSeen` is for the newest job, of a panel that is alone. A start replaces a result
  nobody has seen, keys to enter included (bulk.py:158, 185), of another panel or of the
  same one before it has polled it; and since `dismiss` names no job (bulk.py:60), the later
  one of two panels that showed the same result may clear that of the next job.
- `ResultSeen` leaves out `late`: with a start on its way, `_bulkResultShown` is reset
  already (2080), and the answer to an older poll shows the job before once more and sets it
  again. The result of the new job is then passed over, or dismissed unseen, although a
  result is to be shown "once on whichever panel is live" (2116).
- `ResultSeen` is for a panel that stays: `_bulkResultShown` is reset only by the
  element's own start, so an element that is left and used again passes over the
  result of another panel's job (2131). The answer to a poll sent before the user
  left is handled in the detached element (2102), which shows the result to nobody and
  dismisses it on the server.
- `OwnProgressFollowed` is for the panel that was told it has started the job. Another panel
  may show a strip that nothing updates: with two polls under way and a job of somebody else
  started between them, the first answer stops the timer and the second puts
  the strip up. A panel whose connection is lost between its start and the answer says
  that it failed, and does not poll while the job runs (2083-2086).
- `OwnFields`, `AnsweredKept`, `LcdRemembered` and `DialogKeepsDevice` are for panels in
  which services did not mix two devices (`mixed`): besides Back, the answer to a
  services request is drawn in whatever dialog is open by then (panel, 821-849).
- `AnsweredKept` is about what the panel reported. A dialog that is closed during a
  write, which a click beside it does although its buttons are disabled, makes
  the answer stale: the device has changed, and no snapshot follows. Nor does
  one follow a factory reset (1719).
- "The post-change state is never lost" (1967-1968) does not hold of three changes, which
  `AnsweredKept` leaves out: a repeater's verified write whose closing read lost the reply
  with its configuration (1970, backups.py:240), a save that failed (1975), and a write
  answered as "unchanged" by an attempt that found what the one before it wrote (1955).
- `LcdRemembered` leaves out overlays the panel was not told of: those of an answer that came
  too late, of a command that failed and took effect all the same, and of one to take it off
  that went well without an effect. When a dialog closes, "LCD cleared" is shown also if the
  command answered that it failed (871-873). The
  panel remembers one device only: showing an overlay on a second one is possible
  only after the dialog of the first was closed, which asks.
- `NeverStuck` says nothing of the buttons of a dialog after the page was left and
  returned to with a write under way: its answer is stale, and nobody enables them.
  A click beside the dialog still closes it. After a write that went well the x in the
  corner stays disabled too (1934-1953).
- The dot of a device without snapshots selects it, but not while a scan or a read
  runs; the question it then asks names that device, and the one that is selected is
  read (605-617).
- The lists, and the re-read of a restored device, are drawn in whatever dialog is open
  when they come (2401-2463, 2547-2563, 2918-2924).
- `EffectiveIsWritten` is for a device that has what was loaded, for whole steps and for
  multipliers that the firmware takes: the label shows what is typed, unrounded.
- `WrittenIsShown` leaves out a setting that was not sent and that the device has another
  value of than was loaded. After a failed write that was taken, or adjusted, the baseline
  stays the old one (1958): a field put back to it is no change, and is not sent. And a Save that
  finds on its second attempt what the first one wrote answers "No effective change" and
  shows the old values (gatt.py:765, panel 1955-1957).
- For firmware of the transitional layout Save is enabled from the start, since its
  empty fields differ from the settings it lacks (1907, 1913); the backend ignores
  both and answers "No effective change". An empty interval is sent as null, which
  `build` refuses with a TypeError, so `async_write` connects three times before it
  says so (pvvx_struct.py:264); an empty multiplier shows twice the interval and is
  not written.
- `HandKeyKept` and `SavedFitsSource` leave out a key that is typed, or Save that is
  pressed, while a lookup is under way: the answer overwrites the key (1192), and the
  new source is sent with the key and the interval of the one before (1259). With a
  key typed by hand a new source is not looked up at all (1187), so neither is its
  interval; picking "none" keeps the key. A lookup answered after its form was closed
  fills its source's interval into the form that is open by then (1217, 1225), which
  stays if no source is looked up there.
- The name cache can be older than the device: a rename puts the clock back over a
  second connection and caches the name only then (gatt.py:937), so what a read found
  in between is cached first. `SnapshotStore` has both orders.
- `SafetyIsBefore` is for a restore none of whose attempts failed after a write. One
  that did is followed by an attempt that reads the target again, with the first
  one's writes in it; and a snapshot of a repeater whose config could not be read is
  refused as incomplete (backups.py:240), while the restore goes on.
- `OkIsRestored` leaves out the parts of which only the echo is looked at, where the target was
  read before: a late reply to the read, or a value the characteristic still has, passes for
  that of a write that was lost. "Each part is written then verified" (gatt.py:1384-1385)
  is not so of the comfort zone, the bind key and the sensor calibration.
- `OkIsRestored` is about the parts the snapshot has a usable value of. A key that is
  none is passed over without a word (gatt.py:1462-1469), as is a part that is missing;
  and clearing the name is reported as done without looking (1447).
- `RefusedRightly` is for repeaters. `_with_client` does not look for a stale table, so
  a thermometer that was a repeater before is refused by its old table (gatt.py:1416)
  until something else rediscovers it.

## Fairness

`DeviceLink!Spec` is weakly fair to the steps of each request once it was made:
every await in the loops has a time limit (25 s to connect, 10 s to disconnect,
6 s to 8 s per exchange, fixed sleeps), so a task always moves on. Nothing is
assumed of the outcome: a device may fail every time. Requests, cancellations
and losing the link are not fair. Weak fairness per request is enough since the
lock is first come first served.

`SetEncryption!Spec` is weakly fair to each running call and to a user who runs
a call again when told to, or when a restart left him without an answer. The former is the
assumption of the documentation ("running the same call again resyncs"), the latter what
somebody does whose request failed. `RerunResyncs` says it suffices once the faults end.

`SnapshotStore!Spec` has no fairness, as no property there is about progress. That
no task waits for ever is in the deadlock check: a state without a next step
must be `Finished`, which requires `Quiet`.

`BulkJob!Spec` is weakly fair to every worker and to the end of the job: each
await of a worker has a limit (150 s for a read, those of the access path for
an encryption change). `BulkPanel!PanelSpec` adds the timer of each panel, the
server's handling of its requests and the handling of its answers. What users
do, and losing a connection, is not fair.

`DevicePanel!Spec` is weakly fair, for each device, to the answers of the calls that
connect to it: the backend answers each within its own time limits and in the order
of the device's lock, whatever the outcome. Nothing is assumed of the user.
`PanelForms!Spec` and `Restore!Spec` have no fairness and no liveness property; the
deadlock check says that a restore always has a next step until it is answered.

## Theorems

Checked by TLAPS for every value of the constants, from the named assumptions
on them (`ConstantsAssumption`, `CappedAssumption`, `EncryptionAssumption`, `StoreAssumption`,
`BulkAssumption`, `NoResultAssumption`, `PanelAssumption` of `BulkPanel` and of
`DevicePanel`, `SettingsAssumption`, `RepeaterAssumption`, `SnapshotAssumption`). They
say what the constants are: sets of this and numbers of that, a bound that is at least
1, and that a value which stands for "none" (`Nothing`, `Nobody`, `Blank`, `NoName`) is
none of those it is told from. One theorem assumes more, and says so in its statement:
`DisconnectGuaranteed`.

Every invariant and action property of a passing run is a theorem, and so is the safety
of `ExclusiveLink`. Each is proved once for all numbers of requests, calls, devices,
panels, failures and restarts. Below, the invariant that is inductive, and why it says
more than the property.

*The access path*

- `DeviceLink_proofs!TypeCorrect`, `LockCorrect`. `LockDiscipline` is inductive
  together with `TypeOK`: its three conjuncts need each other, since a waiter is
  granted the lock because it heads a queue without duplicates. A move within
  the lock (`MoveInside`), out of it (`MoveOut`) and out of the middle of the
  queue (`MoveOffQueue`) are lemmas, so that each action cites one.
- `LinkSafe`, `DisconnectGuaranteed`. For the requests in `Clean` (more rounds than
  their link survives, nothing cancels them) the invariant `LinkInv` says that a link
  is open only in the session or its closing and that the rounds used are at most
  `Stubborn`. `LinkSafe` needs no assumption about the others; `DisconnectGuaranteed`
  is for `Clean = Requests`. The second half is what makes the first inductive: a closing
  that ran out of rounds has used more than a link survives.
- `AdviceCorrect`. `AdviceInv` ties `reached` to `connected` wherever the loop is
  between attempts, for reads and commands.
- `QueueInOrder`: an action property, from the invariants above.
- `ImplementsSafe`: every step of `DeviceLink` maps to a step of `ExclusiveLink`
  or a stutter; the link of the abstraction is that of a request in `Clean`, so that
  the others may leave theirs open.

*The encryption change*

- `SetEncryption_proofs!TypeCorrect`, with `KeyChosen`: a call that sends a key has one.
- `OneTalkerCorrect`: inductive with `TypeOK`.
- `EntryFollows`, from `CallsInv`: what a call that is about to update the entry
  knows of the device is still true, since it holds the lock until that step.
- `KeyNeverLost`, from `DeviceKeyHeld`, which is stronger than `KeyAccounted` in
  not counting calls that have left the device: they forget their key, so
  the property itself is not inductive.
- `DisagreementTold`, from `EntryFollowed` and `DeviceFollowed`: while the entry or the
  flag differs from the device, some call answers for it: it is on its way to settle it, has
  told its caller so, or was cut off by a restart half done; or else the last reload was
  refused. `NoSilentDisagreement` looks at quiet moments only.
- `EncryptingKeyKept`, from `SeenCallsInv`: what a call saw of the flag is so until it sends
  something, and the key it is about to send to a device that encrypts is the device's own
  or the caller's, unless something failed before.

*Snapshots*

- `SnapshotStore_proofs!TypeCorrect`, from `TypeInv`: a history is within the limit in
  memory, in the file and in a write under way.
- `FilesCorrect`, from `StoreInv`. `async_save` returns without writing when another task
  has taken what was to be written. That is right because of `Follows`: the file, a
  write in progress, or what is left to a task that is still to write, has what is in
  memory. `FilesInSync` is what it comes to when no task is left.
- `AnsweredCorrect`, `DeletedCorrect`, from `PromiseInv`, which follows one snapshot through
  memory, the file and a write under way: an answered one is in each unless it was deleted or
  pushed out by the limit, a deleted one in none. Neither memory nor the file alone is
  inductive: a write under way replaces the file, and after a crash or a reload the
  file replaces what is in memory. `StoreInv` and `PromiseInv` hold until a reload
  overlaps a task (`raced`).

*The bulk job and its panels*

- `BulkJob_proofs!TypeCorrect` carries `OwnDevices`, that a worker only has devices
  of its own proxy: without it two workers could be at the same device and the
  running set would lose one of them.
- `OneJobCorrect`, from `OnlyNewest`: only the newest job is active, and an inactive
  one has every worker over.
- `CountsCorrect`, from `CountsOpen`: what is done and the devices still open (at
  hand or to do) are together at most the total. `CountsAddUp` counts the devices
  at hand only, and is not inductive, as a worker takes another one.
- `ResultCorrect`, from `Tallied` and `ResultsCopied`: each counter is the number of outcomes
  of its sort; what is done and what is still open add up to the total, unless the job was
  cancelled; and a result is a copy of counters that do not move any more.
- `BulkPanel_proofs!PanelsRunTheJob`: `BulkPanel` implements `BulkJob`, with its fairness.
  A step of a panel is a command of the job or leaves it alone (`StepOfJob`), which
  needs that what waits on a connection is a request of a panel (`Typed`, that is
  `PanelTypeCorrect`). `JobCorrect` takes `CountsAddUp`, `OneJob` and `ResultTells`
  over from there, without another induction.
- `ProgressCorrect`, from `AllFollow`: behind the answer to the start of the job at work
  every status on its way to that panel tells of an active job, and once that answer is
  handled all of them do. So no answer that is still to come stops the timer, however many
  are under way. It rests on the server's handling a panel's requests in order: a status
  asked for after the start is answered after it, and tells of the job while it works.

*The panel and its dialogs*

- `DevicePanel_proofs!OneConnectCorrect`, from `ReadsInv`: the device of every read
  under way is in `inflight`, no two reads have the same, and the device that a
  question about a weak signal names is not in it. The last part is what the code
  relies on at line 703: the guard comes before the question, nothing is checked after
  it, and nothing else can start a read while the question is open. What an action does to
  the calls (adds one, takes one away, makes all stale) is a lemma each (`ReadsAppend`,
  `ReadsRemoved`, `ReadsTurned`, `ReadsStaled`).
- `PanelTypeCorrect`, from `Typed`, in four parts (calls, page, screen, data). What an action
  does to `calls` is put once, in `CallsEffect`, for all that follows.
- `AnsweredKeptCorrect`, from `KeptInv`: of the automatic snapshots of a device that are
  under way, the last one is as new as what was reported, not merely some, unless what was
  reported came without `raw` or its save failed.
- `NeverStuckCorrect`, from `StuckInv`: besides the property, that a question
  about a command has its dialog under it, and that the call that enables the buttons again is a
  change, not a read, which Cancel would take away.
- `OwnFieldsCorrect`, from `OwnFrame`. `OneWanted` is what the token is for: everything
  that begins a wanted call takes one, so at most one answer is wanted. `OwnInv` says
  that it is of the device that `_loaded` and the dialog are of, and so is a question about
  a command. It needs to say as well that a bulk job and a wanted read exclude each
  other (`JobOwn`), or the result of the job would take the title from under the read.
- `DialogKept`: an action property, from the same invariant.
- `LcdRememberedCorrect`, from `LcdInv` with `OwnFrame`: while an overlay is remembered
  a dialog is open that asks about it, its device is the one `_loaded` is of, and no read is wanted.
  The questions that go on to a read (a weak signal, the dot of a device) are asked only when
  there is nothing to remember and no answer on its way that brings something.

*Restore*

- `Restore_proofs!OwnCorrect`, from `OwnInv`: a config that is about to be written has
  the flag that was read in the same attempt, and another device's key is never about to
  be. `OkCorrect`, from `ResultInv`: each part that is wanted is to do or has a result,
  and each that went well is on the device or had only its echo looked at. `SafetyCorrect`, from `BeforeInv`: as long
  as no attempt failed after a write, an attempt starts with an untouched device. That
  part is why `broke` is in the property. `RefusalCorrect` is inductive with `TypeOK`.

*The edit screens*

- `PanelForms_proofs!EffectiveCorrect`, from `LabelInv`: the label always shows the product
  of the interval and the multiplier as the screen reads them, and both `device` and
  `settings` have an interval of at least one step and a multiplier of at least 2.
  The second part is needed since those are the defaults of an empty field, and it
  survives a write that the device adjusts (`LabelSaved`). `LabelIsWritten` then
  goes through rounding, comparing and building once for all values.
- `WrittenCorrect`, `NothingLeftCorrect`, from `ScreenInv` and `LabelInv`: the device and
  `_loaded` are settings of the same layout that the firmware can have, also after a write
  that the device adjusted, and every field has a number or is empty. `SentNearest` is the
  rounding, field by field: what is sent is the nearest value that can be written
  (`NearestAbove`: half a step above there is no other). Then what is reported as saved is what
  was built, since it was compared (`BuiltShown`); and a setting that is not sent is shown as
  it was loaded. For a screen just opened, `NothingToSave` follows each field from what is
  shown back to what is sent.
- `HandKeyCorrect`, from `HandInv`: while a typed key is in its field, no lookup of the
  open form is under way. The property alone is not inductive, since an answer changes the key.
- `SavedFitsCorrect`, from `FitInv`: once no lookup is under way, the key and the interval
  in the fields are those of the source that is in its field, or the user's. The
  invariant speaks of the lookups under way too (`Ordered`): those of a form that was
  closed come before those of the open one, and where the chosen source is looked up, its
  lookup is the last, so that no other answer comes after it.

Only model-checked: the liveness properties (`EveryRequestAnswered`, `RerunResyncs`,
`JobEnds`, `PollingEnds`, `ResultSeen`, `Released`, and the liveness part of
`ImplementsExclusiveLink`). They rest on fairness, whose `ENABLED` the provers do not
reason about.

## Plan

In this order, the most important behaviour first:

1. `ExclusiveLink`, `DeviceLink`, proofs: done.
2. `SetEncryption`, proofs: done.
3. `SnapshotStore`, proofs: done.
4. `Restore`, proofs: done. Next: as one of the tasks of `SnapshotStore`, whose files
   its safety snapshot goes to.
5. `BulkJob`, `BulkPanel`, proofs: done.
6. `DevicePanel`, `SettingsForm`, `RepeaterForm`, `PanelForms`, proofs: done.
7. `BlethrSession`: the notification queue and Home Assistant's GATT cache, with
   rediscovery, composed with `DeviceLink`'s loops; and the settings that are one
   conversation each (comfort, time, sensor, MAC, key, reset, reboot).
8. `PvvxConfig`, `BlethrConfig`, `Adv`: pure operators against reference
   definitions over bounded inputs; theorems about the fields that are kept.

All runs together stay at a dozen, so that they are all run on every change. A new
module brings one passing run, and a violated run gives way to a deeper one.

## Not modelled, and why

Rendering and wording of the panel (tables, sorting, filters, charts, the
coverage view, exports), logging, the config flow (one form), the
registration of the panel and of static paths, friend names (a dict with one
writer), scanning and coverage (reads of another integration's state), and the
read-only queries `index`, `history` and `compare`. Everything else that is
missing is in the plan.
