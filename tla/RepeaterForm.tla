----------------------------- MODULE RepeaterForm -----------------------------
(***************************************************************************)
(* The edit screen of a repeater (_modalEditBlethr): the source it is to   *)
(* repeat, the key that decrypts the source, and the interval the source   *)
(* advertises at.                                                          *)
(*                                                                         *)
(* Picking a source looks its last snapshot up and fills in its key and    *)
(* interval: an await, and the user goes on typing.  A key typed by hand   *)
(* is to be left alone.  Lookups are answered in the order they were made: *)
(* Home Assistant answers from memory, on the one connection.  The form    *)
(* may be closed and opened again before they are.                         *)
(***************************************************************************)
EXTENDS Naturals, Sequences

CONSTANTS
  Listed,      \* the thermometers in the list of sources
  Unlisted,    \* other addresses that are typed
  Snapshots,   \* of every source, the oldest first: does it encrypt, its key or
               \* NoKey, its interval
  Configs,     \* what repeaters may have been read with: source, key, interval
  Fitting,     \* the intervals a repeater can lock on to
  HandKeys,    \* keys that are typed
  NoKey,       \* no key
  NoSource,    \* no source, and every typed address that is refused
  MaxTouches   \* bound: what the user does to the form

Sources == Listed \union Unlisted

ASSUME RepeaterAssumption ==
  /\ NoSource \notin Sources /\ NoKey \notin HandKeys
  /\ DOMAIN Snapshots = Sources
  /\ \A c \in Configs : c.source \in Sources \union {NoSource}
  /\ MaxTouches \in Nat

VARIABLES
  config,   \* what was read: the source, its key, the interval
  chosen,   \* the list shows this source, or "custom"
  typed,    \* the address in the field for others, NoSource if it is refused
  key,      \* the field of the key
  auto,     \* autoFilled: what the form put there itself
  beacon,   \* the field of the interval
  lookups,  \* lookups under way, in the order they were made: of a source, and
            \* by the form that is open, or by one that was closed
  sent,     \* what Save sent
  touches,  \* what the user may still do
  ghost     \* history of the open form: the key is the user's, the interval is; a
            \* key was typed during a lookup; the chosen source was not looked up

fields == <<chosen, typed, key, auto, beacon>>
repeaterVars == <<config, fields, lookups, sent, touches, ghost>>

-----------------------------------------------------------------------------
NotSent == [source |-> NoSource, key |-> NoKey, beacon |-> 0, unfit |-> TRUE]

Untouched == [key |-> FALSE, beacon |-> FALSE, raced |-> FALSE, skipped |-> TRUE]

HasKey(snapshot) == snapshot.key # NoKey

(* The key a source is found to need: none if its last snapshot does not      *)
(* encrypt, or there is none; else that of the newest snapshot that has one.  *)
SnapKey(m) ==
  LET snaps == Snapshots[m] keyed == SelectSeq(snaps, HasKey) IN
  IF snaps = <<>> \/ keyed = <<>> THEN NoKey
  ELSE IF snaps[Len(snaps)].crypto THEN keyed[Len(keyed)].key ELSE NoKey

(* The interval its last snapshot has, 0 if there is none. *)
SnapBeacon(m) ==
  LET snaps == Snapshots[m] IN IF snaps = <<>> THEN 0 ELSE snaps[Len(snaps)].beacon

(* The screen shows what was read; a source that is not in range is listed too. *)
RepeaterInit ==
  /\ config \in Configs
  /\ chosen = config.source /\ typed = NoSource
  /\ key = config.key /\ auto = config.key
  /\ beacon = config.beacon
  /\ lookups = <<>> /\ sent = NotSent /\ touches = MaxTouches
  /\ ghost = Untouched

Source == IF chosen = "custom" THEN typed ELSE chosen

Touch == sent = NotSent /\ touches > 0 /\ touches' = touches - 1 /\ UNCHANGED sent

(* The form is closed, and opened for this repeater or another.  A lookup     *)
(* answered in between finds no field for an interval, and breaks off.        *)
Reopen(c) ==
  /\ Touch /\ config' = c
  /\ chosen' = c.source /\ typed' = NoSource
  /\ key' = c.key /\ auto' = c.key /\ beacon' = c.beacon
  /\ \E n \in 0..Len(lookups) :
       lookups' = [i \in 1..(Len(lookups) - n) |-> [of |-> lookups[i + n].of, here |-> FALSE]]
  /\ ghost' = Untouched

(* Mutant of ByHand: a key typed by hand is looked up over. *)
NeverByHand == FALSE

(* The key in its field is neither empty nor what the form put there. *)
ByHand == key \notin {NoKey, auto}

(* adoptKeyOf, up to its await. *)
AdoptKeyOf(m) ==
  /\ lookups' = IF ByHand \/ m = NoSource THEN lookups
                ELSE Append(lookups, [of |-> m, here |-> TRUE])
  /\ ghost' = [ghost EXCEPT !.skipped = (m = NoSource) \/ (ghost.key /\ key # NoKey),
                            !.beacon = FALSE]

(* A source of the list, none, or the field for others. *)
Choose(m) ==
  /\ Touch /\ m # chosen
  /\ chosen' = m
  /\ AdoptKeyOf(IF m = "custom" THEN typed ELSE m)
  /\ UNCHANGED <<config, typed, key, auto, beacon>>

TypeAddress(m) ==
  /\ Touch /\ chosen = "custom" /\ m # typed
  /\ typed' = m
  /\ AdoptKeyOf(m)
  /\ UNCHANGED <<config, chosen, key, auto, beacon>>

TypeKey(k) ==
  /\ Touch /\ k # key
  /\ key' = k
  /\ ghost' = [ghost EXCEPT !.key = (k # auto), !.raced = @ \/ \E i \in DOMAIN lookups : lookups[i].here]
  /\ UNCHANGED <<config, chosen, typed, auto, beacon, lookups>>

(* By hand, or the firmware's default: no scanning. *)
TypeBeacon(b) ==
  /\ Touch /\ b # beacon
  /\ beacon' = b
  /\ ghost' = [ghost EXCEPT !.beacon = TRUE]
  /\ UNCHANGED <<config, chosen, typed, key, auto, lookups>>

(* Mutant of Settle: what the form filled in is not remembered as such. *)
SettleUnmarked(k) ==
  /\ key' = IF k = NoKey /\ auto # NoKey THEN NoKey ELSE IF k # NoKey THEN k ELSE key
  /\ UNCHANGED auto

(* settle: the key that was found, or its own one taken back. *)
Settle(k) ==
  IF k # NoKey \/ auto # NoKey THEN key' = k /\ auto' = k
  ELSE UNCHANGED <<key, auto>>

(* adoptKeyOf once the snapshots are there, or could not be fetched: the      *)
(* interval follows the source if a repeater can lock on to it.  The field is *)
(* the one of the form that is open by then, so also a lookup of a form that  *)
(* was closed fills it in; its key goes to the form that was closed.          *)
LookupAnswered(ok) ==
  LET m == Head(lookups).of IN
  /\ sent = NotSent /\ lookups # <<>>
  /\ lookups' = Tail(lookups)
  /\ beacon' = IF ok /\ SnapBeacon(m) \in Fitting THEN SnapBeacon(m) ELSE beacon
  /\ IF Head(lookups).here
     THEN /\ Settle(IF ok THEN SnapKey(m) ELSE NoKey)
          /\ ghost' = [ghost EXCEPT !.key = @ /\ key' = key, !.beacon = @ /\ beacon' = beacon,
                                    !.skipped = ~ok \/ m # Source]
     ELSE ghost' = [ghost EXCEPT !.beacon = @ /\ beacon' = beacon] /\ UNCHANGED <<key, auto>>
  /\ UNCHANGED <<config, chosen, typed, sent, touches>>

(* Save, with an address that is not refused, and something to save; without  *)
(* a source it asks first, and sends what it showed when it was pressed.      *)
SaveRepeater ==
  /\ sent = NotSent
  /\ chosen = "custom" => typed # NoSource
  /\ [source |-> Source, key |-> key, beacon |-> beacon] # config
  /\ sent' = [source |-> Source, key |-> key, beacon |-> beacon,
              unfit |-> ghost.skipped \/ lookups # <<>>]
  /\ UNCHANGED <<config, fields, lookups, touches, ghost>>

RepeaterNext ==
  \/ \E m \in Listed \union {config.source, NoSource, "custom"} : Choose(m)
  \/ \E m \in Sources \union {NoSource} : TypeAddress(m)
  \/ \E k \in HandKeys \union {NoKey} : TypeKey(k)
  \/ \E b \in Fitting \union {0} : TypeBeacon(b)
  \/ \E ok \in BOOLEAN : LookupAnswered(ok)
  \/ \E c \in Configs : Reopen(c)
  \/ SaveRepeater

-----------------------------------------------------------------------------
(* What is saved for a source that was looked up is what that source needs:   *)
(* its key, none if its last snapshot does not encrypt, and its own interval, *)
(* unless the user typed another; "the kind of copy that goes wrong silently" *)
(* (panel.js:1178-1180).  Not for a Save that was pressed while a lookup was  *)
(* under way.  The answer to a lookup of a form that was closed may come      *)
(* before, but not in place of, the one for the source chosen now.            *)
SavedFitsSource ==
  ~sent.unfit =>
    /\ ghost.key \/ sent.key = SnapKey(sent.source)
    /\ ghost.beacon \/ SnapBeacon(sent.source) \notin Fitting
         \/ sent.beacon = SnapBeacon(sent.source)

(* "a value actually typed in by hand is left alone" (panel.js:1184-1185),    *)
(* whatever sources are picked after it, unless it was typed while a lookup   *)
(* was under way: its answer does not look at what is in the field by then.   *)
HandKeyKept ==
  [][ghost.key /\ key # NoKey /\ ~ghost.raced /\ key' # key => touches' < touches]_repeaterVars
===============================================================================
