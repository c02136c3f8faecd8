----------------------------- MODULE SettingsForm -----------------------------
(***************************************************************************)
(* The edit screen of a thermometer (_modalEdit, _collectChanges): what it *)
(* shows of the settings that were read, what typing does to the fields    *)
(* that depend on one another, what Save sends, and what the device makes  *)
(* of it (pvvx_struct.build).                                              *)
(*                                                                         *)
(* The device keeps steps, the screen shows seconds or milliseconds.  Here *)
(* a typed value is in half steps, so that it may lie between two of them: *)
(* 1/32 s for the intervals, 0.025 s for the LCD, 0.3125 ms for the delay, *)
(* 10 ms for the latency.                                                  *)
(***************************************************************************)
EXTENDS Integers

CONSTANTS
  ReadSettings,  \* the settings a device may have been read with
  Typed,         \* what is typed, in half steps or as it is
  Blank,         \* an empty field; a setting the layout lacks; not a number
  MaxTyped       \* bound: how often something is typed

Byte == 0..255
Settings ==
  [adv : 1..255, mult : 2..255, lcd : Byte, latency : Byte, averaging : Byte, smiley : 0..7,
   switch : BOOLEAN, delay : 0..15 \union {Blank}, events : Byte \union {Blank},
   layout : {"current", "legacy", "transitional"}]

ASSUME SettingsAssumption ==
  /\ ReadSettings \subseteq Settings /\ Typed \subseteq Nat /\ MaxTyped \in Nat
  /\ Blank \notin Nat \union BOOLEAN
  /\ \A s \in ReadSettings : s.layout = "current" <=> Blank \notin {s.delay, s.events}

VARIABLES
  device,     \* the settings the device has
  settings,   \* _loaded
  form,       \* the fields of the screen
  effective,  \* the effective measurement that is shown, in half steps
  typing      \* how often something may still be typed

settingsVars == <<device, settings, form, effective, typing>>

-----------------------------------------------------------------------------
Or(v, default) == IF v \in {Blank, 0} THEN default ELSE v      \* v || default
AtLeast(a, b) == IF a >= b THEN a ELSE b                       \* Math.max(a, b)
AtMost(a, b) == IF a <= b THEN a ELSE b                        \* Math.min(a, b)
Round(n, d) == (2 * n + d) \div (2 * d)                        \* Math.round(n / d)

(* What is shown of settings s. *)
Show(s) ==
  [adv |-> 2 * s.adv, mult |-> s.mult, period |-> 2 * s.adv * s.mult, lcd |-> 2 * s.lcd,
   delay |-> IF s.delay = Blank THEN Blank ELSE 2 * s.delay, events |-> s.events,
   latency |-> 2 * (s.latency + 1), averaging |-> s.averaging, smiley |-> s.smiley,
   switch |-> s.switch]

(* Mutant of Sent: the latency is sent as shown, not as kept. *)
SentLatency(fm) ==
  [adv |-> IF fm.adv = Blank THEN Blank ELSE Round(fm.adv, 2), mult |-> fm.mult,
   lcd |-> Round(Or(fm.lcd, 0), 2), delay |-> Round(Or(fm.delay, 0), 2), events |-> fm.events,
   latency |-> Round(Or(fm.latency, 2), 2), averaging |-> Or(fm.averaging, 0),
   smiley |-> fm.smiley, switch |-> fm.switch]

(* _collectChanges: what the fields stand for in the device's steps.  An empty *)
(* one counts as 0, or 20 ms, or is sent as no number at all.                  *)
Sent(fm) ==
  [adv |-> IF fm.adv = Blank THEN Blank ELSE Round(fm.adv, 2), mult |-> fm.mult,
   lcd |-> Round(Or(fm.lcd, 0), 2), delay |-> Round(Or(fm.delay, 0), 2), events |-> fm.events,
   latency |-> AtLeast(0, Round(Or(fm.latency, 2), 2) - 1), averaging |-> Or(fm.averaging, 0),
   smiley |-> fm.smiley, switch |-> fm.switch]

(* An old layout has no fields for a delay and for event beacons. *)
Offered == DOMAIN Sent(form) \ (IF settings.layout = "legacy" THEN {"delay", "events"} ELSE {})

(* What Save sends; it is enabled when there is something.  What is not a  *)
(* number differs from every setting, also from one the layout lacks.      *)
Changes ==
  LET sent == Sent(form) IN {k \in Offered : sent[k] = Blank \/ sent[k] # settings[k]}
CanSave == Changes # {}

(* pvvx_struct.build over what the device has: what it accepts, and what it   *)
(* makes of it.  A multiplier that is no number, and the bytes of an older    *)
(* layout, it skips.                                                          *)
Bounds(k) ==
  CASE k \in {"adv", "mult", "lcd"} -> 1..255
    [] k \in {"latency", "averaging", "events"} -> 0..255
    [] k = "delay" -> 0..15
    [] k = "smiley" -> 0..7
    [] k = "switch" -> BOOLEAN
Skipped ==
  (IF form.mult = Blank THEN {"mult"} ELSE {})
  \union (IF settings.layout = "current" THEN {} ELSE {"delay", "events"})
Written == Changes \ Skipped
Accepted == LET sent == Sent(form) IN \A k \in Written : sent[k] \in Bounds(k)
Built ==
  LET sent == Sent(form) written == Written
  IN [k \in DOMAIN device |-> IF k \in written THEN sent[k] ELSE device[k]]

-----------------------------------------------------------------------------
(* The interval and the multiplier as the screen reads them while typing. *)
Advertised(fm) == AtLeast(2, Or(fm.adv, 2 * settings.adv))
Times(fm) == AtLeast(2, Or(fm.mult, 2))
Measured(fm) == Advertised(fm) * Times(fm)

SettingsInit ==
  /\ settings \in ReadSettings /\ device = settings
  /\ form = Show(settings)
  /\ effective = 2 * settings.adv * settings.mult
  /\ typing = MaxTyped

Types == typing > 0 /\ typing' = typing - 1 /\ UNCHANGED <<device, settings>>

(* The interval, or the multiplier: the period follows. *)
TypeFactor(k, v) ==
  LET typed == [form EXCEPT ![k] = v] IN
  /\ Types
  /\ form' = [typed EXCEPT !.period = Measured(typed)]
  /\ effective' = Measured(typed)

(* Mutant of TypePeriod: the effective measurement is left as it was. *)
TypePeriodQuietly(v) ==
  /\ Types
  /\ form' = [form EXCEPT !.period = v,
                !.mult = AtMost(255, AtLeast(2, Round(Or(v, 0), Advertised(form))))]
  /\ UNCHANGED effective

(* The period: the multiplier follows, as far as it goes. *)
TypePeriod(v) ==
  /\ Types
  /\ form' = [form EXCEPT !.period = v,
                !.mult = AtMost(255, AtLeast(2, Round(Or(v, 0), Advertised(form))))]
  /\ effective' = Measured(form')

TypeOther(k, v) ==
  /\ Types /\ form' = [form EXCEPT ![k] = v] /\ UNCHANGED effective

(* The firmware takes no multiplier of 1, and has another then. *)
Stored(s) == IF s.mult = 1 THEN {[s EXCEPT !.mult = n] : n \in {2, device.mult}} ELSE {s}

(* Mutant of Matches: what is read back is not looked at. *)
MatchesUnread(built) == TRUE

(* What is read back is compared with what was written. *)
Matches(built) == device' = built

(* The screen is left for the view of settings s, and opened again. *)
Reopened(s) ==
  /\ settings' = s /\ form' = Show(s) /\ effective' = 2 * s.adv * s.mult
  /\ UNCHANGED typing

Stays == UNCHANGED <<settings, form, effective, typing>>

(* A value out of its bounds is refused; over one that is no number every     *)
(* attempt breaks off.                                                        *)
SaveRefused == CanSave /\ ~Accepted /\ Stays /\ UNCHANGED device

(* The attempts are used up, before the write was taken or after it; or what  *)
(* is read back is not what was written, or the write was lost.               *)
SaveFailed == CanSave /\ Accepted /\ device' \in Stored(Built) \union {device} /\ Stays

(* The device has it already: before Save, or by an earlier attempt of the    *)
(* same Save, which the answer does not tell.  The screen is opened again on  *)
(* what was loaded before.                                                    *)
SaveUnchanged ==
  /\ CanSave /\ Accepted /\ Built \in Stored(Built)
  /\ device' = Built
  /\ Reopened(settings)

(* Connect, write, read back, compare: what was verified is what was loaded.  *)
SaveVerified ==
  /\ CanSave /\ Accepted /\ Built # device
  /\ device' \in Stored(Built) /\ Matches(Built)
  /\ Reopened(device')

SaveSettings == SaveRefused \/ SaveFailed \/ SaveUnchanged \/ SaveVerified

(* A choice, or a tick. *)
Pick == TypeOther("switch", ~form.switch) \/ \E n \in 0..7 : TypeOther("smiley", n)

SettingsNext ==
  \/ \E v \in Typed \union {Blank} :
       \/ \E k \in {"adv", "mult"} : TypeFactor(k, v)
       \/ TypePeriod(v)
       \/ \E k \in {"lcd", "latency", "averaging"} : TypeOther(k, v)
       \/ \E k \in {"delay", "events"} \intersect Offered : TypeOther(k, v)
  \/ Pick \/ SaveSettings

-----------------------------------------------------------------------------
(* The effective measurement that is shown is the one that Save brings about, *)
(* whichever of the interval, the multiplier and the period was typed last,   *)
(* for an interval of whole steps and a multiplier the firmware takes, while  *)
(* the device has what was loaded.                                            *)
EffectiveIsWritten ==
  device = settings /\ Blank \notin {form.adv, form.mult} /\ Accepted =>
    (form.adv > 0 /\ form.adv % 2 = 0 /\ form.mult >= 2
       => effective = 2 * Built.adv * Built.mult)

(* The screen shows n where the device has a value of k that can be written. *)
IsStep(k, n) ==
  CASE k \in {"adv", "lcd", "delay"} -> n % 2 = 0 /\ n \div 2 \in Bounds(k)
    [] k = "latency" -> n % 2 = 0 /\ n \div 2 - 1 \in Bounds(k)
    [] k = "mult" -> n \in 2..255
    [] OTHER -> n \in Bounds(k)

(* No step is nearer to v than s is. *)
Nearest(k, s, v) ==
  IF k = "switch" THEN s = v
  ELSE LET far == IF s >= v THEN s - v ELSE v - s
       IN \A n \in (v - far + 1)..(v + far - 1) : ~IsStep(k, n)

(* An empty field stands for what the device has, or for the least there is.  *)
Meant(k) ==
  IF form[k] # Blank THEN form[k]
  ELSE CASE k = "mult" -> device.mult [] k = "latency" -> 2 [] OTHER -> 0

(* What Save reported as saved, or as nothing new, the device has: every      *)
(* setting that was changed is the one in its field, or the nearest that can  *)
(* be written ("Saved & verified", panel.js:1954), whatever was typed last,   *)
(* refused, lost or taken unheard before.  So is a setting that was not sent, *)
(* but where the device has another than was loaded.  The fields of a         *)
(* transitional layout that are not written are left out.                     *)
WrittenIsShown ==
  [][SaveVerified \/ SaveUnchanged =>
       \A k \in Offered \ (IF settings.layout = "current" THEN {} ELSE {"delay", "events"}) :
         k \in Changes \/ device[k] = settings[k]
           => Nearest(k, Show(device')[k], Meant(k))]_settingsVars

(* Nothing is left to save where the screen was opened, or a value put back   *)
(* ("Save is enabled only when something actually changed", panel.js:1392),   *)
(* for all settings that can be read; but for those of a transitional layout, *)
(* whose fields are never as they were read.  And where nothing is left to    *)
(* save, what is shown is what was loaded, to the nearest step.               *)
NothingLeftToSave ==
  /\ form = Show(settings) /\ settings.layout # "transitional" => ~CanSave
  /\ ~CanSave => \A k \in Offered : Nearest(k, Show(settings)[k], Meant(k))
===============================================================================
