--------------------------- MODULE PanelForms_proofs ---------------------------
(***************************************************************************)
(* What the two edit screens promise, for every setting a device may have  *)
(* been read with, everything that may be typed and every set of sources.  *)
(***************************************************************************)
EXTENDS PanelForms, TLAPS

-----------------------------------------------------------------------------
(* The edit screen of a thermometer.  The label of the effective measurement  *)
(* always shows what the interval and the multiplier multiply to; the rest    *)
(* says that both are numbers, or empty.                                      *)
Whole(s) == {"adv", "mult"} \subseteq DOMAIN s /\ s.adv \in 1..255 /\ s.mult \in 2..255
Filled(fm) ==
  /\ {"adv", "mult", "period"} \subseteq DOMAIN fm
  /\ fm.adv \in Nat \union {Blank} /\ fm.mult \in Nat \union {Blank}
LabelInv ==
  Whole(device) /\ Whole(settings) /\ Filled(form) /\ effective = Measured(form)

(* A freshly opened screen has the label that fits its fields. *)
LEMMA ShownFits ==
  ASSUME NEW s, Whole(s), Whole(settings)
  PROVE  Filled(Show(s)) /\ Measured(Show(s)) = 2 * s.adv * s.mult
<1>1. Show(s).adv = 2 * s.adv /\ Show(s).mult = s.mult
  BY DEF Show
<1>2. {"adv", "mult", "period"} \subseteq DOMAIN Show(s)
  BY DEF Show
<1>3. 2 * s.adv \in Nat /\ 2 * s.adv >= 2 /\ s.mult \in Nat /\ s.mult >= 2
  BY DEF Whole
<1>4. 2 * s.adv \notin {Blank, 0} /\ s.mult \notin {Blank, 0}
  BY <1>3, SettingsAssumption
<1>5. Advertised(Show(s)) = 2 * s.adv /\ Times(Show(s)) = s.mult
  BY <1>1, <1>3, <1>4 DEF Advertised, Times, Or, AtLeast
<1> QED BY <1>1, <1>2, <1>3, <1>5 DEF Filled, Measured

(* The interval the screen reckons with is a positive number. *)
LEMMA AdvertisedPositive ==
  ASSUME NEW fm, Filled(fm), Whole(settings)
  PROVE  Advertised(fm) \in Nat /\ Advertised(fm) >= 2
BY SettingsAssumption DEF Filled, Whole, Advertised, Or, AtLeast

(* What build makes of the form is whole settings, but for a multiplier of 1. *)
LEMMA BuiltWhole ==
  ASSUME Whole(device), Accepted
  PROVE  {"adv", "mult"} \subseteq DOMAIN Built /\ Built.adv \in 1..255 /\ Built.mult \in 1..255
<1>1. \A k \in Written : Sent(form)[k] \in Bounds(k)
  BY DEF Accepted
<1>2. Bounds("adv") = 1..255 /\ Bounds("mult") = 1..255
  BY DEF Bounds
<1>3. /\ Built.adv = IF "adv" \in Written THEN Sent(form).adv ELSE device.adv
      /\ Built.mult = IF "mult" \in Written THEN Sent(form).mult ELSE device.mult
      /\ DOMAIN Built = DOMAIN device
  BY DEF Built, Whole
<1> QED BY <1>1, <1>2, <1>3 DEF Whole

-----------------------------------------------------------------------------
(* LabelInv holds when the screen is opened, and every step keeps it. *)
LEMMA LabelInit == ASSUME Init PROVE LabelInv
<1>1. settings \in Settings /\ device = settings
  BY SettingsAssumption DEF Init, SettingsInit
<1>2. Whole(settings) /\ Whole(device)
  BY <1>1 DEF Settings, Whole
<1>3. form = Show(settings) /\ effective = 2 * settings.adv * settings.mult
  BY DEF Init, SettingsInit
<1> QED BY <1>2, <1>3, ShownFits DEF LabelInv

LEMMA LabelTyped ==
  ASSUME LabelInv, NEW v \in Typed \union {Blank}, NEW k \in {"adv", "mult"}, TypeFactor(k, v)
  PROVE  LabelInv'
<1> DEFINE filled == [form EXCEPT ![k] = v]
<1>1. form' = [filled EXCEPT !.period = Measured(filled)] /\ effective' = Measured(filled)
  BY DEF TypeFactor
<1>2. device' = device /\ settings' = settings
  BY DEF TypeFactor, Types
<1>3. Filled(filled)
  BY SettingsAssumption DEF LabelInv, Filled
<1>4. form'.adv = filled.adv /\ form'.mult = filled.mult /\ Filled(form')
  BY <1>1, <1>3 DEF Filled
<1>5. Measured(form)' = Measured(filled)
  BY <1>2, <1>4 DEF Measured, Advertised, Times
<1> QED BY <1>1, <1>2, <1>4, <1>5 DEF LabelInv, Whole, Filled

LEMMA LabelPeriod ==
  ASSUME LabelInv, NEW v \in Typed \union {Blank}, TypePeriod(v)
  PROVE  LabelInv'
<1> DEFINE n == AtMost(255, AtLeast(2, Round(Or(v, 0), Advertised(form))))
<1>1. form' = [form EXCEPT !.period = v, !.mult = n] /\ effective' = Measured(form')
  BY DEF TypePeriod
<1>2. device' = device /\ settings' = settings
  BY DEF TypePeriod, Types
<1>3. Or(v, 0) \in Nat /\ Advertised(form) \in Nat /\ Advertised(form) >= 2
  BY AdvertisedPositive, SettingsAssumption DEF LabelInv, Or
<1>4. Round(Or(v, 0), Advertised(form)) \in Int
  BY <1>3 DEF Round
<1>5. n \in Nat
  BY <1>4 DEF AtMost, AtLeast
<1>6. form'.adv = form.adv /\ form'.mult = n /\ DOMAIN form' = DOMAIN form
  BY <1>1 DEF LabelInv, Filled
<1>7. Filled(form)'
  BY <1>5, <1>6 DEF LabelInv, Filled
<1> QED BY <1>1, <1>2, <1>7 DEF LabelInv, Whole, Measured, Advertised

LEMMA LabelOther ==
  ASSUME LabelInv, NEW v, NEW k, k \notin {"adv", "mult", "period"}, TypeOther(k, v)
  PROVE  LabelInv'
<1>1. form' = [form EXCEPT ![k] = v] /\ UNCHANGED <<device, settings, effective>>
  BY DEF TypeOther, Types
<1>2. form'.adv = form.adv /\ form'.mult = form.mult /\ DOMAIN form' = DOMAIN form
  BY <1>1 DEF LabelInv, Filled
<1> QED BY <1>1, <1>2 DEF LabelInv, Whole, Filled, Measured, Advertised, Times

(* The device keeps whole settings, whether a write was taken or not.         *)
LEMMA StoredWhole ==
  ASSUME LabelInv, Accepted, device' \in Stored(Built) \union {device}
  PROVE  Whole(device)'
<1>1. {"adv", "mult"} \subseteq DOMAIN Built /\ Built.adv \in 1..255 /\ Built.mult \in 1..255
  BY BuiltWhole DEF LabelInv
<1>2. CASE device' = device
  BY <1>2 DEF LabelInv, Whole
<1>3. CASE device' \in Stored(Built) /\ Built.mult = 1
  <2>1. PICK n \in {2, device.mult} : device' = [Built EXCEPT !.mult = n]
    BY <1>3 DEF Stored
  <2>2. n \in 2..255
    BY DEF LabelInv, Whole
  <2> QED BY <1>1, <2>1, <2>2 DEF Whole
<1>4. CASE device' \in Stored(Built) /\ Built.mult # 1
  BY <1>1, <1>4 DEF Stored, Whole
<1> QED BY <1>2, <1>3, <1>4

LEMMA LabelReopened ==
  ASSUME LabelInv, Whole(device)', NEW s, Whole(s), Reopened(s)
  PROVE  LabelInv'
<1>1. settings' = s /\ form' = Show(s) /\ effective' = 2 * s.adv * s.mult
  BY DEF Reopened
<1>2. Show(s).adv = 2 * s.adv /\ Show(s).mult = s.mult
      /\ {"adv", "mult", "period"} \subseteq DOMAIN Show(s)
  BY DEF Show
<1>3. 2 * s.adv \in Nat /\ 2 * s.adv >= 2 /\ s.mult \in Nat /\ s.mult >= 2
  BY DEF Whole
<1>4. 2 * s.adv \notin {Blank, 0} /\ s.mult \notin {Blank, 0}
  BY <1>3, SettingsAssumption
<1>5. Measured(form)' = 2 * s.adv * s.mult
  BY <1>1, <1>2, <1>3, <1>4 DEF Measured, Advertised, Times, Or, AtLeast
<1>6. Filled(form)'
  BY <1>1, <1>2, <1>3 DEF Filled
<1>7. Whole(settings)'
  BY <1>1 DEF Whole
<1> QED BY <1>1, <1>5, <1>6, <1>7 DEF LabelInv

LEMMA LabelStays ==
  ASSUME LabelInv, Whole(device)', Stays
  PROVE  LabelInv'
BY DEF Stays, LabelInv, Whole, Filled, Measured, Advertised, Times

LEMMA LabelSaved ==
  ASSUME LabelInv, SaveSettings
  PROVE  LabelInv'
<1>1. CASE SaveRefused
  BY <1>1, LabelStays DEF SaveRefused, LabelInv, Whole
<1>2. CASE SaveFailed
  BY <1>2, StoredWhole, LabelStays DEF SaveFailed
<1>3. CASE SaveUnchanged
  <2>1. Accepted /\ device' \in Stored(Built) \union {device} /\ Reopened(settings)
    BY <1>3 DEF SaveUnchanged
  <2>2. Whole(device)'
    BY <2>1, StoredWhole
  <2> QED BY <2>1, <2>2, LabelReopened DEF LabelInv
<1>4. CASE SaveVerified
  <2>1. Accepted /\ device' \in Stored(Built) \union {device} /\ Reopened(device')
    BY <1>4 DEF SaveVerified
  <2>2. Whole(device)'
    BY <2>1, StoredWhole
  <2>3. Whole(device')
    BY <2>2 DEF Whole
  <2> QED BY <2>1, <2>2, <2>3, LabelReopened
<1> QED BY <1>1, <1>2, <1>3, <1>4 DEF SaveSettings

LEMMA LabelNext == ASSUME LabelInv, [Next]_vars PROVE LabelInv'
<1>1. CASE UNCHANGED settingsVars
  BY <1>1 DEF settingsVars, LabelInv, Whole, Filled, Measured, Advertised, Times
<1>2. CASE SettingsNext
  <2>1. ASSUME NEW v \in Typed \union {Blank}, NEW k \in {"adv", "mult"}, TypeFactor(k, v)
        PROVE  LabelInv'
    BY <2>1, LabelTyped
  <2>2. ASSUME NEW v \in Typed \union {Blank}, TypePeriod(v) PROVE LabelInv'
    BY <2>2, LabelPeriod
  <2>3. ASSUME NEW v, NEW k \in {"lcd", "latency", "averaging", "delay", "events", "switch", "smiley"},
               TypeOther(k, v)
        PROVE  LabelInv'
    BY <2>3, LabelOther
  <2>4. CASE Pick
    BY <2>3, <2>4 DEF Pick
  <2>5. CASE SaveSettings
    BY <2>5, LabelSaved
  <2> QED BY <1>2, <2>1, <2>2, <2>3, <2>4, <2>5 DEF SettingsNext
<1> QED BY <1>1, <1>2 DEF Next, vars

(* While LabelInv holds, the label is what Save brings about. *)
LEMMA LabelIsWritten == ASSUME LabelInv PROVE EffectiveIsWritten
<1> SUFFICES ASSUME device = settings, Blank \notin {form.adv, form.mult}, Accepted,
                    form.adv > 0, form.adv % 2 = 0, form.mult >= 2
             PROVE  effective = 2 * Built.adv * Built.mult
  BY DEF EffectiveIsWritten
<1>1. form.adv \in Nat /\ form.mult \in Nat
  BY DEF LabelInv, Filled
<1>2. form.adv >= 2
  BY <1>1
<1>3. Sent(form).adv = Round(form.adv, 2) /\ Sent(form).mult = form.mult
  BY DEF Sent
<1>4. Round(form.adv, 2) \in Nat /\ form.adv = 2 * Round(form.adv, 2)
  BY <1>1 DEF Round
<1>5. {"adv", "mult"} \subseteq Offered
  BY DEF Offered, Sent
<1>6. {"adv", "mult"} \intersect Skipped = {}
  BY DEF Skipped
<1>7. "adv" \notin Written => settings.adv = Sent(form).adv
  BY <1>5, <1>6 DEF Written, Changes
<1>8. "mult" \notin Written => settings.mult = Sent(form).mult
  BY <1>5, <1>6 DEF Written, Changes
<1>9. /\ Built.adv = IF "adv" \in Written THEN Sent(form).adv ELSE device.adv
      /\ Built.mult = IF "mult" \in Written THEN Sent(form).mult ELSE device.mult
  BY DEF Built, LabelInv, Whole
<1>10. Built.adv = Round(form.adv, 2) /\ Built.mult = form.mult
  BY <1>3, <1>7, <1>8, <1>9
<1>11. Advertised(form) = form.adv /\ Times(form) = form.mult
  BY <1>1, <1>2 DEF Advertised, Times, Or, AtLeast
<1> QED BY <1>4, <1>10, <1>11 DEF LabelInv, Measured

(* The effective measurement that is shown is the one Save brings about, for  *)
(* every setting that was read and everything that is typed.                  *)
THEOREM EffectiveCorrect == Spec => []EffectiveIsWritten
<1>1. Init => LabelInv
  BY LabelInit
<1>2. LabelInv /\ [Next]_vars => LabelInv'
  BY LabelNext
<1>3. LabelInv => EffectiveIsWritten
  BY LabelIsWritten
<1> QED BY <1>1, <1>2, <1>3, PTL DEF Spec

-----------------------------------------------------------------------------
(* What may be in the fields, and the settings a device has and was read with. *)
Number == Nat \union {Blank}
Fields ==
  [adv : Number, mult : Number, period : Number, lcd : Number, delay : Number,
   events : Number, latency : Number, averaging : Number, smiley : 0..7, switch : BOOLEAN]
Legal(s) == s \in Settings /\ (s.layout = "current" <=> Blank \notin {s.delay, s.events})
ScreenInv ==
  Legal(device) /\ Legal(settings) /\ device.layout = settings.layout /\ form \in Fields

(* To the nearest step: what is sent is less than a step from what is shown.  *)
LEMMA Rounded ==
  ASSUME NEW f \in Nat
  PROVE  /\ Round(f, 2) \in Nat /\ 2 * Round(f, 2) - f \in {0, 1}
         /\ Round(2 * f, 2) = f /\ (f >= 2 => Round(f, 2) >= 1)
BY DEF Round

(* A field that is not empty is sent as the nearest step, or as it is.        *)
LEMMA SentField ==
  ASSUME form \in Fields
  PROVE  LET send == Sent(form) IN
         /\ DOMAIN send = {"adv", "mult", "lcd", "delay", "events", "latency", "averaging",
                           "smiley", "switch"}
         /\ \A k \in {"mult", "events", "smiley", "switch"} : send[k] = form[k]
         /\ form.averaging # Blank => send.averaging = form.averaging
         /\ form.adv # Blank => send.adv = Round(form.adv, 2)
         /\ \A k \in {"lcd", "delay"} : form[k] # Blank => send[k] = Round(form[k], 2)
         /\ form.latency # Blank /\ form.latency > 1 => send.latency = Round(form.latency, 2) - 1
<1> DEFINE send == Sent(form)
<1>1. /\ send.adv = IF form.adv = Blank THEN Blank ELSE Round(form.adv, 2)
      /\ send.mult = form.mult /\ send.lcd = Round(Or(form.lcd, 0), 2)
      /\ send.delay = Round(Or(form.delay, 0), 2) /\ send.events = form.events
      /\ send.latency = AtLeast(0, Round(Or(form.latency, 2), 2) - 1)
      /\ send.averaging = Or(form.averaging, 0)
      /\ send.smiley = form.smiley /\ send.switch = form.switch
      /\ DOMAIN send = {"adv", "mult", "lcd", "delay", "events", "latency", "averaging",
                        "smiley", "switch"}
  BY DEF Sent
<1>2. \A v : v # Blank => Or(v, 0) = v
  BY DEF Or
<1>3. ASSUME form.latency # Blank, form.latency > 1
      PROVE  send.latency = Round(form.latency, 2) - 1
  <2>1. form.latency \in Nat
    BY <1>3 DEF Fields, Number
  <2>2. Or(form.latency, 2) = form.latency /\ Round(form.latency, 2) >= 1
        /\ Round(form.latency, 2) \in Nat
    BY <1>3, <2>1, Rounded DEF Or
  <2> QED BY <1>1, <2>2 DEF AtLeast
<1> HIDE DEF send
<1>4. /\ \A k \in {"mult", "events", "smiley", "switch"} : send[k] = form[k]
      /\ form.averaging # Blank => send.averaging = form.averaging
      /\ form.adv # Blank => send.adv = Round(form.adv, 2)
      /\ \A k \in {"lcd", "delay"} : form[k] # Blank => send[k] = Round(form[k], 2)
  BY <1>1, <1>2
<1> QED BY <1>1, <1>3, <1>4 DEF send

(* What build makes of the form, setting by setting.                          *)
LEMMA BuiltField ==
  ASSUME ScreenInv, Accepted, NEW k \in DOMAIN device
  PROVE  /\ DOMAIN Built = DOMAIN device
         /\ Built[k] \in {device[k], Sent(form)[k]}
         /\ k \in Written => Built[k] = Sent(form)[k] /\ Sent(form)[k] \in Bounds(k)
         /\ k \notin Written => Built[k] = device[k]
         /\ k = "layout" => k \notin Written
         /\ k \in {"delay", "events"} /\ k \in Written => settings.layout = "current"
<1>1. /\ DOMAIN Built = DOMAIN device
      /\ Built[k] = IF k \in Written THEN Sent(form)[k] ELSE device[k]
  BY DEF Built
<1>2. k = "layout" => k \notin Written
  BY SentField DEF Written, Changes, Offered, ScreenInv
<1>3. k \in {"delay", "events"} /\ k \in Written => settings.layout = "current"
  BY DEF Written, Skipped
<1> QED BY <1>1, <1>2, <1>3 DEF Accepted

(* What build makes is settings a device may have, but for a multiplier of 1. *)
LEMMA BuiltLegal ==
  ASSUME ScreenInv, Accepted
  PROVE  /\ Built \in [adv : 1..255, mult : 1..255, lcd : Byte, latency : Byte,
                       averaging : Byte, smiley : 0..7, switch : BOOLEAN,
                       delay : 0..15 \union {Blank}, events : Byte \union {Blank},
                       layout : {"current", "legacy", "transitional"}]
         /\ Built.layout = device.layout
         /\ Built.layout = "current" <=> Blank \notin {Built.delay, Built.events}
<1>0. device \in Settings /\ device.layout = settings.layout
  BY DEF ScreenInv, Legal
<1>1. DOMAIN device = {"adv", "mult", "lcd", "latency", "averaging", "smiley", "switch",
                       "delay", "events", "layout"}
  BY <1>0 DEF Settings
<1>2. /\ DOMAIN Built = DOMAIN device
      /\ \A k \in DOMAIN Built : Built[k] = IF k \in Written THEN Sent(form)[k] ELSE device[k]
      /\ \A k \in Written \intersect DOMAIN device : Built[k] \in Bounds(k)
  BY BuiltField, <1>1 DEF Built
<1>3. /\ Built.adv \in 1..255 /\ Built.mult \in 1..255
      /\ Built.smiley \in 0..7 /\ Built.switch \in BOOLEAN
  BY <1>0, <1>1, <1>2 DEF Bounds, Settings
<1>4. Built.lcd \in Byte /\ Built.latency \in Byte /\ Built.averaging \in Byte
  BY <1>0, <1>1, <1>2 DEF Bounds, Settings, Byte
<1>5. Built.delay \in 0..15 \union {Blank} /\ Built.events \in Byte \union {Blank}
  BY <1>0, <1>1, <1>2 DEF Bounds, Settings, Byte
<1>6. Built.layout = device.layout
  BY <1>1, <1>2, BuiltField
<1>7. Built.layout = "current" <=> Blank \notin {Built.delay, Built.events}
  <2>1. CASE settings.layout = "current"
    <3>1. device.delay # Blank /\ device.events # Blank
      BY <1>0, <2>1 DEF ScreenInv, Legal
    <3>2. Bounds("delay") = 0..15 /\ Bounds("events") = 0..255
      BY DEF Bounds
    <3>3. Built.delay # Blank /\ Built.events # Blank
      BY <1>1, <1>2, <3>1, <3>2, SettingsAssumption
    <3> QED BY <1>0, <1>6, <2>1, <3>3
  <2>2. CASE settings.layout # "current"
    <3>1. Built.delay = device.delay /\ Built.events = device.events
      BY <1>1, <2>2, BuiltField
    <3> QED BY <1>0, <1>6, <2>2, <3>1 DEF ScreenInv, Legal
  <2> QED BY <2>1, <2>2
<1> QED
  <2> DEFINE b == Built
  <2>1. b = [k \in DOMAIN b |-> b[k]]
    BY DEF Built
  <2> HIDE DEF b
  <2>2. b \in [adv : 1..255, mult : 1..255, lcd : Byte, latency : Byte,
               averaging : Byte, smiley : 0..7, switch : BOOLEAN,
               delay : 0..15 \union {Blank}, events : Byte \union {Blank},
               layout : {"current", "legacy", "transitional"}]
    BY <1>0, <1>1, <1>2, <1>3, <1>4, <1>5, <1>6, <2>1 DEF b, Settings
  <2> QED BY <1>6, <1>7, <2>2 DEF b

(* Settings that were read fit the fields they are shown in.                  *)
LEMMA ShownFields == ASSUME NEW s, Legal(s) PROVE Show(s) \in Fields
<1>1. /\ s.adv \in Nat /\ s.mult \in Nat /\ s.lcd \in Nat /\ s.latency \in Nat
      /\ s.averaging \in Nat /\ s.smiley \in 0..7 /\ s.switch \in BOOLEAN
      /\ s.delay \in Nat \union {Blank} /\ s.events \in Nat \union {Blank}
  BY DEF Legal, Settings, Byte
<1>2. 2 * s.adv * s.mult \in Nat
  BY <1>1
<1>3. (IF s.delay = Blank THEN Blank ELSE 2 * s.delay) \in Number
  BY <1>1 DEF Number
<1> QED BY <1>1, <1>2, <1>3 DEF Show, Fields, Number

LEMMA ScreenInit == ASSUME Init PROVE ScreenInv
BY ShownFields, SettingsAssumption DEF Init, SettingsInit, ScreenInv, Legal

LEMMA ScreenTypes ==
  ASSUME ScreenInv, NEW f \in Fields, form' = f, UNCHANGED <<device, settings>>
  PROVE  ScreenInv'
BY DEF ScreenInv

LEMMA StoredLegal ==
  ASSUME ScreenInv, Accepted, device' \in Stored(Built) \union {device}
  PROVE  Legal(device') /\ device'.layout = device.layout
<1> DEFINE b == Built
<1>1. /\ b \in [adv : 1..255, mult : 1..255, lcd : Byte, latency : Byte,
                averaging : Byte, smiley : 0..7, switch : BOOLEAN,
                delay : 0..15 \union {Blank}, events : Byte \union {Blank},
                layout : {"current", "legacy", "transitional"}]
      /\ b.layout = device.layout
      /\ b.layout = "current" <=> Blank \notin {b.delay, b.events}
  BY BuiltLegal
<1>2. device' \in Stored(b) \union {device}
  OBVIOUS
<1> HIDE DEF b
<1>3. CASE device' = device
  BY <1>3 DEF ScreenInv
<1>4. CASE device' \in Stored(b) /\ b.mult = 1
  <2>1. PICK n \in {2, device.mult} : device' = [b EXCEPT !.mult = n]
    BY <1>4 DEF Stored
  <2>2. n \in 2..255
    BY DEF ScreenInv, Legal, Settings
  <2> QED BY <1>1, <2>1, <2>2 DEF Legal, Settings
<1>5. CASE device' \in Stored(b) /\ b.mult # 1
  <2>1. device' = b /\ b.mult \in 2..255
    BY <1>1, <1>5 DEF Stored
  <2> QED BY <1>1, <2>1 DEF Legal, Settings
<1> QED BY <1>2, <1>3, <1>4, <1>5

LEMMA ScreenReopened ==
  ASSUME ScreenInv, NEW s, Legal(s), s.layout = settings.layout, Reopened(s),
         Legal(device'), device'.layout = device.layout
  PROVE  ScreenInv'
<1>1. settings' = s /\ form' = Show(s)
  BY DEF Reopened
<1> QED BY <1>1, ShownFields DEF ScreenInv, Legal

LEMMA ScreenSaved ==
  ASSUME ScreenInv, SaveSettings
  PROVE  ScreenInv'
<1>1. CASE SaveRefused
  BY <1>1 DEF SaveRefused, Stays, ScreenInv
<1>2. CASE SaveFailed
  <2>1. Legal(device') /\ device'.layout = device.layout
    BY <1>2, StoredLegal DEF SaveFailed
  <2> QED BY <1>2, <2>1 DEF SaveFailed, Stays, ScreenInv, Legal
<1>3. CASE SaveUnchanged
  <2>1. Accepted /\ device' \in Stored(Built) \union {device} /\ Reopened(settings)
    BY <1>3 DEF SaveUnchanged
  <2>2. Legal(device') /\ device'.layout = device.layout
    BY <2>1, StoredLegal
  <2> QED BY <2>1, <2>2, ScreenReopened DEF ScreenInv
<1>4. CASE SaveVerified
  <2>1. Accepted /\ device' \in Stored(Built) \union {device} /\ Reopened(device')
    BY <1>4 DEF SaveVerified
  <2>2. Legal(device') /\ device'.layout = device.layout
    BY <2>1, StoredLegal
  <2> QED BY <2>1, <2>2, ScreenReopened DEF ScreenInv
<1> QED BY <1>1, <1>2, <1>3, <1>4 DEF SaveSettings

LEMMA ScreenNext == ASSUME ScreenInv, LabelInv, [Next]_vars PROVE ScreenInv'
<1>0. form \in Fields
  BY DEF ScreenInv
<1>1. CASE UNCHANGED settingsVars
  BY <1>1 DEF settingsVars, ScreenInv
<1>2. ASSUME NEW v \in Typed \union {Blank} PROVE v \in Number
  BY SettingsAssumption DEF Number
<1>3. ASSUME NEW v \in Typed \union {Blank}, NEW k \in {"adv", "mult"}, TypeFactor(k, v)
      PROVE  ScreenInv'
  <2> DEFINE filled == [form EXCEPT ![k] = v]
  <2>1. form' = [filled EXCEPT !.period = Measured(filled)] /\ UNCHANGED <<device, settings>>
    BY <1>3 DEF TypeFactor, Types
  <2>2. filled \in Fields
    BY <1>0, <1>2, <1>3 DEF Fields
  <2>3. Filled(filled) /\ Whole(settings)
    BY <2>2 DEF Fields, Filled, Number, LabelInv
  <2> HIDE DEF filled
  <2>4. Advertised(filled) \in Nat
    BY <2>3, AdvertisedPositive
  <2>5. Times(filled) \in Nat
    BY <2>3, SettingsAssumption DEF Filled, Times, Or, AtLeast
  <2>6. Measured(filled) \in Number
    BY <2>4, <2>5 DEF Measured, Number
  <2>7. form' \in Fields
    BY <2>1, <2>2, <2>6 DEF Fields
  <2> QED BY <2>1, <2>7, ScreenTypes
<1>4. ASSUME NEW v \in Typed \union {Blank}, TypePeriod(v) PROVE ScreenInv'
  <2> DEFINE n == AtMost(255, AtLeast(2, Round(Or(v, 0), Advertised(form))))
  <2>1. form' = [form EXCEPT !.period = v, !.mult = n] /\ UNCHANGED <<device, settings>>
    BY <1>4 DEF TypePeriod, Types
  <2>2. Or(v, 0) \in Nat /\ Advertised(form) \in Nat /\ Advertised(form) >= 2
    BY AdvertisedPositive, SettingsAssumption DEF LabelInv, Or
  <2>3. Round(Or(v, 0), Advertised(form)) \in Int
    BY <2>2 DEF Round
  <2>4. n \in Number
    BY <2>3 DEF AtMost, AtLeast, Number
  <2> HIDE DEF n
  <2>5. form' \in Fields
    BY <1>0, <1>2, <2>1, <2>4 DEF Fields
  <2> QED BY <2>1, <2>5, ScreenTypes
<1>5. ASSUME NEW v, NEW k, TypeOther(k, v), [form EXCEPT ![k] = v] \in Fields PROVE ScreenInv'
  BY <1>5, ScreenTypes DEF TypeOther, Types
<1>6. ASSUME NEW v \in Number, NEW k \in {"lcd", "latency", "averaging", "delay", "events"},
             TypeOther(k, v)
      PROVE  ScreenInv'
  <2>1. [form EXCEPT ![k] = v] \in Fields
    BY <1>0 DEF Fields
  <2> QED BY <1>5, <1>6, <2>1
<1>7. CASE Pick
  <2>1. [form EXCEPT !["switch"] = ~form.switch] \in Fields
    BY <1>0 DEF Fields
  <2>2. \A n \in 0..7 : [form EXCEPT !["smiley"] = n] \in Fields
    BY <1>0 DEF Fields
  <2> QED BY <1>5, <1>7, <2>1, <2>2 DEF Pick
<1>8. CASE SettingsNext
  BY <1>2, <1>3, <1>4, <1>6, <1>7, <1>8, ScreenSaved DEF SettingsNext
<1> QED BY <1>1, <1>8 DEF Next, vars

(* Where the screen was just opened there is nothing to save.                 *)
LEMMA NothingToSave ==
  ASSUME ScreenInv, form = Show(settings), settings.layout # "transitional"
  PROVE  ~CanSave
<1> DEFINE send == Sent(form)
<1>1. form \in Fields /\ settings \in Settings
  BY DEF ScreenInv, Legal
<1>2. /\ form.adv = 2 * settings.adv /\ form.mult = settings.mult /\ form.lcd = 2 * settings.lcd
      /\ form.latency = 2 * (settings.latency + 1) /\ form.averaging = settings.averaging
      /\ form.events = settings.events /\ form.smiley = settings.smiley
      /\ form.switch = settings.switch
      /\ form.delay = IF settings.delay = Blank THEN Blank ELSE 2 * settings.delay
  BY DEF Show
<1>3. /\ settings.adv \in Nat /\ settings.mult \in Nat /\ settings.lcd \in Nat
      /\ settings.latency \in Nat /\ settings.averaging \in Nat
      /\ settings.smiley \in Nat /\ settings.switch \in BOOLEAN
  BY <1>1 DEF Settings, Byte
<1>4. Blank \notin Nat \union BOOLEAN
  BY SettingsAssumption
<1>5. send.adv = settings.adv /\ send.lcd = settings.lcd
  <2>1. form.adv # Blank /\ form.lcd # Blank
    BY <1>2, <1>3, <1>4
  <2> QED BY <1>1, <1>2, <1>3, <2>1, SentField, Rounded
<1>6. send.latency = settings.latency
  <2>1. form.latency # Blank /\ form.latency > 1 /\ settings.latency + 1 \in Nat
    BY <1>2, <1>3, <1>4
  <2>2. Round(form.latency, 2) = settings.latency + 1
    BY <1>2, <2>1, Rounded
  <2> QED BY <1>1, <1>3, <2>1, <2>2, SentField
<1>7. /\ send.mult = settings.mult /\ send.averaging = settings.averaging
      /\ send.smiley = settings.smiley /\ send.switch = settings.switch
      /\ send.events = settings.events
  BY <1>1, <1>2, <1>3, <1>4, SentField
<1>8. settings.layout = "current" => /\ send.delay = settings.delay
                                     /\ Blank \notin {settings.delay, settings.events}
  <2> SUFFICES ASSUME settings.layout = "current"
               PROVE  /\ send.delay = settings.delay
                      /\ Blank \notin {settings.delay, settings.events}
    OBVIOUS
  <2>1. settings.delay # Blank /\ settings.events # Blank
    BY DEF ScreenInv, Legal
  <2>2. settings.delay \in Nat
    BY <1>1, <2>1 DEF Settings
  <2>3. form.delay = 2 * settings.delay /\ form.delay # Blank
    BY <1>2, <1>4, <2>1, <2>2
  <2> QED BY <1>1, <2>1, <2>2, <2>3, SentField, Rounded
<1>9. \A k \in Offered :
         \/ k \in {"adv", "mult", "lcd", "latency", "averaging", "smiley", "switch"}
         \/ settings.layout = "current" /\ k \in {"delay", "events"}
  <2>1. settings.layout \in {"current", "legacy"}
    BY <1>1 DEF Settings
  <2> QED BY <1>1, <2>1, SentField DEF Offered
<1> HIDE DEF send
<1>10. \A k \in Offered : send[k] # Blank /\ send[k] = settings[k]
  BY <1>3, <1>4, <1>5, <1>6, <1>7, <1>8, <1>9
<1> QED BY <1>10 DEF CanSave, Changes, send

(* What the screen shows of one setting that the device has.                  *)
AsShown(k, b) ==
  IF k \in {"adv", "lcd", "delay"} THEN 2 * b ELSE IF k = "latency" THEN 2 * (b + 1) ELSE b

LEMMA ShownSetting ==
  ASSUME NEW s, NEW k \in {"adv", "mult", "lcd", "delay", "events", "latency", "averaging",
                           "smiley", "switch"},
         s[k] # Blank
  PROVE  Show(s)[k] = AsShown(k, s[k])
BY DEF Show, AsShown

(* Half a step above what is meant there is none nearer, if that is none.     *)
LEMMA NearestAbove ==
  ASSUME NEW k, k # "switch", NEW s \in Nat, NEW v \in Nat,
         s = v \/ (s = v + 1 /\ ~IsStep(k, v))
  PROVE  Nearest(k, s, v)
<1>1. CASE s = v
  <2>1. (v - 0 + 1)..(v + 0 - 1) = {}
    OBVIOUS
  <2> QED BY <1>1, <2>1 DEF Nearest
<1>2. CASE s = v + 1 /\ ~IsStep(k, v)
  <2>1. s >= v /\ s - v = 1
    BY <1>2
  <2>2. \A n \in (v - 1 + 1)..(v + 1 - 1) : n = v
    OBVIOUS
  <2> QED BY <1>2, <2>1, <2>2 DEF Nearest
<1> QED BY <1>1, <1>2

LEMMA OddIsNoStep ==
  ASSUME NEW k \in {"adv", "lcd", "delay", "latency"}, NEW v, v % 2 # 0
  PROVE  ~IsStep(k, v)
<1>1. CASE k = "latency"
  BY <1>1 DEF IsStep
<1>2. CASE k \in {"adv", "lcd", "delay"}
  BY <1>2 DEF IsStep
<1> QED BY <1>1, <1>2

(* What is sent is the nearest step to what is meant.                         *)
LEMMA SentNearest ==
  ASSUME form \in Fields, NEW k \in DOMAIN Sent(form), Sent(form)[k] # Blank
  PROVE  Nearest(k, AsShown(k, Sent(form)[k]), Meant(k))
<1> DEFINE send == Sent(form)
<1>1. /\ send.adv = IF form.adv = Blank THEN Blank ELSE Round(form.adv, 2)
      /\ send.mult = form.mult /\ send.lcd = Round(Or(form.lcd, 0), 2)
      /\ send.delay = Round(Or(form.delay, 0), 2) /\ send.events = form.events
      /\ send.latency = AtLeast(0, Round(Or(form.latency, 2), 2) - 1)
      /\ send.averaging = Or(form.averaging, 0)
      /\ send.smiley = form.smiley /\ send.switch = form.switch
      /\ DOMAIN send = {"adv", "mult", "lcd", "delay", "events", "latency", "averaging",
                        "smiley", "switch"}
  BY DEF Sent
<1>2. send[k] # Blank /\ k \in DOMAIN send
  OBVIOUS
<1>3. Blank \notin Nat \union BOOLEAN
  BY SettingsAssumption
<1> HIDE DEF send
<1>4. CASE k = "switch"
  <2>1. send[k] = form.switch /\ form.switch \in BOOLEAN
    BY <1>1, <1>4 DEF Fields
  <2> QED BY <1>3, <1>4, <2>1 DEF Nearest, AsShown, Meant, send
<1>5. CASE k \in {"mult", "events", "smiley", "averaging"}
  <2>1. send[k] \in Nat /\ Meant(k) = send[k]
    BY <1>1, <1>2, <1>3, <1>5 DEF Fields, Number, Meant, Or
  <2>2. AsShown(k, send[k]) = send[k]
    BY <1>5 DEF AsShown
  <2>3. k # "switch" /\ Meant(k) \in Nat
    BY <1>5, <2>1
  <2>4. Nearest(k, send[k], Meant(k))
    BY <2>1, <2>3, NearestAbove, Zenon
  <2> QED BY <2>2, <2>4 DEF send
<1>6. CASE k \in {"adv", "lcd", "delay"}
  <2>1. Meant(k) \in Nat /\ send[k] = Round(Meant(k), 2)
    BY <1>1, <1>2, <1>3, <1>6 DEF Fields, Number, Meant, Or
  <2>2. Round(Meant(k), 2) \in Nat /\ 2 * Round(Meant(k), 2) - Meant(k) \in {0, 1}
    BY <2>1, Rounded
  <2>3. AsShown(k, send[k]) = 2 * Round(Meant(k), 2)
    BY <1>6, <2>1 DEF AsShown
  <2>4. ASSUME 2 * Round(Meant(k), 2) = Meant(k) + 1 PROVE Meant(k) % 2 # 0
    BY <2>1, <2>2, <2>4
  <2> DEFINE s == 2 * Round(Meant(k), 2)
  <2>5. s \in Nat /\ (s = Meant(k) \/ s = Meant(k) + 1) /\ k # "switch"
    BY <1>6, <2>1, <2>2
  <2>6. s = Meant(k) + 1 => ~IsStep(k, Meant(k))
    BY <1>6, <2>4, OddIsNoStep, Zenon
  <2>7. Nearest(k, s, Meant(k))
    <3> HIDE DEF s
    <3> QED BY <2>1, <2>5, <2>6, NearestAbove, Zenon
  <2> QED BY <2>3, <2>7 DEF send
<1>7. CASE k = "latency"
  <2> DEFINE v == Meant(k)
  <2>1. v \in Nat /\ v = IF form.latency = Blank THEN 2 ELSE form.latency
    BY <1>7 DEF Fields, Number, Meant
  <2>2. CASE v >= 2
    <3>1. send[k] = AtLeast(0, Round(v, 2) - 1)
      BY <1>1, <1>7, <2>1, <2>2 DEF Or
    <3>2. Round(v, 2) \in Nat /\ Round(v, 2) >= 1 /\ 2 * Round(v, 2) - v \in {0, 1}
      BY <2>1, <2>2, Rounded
    <3>3. AsShown(k, send[k]) = 2 * Round(v, 2)
      BY <1>7, <3>1, <3>2 DEF AsShown, AtLeast
    <3>4. ASSUME 2 * Round(v, 2) = v + 1 PROVE v % 2 # 0
      BY <2>1, <3>2, <3>4
    <3> DEFINE s == 2 * Round(v, 2)
    <3>5. s \in Nat /\ (s = v \/ s = v + 1) /\ k # "switch"
      BY <1>7, <2>1, <3>2
    <3>6. s = v + 1 => ~IsStep(k, v)
      BY <1>7, <3>4, OddIsNoStep, Zenon
    <3>7. Nearest(k, s, v)
      <4> HIDE DEF s, v
      <4> QED BY <2>1, <3>5, <3>6, NearestAbove, Zenon
    <3> QED BY <3>3, <3>7 DEF send
  <2>3. CASE v < 2
    <3>1. Or(form.latency, 2) \in {1, 2}
      BY <2>1, <2>3, <1>3 DEF Or
    <3>2. send[k] = 0
      BY <1>1, <1>7, <3>1 DEF Round, AtLeast
    <3>3. AsShown(k, send[k]) = 2
      BY <1>7, <3>2 DEF AsShown
    <3>4. \A n \in (-1)..1 : ~IsStep(k, n)
      <4>1. ~(0 \div 2 - 1 \in Bounds("latency"))
        BY DEF Bounds
      <4>2. \A n \in (-1)..1 : n % 2 = 0 => n = 0
        OBVIOUS
      <4> QED BY <1>7, <4>1, <4>2 DEF IsStep
    <3>5. v \in {0, 1}
      BY <2>1, <2>3
    <3>6. 2 >= v /\ \A n \in (v - (2 - v) + 1)..(v + (2 - v) - 1) : n \in (-1)..1
      BY <3>5
    <3> QED BY <1>7, <3>3, <3>4, <3>6 DEF Nearest, send
  <2> QED BY <2>1, <2>2, <2>3
<1> QED BY <1>1, <1>2, <1>4, <1>5, <1>6, <1>7

(* What a successful Save brings about, setting by setting.                   *)
LEMMA BuiltShown ==
  ASSUME ScreenInv, Accepted, NEW k \in Offered,
         settings.layout = "current" \/ k \notin {"delay", "events"},
         k \in Changes \/ device[k] = settings[k]
  PROVE  Nearest(k, Show(Built)[k], Meant(k))
<1> DEFINE send == Sent(form)
           b == Built
<1>1. /\ form \in Fields /\ k \in DOMAIN send /\ k \in DOMAIN device
      /\ k \in {"adv", "mult", "lcd", "delay", "events", "latency", "averaging", "smiley",
                "switch"}
      /\ k \in Skipped => k = "mult" /\ form.mult = Blank
  BY SentField DEF Offered, Skipped, ScreenInv, Legal, Settings
<1>2. Blank \notin Nat \union BOOLEAN
  BY SettingsAssumption
<1>3. CASE k \in Skipped
  <2>1. k = "mult" /\ form.mult = Blank /\ k \notin Written
    BY <1>1, <1>3 DEF Written
  <2>2. b[k] = device.mult /\ device.mult \in Nat
    BY <1>1, <2>1, BuiltField DEF ScreenInv, Legal, Settings
  <2>3. Meant(k) = device.mult
    BY <2>1 DEF Meant
  <2>4. Show(b)[k] = b[k]
    BY <2>1 DEF Show
  <2>5. Nearest(k, device.mult, device.mult)
    BY <2>1, <2>2, NearestAbove
  <2> QED BY <2>2, <2>3, <2>4, <2>5
<1>4. CASE k \notin Skipped
  <2>1. b[k] = send[k] /\ send[k] # Blank
    <3>1. CASE k \in Changes
      <4>1. k \in Written
        BY <1>4, <3>1 DEF Written
      <4>2. b[k] = send[k] /\ send[k] \in Bounds(k)
        BY <1>1, <4>1, BuiltField
      <4>3. Bounds(k) \subseteq Nat \union BOOLEAN
        BY <1>1 DEF Bounds
      <4> QED BY <1>2, <4>2, <4>3
    <3>2. CASE k \notin Changes
      <4>1. send[k] # Blank /\ send[k] = settings[k]
        BY <3>2 DEF Changes
      <4>2. b[k] = device[k]
        BY <1>1, <3>2, BuiltField DEF Written
      <4> QED BY <3>2, <4>1, <4>2
    <3> QED BY <3>1, <3>2
  <2>2. Show(b)[k] = AsShown(k, send[k])
    BY <1>1, <2>1, ShownSetting
  <2> QED BY <1>1, <2>1, <2>2, SentNearest
<1> QED BY <1>3, <1>4

(* What Save reported as saved, or as nothing new, is what is in the fields,  *)
(* to the nearest step, for every setting that was read, everything that is   *)
(* typed in whichever order, and whatever earlier writes came to.             *)
THEOREM WrittenCorrect == Spec => WrittenIsShown
<1> DEFINE Shown ==
      SaveVerified \/ SaveUnchanged =>
        \A k \in Offered \ (IF settings.layout = "current" THEN {} ELSE {"delay", "events"}) :
          k \in Changes \/ device[k] = settings[k] => Nearest(k, Show(device')[k], Meant(k))
<1>1. Init => ScreenInv /\ LabelInv
  BY ScreenInit, LabelInit
<1>2. ScreenInv /\ LabelInv /\ [Next]_vars => (ScreenInv /\ LabelInv)'
  BY ScreenNext, LabelNext
<1>3. ScreenInv => [Shown]_settingsVars
  <2> SUFFICES ASSUME ScreenInv, SaveVerified \/ SaveUnchanged, NEW k \in Offered,
                      settings.layout = "current" \/ k \notin {"delay", "events"},
                      k \in Changes \/ device[k] = settings[k]
               PROVE  Nearest(k, Show(device')[k], Meant(k))
    OBVIOUS
  <2>1. Accepted /\ device' = Built
    BY DEF SaveVerified, SaveUnchanged, Matches
  <2> QED BY <2>1, BuiltShown
<1> QED BY <1>1, <1>2, <1>3, PTL DEF Spec, WrittenIsShown

(* There is nothing to save on a screen that was just opened, and where there *)
(* is nothing to save the screen shows what was loaded, for every setting.    *)
THEOREM NothingLeftCorrect == Spec => []NothingLeftToSave
<1>1. Init => ScreenInv /\ LabelInv
  BY ScreenInit, LabelInit
<1>2. ScreenInv /\ LabelInv /\ [Next]_vars => (ScreenInv /\ LabelInv)'
  BY ScreenNext, LabelNext
<1>3. ScreenInv => NothingLeftToSave
  <2> SUFFICES ASSUME ScreenInv PROVE NothingLeftToSave
    OBVIOUS
  <2>1. ASSUME ~CanSave, NEW k \in Offered PROVE Nearest(k, Show(settings)[k], Meant(k))
    <3>1. Sent(form)[k] # Blank /\ Sent(form)[k] = settings[k]
      BY <2>1 DEF CanSave, Changes
    <3>2. form \in Fields /\ k \in DOMAIN Sent(form)
          /\ k \in {"adv", "mult", "lcd", "delay", "events", "latency", "averaging", "smiley",
                    "switch"}
      BY SentField DEF Offered, ScreenInv
    <3>3. Show(settings)[k] = AsShown(k, Sent(form)[k])
      BY <3>1, <3>2, ShownSetting
    <3> QED BY <3>1, <3>2, <3>3, SentNearest
  <2> QED BY <2>1, NothingToSave DEF NothingLeftToSave
<1> QED BY <1>1, <1>2, <1>3, PTL DEF Spec

-----------------------------------------------------------------------------
(* The edit screen of a repeater.  While a key the user typed is in its field,  *)
(* and was not typed during a lookup, no lookup of this form is under way.      *)
NoneHere == \A i \in DOMAIN lookups : ~lookups[i].here
HandInv ==
  /\ touches \in Nat /\ {"key", "beacon", "raced", "skipped"} \subseteq DOMAIN ghost
  /\ lookups \in Seq([of : Sources, here : BOOLEAN])
  /\ config.source \in Sources \union {NoSource} /\ typed \in Sources \union {NoSource}
  /\ ghost.key /\ key # NoKey /\ ~ghost.raced => NoneHere /\ key # auto

LEMMA HandInit == ASSUME Init PROVE HandInv
<1>1. config \in Configs /\ config.source \in Sources \union {NoSource}
  BY RepeaterAssumption DEF Init, RepeaterInit
<1> QED BY <1>1, RepeaterAssumption DEF Init, RepeaterInit, HandInv, Untouched

(* Picking another source adds one lookup of this form, or none.              *)
LEMMA HandAdopted ==
  ASSUME HandInv, NEW m \in Sources \union {NoSource}, AdoptKeyOf(m), Touch,
         typed' \in Sources \union {NoSource}, UNCHANGED <<config, key, auto>>
  PROVE  HandInv'
<1> USE DEF HandInv
<1>1. touches' \in Nat
  BY DEF Touch
<1>2. DOMAIN ghost' = DOMAIN ghost /\ ghost'.key = ghost.key /\ ghost'.raced = ghost.raced
  BY DEF AdoptKeyOf
<1>3. CASE lookups' = lookups
  BY <1>1, <1>2, <1>3 DEF NoneHere
<1>4. CASE lookups' # lookups
  <2>1. ~ByHand /\ m \in Sources /\ lookups' = Append(lookups, [of |-> m, here |-> TRUE])
    BY <1>4 DEF AdoptKeyOf
  <2>2. lookups' \in Seq([of : Sources, here : BOOLEAN])
    BY <2>1
  <2>3. ~(ghost.key /\ key # NoKey /\ ~ghost.raced)
    BY <2>1 DEF ByHand
  <2> QED BY <1>1, <1>2, <2>2, <2>3
<1> QED BY <1>3, <1>4

(* What a closed form leaves: the last lookups it made, and none of this form. *)
LEMMA ReopenLookups ==
  ASSUME HandInv, NEW c, Reopen(c)
  PROVE  lookups' \in Seq([of : Sources, here : BOOLEAN]) /\ NoneHere'
<1>1. PICK n \in 0..Len(lookups) :
        lookups' = [i \in 1..(Len(lookups) - n) |-> [of |-> lookups[i + n].of, here |-> FALSE]]
  BY DEF Reopen
<1>2. Len(lookups) \in Nat /\ Len(lookups) - n \in Nat
  BY DEF HandInv
<1>3. \A i \in 1..(Len(lookups) - n) : i + n \in 1..Len(lookups)
  BY <1>2
<1> DEFINE lookup == [of : Sources, here : BOOLEAN]
<1>4. \A i \in 1..(Len(lookups) - n) : lookups[i + n].of \in Sources
  <2>1. \A j \in 1..Len(lookups) : lookups[j] \in lookup
    <3> HIDE DEF lookup
    <3>1. lookups \in Seq(lookup)
      BY DEF HandInv, lookup
    <3> QED BY <3>1
  <2>2. \A x \in lookup : x.of \in Sources
    OBVIOUS
  <2> QED BY <1>3, <2>1, <2>2
<1>5. DOMAIN lookups' = 1..(Len(lookups) - n)
      /\ \A i \in DOMAIN lookups' : lookups'[i] = [of |-> lookups[i + n].of, here |-> FALSE]
  BY <1>1
<1>6. \A i \in DOMAIN lookups' : lookups'[i] \in [of : Sources, here : BOOLEAN]
                                /\ ~lookups'[i].here
  <2> SUFFICES ASSUME NEW i \in DOMAIN lookups'
               PROVE  lookups'[i] \in lookup /\ ~lookups'[i].here
    OBVIOUS
  <2>1. lookups'[i] = [of |-> lookups[i + n].of, here |-> FALSE] /\ lookups[i + n].of \in Sources
    BY <1>4, <1>5
  <2> QED BY <2>1
<1>7. lookups' \in [1..(Len(lookups) - n) -> [of : Sources, here : BOOLEAN]]
  BY <1>1, <1>5, <1>6
<1>8. lookups' \in Seq([of : Sources, here : BOOLEAN])
  <2> HIDE DEF lookup
  <2>1. \A l \in Nat : [1..l -> lookup] \subseteq Seq(lookup)
    OBVIOUS
  <2> QED BY <1>2, <1>7, <2>1 DEF lookup
<1> QED BY <1>6, <1>8 DEF NoneHere

LEMMA HandReopened ==
  ASSUME HandInv, NEW c \in Configs, Reopen(c)
  PROVE  HandInv'
<1>1. c.source \in Sources \union {NoSource} /\ NoSource \in Sources \union {NoSource}
  BY RepeaterAssumption
<1>2. touches' \in Nat
  BY DEF Reopen, Touch, HandInv
<1>3. config' = c /\ typed' = NoSource /\ ghost' = Untouched
  BY DEF Reopen
<1> QED BY <1>1, <1>2, <1>3, ReopenLookups DEF HandInv, Untouched

LEMMA HandTyped ==
  ASSUME HandInv, NEW k, TypeKey(k)
  PROVE  HandInv'
<1> USE DEF HandInv
<1>1. touches' \in Nat
  BY DEF TypeKey, Touch
<1>2. key' = k /\ UNCHANGED <<config, typed, auto, lookups>>
      /\ ghost'.key = (k # auto) /\ ghost'.raced = (ghost.raced \/ ~NoneHere)
      /\ DOMAIN ghost' = DOMAIN ghost
  BY DEF TypeKey, NoneHere
<1>3. NoneHere' = NoneHere
  BY <1>2 DEF NoneHere
<1> QED BY <1>1, <1>2, <1>3

LEMMA HandAnswered ==
  ASSUME HandInv, NEW ok, LookupAnswered(ok)
  PROVE  HandInv'
<1> USE DEF HandInv
<1>1. lookups # <<>> /\ lookups' = Tail(lookups) /\ UNCHANGED <<config, typed, touches>>
  BY DEF LookupAnswered
<1>2. lookups' \in Seq([of : Sources, here : BOOLEAN])
  BY <1>1
<1>3. Head(lookups) = lookups[1] /\ 1 \in DOMAIN lookups
  BY <1>1
<1>4. NoneHere => NoneHere'
  <2>1. \A i \in DOMAIN lookups' : i + 1 \in DOMAIN lookups /\ lookups'[i] = lookups[i + 1]
    BY <1>1
  <2> QED BY <2>1 DEF NoneHere
<1>5. CASE Head(lookups).here
  <2>1. ~NoneHere
    BY <1>3, <1>5 DEF NoneHere
  <2>2. ghost'.key = (ghost.key /\ key' = key) /\ ghost'.raced = ghost.raced
        /\ DOMAIN ghost' = DOMAIN ghost
    BY <1>5 DEF LookupAnswered
  <2>3. ghost'.key /\ key' # NoKey /\ ~ghost'.raced => FALSE
    BY <2>1, <2>2
  <2> QED BY <1>1, <1>2, <2>2, <2>3
<1>6. CASE ~Head(lookups).here
  <2>1. UNCHANGED <<key, auto>> /\ ghost'.key = ghost.key /\ ghost'.raced = ghost.raced
        /\ DOMAIN ghost' = DOMAIN ghost
    BY <1>6 DEF LookupAnswered
  <2> QED BY <1>1, <1>2, <1>4, <2>1
<1> QED BY <1>5, <1>6

LEMMA HandNext == ASSUME HandInv, [Next]_vars PROVE HandInv'
<1> USE DEF HandInv
<1>1. CASE UNCHANGED repeaterVars
  BY <1>1 DEF repeaterVars, fields, NoneHere
<1>2. ASSUME NEW m \in Listed \union {config.source, NoSource, "custom"}, Choose(m) PROVE HandInv'
  <2>1. (IF m = "custom" THEN typed ELSE m) \in Sources \union {NoSource}
    BY DEF Sources
  <2> QED BY <1>2, <2>1, HandAdopted DEF Choose
<1>3. ASSUME NEW m \in Sources \union {NoSource}, TypeAddress(m) PROVE HandInv'
  BY <1>3, HandAdopted DEF TypeAddress
<1>4. ASSUME NEW k, TypeKey(k) PROVE HandInv'
  BY <1>4, HandTyped
<1>5. ASSUME NEW b, TypeBeacon(b) PROVE HandInv'
  <2>1. touches' \in Nat
    BY <1>5 DEF TypeBeacon, Touch
  <2> QED BY <1>5, <2>1 DEF TypeBeacon, NoneHere
<1>6. ASSUME NEW ok, LookupAnswered(ok) PROVE HandInv'
  BY <1>6, HandAnswered
<1>7. ASSUME NEW c \in Configs, Reopen(c) PROVE HandInv'
  BY <1>7, HandReopened
<1>8. CASE SaveRepeater
  BY <1>8 DEF SaveRepeater, fields, NoneHere
<1>9. CASE RepeaterNext
  BY <1>2, <1>3, <1>4, <1>5, <1>6, <1>7, <1>8, <1>9 DEF RepeaterNext
<1> QED BY <1>1, <1>9 DEF Next, vars

(* Only the user changes a key typed by hand, for any sources and any keys,   *)
(* if it was not typed during a lookup of the form.                           *)
THEOREM HandKeyCorrect == Spec => HandKeyKept
<1> DEFINE Kept ==
      ghost.key /\ key # NoKey /\ ~ghost.raced /\ key' # key => touches' < touches
<1>1. Init => HandInv
  BY HandInit
<1>2. HandInv /\ [Next]_vars => HandInv'
  BY HandNext
<1>3. HandInv /\ [Next]_vars => [Kept]_repeaterVars
  <2> SUFFICES ASSUME HandInv, [Next]_vars, ghost.key, key # NoKey, ~ghost.raced, key' # key
               PROVE  touches' < touches
    OBVIOUS
  <2>1. RepeaterNext
    BY DEF Next, vars, repeaterVars, fields
  <2>2. NoneHere
    BY DEF HandInv
  <2>3. \A ok : ~LookupAnswered(ok)
    <3> SUFFICES ASSUME NEW ok, LookupAnswered(ok) PROVE FALSE
      OBVIOUS
    <3>1. lookups # <<>> /\ lookups \in Seq([of : Sources, here : BOOLEAN])
      BY DEF LookupAnswered, HandInv
    <3>2. Head(lookups) = lookups[1] /\ 1 \in DOMAIN lookups
      BY <3>1
    <3>3. ~Head(lookups).here
      BY <2>2, <3>2 DEF NoneHere
    <3> QED BY <3>3 DEF LookupAnswered
  <2>4. Touch
    BY <2>1, <2>3 DEF RepeaterNext, Choose, TypeAddress, TypeKey, TypeBeacon, Reopen,
                      SaveRepeater, fields
  <2> QED BY <2>4 DEF HandInv, Touch
<1> QED BY <1>1, <1>2, <1>3, PTL DEF Spec, HandKeyKept

-----------------------------------------------------------------------------
(* What the form put into its fields is of the chosen source, once that was   *)
(* looked up; and a key it did not put there is the user's.  The lookups of a *)
(* form that was closed are answered before those of this one, and where the  *)
(* chosen source is looked up, its lookup is the last.                        *)
Ordered ==
  /\ \A i, j \in DOMAIN lookups : i < j /\ lookups[i].here => lookups[j].here
  /\ ~ghost.skipped /\ lookups # <<>> => lookups[Len(lookups)].here
LookedUp ==
  /\ key # auto => ghost.key
  /\ ~ghost.skipped /\ lookups = <<>> =>
       /\ auto = SnapKey(Source)
       /\ ghost.beacon \/ SnapBeacon(Source) \notin Fitting \/ beacon = SnapBeacon(Source)
FitInv == HandInv /\ Ordered /\ LookedUp /\ SavedFitsSource

LEMMA FitInit == ASSUME Init PROVE FitInv
BY HandInit
   DEF Init, RepeaterInit, FitInv, Ordered, LookedUp, SavedFitsSource, NotSent, Untouched

(* Picking another source: it is looked up, or the key is the user's own.     *)
LEMMA FitAdopted ==
  ASSUME FitInv, NEW m \in Sources \union {NoSource}, AdoptKeyOf(m), Touch, HandInv',
         UNCHANGED <<config, key, auto, beacon>>
  PROVE  FitInv'
<1> USE DEF FitInv, HandInv
<1>1. sent = NotSent /\ UNCHANGED sent
  BY DEF Touch
<1>2. ghost'.key = ghost.key /\ DOMAIN ghost' = DOMAIN ghost
      /\ ghost'.skipped = ((m = NoSource) \/ (ghost.key /\ key # NoKey))
  BY DEF AdoptKeyOf
<1>3. CASE ~ByHand /\ m # NoSource
  <2>1. lookups' = Append(lookups, [of |-> m, here |-> TRUE])
    BY <1>3 DEF AdoptKeyOf
  <2>2. /\ Len(lookups) \in Nat /\ Len(lookups') = Len(lookups) + 1 /\ lookups' # <<>>
        /\ DOMAIN lookups = 1..Len(lookups) /\ DOMAIN lookups' = 1..(Len(lookups) + 1)
        /\ lookups'[Len(lookups) + 1] = [of |-> m, here |-> TRUE]
        /\ \A i \in 1..Len(lookups) : lookups'[i] = lookups[i]
    BY <2>1
  <2>3. lookups'[Len(lookups) + 1].here
    BY <2>2
  <2>4. Ordered'
    <3>1. ASSUME NEW i \in DOMAIN lookups', NEW j \in DOMAIN lookups', i < j, lookups'[i].here
          PROVE  lookups'[j].here
      <4>1. CASE j = Len(lookups) + 1
        BY <2>3, <4>1
      <4>2. CASE j # Len(lookups) + 1
        <5>1. i \in DOMAIN lookups /\ j \in DOMAIN lookups
              /\ lookups'[i] = lookups[i] /\ lookups'[j] = lookups[j]
          BY <2>2, <3>1, <4>2
        <5> QED BY <3>1, <5>1 DEF Ordered
      <4> QED BY <4>1, <4>2
    <3> QED BY <2>2, <2>3, <3>1 DEF Ordered
  <2> QED BY <1>1, <1>2, <2>2, <2>4 DEF LookedUp, SavedFitsSource, NotSent
<1>4. CASE ByHand \/ m = NoSource
  <2>1. lookups' = lookups
    BY <1>4 DEF AdoptKeyOf
  <2>2. ghost'.skipped
    BY <1>2, <1>4 DEF ByHand, LookedUp
  <2> QED BY <1>1, <1>2, <2>1, <2>2 DEF Ordered, LookedUp, SavedFitsSource, NotSent
<1> QED BY <1>3, <1>4

(* The answer to a lookup of the form that is open.                           *)
LEMMA FitAnsweredHere ==
  ASSUME FitInv, NEW ok \in BOOLEAN, LookupAnswered(ok), Head(lookups).here
  PROVE  LookedUp'
<1>1. sent = NotSent /\ UNCHANGED <<config, chosen, typed, sent>> /\ lookups # <<>>
  BY DEF LookupAnswered
<1> DEFINE m == Head(lookups).of
           found == IF ok THEN SnapKey(m) ELSE NoKey
<1>2. Settle(found)
  BY DEF LookupAnswered
<1> HIDE DEF found
<1>3. \/ key' = found /\ auto' = found
      \/ found = NoKey /\ auto = NoKey /\ key' = key /\ auto' = auto
  BY <1>2 DEF Settle
<1>4. /\ ghost'.key = (ghost.key /\ key' = key)
      /\ ghost'.beacon = (ghost.beacon /\ beacon' = beacon)
      /\ ghost'.skipped = (~ok \/ m # Source)
  BY DEF LookupAnswered, FitInv, HandInv
<1>5. beacon' = IF ok /\ SnapBeacon(m) \in Fitting THEN SnapBeacon(m) ELSE beacon
  BY DEF LookupAnswered
<1>6. key' # auto' => ghost'.key
  <2>1. key # auto => ghost.key
    BY DEF FitInv, LookedUp
  <2>2. CASE key' = found /\ auto' = found
    BY <2>2
  <2>3. CASE key' = key /\ auto' = auto
    BY <1>4, <2>1, <2>3, Zenon
  <2> QED BY <1>3, <2>2, <2>3
<1>7. Source' = Source
  BY <1>1 DEF Source
<1>8. ASSUME ~ghost'.skipped
      PROVE  /\ auto' = SnapKey(Source')
             /\ SnapBeacon(Source') \notin Fitting \/ beacon' = SnapBeacon(Source')
  <2>1. ok /\ m = Source
    BY <1>4, <1>8
  <2>2. auto' = found
    BY <1>3
  <2> QED BY <1>5, <1>7, <2>1, <2>2 DEF found
<1>9. SnapKey(Source)' = SnapKey(Source') /\ SnapBeacon(Source)' = SnapBeacon(Source')
  OBVIOUS
<1> QED BY <1>6, <1>8, <1>9 DEF LookedUp

(* The answer to a lookup of a form that was closed.                          *)
LEMMA FitAnsweredLate ==
  ASSUME FitInv, NEW ok \in BOOLEAN, LookupAnswered(ok), ~Head(lookups).here
  PROVE  LookedUp'
<1>1. lookups # <<>> /\ lookups' = Tail(lookups) /\ UNCHANGED <<key, auto>>
      /\ ghost'.key = ghost.key /\ ghost'.skipped = ghost.skipped
  BY DEF LookupAnswered, FitInv, HandInv
<1>2. lookups' = <<>> => ghost.skipped
  <2> SUFFICES ASSUME lookups' = <<>> PROVE ghost.skipped
    OBVIOUS
  <2> DEFINE lookup == [of : Sources, here : BOOLEAN]
  <2>0. lookups \in Seq(lookup) /\ lookups # <<>> /\ Tail(lookups) = <<>>
    BY <1>1 DEF FitInv, HandInv
  <2> HIDE DEF lookup
  <2>1. Len(lookups) \in Nat /\ 0 = Len(lookups) - 1
    <3>1. Len(Tail(lookups)) = Len(lookups) - 1 /\ Len(lookups) \in Nat
      BY <2>0
    <3> QED BY <2>0, <3>1
  <2>2. Len(lookups) = 1
    BY <2>1
  <2>3. Head(lookups) = lookups[Len(lookups)]
    BY <2>2
  <2>4. ~lookups[Len(lookups)].here
    BY <2>3
  <2> QED BY <1>1, <2>4 DEF FitInv, Ordered
<1> QED BY <1>1, <1>2 DEF FitInv, LookedUp

LEMMA FitAnswered ==
  ASSUME FitInv, NEW ok \in BOOLEAN, LookupAnswered(ok), HandInv'
  PROVE  FitInv'
<1> USE DEF FitInv, HandInv
<1>1. sent = NotSent /\ UNCHANGED sent /\ lookups # <<>> /\ lookups' = Tail(lookups)
  BY DEF LookupAnswered
<1>2. /\ Len(lookups) \in Nat /\ Len(lookups) >= 1 /\ Len(lookups') = Len(lookups) - 1
      /\ DOMAIN lookups = 1..Len(lookups) /\ DOMAIN lookups' = 1..(Len(lookups) - 1)
      /\ \A i \in 1..(Len(lookups) - 1) : lookups'[i] = lookups[i + 1]
      /\ Head(lookups) = lookups[1]
  BY <1>1
<1>3. \A i, j \in DOMAIN lookups' : i < j /\ lookups'[i].here => lookups'[j].here
  <2> SUFFICES ASSUME NEW i \in DOMAIN lookups', NEW j \in DOMAIN lookups', i < j, lookups'[i].here
               PROVE  lookups'[j].here
    OBVIOUS
  <2>1. i + 1 \in DOMAIN lookups /\ j + 1 \in DOMAIN lookups /\ i + 1 < j + 1
        /\ lookups'[i] = lookups[i + 1] /\ lookups'[j] = lookups[j + 1]
    BY <1>2
  <2> QED BY <2>1 DEF Ordered
<1>4. lookups' # <<>> => Len(lookups') >= 1 /\ lookups'[Len(lookups')] = lookups[Len(lookups)]
                         /\ 1 < Len(lookups)
  BY <1>1, <1>2
<1>5. ~ghost'.skipped /\ lookups' # <<>> => lookups'[Len(lookups')].here
  <2>1. CASE Head(lookups).here
    BY <1>2, <1>4, <2>1 DEF Ordered
  <2>2. CASE ~Head(lookups).here
    <3>1. ghost'.skipped = ghost.skipped
      BY <2>2 DEF LookupAnswered
    <3> QED BY <1>1, <1>4, <3>1 DEF Ordered
  <2> QED BY <2>1, <2>2
<1>6. Ordered'
  BY <1>3, <1>5 DEF Ordered
<1>7. LookedUp'
  BY FitAnsweredHere, FitAnsweredLate
<1> QED BY <1>1, <1>6, <1>7 DEF SavedFitsSource, NotSent

LEMMA FitReopened ==
  ASSUME FitInv, NEW c, Reopen(c), HandInv'
  PROVE  FitInv'
<1>1. NoneHere'
  BY ReopenLookups DEF FitInv
<1>2. sent = NotSent /\ UNCHANGED sent /\ ghost' = Untouched /\ key' = auto'
  BY DEF Reopen, Touch
<1> QED BY <1>1, <1>2
      DEF FitInv, Ordered, LookedUp, SavedFitsSource, NotSent, Untouched, NoneHere

LEMMA FitNext == ASSUME FitInv, [Next]_vars PROVE FitInv'
<1> USE DEF FitInv
<1>0. HandInv'
  BY HandNext
<1>1. CASE UNCHANGED repeaterVars
  BY <1>0, <1>1 DEF repeaterVars, fields, Ordered, LookedUp, SavedFitsSource, Source
<1>2. ASSUME NEW m \in Listed \union {config.source, NoSource, "custom"}, Choose(m) PROVE FitInv'
  <2>1. (IF m = "custom" THEN typed ELSE m) \in Sources \union {NoSource}
    BY DEF Sources, HandInv
  <2> QED BY <1>0, <1>2, <2>1, FitAdopted DEF Choose
<1>3. ASSUME NEW m \in Sources \union {NoSource}, TypeAddress(m) PROVE FitInv'
  BY <1>0, <1>3, FitAdopted DEF TypeAddress
<1>4. ASSUME NEW k, TypeKey(k) PROVE FitInv'
  <2>1. sent = NotSent /\ UNCHANGED <<config, sent, chosen, typed, auto, beacon, lookups>>
    BY <1>4 DEF TypeKey, Touch
  <2>2. /\ ghost'.key = (key' # auto) /\ ghost'.beacon = ghost.beacon
        /\ ghost'.skipped = ghost.skipped
    BY <1>4 DEF TypeKey, HandInv
  <2> QED BY <1>0, <2>1, <2>2 DEF Ordered, LookedUp, SavedFitsSource, NotSent, Source
<1>5. ASSUME NEW b, TypeBeacon(b) PROVE FitInv'
  <2>1. sent = NotSent /\ UNCHANGED <<config, sent, chosen, typed, key, auto, lookups>>
    BY <1>5 DEF TypeBeacon, Touch
  <2>2. ghost'.key = ghost.key /\ ghost'.beacon /\ ghost'.skipped = ghost.skipped
    BY <1>5 DEF TypeBeacon, HandInv
  <2> QED BY <1>0, <2>1, <2>2 DEF Ordered, LookedUp, SavedFitsSource, NotSent, Source
<1>6. ASSUME NEW ok \in BOOLEAN, LookupAnswered(ok) PROVE FitInv'
  BY <1>0, <1>6, FitAnswered
<1>7. ASSUME NEW c \in Configs, Reopen(c) PROVE FitInv'
  BY <1>0, <1>7, FitReopened
<1>8. CASE SaveRepeater
  <2>1. UNCHANGED <<config, fields, lookups, ghost>>
    BY <1>8 DEF SaveRepeater
  <2>2. /\ sent'.source = Source /\ sent'.key = key /\ sent'.beacon = beacon
        /\ sent'.unfit = (ghost.skipped \/ lookups # <<>>)
    BY <1>8 DEF SaveRepeater
  <2>3. UNCHANGED <<chosen, typed, key, auto, beacon>>
    BY <2>1 DEF fields
  <2>4. Ordered'
    BY <2>1 DEF Ordered
  <2>5. LookedUp'
    BY <2>1, <2>3 DEF LookedUp, Source
  <2>6. SavedFitsSource'
    BY <2>1, <2>2 DEF LookedUp, SavedFitsSource
  <2> QED BY <1>0, <2>4, <2>5, <2>6
<1>9. CASE RepeaterNext
  BY <1>2, <1>3, <1>4, <1>5, <1>6, <1>7, <1>8, <1>9 DEF RepeaterNext
<1> QED BY <1>1, <1>9 DEF Next, vars

(* A repeater is saved with what its source needs, for any list of sources,   *)
(* and for any snapshots of them: whatever is picked and typed in whichever   *)
(* order, however late the lookups are answered, and also after the form was  *)
(* closed and opened again while they were under way.                         *)
THEOREM SavedFitsCorrect == Spec => []SavedFitsSource
<1>1. Init => FitInv
  BY FitInit
<1>2. FitInv /\ [Next]_vars => FitInv'
  BY FitNext
<1>3. FitInv => SavedFitsSource
  BY DEF FitInv
<1> QED BY <1>1, <1>2, <1>3, PTL DEF Spec
===============================================================================
