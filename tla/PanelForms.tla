------------------------------ MODULE PanelForms ------------------------------
(* _modalEdit opens one of the two edit screens, by the device's firmware. *)
EXTENDS SettingsForm, RepeaterForm

VARIABLE opened  \* "thermometer" or "repeater"

vars == <<opened, settingsVars, repeaterVars>>

(* Nothing happens in the screen that is not open, so one state of it will do. *)
Init ==
  /\ SettingsInit /\ RepeaterInit
  /\ \/ opened = "thermometer" /\ config = CHOOSE c \in Configs : TRUE
     \/ opened = "repeater" /\ settings = CHOOSE s \in ReadSettings : TRUE

Next ==
  /\ UNCHANGED opened
  /\ \/ opened = "thermometer" /\ SettingsNext /\ UNCHANGED repeaterVars
     \/ opened = "repeater" /\ RepeaterNext /\ UNCHANGED settingsVars

Spec == Init /\ [][Next]_vars
===============================================================================
