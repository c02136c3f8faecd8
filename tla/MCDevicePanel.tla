---------------------------- MODULE MCDevicePanel ----------------------------
(* DevicePanel with a thermometer and a repeater. *)
EXTENDS DevicePanel, TLC
CONSTANTS t, r, nobody
MCMacs == {t, r}
MCRepeaters == {r}
MCWeak == {r}
MCLists == {"snapshots", "compare"}
MCUsed == {"setting", "encrypt", "rsave", "restore", "show", "clear", "plain", "wake"}
=============================================================================
