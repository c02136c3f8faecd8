---------------------------- MODULE MCDeviceLink ----------------------------
(* Instances of DeviceLink for TLC: one request per retry loop, with the    *)
(* attempt budgets of gatt.py (3 for a read, 2 for a command, 2 + 1 for a   *)
(* repeater command).                                                       *)
EXTENDS DeviceLink, TLC

CONSTANTS scan, write, repeat

MCKind == (scan :> "read") @@ (write :> "command") @@ (repeat :> "repeater")
MCRetries == (scan :> 3) @@ (write :> 2) @@ (repeat :> 3)

(* No link survives all four rounds, or that of the read may. *)
MCYielding == [r \in Requests |-> 3]
MCStubborn == [MCYielding EXCEPT ![scan] = 4]
=============================================================================
