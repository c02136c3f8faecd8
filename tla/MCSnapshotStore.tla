--------------------------- MODULE MCSnapshotStore ---------------------------
(* Instances of SnapshotStore for TLC: calls for one device.                *)
EXTENDS SnapshotStore, TLC

CONSTANTS read1, encrypt1, rename1, delete1, kitchen

MCKind == (read1 :> "read") @@ (encrypt1 :> "encrypt")
          @@ (rename1 :> "rename") @@ (delete1 :> "delete")

(* Only the calls of the instance. *)
MCKindOf == [t \in Tasks |-> MCKind[t]]

Clearing == [t \in Tasks |-> NoName]
=============================================================================
