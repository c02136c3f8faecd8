--------------------------- MODULE MCSetEncryption ---------------------------
(* Instances of SetEncryption for TLC: overlapping calls for one device.    *)
EXTENDS SetEncryption, TLC

CONSTANTS on, on2, off

OneKeyGiven == [c \in Calls |-> IF c = on2 THEN 1 ELSE NoKey]
=============================================================================
