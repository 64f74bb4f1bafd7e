---------------------------- MODULE MCAdCreation -----------------------------
(***************************************************************************)
(* Instances of AdCreation for TLC: two accounts on one device.            *)
(***************************************************************************)
EXTENDS AdCreation

CONSTANTS u1, u2
=============================================================================
