----------------------------- MODULE MCAddresses -----------------------------
(* Instances of Addresses for TLC. *)
EXTENDS Addresses
=============================================================================
