---------------------------- MODULE MCAdapterStaging ----------------------------
(* Small instances of AdapterStaging for TLC. *)
EXTENDS AdapterStaging, TLC
=============================================================================
