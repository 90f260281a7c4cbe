---------------------------- MODULE MCGattDatabase ----------------------------
(* Three services: one without characteristics, one with a descriptor and  *)
(* a CCCD, one with the hash.                                              *)
EXTENDS GattDatabase

MCServices == {"ipss", "battery", "hash"}
=============================================================================
