------------------------------ MODULE MCFieldSync ------------------------------
(* A device with two tabs and the field app's screens: small sets of entities   *)
(* are given in the configurations.                                             *)
EXTENDS FieldSync
================================================================================
