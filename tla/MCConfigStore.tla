---------------------------- MODULE MCConfigStore ----------------------------
(* The instance of ConfigStore that TLC checks: a firmware with two fields *)
(* and one that appends a third.                                           *)
EXTENDS ConfigStore
=============================================================================
