------------------------------ MODULE MCClientLife ------------------------------
(* Small instances of ClientLife. *)
EXTENDS ClientLife
================================================================================
