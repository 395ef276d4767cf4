------------------------------- MODULE MCDevCmds -------------------------------
(* Small instances of DevCmds. *)
EXTENDS DevCmds
MCSegs == [m \in Mods |-> <<3, 0, 2, 0>>]
================================================================================
