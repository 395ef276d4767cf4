------------------------------ MODULE MCCmdLink ------------------------------
(* Small instances of CmdLink. *)
EXTENDS CmdLink
==============================================================================
