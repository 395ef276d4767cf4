------------------------------ MODULE MCMsgLink ------------------------------
(* Small instances of MsgLink. *)
EXTENDS MsgLink
==============================================================================
