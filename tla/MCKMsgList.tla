------------------------------ MODULE MCKMsgList ------------------------------
(* Small instances of KMsgList: printing threads against two slots of two bytes. *)
EXTENDS KMsgList

\* An empty print, one that fits a slot, one that is cut or refused.
MCLens == {0, 1, 3}
\* Prints that fit.
MCFitting == {1}
===============================================================================
