----------------------------- MODULE MCLogDelivery -----------------------------
(* Small instances of LogDelivery. *)
EXTENDS LogDelivery
================================================================================
