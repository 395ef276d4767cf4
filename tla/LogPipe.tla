------------------------------- MODULE LogPipe -------------------------------
(***************************************************************************)
(* What the kernel log promises its reader, whatever its data structure:   *)
(* a message that was kept is handed over once, intact, and is not lost    *)
(* before.  Messages that were never kept stay "new" and may be dropped.   *)
(***************************************************************************)
CONSTANT Msgs        \* the messages that can be printed

VARIABLE state       \* state[m]: how far message m got

Init == state = [m \in Msgs |-> "new"]

\* The log takes responsibility for m.
Keep(m) == state[m] = "new" /\ state' = [state EXCEPT ![m] = "kept"]

\* The reader receives m.
HandOver(m) == state[m] = "kept" /\ state' = [state EXCEPT ![m] = "got"]

Next == \E m \in Msgs : Keep(m) \/ HandOver(m)

\* The safety part: messages only ever move forward, one at a time.
Safety == Init /\ [][Next]_state

\* A kept message is handed over in the end; nothing has to be kept.
Spec == Safety /\ \A m \in Msgs : WF_state(HandOver(m))
==============================================================================
