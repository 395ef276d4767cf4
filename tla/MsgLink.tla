-------------------------------- MODULE MsgLink --------------------------------
(***************************************************************************)
(* The message connection of one session: psp2shell_print_color and its    *)
(* wait for a reply (psp2shell_m/source/main.c), thread_kbuf's raw sends   *)
(* of kernel text on the same socket, and psp2shell_cli's msg_thread.      *)
(*                                                                         *)
(* The connection carries units, which a recv of the client returns in any *)
(* number, and looks only at the first characters of the first one:        *)
(*   "print"      a print, or its first part: it begins with its colour,   *)
(*                which is one the client answers (11 to 14)               *)
(*   "text"       kernel text, or the rest of a print that was split       *)
(*   "lookalike"  such text that happens to begin with 11 to 14            *)
(* No caller of psp2shell_print_color uses COL_NONE (psp2shell_print does, *)
(* in code that is commented out), which the client would not answer.      *)
(* The replies are all the same byte, so that a number stands for them.    *)
(***************************************************************************)
EXTENDS Integers, FiniteSets, Sequences

CONSTANTS
  MaxPrints,     \* bound: prints of the session
  MaxTexts       \* bound: kernel texts sent by thread_kbuf

ASSUME ConstantsAssumption == MaxPrints \in Nat /\ MaxTexts \in Nat

Prints == 1 .. MaxPrints
Kinds == {"print", "text", "lookalike"}
Units == [id : Prints \cup {0}, kind : Kinds]        \* id 0: not the start of a print
Tails == {<<>>} \cup {<<[id |-> 0, kind |-> k]>> : k \in {"text", "lookalike"}}

VARIABLES
  open,          \* the client has not gone away
  toCli,         \* units under way to the client
  replies,       \* replies under way to the server
  waiting,       \* the print waiting for a reply, or 0
  ends,          \* how each print returned, or "no"
  shown,         \* the prints the client has received
  texts,         \* kernel texts sent so far
  lookalikes     \* units sent so far that look like a print but are not the start of one

vars == <<open, toCli, replies, waiting, ends, shown, texts, lookalikes>>

Init ==
  /\ open = TRUE /\ toCli = <<>> /\ replies = 0 /\ waiting = 0
  /\ ends = [p \in Prints |-> "no"] /\ shown = {} /\ texts = 0 /\ lookalikes = 0

Unstarted == {p \in Prints : ends[p] = "no" /\ p # waiting}
Returned == {p \in Prints : ends[p] \in {"reply", "timeout"}}
TimedOut == {p \in Prints : ends[p] = "timeout"}

\* send: what a client that is gone would have received is lost, and nobody is told.
Send(units) ==
  /\ toCli' = IF open THEN toCli \o units ELSE toCli
  /\ lookalikes' = lookalikes + Cardinality({i \in DOMAIN units : units[i].kind = "lookalike"})

-------------------------------------------------------------------------------
(* The server: one thread prints, thread_kbuf forwards kernel text.        *)

\* psp2shell_print_color up to p2s_msg_wait_reply.  A long message is split on its way.
PrintColor(tail) ==
  /\ waiting = 0 /\ Unstarted # {}
  /\ waiting' = CHOOSE p \in Unstarted : \A q \in Unstarted : p <= q
  /\ Send(<<[id |-> waiting', kind |-> "print"]>> \o tail)
  /\ UNCHANGED <<open, replies, ends, shown, texts>>

Return(how) == ends' = [ends EXCEPT ![waiting] = how] /\ waiting' = 0

\* The wait ends: with a reply, whichever print it belongs to; after the time-out, when
\* none has come; or because the connection broke.
GetReply ==
  /\ waiting # 0 /\ replies > 0
  /\ replies' = replies - 1 /\ Return("reply")
  /\ UNCHANGED <<open, toCli, shown, texts, lookalikes>>

\* Seeded fault: the wait has no time-out (SO_RCVTIMEO is not set).
TimeoutNever == FALSE

Timeout ==
  /\ waiting # 0 /\ replies = 0 /\ open
  /\ Return("timeout")
  /\ UNCHANGED <<open, toCli, replies, shown, texts, lookalikes>>

Broken ==
  /\ waiting # 0 /\ replies = 0 /\ ~open
  /\ Return("error")
  /\ UNCHANGED <<open, toCli, replies, shown, texts, lookalikes>>

\* thread_kbuf: one message of the kernel's list, as it is.
SendText(kind) ==
  /\ texts < MaxTexts /\ texts' = texts + 1
  /\ Send(<<[id |-> 0, kind |-> kind]>>)
  /\ UNCHANGED <<open, replies, waiting, ends, shown>>

-------------------------------------------------------------------------------
(* The client.                                                             *)

\* Seeded faults: the colour is not looked at; the string's end is sent with the answer.
ReceiveAnswersAll(k) ==
  /\ open /\ k \in 1 .. Len(toCli)
  /\ toCli' = SubSeq(toCli, k + 1, Len(toCli))
  /\ shown' = shown \cup ({toCli[i].id : i \in 1 .. k} \ {0})
  /\ replies' = replies + 1
  /\ UNCHANGED <<open, waiting, ends, texts, lookalikes>>

ReceiveAnswersTwice(k) ==
  /\ open /\ k \in 1 .. Len(toCli)
  /\ toCli' = SubSeq(toCli, k + 1, Len(toCli))
  /\ shown' = shown \cup ({toCli[i].id : i \in 1 .. k} \ {0})
  /\ replies' = IF Head(toCli).kind \in {"print", "lookalike"} THEN replies + 2 ELSE replies
  /\ UNCHANGED <<open, waiting, ends, texts, lookalikes>>

\* p2s_msg_receive and msg_thread's switch on the colour: what a recv returns is printed,
\* and answered at most once, as its first characters say.
Receive(k) ==
  /\ open /\ k \in 1 .. Len(toCli)
  /\ toCli' = SubSeq(toCli, k + 1, Len(toCli))
  /\ shown' = shown \cup ({toCli[i].id : i \in 1 .. k} \ {0})
  /\ replies' = IF Head(toCli).kind \in {"print", "lookalike"} THEN replies + 1 ELSE replies
  /\ UNCHANGED <<open, waiting, ends, texts, lookalikes>>

\* The client exits or the connection breaks.
Leave ==
  /\ open /\ open' = FALSE /\ toCli' = <<>>
  /\ UNCHANGED <<replies, waiting, ends, shown, texts, lookalikes>>

-------------------------------------------------------------------------------
Receiving == \E k \in 1 .. Len(toCli) : Receive(k)
Waiting == GetReply \/ Timeout \/ Broken
Sending ==
  \/ \E tail \in Tails : PrintColor(tail)
  \/ \E kind \in {"text", "lookalike"} : SendText(kind)
Next == Sending \/ Waiting \/ Receiving \/ Leave

Spec == Init /\ [][Next]_vars
\* msg_thread goes on receiving, and a wait that can end ends.
FairSpec == Spec /\ WF_vars(Receiving) /\ WF_vars(Waiting)

-------------------------------------------------------------------------------
(* Properties.                                                             *)

\* The variables stay in their ranges: a session's replies are as many as its units.
TypeOK ==
  /\ open \in BOOLEAN /\ toCli \in Seq(Units) /\ shown \subseteq Prints
  /\ replies \in 0 .. 2 * MaxPrints + MaxTexts
  /\ waiting \in Prints \cup {0} /\ ends \in [Prints -> {"no", "reply", "timeout", "error"}]
  /\ texts \in 0 .. MaxTexts /\ lookalikes \in 0 .. MaxPrints + MaxTexts

\* The variables stay in their ranges.  Each print that timed out and each text that looks
\* like a print lets the server run ahead of the client by one print, for the rest of the
\* session, and nothing else does.
RunAhead ==
  TypeOK /\ Cardinality(Returned \ shown) <= Cardinality(TimedOut) + lookalikes

\* As long as there was neither, a reply under way is the one the waiting print waits for:
\* the client has received that print.
ReplyIsOwn ==
  lookalikes = 0 /\ TimedOut = {} /\ replies > 0 =>
    replies = 1 /\ waiting \in shown

\* A print returns in the end, although its reply may never come.
PrintReturns == waiting # 0 ~> waiting = 0

\* psp2shell_m/source/main.c:80 "wait for client to receive message": a print that times
\* out was not received.  It does not hold: a print received behind kernel text is shown,
\* but not answered.
TimeoutMeansUnreceived ==
  [][Timeout => waiting \notin shown]_vars
================================================================================
