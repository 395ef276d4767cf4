-------------------------------- MODULE CmdLink --------------------------------
(***************************************************************************)
(* The command connection of one session: psp2shell_cli's command handlers *)
(* (psp2shell_cli/source/cmd.c) against cmd_thread's receive loop and the  *)
(* upload commands put, load and reload (psp2shell_m/source/cmd.c), with   *)
(* the parsing of common/p2s_cmd.c in between.                             *)
(*                                                                         *)
(* The connection carries units: a command, an upload command or a block   *)
(* of file data, each written by one send.  A recv returns any number of   *)
(* units that have arrived, never half of one: a command is a few bytes,   *)
(* and a data unit stands for as much of the file as one recv returns.     *)
(* The parser takes the first unit of what was received; what else came    *)
(* with it ends up behind the last argument and is never looked at.        *)
(*                                                                         *)
(* File data that reaches the parser may read as any command, an upload    *)
(* included, which is then number 0 of what was executed.                  *)
(*                                                                         *)
(* executed, lost, stored and complete are history variables, and so is    *)
(* upset: a file changed while it was sent, the server had no buffer for   *)
(* it, or the connection broke.                                            *)
(***************************************************************************)
EXTENDS Integers, Sequences

CONSTANTS
  MaxCmds,       \* bound: commands the user enters
  MaxBlocks      \* bound: blocks of a file

ASSUME ConstantsAssumption == MaxCmds \in Nat /\ MaxBlocks \in Nat

Ids == 1 .. MaxCmds
Garbage == [kind |-> "data", id |-> 0, nr |-> 0]     \* what a failed recv leaves in the buffer
Units == [kind : {"plain", "upload", "data"}, id : Ids \cup {0}, nr : 0 .. MaxBlocks]

VARIABLES
  conn,          \* "up", "closed" (by the client) or "reset"
  toSrv, toCli,  \* units and results under way
  cli,           \* the client: pc, command in hand, blocks it will send
  next,          \* the next command the user enters
  srv,           \* cmd_thread: pc, command in hand, blocks still to come
  executed,      \* commands the server carried out or began to carry out, in order
  lost,          \* commands received behind another one or in the place of file data
  stored,        \* per upload, what was written to the file
  complete,      \* per upload, the announced number of blocks (0 .. MaxBlocks), or -1
  upset

vars == <<conn, toSrv, toCli, cli, next, srv, executed, lost, stored, complete, upset>>
cliVars == <<cli, next>>
srvVars == <<srv, executed, lost, stored, complete>>

Init ==
  /\ conn = "up" /\ toSrv = <<>> /\ toCli = <<>> /\ next = 1 /\ upset = FALSE
  /\ cli = [pc |-> "idle", id |-> 0, left |-> 0]
  /\ srv = [pc |-> "recv", id |-> 0, left |-> 0]
  /\ executed = <<>> /\ lost = {}
  /\ stored = [i \in Ids |-> <<>>] /\ complete = [i \in Ids |-> -1]

From(s, k) == SubSeq(s, k + 1, Len(s))
Commands(s) == {s[i].id : i \in {j \in DOMAIN s : s[j].kind # "data"}}

-------------------------------------------------------------------------------
(* The client, which reads a line when the last handler has returned.      *)

\* A command without an answer: ls, cd, rm, launch, ...
SendPlain ==
  /\ cli.pc = "idle" /\ next <= MaxCmds
  /\ toSrv' = Append(toSrv, [kind |-> "plain", id |-> next, nr |-> 0])
  /\ next' = next + 1
  /\ UNCHANGED <<conn, toCli, cli, srvVars, upset>>

\* cmd_put, cmd_load, cmd_reload: announce the size the file has now (size blocks) and
\* wait; the file may have another one (blocks) when it is sent.
SendUpload(size, blocks) ==
  /\ cli.pc = "idle" /\ next <= MaxCmds
  /\ toSrv' = Append(toSrv, [kind |-> "upload", id |-> next, nr |-> size])
  /\ cli' = [pc |-> "wait", id |-> next, left |-> blocks]
  /\ next' = next + 1 /\ upset' = (upset \/ size # blocks)
  /\ UNCHANGED <<conn, toCli, srvVars>>

\* p2s_cmd_wait_result: CMD_OK starts send_file, anything else ends the command.
GetResult(k) ==
  /\ cli.pc = "wait" /\ k \in 1 .. Len(toCli)
  /\ toCli' = From(toCli, k)
  /\ cli' = [cli EXCEPT !.pc = IF Head(toCli) = "OK" THEN "send" ELSE "idle"]
  /\ UNCHANGED <<conn, toSrv, next, srvVars, upset>>

\* send_file, one block, or the end of the file
SendBlock ==
  /\ cli.pc = "send" /\ cli.left > 0
  /\ toSrv' = Append(toSrv, [kind |-> "data", id |-> cli.id, nr |-> cli.left])
  /\ cli' = [cli EXCEPT !.left = @ - 1]
  /\ UNCHANGED <<conn, toCli, next, srvVars, upset>>

\* Seeded fault: the last block is not sent.
SendEndsEarly ==
  /\ cli.pc = "send" /\ cli.left <= 1
  /\ cli' = [cli EXCEPT !.pc = "idle"]
  /\ UNCHANGED <<conn, toSrv, toCli, next, srvVars, upset>>

SendEnds ==
  /\ cli.pc = "send" /\ cli.left = 0
  /\ cli' = [cli EXCEPT !.pc = "idle"]
  /\ UNCHANGED <<conn, toSrv, toCli, next, srvVars, upset>>

\* The client process ends, or the connection breaks and what was under way is gone.
Disconnect ==
  /\ conn = "up" /\ upset' = TRUE
  /\ \/ conn' = "closed" /\ UNCHANGED toSrv
     \/ conn' = "reset" /\ toSrv' = <<>>
  /\ toCli' = <<>> /\ cli' = [cli EXCEPT !.pc = "gone"]
  /\ UNCHANGED <<next, srvVars>>

-------------------------------------------------------------------------------
(* cmd_thread: p2s_cmd_receive and the handlers.                           *)

\* recv: k units leave the connection, of which the parser looks at the first.
Read(k) ==
  /\ srv.pc = "recv" /\ conn # "reset" /\ k \in 1 .. Len(toSrv)
  /\ toSrv' = From(toSrv, k)
  /\ lost' = lost \cup Commands(SubSeq(toSrv, 2, k))

\* A command that needs nothing more from this connection.
ReceivePlain(k) ==
  /\ Read(k) /\ Head(toSrv).kind = "plain"
  /\ executed' = Append(executed, Head(toSrv).id)
  /\ UNCHANGED <<conn, toCli, cliVars, srv, stored, complete, upset>>

Reply(result) == toCli' = IF conn = "up" THEN Append(toCli, result) ELSE toCli
Upload(id, size) == srv' = [pc |-> "alloc", id |-> id, left |-> size]

\* Seeded fault: a file that cannot be opened is reported on the message socket only.
ReceiveUploadSilent(k) ==
  /\ Read(k) /\ Head(toSrv).kind = "upload"
  /\ executed' = Append(executed, Head(toSrv).id)
  /\ \/ Reply("OK") /\ Upload(Head(toSrv).id, Head(toSrv).nr)
     \/ UNCHANGED <<toCli, srv>>
  /\ UNCHANGED <<conn, cliVars, stored, complete, upset>>

\* put, load, reload: the file is opened, or refused (no file, no running application).
Begin(id, size) ==
  /\ executed' = Append(executed, id)
  /\ \/ Reply("OK") /\ Upload(id, size)
     \/ Reply("NOK") /\ UNCHANGED srv

ReceiveUpload(k) ==
  /\ Read(k) /\ Head(toSrv).kind = "upload"
  /\ Begin(Head(toSrv).id, Head(toSrv).nr)
  /\ UNCHANGED <<conn, cliVars, stored, complete, upset>>

\* File data reaches the parser: an invalid command, or whatever its first bytes say, which
\* may be put, load or reload of any size; the answer then goes to a client that did not ask.
ReceiveData(k) ==
  /\ Read(k) /\ Head(toSrv).kind = "data"
  /\ \/ UNCHANGED <<executed, toCli, srv>>
     \/ executed' = Append(executed, 0) /\ UNCHANGED <<toCli, srv>>
     \/ \E size \in 0 .. MaxBlocks : Begin(0, size)
  /\ UNCHANGED <<conn, cliVars, stored, complete, upset>>

\* recv fails or reports the end: P2S_ERR_SOCKET, the session ends.
ReceiveFails ==
  /\ srv.pc = "recv" /\ conn # "up" /\ toSrv = <<>>
  /\ srv' = [srv EXCEPT !.pc = "end"]
  /\ UNCHANGED <<conn, toSrv, toCli, cliVars, executed, lost, stored, complete, upset>>

\* Seeded fault: the missing buffer is reported after CMD_OK was.
AllocReports ==
  /\ srv.pc = "alloc"
  /\ \/ srv' = [srv EXCEPT !.pc = "file"] /\ UNCHANGED <<toCli, upset>>
     \/ /\ srv' = [pc |-> "recv", id |-> 0, left |-> 0] /\ upset' = TRUE
        /\ Reply("NOK")
  /\ UNCHANGED <<conn, toSrv, cliVars, executed, lost, stored, complete>>

\* p2s_recv_file's buffer; without one it returns although CMD_OK was already sent.
Alloc ==
  /\ srv.pc = "alloc"
  /\ \/ srv' = [srv EXCEPT !.pc = "file"] /\ UNCHANGED upset
     \/ srv' = [pc |-> "recv", id |-> 0, left |-> 0] /\ upset' = TRUE
  /\ UNCHANGED <<conn, toSrv, toCli, cliVars, executed, lost, stored, complete>>

Store(unit) ==
  /\ srv' = [srv EXCEPT !.left = @ - 1]
  /\ lost' = lost \cup Commands(<<unit>>)
  /\ stored' = [id \in Ids |-> IF id = srv.id THEN Append(stored[id], unit) ELSE stored[id]]

Complete ==
  complete' = [id \in Ids |-> IF id = srv.id THEN Len(stored[id]) ELSE complete[id]]

\* One block is received and written.  A recv that fails with -1 counts as a full block.
FileBlock ==
  /\ srv.pc = "file" /\ srv.left > 0
  /\ \/ toSrv # <<>> /\ Store(Head(toSrv)) /\ toSrv' = Tail(toSrv)
     \/ conn = "reset" /\ Store(Garbage) /\ UNCHANGED toSrv
  /\ UNCHANGED <<conn, toCli, cliVars, executed, complete, upset>>

\* Seeded fault: the last block is not waited for.
FileEndsEarly ==
  /\ srv.pc = "file" /\ srv.left <= 1
  /\ Complete
  /\ srv' = [pc |-> "recv", id |-> 0, left |-> 0]
  /\ UNCHANGED <<conn, toSrv, toCli, cliVars, executed, lost, stored, upset>>

\* recv reports the end, which is taken for progress of 0 bytes, or fails with another code
\* than -1, which is taken off what is left to receive: neither loop gets any further.
FileSpins ==
  /\ srv.pc = "file" /\ srv.left > 0 /\ conn # "up" /\ toSrv = <<>>
  /\ srv' = [srv EXCEPT !.pc = "spin"]
  /\ UNCHANGED <<conn, toSrv, toCli, cliVars, executed, lost, stored, complete, upset>>

\* The announced size has been received.
FileEnds ==
  /\ srv.pc = "file" /\ srv.left = 0
  /\ Complete
  /\ srv' = [pc |-> "recv", id |-> 0, left |-> 0]
  /\ UNCHANGED <<conn, toSrv, toCli, cliVars, executed, lost, stored, upset>>

-------------------------------------------------------------------------------
Receive(k) == ReceivePlain(k) \/ ReceiveUpload(k) \/ ReceiveData(k)
Server ==
  \/ \E k \in 1 .. Len(toSrv) : Receive(k)
  \/ ReceiveFails \/ Alloc \/ FileBlock \/ FileSpins \/ FileEnds
Answering == (\E k \in 1 .. Len(toCli) : GetResult(k)) \/ SendBlock \/ SendEnds
Entering == SendPlain \/ \E size, blocks \in 0 .. MaxBlocks : SendUpload(size, blocks)
Next == Entering \/ Answering \/ Disconnect \/ Server

Spec == Init /\ [][Next]_vars
\* cmd_thread and a running command handler go on; the user need not enter anything.
FairSpec == Spec /\ WF_vars(Server) /\ WF_vars(Answering)

-------------------------------------------------------------------------------
(* Properties.                                                             *)

\* The variables stay in their ranges.
TypeOK ==
  /\ conn \in {"up", "closed", "reset"} /\ upset \in BOOLEAN
  /\ toSrv \in Seq(Units) /\ toCli \in Seq({"OK", "NOK"})
  /\ cli \in [pc : {"idle", "wait", "send", "gone"}, id : 0 .. MaxCmds, left : 0 .. MaxBlocks]
  /\ next \in 1 .. MaxCmds + 1
  /\ srv \in [pc : {"recv", "alloc", "file", "spin", "end"}, id : 0 .. MaxCmds,
               left : 0 .. MaxBlocks]
  /\ executed \in Seq(0 .. MaxCmds) /\ lost \subseteq Ids
  /\ stored \in [Ids -> Seq(Units)] /\ complete \in [Ids -> -1 .. MaxBlocks]

\* File data never reaches the command parser, unless a file changed while it was sent or
\* the server had no buffer for it.
NoDataParsed ==
  ~upset /\ srv.pc = "recv" =>
    /\ cli.pc = "send" => cli.left = 0
    /\ \A i \in 1 .. Len(toSrv) : toSrv[i].kind # "data"
    /\ \A i \in 1 .. Len(executed) : executed[i] # 0

\* The blocks of upload id as the client sends them.
Sent(id, size) ==
  [i \in 1 .. size |-> [kind |-> "data", id |-> id, nr |-> size + 1 - i]]

\* An upload that is reported complete has in its file what the client sent, in order and
\* nothing else, unless it changed meanwhile or the connection broke.
UploadIntact ==
  \A id \in Ids : ~upset /\ complete[id] >= 0 => stored[id] = Sent(id, complete[id])

\* Commands and file data, which share the connection without a mark, keep apart: no data
\* is parsed, no command ends up in a file, no file that is complete lacks a block.
DataKept == TypeOK /\ NoDataParsed /\ UploadIntact

\* A result is only under way to a client that waits for it, and only the one it waits
\* for: an earlier upload's answer is never taken for a later one's.
ResultExpected ==
  toCli # <<>> =>
    /\ Len(toCli) = 1 /\ cli.pc = "wait"
    /\ cli.id = executed[Len(executed)]

\* Commands are carried out in the order they were entered, none twice, and none that
\* was lost.
InOrder ==
  /\ \A i, j \in 1 .. Len(executed) :
       i < j /\ executed[i] # 0 /\ executed[j] # 0 => executed[i] < executed[j]
  /\ \A i \in 1 .. Len(executed) : executed[i] \notin lost

\* File data was carried out as a command.
Stray == \E i \in DOMAIN executed : executed[i] = 0

\* Commands are executed as entered, however recv coalesces them; and each answer meets the
\* upload it belongs to, until file data is carried out as a command.
Matched == InOrder /\ (Stray \/ ResultExpected)

\* A client that waits for the answer to an upload gets it, unless the command was lost.
Answered == cli.pc = "wait" ~> cli.pc # "wait" \/ cli.id \in lost

Uploading == srv.pc \in {"alloc", "file", "spin"}

\* An upload comes to an end, unless the file shrank or the client went away.
UploadEnds == Uploading ~> ~Uploading \/ upset
================================================================================
