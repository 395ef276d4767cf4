------------------------------ MODULE LogDelivery ------------------------------
(***************************************************************************)
(* thread_kbuf of psp2shell_m/source/main.c, which takes the kernel's      *)
(* messages and sends them over client->msg_sock, while sessions begin and *)
(* end and psp2shell_exit, called by module_stop or by the command reboot, *)
(* frees the s_client.  Every access to the s_client is a step.            *)
(*                                                                         *)
(* The kernel's list is what KMsgList implements: a pipe of messages.  The *)
(* sessions follow one another (ShellServer has the cases where they do    *)
(* not), and their command loop is left out but for its end and reboot.    *)
(***************************************************************************)
EXTENDS Integers

CONSTANTS
  MaxMsgs,       \* bound: messages the kernel's hooks see, numbered as they are printed
  Sessions,      \* the sessions, each with its message socket
  NoSock,        \* -1
  ZeroSock,      \* 0, what memset leaves
  NoOne

Msgs == 1 .. MaxMsgs
Exiters == Sessions \cup {"stop"}

ASSUME LogAssumption ==
  /\ MaxMsgs \in Nat /\ NoSock \notin Sessions /\ ZeroSock \notin Sessions /\ NoOne \notin Sessions
  /\ NoSock # ZeroSock /\ "stop" \notin Sessions

VARIABLES
  where,         \* per message: how far it got
  owner, to,     \* per message: the session it was printed in, and the one it was sent to
  ready,         \* the kernel's flag
  quit,
  client,        \* the pointer, and client->msg_sock
  open,          \* sessions whose message socket is open
  ses, kbuf, exit,     \* the threads
  late,          \* drains since quit was set, up to 2
  reset,         \* scePowerRequestColdReset was called
  fault          \* a thread went through a pointer to freed memory, or NULL

log == <<where, owner, to>>
logVars == <<log, ready, quit, client, open, ses, kbuf, exit, late, reset, fault>>

LogInit ==
  /\ where = [m \in Msgs |-> "new"] /\ ready = FALSE /\ quit = FALSE
  /\ owner = [m \in Msgs |-> NoOne] /\ to = [m \in Msgs |-> NoOne]
  /\ client = [at |-> "memory", msg |-> NoSock] /\ open = {}
  /\ ses = [c \in Sessions |-> "new"] /\ kbuf = "top"
  /\ exit = [e \in Exiters |-> "idle"] /\ late = 0 /\ reset = FALSE /\ fault = FALSE

Valid == client.at = "memory"
Crash == fault' = TRUE
Fine == UNCHANGED fault

-------------------------------------------------------------------------------
(* The kernel's hooks.                                                     *)

InSession(c) == ses[c] \notin {"new", "done"}

\* A hook finds the flag set ...
Printed(m) ==
  /\ where[m] = "new" /\ (m > 1 => where[m - 1] # "new") /\ ready
  /\ where' = [where EXCEPT ![m] = "hook"]
  /\ \E c \in Sessions : InSession(c) /\ owner' = [owner EXCEPT ![m] = c]
  /\ UNCHANGED to

\* ... and stores the message later, or drops it: kp2s_add_msg.
Store(m) ==
  /\ where[m] = "hook" /\ \E w \in {"stored", "dropped"} : where' = [where EXCEPT ![m] = w]
  /\ UNCHANGED <<owner, to>>

Hook(m) ==
  /\ Printed(m) \/ Store(m)
  /\ UNCHANGED <<ready, quit, client, open, ses, kbuf, exit, late, reset, fault>>

-------------------------------------------------------------------------------
(* thread_kbuf.                                                            *)

Kbuf(from, then) == kbuf = from /\ kbuf' = then
Batch == {m \in Msgs : where[m] = "batch"}
Unsent == UNCHANGED <<log, late>>
Through(then) == IF Valid THEN kbuf' = then /\ Fine ELSE Crash /\ UNCHANGED kbuf

\* Seeded fault: the loop goes on for as long as there is an s_client.
TopClient == Kbuf("top", IF client.at = "null" THEN "top" ELSE "test") /\ Unsent /\ Fine

\* while (!quit)
Top == Kbuf("top", IF quit THEN "done" ELSE "test") /\ Unsent /\ Fine

\* client != NULL && ...
Test == Kbuf("test", IF client.at = "null" THEN "top" ELSE "field") /\ Unsent /\ Fine

\* ... client->msg_sock >= 0
Field ==
  /\ kbuf = "field" /\ Unsent
  /\ Through(IF client.msg = NoSock THEN "top" ELSE "drain")

\* kpsp2shell_wait_buffer
Drain ==
  /\ Kbuf("drain", "retest") /\ Fine
  /\ where' = [m \in Msgs |-> IF where[m] = "stored" THEN "batch" ELSE where[m]]
  /\ late' = IF quit /\ late < 2 THEN late + 1 ELSE late
  /\ UNCHANGED <<owner, to>>

\* The second test, without one for NULL; what was taken is dropped when it fails.
Retest ==
  /\ kbuf = "retest" /\ UNCHANGED <<late, owner, to>>
  /\ Through(IF client.msg = NoSock \/ Batch = {} THEN "top" ELSE "send")
  /\ where' = [m \in Msgs |->
                 IF where[m] = "batch" /\ client.msg = NoSock THEN "lost" ELSE where[m]]

\* sceNetSend on what client->msg_sock is now; its result is not looked at.
Send ==
  /\ kbuf = "send" /\ UNCHANGED <<late, owner>> /\ Through("send")
  /\ \E m \in Batch :
       IF client.msg \in open
       THEN /\ where' = [where EXCEPT ![m] = "sent"]
            /\ to' = [to EXCEPT ![m] = client.msg]
       ELSE where' = [where EXCEPT ![m] = "lost"] /\ UNCHANGED to

\* Seeded fault: the thread ends with its first messages.
SendEndReturn == Batch = {} /\ Kbuf("send", "done") /\ Unsent /\ Fine

SendEnd == Batch = {} /\ Kbuf("send", "top") /\ Unsent /\ Fine

ThreadKbuf ==
  /\ Top \/ Test \/ Field \/ Drain \/ Retest \/ Send \/ SendEnd
  /\ UNCHANGED <<ready, quit, client, open, ses, exit, reset>>

-------------------------------------------------------------------------------
(* cmd_thread, started by thread_wait.                                     *)

Ses(c, from, then) == ses[c] = from /\ ses' = [ses EXCEPT ![c] = then]

StartSession(c) ==
  /\ Ses(c, "new", "clear") /\ ~quit /\ open' = open \cup {c}
  /\ \A d \in Sessions \ {c} : ses[d] \in {"new", "done"}
  /\ UNCHANGED <<client, ready, exit, reset, fault>>

Put(c, sock) ==
  /\ IF Valid THEN Fine ELSE Crash
  /\ client' = [client EXCEPT !.msg = sock] /\ UNCHANGED <<ready, open, exit, reset>>

\* Seeded fault: the flag is set before the socket.
ClearOn(c) ==
  /\ Ses(c, "clear", "setmsg") /\ ready' = TRUE /\ Fine
  /\ client' = [client EXCEPT !.msg = ZeroSock] /\ UNCHANGED <<open, exit, reset>>

Clear(c) == Ses(c, "clear", "setmsg") /\ Put(c, ZeroSock)
SetMsg(c) == Ses(c, "setmsg", "on") /\ Put(c, c)

SetReady(c, from, then, rdy) ==
  /\ Ses(c, from, then) /\ ready' = rdy /\ Fine /\ UNCHANGED <<client, open, exit, reset>>

\* The loop ends with the connection or on quit.
Leave(c) == Ses(c, "run", "off") /\ Fine /\ UNCHANGED <<client, ready, open, exit, reset>>

\* cmd_reboot
Reboot(c) ==
  /\ Ses(c, "run", "reboot") /\ ~quit /\ exit' = [exit EXCEPT ![c] = "check"]
  /\ Fine /\ UNCHANGED <<client, ready, open, reset>>
ColdReset(c) ==
  /\ Ses(c, "reboot", "run") /\ exit[c] = "done" /\ reset' = TRUE
  /\ Fine /\ UNCHANGED <<client, ready, open, exit>>

CloseSock(c) ==
  /\ ses[c] = "close" /\ UNCHANGED <<client, ready, exit, reset>>
  /\ IF Valid THEN Fine ELSE Crash
  /\ IF Valid /\ client.msg # NoSock
     THEN open' = open \ {client.msg} /\ ses' = [ses EXCEPT ![c] = "forget"]
     ELSE ses' = [ses EXCEPT ![c] = "done"] /\ UNCHANGED open
Forget(c) == Ses(c, "forget", "done") /\ Put(c, NoSock)

Obliged(c) ==
  \/ Clear(c) \/ SetMsg(c) \/ SetReady(c, "on", "run", TRUE) \/ ColdReset(c)
  \/ quit /\ Leave(c)
  \/ SetReady(c, "off", "close", FALSE) \/ CloseSock(c) \/ Forget(c)

CmdThreadOn(c) == Obliged(c) /\ UNCHANGED <<log, quit, kbuf, late>>
CmdThread(c) ==
  /\ StartSession(c) \/ Leave(c) \/ Reboot(c) \/ Obliged(c)
  /\ UNCHANGED <<log, quit, kbuf, late>>

-------------------------------------------------------------------------------
(* psp2shell_exit.                                                         *)

Exit(e, from, then) == exit[e] = from /\ exit' = [exit EXCEPT ![e] = then]

ModuleStop ==
  /\ Exit("stop", "idle", "check") /\ UNCHANGED <<quit, ready, client, open>>

ExitCheck(e) ==
  Exit(e, "check", IF quit THEN "done" ELSE "set") /\ UNCHANGED <<quit, ready, client, open>>
SetQuit(e) ==
  Exit(e, "set", "unready") /\ quit' = TRUE /\ UNCHANGED <<ready, client, open>>
Unready(e) ==
  Exit(e, "unready", "close") /\ ready' = FALSE /\ UNCHANGED <<quit, client, open>>
\* The test of client, and of its socket; a second caller may be between them.
ExitClose(e) ==
  /\ Exit(e, "close", IF client.at = "null" THEN "server" ELSE "forget")
  /\ open' = (IF Valid THEN open \ {client.msg} ELSE open)
  /\ UNCHANGED <<quit, ready, client>>
ExitForget(e) ==
  /\ Exit(e, "forget", "join") /\ client' = [client EXCEPT !.msg = NoSock]
  /\ UNCHANGED <<quit, ready, open>>

\* Seeded fault: a thread's wait for itself blocks.
JoinSelf(e) ==
  /\ Exit(e, "join", "free") /\ \A c \in Sessions : ses[c] \in {"new", "done"}
  /\ UNCHANGED <<quit, ready, client, open>>

\* sceKernelWaitThreadEnd(thid_client); a thread's wait for itself is refused (external).
Join(e) ==
  /\ Exit(e, "join", "free") /\ \A c \in Sessions \ {e} : ses[c] \in {"new", "done"}
  /\ UNCHANGED <<quit, ready, client, open>>

\* p2s_free finds no block at NULL.
Free(e) ==
  /\ Exit(e, "free", "null")
  /\ client' = [client EXCEPT !.at = IF @ = "null" THEN @ ELSE "freed"]
  /\ UNCHANGED <<quit, ready, open>>
SetNull(e) ==
  /\ Exit(e, "null", "server") /\ client' = [client EXCEPT !.at = "null"]
  /\ UNCHANGED <<quit, ready, open>>

\* close_server; sceKernelWaitThreadEnd(thid_wait), whose accept now fails; then
\* sceKernelDeleteThread(thid_kbuf), refused while that thread runs (external).
EndServer(e) == Exit(e, "server", "done") /\ UNCHANGED <<quit, ready, client, open>>

Psp2shellExit(e) ==
  /\ \/ ExitCheck(e) \/ SetQuit(e) \/ Unready(e) \/ ExitClose(e) \/ ExitForget(e) \/ Join(e)
     \/ Free(e) \/ SetNull(e) \/ EndServer(e)
  /\ fault' = (<<exit[e], client.at>> = <<"close", "freed">> \/ (exit[e] = "forget" /\ ~Valid))
  /\ UNCHANGED <<log, ses, kbuf, late, reset>>

-------------------------------------------------------------------------------
Stop == ModuleStop /\ UNCHANGED <<log, ses, kbuf, late, reset, fault>>

LogNext ==
  /\ ~fault
  /\ \/ \E m \in Msgs : Hook(m)
     \/ ThreadKbuf \/ Stop
     \/ \E c \in Sessions : CmdThread(c)
     \/ \E e \in Exiters : Psp2shellExit(e)

LogSpec == LogInit /\ [][LogNext]_logVars

\* Threads that can go on do; clients, the user and printing threads promise nothing.
FairLogSpec ==
  /\ LogSpec /\ WF_logVars(~fault /\ ThreadKbuf) /\ WF_logVars(~fault /\ Psp2shellExit("stop"))
  /\ \A c \in Sessions : WF_logVars(~fault /\ (CmdThreadOn(c) \/ Psp2shellExit(c)))

-------------------------------------------------------------------------------
(* Properties.                                                             *)

\* The variables stay in their ranges.
LogTypeOK ==
  /\ where \in [Msgs -> {"new", "hook", "dropped", "stored", "batch", "sent", "lost"}]
  /\ owner \in [Msgs -> Sessions \cup {NoOne}] /\ to \in [Msgs -> Sessions \cup {NoOne}]
  /\ {ready, quit, reset, fault} \subseteq BOOLEAN /\ open \subseteq Sessions
  /\ client \in [at : {"memory", "freed", "null"}, msg : Sessions \cup {NoSock, ZeroSock}]
  /\ ses \in [Sessions -> {"new", "clear", "setmsg", "on", "run", "reboot", "off", "close",
                           "forget", "done"}]
  /\ kbuf \in {"top", "test", "field", "drain", "retest", "send", "done"}
  /\ late \in 0 .. 2
  /\ exit \in [Exiters -> {"idle", "check", "set", "unready", "close", "forget", "join",
                           "free", "null", "server", "done"}]

\* The variables stay in their ranges, and while a session runs, none of the messages
\* printed in it is lost or given to another client, whatever thread_kbuf was in the
\* middle of when the session began.
SessionKeeps ==
  /\ LogTypeOK
  /\ \A m \in Msgs : owner[m] \in Sessions /\ ses[owner[m]] = "run" /\ ~quit =>
       where[m] # "lost" /\ to[m] \in {NoOne, owner[m]}

\* After psp2shell_exit set quit, thread_kbuf takes messages at most once more: it goes
\* through the s_client being freed in one pass only.
LastPass == late <= 1

\* A message stored in a running session reaches its client.
Delivered ==
  \A m \in Msgs : where[m] = "stored" ~>
    \/ where[m] \in {"sent", "lost"} \/ quit
    \/ \A c \in Sessions : ses[c] # "run"

\* reboot resets the console, unless thread_kbuf or the thread itself went through the
\* freed s_client first: psp2shell_exit called by cmd_thread does not wait for ever.
Resets == \A c \in Sessions : ses[c] = "reboot" ~> reset \/ fault
===============================================================================
