------------------------------- MODULE ClientLife -------------------------------
(***************************************************************************)
(* The program psp2shell_cli: main, which connects, reads lines and runs   *)
(* commands, and the msg_threads, which read the message connection and    *)
(* start the program anew when it ends.  They share msg_sock, cmd_sock and *)
(* the terminal without a lock, so each access is a step.                  *)
(*                                                                         *)
(* The sockets are the system's (external): descriptors are given out from *)
(* the lowest, recv keeps the connection it began on, and a send on a      *)
(* connection whose end was reported kills the process (SIGPIPE), as CTRL+C *)
(* does without a handler.  The other side is any server: it accepts,      *)
(* sends, and closes or resets a connection when it wants.  What the       *)
(* commands mean is in CmdLink, what the messages mean in MsgLink.         *)
(***************************************************************************)
EXTENDS Integers, FiniteSets

CONSTANTS
  Gens,        \* bound: calls of connect_psp2, over all starts of the program
  Fds,         \* descriptors: enough for the sockets that are ever open together
  MaxLoss,     \* bound: connections the server closes or resets
  Args,        \* how the program may be started: with a command in argv, or without
  NoConn       \* what a descriptor that is not open stands for

ASSUME ConstantsAssumption ==
  /\ IsFiniteSet(Gens) /\ Gens = 1 .. Cardinality(Gens) /\ MaxLoss \in Nat
  /\ IsFiniteSet(Fds) /\ Fds = 1 .. Cardinality(Fds) /\ 2 * Cardinality(Gens) <= Cardinality(Fds)
  /\ Args \subseteq BOOLEAN /\ NoConn \notin Gens \X {"msg", "cmd"}

Conns == Gens \X {"msg", "cmd"}     \* the sockets of each call of connect_psp2
Socks == Fds \cup {-1}

VARIABLES
  proc, once,             \* the process; argc > 3
  file, status,           \* what each descriptor stands for; each connection's state
  msg_sock, cmd_sock,     \* the globals, shared by all threads
  main, ret, fd, gen,     \* main: where it is, and where to after closing
  on,                     \* the connection main waits on for a result
  reader, from,           \* per call of connect_psp2: its msg_thread, what it reads
  readline_callback, tty, old,     \* the terminal, and what setup_terminal found
  sigint,                 \* what CTRL+C does: "default", it ends the process, or "handler"
  losses,
  early,                  \* calls of connect_psp2 that were not through when the end was seen
  beside                  \* ... and those begun while an earlier msg_thread was still there

sockets == <<file, status, losses>>
globals == <<msg_sock, cmd_sock>>
terminal == <<readline_callback, tty, old, sigint>>
mains == <<main, ret, fd, gen, on, beside>>
readers == <<reader, from, early>>
vars == <<proc, once, sockets, globals, terminal, mains, readers>>

Init ==
  /\ proc = "running" /\ once \in Args
  /\ file = [f \in Fds |-> NoConn] /\ status = [c \in Conns |-> "none"]
  /\ msg_sock = -1 /\ cmd_sock = -1
  /\ main = (IF once THEN "socket_msg" ELSE "loop") /\ ret = "" /\ fd = -1 /\ gen = 0
  /\ on = NoConn /\ reader = [g \in Gens |-> "none"] /\ from = [g \in Gens |-> NoConn]
  /\ readline_callback = FALSE /\ tty = "user" /\ old = "zero" /\ sigint = "default"
  /\ losses = 0 /\ early = {} /\ beside = {}

-------------------------------------------------------------------------------
(* The system's calls.                                                     *)

ConnOf(sock) == IF sock = -1 THEN NoConn ELSE file[sock]
State(c) == IF c = NoConn THEN "closed" ELSE status[c]
Lost(c) == State(c) \in {"closed", "eof", "reset", "pipe", "dead"}
Lowest == CHOOSE f \in Fds : file[f] = NoConn /\ \A e \in Fds : file[e] = NoConn => f <= e

Close(sock) == file' = [f \in Fds |-> IF f = sock THEN NoConn ELSE file[f]]

\* An error that is pending is reported once.
Reported(c) ==
  status' = IF State(c) \in {"reset", "pipe"}
            THEN [status EXCEPT ![c] = "dead"] ELSE status

\* send: a closed connection answers with a reset.
SendOn(sock) ==
  LET c == ConnOf(sock) IN
  /\ proc' = IF State(c) \in {"pipe", "dead"} THEN "pipe" ELSE proc
  /\ status' = IF State(c) \in {"closed", "open"} THEN status
               ELSE [status EXCEPT ![c] = IF @ = "eof" THEN "pipe" ELSE "dead"]

\* tcsetattr with what setup_terminal saved: zeros when it was never called.
CloseTerminal == tty' = old /\ readline_callback' = FALSE /\ UNCHANGED <<old, sigint>>

-------------------------------------------------------------------------------
(* close(msg_sock), close(cmd_sock), msg_sock = -1, cmd_sock = -1: in      *)
(* close_socks and in msg_thread, one after the other.                     *)

ClosePcs == <<"close_msg", "close_cmd", "forget_msg", "forget_cmd">>

CloseStep(pc) ==
  /\ CASE pc = "close_msg" -> Close(msg_sock) /\ UNCHANGED globals
       [] pc = "close_cmd" -> Close(cmd_sock) /\ UNCHANGED globals
       [] pc = "forget_msg" -> msg_sock' = -1 /\ UNCHANGED <<file, cmd_sock>>
       [] pc = "forget_cmd" -> cmd_sock' = -1 /\ UNCHANGED <<file, msg_sock>>
  /\ UNCHANGED <<status, losses>>

\* Seeded fault: the command socket is left open.
AfterCloseMsgOnly(pc, then) ==
  CASE pc = "close_msg" -> "forget_msg" [] pc = "forget_msg" -> "forget_cmd"
    [] pc = "close_cmd" -> "forget_msg" [] pc = "forget_cmd" -> then

Closing(pc) == \E i \in 1 .. 4 : ClosePcs[i] = pc
AfterClose(pc, then) ==
  LET i == CHOOSE j \in 1 .. 4 : ClosePcs[j] = pc IN IF i = 4 THEN then ELSE ClosePcs[i + 1]

-------------------------------------------------------------------------------
(* main: connect_psp2 and get_sock.                                        *)

At(pc, then) == main = pc /\ main' = then
Fd(f) == fd' = f

Start == IF once THEN "line" ELSE "loop"     \* process_args ignores what connect_psp2 returns

Loop ==
  /\ At("loop", IF msg_sock = -1 THEN "socket_msg" ELSE "check_msg")
  /\ UNCHANGED <<proc, sockets, globals, terminal, ret, fd, gen, on, beside, readers>>

SocketMsg ==
  /\ At("socket_msg", "connect_msg") /\ gen + 1 \in Gens /\ gen' = gen + 1
  /\ Fd(Lowest) /\ file' = [file EXCEPT ![Lowest] = <<gen + 1, "msg">>]
  /\ beside' = (IF \E g \in Gens : reader[g] # "none" THEN beside \cup {gen'} ELSE beside)
  /\ UNCHANGED <<proc, status, losses, globals, terminal, ret, on, readers>>

\* connect, again and again until it succeeds; then the msg_thread is created.
ConnectMsg ==
  /\ At("connect_msg", "socket_cmd") /\ file[fd] = <<gen, "msg">>
  /\ status' = [status EXCEPT ![<<gen, "msg">>] = "open"]
  /\ msg_sock' = fd /\ Fd(-1) /\ reader' = [reader EXCEPT ![gen] = "call"]
  /\ UNCHANGED <<proc, file, losses, cmd_sock, terminal, ret, gen, on, beside,
                 from, early>>

SocketCmd ==
  /\ At("socket_cmd", "connect_cmd")
  /\ Fd(Lowest) /\ file' = [file EXCEPT ![Lowest] = <<gen, "cmd">>]
  /\ UNCHANGED <<proc, status, losses, globals, terminal, ret, gen, on, beside, readers>>

ConnectCmd ==
  /\ At("connect_cmd", "setup") /\ file[fd] = <<gen, "cmd">>
  /\ status' = [status EXCEPT ![<<gen, "cmd">>] = "open"] /\ cmd_sock' = fd /\ Fd(-1)
  /\ UNCHANGED <<proc, file, losses, msg_sock, terminal, ret, gen, on, beside,
                 readers>>

SetupTerminal ==
  /\ At("setup", "catch") /\ readline_callback' = TRUE
  /\ old' = tty /\ tty' = (IF tty = "user" THEN "raw" ELSE tty)
  /\ UNCHANGED <<proc, sockets, globals, sigint, ret, fd, gen, on, beside, readers>>

\* signal(SIGINT, sig_handler)
CatchInterrupt ==
  /\ At("catch", Start) /\ sigint' = "handler"
  /\ UNCHANGED <<proc, sockets, globals, readline_callback, tty, old, ret, fd, gen, on, beside,
                 readers>>

Connect == Loop \/ SocketMsg \/ ConnectMsg \/ SocketCmd \/ ConnectCmd \/ SetupTerminal

-------------------------------------------------------------------------------
(* main: the dead sockets, and the keys.                                   *)

\* Seeded fault: the end of the stream is an error too.
DeadAtEnd(c) == State(c) \in {"closed", "reset", "pipe", "eof"}

\* getsockopt(SO_ERROR): the end of the stream is no error.
Dead(c) == State(c) \in {"closed", "reset", "pipe"}

Check(pc, sock, then) ==
  LET c == ConnOf(sock) IN
  /\ At(pc, IF Dead(c) THEN "close_msg" ELSE then) /\ Reported(c)
  /\ ret' = (IF Dead(c) THEN then ELSE ret)
  /\ UNCHANGED <<proc, file, losses, globals, terminal, fd, gen, on, beside, readers>>

CheckMsg == Check("check_msg", msg_sock, "check_cmd")
CheckCmd == Check("check_cmd", cmd_sock, "select")

MainClose ==
  /\ Closing(main) /\ main' = AfterClose(main, IF ret = "exit" THEN ret ELSE "term")
  /\ CloseStep(main) /\ UNCHANGED <<proc, terminal, ret, fd, gen, on, beside, readers>>

MainTerm ==
  /\ At("term", ret) /\ CloseTerminal /\ ret' = ""
  /\ UNCHANGED <<proc, sockets, globals, fd, gen, on, beside, readers>>

Goto(pc, then) ==
  /\ At(pc, then) /\ UNCHANGED <<proc, sockets, globals, terminal, ret, fd, gen, on, beside,
                                 readers>>

\* select: a key is there, which stays where it is without a handler.
Select == Goto("select", IF readline_callback THEN "read" ELSE "loop")

\* CTRL+C: the handler clears the line, and select returns.
Interrupt == sigint = "handler" /\ Goto("select", "loop")

\* Without the handler it ends the process, wherever its threads are.
Interrupted ==
  /\ sigint = "default" /\ proc' = "interrupted"
  /\ UNCHANGED <<sockets, globals, terminal, mains, readers>>

\* rl_callback_read_char: part of a line, a line, or the end of the input; without a
\* handler it aborts the process (external).
ReadChar ==
  /\ readline_callback
  /\ \E then \in {"loop", "line", "quit_term"} : Goto("read", then)
NoHandler ==
  /\ At("read", "read") /\ ~readline_callback /\ proc' = "killed"
  /\ UNCHANGED <<sockets, globals, terminal, ret, fd, gen, on, beside, readers>>

Keys == ReadChar \/ NoHandler

-------------------------------------------------------------------------------
(* main: process_line and the command handlers, by what they do with the   *)
(* socket and the keyboard.                                                *)

After == IF once THEN "leave_term" ELSE "loop"

Command ==
  \E then \in {After, "send", "ask", "send_file", "exit_term"} : Goto("line", then)

\* cmd_rm and cmd_rmdir read the answer themselves.
Ask == \E then \in {"send", After} : Goto("ask", then)

SendCmd ==
  /\ At("send", After) /\ SendOn(cmd_sock)
  /\ UNCHANGED <<file, losses, globals, terminal, ret, fd, gen, on, beside, readers>>

\* cmd_put, cmd_load and cmd_reload: the command, then p2s_cmd_wait_result.
SendFile ==
  /\ At("send_file", "result") /\ SendOn(cmd_sock) /\ on' = ConnOf(cmd_sock)
  /\ UNCHANGED <<file, losses, globals, terminal, ret, fd, gen, beside, readers>>

\* The result, or the end of the connection ...
Answer(then) ==
  /\ At("result", then) /\ on' = NoConn /\ Reported(on)
  /\ UNCHANGED <<proc, file, losses, globals, terminal, ret, fd, gen, beside, readers>>
Result == State(on) = "open" /\ \E then \in {"data", After} : Answer(then)
NoResult == Lost(on) /\ Answer(After)

\* ... and a block of the file, until the last or a failure.
SendData ==
  /\ main = "data" /\ SendOn(cmd_sock)
  /\ main' \in (IF State(ConnOf(cmd_sock)) \in {"closed", "reset"}
                THEN {After} ELSE {"data", After})
  /\ UNCHANGED <<file, losses, globals, terminal, ret, fd, gen, on, beside, readers>>

\* Seeded fault: cmd_exit leaves the sockets and the terminal to the system.
EndNoTerm ==
  /\ main \in {"exit_term", "quit_term", "leave_term"} /\ main' = "exit" /\ ret' = "exit"
  /\ UNCHANGED <<proc, sockets, globals, terminal, fd, gen, on, beside, readers>>

\* close_terminal, before exit(0): in cmd_exit, for the end of the input, in process_args.
EndTerm ==
  /\ main \in {"exit_term", "quit_term", "leave_term"} /\ CloseTerminal /\ ret' = "exit"
  /\ main' = (IF main = "exit_term" THEN "close_msg" ELSE "exit")
  /\ UNCHANGED <<proc, sockets, globals, fd, gen, on, beside, readers>>

ExitProcess ==
  /\ At("exit", "exit") /\ proc' = "exited" /\ file' = [f \in Fds |-> NoConn]
  /\ UNCHANGED <<status, losses, globals, terminal, ret, fd, gen, on, beside, readers>>

Commands == Command \/ SendCmd \/ SendFile \/ NoResult \/ SendData \/ EndTerm \/ ExitProcess

-------------------------------------------------------------------------------
(* msg_thread of call g.                                                   *)

Rd(g, pc, then) == reader[g] = pc /\ reader' = [reader EXCEPT ![g] = then]

Nothing(g) == from' = [from EXCEPT ![g] = NoConn]

\* recv begins, on what msg_sock is now.
Receive(g) ==
  /\ Rd(g, "call", "recv") /\ from' = [from EXCEPT ![g] = ConnOf(msg_sock)]
  /\ UNCHANGED <<proc, sockets, globals, terminal, mains, early>>

\* A message, to be answered or not.
Got(g) ==
  /\ State(from[g]) = "open"
  /\ \/ Rd(g, "recv", "reply") /\ UNCHANGED from
     \/ Rd(g, "recv", "call") /\ Nothing(g)
  /\ UNCHANGED <<proc, sockets, globals, terminal, mains, early>>

\* Seeded fault: the end of the stream is taken for raw data.
EndSeenRaw(g) ==
  /\ Lost(from[g]) /\ Reported(from[g]) /\ Nothing(g)
  /\ Rd(g, "recv", IF State(from[g]) \in {"eof", "dead"}
                   THEN "call" ELSE "term")
  /\ early' = (IF <<gen, main>> \in {g} \X {"socket_cmd", "connect_cmd", "setup"}
               THEN early \cup {g} ELSE early)
  /\ sigint' = "default" /\ UNCHANGED <<readline_callback, tty, old>>
  /\ UNCHANGED <<proc, file, losses, globals, mains>>

\* P2S_ERR_SOCKET: the end of the stream, an error, or no socket; signal(SIGINT, SIG_DFL).
EndSeen(g) ==
  /\ Lost(from[g]) /\ Reported(from[g]) /\ Nothing(g)
  /\ Rd(g, "recv", "term")
  /\ early' = (IF <<gen, main>> \in {g} \X {"socket_cmd", "connect_cmd", "setup"}
               THEN early \cup {g} ELSE early)
  /\ sigint' = "default" /\ UNCHANGED <<readline_callback, tty, old>>
  /\ UNCHANGED <<proc, file, losses, globals, mains>>

Reply(g) ==
  /\ Rd(g, "reply", "call") /\ SendOn(msg_sock) /\ Nothing(g)
  /\ UNCHANGED <<file, losses, globals, terminal, mains, early>>

ThreadTerm(g) ==
  /\ Rd(g, "term", "close_msg") /\ CloseTerminal
  /\ UNCHANGED <<proc, sockets, globals, mains, from, early>>

ThreadClose(g) ==
  /\ Closing(reader[g]) /\ Rd(g, reader[g], AfterClose(reader[g], "exec")) /\ CloseStep(reader[g])
  /\ UNCHANGED <<proc, terminal, mains, from, early>>

\* execvp: the program from its start, with the descriptors that are open and without
\* handlers.  _argv is set on the way to the loop only.
Exec(g) ==
  /\ reader[g] = "exec" /\ UNCHANGED <<sockets, tty, gen, early, beside>>
  /\ IF once
     THEN proc' = "killed" /\ UNCHANGED <<globals, main, ret, fd, on, reader, from,
                                          readline_callback, old, sigint>>
     ELSE /\ msg_sock' = -1 /\ cmd_sock' = -1 /\ main' = "loop" /\ ret' = "" /\ fd' = -1
          /\ on' = NoConn /\ readline_callback' = FALSE /\ old' = "zero" /\ sigint' = "default"
          /\ reader' = [h \in Gens |-> "none"] /\ from' = [h \in Gens |-> NoConn]
          /\ UNCHANGED proc

MsgThread(g) ==
  Receive(g) \/ EndSeen(g) \/ Reply(g) \/ ThreadTerm(g) \/ ThreadClose(g) \/ Exec(g)

-------------------------------------------------------------------------------
\* The server, or the network, ends a connection that the program still has.
Lose(c) ==
  /\ (\E f \in Fds : file[f] = c) \/ on = c \/ (\E g \in Gens : from[g] = c)
  /\ status[c] = "open" /\ losses < MaxLoss /\ losses' = losses + 1
  /\ \E s \in {"eof", "reset"} : status' = [status EXCEPT ![c] = s]
  /\ UNCHANGED <<proc, file, globals, terminal, mains, readers>>

Main ==
  \/ Connect \/ CatchInterrupt \/ CheckMsg \/ CheckCmd \/ MainClose \/ MainTerm \/ Keys
  \/ Commands

Next ==
  /\ proc = "running" /\ UNCHANGED once
  /\ \/ Main \/ Select \/ Interrupt \/ Interrupted \/ Ask \/ Result
     \/ \E g \in Gens : MsgThread(g) \/ Got(g)
     \/ \E c \in Conns : Lose(c)

Spec == Init /\ [][Next]_vars

\* The threads go on, a call of connect succeeds in the end; the user, the server's
\* answers and losses are not promised.
FairSpec ==
  /\ Spec /\ WF_vars(proc = "running" /\ UNCHANGED once /\ Main)
  /\ \A g \in Gens : WF_vars(proc = "running" /\ UNCHANGED once /\ MsgThread(g))

-------------------------------------------------------------------------------
(* Properties.                                                             *)

\* The variables stay in their ranges.
TypeOK ==
  /\ proc \in {"running", "exited", "killed", "pipe", "interrupted"} /\ once \in Args
  /\ file \in [Fds -> Conns \cup {NoConn}] /\ {msg_sock, cmd_sock, fd} \subseteq Socks
  /\ status \in [Conns -> {"none", "open", "eof", "reset", "pipe", "dead"}]
  /\ gen \in Gens \cup {0} /\ on \in Conns \cup {NoConn}
  /\ main \in {"loop", "socket_msg", "connect_msg", "socket_cmd", "connect_cmd", "setup",
               "catch", "check_msg", "check_cmd", "select", "read", "line", "send", "ask",
               "send_file", "result", "data", "exit_term", "quit_term", "leave_term", "exit",
               "term", "close_msg", "close_cmd", "forget_msg", "forget_cmd"}
  /\ ret \in {"", "check_cmd", "select", "exit"}
  /\ reader \in [Gens -> {"none", "call", "recv", "reply", "term", "close_msg", "close_cmd",
                          "forget_msg", "forget_cmd", "exec"}]
  /\ from \in [Gens -> Conns \cup {NoConn}] /\ losses \in 0 .. MaxLoss 
  /\ early \subseteq Gens /\ beside \subseteq Gens /\ readline_callback \in BOOLEAN
  /\ {tty, old} \subseteq {"user", "raw", "zero"} /\ sigint \in {"default", "handler"}

\* A program that execvp starts has none of the sockets of the program before it, and the
\* server no session without a client: unless msg_thread saw the end while main was still
\* connecting the command port, or main was connecting anew meanwhile.
CleanRestart ==
  [][\A g \in Gens : Exec(g) => \A f \in Fds :
        \/ file'[f] = NoConn \/ file'[f][1] \in beside
        \/ file'[f][2] = "cmd" /\ file'[f][1] \in early]_vars

\* The variables stay in their ranges, and the user has the terminal back as it was when
\* the program ends, by exit or because readline or the restart breaks down, after any
\* number of restarts and with the same exceptions.  SIGPIPE ends it with the terminal as it
\* is, and CTRL+C does so in two places only: between setup_terminal and the handler, and
\* after msg_thread reset the handler and before it puts the terminal back.
TerminalKept ==
  /\ TypeOK
  /\ early = {} /\ beside = {} =>
       /\ proc \in {"exited", "killed"} => tty = "user"
       /\ proc = "interrupted" =>
            tty = "user" \/ main = "catch" \/ \E g \in Gens : reader[g] = "term"

\* Two msg_threads read, and print and answer for each other, only after a connection of
\* the first was reset: main then connects anew and leaves the first in its recv; or when
\* the first was itself begun beside an older one, which closes whatever the globals name.
OneReader ==
  \A g, h \in Gens :
    g < h /\ {reader[g], reader[h]} \subseteq {"call", "recv", "reply"} /\ proc = "running" =>
      "dead" \in {status[<<g, "msg">>], status[<<g, "cmd">>]} \/ g \in beside

\* The end of the message connection starts the program anew, whatever main is doing.
EndNoticed ==
  \A g \in Gens :
    reader[g] = "recv" /\ Lost(from[g]) /\ proc = "running"
      ~> reader[g] = "none" \/ proc # "running"

\* psp2shell_cli/source/cmd.c "Exit the shell.": the program does not start anew once it was
\* asked to end.  It does not hold: closing the sockets wakes msg_thread, whose execvp may
\* come before main's exit.
Exiting == main \in {"exit_term", "quit_term", "exit"} \/ ret = "exit"
ExitStays == [][Exiting => ~ \E g \in Gens : Exec(g)]_vars
===============================================================================
