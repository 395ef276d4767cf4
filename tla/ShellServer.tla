------------------------------ MODULE ShellServer ------------------------------
(***************************************************************************)
(* The user plugin's server (psp2shell_m/source/main.c): thread_wait       *)
(* accepts clients on the message port and starts a cmd_thread for each;   *)
(* psp2shell_exit, called by module_stop, by thread_wait itself or, for    *)
(* the command reboot, by a cmd_thread, tears everything down.  They share *)
(* one s_client and two server sockets without a lock, so a step is what   *)
(* one thread does between two accesses to them.                           *)
(*                                                                         *)
(* Each client (external) connects at most once, so its name also names    *)
(* its sockets and its cmd_thread.  A use of the s_client after it was     *)
(* freed and cleared is a crash, which ends all behaviour.  mishaps is a   *)
(* history variable: the irregular events some properties exclude.         *)
(***************************************************************************)
EXTENDS Integers, Sequences, Functions

CONSTANTS
  Clients,       \* connections that may be made
  NoThread,      \* a thread id below 0
  NoSock,        \* a socket below 0
  ZeroSock,      \* what memset leaves in a socket field
  MaxMail,       \* bound: commands of the clients not read yet
  MaxFailures,   \* bound: network drops, failed binds, failed thread creations
  Stops          \* bound: who may call psp2shell_exit, beside thread_wait

Ports   == {"msg", "cmd"}
Socks   == Clients \X Ports
\* Callers of psp2shell_exit: module_stop, thread_wait, and a cmd_thread that reboots.
Exiters == {"stop", "wait"} \cup Clients

ASSUME ConstantsAssumption ==
  /\ {NoThread, "stop", "wait"} \cap Clients = {} /\ NoSock # ZeroSock
  /\ NoSock \notin Socks /\ ZeroSock \notin Socks
  /\ MaxMail \in Nat /\ MaxFailures \in Nat /\ Stops \subseteq Exiters

VARIABLES
  quit,          \* quit
  client,        \* the s_client: freed, msg (msg_sock), cmd (cmd_sock)
  port,          \* server_sock_msg, server_sock_cmd: up or not, connections not accepted yet
  open,          \* accepted sockets not closed yet
  ready,         \* the kernel's ready flag
  wait,          \* thread_wait: pc, client_sock, whether open_server is still to come
  cmd,           \* per cmd_thread: pc, the socket in hand
  thid_client,   \* the last cmd_thread created
  exit,          \* psp2shell_exit: position per caller
  peer, mail,    \* per client: connection state, commands sent and not read
  failures, mishaps, fault

notes  == <<failures, mishaps, fault>>
outer  == <<peer, mail>>
vars   == <<quit, client, port, open, ready, wait, cmd, thid_client, exit, outer, notes>>

Closed == [p \in Ports |-> [up |-> "closed", queue |-> <<>>]]
Alive  == {c \in Clients : cmd[c].pc \notin {"unborn", "done"}}

\* module_start: the client is allocated and the threads are started.
Init ==
  /\ quit = FALSE /\ ready = FALSE /\ open = {} /\ port = Closed
  /\ client = [freed |-> FALSE, msg |-> NoSock, cmd |-> NoSock]
  /\ wait = [pc |-> "init", sock |-> NoSock, first |-> TRUE]
  /\ cmd = [c \in Clients |-> [pc |-> "unborn", sock |-> NoSock]]
  /\ thid_client = NoThread /\ exit = [e \in Exiters |-> "idle"]
  /\ peer = [c \in Clients |-> "new"] /\ mail = [c \in Clients |-> 0]
  /\ failures = 0 /\ mishaps = {} /\ fault = FALSE

\* A thread goes through the s_client after it was freed and cleared.
Crash == fault' = TRUE /\ UNCHANGED <<failures, mishaps>>
Note(events) == mishaps' = mishaps \cup events

-------------------------------------------------------------------------------
(* Clients, the network, and whoever stops the module (external).          *)

\* psp2shell_cli connects to the message port, then to the command port.
ConnectMsg(c) ==
  /\ peer[c] = "new" /\ port["msg"].up = "open"
  /\ peer' = [peer EXCEPT ![c] = "half"]
  /\ port' = [port EXCEPT !["msg"].queue = Append(@, c)]
  /\ UNCHANGED <<open, exit, mail, notes>>

\* "stray": another client is between its two connections.
ConnectCmd(c) ==
  /\ peer[c] = "half" /\ port["cmd"].up = "open"
  /\ peer' = [peer EXCEPT ![c] = "full"]
  /\ port' = [port EXCEPT !["cmd"].queue = Append(@, c)]
  /\ Note({x \in {"stray"} : \E d \in Clients \ {c} : peer[d] = "half"})
  /\ UNCHANGED <<open, exit, mail, failures, fault>>

SendCmd(c) ==
  /\ peer[c] = "full" /\ \A d \in Clients : mail[d] < MaxMail
  /\ mail' = [mail EXCEPT ![c] = @ + 1]
  /\ UNCHANGED <<port, open, exit, peer, notes>>

\* The client closes its sockets.  "stray": it had no session yet.
Leave(c) ==
  /\ peer[c] \in {"half", "full"}
  /\ peer' = [peer EXCEPT ![c] = "gone"]
  /\ Note({x \in {"stray"} : client.cmd # <<c, "cmd">>})
  /\ UNCHANGED <<port, open, exit, mail, failures, fault>>

\* The network goes away: connections break, accept fails from now on.
NetDrop ==
  /\ failures < MaxFailures /\ \E p \in Ports : port[p].up = "open"
  /\ failures' = failures + 1 /\ Note({"stray"})
  /\ port' = [p \in Ports |-> [up |-> IF port[p].up = "open" THEN "dead" ELSE port[p].up,
                               queue |-> <<>>]]
  /\ peer' = [c \in Clients |-> IF peer[c] = "new" THEN "new" ELSE "gone"]
  /\ UNCHANGED <<open, exit, mail, fault>>

\* module_stop calls psp2shell_exit.
Stop ==
  /\ "stop" \in Stops /\ exit["stop"] = "idle" /\ exit' = [exit EXCEPT !["stop"] = "check"]
  /\ UNCHANGED <<port, open, outer, notes>>

Outside ==
  /\ \/ \E c \in Clients : ConnectMsg(c) \/ ConnectCmd(c) \/ SendCmd(c) \/ Leave(c)
     \/ NetDrop \/ Stop
  /\ UNCHANGED <<quit, client, ready, wait, cmd, thid_client>>

-------------------------------------------------------------------------------
(* thread_wait.                                                            *)

WaitGo(from, to) == wait.pc = from /\ wait' = [wait EXCEPT !.pc = to]

\* p2s_netInit is retried until it succeeds or quit is set.
WaitNetInit ==
  /\ WaitGo("init", "close") \/ (quit /\ WaitGo("init", "done"))
  /\ UNCHANGED <<port, open, cmd, thid_client, exit, notes>>

\* open_server closes both server sockets, then binds one port after the other.
WaitCloseServer ==
  /\ WaitGo("close", "bindmsg") /\ port' = Closed
  /\ UNCHANGED <<open, cmd, thid_client, exit, notes>>

WaitBind ==
  /\ \/ WaitGo("bindmsg", "bindcmd") /\ port' = [port EXCEPT !["msg"].up = "open"]
     \/ /\ wait.pc = "bindcmd" /\ wait' = [wait EXCEPT !.pc = "loop", !.first = FALSE]
        /\ port' = [port EXCEPT !["cmd"].up = "open"]
  /\ UNCHANGED <<open, cmd, thid_client, exit, notes>>

\* A bind fails: fatal in the first open_server, ignored when the server is reopened.
WaitBindFails ==
  /\ wait.pc \in {"bindmsg", "bindcmd"} /\ failures < MaxFailures
  /\ failures' = failures + 1
  /\ IF wait.first
     THEN wait' = [wait EXCEPT !.pc = "exit"] /\ exit' = [exit EXCEPT !["wait"] = "check"]
     ELSE wait' = [wait EXCEPT !.pc = "loop"] /\ UNCHANGED exit
  /\ UNCHANGED <<port, open, cmd, thid_client, mishaps, fault>>

\* while (!quit); the psp2shell_exit behind the loop finds quit set and returns.
WaitLoop ==
  /\ WaitGo("loop", IF quit THEN "done" ELSE "accept")
  /\ UNCHANGED <<port, open, cmd, thid_client, exit, notes>>

\* accept returns a client; if quit was set meanwhile its socket is dropped.
WaitAccept ==
  /\ wait.pc = "accept" /\ port["msg"].up = "open" /\ port["msg"].queue # <<>>
  /\ LET s == <<Head(port["msg"].queue), "msg">>
     IN /\ open' = open \cup {s}
        /\ wait' = IF quit THEN [wait EXCEPT !.pc = "done"]
                   ELSE [wait EXCEPT !.pc = "slot", !.sock = s]
  /\ port' = [port EXCEPT !["msg"].queue = Tail(@)]
  /\ UNCHANGED <<cmd, thid_client, exit, notes>>

\* accept fails: unless quit is the reason the server is opened again.
WaitAcceptFails ==
  /\ port["msg"].up # "open" /\ WaitGo("accept", IF quit THEN "done" ELSE "close")
  /\ UNCHANGED <<port, open, cmd, thid_client, exit, notes>>

\* client->cmd_sock > 0
SlotTaken == client.cmd \in Socks

\* "rushed": the slot is free although another cmd_thread is alive.
NoteRushed == Note({x \in {"rushed"} : Alive # {} /\ ~SlotTaken})

\* Seeded fault: the slot is not looked at.
WaitAdmitUnchecked ==
  /\ ~client.freed /\ WaitGo("slot", "spawn") /\ NoteRushed
  /\ UNCHANGED <<port, open, cmd, thid_client, exit, failures, fault>>

\* The slot is free: the client is accepted.
WaitAdmit ==
  /\ ~client.freed /\ ~SlotTaken /\ WaitGo("slot", "spawn") /\ NoteRushed
  /\ UNCHANGED <<port, open, cmd, thid_client, exit, failures, fault>>

\* Seeded fault: the refused client's socket stays open.
WaitRefuseOpen ==
  /\ wait.pc = "slot" /\ ~client.freed /\ SlotTaken
  /\ wait' = [wait EXCEPT !.pc = "loop", !.sock = NoSock] /\ Note({"stray"})
  /\ UNCHANGED <<port, open, cmd, thid_client, exit, failures, fault>>

\* "max client reached": only the message socket is closed; the refused client's other
\* connection stays in the command port's queue.
WaitRefuse ==
  /\ wait.pc = "slot" /\ ~client.freed /\ SlotTaken
  /\ open' = open \ {wait.sock}
  /\ wait' = [wait EXCEPT !.pc = "loop", !.sock = NoSock] /\ Note({"stray"})
  /\ UNCHANGED <<port, cmd, thid_client, exit, failures, fault>>

WaitCrash ==
  /\ wait.pc = "slot" /\ client.freed /\ Crash
  /\ UNCHANGED <<port, open, wait, cmd, thid_client, exit>>

\* A cmd_thread starts; "rushed" also when psp2shell_exit has begun.
WaitSpawn ==
  /\ wait.pc = "spawn" /\ wait' = [wait EXCEPT !.pc = "loop", !.sock = NoSock]
  /\ thid_client' = wait.sock[1]
  /\ cmd' = [cmd EXCEPT ![wait.sock[1]] = [pc |-> "clear", sock |-> wait.sock]]
  /\ Note({x \in {"rushed"} : quit})
  /\ UNCHANGED <<port, open, exit, failures, fault>>

\* It cannot be created: the accepted socket is forgotten ("rushed" as well).
WaitSpawnFails ==
  /\ wait.pc = "spawn" /\ wait' = [wait EXCEPT !.pc = "loop", !.sock = NoSock]
  /\ failures < MaxFailures /\ failures' = failures + 1
  /\ thid_client' = NoThread /\ Note({"rushed"})
  /\ UNCHANGED <<port, open, cmd, exit, fault>>

\* psp2shell_exit returned to thread_wait after a failed start.
WaitExited ==
  /\ exit["wait"] = "done" /\ WaitGo("exit", "done")
  /\ UNCHANGED <<port, open, cmd, thid_client, exit, notes>>

ThreadWait ==
  /\ \/ WaitNetInit \/ WaitCloseServer \/ WaitBind \/ WaitBindFails \/ WaitLoop
     \/ WaitAccept \/ WaitAcceptFails \/ WaitAdmit \/ WaitRefuse \/ WaitCrash
     \/ WaitSpawn \/ WaitSpawnFails \/ WaitExited
  /\ UNCHANGED <<quit, client, ready, outer>>

-------------------------------------------------------------------------------
(* cmd_thread, started for client c's message socket.                      *)

CmdGo(c, from, to) == cmd[c].pc = from /\ cmd' = [cmd EXCEPT ![c].pc = to]
CmdTake(c, from, to, s) ==
  cmd[c].pc = from /\ cmd' = [cmd EXCEPT ![c] = [pc |-> to, sock |-> s]]

\* memset(client, 0, sizeof(s_client))
CmdClear(c) ==
  /\ ~client.freed /\ CmdGo(c, "clear", "setmsg")
  /\ client' = [client EXCEPT !.msg = ZeroSock, !.cmd = ZeroSock]
  /\ UNCHANGED <<port, open, ready, mail, notes>>

\* Seeded fault: thread_wait's client_sock is read instead of the thread's copy of it.
CmdSetMsgShared(c) ==
  /\ ~client.freed /\ CmdTake(c, "setmsg", "accept", NoSock)
  /\ client' = [client EXCEPT !.msg = IF wait.sock # NoSock THEN wait.sock ELSE cmd[c].sock]
  /\ UNCHANGED <<port, open, ready, mail, notes>>

\* client->msg_sock = sock, and the welcome message, whose wait for an answer ends.
CmdSetMsg(c) ==
  /\ ~client.freed /\ CmdTake(c, "setmsg", "accept", NoSock)
  /\ client' = [client EXCEPT !.msg = cmd[c].sock]
  /\ UNCHANGED <<port, open, ready, mail, notes>>

\* client->cmd_sock = p2s_get_sock(server_sock_cmd): whoever is first in the queue.
CmdAccept(c) ==
  /\ ~client.freed /\ port["cmd"].up = "open" /\ port["cmd"].queue # <<>>
  /\ CmdGo(c, "accept", "ready")
  /\ LET s == <<Head(port["cmd"].queue), "cmd">>
     IN open' = open \cup {s} /\ client' = [client EXCEPT !.cmd = s]
  /\ port' = [port EXCEPT !["cmd"].queue = Tail(@)]
  /\ UNCHANGED <<ready, mail, notes>>

\* The accept fails, which is not checked: the session goes on with a bad socket.
CmdAcceptFails(c) ==
  /\ ~client.freed /\ port["cmd"].up # "open" /\ CmdGo(c, "accept", "ready")
  /\ client' = [client EXCEPT !.cmd = NoSock]
  /\ UNCHANGED <<port, open, ready, mail, notes>>

\* kpsp2shell_set_ready(1)
CmdReady(c) ==
  /\ CmdGo(c, "ready", "loop") /\ ready' = TRUE
  /\ UNCHANGED <<client, port, open, mail, notes>>

\* while (!quit), up to the call of recv on client->cmd_sock
CmdLoop(c) ==
  /\ IF quit THEN CmdGo(c, "loop", "unready")
     ELSE ~client.freed /\ CmdTake(c, "loop", "recv", client.cmd)
  /\ UNCHANGED <<client, port, open, ready, mail, notes>>

\* Seeded fault: a receive that brought nothing passes for a command.
CmdServeUnreceived(c) ==
  /\ cmd[c].sock \in open
  /\ LET d == cmd[c].sock[1] IN mail' = [mail EXCEPT ![d] = @ - 1]
  /\ CmdTake(c, "recv", "loop", NoSock) \/ CmdGo(c, "recv", "upload")
  /\ UNCHANGED <<client, port, open, ready, notes>>

CmdReceive(c) ==
  /\ cmd[c].sock \in open
  /\ LET d == cmd[c].sock[1] IN mail[d] > 0 /\ mail' = [mail EXCEPT ![d] = @ - 1]

\* A command was received.  It is carried out, or it is an upload, which reads on.
CmdServe(c) ==
  /\ CmdReceive(c)
  /\ CmdTake(c, "recv", "loop", NoSock) \/ CmdGo(c, "recv", "upload")
  /\ UNCHANGED <<client, port, open, ready, notes>>

\* reboot calls psp2shell_exit.
CmdReboot(c) ==
  /\ c \in Stops /\ CmdReceive(c) /\ CmdTake(c, "recv", "reboot", NoSock)
  /\ exit' = [exit EXCEPT ![c] = "check"]
  /\ UNCHANGED <<client, port, open, ready, notes>>

\* psp2shell_exit returned.  The cold reset that is then asked for is the system's.
CmdRebooted(c) ==
  /\ exit[c] = "done" /\ CmdGo(c, "reboot", "loop")
  /\ UNCHANGED <<client, port, open, ready, mail, notes>>

\* The upload ends: the rest has come, or recv failed with -1 for each missing block.
CmdUploadEnds(c) ==
  /\ CmdTake(c, "upload", "loop", NoSock)
  /\ UNCHANGED <<client, port, open, ready, mail, notes>>

\* The client hung up, for which recv returns 0, or the socket was closed here, for which
\* it returns a code: neither is an end for p2s_recvall and p2s_recv_file.
CmdUploadSpins(c) ==
  /\ ~(cmd[c].sock \in open /\ peer[cmd[c].sock[1]] = "full")
  /\ CmdGo(c, "upload", "spin")
  /\ UNCHANGED <<client, port, open, ready, mail, notes>>

\* p2s_cmd_receive reports a dead socket: the session is over.
CmdHangup(c) ==
  /\ cmd[c].sock \in open => peer[cmd[c].sock[1]] = "gone" /\ mail[cmd[c].sock[1]] = 0
  /\ ~client.freed /\ CmdTake(c, "recv", "unready", NoSock)
  /\ UNCHANGED <<client, port, open, ready, mail, notes>>

\* Seeded fault: the end of the session does not reach the kernel.
CmdUnreadyNot(c) ==
  /\ CmdGo(c, "unready", "closemsg")
  /\ UNCHANGED <<client, port, open, ready, mail, notes>>

\* kpsp2shell_set_ready(0)
CmdUnready(c) ==
  /\ CmdGo(c, "unready", "closemsg") /\ ready' = FALSE
  /\ UNCHANGED <<client, port, open, mail, notes>>

CmdCloseMsg(c) ==
  /\ ~client.freed /\ CmdGo(c, "closemsg", "closecmd")
  /\ open' = open \ {client.msg} /\ client' = [client EXCEPT !.msg = NoSock]
  /\ UNCHANGED <<port, ready, mail, notes>>

\* Seeded fault: the closed command socket keeps the slot.
CmdCloseCmdStale(c) ==
  /\ ~client.freed /\ CmdGo(c, "closecmd", "empty")
  /\ open' = open \ {client.cmd}
  /\ UNCHANGED <<client, port, ready, mail, notes>>

CmdCloseCmd(c) ==
  /\ ~client.freed /\ CmdGo(c, "closecmd", "empty")
  /\ open' = open \ {client.cmd} /\ client' = [client EXCEPT !.cmd = NoSock]
  /\ UNCHANGED <<port, ready, mail, notes>>

\* s_fileListEmpty(&client->fileList), and the thread deletes itself.
CmdEnd(c) ==
  /\ ~client.freed /\ CmdGo(c, "empty", "done")
  /\ UNCHANGED <<client, port, open, ready, mail, notes>>

CmdCrash(c) ==
  /\ client.freed /\ Crash
  /\ \/ cmd[c].pc \in {"clear", "setmsg", "accept", "recv", "closemsg", "closecmd", "empty"}
     \/ cmd[c].pc = "loop" /\ ~quit
  /\ UNCHANGED <<client, port, open, ready, cmd, mail>>

CmdThread(c) ==
  /\ \/ CmdClear(c) \/ CmdSetMsg(c) \/ CmdAccept(c) \/ CmdAcceptFails(c) \/ CmdReady(c)
     \/ CmdLoop(c) \/ CmdServe(c) \/ CmdRebooted(c) \/ CmdUploadEnds(c) \/ CmdUploadSpins(c)
     \/ CmdHangup(c) \/ CmdUnready(c) \/ CmdCloseMsg(c) \/ CmdCloseCmd(c) \/ CmdEnd(c)
     \/ CmdCrash(c)
  /\ UNCHANGED <<quit, wait, thid_client, exit, peer>>

Reboot(c) == CmdReboot(c) /\ UNCHANGED <<quit, wait, thid_client, peer>>

-------------------------------------------------------------------------------
(* psp2shell_exit, called by e.                                            *)

ExitGo(e, from, to) == exit[e] = from /\ exit' = [exit EXCEPT ![e] = to]

\* if (quit) return: a second caller does not wait for the first.
ExitCheck(e) ==
  /\ ExitGo(e, "check", IF quit THEN "done" ELSE "set")
  /\ UNCHANGED <<quit, client, port, open, ready, notes>>

\* quit = 1, kpsp2shell_set_ready(0)
ExitSet(e) ==
  /\ ExitGo(e, "set", "close") /\ quit' = TRUE /\ ready' = FALSE
  /\ UNCHANGED <<client, port, open, notes>>

\* if (client != NULL), and the client's sockets are closed.
ExitCloseClient(e) ==
  /\ IF client.freed
     THEN ExitGo(e, "close", "closesrv") /\ UNCHANGED <<client, open>>
     ELSE /\ ExitGo(e, "close", "join")
          /\ open' = open \ {client.msg, client.cmd}
          /\ client' = [client EXCEPT !.msg = NoSock, !.cmd = NoSock]
  /\ UNCHANGED <<quit, port, ready, notes>>

\* Seeded fault: the session's thread is not waited for.
ExitJoinNot(e) ==
  /\ ExitGo(e, "join", "free")
  /\ UNCHANGED <<quit, client, port, open, ready, notes>>

\* sceKernelWaitThreadEnd(thid_client): a thread's wait for itself is refused (external).
ExitJoin(e) ==
  /\ thid_client \notin {NoThread, e} => cmd[thid_client].pc = "done"
  /\ ExitGo(e, "join", "free")
  /\ UNCHANGED <<quit, client, port, open, ready, notes>>

ExitFree(e) ==
  /\ ExitGo(e, "free", "closesrv") /\ client' = [client EXCEPT !.freed = TRUE]
  /\ IF client.freed THEN Crash ELSE UNCHANGED notes
  /\ UNCHANGED <<quit, port, open, ready>>

\* Seeded fault: the server sockets are left to thread_wait.
ExitCloseServerNot(e) ==
  /\ ExitGo(e, "closesrv", "joinwait")
  /\ UNCHANGED <<quit, client, port, open, ready, notes>>

ExitCloseServer(e) ==
  /\ ExitGo(e, "closesrv", "joinwait") /\ port' = Closed
  /\ UNCHANGED <<quit, client, open, ready, notes>>

\* sceKernelWaitThreadEnd(thid_wait), refused to thread_wait as well.
ExitJoinWait(e) ==
  /\ e # "wait" => wait.pc = "done"
  /\ ExitGo(e, "joinwait", "done")
  /\ UNCHANGED <<quit, client, port, open, ready, notes>>

Psp2shellExit(e) ==
  /\ \/ ExitCheck(e) \/ ExitSet(e) \/ ExitCloseClient(e) \/ ExitJoin(e) \/ ExitFree(e)
     \/ ExitCloseServer(e) \/ ExitJoinWait(e)
  /\ UNCHANGED <<wait, cmd, thid_client, outer>>

-------------------------------------------------------------------------------
Next ==
  /\ ~fault
  /\ \/ Outside \/ ThreadWait
     \/ \E c \in Clients : CmdThread(c) \/ Reboot(c)
     \/ \E e \in Exiters : Psp2shellExit(e)

Spec == Init /\ [][Next]_vars

\* A thread that can go on does: they share the processor at equal priority.  Clients,
\* the network and module_stop's caller promise nothing.
FairSpec ==
  /\ Spec /\ WF_vars(~fault /\ ThreadWait)
  /\ \A c \in Clients : WF_vars(~fault /\ (CmdThread(c) \/ Reboot(c)))
  /\ \A e \in Exiters : WF_vars(~fault /\ Psp2shellExit(e))

-------------------------------------------------------------------------------
(* Properties.                                                             *)

Field  == Socks \cup {NoSock, ZeroSock}
Rushed == "rushed" \in mishaps

\* The variables stay in their ranges.
TypeOK ==
  /\ quit \in BOOLEAN /\ ready \in BOOLEAN /\ fault \in BOOLEAN
  /\ client \in [freed : BOOLEAN, msg : Field, cmd : Field]
  /\ port \in [Ports -> [up : {"closed", "open", "dead"}, queue : Seq(Clients)]]
  /\ open \subseteq Socks
  /\ wait \in [pc : {"init", "close", "bindmsg", "bindcmd", "loop", "accept",
                     "slot", "spawn", "exit", "done"}, sock : Field, first : BOOLEAN]
  /\ cmd \in [Clients -> [pc : {"unborn", "clear", "setmsg", "accept", "ready", "loop",
                                "recv", "reboot", "upload", "spin", "unready", "closemsg",
                                "closecmd", "empty", "done"}, sock : Field]]
  /\ thid_client \in Clients \cup {NoThread}
  /\ exit \in [Exiters -> {"idle", "check", "set", "close", "join", "free", "closesrv",
                           "joinwait", "done"}]
  /\ peer \in [Clients -> {"new", "half", "full", "gone"}]
  /\ mail \in [Clients -> 0 .. MaxMail] /\ failures \in 0 .. MaxFailures
  /\ mishaps \subseteq {"stray", "rushed"}

\* No accepted socket is forgotten while the module runs: it is in the s_client, in
\* thread_wait's hand or in a starting cmd_thread's, unless a cmd_thread was started over
\* another one or could not be created.
SocketsOwned ==
  ~quit /\ ~Rushed =>
    open \subseteq {client.msg, client.cmd, wait.sock} \cup {cmd[c].sock : c \in Clients}

InSession == {"loop", "recv", "reboot", "upload", "spin"}

\* The kernel logs only for a session in progress: when its flag is set there is a
\* cmd_thread that is going to clear it, or that spins in an upload, in whatever order
\* sessions and psp2shell_exit set and cleared it.
LogsForSession == ready => \E c \in Clients : cmd[c].pc \in InSession \cup {"unready"}

\* A session's two sockets belong to one client as long as no client left without a
\* session, was refused, or connected its second port while another was half connected.
Paired ==
  \A c, d \in Clients :
    mishaps = {} /\ client.msg = <<c, "msg">> /\ client.cmd = <<d, "cmd">> => c = d

\* When psp2shell_exit has freed the client no cmd_thread is left that could use it, but
\* one that reboots and freed it itself, unless one was started over another or after
\* quit was set.
JoinedBeforeFree ==
  client.freed /\ ~Rushed => \A c \in Alive : exit[c] \in {"closesrv", "joinwait", "done"}

\* An established session keeps its command socket whatever other clients do, until its
\* own thread closes it or the module is stopped.
SessionStable ==
  [][\A c \in Clients :
       cmd[c].pc \in InSession /\ SlotTaken /\ ~quit /\ ~Rushed'
         => client'.cmd = client.cmd \/ quit']_vars

\* A client that hung up gives its slot back, unless it left in the middle of an upload,
\* which then spins.
SlotFreed ==
  \A c \in Clients :
    client.cmd = <<c, "cmd">> /\ peer[c] = "gone"
      ~> \/ client.cmd # <<c, "cmd">> \/ Rushed \/ fault
         \/ \E d \in Clients : cmd[d] = [pc |-> "spin", sock |-> <<c, "cmd">>]

\* The message connection of client c was accepted and is closed.
Dismissed(c) == <<c, "msg">> \notin open /\ c \notin Range(port["msg"].queue)

\* A client that connected to both ports and stays gets a session or is dismissed.
Answered ==
  \A c \in Clients :
    peer[c] = "full"
      ~> \/ peer[c] = "gone" \/ Dismissed(c) \/ quit \/ Rushed
         \/ client.msg = <<c, "msg">> /\ SlotTaken

\* module_stop comes to an end, unless a cmd_thread waits for a command connection that
\* does not come (psp2shell_exit joins it before it closes the port it waits on), spins in
\* an upload whose socket psp2shell_exit closed, or was started over another one, and they
\* read sockets that nobody closes any more.
StopEnds ==
  exit["stop"] # "idle"
    ~> \/ exit["stop"] = "done" \/ fault \/ Rushed
       \/ \E c \in Clients :
            cmd[c].pc = "spin" \/ (cmd[c].pc = "accept" /\ port["cmd"].queue = <<>>)

\* psp2shell_loader/source/main.c:119 "Circle to unload psp2shell_m module": the unload,
\* which waits for module_stop, comes to an end.
StopTerminates == exit["stop"] # "idle" ~> exit["stop"] = "done" \/ fault

\* psp2shell_m/source/main.c:230-232 "max client/socket count reached ... max client
\* reached (1)": there is never a second client session.  It does not hold: the slot looks
\* free until the first client's cmd_thread has its second connection.
OneClient ==
  \A c, d \in Clients : cmd[c].pc = "recv" /\ cmd[d].pc = "recv" => c = d
===============================================================================
