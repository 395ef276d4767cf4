--------------------------- MODULE ShellServerProofs ---------------------------
(***************************************************************************)
(* Theorems about ShellServer, for any set of clients and any bounds: the  *)
(* type invariant, that the kernel logs only for a session, that           *)
(* psp2shell_exit frees the s_client under no cmd_thread but its caller,   *)
(* that no accepted socket is forgotten, that a session keeps its command  *)
(* socket, and that its two sockets belong to one client.                  *)
(***************************************************************************)
EXTENDS ShellServer, SequenceTheorems, TLAPS

CmdPcs == {"unborn", "clear", "setmsg", "accept", "ready", "loop", "recv", "reboot",
           "upload", "spin", "unready", "closemsg", "closecmd", "empty", "done"}
WaitPcs == {"init", "close", "bindmsg", "bindcmd", "loop", "accept", "slot", "spawn",
            "exit", "done"}
ExitPcs == {"idle", "check", "set", "close", "join", "free", "closesrv", "joinwait", "done"}

-------------------------------------------------------------------------------
(* Type correctness, one group of variables at a time.                     *)

ClientType == client \in [freed : BOOLEAN, msg : Field, cmd : Field]
PortType == port \in [Ports -> [up : {"closed", "open", "dead"}, queue : Seq(Clients)]]
WaitType == wait \in [pc : WaitPcs, sock : Field, first : BOOLEAN]
CmdType == cmd \in [Clients -> [pc : CmdPcs, sock : Field]]
ExitType == exit \in [Exiters -> ExitPcs]
OuterType ==
  /\ peer \in [Clients -> {"new", "half", "full", "gone"}]
  /\ mail \in [Clients -> 0 .. MaxMail]
NotesType ==
  failures \in 0 .. MaxFailures /\ mishaps \subseteq {"stray", "rushed"} /\ fault \in BOOLEAN

LEMMA TypeParts ==
  TypeOK <=> /\ quit \in BOOLEAN /\ ready \in BOOLEAN /\ open \subseteq Socks
             /\ thid_client \in Clients \cup {NoThread}
             /\ ClientType /\ PortType /\ WaitType /\ CmdType /\ ExitType
             /\ OuterType /\ NotesType
BY DEF TypeOK, ClientType, PortType, WaitType, CmdType, ExitType, OuterType, NotesType,
       CmdPcs, WaitPcs, ExitPcs

LEMMA TypePartsNext ==
  TypeOK' <=> /\ quit' \in BOOLEAN /\ ready' \in BOOLEAN /\ open' \subseteq Socks
              /\ thid_client' \in Clients \cup {NoThread}
              /\ ClientType' /\ PortType' /\ WaitType' /\ CmdType' /\ ExitType'
              /\ OuterType' /\ NotesType'
BY DEF TypeOK, ClientType, PortType, WaitType, CmdType, ExitType, OuterType, NotesType,
       CmdPcs, WaitPcs, ExitPcs

\* The operators that move one thread.
LEMMA WaitGoType ==
  ASSUME WaitType, NEW from, NEW to \in WaitPcs, WaitGo(from, to)
  PROVE  WaitType'
BY DEF WaitType, WaitGo

LEMMA CmdGoType ==
  ASSUME CmdType, NEW c \in Clients, NEW from, NEW to \in CmdPcs, CmdGo(c, from, to)
  PROVE  CmdType'
BY DEF CmdType, CmdGo

LEMMA CmdTakeType ==
  ASSUME CmdType, NEW c \in Clients, NEW from, NEW to \in CmdPcs, NEW s \in Field,
         CmdTake(c, from, to, s)
  PROVE  CmdType'
BY DEF CmdType, CmdTake

LEMMA ExitGoType ==
  ASSUME ExitType, NEW e \in Exiters, NEW from, NEW to \in ExitPcs, ExitGo(e, from, to)
  PROVE  ExitType'
BY DEF ExitType, ExitGo

LEMMA ClosedType == Closed \in [Ports -> [up : {"closed", "open", "dead"}, queue : Seq(Clients)]]
<1>1. <<>> \in Seq(Clients)
  BY EmptySeq
<1>2. QED
  BY <1>1 DEF Closed

\* Between accept and the start of its cmd_thread, client_sock is an accepted socket.
InHand == wait.pc \in {"slot", "spawn"} => wait.sock \in Socks

TypeInv == TypeOK /\ InHand

LEMMA CrashType == ASSUME NotesType, Crash PROVE NotesType'
BY DEF NotesType, Crash

\* What a queue of connections does.
LEMMA QueueType ==
  ASSUME PortType, NEW p \in Ports
  PROVE  /\ \A c \in Clients : Append(port[p].queue, c) \in Seq(Clients)
         /\ port[p].queue # <<>> =>
              Head(port[p].queue) \in Clients /\ Tail(port[p].queue) \in Seq(Clients)
<1>1. port[p].queue \in Seq(Clients)
  BY DEF PortType
<1>2. \A c \in Clients : Append(port[p].queue, c) \in Seq(Clients)
  BY <1>1, AppendProperties
<1>3. QED
  BY <1>1, <1>2, HeadTailProperties

LEMMA PortExceptType ==
  ASSUME PortType, NEW p \in Ports, NEW q \in Seq(Clients), NEW u \in {"closed", "open", "dead"}
  PROVE  /\ [port EXCEPT ![p].queue = q]
              \in [Ports -> [up : {"closed", "open", "dead"}, queue : Seq(Clients)]]
         /\ [port EXCEPT ![p].up = u]
              \in [Ports -> [up : {"closed", "open", "dead"}, queue : Seq(Clients)]]
BY DEF PortType

\* Clients, the network and the module's user.
LEMMA OutsideType ==
  ASSUME TypeInv, Outside
  PROVE  TypeInv'
<1>1. TypeOK /\ InHand /\ UNCHANGED <<quit, client, ready, wait, cmd, thid_client>>
  BY DEF TypeInv, Outside
<1>2. /\ ClientType /\ PortType /\ WaitType /\ CmdType /\ ExitType /\ OuterType /\ NotesType
      /\ open \subseteq Socks
  BY <1>1, TypeParts
<1>3. SUFFICES PortType' /\ ExitType' /\ OuterType' /\ NotesType' /\ UNCHANGED open
  <2>1. ClientType' /\ WaitType' /\ CmdType' /\ InHand'
    BY <1>1, <1>2 DEF ClientType, WaitType, CmdType, InHand
  <2>2. QED
    BY <1>1, <2>1, TypeParts, TypePartsNext DEF TypeInv
<1>4. "msg" \in Ports /\ "cmd" \in Ports
  BY DEF Ports
<1>5. ASSUME NEW c \in Clients, ConnectMsg(c)
      PROVE PortType' /\ ExitType' /\ OuterType' /\ NotesType' /\ UNCHANGED open
  <2>1. PortType'
    BY <1>2, <1>4, <1>5, QueueType, PortExceptType DEF ConnectMsg, PortType
  <2>2. QED
    BY <1>2, <1>5, <2>1 DEF ConnectMsg, ExitType, OuterType, NotesType, notes
<1>6. ASSUME NEW c \in Clients, ConnectCmd(c)
      PROVE PortType' /\ ExitType' /\ OuterType' /\ NotesType' /\ UNCHANGED open
  <2>1. PortType'
    BY <1>2, <1>4, <1>6, QueueType, PortExceptType DEF ConnectCmd, PortType
  <2>2. NotesType'
    BY <1>2, <1>6 DEF ConnectCmd, NotesType, Note
  <2>3. QED
    BY <1>2, <1>6, <2>1, <2>2 DEF ConnectCmd, ExitType, OuterType
<1>7. ASSUME NEW c \in Clients, SendCmd(c)
      PROVE PortType' /\ ExitType' /\ OuterType' /\ NotesType' /\ UNCHANGED open
  <2>1. OuterType'
    BY <1>2, <1>7, ConstantsAssumption DEF SendCmd, OuterType
  <2>2. QED
    BY <1>2, <1>7, <2>1 DEF SendCmd, PortType, ExitType, NotesType, notes
<1>8. ASSUME NEW c \in Clients, Leave(c)
      PROVE PortType' /\ ExitType' /\ OuterType' /\ NotesType' /\ UNCHANGED open
  <2>1. NotesType'
    BY <1>2, <1>8 DEF Leave, NotesType, Note
  <2>2. QED
    BY <1>2, <1>8, <2>1 DEF Leave, PortType, ExitType, OuterType
<1>9. ASSUME NetDrop
      PROVE PortType' /\ ExitType' /\ OuterType' /\ NotesType' /\ UNCHANGED open
  <2>1. PortType'
    BY <1>2, <1>9, EmptySeq DEF NetDrop, PortType
  <2>2. NotesType'
    BY <1>2, <1>9, ConstantsAssumption DEF NetDrop, NotesType, Note
  <2>3. QED
    BY <1>2, <1>9, <2>1, <2>2 DEF NetDrop, ExitType, OuterType
<1>10. ASSUME Stop
       PROVE PortType' /\ ExitType' /\ OuterType' /\ NotesType' /\ UNCHANGED open
  BY <1>2, <1>10 DEF Stop, PortType, ExitType, ExitPcs, Exiters, OuterType, NotesType,
                     notes, outer
<1>11. QED
  BY <1>5, <1>6, <1>7, <1>8, <1>9, <1>10 DEF Outside

\* thread_wait.
LEMMA ThreadWaitType ==
  ASSUME TypeInv, ThreadWait
  PROVE  TypeInv'
<1> DEFINE Goal == /\ PortType' /\ WaitType' /\ InHand' /\ CmdType' /\ ExitType' /\ NotesType'
                   /\ open' \subseteq Socks /\ thid_client' \in Clients \cup {NoThread}
<1>1. TypeOK /\ InHand /\ UNCHANGED <<quit, client, ready, peer, mail>>
  BY DEF TypeInv, ThreadWait, outer
<1>2. /\ ClientType /\ PortType /\ WaitType /\ CmdType /\ ExitType /\ OuterType /\ NotesType
      /\ open \subseteq Socks /\ thid_client \in Clients \cup {NoThread}
  BY <1>1, TypeParts
<1>3. SUFFICES Goal
  <2>1. ClientType' /\ OuterType'
    BY <1>1, <1>2 DEF ClientType, OuterType
  <2>2. QED
    BY <1>1, <2>1, TypeParts, TypePartsNext DEF TypeInv
<1>4. "msg" \in Ports /\ "cmd" \in Ports /\ "wait" \in Exiters /\ NoSock \in Field
  BY DEF Ports, Exiters, Field
<1>5. ASSUME WaitNetInit PROVE Goal
  <2>1. WaitType' /\ InHand'
    BY <1>2, <1>5 DEF WaitNetInit, WaitGo, WaitType, WaitPcs, InHand
  <2>2. QED
    BY <1>2, <1>5, <2>1 DEF WaitNetInit, PortType, CmdType, ExitType, NotesType, notes
<1>6. ASSUME WaitCloseServer PROVE Goal
  <2>1. WaitType' /\ InHand'
    BY <1>2, <1>6 DEF WaitCloseServer, WaitGo, WaitType, WaitPcs, InHand
  <2>2. PortType'
    BY <1>6, ClosedType DEF WaitCloseServer, PortType
  <2>3. QED
    BY <1>2, <1>6, <2>1, <2>2 DEF WaitCloseServer, CmdType, ExitType, NotesType, notes
<1>7. ASSUME WaitBind PROVE Goal
  <2>1. WaitType' /\ InHand'
    BY <1>2, <1>7 DEF WaitBind, WaitGo, WaitType, WaitPcs, InHand
  <2>2. PortType'
    <3>1. PICK p \in Ports : port' = [port EXCEPT ![p].up = "open"]
      BY <1>4, <1>7 DEF WaitBind
    <3>2. QED
      BY <1>2, <3>1 DEF PortType
  <2>3. QED
    BY <1>2, <1>7, <2>1, <2>2 DEF WaitBind, CmdType, ExitType, NotesType, notes
<1>8. ASSUME WaitBindFails PROVE Goal
  <2>1. WaitType' /\ InHand'
    BY <1>2, <1>8 DEF WaitBindFails, WaitType, WaitPcs, InHand
  <2>2. ExitType'
    BY <1>2, <1>4, <1>8 DEF WaitBindFails, ExitType, ExitPcs
  <2>3. NotesType'
    BY <1>2, <1>8, ConstantsAssumption DEF WaitBindFails, NotesType
  <2>4. QED
    BY <1>2, <1>8, <2>1, <2>2, <2>3 DEF WaitBindFails, PortType, CmdType
<1>9. ASSUME WaitLoop PROVE Goal
  <2>1. WaitType' /\ InHand'
    BY <1>2, <1>9 DEF WaitLoop, WaitGo, WaitType, WaitPcs, InHand
  <2>2. QED
    BY <1>2, <1>9, <2>1 DEF WaitLoop, PortType, CmdType, ExitType, NotesType, notes
<1>10. ASSUME WaitAccept PROVE Goal
  <2>1. /\ Head(port["msg"].queue) \in Clients
        /\ Tail(port["msg"].queue) \in Seq(Clients)
    BY <1>2, <1>4, <1>10, QueueType DEF WaitAccept
  <2>2. <<Head(port["msg"].queue), "msg">> \in Socks
    BY <2>1, <1>4 DEF Socks
  <2>3. WaitType' /\ InHand' /\ open' \subseteq Socks
    BY <1>2, <1>10, <2>2 DEF WaitAccept, WaitType, WaitPcs, InHand, Field
  <2>4. PortType'
    BY <1>2, <1>4, <1>10, <2>1, PortExceptType DEF WaitAccept, PortType
  <2>5. QED
    BY <1>2, <1>10, <2>3, <2>4 DEF WaitAccept, CmdType, ExitType, NotesType, notes
<1>11. ASSUME WaitAcceptFails PROVE Goal
  <2>1. WaitType' /\ InHand'
    BY <1>2, <1>11 DEF WaitAcceptFails, WaitGo, WaitType, WaitPcs, InHand
  <2>2. QED
    BY <1>2, <1>11, <2>1 DEF WaitAcceptFails, PortType, CmdType, ExitType, NotesType, notes
<1>12. ASSUME WaitAdmit PROVE Goal
  <2>1. WaitType' /\ InHand'
    BY <1>1, <1>2, <1>12 DEF WaitAdmit, WaitGo, WaitType, WaitPcs, InHand
  <2>2. NotesType'
    BY <1>2, <1>12 DEF WaitAdmit, NoteRushed, Note, NotesType
  <2>3. QED
    BY <1>2, <1>12, <2>1, <2>2 DEF WaitAdmit, PortType, CmdType, ExitType
<1>13. ASSUME WaitRefuse PROVE Goal
  <2>1. WaitType' /\ InHand' /\ open' \subseteq Socks
    BY <1>2, <1>4, <1>13 DEF WaitRefuse, WaitType, WaitPcs, InHand
  <2>2. NotesType'
    BY <1>2, <1>13 DEF WaitRefuse, Note, NotesType
  <2>3. QED
    BY <1>2, <1>13, <2>1, <2>2 DEF WaitRefuse, PortType, CmdType, ExitType
<1>14. ASSUME WaitCrash PROVE Goal
  BY <1>1, <1>2, <1>14, CrashType DEF WaitCrash, PortType, WaitType, InHand, CmdType, ExitType
<1>15. ASSUME WaitSpawn PROVE Goal
  <2>1. wait.sock[1] \in Clients /\ wait.sock \in Field
    BY <1>1, <1>15 DEF WaitSpawn, InHand, Socks, Field
  <2>2. WaitType' /\ InHand'
    BY <1>2, <1>4, <1>15 DEF WaitSpawn, WaitType, WaitPcs, InHand
  <2>3. CmdType'
    BY <1>2, <1>15, <2>1 DEF WaitSpawn, CmdType, CmdPcs
  <2>4. NotesType'
    BY <1>2, <1>15 DEF WaitSpawn, Note, NotesType
  <2>5. QED
    BY <1>2, <1>15, <2>1, <2>2, <2>3, <2>4 DEF WaitSpawn, PortType, ExitType
<1>16. ASSUME WaitSpawnFails PROVE Goal
  <2>1. WaitType' /\ InHand'
    BY <1>2, <1>4, <1>16 DEF WaitSpawnFails, WaitType, WaitPcs, InHand
  <2>2. NotesType'
    BY <1>2, <1>16, ConstantsAssumption DEF WaitSpawnFails, Note, NotesType
  <2>3. QED
    BY <1>2, <1>16, <2>1, <2>2 DEF WaitSpawnFails, PortType, CmdType, ExitType
<1>17. ASSUME WaitExited PROVE Goal
  <2>1. WaitType' /\ InHand'
    BY <1>2, <1>17 DEF WaitExited, WaitGo, WaitType, WaitPcs, InHand
  <2>2. QED
    BY <1>2, <1>17, <2>1 DEF WaitExited, PortType, CmdType, ExitType, NotesType, notes
<1>18. QED
  BY <1>5, <1>6, <1>7, <1>8, <1>9, <1>10, <1>11, <1>12, <1>13, <1>14, <1>15, <1>16, <1>17
     DEF ThreadWait

\* Receiving a command.
LEMMA ReceiveType ==
  ASSUME OuterType, open \subseteq Socks, NEW c \in Clients, CmdReceive(c)
  PROVE  mail' \in [Clients -> 0 .. MaxMail]
<1>1. cmd[c].sock[1] \in Clients
  BY DEF CmdReceive, Socks
<1>2. PICK d \in Clients : mail[d] > 0 /\ mail' = [mail EXCEPT ![d] = @ - 1]
  BY <1>1 DEF CmdReceive
<1>3. QED
  BY <1>2, ConstantsAssumption DEF OuterType

\* cmd_thread.
LEMMA CmdThreadType ==
  ASSUME TypeInv, NEW c \in Clients, CmdThread(c)
  PROVE  TypeInv'
<1> DEFINE Goal == /\ ClientType' /\ PortType' /\ CmdType' /\ mail' \in [Clients -> 0 .. MaxMail]
                   /\ NotesType' /\ open' \subseteq Socks /\ ready' \in BOOLEAN
<1>1. TypeOK /\ InHand /\ UNCHANGED <<quit, wait, thid_client, exit, peer>>
  BY DEF TypeInv, CmdThread
<1>2. /\ ClientType /\ PortType /\ WaitType /\ CmdType /\ ExitType /\ OuterType /\ NotesType
      /\ open \subseteq Socks /\ ready \in BOOLEAN
  BY <1>1, TypeParts
<1>3. SUFFICES Goal
  <2>1. WaitType' /\ InHand' /\ ExitType' /\ OuterType'
    BY <1>1, <1>2 DEF WaitType, InHand, ExitType, OuterType
  <2>2. QED
    BY <1>1, <2>1, TypeParts, TypePartsNext DEF TypeInv
<1>4. /\ "cmd" \in Ports /\ NoSock \in Field /\ ZeroSock \in Field
      /\ cmd[c].sock \in Field /\ client.cmd \in Field
  BY <1>2 DEF Ports, Field, CmdType, ClientType
<1>5. mail \in [Clients -> 0 .. MaxMail]
  BY <1>2 DEF OuterType
<1>6. ASSUME CmdClear(c) PROVE Goal
  <2>1. ClientType' /\ CmdType'
    BY <1>2, <1>4, <1>6, CmdGoType DEF CmdClear, ClientType, CmdPcs
  <2>2. QED
    BY <1>2, <1>5, <1>6, <2>1 DEF CmdClear, PortType, NotesType, notes
<1>7. ASSUME CmdSetMsg(c) PROVE Goal
  <2>1. ClientType' /\ CmdType'
    BY <1>2, <1>4, <1>7, CmdTakeType DEF CmdSetMsg, ClientType, CmdPcs
  <2>2. QED
    BY <1>2, <1>5, <1>7, <2>1 DEF CmdSetMsg, PortType, NotesType, notes
<1>8. ASSUME CmdAccept(c) PROVE Goal
  <2>1. /\ Head(port["cmd"].queue) \in Clients
        /\ Tail(port["cmd"].queue) \in Seq(Clients)
    BY <1>2, <1>4, <1>8, QueueType DEF CmdAccept
  <2>2. <<Head(port["cmd"].queue), "cmd">> \in Socks
    BY <2>1, <1>4 DEF Socks
  <2>3. ClientType' /\ open' \subseteq Socks
    BY <1>2, <1>8, <2>2 DEF CmdAccept, ClientType, Field
  <2>4. CmdType'
    BY <1>2, <1>8, CmdGoType DEF CmdAccept, CmdPcs
  <2>5. PortType'
    BY <1>2, <1>4, <1>8, <2>1, PortExceptType DEF CmdAccept, PortType
  <2>6. QED
    BY <1>2, <1>5, <1>8, <2>3, <2>4, <2>5 DEF CmdAccept, NotesType, notes
<1>9. ASSUME CmdAcceptFails(c) PROVE Goal
  <2>1. ClientType' /\ CmdType'
    BY <1>2, <1>4, <1>9, CmdGoType DEF CmdAcceptFails, ClientType, CmdPcs
  <2>2. QED
    BY <1>2, <1>5, <1>9, <2>1 DEF CmdAcceptFails, PortType, NotesType, notes
<1>10. ASSUME CmdReady(c) PROVE Goal
  <2>1. CmdType'
    BY <1>2, <1>10, CmdGoType DEF CmdReady, CmdPcs
  <2>2. QED
    BY <1>2, <1>5, <1>10, <2>1 DEF CmdReady, ClientType, PortType, NotesType, notes
<1>11. ASSUME CmdLoop(c) PROVE Goal
  <2>1. CmdType'
    BY <1>2, <1>4, <1>11, CmdGoType, CmdTakeType DEF CmdLoop, CmdPcs
  <2>2. QED
    BY <1>2, <1>5, <1>11, <2>1 DEF CmdLoop, ClientType, PortType, NotesType, notes
<1>12. ASSUME CmdServe(c) PROVE Goal
  <2>1. CmdType'
    BY <1>2, <1>4, <1>12, CmdGoType, CmdTakeType DEF CmdServe, CmdPcs
  <2>2. mail' \in [Clients -> 0 .. MaxMail]
    BY <1>2, <1>12, ReceiveType DEF CmdServe
  <2>3. QED
    BY <1>2, <1>12, <2>1, <2>2 DEF CmdServe, ClientType, PortType, NotesType, notes
<1>13. ASSUME CmdRebooted(c) \/ CmdUploadEnds(c) \/ CmdUploadSpins(c) PROVE Goal
  <2>1. CmdType'
    BY <1>2, <1>4, <1>13, CmdGoType, CmdTakeType
       DEF CmdRebooted, CmdUploadEnds, CmdUploadSpins, CmdPcs
  <2>2. QED
    BY <1>2, <1>5, <1>13, <2>1 DEF CmdRebooted, CmdUploadEnds, CmdUploadSpins, ClientType,
       PortType, NotesType, notes
<1>14. ASSUME CmdHangup(c) PROVE Goal
  <2>1. CmdType'
    BY <1>2, <1>4, <1>14, CmdTakeType DEF CmdHangup, CmdPcs
  <2>2. QED
    BY <1>2, <1>5, <1>14, <2>1 DEF CmdHangup, ClientType, PortType, NotesType, notes
<1>15. ASSUME CmdUnready(c) PROVE Goal
  <2>1. CmdType'
    BY <1>2, <1>15, CmdGoType DEF CmdUnready, CmdPcs
  <2>2. QED
    BY <1>2, <1>5, <1>15, <2>1 DEF CmdUnready, ClientType, PortType, NotesType, notes
<1>16. ASSUME CmdCloseMsg(c) \/ CmdCloseCmd(c) PROVE Goal
  <2>1. CmdType'
    BY <1>2, <1>16, CmdGoType DEF CmdCloseMsg, CmdCloseCmd, CmdPcs
  <2>2. ClientType' /\ open' \subseteq Socks
    BY <1>2, <1>4, <1>16 DEF CmdCloseMsg, CmdCloseCmd, ClientType
  <2>3. QED
    BY <1>2, <1>5, <1>16, <2>1, <2>2
       DEF CmdCloseMsg, CmdCloseCmd, PortType, NotesType, notes
<1>17. ASSUME CmdEnd(c) PROVE Goal
  <2>1. CmdType'
    BY <1>2, <1>17, CmdGoType DEF CmdEnd, CmdPcs
  <2>2. QED
    BY <1>2, <1>5, <1>17, <2>1 DEF CmdEnd, ClientType, PortType, NotesType, notes
<1>18. ASSUME CmdCrash(c) PROVE Goal
  BY <1>2, <1>5, <1>18, CrashType DEF CmdCrash, ClientType, PortType, CmdType
<1>19. QED
  BY <1>6, <1>7, <1>8, <1>9, <1>10, <1>11, <1>12, <1>13, <1>14, <1>15, <1>16, <1>17, <1>18
     DEF CmdThread

\* The command reboot.
LEMMA RebootType ==
  ASSUME TypeInv, NEW c \in Clients, Reboot(c)
  PROVE  TypeInv'
<1>1. /\ TypeOK /\ InHand
      /\ UNCHANGED <<quit, client, port, open, ready, wait, thid_client, peer, notes>>
  BY DEF TypeInv, Reboot, CmdReboot
<1>2. /\ ClientType /\ PortType /\ WaitType /\ CmdType /\ ExitType /\ OuterType /\ NotesType
      /\ open \subseteq Socks
  BY <1>1, TypeParts
<1>3. CmdType'
  BY <1>2, CmdTakeType DEF Reboot, CmdReboot, CmdPcs, Field
<1>4. ExitType'
  BY <1>2 DEF Reboot, CmdReboot, ExitType, ExitPcs
<1>5. OuterType'
  <2>1. mail' \in [Clients -> 0 .. MaxMail]
    BY <1>2, ReceiveType DEF Reboot, CmdReboot
  <2>2. QED
    BY <1>1, <1>2, <2>1 DEF OuterType
<1>6. ClientType' /\ PortType' /\ WaitType' /\ NotesType' /\ InHand'
  BY <1>1, <1>2 DEF ClientType, PortType, WaitType, NotesType, InHand, notes
<1>7. QED
  BY <1>1, <1>3, <1>4, <1>5, <1>6, TypeParts, TypePartsNext DEF TypeInv

\* psp2shell_exit.
LEMMA Psp2shellExitType ==
  ASSUME TypeInv, NEW e \in Exiters, Psp2shellExit(e)
  PROVE  TypeInv'
<1> DEFINE Goal == /\ ClientType' /\ PortType' /\ ExitType' /\ NotesType'
                   /\ open' \subseteq Socks /\ ready' \in BOOLEAN /\ quit' \in BOOLEAN
<1>1. TypeOK /\ InHand /\ UNCHANGED <<wait, cmd, thid_client, peer, mail>>
  BY DEF TypeInv, Psp2shellExit, outer
<1>2. /\ ClientType /\ PortType /\ WaitType /\ CmdType /\ ExitType /\ OuterType /\ NotesType
      /\ open \subseteq Socks /\ ready \in BOOLEAN /\ quit \in BOOLEAN
  BY <1>1, TypeParts
<1>3. SUFFICES Goal
  <2>1. WaitType' /\ InHand' /\ CmdType' /\ OuterType'
    BY <1>1, <1>2 DEF WaitType, InHand, CmdType, OuterType
  <2>2. QED
    BY <1>1, <2>1, TypeParts, TypePartsNext DEF TypeInv
<1>4. NoSock \in Field
  BY DEF Field
<1>5. ASSUME ExitCheck(e) \/ ExitSet(e) \/ ExitJoin(e) \/ ExitJoinWait(e) PROVE Goal
  <2>1. ExitType'
    BY <1>2, <1>5, ExitGoType DEF ExitCheck, ExitSet, ExitJoin, ExitJoinWait, ExitPcs
  <2>2. QED
    BY <1>2, <1>5, <2>1
       DEF ExitCheck, ExitSet, ExitJoin, ExitJoinWait, ClientType, PortType, NotesType, notes
<1>6. ASSUME ExitCloseClient(e) PROVE Goal
  <2>1. ExitType'
    BY <1>2, <1>6, ExitGoType DEF ExitCloseClient, ExitPcs
  <2>2. ClientType' /\ open' \subseteq Socks
    BY <1>2, <1>4, <1>6 DEF ExitCloseClient, ClientType
  <2>3. QED
    BY <1>2, <1>6, <2>1, <2>2 DEF ExitCloseClient, PortType, NotesType, notes
<1>7. ASSUME ExitFree(e) PROVE Goal
  <2>1. ExitType'
    BY <1>2, <1>7, ExitGoType DEF ExitFree, ExitPcs
  <2>2. ClientType'
    BY <1>2, <1>7 DEF ExitFree, ClientType
  <2>3. NotesType'
    BY <1>2, <1>7, CrashType DEF ExitFree, NotesType, notes
  <2>4. QED
    BY <1>2, <1>7, <2>1, <2>2, <2>3 DEF ExitFree, PortType
<1>8. ASSUME ExitCloseServer(e) PROVE Goal
  <2>1. ExitType' /\ PortType'
    BY <1>2, <1>8, ExitGoType, ClosedType DEF ExitCloseServer, ExitPcs, PortType
  <2>2. QED
    BY <1>2, <1>8, <2>1 DEF ExitCloseServer, ClientType, NotesType, notes
<1>9. QED
  BY <1>5, <1>6, <1>7, <1>8 DEF Psp2shellExit

LEMMA TypeInit == Init => TypeInv
<1> SUFFICES ASSUME Init PROVE TypeInv
  OBVIOUS
<1>1. NoSock \in Field /\ 0 \in 0 .. MaxMail /\ 0 \in 0 .. MaxFailures
  BY ConstantsAssumption DEF Field
<1>2. ClientType /\ WaitType /\ CmdType
  BY <1>1 DEF Init, ClientType, WaitType, CmdType, WaitPcs, CmdPcs
<1>3. PortType
  BY ClosedType DEF Init, PortType
<1>4. ExitType /\ OuterType /\ NotesType
  BY <1>1 DEF Init, ExitType, ExitPcs, OuterType, NotesType
<1>5. InHand
  BY DEF Init, InHand
<1>6. QED
  BY <1>2, <1>3, <1>4, <1>5, TypeParts DEF Init, TypeInv

LEMMA TypeStep == TypeInv /\ [Next]_vars => TypeInv'
<1> SUFFICES ASSUME TypeInv, [Next]_vars PROVE TypeInv'
  OBVIOUS
<1>1. CASE Next
  BY <1>1, OutsideType, ThreadWaitType, CmdThreadType, RebootType, Psp2shellExitType
     DEF Next
<1>2. CASE UNCHANGED vars
  BY <1>2 DEF TypeInv, TypeOK, InHand, vars, outer, notes
<1>3. QED
  BY <1>1, <1>2

LEMMA TypeInvariant == Spec => []TypeInv
BY TypeInit, TypeStep, PTL DEF Spec

\* The s_client, the sockets and all threads keep to their ranges, whatever the number of
\* clients (psp2shell_m/source/main.c).
THEOREM TypeCorrect == Spec => []TypeOK
<1>1. TypeInv => TypeOK
  BY DEF TypeInv
<1>2. QED
  BY <1>1, TypeInvariant, PTL

-------------------------------------------------------------------------------
(* A client is started once: it goes from the message port's queue to       *)
(* thread_wait's hand and from there to its cmd_thread.                     *)

Queue == port["msg"].queue
Unstarted(c) == cmd[c].pc = "unborn"
Held(c) == wait.pc \in {"slot", "spawn"} /\ wait.sock[1] = c

StartedOnce ==
  /\ \A c \in Clients : peer[c] = "new" => Unstarted(c) /\ ~Held(c)
  /\ \A c \in Clients : Held(c) => Unstarted(c)
  /\ \A i \in 1 .. Len(Queue) :
       Unstarted(Queue[i]) /\ peer[Queue[i]] # "new" /\ ~Held(Queue[i])
  /\ \A i, j \in 1 .. Len(Queue) : Queue[i] = Queue[j] => i = j

LEMMA QueueProperties ==
  ASSUME TypeInv
  PROVE  /\ Queue \in Seq(Clients) /\ Len(Queue) \in Nat
         /\ \A i \in 1 .. Len(Queue) : Queue[i] \in Clients
<1>1. Queue \in Seq(Clients)
  BY DEF TypeInv, TypeOK, Queue, Ports
<1>2. QED
  BY <1>1, LenProperties, ElementOfSeq

LEMMA EmptyLen == Len(<<>>) = 0
OBVIOUS

\* A step of a cmd_thread leaves every other thread's state alone, and is not its start.
LEMMA CmdStep ==
  ASSUME TypeInv, NEW c \in Clients, CmdThread(c)
  PROVE  /\ cmd[c].pc \notin {"unborn", "done"} /\ cmd'[c].pc # "unborn"
         /\ \A d \in Clients \ {c} : cmd'[d] = cmd[d]
<1>1. cmd \in [Clients -> [pc : CmdPcs, sock : Field]]
  BY DEF TypeInv, TypeOK, CmdPcs
<1>2. CASE CmdClear(c) \/ CmdSetMsg(c) \/ CmdAccept(c) \/ CmdAcceptFails(c) \/ CmdReady(c)
  BY <1>1, <1>2 DEF CmdClear, CmdSetMsg, CmdAccept, CmdAcceptFails, CmdReady, CmdGo, CmdTake
<1>3. CASE CmdLoop(c) \/ CmdServe(c) \/ CmdRebooted(c) \/ CmdUploadEnds(c)
           \/ CmdUploadSpins(c) \/ CmdHangup(c)
  BY <1>1, <1>3 DEF CmdLoop, CmdServe, CmdRebooted, CmdUploadEnds, CmdUploadSpins, CmdHangup,
     CmdGo, CmdTake
<1>4. CASE CmdUnready(c) \/ CmdCloseMsg(c) \/ CmdCloseCmd(c) \/ CmdEnd(c)
  BY <1>1, <1>4 DEF CmdUnready, CmdCloseMsg, CmdCloseCmd, CmdEnd, CmdGo, CmdTake
<1>5. CASE CmdCrash(c)
  BY <1>5 DEF CmdCrash
<1>6. QED
  BY <1>2, <1>3, <1>4, <1>5 DEF CmdThread

\* What the command reboot changes: its thread's position, and psp2shell_exit's for it.
LEMMA RebootStep ==
  ASSUME TypeInv, NEW c \in Clients, Reboot(c)
  PROVE  /\ UNCHANGED <<quit, client, port, open, ready, wait, thid_client, peer, notes>>
         /\ cmd[c].pc = "recv" /\ cmd'[c].pc = "reboot"
         /\ \A d \in Clients \ {c} : cmd'[d] = cmd[d]
         /\ exit'[c] = "check" /\ \A e \in Exiters \ {c} : exit'[e] = exit[e]
         /\ Alive' = Alive
<1>1. /\ cmd \in [Clients -> [pc : CmdPcs, sock : Field]] /\ exit \in [Exiters -> ExitPcs]
      /\ c \in Exiters
  BY DEF TypeInv, TypeOK, CmdPcs, ExitPcs, Exiters
<1>2. /\ UNCHANGED <<quit, client, port, open, ready, wait, thid_client, peer, notes>>
      /\ cmd[c].pc = "recv" /\ cmd'[c].pc = "reboot"
      /\ \A d \in Clients \ {c} : cmd'[d] = cmd[d]
  BY <1>1 DEF Reboot, CmdReboot, CmdTake
<1>3. exit'[c] = "check" /\ \A e \in Exiters \ {c} : exit'[e] = exit[e]
  BY <1>1 DEF Reboot, CmdReboot
<1>4. Alive' = Alive
  BY <1>2 DEF Alive
<1>5. QED
  BY <1>2, <1>3, <1>4

\* A step of thread_wait other than an accept or a start takes no client out of the
\* queue, takes none in hand, and leaves cmd alone.
LEMMA WaitStep ==
  ASSUME TypeInv, ThreadWait, ~WaitAccept, ~WaitSpawn
  PROVE  /\ UNCHANGED <<cmd, peer>> /\ \A c \in Clients : Held(c)' => Held(c)
         /\ Queue' = Queue \/ Queue' = <<>>
<1>1. wait \in [pc : WaitPcs, sock : Field, first : BOOLEAN]
  BY DEF TypeInv, TypeOK, WaitPcs
<1>2. port \in [Ports -> [up : {"closed", "open", "dead"}, queue : Seq(Clients)]]
      /\ "msg" \in Ports /\ "cmd" \in Ports
  BY DEF TypeInv, TypeOK, Ports
<1>3. UNCHANGED peer
  BY DEF ThreadWait, outer
<1>4. CASE WaitCloseServer
  BY <1>1, <1>2, <1>3, <1>4 DEF WaitCloseServer, WaitGo, Held, Queue, Closed
<1>5. CASE WaitBind
  <2>1. wait'.pc \in {"bindcmd", "loop"} /\ UNCHANGED cmd
    BY <1>1, <1>5 DEF WaitBind, WaitGo
  <2>2. PICK p \in Ports : port' = [port EXCEPT ![p].up = "open"]
    BY <1>2, <1>5 DEF WaitBind
  <2>3. Queue' = Queue
    BY <1>2, <2>2 DEF Queue
  <2>4. QED
    BY <1>3, <2>1, <2>3 DEF Held
<1>6. CASE WaitNetInit \/ WaitBindFails \/ WaitLoop \/ WaitAcceptFails \/ WaitExited
  BY <1>1, <1>3, <1>6 DEF WaitNetInit, WaitBindFails, WaitLoop, WaitAcceptFails, WaitExited,
                          WaitGo, Held, Queue
<1>7. CASE WaitAdmit \/ WaitRefuse \/ WaitCrash \/ WaitSpawnFails
  BY <1>1, <1>3, <1>7 DEF WaitAdmit, WaitRefuse, WaitCrash, WaitSpawnFails, WaitGo, Held, Queue
<1>8. QED
  BY <1>4, <1>5, <1>6, <1>7 DEF ThreadWait

LEMMA StartedOnceStep ==
  ASSUME TypeInv, StartedOnce, [Next]_vars
  PROVE  StartedOnce'
<1>0. /\ Queue \in Seq(Clients) /\ Len(Queue) \in Nat
      /\ \A i \in 1 .. Len(Queue) : Queue[i] \in Clients
  BY QueueProperties
<1>1. ASSUME UNCHANGED <<cmd, wait>>, Queue' = Queue \/ Queue' = <<>>,
             \A c \in Clients : peer'[c] = "new" <=> peer[c] = "new"
      PROVE  StartedOnce'
  BY <1>0, <1>1, EmptyLen DEF StartedOnce, Held, Unstarted
<1>2. CASE Outside
  <2>1. peer \in [Clients -> {"new", "half", "full", "gone"}] /\ UNCHANGED <<cmd, wait>>
    BY <1>2 DEF TypeInv, TypeOK, Outside
  <2>2. port \in [Ports -> [up : {"closed", "open", "dead"}, queue : Seq(Clients)]]
        /\ "msg" \in Ports /\ "cmd" \in Ports
    BY DEF TypeInv, TypeOK, Ports
  <2>3. ASSUME NEW c \in Clients, ConnectMsg(c) PROVE StartedOnce'
    <3>1. /\ Queue' = Append(Queue, c) /\ peer[c] = "new"
          /\ peer' = [peer EXCEPT ![c] = "half"]
      BY <2>2, <2>3 DEF ConnectMsg, Queue
    <3>2. /\ Len(Queue') = Len(Queue) + 1 /\ Queue'[Len(Queue) + 1] = c
          /\ \A i \in 1 .. Len(Queue) : Queue'[i] = Queue[i]
      BY <1>0, <3>1, AppendProperties
    <3>3. \A i \in 1 .. Len(Queue') : i = Len(Queue) + 1 \/ i \in 1 .. Len(Queue)
      BY <1>0, <3>2
    <3>4. \A i \in 1 .. Len(Queue) : Queue[i] # c
      BY <3>1 DEF StartedOnce
    <3>5. (\A i, j \in 1 .. Len(Queue) : Queue[i] = Queue[j] => i = j)'
      BY <3>2, <3>3, <3>4 DEF StartedOnce
    <3>6. QED
      BY <1>0, <2>1, <3>1, <3>2, <3>3, <3>4, <3>5 DEF StartedOnce, Held, Unstarted
  <2>4. ASSUME NEW c \in Clients, ConnectCmd(c) \/ SendCmd(c) \/ Leave(c) PROVE StartedOnce'
    <3>1. \A d \in Clients : peer'[d] = "new" <=> peer[d] = "new"
      BY <2>1, <2>4 DEF ConnectCmd, SendCmd, Leave
    <3>2. Queue' = Queue
      BY <2>2, <2>4 DEF ConnectCmd, SendCmd, Leave, Queue
    <3>3. QED
      BY <1>1, <2>1, <3>1, <3>2
  <2>5. CASE NetDrop
    BY <1>1, <2>1, <2>2, <2>5 DEF NetDrop, Queue
  <2>6. CASE Stop
    BY <1>1, <2>1, <2>6 DEF Stop, Queue, outer
  <2>7. QED
    BY <1>2, <2>3, <2>4, <2>5, <2>6 DEF Outside
<1>3. CASE ThreadWait
  <2>0. wait \in [pc : WaitPcs, sock : Field, first : BOOLEAN]
    BY DEF TypeInv, TypeOK, WaitPcs
  <2>1. CASE WaitAccept
    <3>1. Queue # <<>> /\ Queue' = Tail(Queue) /\ UNCHANGED <<cmd, peer>>
      <4>1. port \in [Ports -> [up : {"closed", "open", "dead"}, queue : Seq(Clients)]]
            /\ "msg" \in Ports
        BY DEF TypeInv, TypeOK, Ports
      <4>2. QED
        BY <1>3, <2>1, <4>1 DEF WaitAccept, ThreadWait, outer, Queue
    <3>2. /\ Len(Queue') = Len(Queue) - 1 /\ Len(Queue) > 0 /\ Head(Queue) = Queue[1]
          /\ \A i \in 1 .. Len(Queue') : Queue'[i] = Queue[i + 1]
      BY <1>0, <3>1, HeadTailProperties
    <3>3. \A c \in Clients : Held(c)' => c = Queue[1]
      BY <2>0, <2>1, <3>2 DEF WaitAccept, Held, Queue
    <3>4. /\ 1 \in 1 .. Len(Queue)
          /\ \A i \in 1 .. Len(Queue') : i + 1 \in 1 .. Len(Queue) /\ i + 1 # 1
      BY <1>0, <3>2
    <3>5. \A i \in 1 .. Len(Queue') : Queue'[i] # Queue[1]
      BY <3>2, <3>4 DEF StartedOnce
    <3>6. \A i, j \in 1 .. Len(Queue') : Queue'[i] = Queue'[j] => i = j
      <4>1. SUFFICES ASSUME NEW i \in 1 .. Len(Queue'), NEW j \in 1 .. Len(Queue'),
                            Queue[i + 1] = Queue[j + 1]
                     PROVE  i = j
        BY <3>2
      <4>2. i + 1 = j + 1
        BY <3>4, <4>1 DEF StartedOnce
      <4>3. QED
        BY <4>2, <1>0, <3>2
    <3>7. \A c \in Clients : Unstarted(c)' <=> Unstarted(c)
      BY <3>1 DEF Unstarted
    <3>8. \A i \in 1 .. Len(Queue') : Queue'[i] \in Clients /\ Queue'[i] = Queue[i + 1]
      BY <1>0, <3>2, <3>4
    <3>9. QED
      <4>1. \A c \in Clients : peer'[c] = "new" => Unstarted(c)' /\ ~Held(c)'
        BY <3>1, <3>3, <3>4, <3>7 DEF StartedOnce
      <4>2. \A c \in Clients : Held(c)' => Unstarted(c)'
        BY <3>3, <3>4, <3>7 DEF StartedOnce
      <4>3. ASSUME NEW i \in 1 .. Len(Queue')
            PROVE  (cmd[Queue[i]].pc = "unborn" /\ peer[Queue[i]] # "new"
                    /\ ~(wait.pc \in {"slot", "spawn"} /\ wait.sock[1] = Queue[i]))'
        BY <3>1, <3>3, <3>4, <3>5, <3>8 DEF StartedOnce, Unstarted, Held
      <4>4. QED
        BY <3>6, <4>1, <4>2, <4>3 DEF StartedOnce, Unstarted, Held
  <2>2. CASE WaitSpawn
    <3>1. /\ wait.pc = "spawn" /\ \A c \in Clients : ~Held(c)'
          /\ \A c \in Clients : c # wait.sock[1] => cmd'[c] = cmd[c]
          /\ UNCHANGED <<peer, port>>
      <4>1. cmd \in [Clients -> [pc : CmdPcs, sock : Field]]
        BY DEF TypeInv, TypeOK, CmdPcs
      <4>2. QED
        BY <1>3, <2>0, <2>2, <4>1 DEF WaitSpawn, Held, ThreadWait, outer
    <3>2. UNCHANGED Queue
      BY <3>1 DEF Queue
    <3>3. \A c \in Clients : ~Held(c) => Unstarted(c)' = Unstarted(c)
      BY <3>1 DEF Unstarted, Held
    <3>4. QED
      BY <1>0, <3>1, <3>2, <3>3 DEF StartedOnce, Unstarted, Held
  <2>3. CASE ~WaitAccept /\ ~WaitSpawn
    <3>1. /\ UNCHANGED <<cmd, peer>> /\ \A c \in Clients : Held(c)' => Held(c)
          /\ Queue' = Queue \/ Queue' = <<>>
      BY <1>3, <2>3, WaitStep
    <3>2. QED
      BY <1>0, <3>1, EmptyLen DEF StartedOnce, Unstarted, Held
  <2>4. QED
    BY <2>1, <2>2, <2>3
<1>4. ASSUME NEW c \in Clients, CmdThread(c) PROVE StartedOnce'
  <2>1. \A d \in Clients : Unstarted(d)' <=> Unstarted(d)
    BY <1>4, CmdStep DEF Unstarted
  <2>2. UNCHANGED <<wait, peer>>
    BY <1>4 DEF CmdThread
  <2>3. Queue' = Queue
    <3>1. CASE CmdAccept(c)
      <4>1. port \in [Ports -> [up : {"closed", "open", "dead"}, queue : Seq(Clients)]]
            /\ "msg" \in Ports /\ "cmd" \in Ports
        BY DEF TypeInv, TypeOK, Ports
      <4>2. QED
        BY <3>1, <4>1 DEF CmdAccept, Queue
    <3>2. CASE UNCHANGED port
      BY <3>2 DEF Queue
    <3>3. QED
      BY <1>4, <3>1, <3>2 DEF CmdThread, CmdClear, CmdSetMsg, CmdAcceptFails, CmdReady,
         CmdLoop, CmdServe, CmdRebooted, CmdUploadEnds, CmdUploadSpins, CmdHangup, CmdUnready,
         CmdCloseMsg, CmdCloseCmd, CmdEnd, CmdCrash
  <2>4. QED
    BY <1>0, <2>1, <2>2, <2>3 DEF StartedOnce, Unstarted, Held
<1>5. ASSUME NEW c \in Clients, Reboot(c) PROVE StartedOnce'
  <2>1. \A d \in Clients : Unstarted(d)' <=> Unstarted(d)
    BY <1>5, RebootStep DEF Unstarted
  <2>2. UNCHANGED <<wait, peer, Queue>>
    BY <1>5, RebootStep DEF Queue
  <2>3. QED
    BY <1>0, <2>1, <2>2 DEF StartedOnce, Unstarted, Held
<1>6. ASSUME NEW e \in Exiters, Psp2shellExit(e) PROVE StartedOnce'
  <2>1. Queue' = Queue \/ Queue' = <<>>
    BY <1>6 DEF Psp2shellExit, ExitCheck, ExitSet, ExitCloseClient, ExitJoin, ExitFree,
       ExitCloseServer, ExitJoinWait, Queue, Closed, Ports
  <2>2. QED
    BY <1>1, <1>6, <2>1 DEF Psp2shellExit, outer
<1>7. CASE UNCHANGED vars
  BY <1>1, <1>7 DEF vars, outer, Queue
<1>8. QED
  BY <1>2, <1>3, <1>4, <1>5, <1>6, <1>7 DEF Next

-------------------------------------------------------------------------------
(* The ready flag.                                                         *)

\* Between kpsp2shell_set_ready(1) and (0) of a session's thread.
Logging(c) == cmd[c].pc \in InSession \cup {"unready"}

LEMMA LogsStep ==
  ASSUME TypeInv, StartedOnce, LogsForSession, [Next]_vars
  PROVE  LogsForSession'
<1> SUFFICES ASSUME ready' PROVE \E c \in Clients : Logging(c)'
  BY DEF LogsForSession, Logging
<1>0. cmd \in [Clients -> [pc : CmdPcs, sock : Field]]
  BY DEF TypeInv, TypeOK, CmdPcs
<1>1. ASSUME ready, UNCHANGED cmd PROVE \E c \in Clients : Logging(c)'
  BY <1>1 DEF LogsForSession, Logging
<1>2. CASE UNCHANGED vars
  BY <1>1, <1>2 DEF vars
<1>3. CASE Outside
  BY <1>1, <1>3 DEF Outside
<1>4. CASE ThreadWait
  <2>1. ready
    BY <1>4 DEF ThreadWait
  <2>2. CASE WaitSpawn
    \* The thread that logs is not the one that starts.
    <3>1. PICK c \in Clients : Logging(c)
      BY <2>1 DEF LogsForSession, Logging
    <3>2. c # wait.sock[1]
      BY <2>2, <3>1 DEF WaitSpawn, StartedOnce, Held, Unstarted, Logging, InSession
    <3>3. cmd'[c] = cmd[c]
      BY <1>0, <2>2, <3>2 DEF WaitSpawn
    <3>4. QED
      BY <3>1, <3>3 DEF Logging
  <2>3. CASE ~WaitSpawn
    <3>1. CASE WaitAccept
      BY <1>1, <2>1, <3>1 DEF WaitAccept
    <3>2. CASE ~WaitAccept
      BY <1>1, <1>4, <2>1, <2>3, <3>2, WaitStep
    <3>3. QED
      BY <3>1, <3>2
  <2>4. QED
    BY <2>2, <2>3
<1>5. ASSUME NEW c \in Clients, CmdThread(c) PROVE \E d \in Clients : Logging(d)'
  <2>1. CASE CmdReady(c)
    BY <1>0, <2>1 DEF CmdReady, CmdGo, Logging, InSession
  <2>2. CASE CmdUnready(c)
    BY <2>2 DEF CmdUnready
  <2>3. ASSUME ready, Logging(c) => Logging(c)' PROVE \E d \in Clients : Logging(d)'
    BY <1>5, <2>3, CmdStep DEF LogsForSession, Logging
  <2>4. CASE CmdClear(c) \/ CmdSetMsg(c) \/ CmdAccept(c) \/ CmdAcceptFails(c)
    BY <2>3, <2>4 DEF CmdClear, CmdSetMsg, CmdAccept, CmdAcceptFails, CmdGo, CmdTake, Logging,
       InSession
  <2>5. CASE CmdLoop(c) \/ CmdServe(c) \/ CmdRebooted(c) \/ CmdUploadEnds(c)
             \/ CmdUploadSpins(c) \/ CmdHangup(c)
    <3>1. ready
      BY <2>5 DEF CmdLoop, CmdServe, CmdRebooted, CmdUploadEnds, CmdUploadSpins, CmdHangup
    <3>2. Logging(c)'
      <4>1. PICK s \in {"loop", "recv", "upload", "spin", "unready"} :
              CmdGo(c, cmd[c].pc, s) \/ \E t : CmdTake(c, cmd[c].pc, s, t)
        <5>1. CASE CmdLoop(c)
          BY <5>1 DEF CmdLoop, CmdGo, CmdTake
        <5>2. CASE CmdServe(c)
          BY <5>2 DEF CmdServe, CmdGo, CmdTake
        <5>3. CASE CmdRebooted(c) \/ CmdUploadEnds(c) \/ CmdUploadSpins(c) \/ CmdHangup(c)
          BY <5>3 DEF CmdRebooted, CmdUploadEnds, CmdUploadSpins, CmdHangup, CmdGo, CmdTake
        <5>4. QED
          BY <2>5, <5>1, <5>2, <5>3
      <4>2. QED
        BY <1>0, <4>1 DEF CmdGo, CmdTake, Logging, InSession
    <3>3. QED
      BY <2>3, <3>1, <3>2
  <2>6. CASE CmdCloseMsg(c) \/ CmdCloseCmd(c) \/ CmdEnd(c) \/ CmdCrash(c)
    BY <2>3, <2>6 DEF CmdCloseMsg, CmdCloseCmd, CmdEnd, CmdCrash, CmdGo, Logging, InSession
  <2>7. QED
    BY <1>5, <2>1, <2>2, <2>4, <2>5, <2>6 DEF CmdThread
<1>6. ASSUME NEW e \in Exiters, Psp2shellExit(e) PROVE \E d \in Clients : Logging(d)'
  <2>1. ready
    BY <1>6 DEF Psp2shellExit, ExitCheck, ExitSet, ExitCloseClient, ExitJoin, ExitFree,
       ExitCloseServer, ExitJoinWait
  <2>2. QED
    BY <1>1, <1>6, <2>1 DEF Psp2shellExit
<1>7. ASSUME NEW c \in Clients, Reboot(c) PROVE \E d \in Clients : Logging(d)'
  <2>1. cmd'[c].pc = "reboot"
    BY <1>7, RebootStep
  <2>2. QED
    BY <2>1 DEF Logging, InSession
<1>8. QED
  BY <1>2, <1>3, <1>4, <1>5, <1>6, <1>7 DEF Next

LEMMA LogsInit == Init => StartedOnce /\ LogsForSession
<1> SUFFICES ASSUME Init PROVE StartedOnce /\ LogsForSession
  OBVIOUS
<1>1. Queue = <<>> /\ \A c \in Clients : Unstarted(c) /\ ~Held(c)
  BY DEF Init, Queue, Closed, Ports, Unstarted, Held
<1>2. QED
  BY <1>1, EmptyLen DEF Init, StartedOnce, LogsForSession

\* The kernel logs only while a cmd_thread is there that is going to clear its flag,
\* however sessions and psp2shell_exit overlap (psp2shell_m/source/main.c:149, 169, 326).
THEOREM LogsCorrect == Spec => []LogsForSession
<1>1. TypeInv /\ StartedOnce /\ LogsForSession /\ [Next]_vars
        => StartedOnce' /\ LogsForSession'
  BY StartedOnceStep, LogsStep
<1>2. QED
  BY <1>1, LogsInit, TypeInvariant, PTL DEF Spec

-------------------------------------------------------------------------------
(* psp2shell_exit and the s_client.                                        *)

\* Outside the "rushed" mishaps there is one cmd_thread at a time, which is the one that
\* psp2shell_exit joins, and none while the next one is about to be started.
OneThread ==
  ~Rushed => /\ Alive \subseteq {thid_client}
             /\ wait.pc = "spawn" => Alive = {}

\* A cmd_thread that called psp2shell_exit receives no command after it.
Rebooting ==
  /\ \A e \in Exiters : exit[e] \notin {"idle", "check", "set"} => quit
  /\ \A c \in Clients : exit[c] # "idle" =>
       \/ cmd[c].pc = "reboot"
       \/ quit /\ cmd[c].pc \in {"loop", "unready", "closemsg", "closecmd", "empty", "done"}

\* psp2shell_exit passes its join only with quit set and the joined thread ended, unless
\* that thread is its caller.
Joined ==
  /\ Rebooting
  /\ \A e \in Exiters : exit[e] = "free" /\ ~Rushed => Alive \subseteq {e}
  /\ client.freed => quit
  /\ JoinedBeforeFree

\* The mishaps and quit are never taken back, and only WaitSpawn makes a thread.
LEMMA MonotoneStep ==
  ASSUME TypeInv, Next
  PROVE  /\ mishaps \subseteq mishaps' /\ (quit => quit')
         /\ ~WaitSpawn => Alive' \subseteq Alive
<1>1. CASE Outside
  <2>1. UNCHANGED <<quit, cmd>>
    BY <1>1 DEF Outside
  <2>2. mishaps \subseteq mishaps'
    BY <1>1 DEF Outside, ConnectMsg, ConnectCmd, SendCmd, Leave, NetDrop, Stop, Note, notes
  <2>3. QED
    BY <2>1, <2>2 DEF Alive
<1>2. CASE ThreadWait
  <2>1. UNCHANGED quit
    BY <1>2 DEF ThreadWait
  <2>2. mishaps \subseteq mishaps'
    BY <1>2 DEF ThreadWait, WaitNetInit, WaitCloseServer, WaitBind, WaitBindFails, WaitLoop,
       WaitAccept, WaitAcceptFails, WaitAdmit, WaitRefuse, WaitCrash, WaitSpawn,
       WaitSpawnFails, WaitExited, NoteRushed, Note, Crash, notes
  <2>3. ~WaitSpawn => UNCHANGED cmd
    BY <1>2, WaitStep DEF WaitAccept
  <2>4. QED
    BY <2>1, <2>2, <2>3 DEF Alive
<1>3. ASSUME NEW c \in Clients, CmdThread(c)
      PROVE  mishaps \subseteq mishaps' /\ UNCHANGED quit /\ Alive' \subseteq Alive
  <2>1. UNCHANGED <<quit, mishaps>>
    BY <1>3 DEF CmdThread, CmdClear, CmdSetMsg, CmdAccept, CmdAcceptFails, CmdReady, CmdLoop,
       CmdServe, CmdRebooted, CmdUploadEnds, CmdUploadSpins, CmdHangup, CmdUnready,
       CmdCloseMsg, CmdCloseCmd, CmdEnd, CmdCrash, Crash, notes
  <2>2. Alive' \subseteq Alive
    BY <1>3, CmdStep DEF Alive
  <2>3. QED
    BY <2>1, <2>2
<1>4. ASSUME NEW e \in Exiters, Psp2shellExit(e)
      PROVE  mishaps \subseteq mishaps' /\ (quit => quit') /\ Alive' \subseteq Alive
  <2>1. UNCHANGED mishaps /\ (quit => quit')
    BY <1>4 DEF Psp2shellExit, ExitCheck, ExitSet, ExitCloseClient, ExitJoin, ExitFree,
       ExitCloseServer, ExitJoinWait, Crash, notes
  <2>2. UNCHANGED cmd
    BY <1>4 DEF Psp2shellExit
  <2>3. QED
    BY <2>1, <2>2 DEF Alive
<1>5. ASSUME NEW c \in Clients, Reboot(c)
      PROVE  mishaps \subseteq mishaps' /\ UNCHANGED quit /\ Alive' \subseteq Alive
  BY <1>5, RebootStep DEF notes
<1>6. QED
  BY <1>1, <1>2, <1>3, <1>4, <1>5 DEF Next

LEMMA OneThreadStep ==
  ASSUME TypeInv, OneThread, [Next]_vars
  PROVE  OneThread'
<1>0. wait \in [pc : WaitPcs, sock : Field, first : BOOLEAN]
  BY DEF TypeInv, TypeOK, WaitPcs
<1>1. CASE UNCHANGED vars
  BY <1>1 DEF OneThread, Alive, Rushed, vars, notes
<1>2. ASSUME Next, ~WaitSpawn, UNCHANGED thid_client, wait'.pc = "spawn" => wait.pc = "spawn"
      PROVE  OneThread'
  BY <1>2, MonotoneStep DEF OneThread, Rushed
<1>3. ASSUME Next, WaitSpawn PROVE OneThread'
  <2>1. /\ wait.pc = "spawn" /\ wait'.pc = "loop" /\ thid_client' = wait.sock[1]
        /\ \A c \in Clients : c # wait.sock[1] => cmd'[c] = cmd[c]
    <3>1. cmd \in [Clients -> [pc : CmdPcs, sock : Field]]
      BY DEF TypeInv, TypeOK, CmdPcs
    <3>2. QED
      BY <1>0, <1>3, <3>1 DEF WaitSpawn
  <2>2. Alive' \subseteq Alive \cup {thid_client'}
    BY <2>1 DEF Alive
  <2>3. QED
    BY <1>3, <2>1, <2>2, MonotoneStep DEF OneThread, Rushed
<1>4. ASSUME Next, WaitAdmit PROVE OneThread'
  <2>1. ~Rushed' => Alive = {}
    BY <1>4 DEF WaitAdmit, NoteRushed, Note, Rushed
  <2>2. UNCHANGED cmd
    BY <1>4 DEF WaitAdmit
  <2>3. QED
    BY <2>1, <2>2 DEF OneThread, Alive
<1>5. ASSUME Next, WaitSpawnFails PROVE OneThread'
  BY <1>5 DEF WaitSpawnFails, Note, OneThread, Rushed
<1>6. CASE Outside
  <2>1. Next \/ UNCHANGED vars
    OBVIOUS
  <2>2. ~WaitSpawn \/ WaitSpawn
    OBVIOUS
  <2>3. QED
    BY <1>1, <1>2, <1>3, <1>6, <2>1, <2>2 DEF Outside
<1>7. ASSUME Next, ThreadWait, ~WaitSpawn, ~WaitAdmit, ~WaitSpawnFails PROVE OneThread'
  <2>1. UNCHANGED thid_client
    BY <1>7 DEF ThreadWait, WaitNetInit, WaitCloseServer, WaitBind, WaitBindFails, WaitLoop,
       WaitAccept, WaitAcceptFails, WaitRefuse, WaitCrash, WaitExited
  <2>2. wait'.pc = "spawn" => wait.pc = "spawn"
    BY <1>0, <1>7 DEF ThreadWait, WaitNetInit, WaitCloseServer, WaitBind, WaitBindFails,
       WaitLoop, WaitAccept, WaitAcceptFails, WaitRefuse, WaitCrash, WaitExited, WaitGo
  <2>3. QED
    BY <1>2, <1>7, <2>1, <2>2
<1>8. ASSUME Next, NEW c \in Clients, CmdThread(c), ~WaitSpawn PROVE OneThread'
  BY <1>2, <1>8 DEF CmdThread
<1>9. ASSUME Next, NEW e \in Exiters, Psp2shellExit(e), ~WaitSpawn PROVE OneThread'
  BY <1>2, <1>9 DEF Psp2shellExit
<1>10. ASSUME Next, NEW c \in Clients, Reboot(c), ~WaitSpawn PROVE OneThread'
  BY <1>2, <1>10, RebootStep
<1>11. QED
  BY <1>1, <1>3, <1>4, <1>5, <1>6, <1>7, <1>8, <1>9, <1>10 DEF Next

LEMMA RebootingStep ==
  ASSUME TypeInv, StartedOnce, Rebooting, [Next]_vars
  PROVE  Rebooting'
<1>0. /\ exit \in [Exiters -> ExitPcs] /\ cmd \in [Clients -> [pc : CmdPcs, sock : Field]]
      /\ Clients \subseteq Exiters /\ "stop" \notin Clients /\ "wait" \notin Clients
  BY ConstantsAssumption DEF TypeInv, TypeOK, ExitPcs, CmdPcs, Exiters
<1>1. CASE UNCHANGED vars
  BY <1>1 DEF Rebooting, vars
\* No exit moves but those of other callers that begin.
<1>2. ASSUME UNCHANGED <<quit, cmd>>, \A c \in Clients : exit'[c] = exit[c],
             \A e \in Exiters : exit'[e] \in {exit[e], "check"}
      PROVE  Rebooting'
  BY <1>2 DEF Rebooting
<1>3. CASE Outside
  <2>1. /\ \A c \in Clients : exit'[c] = exit[c]
        /\ \A e \in Exiters : exit'[e] \in {exit[e], "check"}
    BY <1>0, <1>3 DEF Outside, ConnectMsg, ConnectCmd, SendCmd, Leave, NetDrop, Stop
  <2>2. QED
    BY <1>2, <1>3, <2>1 DEF Outside
<1>4. CASE ThreadWait
  <2>1. CASE WaitSpawn
    <3>1. /\ UNCHANGED <<quit, exit>> /\ Unstarted(wait.sock[1])
          /\ \A c \in Clients : c # wait.sock[1] => cmd'[c] = cmd[c]
      <4>1. wait.pc = "spawn" /\ wait.sock[1] \in Clients
        BY <2>1 DEF WaitSpawn, TypeInv, InHand, Socks
      <4>2. QED
        BY <1>0, <1>4, <2>1, <4>1 DEF WaitSpawn, ThreadWait, StartedOnce, Held
    <3>2. \A c \in Clients : c = wait.sock[1] => exit[c] = "idle"
      BY <3>1 DEF Rebooting, Unstarted
    <3>3. QED
      BY <3>1, <3>2 DEF Rebooting
  <2>2. CASE WaitBindFails
    <3>1. exit' \in {exit, [exit EXCEPT !["wait"] = "check"]} /\ UNCHANGED <<cmd, quit>>
      BY <1>4, <2>2 DEF WaitBindFails, ThreadWait
    <3>2. /\ \A c \in Clients : exit'[c] = exit[c]
          /\ \A e \in Exiters : exit'[e] \in {exit[e], "check"}
      BY <1>0, <3>1
    <3>3. QED
      BY <1>2, <3>1, <3>2
  <2>3. CASE UNCHANGED <<exit, cmd>>
    BY <1>2, <1>4, <2>3 DEF ThreadWait
  <2>4. QED
    BY <1>4, <2>1, <2>2, <2>3 DEF ThreadWait, WaitNetInit, WaitCloseServer, WaitBind, WaitLoop,
       WaitAccept, WaitAcceptFails, WaitAdmit, WaitRefuse, WaitCrash, WaitSpawnFails, WaitExited
<1>5. ASSUME NEW c \in Clients, CmdThread(c) PROVE Rebooting'
  <2>1. UNCHANGED <<quit, exit>> /\ \A d \in Clients \ {c} : cmd'[d] = cmd[d]
    BY <1>5, CmdStep DEF CmdThread
  <2>2. SUFFICES ASSUME exit[c] # "idle"
                 PROVE  \/ cmd'[c].pc = "reboot"
                        \/ quit /\ cmd'[c].pc \in {"loop", "unready", "closemsg", "closecmd",
                                                   "empty", "done"}
    BY <2>1 DEF Rebooting
  <2>3. \/ cmd[c].pc = "reboot"
        \/ quit /\ cmd[c].pc \in {"loop", "unready", "closemsg", "closecmd", "empty", "done"}
    BY <2>2 DEF Rebooting
  <2>4. CASE CmdRebooted(c)
    BY <1>0, <2>4 DEF CmdRebooted, CmdGo, Rebooting
  <2>5. CASE CmdLoop(c) \/ CmdUnready(c)
    <3>1. cmd[c].pc \in {"loop", "unready"}
      BY <2>5 DEF CmdLoop, CmdUnready, CmdGo, CmdTake
    <3>2. quit
      BY <2>3, <3>1
    <3>3. cmd' \in {[cmd EXCEPT ![c].pc = "unready"], [cmd EXCEPT ![c].pc = "closemsg"]}
      BY <2>5, <3>2 DEF CmdLoop, CmdUnready, CmdGo
    <3>4. QED
      BY <1>0, <3>2, <3>3
  <2>6. CASE CmdCloseMsg(c) \/ CmdCloseCmd(c) \/ CmdEnd(c)
    BY <1>0, <2>3, <2>6 DEF CmdCloseMsg, CmdCloseCmd, CmdEnd, CmdGo
  <2>7. CASE CmdCrash(c)
    BY <2>3, <2>7 DEF CmdCrash
  <2>8. CASE CmdClear(c) \/ CmdSetMsg(c) \/ CmdAccept(c) \/ CmdAcceptFails(c) \/ CmdReady(c)
             \/ CmdServe(c) \/ CmdUploadEnds(c) \/ CmdUploadSpins(c) \/ CmdHangup(c)
    BY <2>3, <2>8 DEF CmdClear, CmdSetMsg, CmdAccept, CmdAcceptFails, CmdReady, CmdServe,
       CmdUploadEnds, CmdUploadSpins, CmdHangup, CmdGo, CmdTake
  <2>9. QED
    BY <1>5, <2>4, <2>5, <2>6, <2>7, <2>8 DEF CmdThread
<1>6. ASSUME NEW c \in Clients, Reboot(c) PROVE Rebooting'
  <2>1. /\ UNCHANGED quit /\ cmd'[c].pc = "reboot" /\ exit'[c] = "check"
        /\ \A d \in Clients \ {c} : cmd'[d] = cmd[d]
        /\ \A e \in Exiters \ {c} : exit'[e] = exit[e]
    BY <1>6, RebootStep
  <2>2. QED
    BY <1>0, <2>1 DEF Rebooting
<1>7. ASSUME NEW e \in Exiters, Psp2shellExit(e) PROVE Rebooting'
  <2>1. /\ UNCHANGED cmd /\ (quit => quit') /\ exit[e] # "idle"
        /\ \A f \in Exiters \ {e} : exit'[f] = exit[f]
        /\ exit'[e] \notin {"idle", "check", "set"} => quit'
    BY <1>0, <1>7 DEF Psp2shellExit, ExitCheck, ExitSet, ExitCloseClient, ExitJoin, ExitFree,
       ExitCloseServer, ExitJoinWait, ExitGo, Rebooting
  <2>2. \A f \in Exiters : exit'[f] \notin {"idle", "check", "set"} => quit'
    BY <2>1 DEF Rebooting
  <2>3. \A c \in Clients : exit'[c] # "idle" => exit[c] # "idle"
    BY <1>0, <2>1
  <2>4. QED
    BY <2>1, <2>2, <2>3 DEF Rebooting
<1>8. QED
  BY <1>1, <1>3, <1>4, <1>5, <1>6, <1>7 DEF Next

LEMMA JoinedStep ==
  ASSUME TypeInv, StartedOnce, OneThread, Joined, [Next]_vars
  PROVE  Joined'
<1>0. /\ exit \in [Exiters -> ExitPcs] /\ Rebooting'
      /\ client \in [freed : BOOLEAN, msg : Field, cmd : Field]
      /\ Clients \subseteq Exiters /\ "stop" \notin Clients /\ "wait" \notin Clients
  BY RebootingStep, ConstantsAssumption DEF Joined, TypeInv, TypeOK, ExitPcs, Exiters
<1>1. CASE UNCHANGED vars
  BY <1>0, <1>1 DEF Joined, JoinedBeforeFree, Alive, Rushed, vars, notes
\* No exit goes past its join, and nobody frees the s_client.
<1>2. ASSUME Next, client'.freed => client.freed, quit => quit',
             \A e \in Exiters : exit'[e] = "free" => exit[e] = "free",
             \A c \in Alive : exit[c] \in {"closesrv", "joinwait", "done"} =>
                              exit'[c] \in {"closesrv", "joinwait", "done"}
      PROVE  Joined'
  <2>1. CASE WaitSpawn
    <3>1. quit => Rushed'
      BY <2>1 DEF WaitSpawn, Note, Rushed
    <3>2. client.freed \/ (\E e \in Exiters : exit[e] = "free") => quit
      BY DEF Joined, Rebooting
    <3>3. QED
      BY <1>0, <1>2, <3>1, <3>2 DEF Joined, JoinedBeforeFree
  <2>2. CASE ~WaitSpawn
    <3>1. mishaps \subseteq mishaps' /\ Alive' \subseteq Alive
      BY <1>2, <2>2, MonotoneStep
    <3>2. QED
      BY <1>0, <1>2, <3>1 DEF Joined, JoinedBeforeFree, Rushed
  <2>3. QED
    BY <2>1, <2>2
<1>3. ASSUME Next, Outside PROVE Joined'
  <2>1. /\ \A e \in Exiters : exit'[e] = "free" => exit[e] = "free"
        /\ \A c \in Clients : exit'[c] = exit[c]
    BY <1>0, <1>3 DEF Outside, ConnectMsg, ConnectCmd, SendCmd, Leave, NetDrop, Stop
  <2>2. QED
    BY <1>2, <1>3, <2>1 DEF Outside, Alive
<1>4. ASSUME Next, ThreadWait PROVE Joined'
  <2>1. /\ \A e \in Exiters : exit'[e] = "free" => exit[e] = "free"
        /\ \A c \in Clients : exit'[c] = exit[c]
    <3>1. CASE WaitBindFails
      <4>1. exit' \in {exit, [exit EXCEPT !["wait"] = "check"]}
        BY <3>1 DEF WaitBindFails
      <4>2. QED
        BY <1>0, <4>1
    <3>2. CASE UNCHANGED exit
      BY <3>2
    <3>3. QED
      BY <1>4, <3>1, <3>2 DEF ThreadWait, WaitNetInit, WaitCloseServer, WaitBind, WaitLoop,
         WaitAccept, WaitAcceptFails, WaitAdmit, WaitRefuse, WaitCrash, WaitSpawn,
         WaitSpawnFails, WaitExited
  <2>2. QED
    BY <1>2, <1>4, <2>1 DEF ThreadWait, Alive
<1>5. ASSUME Next, NEW c \in Clients, CmdThread(c) PROVE Joined'
  <2>1. client'.freed = client.freed
    BY <1>0, <1>5 DEF CmdThread, CmdClear, CmdSetMsg, CmdAccept, CmdAcceptFails, CmdReady,
       CmdLoop, CmdServe, CmdRebooted, CmdUploadEnds, CmdUploadSpins, CmdHangup, CmdUnready,
       CmdCloseMsg, CmdCloseCmd, CmdEnd, CmdCrash
  <2>2. QED
    BY <1>2, <1>5, <2>1 DEF CmdThread
\* A thread that called psp2shell_exit before does not get here.
<1>6. ASSUME Next, NEW c \in Clients, Reboot(c) PROVE Joined'
  <2>1. /\ UNCHANGED <<client, quit>> /\ cmd[c].pc = "recv" /\ exit'[c] = "check"
        /\ \A e \in Exiters \ {c} : exit'[e] = exit[e]
    BY <1>6, RebootStep
  <2>2. exit[c] = "idle"
    BY <2>1 DEF Joined, Rebooting
  <2>3. QED
    BY <1>0, <1>2, <1>6, <2>1, <2>2 DEF Alive
<1>7. ASSUME Next, NEW e \in Exiters, Psp2shellExit(e) PROVE Joined'
  <2>0. /\ mishaps \subseteq mishaps' /\ (quit => quit') /\ UNCHANGED cmd
        /\ Alive' = Alive /\ Alive \subseteq Clients
    BY <1>7, MonotoneStep DEF Psp2shellExit, Alive
  <2>1. CASE ExitCheck(e) \/ ExitSet(e) \/ ExitCloseClient(e) \/ ExitCloseServer(e)
             \/ ExitJoinWait(e)
    <3>1. /\ \A f \in Exiters : exit'[f] = "free" => exit[f] = "free"
          /\ \A f \in Exiters : exit[f] \in {"closesrv", "joinwait", "done"} =>
                                exit'[f] \in {"closesrv", "joinwait", "done"}
      BY <1>0, <2>1 DEF ExitCheck, ExitSet, ExitCloseClient, ExitCloseServer, ExitJoinWait,
         ExitGo
    <3>2. client'.freed = client.freed
      BY <1>0, <2>1 DEF ExitCheck, ExitSet, ExitCloseClient, ExitCloseServer, ExitJoinWait
    <3>3. QED
      BY <1>0, <1>2, <1>7, <2>0, <3>1, <3>2
  <2>2. CASE ExitJoin(e)
    <3>1. Alive \subseteq {thid_client} => Alive \subseteq {e}
      BY <2>0, <2>2, ConstantsAssumption DEF ExitJoin, Alive
    <3>2. /\ exit[e] = "join" /\ UNCHANGED <<client, mishaps, quit>>
          /\ exit' = [exit EXCEPT ![e] = "free"]
      BY <2>2 DEF ExitJoin, ExitGo, notes
    <3>3. ~Rushed' => Alive' \subseteq {e}
      BY <2>0, <3>1, <3>2 DEF OneThread, Rushed
    <3>4. /\ \A f \in Exiters : f # e => exit'[f] = exit[f]
          /\ exit[e] \notin {"closesrv", "joinwait", "done"}
      BY <1>0, <3>2
    <3>5. \A f \in Exiters : exit'[f] = "free" /\ ~Rushed' => Alive' \subseteq {f}
      BY <2>0, <3>2, <3>3, <3>4 DEF Joined, Rushed
    <3>6. JoinedBeforeFree'
      BY <1>0, <2>0, <3>2, <3>4 DEF Joined, JoinedBeforeFree, Rushed
    <3>7. QED
      BY <1>0, <3>2, <3>5, <3>6 DEF Joined
  <2>3. CASE ExitFree(e)
    <3>1. /\ exit[e] = "free" /\ exit'[e] = "closesrv" /\ UNCHANGED quit
          /\ \A f \in Exiters : f # e => exit'[f] = exit[f]
      BY <1>0, <2>3 DEF ExitFree, ExitGo
    <3>2. quit
      BY <3>1 DEF Joined, Rebooting
    <3>3. ~Rushed' => Alive' \subseteq {e}
      BY <2>0, <3>1 DEF Joined, Rushed
    <3>4. JoinedBeforeFree'
      BY <3>1, <3>3 DEF JoinedBeforeFree
    <3>5. \A f \in Exiters : exit'[f] = "free" /\ ~Rushed' => Alive' \subseteq {f}
      BY <2>0, <3>1 DEF Joined, Rushed
    <3>6. QED
      BY <1>0, <3>1, <3>2, <3>4, <3>5 DEF Joined
  <2>4. QED
    BY <1>7, <2>1, <2>2, <2>3 DEF Psp2shellExit
<1>8. QED
  BY <1>1, <1>3, <1>4, <1>5, <1>6, <1>7 DEF Next

LEMMA JoinedInit == Init => OneThread /\ Joined
BY DEF Init, OneThread, Joined, Rebooting, JoinedBeforeFree, Alive, Exiters

\* psp2shell_exit frees the s_client (psp2shell_m/source/main.c:342) under no cmd_thread,
\* but the one that itself called psp2shell_exit to reboot (cmd.c:404) and whose wait for
\* itself is refused, unless one was started over another or after quit was set.
THEOREM JoinedCorrect == Spec => []JoinedBeforeFree
<1>1. TypeInv /\ StartedOnce /\ OneThread /\ Joined /\ [Next]_vars
        => StartedOnce' /\ OneThread' /\ Joined'
  BY StartedOnceStep, OneThreadStep, JoinedStep
<1>2. Joined => JoinedBeforeFree
  BY DEF Joined
<1>3. QED
  BY <1>1, <1>2, LogsInit, JoinedInit, TypeInvariant, PTL DEF Spec

-------------------------------------------------------------------------------
(* The sockets.                                                            *)

\* Before a cmd_thread fills the s_client's fields, and after it closed them, they hold no
\* socket; a socket in a starting thread's hand is not in them yet.  thread_wait has one
\* in hand only between accept and the start of a thread.
Empty(s) == s \notin Socks
Fields ==
  /\ \A c \in Clients :
       /\ cmd[c].pc \in {"clear", "setmsg"} => Empty(client.msg) /\ Empty(client.cmd)
       /\ cmd[c].pc = "accept" => Empty(client.cmd)
       /\ cmd[c].pc = "closecmd" => Empty(client.msg)
       /\ cmd[c].pc = "empty" => Empty(client.msg) /\ Empty(client.cmd)
  /\ Alive = {} => Empty(client.msg) /\ Empty(client.cmd)
  /\ wait.pc \notin {"slot", "spawn"} => wait.sock = NoSock

Carried == {cmd[c].sock : c \in {d \in Clients : cmd[d].pc \in {"clear", "setmsg"}}}

Owned ==
  ~quit /\ ~Rushed => Fields /\ open \subseteq {client.msg, client.cmd, wait.sock} \cup Carried

LEMMA NoSocks == Empty(NoSock) /\ Empty(ZeroSock)
BY ConstantsAssumption DEF Empty

\* While one cmd_thread is there, no other thread carries a socket.
LEMMA CarriedByOne ==
  ASSUME TypeInv, OneThread, ~Rushed, NEW c \in Alive
  PROVE  /\ \A d \in Clients : d # c => cmd[d].pc \in {"unborn", "done"}
         /\ Carried = IF cmd[c].pc \in {"clear", "setmsg"} THEN {cmd[c].sock} ELSE {}
<1>1. \A d \in Clients : d # c => cmd[d].pc \in {"unborn", "done"}
  BY DEF OneThread, Alive
<1>2. {d \in Clients : cmd[d].pc \in {"clear", "setmsg"}}
        = IF cmd[c].pc \in {"clear", "setmsg"} THEN {c} ELSE {}
  BY <1>1 DEF Alive
<1>3. QED
  BY <1>1, <1>2 DEF Carried

LEMMA OwnedCmd ==
  ASSUME TypeInv, OneThread, Owned, NEW c \in Clients, CmdThread(c), ~quit', ~Rushed',
         mishaps \subseteq mishaps'
  PROVE  Owned'
<1>1. ~quit /\ ~Rushed /\ UNCHANGED wait
  BY DEF CmdThread, Rushed
<1>2. Fields /\ open \subseteq {client.msg, client.cmd, wait.sock} \cup Carried
  BY <1>1 DEF Owned
<1>3. /\ c \in Alive /\ cmd'[c].pc # "unborn"
      /\ \A d \in Clients \ {c} : cmd'[d] = cmd[d]
  BY CmdStep DEF Alive
<1>4. /\ \A d \in Clients : d # c => cmd[d].pc \in {"unborn", "done"}
      /\ Carried = IF cmd[c].pc \in {"clear", "setmsg"} THEN {cmd[c].sock} ELSE {}
  BY <1>1, <1>3, CarriedByOne
<1>5. \A d \in Clients : d # c => cmd'[d].pc \in {"unborn", "done"}
  BY <1>3, <1>4
<1>6. /\ cmd'[c].pc \in {"clear", "setmsg"} => cmd'[c].sock \in Carried'
      /\ cmd'[c].pc # "done" => c \in Alive'
  BY <1>3 DEF Carried, Alive
<1>7. /\ cmd \in [Clients -> [pc : CmdPcs, sock : Field]] /\ open \subseteq Socks
      /\ client \in [freed : BOOLEAN, msg : Field, cmd : Field]
  BY DEF TypeInv, TypeOK, CmdPcs
<1>8. ASSUME /\ cmd'[c].pc \in {"clear", "setmsg"} => Empty(client.msg') /\ Empty(client.cmd')
             /\ cmd'[c].pc = "accept" => Empty(client.cmd')
             /\ cmd'[c].pc = "closecmd" => Empty(client.msg')
             /\ cmd'[c].pc \in {"empty", "done"} => Empty(client.msg') /\ Empty(client.cmd')
             /\ open' \subseteq {client.msg', client.cmd', wait.sock}
                  \cup IF cmd'[c].pc \in {"clear", "setmsg"} THEN {cmd'[c].sock} ELSE {}
      PROVE  Owned'
  <2>1. Fields'
    BY <1>1, <1>2, <1>5, <1>6, <1>8 DEF Fields, Alive
  <2>2. QED
    BY <1>1, <1>6, <1>8, <2>1 DEF Owned
<1>9. CASE CmdClear(c)
  BY <1>2, <1>4, <1>7, <1>8, <1>9, NoSocks DEF CmdClear, CmdGo, Fields, Empty
<1>10. CASE CmdSetMsg(c)
  BY <1>2, <1>4, <1>7, <1>8, <1>10 DEF CmdSetMsg, CmdTake, Fields, Empty
<1>11. CASE CmdAccept(c) \/ CmdAcceptFails(c)
  BY <1>2, <1>4, <1>7, <1>8, <1>11 DEF CmdAccept, CmdAcceptFails, CmdGo, Fields, Empty
<1>12. CASE CmdCloseMsg(c) \/ CmdCloseCmd(c)
  BY <1>2, <1>4, <1>7, <1>8, <1>12, NoSocks
  DEF CmdCloseMsg, CmdCloseCmd, CmdGo, Fields, Empty
<1>13. CASE CmdEnd(c) \/ CmdReady(c) \/ CmdUnready(c)
  BY <1>2, <1>4, <1>7, <1>8, <1>13 DEF CmdEnd, CmdReady, CmdUnready, CmdGo, Fields, Empty
<1>14. CASE CmdLoop(c) \/ CmdServe(c) \/ CmdRebooted(c) \/ CmdUploadEnds(c)
            \/ CmdUploadSpins(c) \/ CmdHangup(c)
  BY <1>1, <1>2, <1>4, <1>7, <1>8, <1>14
  DEF CmdLoop, CmdServe, CmdRebooted, CmdUploadEnds, CmdUploadSpins, CmdHangup, CmdGo, CmdTake
<1>15. CASE CmdCrash(c)
  BY <1>1, <1>2, <1>15 DEF CmdCrash, Owned, Fields, Carried, Alive
<1>16. QED
  BY <1>9, <1>10, <1>11, <1>12, <1>13, <1>14, <1>15 DEF CmdThread

LEMMA OwnedWait ==
  ASSUME TypeInv, StartedOnce, OneThread, Owned, ThreadWait, ~quit', ~Rushed',
         mishaps \subseteq mishaps'
  PROVE  Owned'
<1>1. ~quit /\ ~Rushed /\ UNCHANGED <<client, quit>>
  BY DEF ThreadWait, Rushed
<1>2. Fields /\ open \subseteq {client.msg, client.cmd, wait.sock} \cup Carried
  BY <1>1 DEF Owned
<1>3. /\ wait \in [pc : WaitPcs, sock : Field, first : BOOLEAN]
      /\ cmd \in [Clients -> [pc : CmdPcs, sock : Field]]
  BY DEF TypeInv, TypeOK, WaitPcs, CmdPcs
\* Only thread_wait's socket and the open ones change.
<1>4. ASSUME UNCHANGED cmd, wait'.pc \notin {"slot", "spawn"} => wait'.sock = NoSock,
             open' \subseteq {client.msg, client.cmd, wait'.sock} \cup Carried
      PROVE  Owned'
  BY <1>1, <1>2, <1>4 DEF Owned, Fields, Carried, Alive
<1>5. ASSUME UNCHANGED <<cmd, open>>, wait'.sock = wait.sock,
             wait.pc \in {"slot", "spawn"} => wait'.pc \in {"slot", "spawn"}
      PROVE  Owned'
  BY <1>2, <1>4, <1>5 DEF Fields
<1>6. CASE WaitNetInit \/ WaitCloseServer \/ WaitBind \/ WaitLoop \/ WaitAcceptFails
  BY <1>3, <1>5, <1>6
  DEF WaitNetInit, WaitCloseServer, WaitBind, WaitLoop, WaitAcceptFails, WaitGo
<1>7. CASE WaitBindFails \/ WaitAdmit \/ WaitCrash \/ WaitExited
  BY <1>3, <1>5, <1>7 DEF WaitBindFails, WaitAdmit, WaitCrash, WaitExited, WaitGo
<1>8. CASE WaitAccept
  <2>1. wait.sock = NoSock /\ wait'.pc = "slot" /\ open' = open \cup {wait'.sock}
    BY <1>1, <1>2, <1>3, <1>8 DEF WaitAccept, Fields
  <2>2. NoSock \notin open
    BY NoSocks DEF Empty, TypeInv, TypeOK
  <2>3. QED
    BY <1>2, <1>4, <1>8, <2>1, <2>2 DEF WaitAccept
<1>9. CASE WaitRefuse
  BY <1>2, <1>3, <1>4, <1>9 DEF WaitRefuse
<1>10. CASE WaitSpawn
  <2>1. /\ Alive = {} /\ Empty(client.msg) /\ Empty(client.cmd) /\ wait.pc = "spawn"
        /\ wait'.sock = NoSock /\ wait'.pc = "loop" /\ UNCHANGED open
        /\ cmd' = [cmd EXCEPT ![wait.sock[1]] = [pc |-> "clear", sock |-> wait.sock]]
    BY <1>1, <1>2, <1>3, <1>10 DEF WaitSpawn, OneThread, Fields
  <2>2. wait.sock[1] \in Clients
    BY <2>1 DEF TypeInv, InHand, Socks
  <2>3. /\ cmd'[wait.sock[1]] = [pc |-> "clear", sock |-> wait.sock]
        /\ \A c \in Clients : cmd'[c].pc \in {"unborn", "clear", "done"}
    BY <1>3, <2>1, <2>2 DEF Alive
  <2>4. wait.sock \in Carried' /\ Carried = {} /\ Alive' # {}
    BY <2>1, <2>2, <2>3 DEF Carried, Alive
  <2>5. Fields'
    BY <1>1, <2>1, <2>3, <2>4 DEF Fields
  <2>6. QED
    BY <1>1, <1>2, <2>1, <2>4, <2>5 DEF Owned
<1>11. CASE WaitSpawnFails
  BY <1>11 DEF WaitSpawnFails, Note, Rushed
<1>12. QED
  BY <1>6, <1>7, <1>8, <1>9, <1>10, <1>11 DEF ThreadWait

LEMMA OwnedStep ==
  ASSUME TypeInv, StartedOnce, OneThread, Joined, Owned, [Next]_vars
  PROVE  Owned'
<1>1. CASE UNCHANGED vars
  BY <1>1 DEF vars, notes, Owned, Fields, Carried, Alive, Rushed
<1>2. SUFFICES ASSUME Next, ~quit', ~Rushed', mishaps \subseteq mishaps', ~quit, ~Rushed
               PROVE  Owned'
  BY <1>1, MonotoneStep DEF Owned, Rushed
<1>3. CASE Outside
  BY <1>2, <1>3 DEF Outside, ConnectMsg, ConnectCmd, SendCmd, Leave, NetDrop, Stop,
     Owned, Fields, Carried, Alive
<1>4. CASE ThreadWait
  BY <1>2, <1>4, OwnedWait
<1>5. ASSUME NEW c \in Clients, CmdThread(c) PROVE Owned'
  BY <1>2, <1>5, OwnedCmd
<1>6. ASSUME NEW e \in Exiters, Psp2shellExit(e) PROVE Owned'
  <2>1. ~ExitCloseClient(e)
    <3>1. ExitCloseClient(e) => exit[e] = "close"
      BY DEF ExitCloseClient, ExitGo
    <3>2. QED
      BY <1>2, <3>1 DEF Joined, Rebooting
  <2>2. client'.msg = client.msg /\ client'.cmd = client.cmd /\ UNCHANGED open
    <3>1. client \in [freed : BOOLEAN, msg : Field, cmd : Field]
      BY DEF TypeInv, TypeOK
    <3>2. QED
      BY <1>6, <2>1, <3>1 DEF Psp2shellExit, ExitCheck, ExitSet, ExitJoin, ExitFree,
         ExitCloseServer, ExitJoinWait
  <2>3. QED
    BY <1>2, <1>6, <2>2 DEF Psp2shellExit, Owned, Fields, Carried, Alive
<1>7. ASSUME NEW c \in Clients, Reboot(c) PROVE Owned'
  <2>1. /\ UNCHANGED <<client, open, wait>> /\ Alive' = Alive /\ cmd[c].pc = "recv"
        /\ cmd'[c].pc = "reboot" /\ \A d \in Clients \ {c} : cmd'[d] = cmd[d]
    BY <1>7, RebootStep
  <2>2. Carried' = Carried
    BY <2>1 DEF Carried
  <2>3. Fields => Fields'
    BY <2>1 DEF Fields
  <2>4. QED
    BY <1>2, <2>1, <2>2, <2>3 DEF Owned
<1>8. QED
  BY <1>2, <1>3, <1>4, <1>5, <1>6, <1>7 DEF Next

LEMMA OwnedInit == Init => Owned
BY NoSocks DEF Init, Owned, Fields, Carried, Alive

\* While the module runs no accepted socket is forgotten (psp2shell_m/source/main.c:133, 145,
\* 171-176, 219-244), unless a cmd_thread was started over another or could not be created.
THEOREM SocketsCorrect == Spec => []SocketsOwned
<1>1. Owned => SocketsOwned
  BY DEF Owned, SocketsOwned, Carried
<1>2. TypeInv /\ StartedOnce /\ OneThread /\ Joined /\ Owned /\ [Next]_vars
        => StartedOnce' /\ OneThread' /\ Joined' /\ Owned'
  BY StartedOnceStep, OneThreadStep, JoinedStep, OwnedStep
<1>3. QED
  BY <1>1, <1>2, LogsInit, JoinedInit, OwnedInit, TypeInvariant, PTL DEF Spec

-------------------------------------------------------------------------------
(* An established session.                                                 *)

LEMMA StableStep ==
  ASSUME TypeInv, OneThread, Joined, Next, NEW c \in Clients,
         cmd[c].pc \in InSession, ~quit, ~quit', ~Rushed'
  PROVE  client'.cmd = client.cmd
<1>1. client \in [freed : BOOLEAN, msg : Field, cmd : Field]
  BY DEF TypeInv, TypeOK
<1>2. ~Rushed
  BY MonotoneStep DEF Rushed
<1>3. Alive = {c}
  BY <1>2 DEF OneThread, Alive, InSession
<1>4. CASE Outside \/ ThreadWait
  BY <1>4 DEF Outside, ThreadWait
<1>5. ASSUME NEW d \in Clients, CmdThread(d) PROVE client'.cmd = client.cmd
  <2>1. d = c
    BY <1>3, <1>5, CmdStep DEF Alive
  <2>2. UNCHANGED client
    BY <1>5, <2>1 DEF CmdThread, CmdClear, CmdSetMsg, CmdAccept, CmdAcceptFails, CmdReady,
       CmdLoop, CmdServe, CmdRebooted, CmdUploadEnds, CmdUploadSpins, CmdHangup, CmdUnready,
       CmdCloseMsg, CmdCloseCmd, CmdEnd, CmdCrash, CmdGo, CmdTake, InSession
  <2>3. QED
    BY <2>2
<1>6. ASSUME NEW e \in Exiters, Psp2shellExit(e) PROVE client'.cmd = client.cmd
  <2>1. ~ExitCloseClient(e)
    <3>1. ExitCloseClient(e) => exit[e] = "close"
      BY DEF ExitCloseClient, ExitGo
    <3>2. QED
      BY <3>1 DEF Joined, Rebooting
  <2>2. QED
    BY <1>1, <1>6, <2>1 DEF Psp2shellExit, ExitCheck, ExitSet, ExitJoin, ExitFree,
       ExitCloseServer, ExitJoinWait
<1>7. ASSUME NEW d \in Clients, Reboot(d) PROVE client'.cmd = client.cmd
  BY <1>7, RebootStep
<1>8. QED
  BY <1>4, <1>5, <1>6, <1>7 DEF Next

\* An established session keeps its command socket whatever other clients, the network and
\* thread_wait do (psp2shell_m/source/main.c:152-177, 231).
THEOREM StableCorrect == Spec => SessionStable
<1>1. TypeInv /\ OneThread /\ Joined /\ [Next]_vars
        => [\A c \in Clients :
              cmd[c].pc \in InSession /\ SlotTaken /\ ~quit /\ ~Rushed'
                => client'.cmd = client.cmd \/ quit']_vars
  BY StableStep
<1>2. TypeInv /\ StartedOnce /\ OneThread /\ Joined /\ [Next]_vars
        => StartedOnce' /\ OneThread' /\ Joined'
  BY StartedOnceStep, OneThreadStep, JoinedStep
<1>3. QED
  BY <1>1, <1>2, LogsInit, JoinedInit, TypeInvariant, PTL DEF Spec, SessionStable

-------------------------------------------------------------------------------
(* The two connections of a session.                                       *)

CmdQueue == port["cmd"].queue
Starting(c) == cmd[c].pc \in {"clear", "setmsg", "accept"}

\* A command connection is accepted once.
CmdOnce ==
  /\ \A i \in 1 .. Len(CmdQueue) : peer[CmdQueue[i]] \in {"full", "gone"}
  /\ \A i, j \in 1 .. Len(CmdQueue) : CmdQueue[i] = CmdQueue[j] => i = j
  /\ \A c \in Clients : client.cmd = <<c, "cmd">> =>
       /\ peer[c] \in {"full", "gone"}
       /\ \A i \in 1 .. Len(CmdQueue) : CmdQueue[i] # c

LEMMA TailFacts ==
  ASSUME NEW S, NEW q \in Seq(S), q # <<>>
  PROVE  /\ Tail(q) \in Seq(S) /\ Len(q) \in Nat /\ Len(q) > 0 /\ Len(Tail(q)) = Len(q) - 1
         /\ Head(q) = q[1] /\ Head(q) \in S
         /\ \A i \in 1 .. Len(Tail(q)) : i + 1 \in 2 .. Len(q) /\ Tail(q)[i] = q[i + 1]
BY HeadTailProperties, LenProperties

LEMMA AppendFacts ==
  ASSUME NEW S, NEW q \in Seq(S), NEW x \in S
  PROVE  /\ Append(q, x) \in Seq(S) /\ Len(q) \in Nat /\ Len(Append(q, x)) = Len(q) + 1
         /\ Append(q, x)[Len(q) + 1] = x
         /\ \A i \in 1 .. Len(q) : Append(q, x)[i] = q[i]
         /\ \A i \in 1 .. Len(Append(q, x)) : i = Len(q) + 1 \/ i \in 1 .. Len(q)
BY AppendProperties, LenProperties

LEMMA CmdQueueProperties ==
  ASSUME TypeInv
  PROVE  /\ CmdQueue \in Seq(Clients) /\ Len(CmdQueue) \in Nat
         /\ \A i \in 1 .. Len(CmdQueue) : CmdQueue[i] \in Clients
<1>1. CmdQueue \in Seq(Clients)
  BY DEF TypeInv, TypeOK, CmdQueue, Ports
<1>2. QED
  BY <1>1, LenProperties, ElementOfSeq

\* What the steps of the threads and of psp2shell_exit do to the command port's queue and
\* to client->cmd_sock.
LEMMA CmdSockStep ==
  ASSUME TypeInv, ThreadWait \/ (\E c \in Clients : CmdThread(c) /\ ~CmdAccept(c))
                  \/ (\E c \in Clients : Reboot(c)) \/ \E e \in Exiters : Psp2shellExit(e)
  PROVE  /\ UNCHANGED peer
         /\ CmdQueue' = CmdQueue \/ CmdQueue' = <<>>
         /\ \A c \in Clients : client'.cmd = <<c, "cmd">> => client.cmd = <<c, "cmd">>
<1>1. /\ client \in [freed : BOOLEAN, msg : Field, cmd : Field]
      /\ port \in [Ports -> [up : {"closed", "open", "dead"}, queue : Seq(Clients)]]
      /\ "msg" \in Ports /\ "cmd" \in Ports
  BY DEF TypeInv, TypeOK, Ports
<1>2. \A c \in Clients : NoSock # <<c, "cmd">> /\ ZeroSock # <<c, "cmd">>
  BY NoSocks DEF Empty, Socks, Ports
<1>3. ASSUME ThreadWait
      PROVE  UNCHANGED <<client, peer>> /\ (CmdQueue' = CmdQueue \/ CmdQueue' = <<>>)
  <2>0. UNCHANGED <<client, peer>>
    BY <1>3 DEF ThreadWait, outer
  <2>1. CASE WaitCloseServer
    BY <1>1, <2>0, <2>1 DEF WaitCloseServer, CmdQueue, Closed
  <2>2. CASE WaitBind \/ WaitAccept
    <3>1. port' \in {[port EXCEPT !["msg"].queue = Tail(@)], [port EXCEPT !["msg"].up = "open"],
                     [port EXCEPT !["cmd"].up = "open"]}
      BY <2>2 DEF WaitBind, WaitAccept
    <3>2. port'["cmd"].queue = port["cmd"].queue
      <4>1. CASE port' = [port EXCEPT !["msg"].queue = Tail(@)]
        BY <1>1, <4>1
      <4>2. CASE port' = [port EXCEPT !["msg"].up = "open"]
        BY <1>1, <4>2
      <4>3. CASE port' = [port EXCEPT !["cmd"].up = "open"]
        BY <1>1, <4>3
      <4>4. QED
        BY <3>1, <4>1, <4>2, <4>3
    <3>3. QED
      BY <2>0, <3>2 DEF CmdQueue
  <2>3. CASE UNCHANGED port
    BY <2>0, <2>3 DEF CmdQueue
  <2>4. QED
    BY <1>3, <2>1, <2>2, <2>3 DEF ThreadWait, WaitNetInit, WaitBindFails, WaitLoop,
       WaitAcceptFails, WaitAdmit, WaitRefuse, WaitCrash, WaitSpawn, WaitSpawnFails,
       WaitExited, outer
<1>4. ASSUME NEW c \in Clients, CmdThread(c), ~CmdAccept(c)
      PROVE  /\ UNCHANGED <<peer, port>>
             /\ \A d \in Clients : client'.cmd = <<d, "cmd">> => client.cmd = <<d, "cmd">>
  <2>1. CASE CmdClear(c) \/ CmdAcceptFails(c) \/ CmdCloseCmd(c)
    BY <1>1, <1>2, <1>4, <2>1 DEF CmdThread, CmdClear, CmdAcceptFails, CmdCloseCmd
  <2>2. CASE CmdSetMsg(c) \/ CmdCloseMsg(c)
    BY <1>1, <1>4, <2>2 DEF CmdThread, CmdSetMsg, CmdCloseMsg
  <2>3. CASE UNCHANGED <<client, port>>
    BY <1>4, <2>3 DEF CmdThread
  <2>4. QED
    BY <1>4, <2>1, <2>2, <2>3 DEF CmdThread, CmdReady, CmdLoop, CmdServe, CmdRebooted,
       CmdUploadEnds, CmdUploadSpins, CmdHangup, CmdUnready, CmdEnd, CmdCrash
<1>5. ASSUME NEW e \in Exiters, Psp2shellExit(e)
      PROVE  /\ UNCHANGED peer
             /\ CmdQueue' = CmdQueue \/ CmdQueue' = <<>>
             /\ \A d \in Clients : client'.cmd = <<d, "cmd">> => client.cmd = <<d, "cmd">>
  <2>1. UNCHANGED peer
    BY <1>5 DEF Psp2shellExit, outer
  <2>2. CmdQueue' = CmdQueue \/ CmdQueue' = <<>>
    BY <1>1, <1>5 DEF Psp2shellExit, ExitCheck, ExitSet, ExitCloseClient, ExitJoin, ExitFree,
       ExitCloseServer, ExitJoinWait, CmdQueue, Closed
  <2>3. \A d \in Clients : client'.cmd = <<d, "cmd">> => client.cmd = <<d, "cmd">>
    BY <1>1, <1>2, <1>5 DEF Psp2shellExit, ExitCheck, ExitSet, ExitCloseClient, ExitJoin,
       ExitFree, ExitCloseServer, ExitJoinWait
  <2>4. QED
    BY <2>1, <2>2, <2>3
<1>6. QED
  <2>1. UNCHANGED port => CmdQueue' = CmdQueue
    BY DEF CmdQueue
  <2>2. CASE ThreadWait
    BY <1>3, <2>2
  <2>3. CASE \E c \in Clients : CmdThread(c) /\ ~CmdAccept(c)
    BY <1>4, <2>1, <2>3
  <2>4. CASE \E e \in Exiters : Psp2shellExit(e)
    BY <1>5, <2>4
  <2>5. CASE \E c \in Clients : Reboot(c)
    BY <2>1, <2>5, RebootStep
  <2>6. QED
    BY <2>2, <2>3, <2>4, <2>5

LEMMA CmdOnceStep ==
  ASSUME TypeInv, CmdOnce, [Next]_vars
  PROVE  CmdOnce'
<1>0. /\ CmdQueue \in Seq(Clients) /\ Len(CmdQueue) \in Nat
      /\ \A i \in 1 .. Len(CmdQueue) : CmdQueue[i] \in Clients
  BY CmdQueueProperties
<1>1. ASSUME \A c \in Clients : peer[c] \in {"full", "gone"} => peer'[c] \in {"full", "gone"},
             CmdQueue' = CmdQueue \/ CmdQueue' = <<>>,
             \A c \in Clients : client'.cmd = <<c, "cmd">> => client.cmd = <<c, "cmd">>
      PROVE  CmdOnce'
  BY <1>0, <1>1, EmptyLen DEF CmdOnce
<1>2. CASE UNCHANGED vars
  BY <1>1, <1>2 DEF vars, outer, CmdQueue
<1>3. CASE Outside
  <2>1. peer \in [Clients -> {"new", "half", "full", "gone"}] /\ UNCHANGED client
    BY <1>3 DEF TypeInv, TypeOK, Outside
  <2>2. port \in [Ports -> [up : {"closed", "open", "dead"}, queue : Seq(Clients)]]
        /\ "msg" \in Ports /\ "cmd" \in Ports
    BY DEF TypeInv, TypeOK, Ports
  <2>3. ASSUME NEW c \in Clients, ConnectCmd(c) PROVE CmdOnce'
    <3>1. /\ CmdQueue' = Append(CmdQueue, c) /\ peer[c] = "half"
          /\ peer' = [peer EXCEPT ![c] = "full"]
      BY <2>2, <2>3 DEF ConnectCmd, CmdQueue
    <3>2. /\ Len(CmdQueue') = Len(CmdQueue) + 1 /\ CmdQueue'[Len(CmdQueue) + 1] = c
          /\ \A i \in 1 .. Len(CmdQueue) : CmdQueue'[i] = CmdQueue[i]
          /\ \A i \in 1 .. Len(CmdQueue') : i = Len(CmdQueue) + 1 \/ i \in 1 .. Len(CmdQueue)
      BY <1>0, <3>1, AppendFacts
    <3>3. \A i \in 1 .. Len(CmdQueue) : CmdQueue[i] # c
      BY <3>1 DEF CmdOnce
    <3>4. \A i \in 1 .. Len(CmdQueue') : peer'[CmdQueue'[i]] \in {"full", "gone"}
      BY <1>0, <2>1, <3>1, <3>2 DEF CmdOnce
    <3>5. \A i, j \in 1 .. Len(CmdQueue') : CmdQueue'[i] = CmdQueue'[j] => i = j
      BY <3>2, <3>3 DEF CmdOnce
    <3>6. ASSUME NEW d \in Clients, client'.cmd = <<d, "cmd">>
          PROVE  /\ peer'[d] \in {"full", "gone"}
                 /\ \A i \in 1 .. Len(CmdQueue') : CmdQueue'[i] # d
      <4>1. peer[d] \in {"full", "gone"} /\ \A i \in 1 .. Len(CmdQueue) : CmdQueue[i] # d
        BY <2>1, <3>6 DEF CmdOnce
      <4>2. QED
        BY <2>1, <3>1, <3>2, <4>1
    <3>7. QED
      BY <3>4, <3>5, <3>6 DEF CmdOnce
  <2>4. ASSUME NEW c \in Clients, ConnectMsg(c) \/ SendCmd(c) \/ Leave(c) PROVE CmdOnce'
    <3>1. \A d \in Clients : peer[d] \in {"full", "gone"} => peer'[d] \in {"full", "gone"}
      BY <2>1, <2>4 DEF ConnectMsg, SendCmd, Leave
    <3>2. CmdQueue' = CmdQueue
      BY <2>2, <2>4 DEF ConnectMsg, SendCmd, Leave, CmdQueue
    <3>3. QED
      BY <1>1, <2>1, <3>1, <3>2
  <2>5. CASE NetDrop
    BY <1>1, <2>1, <2>2, <2>5 DEF NetDrop, CmdQueue
  <2>6. CASE Stop
    BY <1>1, <2>1, <2>6 DEF Stop, CmdQueue, outer
  <2>7. QED
    BY <1>3, <2>3, <2>4, <2>5, <2>6 DEF Outside
<1>4. ASSUME NEW c \in Clients, CmdThread(c), CmdAccept(c) PROVE CmdOnce'
  <2>1. /\ CmdQueue # <<>> /\ CmdQueue' = Tail(CmdQueue)
        /\ client'.cmd = <<Head(CmdQueue), "cmd">> /\ UNCHANGED peer
    <3>1. port \in [Ports -> [up : {"closed", "open", "dead"}, queue : Seq(Clients)]]
          /\ client \in [freed : BOOLEAN, msg : Field, cmd : Field] /\ "cmd" \in Ports
      BY DEF TypeInv, TypeOK, Ports
    <3>2. QED
      BY <1>4, <3>1 DEF CmdAccept, CmdThread, CmdQueue
  <2>2. /\ Len(CmdQueue) > 0 /\ Head(CmdQueue) = CmdQueue[1]
        /\ \A i \in 1 .. Len(CmdQueue') :
             i + 1 \in 2 .. Len(CmdQueue) /\ CmdQueue'[i] = CmdQueue[i + 1]
    BY <1>0, <2>1, TailFacts
  <2>3. /\ 1 \in 1 .. Len(CmdQueue)
        /\ \A i \in 1 .. Len(CmdQueue') : i + 1 \in 1 .. Len(CmdQueue) /\ i + 1 # 1
    BY <1>0, <2>2
  <2>4. \A i, j \in 1 .. Len(CmdQueue') : CmdQueue'[i] = CmdQueue'[j] => i = j
    <3>1. SUFFICES ASSUME NEW i \in 1 .. Len(CmdQueue'), NEW j \in 1 .. Len(CmdQueue'),
                          CmdQueue[i + 1] = CmdQueue[j + 1]
                   PROVE  i = j
      BY <2>2
    <3>2. i + 1 = j + 1
      BY <2>3, <3>1 DEF CmdOnce
    <3>3. QED
      BY <3>2
  <2>5. \A i \in 1 .. Len(CmdQueue') : CmdQueue'[i] # CmdQueue[1]
    BY <2>2, <2>3 DEF CmdOnce
  <2>6. QED
    BY <2>1, <2>2, <2>3, <2>4, <2>5 DEF CmdOnce
<1>5. CASE \/ ThreadWait \/ (\E c \in Clients : CmdThread(c) /\ ~CmdAccept(c))
           \/ (\E c \in Clients : Reboot(c)) \/ \E e \in Exiters : Psp2shellExit(e)
  BY <1>1, <1>5, CmdSockStep
<1>6. QED
  BY <1>2, <1>3, <1>4, <1>5 DEF Next

\* The clients that wait for a session, in the order of their message connections.
Begun == IF \E c \in Clients : Starting(c) THEN <<thid_client>> ELSE <<>>
Taken == IF wait.pc \in {"slot", "spawn"} THEN <<wait.sock[1]>> ELSE <<>>
Line == (Begun \o Taken) \o Queue

\* The command connections not accepted yet are those of the first in the line, and the
\* others in it are all there are without one.
Lined ==
  /\ Len(CmdQueue) <= Len(Line)
  /\ \A i \in 1 .. Len(CmdQueue) : CmdQueue[i] = Line[i] /\ peer[Line[i]] = "full"
  /\ \A i \in Len(CmdQueue) + 1 .. Len(Line) : peer[Line[i]] = "half"
  /\ \A c \in Clients : peer[c] = "half" => \E i \in 1 .. Len(Line) : Line[i] = c

\* Once thread_wait has ended only the session that is starting counts.
First ==
  \A c \in Clients : Starting(c) =>
    \/ CmdQueue = <<>> /\ peer[c] = "half"
    \/ CmdQueue # <<>> /\ CmdQueue[1] = c

\* The ports are opened before the first client comes, and stay open.
Opened ==
  /\ wait.pc \in {"init", "close", "bindmsg", "bindcmd"} =>
       wait.first /\ Alive = {} /\ CmdQueue = <<>> /\ \A c \in Clients : peer[c] # "full"
  /\ wait.pc \in {"init", "close", "bindmsg"} =>
       port["msg"].up # "open" /\ Queue = <<>> /\ \A c \in Clients : peer[c] = "new"
  /\ wait.first => port["cmd"].up # "open"
  /\ wait.pc = "bindcmd" => port["msg"].up = "open"
  /\ wait.pc \in {"loop", "accept", "slot", "spawn"} \/ Alive # {} =>
       port["msg"].up = "open" /\ port["cmd"].up = "open"

\* The message socket of a session that starts.
Own ==
  /\ wait.pc \in {"slot", "spawn"} => wait.sock[2] = "msg"
  /\ \A c \in Clients :
       /\ cmd[c].pc \in {"clear", "setmsg"} => cmd[c].sock = <<c, "msg">>
       /\ cmd[c].pc \in {"setmsg", "accept"} => Empty(client.cmd)
       /\ cmd[c].pc = "accept" => Empty(client.msg) \/ client.msg = <<c, "msg">>

Pairing ==
  mishaps = {} =>
    /\ Paired
    /\ ~client.freed =>
         Opened /\ Own /\ IF wait.pc \in {"exit", "done"} THEN First ELSE Lined

\* Only a freed s_client leaves the ports to psp2shell_exit.
Freed == \A e \in Exiters : exit[e] \in {"closesrv", "joinwait"} => client.freed

LEMMA FreedStep ==
  ASSUME TypeInv, Freed, [Next]_vars
  PROVE  Freed'
<1>0. /\ exit \in [Exiters -> ExitPcs]
      /\ client \in [freed : BOOLEAN, msg : Field, cmd : Field]
  BY DEF TypeInv, TypeOK, ExitPcs
<1>1. ASSUME client.freed => client'.freed,
             \A e \in Exiters : exit'[e] \in {"closesrv", "joinwait"} =>
               exit[e] \in {"closesrv", "joinwait"} \/ client'.freed
      PROVE  Freed'
  BY <1>1 DEF Freed
<1>2. CASE Outside
  BY <1>0, <1>1, <1>2 DEF Outside, ConnectMsg, ConnectCmd, SendCmd, Leave, NetDrop, Stop
<1>3. CASE ThreadWait
  <2>1. CASE WaitBindFails
    BY <1>0, <1>1, <1>3, <2>1 DEF ThreadWait, WaitBindFails
  <2>2. CASE UNCHANGED exit
    BY <1>1, <1>3, <2>2 DEF ThreadWait
  <2>3. QED
    BY <1>3, <2>1, <2>2 DEF ThreadWait, WaitNetInit, WaitCloseServer, WaitBind, WaitLoop,
       WaitAccept, WaitAcceptFails, WaitAdmit, WaitRefuse, WaitCrash, WaitSpawn,
       WaitSpawnFails, WaitExited
<1>4. ASSUME NEW c \in Clients, CmdThread(c) PROVE Freed'
  <2>1. client'.freed = client.freed
    BY <1>0, <1>4 DEF CmdThread, CmdClear, CmdSetMsg, CmdAccept, CmdAcceptFails, CmdReady,
       CmdLoop, CmdServe, CmdRebooted, CmdUploadEnds, CmdUploadSpins, CmdHangup, CmdUnready,
       CmdCloseMsg, CmdCloseCmd, CmdEnd, CmdCrash
  <2>2. QED
    BY <1>1, <1>4, <2>1 DEF CmdThread
<1>5. ASSUME NEW e \in Exiters, Psp2shellExit(e) PROVE Freed'
  <2>1. client.freed => client'.freed
    BY <1>0, <1>5 DEF Psp2shellExit, ExitCheck, ExitSet, ExitCloseClient, ExitJoin, ExitFree,
       ExitCloseServer, ExitJoinWait
  <2>2. \A f \in Exiters : exit'[f] \in {"closesrv", "joinwait"} =>
          exit[f] \in {"closesrv", "joinwait"} \/ client'.freed
    BY <1>0, <1>5 DEF Psp2shellExit, ExitCheck, ExitSet, ExitCloseClient, ExitJoin, ExitFree,
       ExitCloseServer, ExitJoinWait, ExitGo
  <2>3. QED
    BY <1>1, <2>1, <2>2
<1>6. CASE UNCHANGED vars
  BY <1>1, <1>6 DEF vars
<1>7. ASSUME NEW c \in Clients, Reboot(c) PROVE Freed'
  BY <1>1, <1>7, RebootStep
<1>8. QED
  BY <1>2, <1>3, <1>4, <1>5, <1>6, <1>7 DEF Next

\* What the line is made of, and that nobody stands in it twice.
LEMMA AppendConcat ==
  ASSUME NEW S, NEW s \in Seq(S), NEW t \in Seq(S), NEW x \in S
  PROVE  s \o Append(t, x) = Append(s \o t, x)
<1>1. /\ <<x>> \in Seq(S) /\ s \o t \in Seq(S) /\ Append(t, x) = t \o <<x>>
      /\ Append(s \o t, x) = (s \o t) \o <<x>>
  BY AppendIsConcat, ConcatProperties
<1>2. QED
  BY <1>1, ConcatAssociative

LEMMA FirstOut ==
  ASSUME NEW S, NEW x \in S, NEW s \in Seq(S), NEW t \in Seq(S)
  PROVE  /\ (<<x>> \o s) \o t # <<>> /\ ((<<x>> \o s) \o t)[1] = x
         /\ (<<>> \o s) \o t = Tail((<<x>> \o s) \o t)
<1>1. <<x>> \in Seq(S) /\ Len(<<x>>) = 1 /\ <<x>>[1] = x
  OBVIOUS
<1>2. (<<x>> \o s) \o t = <<x>> \o (s \o t) /\ s \o t \in Seq(S) /\ <<>> \o s = s
  BY <1>1, ConcatAssociative, ConcatProperties, ConcatEmptySeq
<1>3. ASSUME NEW u \in Seq(S)
      PROVE  <<x>> \o u # <<>> /\ (<<x>> \o u)[1] = x /\ u = Tail(<<x>> \o u)
  <2>1. /\ <<x>> \o u \in Seq(S) /\ Len(<<x>> \o u) = 1 + Len(u) /\ Len(u) \in Nat
        /\ \A i \in 1 .. 1 + Len(u) : (<<x>> \o u)[i] = IF i <= 1 THEN x ELSE u[i - 1]
    BY <1>1, ConcatProperties, LenProperties
  <2>2. <<x>> \o u # <<>> /\ (<<x>> \o u)[1] = x
    BY <2>1, EmptyLen
  <2>3. /\ Tail(<<x>> \o u) \in Seq(S) /\ Len(Tail(<<x>> \o u)) = Len(u)
        /\ \A i \in 1 .. Len(u) : Tail(<<x>> \o u)[i] = (<<x>> \o u)[i + 1]
    BY <2>1, <2>2, TailFacts
  <2>4. \A i \in 1 .. Len(u) : Tail(<<x>> \o u)[i] = u[i]
    <3>1. \A i \in 1 .. Len(u) : i + 1 \in 1 .. 1 + Len(u) /\ ~(i + 1 <= 1) /\ i + 1 - 1 = i
      BY <2>1
    <3>2. QED
      BY <2>1, <2>3, <3>1
  <2>5. QED
    BY <2>2, <2>3, <2>4, SeqEqual
<1>4. QED
  BY <1>2, <1>3

LEMMA HeadBack ==
  ASSUME NEW S, NEW s \in Seq(S), NEW q \in Seq(S), q # <<>>
  PROVE  (s \o <<>>) \o q = (s \o <<Head(q)>>) \o Tail(q)
<1>1. /\ Head(q) \in S /\ Tail(q) \in Seq(S) /\ <<Head(q)>> \in Seq(S)
      /\ Len(<<Head(q)>>) = 1 /\ <<Head(q)>>[1] = Head(q)
  BY TailFacts
<1>2. <<Head(q)>> \o Tail(q) = q
  <2>1. /\ <<Head(q)>> \o Tail(q) \in Seq(S)
        /\ Len(<<Head(q)>> \o Tail(q)) = 1 + Len(Tail(q))
        /\ \A i \in 1 .. 1 + Len(Tail(q)) :
             (<<Head(q)>> \o Tail(q))[i] = IF i <= 1 THEN <<Head(q)>>[i] ELSE Tail(q)[i - 1]
    BY <1>1, ConcatProperties
  <2>2. /\ Len(q) \in Nat /\ Len(Tail(q)) = Len(q) - 1 /\ Head(q) = q[1] /\ Len(q) > 0
        /\ \A i \in 1 .. Len(Tail(q)) : Tail(q)[i] = q[i + 1]
    BY TailFacts
  <2>3. \A i \in 1 .. Len(q) : i = 1 \/ (~(i <= 1) /\ i - 1 \in 1 .. Len(q) - 1 /\ i - 1 + 1 = i)
    BY <2>2
  <2>4. \A i \in 1 .. Len(q) : (<<Head(q)>> \o Tail(q))[i] = q[i]
    BY <1>1, <2>1, <2>2, <2>3
  <2>5. QED
    BY <2>1, <2>2, <2>4, SeqEqual
<1>3. QED
  BY <1>1, <1>2, ConcatAssociative, ConcatEmptySeq

LEMMA LineParts ==
  ASSUME TypeInv, OneThread, ~Rushed
  PROVE  /\ Begun \in Seq(Clients) /\ Taken \in Seq(Clients) /\ Queue \in Seq(Clients)
         /\ Line \in Seq(Clients) /\ Len(Line) \in Nat
         /\ \A c \in Clients : Starting(c) => c = thid_client
         /\ (\E c \in Clients : Starting(c)) => Begun = <<thid_client>> /\ thid_client \in Clients
         /\ wait.pc \in {"slot", "spawn"} => wait.sock \in Socks /\ wait.sock[1] \in Clients
<1>1. \A c \in Clients : Starting(c) => c = thid_client
  BY DEF OneThread, Alive, Starting
<1>2. wait.pc \in {"slot", "spawn"} => wait.sock \in Socks /\ wait.sock[1] \in Clients
  BY DEF TypeInv, InHand, Socks
<1>3. /\ Begun \in Seq(Clients) /\ Taken \in Seq(Clients) /\ Queue \in Seq(Clients)
      /\ (\E c \in Clients : Starting(c)) => Begun = <<thid_client>> /\ thid_client \in Clients
  BY <1>1, <1>2, EmptySeq, QueueProperties DEF Begun, Taken
<1>4. Line \in Seq(Clients)
  BY <1>3, ConcatProperties DEF Line
<1>5. QED
  BY <1>1, <1>2, <1>3, <1>4, LenProperties

\* Nobody stands in the line twice: the session that starts, the client in hand and those in
\* the queue are different.
LEMMA LineDistinct ==
  ASSUME TypeInv, StartedOnce, OneThread, ~Rushed
  PROVE  \A i, j \in 1 .. Len(Line) : Line[i] = Line[j] => i = j
<1> DEFINE b == Len(Begun)
           t == Len(Taken)
<1>1. /\ Begun \in Seq(Clients) /\ Taken \in Seq(Clients) /\ Queue \in Seq(Clients)
      /\ Len(Queue) \in Nat
  BY LineParts, QueueProperties
<1>2. /\ b \in {0, 1} /\ t \in {0, 1}
      /\ b = 1 => Starting(Begun[1])
      /\ t = 1 => Held(Taken[1]) /\ Taken[1] \in Clients
  <2>1. Len(<<thid_client>>) = 1 /\ Len(<<wait.sock[1]>>) = 1 /\ <<thid_client>>[1] = thid_client
        /\ <<wait.sock[1]>>[1] = wait.sock[1]
    OBVIOUS
  <2>2. (\E c \in Clients : Starting(c)) => Starting(thid_client)
    BY LineParts
  <2>3. QED
    BY <2>1, <2>2, EmptyLen, LineParts DEF Begun, Taken, Held
<1>3. Len(Line) = b + t + Len(Queue)
  BY <1>1, ConcatProperties DEF Line
<1>4. \A i \in 1 .. Len(Line) :
        Line[i] = IF i <= b + t THEN IF i <= b THEN Begun[i] ELSE Taken[i - b]
                  ELSE Queue[i - (b + t)]
  <2>1. /\ Begun \o Taken \in Seq(Clients) /\ Len(Begun \o Taken) = b + t
        /\ \A i \in 1 .. b + t : (Begun \o Taken)[i] = IF i <= b THEN Begun[i] ELSE Taken[i - b]
    BY <1>1, ConcatProperties
  <2>2. \A i \in 1 .. b + t + Len(Queue) :
          Line[i] = IF i <= b + t THEN (Begun \o Taken)[i] ELSE Queue[i - (b + t)]
    BY <1>1, <2>1, ConcatProperties DEF Line
  <2>3. \A i \in 1 .. b + t + Len(Queue) : i <= b + t => i \in 1 .. b + t
    BY <1>1, <1>2
  <2>4. QED
    BY <1>3, <2>1, <2>2, <2>3
<1> HIDE DEF b, t
<1>5. \A i \in 1 .. Len(Line) :
        \/ b = 1 /\ i = 1 /\ Starting(Line[i])
        \/ t = 1 /\ i = b + 1 /\ Held(Line[i]) /\ Line[i] \in Clients
        \/ i - (b + t) \in 1 .. Len(Queue) /\ Line[i] = Queue[i - (b + t)]
  <2>1. SUFFICES ASSUME NEW i \in 1 .. Len(Line)
                 PROVE  \/ b = 1 /\ i = 1 /\ Starting(Line[i])
                        \/ t = 1 /\ i = b + 1 /\ Held(Line[i]) /\ Line[i] \in Clients
                        \/ i - (b + t) \in 1 .. Len(Queue) /\ Line[i] = Queue[i - (b + t)]
    OBVIOUS
  <2>0. i \in Nat /\ i > 0 /\ b \in {0, 1} /\ t \in {0, 1}
    BY <1>2, LineParts
  <2>2. CASE i <= b
    <3>1. b = 1 /\ i = 1 /\ i <= b + t
      BY <2>0, <2>2
    <3>2. QED
      BY <1>2, <1>4, <2>2, <3>1
  <2>3. CASE ~(i <= b) /\ i <= b + t
    <3>1. t = 1 /\ i = b + 1 /\ i - b = 1
      BY <2>0, <2>3
    <3>2. QED
      BY <1>2, <1>4, <2>3, <3>1
  <2>4. CASE ~(i <= b + t)
    <3>1. i - (b + t) \in 1 .. Len(Queue)
      BY <1>1, <1>2, <1>3, <2>4
    <3>2. QED
      BY <1>4, <2>4, <3>1
  <2>5. QED
    BY <1>2, <2>2, <2>3, <2>4
\* The three kinds exclude one another.
<1>6. \A c \in Clients : ~(Starting(c) /\ Held(c)) /\ ~(Starting(c) /\ Unstarted(c))
  BY DEF StartedOnce, Starting, Unstarted
<1>7. \A k \in 1 .. Len(Queue) :
        Queue[k] \in Clients /\ Unstarted(Queue[k]) /\ ~Held(Queue[k])
  BY QueueProperties DEF StartedOnce
<1>8. QED
  <2>1. SUFFICES ASSUME NEW i \in 1 .. Len(Line), NEW j \in 1 .. Len(Line), Line[i] = Line[j]
                 PROVE  i = j
    OBVIOUS
  <2>2. CASE i - (b + t) \in 1 .. Len(Queue) /\ Line[i] = Queue[i - (b + t)]
    <3>1. j - (b + t) \in 1 .. Len(Queue) /\ Line[j] = Queue[j - (b + t)]
      BY <1>5, <1>6, <1>7, <2>1, <2>2
    <3>2. i - (b + t) = j - (b + t)
      BY <2>1, <2>2, <3>1 DEF StartedOnce
    <3>3. QED
      BY <1>2, <3>2
  <2>3. CASE j - (b + t) \in 1 .. Len(Queue) /\ Line[j] = Queue[j - (b + t)]
    <3>1. i - (b + t) \in 1 .. Len(Queue) /\ Line[i] = Queue[i - (b + t)]
      BY <1>5, <1>6, <1>7, <2>1, <2>3
    <3>2. QED
      BY <2>2, <3>1
  <2>4. CASE t = 1 /\ i = b + 1 /\ Held(Line[i]) /\ Line[i] \in Clients
    BY <1>5, <1>6, <2>1, <2>3, <2>4
  <2>5. CASE b = 1 /\ i = 1 /\ Starting(Line[i])
    BY <1>5, <1>6, <2>1, <2>3, <2>5
  <2>6. QED
    BY <1>5, <2>2, <2>4, <2>5
LEMMA LinedFirst ==
  ASSUME TypeInv, OneThread, ~Rushed, Lined
  PROVE  First
<1>1. SUFFICES ASSUME NEW c \in Clients, Starting(c)
               PROVE  \/ CmdQueue = <<>> /\ peer[c] = "half"
                      \/ CmdQueue # <<>> /\ CmdQueue[1] = c
  BY DEF First
<1>2. Begun = <<c>> /\ c \in Clients /\ Taken \in Seq(Clients) /\ Queue \in Seq(Clients)
  BY <1>1, LineParts
<1>3. Line # <<>> /\ Line[1] = c /\ Line \in Seq(Clients)
  BY <1>2, FirstOut, LineParts DEF Line
<1>4. Len(Line) \in Nat /\ Len(Line) > 0
  BY <1>3, EmptySeq
<1>5. CASE CmdQueue = <<>>
  <2>1. 1 \in Len(CmdQueue) + 1 .. Len(Line)
    BY <1>4, <1>5, EmptyLen
  <2>2. QED
    BY <1>3, <1>5, <2>1 DEF Lined
<1>6. CASE CmdQueue # <<>>
  <2>1. 1 \in 1 .. Len(CmdQueue)
    BY <1>6, CmdQueueProperties, EmptySeq
  <2>2. QED
    BY <1>3, <1>6, <2>1 DEF Lined
<1>7. QED
  BY <1>5, <1>6

\* What the proof of Pairing rests on.
Base == TypeInv /\ StartedOnce /\ OneThread /\ Joined /\ CmdOnce /\ Freed

LEMMA PairOutside ==
  ASSUME Base, Pairing, Outside, mishaps = {}, mishaps' = {}
  PROVE  Pairing'
<1>0. /\ UNCHANGED <<client, wait, cmd, thid_client>> /\ ~Rushed
      /\ peer \in [Clients -> {"new", "half", "full", "gone"}]
      /\ port \in [Ports -> [up : {"closed", "open", "dead"}, queue : Seq(Clients)]]
      /\ "msg" \in Ports /\ "cmd" \in Ports
  BY DEF Base, TypeInv, TypeOK, Outside, Rushed, Ports
<1>1. UNCHANGED <<Alive, Begun, Taken>> /\ \A c \in Clients : Starting(c)' = Starting(c)
  BY <1>0 DEF Alive, Begun, Taken, Starting
<1>2. Paired' /\ (~client.freed => Opened /\ Own)
      /\ (~client.freed => IF wait.pc \in {"exit", "done"} THEN First ELSE Lined)
  BY <1>0 DEF Pairing, Paired
<1>3. SUFFICES ASSUME ~client.freed
               PROVE  Opened' /\ IF wait.pc \in {"exit", "done"} THEN First' ELSE Lined'
  BY <1>0, <1>2 DEF Pairing, Own
<1>4. /\ CmdQueue \in Seq(Clients) /\ Len(CmdQueue) \in Nat
      /\ \A i \in 1 .. Len(CmdQueue) : CmdQueue[i] \in Clients
      /\ Line \in Seq(Clients) /\ Len(Line) \in Nat
      /\ \A i \in 1 .. Len(Line) : Line[i] \in Clients
  BY <1>0, CmdQueueProperties, LineParts, ElementOfSeq DEF Base
<1>5. ASSUME NEW c \in Clients, ConnectMsg(c)
      PROVE  Opened' /\ IF wait.pc \in {"exit", "done"} THEN First' ELSE Lined'
  <2>1. /\ peer[c] = "new" /\ port["msg"].up = "open" /\ peer' = [peer EXCEPT ![c] = "half"]
        /\ Queue' = Append(Queue, c) /\ CmdQueue' = CmdQueue
        /\ port'["msg"].up = port["msg"].up /\ port'["cmd"].up = port["cmd"].up
    BY <1>0, <1>5 DEF ConnectMsg, Queue, CmdQueue
  <2>2. Opened'
    BY <1>0, <1>1, <1>2, <1>3, <2>1 DEF Opened
  <2>3. CASE wait.pc \in {"exit", "done"}
    BY <1>0, <1>1, <1>2, <1>3, <2>1, <2>2, <2>3 DEF First
  <2>4. CASE wait.pc \notin {"exit", "done"}
    <3>1. Line' = Append(Line, c)
      <4>1. /\ Begun \in Seq(Clients) /\ Taken \in Seq(Clients) /\ Queue \in Seq(Clients)
        BY <1>0, LineParts DEF Base
      <4>2. Begun \o Taken \in Seq(Clients)
        BY <4>1, ConcatProperties
      <4>3. QED
        BY <1>1, <2>1, <4>1, <4>2, AppendConcat DEF Line
    <3>2. /\ Len(Line') = Len(Line) + 1 /\ Line'[Len(Line) + 1] = c
          /\ \A i \in 1 .. Len(Line) : Line'[i] = Line[i]
      BY <1>4, <3>1, AppendFacts
    <3>3. Lined
      BY <1>2, <1>3, <2>4
    <3>4. \A i \in 1 .. Len(Line) : Line[i] # c
      <4>1. \A i \in 1 .. Len(Line) :
              i \in 1 .. Len(CmdQueue) \/ i \in Len(CmdQueue) + 1 .. Len(Line)
        BY <1>4
      <4>2. QED
        BY <2>1, <3>3, <4>1 DEF Lined
    <3>10. peer'[c] = "half" /\ \A d \in Clients : d # c => peer'[d] = peer[d]
      BY <1>0, <2>1
    <3>11. /\ \A i \in 1 .. Len(CmdQueue) : CmdQueue[i] = Line[i] /\ peer[Line[i]] = "full"
           /\ \A i \in Len(CmdQueue) + 1 .. Len(Line) : peer[Line[i]] = "half"
           /\ \A d \in Clients : peer[d] = "half" => \E i \in 1 .. Len(Line) : Line[i] = d
      BY <3>3 DEF Lined
    <3>5. Len(CmdQueue') <= Len(Line')
      BY <1>4, <2>1, <3>2, <3>3 DEF Lined
    <3>6. \A i \in 1 .. Len(CmdQueue') : CmdQueue'[i] = Line'[i] /\ peer'[Line'[i]] = "full"
      <4>1. \A i \in 1 .. Len(CmdQueue) : i \in 1 .. Len(Line)
        BY <1>4, <3>3 DEF Lined
      <4>2. QED
        BY <1>4, <2>1, <3>2, <3>10, <3>11, <3>4, <4>1
    <3>7. \A i \in Len(CmdQueue') + 1 .. Len(Line') : peer'[Line'[i]] = "half"
      <4>1. \A i \in Len(CmdQueue) + 1 .. Len(Line') :
              \/ i = Len(Line) + 1
              \/ i \in Len(CmdQueue) + 1 .. Len(Line) /\ i \in 1 .. Len(Line)
        BY <1>4, <3>2
      <4>2. QED
        BY <1>4, <2>1, <3>2, <3>10, <3>11, <3>4, <4>1
    <3>8. \A d \in Clients : peer'[d] = "half" => \E i \in 1 .. Len(Line') : Line'[i] = d
      <4>1. Len(Line) + 1 \in 1 .. Len(Line') /\ \A i \in 1 .. Len(Line) : i \in 1 .. Len(Line')
        BY <1>4, <3>2
      <4>2. QED
        BY <2>1, <3>2, <3>10, <3>11, <4>1
    <3>9. QED
      BY <2>2, <2>4, <3>5, <3>6, <3>7, <3>8 DEF Lined
  <2>5. QED
    BY <2>3, <2>4
<1>6. ASSUME NEW c \in Clients, ConnectCmd(c)
      PROVE  Opened' /\ IF wait.pc \in {"exit", "done"} THEN First' ELSE Lined'
  <2>1. /\ peer[c] = "half" /\ port["cmd"].up = "open" /\ peer' = [peer EXCEPT ![c] = "full"]
        /\ Queue' = Queue /\ CmdQueue' = Append(CmdQueue, c)
        /\ port'["msg"].up = port["msg"].up /\ port'["cmd"].up = port["cmd"].up
    BY <1>0, <1>6 DEF ConnectCmd, Queue, CmdQueue
  <2>2. \A d \in Clients \ {c} : peer[d] # "half"
    BY <1>6 DEF ConnectCmd, Note
  <2>3. Opened'
    BY <1>0, <1>1, <1>2, <1>3, <2>1 DEF Opened
  <2>4. /\ Len(CmdQueue') = Len(CmdQueue) + 1 /\ CmdQueue'[Len(CmdQueue) + 1] = c
        /\ \A i \in 1 .. Len(CmdQueue) : CmdQueue'[i] = CmdQueue[i]
        /\ \A i \in 1 .. Len(CmdQueue') : i = Len(CmdQueue) + 1 \/ i \in 1 .. Len(CmdQueue)
    BY <1>4, <2>1, AppendFacts
  <2>5. CASE wait.pc \in {"exit", "done"}
    <3>1. SUFFICES ASSUME NEW d \in Clients, Starting(d)
                   PROVE  CmdQueue' # <<>> /\ CmdQueue'[1] = d
      BY <1>1, <2>3, <2>5 DEF First
    <3>2. CmdQueue' # <<>>
      BY <1>4, <2>4, EmptyLen
    <3>3. CASE CmdQueue = <<>> /\ peer[d] = "half"
      BY <2>2, <2>4, <3>2, <3>3, EmptyLen
    <3>4. CASE CmdQueue # <<>> /\ CmdQueue[1] = d
      <4>1. 1 \in 1 .. Len(CmdQueue)
        BY <1>4, <3>4, EmptySeq
      <4>2. QED
        BY <2>4, <3>2, <3>4, <4>1
    <3>5. QED
      BY <1>2, <1>3, <2>5, <3>1, <3>3, <3>4 DEF First
  <2>6. CASE wait.pc \notin {"exit", "done"}
    <3>1. Lined /\ Line' = Line
      BY <1>1, <1>2, <1>3, <2>1, <2>6 DEF Line
    <3>2. PICK k \in 1 .. Len(Line) : Line[k] = c
      BY <2>1, <3>1 DEF Lined
    <3>3. \A i \in Len(CmdQueue) + 1 .. Len(Line) : i = k
      <4>1. \A i \in Len(CmdQueue) + 1 .. Len(Line) : i \in 1 .. Len(Line)
        BY <1>4
      <4>2. \A i \in Len(CmdQueue) + 1 .. Len(Line) : Line[i] = c
        BY <1>4, <2>2, <3>1, <4>1 DEF Lined
      <4>3. \A i, j \in 1 .. Len(Line) : Line[i] = Line[j] => i = j
        BY <1>0, LineDistinct DEF Base
      <4>4. QED
        BY <3>2, <4>1, <4>2, <4>3
    <3>4. k \notin 1 .. Len(CmdQueue)
      BY <2>1, <3>1, <3>2 DEF Lined
    <3>5. Len(Line) = Len(CmdQueue) + 1 /\ k = Len(CmdQueue) + 1
      <4>1. Len(CmdQueue) <= Len(Line)
        BY <3>1 DEF Lined
      <4>2. k \in Len(CmdQueue) + 1 .. Len(Line)
        BY <1>4, <3>2, <3>4
      <4>3. Len(Line) \in Len(CmdQueue) + 1 .. Len(Line)
            /\ Len(CmdQueue) + 1 \in Len(CmdQueue) + 1 .. Len(Line)
        BY <1>4, <4>2
      <4>4. QED
        BY <3>3, <4>3
    <3>6. \A i \in 1 .. Len(CmdQueue') : CmdQueue'[i] = Line'[i] /\ peer'[Line'[i]] = "full"
      <4>1. \A i \in 1 .. Len(CmdQueue) : i \in 1 .. Len(Line)
        BY <1>4, <3>5
      <4>2. QED
        BY <1>0, <1>4, <2>1, <2>4, <3>1, <3>2, <3>5, <4>1 DEF Lined
    <3>7. Len(CmdQueue') = Len(Line') /\ Len(CmdQueue') + 1 .. Len(Line') = {}
      BY <1>4, <2>4, <3>1, <3>5
    <3>8. \A d \in Clients : peer'[d] # "half"
      BY <1>0, <2>1, <2>2
    <3>9. QED
      BY <1>4, <2>3, <2>4, <2>6, <3>6, <3>7, <3>8 DEF Lined
  <2>7. QED
    BY <2>5, <2>6
\* Nobody in the line, and no session that starts, is touched.
<1>7. ASSUME UNCHANGED port, \A c \in Clients : peer'[c] # peer[c] => peer'[c] = "gone",
             \A c \in Clients : peer'[c] # peer[c] =>
               peer[c] = "full" /\ \A i \in 1 .. Len(CmdQueue) : CmdQueue[i] # c
      PROVE  Opened' /\ IF wait.pc \in {"exit", "done"} THEN First' ELSE Lined'
  <2>1. CmdQueue' = CmdQueue /\ Line' = Line /\ Queue' = Queue
    BY <1>1, <1>7 DEF CmdQueue, Line, Queue
  <2>2. Opened'
    BY <1>0, <1>1, <1>2, <1>3, <1>7, <2>1 DEF Opened
  <2>3. CASE wait.pc \in {"exit", "done"}
    BY <1>1, <1>2, <1>3, <1>7, <2>1, <2>2, <2>3 DEF First
  <2>4. CASE wait.pc \notin {"exit", "done"}
    <3>1. Lined
      BY <1>2, <1>3, <2>4
    <3>2. \A i \in 1 .. Len(CmdQueue) : CmdQueue[i] = Line[i] /\ peer'[Line[i]] = "full"
      BY <1>4, <1>7, <3>1 DEF Lined
    <3>3. \A i \in Len(CmdQueue) + 1 .. Len(Line) : peer'[Line[i]] = "half"
      <4>1. \A i \in Len(CmdQueue) + 1 .. Len(Line) : i \in 1 .. Len(Line)
        BY <1>4
      <4>2. QED
        BY <1>4, <1>7, <3>1, <4>1 DEF Lined
    <3>4. \A c \in Clients : peer'[c] = "half" => peer[c] = "half"
      BY <1>7
    <3>5. QED
      BY <2>1, <2>2, <2>4, <3>1, <3>2, <3>3, <3>4 DEF Lined
  <2>5. QED
    BY <2>3, <2>4
<1>8. ASSUME NEW c \in Clients, SendCmd(c) \/ Stop
      PROVE  UNCHANGED <<peer, port>>
  BY <1>8 DEF SendCmd, Stop, outer
<1>9. ASSUME NEW c \in Clients, Leave(c)
      PROVE  Opened' /\ IF wait.pc \in {"exit", "done"} THEN First' ELSE Lined'
  <2>1. UNCHANGED port /\ peer' = [peer EXCEPT ![c] = "gone"] /\ peer[c] \in {"half", "full"}
    BY <1>9 DEF Leave
  <2>2. client.cmd = <<c, "cmd">>
    BY <1>9 DEF Leave, Note
  <2>3. peer[c] = "full" /\ \A i \in 1 .. Len(CmdQueue) : CmdQueue[i] # c
    BY <2>1, <2>2 DEF Base, CmdOnce
  <2>4. QED
    BY <1>0, <1>7, <2>1, <2>3
<1>10. ~NetDrop
  BY DEF NetDrop, Note
<1>11. CASE Stop
  <2>1. UNCHANGED <<peer, port>>
    BY <1>11 DEF Stop, outer
  <2>2. QED
    BY <1>7, <2>1
<1>12. QED
  BY <1>5, <1>6, <1>7, <1>8, <1>9, <1>10, <1>11 DEF Outside
LEMMA PairWait ==
  ASSUME Base, Pairing, ThreadWait, mishaps = {}, mishaps' = {}
  PROVE  Pairing'
<1>0. /\ UNCHANGED <<client, peer, quit>> /\ ~Rushed
      /\ wait \in [pc : WaitPcs, sock : Field, first : BOOLEAN]
      /\ cmd \in [Clients -> [pc : CmdPcs, sock : Field]]
      /\ port \in [Ports -> [up : {"closed", "open", "dead"}, queue : Seq(Clients)]]
      /\ "msg" \in Ports /\ "cmd" \in Ports
  BY DEF Base, TypeInv, TypeOK, ThreadWait, outer, Rushed, WaitPcs, CmdPcs, Ports
<1>1. Paired'
  BY <1>0 DEF Pairing, Paired
<1>2. SUFFICES ASSUME ~client.freed
               PROVE  Opened' /\ Own' /\ IF wait'.pc \in {"exit", "done"} THEN First' ELSE Lined'
  BY <1>0, <1>1 DEF Pairing
<1>3. Opened /\ Own /\ IF wait.pc \in {"exit", "done"} THEN First ELSE Lined
  BY <1>2 DEF Pairing
<1>4. First
  BY <1>0, <1>3, LinedFirst DEF Base
\* The threads and the ports' queues stay as they are.
<1>5. ASSUME UNCHANGED <<cmd, thid_client, Queue, CmdQueue>>, Taken' = Taken,
             wait'.pc \in {"slot", "spawn"} => Own', Opened',
             wait'.pc \notin {"exit", "done"} => wait.pc \notin {"exit", "done"}
      PROVE  Opened' /\ Own' /\ IF wait'.pc \in {"exit", "done"} THEN First' ELSE Lined'
  <2>1. Own'
    BY <1>0, <1>3, <1>5 DEF Own
  <2>2. First' /\ Line' = Line
    BY <1>0, <1>4, <1>5 DEF First, Starting, Line, Begun
  <2>3. wait'.pc \notin {"exit", "done"} => Lined'
    BY <1>0, <1>3, <1>5, <2>2 DEF Lined
  <2>4. QED
    BY <1>5, <2>1, <2>2, <2>3
<1>6. CASE WaitNetInit \/ WaitLoop \/ WaitExited
  <2>1. UNCHANGED <<cmd, thid_client, port>>
    BY <1>6 DEF WaitNetInit, WaitLoop, WaitExited
  <2>2. \/ wait.pc = "init" /\ wait' = [wait EXCEPT !.pc = "close"]
        \/ wait.pc \in {"init", "loop", "exit"} /\ wait' = [wait EXCEPT !.pc = "done"]
        \/ wait.pc = "loop" /\ wait' = [wait EXCEPT !.pc = "accept"]
    BY <1>6 DEF WaitNetInit, WaitLoop, WaitExited, WaitGo
  <2>3. /\ UNCHANGED <<Queue, CmdQueue, Alive>> /\ Taken' = Taken
        /\ wait'.pc \notin {"slot", "spawn"}
        /\ wait'.pc \notin {"exit", "done"} => wait.pc \notin {"exit", "done"}
    BY <1>0, <2>1, <2>2 DEF Queue, CmdQueue, Alive, Taken
  <2>4. Opened'
    BY <1>0, <1>3, <2>1, <2>2, <2>3 DEF Opened
  <2>5. QED
    BY <1>5, <2>1, <2>3, <2>4
<1>7. CASE WaitCloseServer
  <2>1. /\ UNCHANGED <<cmd, thid_client>> /\ wait.pc = "close" /\ port' = Closed
        /\ wait' = [wait EXCEPT !.pc = "bindmsg"]
    BY <1>7 DEF WaitCloseServer, WaitGo
  <2>2. /\ port'["msg"] = [up |-> "closed", queue |-> <<>>]
        /\ port'["cmd"] = [up |-> "closed", queue |-> <<>>]
    BY <1>0, <2>1 DEF Closed
  <2>3. /\ UNCHANGED <<Queue, CmdQueue, Alive>> /\ Taken' = Taken
    BY <1>0, <1>3, <2>1, <2>2 DEF Queue, CmdQueue, Alive, Taken, Opened
  <2>4. Opened'
    BY <1>0, <1>3, <2>1, <2>2, <2>3 DEF Opened
  <2>5. QED
    BY <1>0, <1>5, <2>1, <2>3, <2>4
<1>8. CASE WaitBind
  <2>1. UNCHANGED <<cmd, thid_client>>
    BY <1>8 DEF WaitBind
  <2>2. CASE wait.pc = "bindmsg"
    <3>1. /\ wait' = [wait EXCEPT !.pc = "bindcmd"]
          /\ port' = [port EXCEPT !["msg"].up = "open"]
      BY <1>8, <2>2 DEF WaitBind, WaitGo
    <3>2. /\ port'["msg"].up = "open" /\ port'["msg"].queue = port["msg"].queue
          /\ port'["cmd"] = port["cmd"]
      BY <1>0, <3>1
    <3>3. UNCHANGED <<Queue, CmdQueue, Alive>> /\ Taken' = Taken
      BY <1>0, <2>1, <2>2, <3>1, <3>2 DEF Queue, CmdQueue, Alive, Taken
    <3>4. Opened'
      BY <1>0, <1>3, <2>1, <2>2, <3>1, <3>2, <3>3 DEF Opened
    <3>5. QED
      BY <1>0, <1>5, <2>1, <2>2, <3>1, <3>3, <3>4
  <2>3. CASE wait.pc = "bindcmd"
    <3>1. /\ wait' = [wait EXCEPT !.pc = "loop", !.first = FALSE]
          /\ port' = [port EXCEPT !["cmd"].up = "open"]
      BY <1>8, <2>3 DEF WaitBind, WaitGo
    <3>2. /\ port'["cmd"].up = "open" /\ port'["cmd"].queue = port["cmd"].queue
          /\ port'["msg"] = port["msg"]
      BY <1>0, <3>1
    <3>3. UNCHANGED <<Queue, CmdQueue, Alive>> /\ Taken' = Taken
      BY <1>0, <2>1, <2>3, <3>1, <3>2 DEF Queue, CmdQueue, Alive, Taken
    <3>4. Opened'
      BY <1>0, <1>3, <2>1, <2>3, <3>1, <3>2, <3>3 DEF Opened
    <3>5. QED
      BY <1>0, <1>5, <2>1, <2>3, <3>1, <3>3, <3>4
  <2>4. QED
    BY <1>8, <2>2, <2>3 DEF WaitBind, WaitGo
<1>9. CASE WaitBindFails
  <2>1. UNCHANGED <<cmd, thid_client, port>> /\ wait.pc \in {"bindmsg", "bindcmd"}
    BY <1>9 DEF WaitBindFails
  <2>2. wait.first /\ Alive = {} /\ wait' = [wait EXCEPT !.pc = "exit"]
    BY <1>3, <1>9, <2>1 DEF WaitBindFails, Opened
  <2>3. UNCHANGED <<Queue, CmdQueue, Alive>> /\ Taken' = Taken
    BY <1>0, <2>1, <2>2 DEF Queue, CmdQueue, Alive, Taken
  <2>4. Opened'
    BY <1>0, <1>3, <2>1, <2>2, <2>3 DEF Opened
  <2>5. QED
    BY <1>0, <1>5, <2>1, <2>2, <2>3, <2>4
<1>10. CASE WaitAccept
  <2>1. /\ UNCHANGED <<cmd, thid_client>> /\ wait.pc = "accept" /\ Queue # <<>>
        /\ port' = [port EXCEPT !["msg"].queue = Tail(@)]
    BY <1>10 DEF WaitAccept, Queue
  <2>2. /\ port'["cmd"] = port["cmd"] /\ port'["msg"].up = port["msg"].up
        /\ Queue' = Tail(Queue) /\ CmdQueue' = CmdQueue /\ UNCHANGED Alive
    BY <1>0, <2>1 DEF Queue, CmdQueue, Alive
  <2>3. CASE quit
    <3>1. wait' = [wait EXCEPT !.pc = "done"]
      BY <1>10, <2>3 DEF WaitAccept
    <3>2. Opened' /\ Own' /\ First'
      BY <1>0, <1>3, <1>4, <2>1, <2>2, <3>1 DEF Opened, Own, First, Starting
    <3>3. QED
      BY <1>0, <3>1, <3>2
  <2>4. CASE ~quit
    <3>1. wait' = [wait EXCEPT !.pc = "slot", !.sock = <<Head(Queue), "msg">>]
      BY <1>10, <2>4 DEF WaitAccept, Queue
    <3>2. wait'.pc = "slot" /\ wait'.sock = <<Head(Queue), "msg">> /\ wait'.first = wait.first
      BY <1>0, <3>1
    <3>3. Opened' /\ Own'
      BY <1>0, <1>3, <2>1, <2>2, <3>2 DEF Opened, Own
    <3>4. Line' = Line
      <4>1. Taken = <<>> /\ Taken' = <<Head(Queue)>> /\ Begun' = Begun
        BY <2>1, <3>2 DEF Taken, Begun, Starting
      <4>2. Begun \in Seq(Clients) /\ Queue \in Seq(Clients)
        BY <1>0, LineParts DEF Base
      <4>3. QED
        BY <2>1, <2>2, <4>1, <4>2, HeadBack DEF Line
    <3>5. Lined
      BY <1>3, <2>1
    <3>6. QED
      BY <1>0, <2>2, <3>2, <3>3, <3>4, <3>5 DEF Lined
  <2>5. QED
    BY <2>3, <2>4
<1>11. ~WaitAcceptFails
  BY <1>3 DEF WaitAcceptFails, WaitGo, Opened
<1>12. CASE WaitAdmit
  <2>1. /\ UNCHANGED <<cmd, thid_client, port>> /\ wait.pc = "slot"
        /\ wait' = [wait EXCEPT !.pc = "spawn"]
    BY <1>12 DEF WaitAdmit, WaitGo
  <2>2. UNCHANGED <<Queue, CmdQueue, Alive>> /\ Taken' = Taken
    BY <1>0, <2>1 DEF Queue, CmdQueue, Alive, Taken
  <2>3. Opened' /\ Own'
    BY <1>0, <1>3, <2>1, <2>2 DEF Opened, Own
  <2>4. QED
    BY <1>0, <1>5, <2>1, <2>2, <2>3
<1>13. ~WaitRefuse /\ ~WaitSpawnFails /\ ~WaitCrash
  BY <1>2 DEF WaitRefuse, WaitSpawnFails, WaitCrash, Note
<1>14. CASE WaitSpawn
  <2>1. /\ Alive = {} /\ wait.pc = "spawn" /\ wait.sock \in Socks /\ UNCHANGED port
        /\ wait' = [wait EXCEPT !.pc = "loop", !.sock = NoSock] /\ thid_client' = wait.sock[1]
        /\ cmd' = [cmd EXCEPT ![wait.sock[1]] = [pc |-> "clear", sock |-> wait.sock]]
    BY <1>0, <1>14 DEF WaitSpawn, OneThread, Base, TypeInv, InHand
  <2>2. wait.sock[1] \in Clients /\ wait.sock = <<wait.sock[1], "msg">>
    BY <1>3, <2>1 DEF Own, Socks
  <2>3. /\ cmd'[wait.sock[1]] = [pc |-> "clear", sock |-> wait.sock]
        /\ \A c \in Clients : c # wait.sock[1] => cmd'[c].pc \in {"unborn", "done"}
        /\ \A c \in Clients : cmd[c].pc \in {"unborn", "done"}
    BY <1>0, <2>1, <2>2 DEF Alive
  <2>4. Own'
    BY <1>0, <2>1, <2>2, <2>3 DEF Own
  <2>5. Opened'
    BY <1>0, <1>3, <2>1 DEF Opened
  <2>6. Line' = Line
    <3>1. /\ Begun = <<>> /\ Taken = <<wait.sock[1]>> /\ Begun' = <<wait.sock[1]>>
          /\ Taken' = <<>> /\ Queue' = Queue
      BY <1>0, <2>1, <2>2, <2>3 DEF Begun, Taken, Queue, Starting
    <3>2. /\ <<wait.sock[1]>> \in Seq(Clients)
      BY <2>2
    <3>3. QED
      BY <3>1, <3>2, ConcatEmptySeq DEF Line
  <2>7. Lined
    BY <1>3, <2>1
  <2>8. CmdQueue' = CmdQueue /\ wait'.pc = "loop"
    BY <1>0, <2>1 DEF CmdQueue
  <2>9. QED
    BY <1>0, <2>4, <2>5, <2>6, <2>7, <2>8 DEF Lined
<1>15. QED
  BY <1>6, <1>7, <1>8, <1>9, <1>10, <1>11, <1>12, <1>13, <1>14 DEF ThreadWait

\* The steps of a session's thread and of psp2shell_exit that start or end no session.
LEMMA PairFrame ==
  ASSUME Base, Pairing, mishaps = {}, UNCHANGED <<wait, peer>>, Paired',
         ~client'.freed => ~client.freed /\ Own',
         ~client'.freed => UNCHANGED <<port, thid_client>>,
         Alive' \subseteq Alive, \A c \in Clients : Starting(c)' = Starting(c)
  PROVE  Pairing'
<1>1. SUFFICES ASSUME ~client'.freed
               PROVE  Opened' /\ IF wait.pc \in {"exit", "done"} THEN First' ELSE Lined'
  BY DEF Pairing
<1>2. Opened /\ IF wait.pc \in {"exit", "done"} THEN First ELSE Lined
  BY <1>1 DEF Pairing
<1>3. UNCHANGED <<port, thid_client, Queue, CmdQueue, Taken, Begun>>
  BY <1>1 DEF Queue, CmdQueue, Taken, Begun
<1>4. Opened' /\ (First => First') /\ Line' = Line
  BY <1>2, <1>3 DEF Opened, First, Line
<1>5. Lined => Lined'
  BY <1>3, <1>4 DEF Lined
<1>6. QED
  BY <1>2, <1>4, <1>5

LEMMA PairExit ==
  ASSUME Base, Pairing, NEW e \in Exiters, Psp2shellExit(e), mishaps = {}
  PROVE  Pairing'
<1>0. /\ UNCHANGED <<wait, cmd, thid_client, peer>> /\ Alive' = Alive
      /\ \A c \in Clients : Starting(c)' = Starting(c)
      /\ client \in [freed : BOOLEAN, msg : Field, cmd : Field]
  BY DEF Base, TypeInv, TypeOK, Psp2shellExit, outer, Alive, Starting
<1>1. Paired /\ (~client.freed => Own)
  BY DEF Pairing
<1>2. CASE ExitCheck(e) \/ ExitSet(e) \/ ExitJoin(e) \/ ExitJoinWait(e)
  <2>1. UNCHANGED <<client, port>>
    BY <1>2 DEF ExitCheck, ExitSet, ExitJoin, ExitJoinWait
  <2>2. QED
    BY <1>0, <1>1, <2>1, PairFrame DEF Paired, Own
<1>3. CASE ExitCloseClient(e)
  <2>1. UNCHANGED port /\ client'.freed = client.freed
        /\ (client' = client \/ (client'.msg = NoSock /\ client'.cmd = NoSock))
    <3>1. CASE client.freed
      <4>1. UNCHANGED <<client, port>>
        BY <1>3, <3>1 DEF ExitCloseClient
      <4>2. QED
        BY <4>1
    <3>2. CASE ~client.freed
      <4>1. UNCHANGED port /\ client' = [client EXCEPT !.msg = NoSock, !.cmd = NoSock]
        BY <1>3, <3>2 DEF ExitCloseClient
      <4>2. QED
        BY <1>0, <4>1
    <3>3. QED
      BY <3>1, <3>2
  <2>2. Paired'
    BY <1>1, <2>1, NoSocks DEF Paired, Empty, Socks, Ports
  <2>3. ~client'.freed => Own'
    BY <1>0, <1>1, <2>1, NoSocks DEF Own
  <2>4. QED
    BY <1>0, <2>1, <2>2, <2>3, PairFrame
<1>4. CASE ExitFree(e)
  <2>1. client' = [client EXCEPT !.freed = TRUE]
    BY <1>4 DEF ExitFree
  <2>2. client'.freed /\ client'.msg = client.msg /\ client'.cmd = client.cmd
    BY <1>0, <2>1
  <2>3. QED
    BY <1>0, <1>1, <2>2, PairFrame DEF Paired
<1>5. CASE ExitCloseServer(e)
  <2>1. client.freed /\ UNCHANGED client
    BY <1>5 DEF ExitCloseServer, ExitGo, Base, Freed
  <2>2. QED
    BY <1>0, <1>1, <2>1, PairFrame DEF Paired
<1>6. QED
  BY <1>2, <1>3, <1>4, <1>5 DEF Psp2shellExit
LEMMA PairCmd ==
  ASSUME Base, Pairing, NEW c \in Clients, CmdThread(c), mishaps = {}
  PROVE  Pairing'
<1>0. /\ UNCHANGED <<wait, thid_client, peer>> /\ ~Rushed
      /\ cmd \in [Clients -> [pc : CmdPcs, sock : Field]]
      /\ client \in [freed : BOOLEAN, msg : Field, cmd : Field]
      /\ port \in [Ports -> [up : {"closed", "open", "dead"}, queue : Seq(Clients)]]
      /\ "msg" \in Ports /\ "cmd" \in Ports
  BY DEF Base, TypeInv, TypeOK, CmdThread, Rushed, CmdPcs, Ports
<1>1. /\ cmd[c].pc \notin {"unborn", "done"} /\ cmd'[c].pc # "unborn"
      /\ \A d \in Clients \ {c} : cmd'[d] = cmd[d]
  BY CmdStep DEF Base
<1>2. \A d \in Clients : d # c => cmd[d].pc \in {"unborn", "done"} /\ cmd'[d] = cmd[d]
  BY <1>0, <1>1 DEF Base, OneThread, Alive
<1>3. Paired /\ (~client.freed => Own)
  BY DEF Pairing
<1>4. Alive' \subseteq Alive /\ \A d \in Clients : d # c => Starting(d)' = Starting(d)
  BY <1>1, <1>2 DEF Alive, Starting
<1>5. /\ \A d \in Clients : NoSock # <<d, "cmd">> /\ ZeroSock # <<d, "cmd">>
      /\ \A d \in Clients : NoSock # <<d, "msg">> /\ ZeroSock # <<d, "msg">>
  BY NoSocks DEF Empty, Socks, Ports
<1>6. CASE CmdClear(c)
  <2>1. /\ ~client.freed /\ UNCHANGED port /\ cmd[c].pc = "clear" /\ cmd'[c].pc = "setmsg"
        /\ cmd'[c].sock = cmd[c].sock /\ client'.msg = ZeroSock /\ client'.cmd = ZeroSock
    BY <1>0, <1>6 DEF CmdClear, CmdGo
  <2>2. Paired' /\ Own'
    BY <1>0, <1>2, <1>3, <1>5, <2>1, NoSocks DEF Paired, Own
  <2>3. Starting(c)' = Starting(c)
    BY <2>1 DEF Starting
  <2>4. QED
    BY <1>0, <1>4, <2>1, <2>2, <2>3, PairFrame
<1>7. CASE CmdSetMsg(c)
  <2>1. /\ ~client.freed /\ UNCHANGED port /\ cmd[c].pc = "setmsg" /\ cmd'[c].pc = "accept"
        /\ client'.msg = cmd[c].sock /\ client'.cmd = client.cmd
    BY <1>0, <1>7 DEF CmdSetMsg, CmdTake
  <2>2. Empty(client.cmd) /\ cmd[c].sock = <<c, "msg">>
    BY <1>3, <2>1 DEF Own
  <2>3. Paired'
    BY <2>1, <2>2 DEF Paired, Empty, Socks, Ports
  <2>4. Own'
    BY <1>0, <1>2, <1>3, <2>1, <2>2 DEF Own
  <2>5. Starting(c)' = Starting(c)
    BY <2>1 DEF Starting
  <2>6. QED
    BY <1>0, <1>4, <2>1, <2>3, <2>4, <2>5, PairFrame
\* The session that starts is the first in the line, and so is its command connection.
<1>8. CASE CmdAccept(c)
  <2>1. /\ ~client.freed /\ cmd[c].pc = "accept" /\ cmd'[c].pc = "ready" /\ CmdQueue # <<>>
        /\ client'.cmd = <<Head(CmdQueue), "cmd">> /\ client'.msg = client.msg
        /\ client'.freed = client.freed
        /\ port' = [port EXCEPT !["cmd"].queue = Tail(@)]
    BY <1>0, <1>8 DEF CmdAccept, CmdGo, CmdQueue
  <2>2. /\ CmdQueue' = Tail(CmdQueue) /\ Queue' = Queue /\ port'["cmd"].up = port["cmd"].up
        /\ port'["msg"].up = port["msg"].up
    BY <1>0, <2>1 DEF CmdQueue, Queue
  <2>3. Opened /\ Own /\ IF wait.pc \in {"exit", "done"} THEN First ELSE Lined
    BY <2>1 DEF Pairing
  <2>4. First /\ Starting(c) /\ c \in Alive
    BY <1>0, <2>1, <2>3, LinedFirst DEF Base, Starting, Alive
  <2>5. /\ CmdQueue \in Seq(Clients) /\ Len(CmdQueue) \in Nat /\ Len(CmdQueue) > 0
        /\ Len(CmdQueue') = Len(CmdQueue) - 1 /\ CmdQueue[1] = Head(CmdQueue)
        /\ \A i \in 1 .. Len(CmdQueue') :
             i + 1 \in 2 .. Len(CmdQueue) /\ CmdQueue'[i] = CmdQueue[i + 1]
    BY <2>1, <2>2, CmdQueueProperties, TailFacts DEF Base
  <2>6. Head(CmdQueue) = c
    BY <2>1, <2>4, <2>5 DEF First
  <2>7. Paired'
    BY <2>1, <2>3, <2>6 DEF Paired, Own, Empty, Socks, Ports
  <2>8. Own' /\ \A d \in Clients : ~Starting(d)'
    BY <1>0, <1>2, <2>1, <2>3 DEF Own, Starting
  <2>9. Opened'
    <3>1. wait.pc \notin {"init", "close", "bindmsg", "bindcmd"}
      BY <2>3, <2>4 DEF Opened
    <3>2. QED
      BY <1>0, <1>4, <2>2, <2>3, <3>1 DEF Opened
  <2>10. CASE wait.pc \in {"exit", "done"}
    BY <1>0, <2>7, <2>8, <2>9, <2>10 DEF Pairing, First
  <2>11. CASE wait.pc \notin {"exit", "done"}
    <3>1. /\ Begun = <<c>> /\ Begun' = <<>> /\ Taken' = Taken
          /\ Taken \in Seq(Clients) /\ Queue \in Seq(Clients) /\ Line \in Seq(Clients)
      BY <1>0, <2>4, <2>8, LineParts DEF Base, Begun, Taken
    <3>2. Line # <<>> /\ Line[1] = c /\ Line' = Tail(Line)
      BY <2>2, <3>1, FirstOut DEF Line
    <3>3. /\ Len(Line) \in Nat /\ Len(Line') = Len(Line) - 1
          /\ \A i \in 1 .. Len(Line') : i + 1 \in 2 .. Len(Line) /\ Line'[i] = Line[i + 1]
      BY <3>1, <3>2, TailFacts
    <3>4. /\ Len(CmdQueue) <= Len(Line)
          /\ \A i \in 1 .. Len(CmdQueue) : CmdQueue[i] = Line[i] /\ peer[Line[i]] = "full"
          /\ \A i \in Len(CmdQueue) + 1 .. Len(Line) : peer[Line[i]] = "half"
          /\ \A d \in Clients : peer[d] = "half" => \E i \in 1 .. Len(Line) : Line[i] = d
      BY <2>3, <2>11 DEF Lined
    <3>5. Len(CmdQueue') <= Len(Line')
      BY <2>5, <3>3, <3>4
    <3>6. \A i \in 1 .. Len(CmdQueue') : CmdQueue'[i] = Line'[i] /\ peer[Line'[i]] = "full"
      <4>1. \A i \in 1 .. Len(CmdQueue') : i \in 1 .. Len(Line') /\ i + 1 \in 1 .. Len(CmdQueue)
        BY <2>5, <3>3, <3>5
      <4>2. QED
        BY <2>5, <3>3, <3>4, <4>1
    <3>7. \A i \in Len(CmdQueue') + 1 .. Len(Line') : peer[Line'[i]] = "half"
      <4>1. \A i \in Len(CmdQueue') + 1 .. Len(Line') :
              i \in 1 .. Len(Line') /\ i + 1 \in Len(CmdQueue) + 1 .. Len(Line)
        BY <2>5, <3>3
      <4>2. QED
        BY <3>3, <3>4, <4>1
    <3>8. ASSUME NEW d \in Clients, peer[d] = "half" PROVE \E i \in 1 .. Len(Line') : Line'[i] = d
      <4>1. PICK i \in 1 .. Len(Line) : Line[i] = d
        BY <3>4, <3>8
      <4>2. i # 1
        <5>1. 1 \in 1 .. Len(CmdQueue)
          BY <2>5
        <5>2. QED
          BY <3>4, <3>8, <4>1, <5>1
      <4>3. i - 1 \in 1 .. Len(Line') /\ i - 1 + 1 = i
        BY <3>3, <4>2
      <4>4. QED
        BY <3>3, <4>1, <4>3
    <3>9. Lined'
      BY <1>0, <3>5, <3>6, <3>7, <3>8 DEF Lined
    <3>10. QED
      BY <1>0, <2>7, <2>8, <2>9, <2>11, <3>9 DEF Pairing
  <2>12. QED
    BY <2>10, <2>11
<1>9. CASE CmdAcceptFails(c)
  <2>1. ~client.freed /\ port["cmd"].up # "open" /\ c \in Alive
    BY <1>1, <1>9 DEF CmdAcceptFails, Alive
  <2>2. QED
    BY <2>1 DEF Pairing, Opened
\* The session is under way.
<1>10. ASSUME UNCHANGED <<client, port>>,
              cmd[c].pc \notin {"clear", "setmsg", "accept"},
              cmd'[c].pc \notin {"clear", "setmsg", "accept"}
       PROVE  Pairing'
  <2>1. Paired' /\ (~client.freed => Own')
    BY <1>0, <1>2, <1>3, <1>10 DEF Paired, Own
  <2>2. Starting(c)' = Starting(c)
    BY <1>10 DEF Starting
  <2>3. QED
    BY <1>0, <1>4, <1>10, <2>1, <2>2, PairFrame
<1>11. CASE CmdReady(c) \/ CmdLoop(c) \/ CmdServe(c) \/ CmdRebooted(c) \/ CmdUploadEnds(c)
            \/ CmdUploadSpins(c) \/ CmdHangup(c) \/ CmdUnready(c) \/ CmdEnd(c)
  <2>1. UNCHANGED <<client, port>>
    BY <1>11 DEF CmdReady, CmdLoop, CmdServe, CmdRebooted, CmdUploadEnds, CmdUploadSpins,
       CmdHangup, CmdUnready, CmdEnd
  <2>2. /\ cmd[c].pc \notin {"clear", "setmsg", "accept"}
        /\ cmd'[c].pc \notin {"clear", "setmsg", "accept"}
    BY <1>0, <1>11 DEF CmdReady, CmdLoop, CmdServe, CmdRebooted, CmdUploadEnds,
       CmdUploadSpins, CmdHangup, CmdUnready, CmdEnd, CmdGo, CmdTake
  <2>3. QED
    BY <1>10, <2>1, <2>2
<1>12. CASE CmdCloseMsg(c) \/ CmdCloseCmd(c)
  <2>1. /\ ~client.freed /\ client'.freed = client.freed /\ UNCHANGED port
        /\ client'.msg \in {client.msg, NoSock} /\ client'.cmd \in {client.cmd, NoSock}
        /\ cmd[c].pc \notin {"clear", "setmsg", "accept"}
        /\ cmd'[c].pc \notin {"clear", "setmsg", "accept"}
    BY <1>0, <1>12 DEF CmdCloseMsg, CmdCloseCmd, CmdGo
  <2>2. Paired'
    BY <1>3, <1>5, <2>1 DEF Paired
  <2>3. Own'
    BY <1>0, <1>2, <1>3, <2>1 DEF Own
  <2>4. Starting(c)' = Starting(c)
    BY <2>1 DEF Starting
  <2>5. QED
    BY <1>0, <1>4, <2>1, <2>2, <2>3, <2>4, PairFrame
<1>13. CASE CmdCrash(c)
  <2>1. UNCHANGED <<client, port, cmd>> /\ client.freed
    BY <1>13 DEF CmdCrash
  <2>2. Paired' /\ Starting(c)' = Starting(c)
    BY <1>3, <2>1 DEF Paired, Starting
  <2>3. QED
    BY <1>0, <1>4, <2>1, <2>2, PairFrame
<1>14. QED
  BY <1>6, <1>7, <1>8, <1>9, <1>11, <1>12, <1>13 DEF CmdThread

LEMMA PairReboot ==
  ASSUME Base, Pairing, NEW c \in Clients, Reboot(c), mishaps = {}
  PROVE  Pairing'
<1>1. /\ UNCHANGED <<client, port, wait, thid_client, peer>> /\ Alive' = Alive
      /\ cmd[c].pc = "recv" /\ cmd'[c].pc = "reboot"
      /\ \A d \in Clients \ {c} : cmd'[d] = cmd[d]
  BY RebootStep DEF Base
<1>2. \A d \in Clients : Starting(d)' = Starting(d)
  BY <1>1 DEF Starting
<1>3. Paired' /\ (~client.freed => Own')
  BY <1>1 DEF Pairing, Paired, Own
<1>4. QED
  BY <1>1, <1>2, <1>3, PairFrame

LEMMA PairStep ==
  ASSUME Base, Pairing, [Next]_vars
  PROVE  Pairing'
<1>1. CASE UNCHANGED vars
  <2>1. UNCHANGED <<client, wait, cmd, thid_client, port, peer, mishaps>>
    BY <1>1 DEF vars, outer, notes
  <2>2. Line' = Line /\ CmdQueue' = CmdQueue /\ Queue' = Queue /\ Alive' = Alive
        /\ \A c \in Clients : Starting(c)' = Starting(c)
    BY <2>1 DEF Line, Begun, Taken, Queue, CmdQueue, Alive, Starting
  <2>3. Paired' = Paired /\ Opened' = Opened /\ Own' = Own /\ First' = First /\ Lined' = Lined
    BY <2>1, <2>2 DEF Paired, Opened, Own, First, Lined
  <2>4. QED
    BY <2>1, <2>3 DEF Pairing
<1>2. ASSUME Next, mishaps' = {} PROVE Pairing'
  <2>1. mishaps = {}
    BY <1>2, MonotoneStep DEF Base
  <2>2. QED
    BY <1>2, <2>1, PairOutside, PairWait, PairCmd, PairReboot, PairExit DEF Next
<1>3. QED
  BY <1>1, <1>2 DEF Pairing

LEMMA PairInit == Init => CmdOnce /\ Freed /\ Pairing
<1> SUFFICES ASSUME Init PROVE CmdOnce /\ Freed /\ Pairing
  OBVIOUS
<1>1. /\ CmdQueue = <<>> /\ Queue = <<>> /\ Alive = {} /\ Begun = <<>> /\ Taken = <<>>
      /\ \A p \in Ports : port[p].up = "closed"
  BY DEF Init, CmdQueue, Queue, Closed, Ports, Alive, Starting, Begun, Taken
<1>2. \A c \in Clients : NoSock # <<c, "cmd">> /\ NoSock # <<c, "msg">>
  BY NoSocks DEF Empty, Socks, Ports
<1>3. CmdOnce /\ Freed
  BY <1>1, <1>2, EmptyLen DEF Init, CmdOnce, Freed
<1>4. Line = <<>>
  BY <1>1, ConcatEmptySeq, EmptySeq DEF Line
<1>5. Lined
  BY <1>1, <1>4, EmptyLen DEF Init, Lined
<1>6. Opened /\ Own /\ Paired
  BY <1>1, <1>2 DEF Init, Opened, Own, Paired, Ports
<1>7. QED
  BY <1>3, <1>5, <1>6 DEF Init, Pairing

\* The two sockets of a session belong to one client (psp2shell_m/source/main.c:133, 145:
\* accept takes whoever is first in the command port's queue), as long as no client left
\* without a session, was refused, or connected its second port beside another.
THEOREM PairedCorrect == Spec => []Paired
<1>1. Base /\ Pairing /\ [Next]_vars =>
        StartedOnce' /\ OneThread' /\ Joined' /\ CmdOnce' /\ Freed' /\ Pairing'
  BY StartedOnceStep, OneThreadStep, JoinedStep, CmdOnceStep, FreedStep, PairStep DEF Base
<1>2. Pairing => Paired
  BY DEF Pairing, Paired
<1>3. QED
  BY <1>1, <1>2, LogsInit, JoinedInit, PairInit, TypeInvariant, PTL DEF Spec, Base
===============================================================================
