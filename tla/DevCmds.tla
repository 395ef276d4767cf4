-------------------------------- MODULE DevCmds --------------------------------
(***************************************************************************)
(* The commands of cmd_thread that act on applications, modules and        *)
(* memory: load, reload, reset, launch, title, mod*, kmod*, moddump, memr  *)
(* (psp2shell_m/source/cmd.c, utility.c, module.c), with the dump in the   *)
(* kernel module (psp2shell_k/main.c).                                     *)
(*                                                                         *)
(* The console is the system's (external): one application runs at a time, *)
(* the user starts and ends applications whenever he wants, also between   *)
(* two calls of a command, and any call may fail: failed notes where one   *)
(* did that this command or its client will not hear of.                   *)
(***************************************************************************)
EXTENDS Integers, Sequences, FiniteSets

CONSTANTS
  Titles,        \* title ids
  MaxStarts,     \* bound: starts of applications, which number the processes
  Mods,          \* module uids; Segs[m] has the memory sizes of m's segments, 0 for none
  Segs,
  CHUNK_SIZE,    \* 2048
  Tries,         \* 40: calls of sceAppMgrLaunchAppByUri
  Word, Line,    \* memory addresses are 0 .. Word - 1, a line of memr shows Line of them
  Own, Kernel,   \* the process of psp2shell_m (SceShell), and the kernel
  None

Pids == 1 .. MaxStarts
Apps == [title : Titles, pid : Pids]
Procs == Pids \cup {Own, Kernel}
Cells == {<<m, s, k>> : m \in Mods, s \in 1 .. 4, k \in 0 .. 9}

ASSUME ConstantsAssumption ==
  /\ MaxStarts \in Nat /\ CHUNK_SIZE \in Nat \ {0} /\ Tries \in Nat
  /\ Word \in Nat \ {0} /\ Line \in 1 .. Word
  /\ \E n \in 1 .. Word : Word = n * Line     \* both are powers of 2
  /\ Segs \in [Mods -> [1 .. 4 -> 0 .. 10]]
  /\ {Own, Kernel} \cap Pids = {} /\ Own # Kernel /\ None \notin Apps \cup Procs

VARIABLES
  app, starts,         \* the running application, how many were started
  image,               \* the eboot.bin of tid, as this command leaves it
  loaded,              \* modules: <<process, uid>>
  pc, op, then,        \* cmd_thread: where it is, the command, where to after a lookup
  tid, id, pid, uid,   \* the title; ids[0] and the process looked up; the module
  tries,
  mark,                \* starts when the command destroyed the application
  seen, told,          \* what ran since the command began; what title printed
  failed,              \* kinds of calls that failed unnoticed in this command
  seg, pos, chunk, file, ret,      \* kpsp2shell_dump_module and kpsp2shell_dump
  from, addr, max, shown           \* cmd_memr; from: the address and size asked for

console == <<app, starts, image, loaded>>
dump == <<seg, pos, chunk, file, ret>>
memr == <<from, addr, max, shown>>
args == <<op, tid, uid>>
found == <<id, pid, then>>
notes == <<mark, seen, told, failed>>
vars == <<console, pc, args, found, tries, notes, dump, memr>>

Calls == {"lookup", "destroy", "receive", "dump"}
Fails(call) == failed' = failed \cup {call}

NoFile == [s \in 1 .. 4 |-> None]

Idle ==
  /\ pc = "idle" /\ op = "none" /\ then = "" /\ tid = None /\ id = None /\ pid = None
  /\ uid = None /\ tries = 0 /\ mark = 0 /\ seen = {} /\ told = {} /\ failed = {}
  /\ image = "old" /\ seg = 0 /\ pos = 0 /\ file = NoFile /\ ret = 0
  /\ from = <<0, 0>> /\ addr = 0 /\ max = 0 /\ shown = {}

Init ==
  /\ Idle /\ app = None /\ starts = 0
  /\ loaded = {<<Own, m>> : m \in Mods} /\ chunk = [k \in 1 .. CHUNK_SIZE |-> None]

-------------------------------------------------------------------------------
(* Applications.                                                           *)

AppModules(p) == {<<p, m>> : m \in Mods}
Without(p) == {l \in loaded : l[1] # p}

Ran(a) == app' = a /\ seen' = IF pc = "idle" THEN {} ELSE seen \cup {a}

Starts(t) ==
  /\ starts < MaxStarts /\ starts' = starts + 1 /\ Ran([title |-> t, pid |-> starts + 1])
  /\ loaded' = (IF app = None THEN loaded ELSE Without(app.pid)) \cup AppModules(starts + 1)

Ends ==
  /\ Ran(None) /\ UNCHANGED starts
  /\ loaded' = IF app = None THEN loaded ELSE Without(app.pid)

Running(p) == p \in {Own, Kernel} \/ (app # None /\ app.pid = p)

\* The user, or the application itself.
User ==
  /\ \/ app = None /\ \E t \in Titles : Starts(t)
     \/ app # None /\ Ends
  /\ UNCHANGED <<image, pc, args, found, tries, mark, told, failed, dump, memr>>

-------------------------------------------------------------------------------
(* p2s_get_running_app_pid: the list, then the process of its first entry. *)

Same == UNCHANGED <<console, args, tries, mark, seen, told, dump, memr>>

GetList ==
  /\ pc = "list" /\ id' = app /\ UNCHANGED <<then, failed>> /\ Same
  /\ IF app = None THEN pc' = then /\ pid' = None ELSE pc' = "process" /\ UNCHANGED pid

\* An application that ended meanwhile has no process: the error is negative too.
GetProcess ==
  /\ pc = "process" /\ pc' = then /\ UNCHANGED <<id, then, failed>> /\ Same
  /\ pid' = IF app = id THEN app.pid ELSE None

\* An error of either call is no process: a negative count, a negative id.
LookupFails ==
  /\ pc \in {"list", "process"} /\ pc' = then /\ pid' = None /\ Fails("lookup")
  /\ UNCHANGED <<id, then>> /\ Same

Lookup(next) == pc' = "list" /\ then' = next /\ UNCHANGED <<id, pid>>

\* sceAppMgrAppParamGetString of the process found, which may fail all the same.
Answers == pid # None /\ app # None /\ app.pid = pid

-------------------------------------------------------------------------------
(* The commands.                                                           *)

Finish ==
  /\ pc' = "idle" /\ op' = "none" /\ then' = "" /\ tid' = None /\ id' = None /\ pid' = None
  /\ uid' = None /\ tries' = 0 /\ mark' = 0 /\ seen' = {} /\ told' = {} /\ failed' = {}
  /\ image' = "old" /\ seg' = 0 /\ pos' = 0 /\ file' = NoFile /\ ret' = 0
  /\ from' = <<0, 0>> /\ addr' = 0 /\ max' = 0 /\ shown' = {}
  /\ UNCHANGED <<app, starts, loaded, chunk>>

Begin(o, t, u) ==
  /\ pc = "idle" /\ op' = o /\ tid' = t /\ uid' = u /\ seen' = {app}
  /\ UNCHANGED <<console, tries, mark, told, failed, dump>>

\* p2s_cmd_parse
Command ==
  \/ /\ \E o \in {"load", "launch"}, t \in Titles : Begin(o, t, None)
     /\ pc' = (IF op' = "load" THEN "destroy" ELSE "again") /\ UNCHANGED <<found, memr>>
  \/ /\ \E o \in {"reload", "reset"} : Begin(o, None, None)
     /\ Lookup("title") /\ UNCHANGED memr
  \/ Begin("title", None, None) /\ Lookup("name") /\ UNCHANGED memr
  \/ /\ \E o \in {"modls", "modinfo", "modstart", "modstop"}, m \in Mods : Begin(o, None, m)
     /\ Lookup("aim") /\ UNCHANGED memr
  \/ /\ \E o \in {"modstartp", "modstopp", "moddump"}, m \in Mods : Begin(o, None, m)
     /\ \E p \in Procs : pid' = p
     /\ pc' = (IF op' = "moddump" THEN "info" ELSE "act") /\ UNCHANGED <<id, then, memr>>
  \/ /\ Begin("memr", None, None) /\ pc' = "memr" /\ UNCHANGED <<found, shown>>
     /\ \E a, size \in 0 .. Word - 1 :
          from' = <<a, size>> /\ addr' = a /\ max' = (a + size) % Word

\* p2s_get_running_app_title_id, in reload and reset; can't reload or reset SceShell.
GetTitle ==
  /\ pc = "title" /\ Answers
  /\ tid' = app.title /\ UNCHANGED <<console, op, uid, tries, notes, dump, memr>>
  /\ IF op = "reset" THEN Lookup("name") ELSE pc' = "destroy" /\ UNCHANGED found
NoTitle == pc = "title" /\ Finish

\* p2s_get_running_app_name
GetName ==
  /\ pc = "name" /\ UNCHANGED <<console, args, tries, mark, seen, failed, dump, memr>>
  /\ Answers
  /\ IF op = "reset" THEN pc' = "destroy" /\ UNCHANGED <<found, told>>
     ELSE Lookup("id") /\ told' = told \cup {app}
NoName == pc = "name" /\ Finish

\* title goes on to the id, which may fail, and looks for the process once more.
TellId ==
  /\ pc = "id" /\ Lookup("tell") /\ (UNCHANGED told \/ (Answers /\ told' = told \cup {app}))
  /\ UNCHANGED <<console, args, tries, mark, seen, failed, dump, memr>>
Tell == pc = "tell" /\ Finish

\* Seeded fault: the file is opened before the application is ended.
DestroyLate ==
  /\ pc = "destroy" /\ UNCHANGED <<app, starts, loaded, seen>> /\ mark' = starts
  /\ pc' = (IF op \in {"load", "reload"} THEN "open" ELSE "launch")
  /\ UNCHANGED <<image, args, found, tries, told, failed, dump, memr>>

\* sceAppMgrDestroyOtherApp, whose result nobody looks at, and a second for the
\* application to end.
DestroyOtherApp ==
  /\ \/ Ends /\ UNCHANGED failed
     \/ app # None /\ Fails("destroy") /\ UNCHANGED <<app, starts, loaded, seen>>
  /\ UNCHANGED <<image, args, found, tries, told, dump, memr>>

Destroy ==
  /\ pc = "destroy" /\ DestroyOtherApp /\ mark' = starts
  /\ pc' = (IF op \in {"load", "reload"} THEN "open" ELSE "launch")

\* p2s_launch_app_by_uri begins with it, after the upload too.
DestroyAgain == pc = "again" /\ DestroyOtherApp /\ pc' = "launch" /\ UNCHANGED mark

\* s_open for writing, and CMD_OK; or CMD_NOK.
Open ==
  /\ pc = "open" /\ image' = "empty" /\ pc' = "receive"
  /\ UNCHANGED <<app, starts, loaded, args, found, tries, notes, dump, memr>>
OpenFails == pc = "open" /\ Finish

\* p2s_recv_file: a receive that fails with -1 counts as one that filled the buffer; one
\* that finds the connection closed, or fails with another code, is tried for ever.
Receive ==
  /\ pc = "receive" /\ pc' = "again"
  /\ \/ image' = "new" /\ UNCHANGED failed
     \/ image' = "bad" /\ Fails("receive")
  /\ UNCHANGED <<app, starts, loaded, args, found, tries, mark, seen, told, dump, memr>>

\* Nothing received: no buffer, or a file of size 0.
ReceiveNothing == pc = "receive" /\ Finish

\* sceAppMgrLaunchAppByUri, accepted or refused.
Launch ==
  /\ pc = "launch" /\ tries < Tries /\ tries' = tries + 1
  /\ IF app # None /\ app.title = tid THEN UNCHANGED <<app, starts, loaded, seen>>
     ELSE Starts(tid)
  /\ UNCHANGED <<image, pc, args, found, mark, told, failed, dump, memr>>
Refused ==
  /\ pc = "launch" /\ tries < Tries
  /\ IF op = "reset"
     THEN tries' = tries + 1 /\ UNCHANGED <<console, pc, args, found, notes, dump, memr>>
     ELSE Finish
Launched == pc = "launch" /\ tries = Tries /\ Finish

-------------------------------------------------------------------------------
(* Modules: p2s_moduleList, p2s_moduleInfo, p2s_moduleLoadStart, ...       *)

\* Seeded fault: the process found before is used again.
AimAtFirst ==
  /\ pc = "aim" /\ pc' = "act" /\ pid' = (IF starts > 0 THEN 1 ELSE Own)
  /\ UNCHANGED <<console, args, id, then, tries, notes, dump, memr>>

\* if (pid < 0) pid = sceKernelGetProcessId()
Aim ==
  /\ pc = "aim" /\ pc' = "act" /\ pid' = (IF pid = None THEN Own ELSE pid)
  /\ UNCHANGED <<console, args, id, then, tries, notes, dump, memr>>

Act ==
  /\ pc = "act" /\ pc' = "acted" /\ UNCHANGED <<app, starts, image>>
  /\ \/ op \in {"modstart", "modstartp"} /\ Running(pid) /\ loaded' = loaded \cup {<<pid, uid>>}
     \/ op \in {"modstop", "modstopp"} /\ loaded' = loaded \ {<<pid, uid>>}
     \/ UNCHANGED loaded
  /\ UNCHANGED <<args, found, tries, notes, dump, memr>>
Acted == pc = "acted" /\ Finish

-------------------------------------------------------------------------------
(* kpsp2shell_dump_module and kpsp2shell_dump.                             *)

DumpKept == UNCHANGED <<console, args, found, tries, mark, seen, told, memr>>
Size == Segs[uid][seg]
Part == IF Size - pos > CHUNK_SIZE THEN CHUNK_SIZE ELSE Size - pos

Info ==
  /\ pc = "info" /\ <<pid, uid>> \in loaded /\ pc' = "segment" /\ seg' = 1
  /\ UNCHANGED <<pos, chunk, file, ret, failed>> /\ DumpKept
NoInfo == pc = "info" /\ Finish

\* Seeded fault: a segment left out is not passed.
SkipSegmentStays ==
  /\ pc = "segment" /\ seg <= 4 /\ Size = 0 /\ UNCHANGED seg
  /\ UNCHANGED <<pc, pos, chunk, file, ret, failed>> /\ DumpKept

SkipSegment ==
  /\ pc = "segment" /\ seg <= 4 /\ Size = 0 /\ seg' = seg + 1
  /\ UNCHANGED <<pc, pos, chunk, file, ret, failed>> /\ DumpKept

OpenSegment ==
  /\ pc = "segment" /\ seg <= 4 /\ Size > 0 /\ UNCHANGED chunk /\ DumpKept
  /\ \/ /\ pc' = "copy" /\ pos' = 0 /\ file' = [file EXCEPT ![seg] = <<>>]
        /\ UNCHANGED <<seg, ret, failed>>
     \/ \E e \in {-1, 0} : /\ ret' = e /\ Fails("dump") /\ seg' = seg + 1
                           /\ UNCHANGED <<pc, pos, file>>

\* ksceKernelMemcpyUserToKernelForPid, whose result nobody looks at.
Copy ==
  /\ pc = "copy" /\ pos < Size /\ pc' = "write" /\ UNCHANGED <<seg, pos, file, ret>>
  /\ DumpKept
  /\ \/ /\ Running(pid) /\ UNCHANGED failed
        /\ chunk' = [k \in 1 .. CHUNK_SIZE |->
                       IF k <= Part THEN <<uid, seg, pos + k - 1>> ELSE chunk[k]]
     \/ Fails("dump") /\ UNCHANGED chunk

\* Seeded fault: the last part of a segment is written as a whole buffer.
WriteWhole ==
  /\ pc = "write" /\ pc' = "copy" /\ pos' = pos + CHUNK_SIZE
  /\ UNCHANGED <<seg, chunk, ret, failed>> /\ DumpKept
  /\ file' = [file EXCEPT ![seg] = @ \o chunk]

\* ksceIoWrite, whose result nobody looks at either.
Write ==
  /\ pc = "write" /\ pc' = "copy" /\ pos' = pos + Part /\ UNCHANGED <<seg, chunk, ret>>
  /\ DumpKept
  /\ \/ file' = [file EXCEPT ![seg] = @ \o SubSeq(chunk, 1, Part)] /\ UNCHANGED failed
     \/ Fails("dump") /\ UNCHANGED file

CloseSegment ==
  /\ pc = "copy" /\ pos >= Size /\ pc' = "segment" /\ seg' = seg + 1 /\ ret' = 0
  /\ UNCHANGED <<pos, chunk, file, failed>> /\ DumpKept

Dumped ==
  /\ pc = "segment" /\ seg = 5 /\ pc' = "dumped"
  /\ UNCHANGED <<seg, pos, chunk, file, ret, failed>> /\ DumpKept
DumpTold == pc = "dumped" /\ Finish

DumpCmd ==
  \/ Info \/ NoInfo \/ SkipSegment \/ OpenSegment \/ Copy \/ Write \/ CloseSegment
  \/ Dumped \/ DumpTold

-------------------------------------------------------------------------------
(* cmd_memr.                                                               *)

\* Seeded fault: the step is counted in words, not in bytes.
MemLineSkip ==
  /\ pc = "memr" /\ addr < max /\ shown' = shown \cup {addr} /\ addr' = (addr + 2 * Line) % Word
  /\ UNCHANGED <<console, pc, args, found, tries, notes, dump, from, max>>

MemLine ==
  /\ pc = "memr" /\ addr < max /\ shown' = shown \cup {addr} /\ addr' = (addr + Line) % Word
  /\ UNCHANGED <<console, pc, args, found, tries, notes, dump, from, max>>
MemEnd == pc = "memr" /\ addr >= max /\ Finish

-------------------------------------------------------------------------------
Steps ==
  \/ GetList \/ GetProcess \/ LookupFails \/ GetTitle \/ NoTitle \/ GetName \/ NoName
  \/ TellId \/ Tell \/ Destroy \/ DestroyAgain \/ Open \/ OpenFails \/ Launch \/ Refused \/ Launched
  \/ Aim \/ Act \/ Acted \/ DumpCmd \/ MemLine \/ MemEnd

Next == Command \/ Steps \/ Receive \/ ReceiveNothing \/ User

Spec == Init /\ [][Next]_vars

\* cmd_thread goes on; the client's data, new commands and the user are not promised.
FairSpec == Spec /\ WF_vars(Steps)

-------------------------------------------------------------------------------
(* Properties.                                                             *)

\* The variables stay in their ranges.
TypeOK ==
  /\ app \in Apps \cup {None} /\ starts \in 0 .. MaxStarts
  /\ image \in {"old", "empty", "new", "bad"} /\ loaded \subseteq Procs \X Mods
  /\ tid \in Titles \cup {None} /\ uid \in Mods \cup {None} /\ id \in Apps \cup {None}
  /\ pid \in Procs \cup {None} /\ tries \in 0 .. Tries /\ seg \in 0 .. 5 /\ ret \in {-1, 0}
  /\ seen \cup told \subseteq Apps \cup {None} /\ failed \subseteq Calls
  /\ shown \subseteq 0 .. Word - 1

\* A module command without a process acts on one that was the running application at some
\* moment of the command, and on SceShell only if at some moment none was running or a call
\* of the lookup failed, which it takes for the same; and title tells of such applications,
\* although each looks the process up anew.
AimedAt ==
  /\ TypeOK
  /\ pc = "act" /\ op \in {"modls", "modinfo", "modstart", "modstop"} =>
       \/ pid = Own /\ (None \in seen \/ "lookup" \in failed)
       \/ \E a \in seen \ {None} : a.pid = pid
  /\ told \subseteq seen

\* While load or reload writes eboot.bin its application does not run, but for one that the
\* user started meanwhile or that sceAppMgrDestroyOtherApp failed to end; and they start it
\* only with what the client sent, or after an error of the connection.  Neither error is
\* looked at.
Replaced ==
  /\ pc \in {"open", "receive"} /\ app # None =>
       app.title # tid \/ app.pid > mark \/ "destroy" \in failed
  /\ pc \in {"again", "launch"} /\ op \in {"load", "reload"} =>
       image = "new" \/ "receive" \in failed

Whole(s) == file[s] = [k \in 1 .. Segs[uid][s] |-> <<uid, s, k - 1>>]
AllWhole == \A s \in 1 .. 4 : Segs[uid][s] > 0 => Whole(s)

\* A dump in which no call failed has every byte of every segment at its place.
DumpFaithful == pc = "dumped" /\ "dump" \notin failed => ret = 0 /\ AllWhole

\* psp2shell_m/source/module.c:220 "module dump success": a dump reported as one has them.
\* It does not hold: the result is that of the last segment's ksceIoOpen.
DumpReported == pc = "dumped" /\ ret = 0 => AllWhole

\* memr shows every address asked for, and no line that begins outside, when the range ends
\* inside the address space.
MemShown ==
  LET last == from[1] + from[2] - 1 IN
  pc = "memr" /\ addr >= max /\ last + 1 < Word =>
    /\ \A x \in from[1] .. last : \E l \in shown : l <= x /\ x < l + Line
    /\ shown \subseteq from[1] .. last

\* Each command ends, but for memr on a range whose last line ends the address space: its
\* address starts anew from 0.
Endless == pc = "memr" /\ ~ \E k \in 0 .. Word : from[1] + k * Line \in max .. Word - 1
CommandEnds == pc # "idle" /\ ~Endless ~> pc \in {"idle", "receive"}
===============================================================================
