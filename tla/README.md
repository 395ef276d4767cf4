# psp2shell: a TLA+ model

psp2shell is a remote shell for the PS Vita: a kernel plugin that collects what
programs print, a user plugin that serves one client over two TCP connections,
and a client for the PC.  Nothing in it takes a lock, and almost no result of a
system call is looked at twice, so what the program does is decided by the order
in which its threads, its two connections and the client's calls meet.  The modules
here describe that order.

Paths below are relative to the repository's root.

## 1. The system

| component | source | state | operations |
|---|---|---|---|
| kernel message list | `psp2shell_k/main.c` | `kmsg_list[MSG_MAX]`, `ready`, `__stdout_fd` | `kp2s_add_msg`, the print, write and stdout hooks, `kpsp2shell_wait_buffer`, `kpsp2shell_set_ready` |
| kernel dump, module information | `psp2shell_k/main.c` | the chunk buffer, one for all | `kpsp2shell_dump_module`, `kpsp2shell_get_module_info`, `..._list` |
| server threads and life cycle | `psp2shell_m/source/main.c`, `utility.c`, `psp2shell_loader` | `client`, `quit`, `server_sock_msg`, `server_sock_cmd`, the thread ids | `thread_wait`, `cmd_thread`, `thread_kbuf`, `psp2shell_exit`, `module_start`, `module_stop` |
| command connection | `common/p2s_cmd.c`, `psp2shell_m/source/cmd.c`, `psp2shell_cli/source/cmd.c` | `client->cmd_sock`, the receive buffer | `p2s_cmd_receive`, the handlers, uploads (`put`, `load`, `reload`) and their results |
| message connection | `psp2shell_print_color`, `common/p2s_msg.c`, `psp2shell_cli/source/main.c` | `client->msg_sock` | prints with a reply, kernel text without one, `msg_thread` |
| files | `psp2shell_m/source/file.c`, `cmd.c` | the file system, the C stack of recursive calls | `mv`, `rm`, `rmdir` |
| working directory, directory list | `file.c`, `cmd.c` | `client->fileList` with its path and its ordered linked list | `cd`, `ls`, `pwd`, `s_fileListGetEntries`, `s_fileListAddEntry`, `s_fileListEmpty` |
| client | `psp2shell_cli/source` | `msg_sock`, `cmd_sock`, the terminal's settings, the line being edited | connecting, reconnecting, the restart, a handler per command, `msg_thread` |
| loader | `psp2shell_loader/source/main.c` | the ids of the two loaded modules | load and unload from the pad |
| modules, threads, memory, applications | `psp2shell_m/source/module.c`, `thread.c`, `utility.c`, `cmd.c` | none of their own: the running application, its modules and its `eboot.bin` are the console's | `load`, `reload`, `reset`, `launch`, `title`, `mod*`, `kmod*`, `memr`, `memw` |
| debug screen, build files, hook installation | | | |

How they interact:

- Any thread of the console that prints calls the hooks; they write the message
  list while `thread_kbuf` empties it with `kpsp2shell_wait_buffer` and sends the
  texts on `client->msg_sock`.
- `thread_wait` accepts a connection on the message port and starts a
  `cmd_thread`, which clears the one `s_client`, accepts the second connection, sets
  the kernel's ready flag and serves commands.  `psp2shell_exit` closes the sockets,
  joins the threads and frees the `s_client` the others use.
- Commands go one way on the command connection and only uploads are answered
  there; all other output is a print on the message connection, which the client
  answers with one byte.  Both connections are byte streams: one `recv` may return
  several commands or prints, of which the receivers look at the first.

What makes each of them correct:

| component | property | hazard behind it |
|---|---|---|
| message list | what was stored is handed over once, intact, and in the end | slot test and slot length are separate accesses, by any number of threads |
| server | no socket is forgotten; two sockets of a session belong together; nobody uses a freed `s_client`; the kernel logs only for a session; the slot becomes free again; `module_stop` ends | all orders of two clients, the network, three kinds of threads and the exit |
| command connection | data is not parsed as commands, uploads are intact, each answer reaches its upload | coalesced commands, a missing buffer, a file that changes, a lost connection |
| message connection | every print returns; how far the server may run ahead of the client | replies carry no identity, a time-out, kernel text on the same socket |
| files | a command that stops halfway loses only what it was to lose | every system call may fail; recursion over directories being changed |
| directory list | linked both ways, nothing lost, sorted, complete, whatever order entries come in | insertion at the head, the tail and between; freeing |
| working directory | the list shown is that of the path; `cd ..` goes up; every command ends | directories deleted between two calls, a path restored from the argument |
| log delivery | a running session neither loses messages nor gets another's; the exit comes to an end | `thread_kbuf` uses an `s_client` that is cleared, reused and freed under it |
| client | one reader per connection; a restart inherits nothing; the terminal is given back; the end is noticed | two threads, two global sockets and a terminal without a lock, `execvp` from one of them |
| applications, modules, dump | a command acts on what was running, a dump without errors is exact, `memr` shows what was asked for and ends | a process looked up with two calls, results nobody looks at, addresses that wrap around |

## 2. The modules

| module | models | uses |
|---|---|---|
| `LogPipe` | abstract: what a log promises its reader | |
| `KMsgList` | the kernel's message list and its hooks | refines `LogPipe` |
| `KMsgListProofs` | theorems about it | `KMsgList` |
| `ShellServer` | `thread_wait`, `cmd_thread`, `psp2shell_exit`, the sockets | |
| `ShellServerProofs` | theorems about it | `ShellServer` |
| `CmdLink` | one session's command connection, both ends | |
| `CmdLinkProofs` | theorems about it | `CmdLink` |
| `MsgLink` | one session's message connection, both ends | |
| `MsgLinkProofs` | theorems about it | `MsgLink` |
| `FileOps` | `mv`, `rm`, `rmdir` | |
| `FileOpsProofs` | theorems about it | `FileOps` |
| `FileList` | `s_fileListGetEntries`, `s_fileListAddEntry`, `s_fileListEmpty` | |
| `WorkDir` | `cd` and `ls` of a session, the file system changing meanwhile | extends `FileList` |
| `FileListProofs` | theorems about both | `FileList`, `WorkDir` |
| `LogDelivery` | `thread_kbuf`, the sessions and `psp2shell_exit` | takes the message list as what `KMsgList` was shown to be |
| `ClientLife` | `psp2shell_cli`: `main` and its `msg_thread`s | |
| `LifeCycleProofs` | theorems about how the two programs end and begin | `LogDelivery`, `ClientLife` |
| `DevCmds` | commands on applications, modules and memory; the dump in the kernel | |
| `DevCmdsProofs` | theorems about it | `DevCmds` |
| `MC...` | constants for TLC | |

A definition marked "Seeded fault" is the definition after it with a plausible mistake.
No specification uses it; `PROJECT.json` lists which property fails when it takes its
place, so that every property is known to depend on the code it is about.

### KMsgList

A step of a thread is one access to a slot: the test of `kmsg_list[i].len`
(`ScanFree`, `ScanNext`, `ScanFull`), the `memset` (`BlankText`), the `strncpy`
(`CopyText`), the store of the length (`SetLen`); and likewise in the drain
(`DrainTest`, `DrainCopy`, `DrainClear`).  A text is the name of the message it came
from.  Lengths are kept, because they decide whether a slot is free, whether a
text is cut and whether `sceIoWrite_hook` offers it at all.

Two threads that have the same slot in hand at the same time can overwrite each
other's text, and one of the messages then vanishes; `contended` records which messages
were stored that way, `kept` which were stored at all.  `ExactlyOnce` is about `kept
\ contended`: the point is that contention on one slot harms no message in another,
and that the drain, which does hold slots while producers look for one, harms none.

### ShellServer

A step is what a thread does between two accesses to something shared: the
`s_client`'s fields, `quit`, a server socket, the ready flag.  So the test of
`client->cmd_sock` in `thread_wait`, the start of `cmd_thread`, its `memset`, its two
assignments and the call of `set_ready` are separate steps.  In `thread_wait` the
test of `quit` (`WaitLoop`) is separate from the `accept` it may then block in.
`psp2shell_exit` has a position for each of its callers: `module_stop`, `thread_wait`, and a `cmd_thread` that
carries out `reboot` (`Stops` says which of them occur).  The two waits in it are for other
threads; the kernel refuses a thread's wait for itself, so that a rebooting `cmd_thread` goes on to free the
`s_client` it uses.  A command is carried out at once or is an upload, which ends or, when the connection is
gone or the socket was closed, spins in `p2s_recvall` (`"spin"`).
Clients connect to the message port, then to the command port, may send commands,
and leave at any moment.  `NetDrop` breaks all connections and makes `accept` fail
until the server is opened again.

Irregular events are named in `mishaps`, so that a property can say what it depends on:

- `"rushed"`: a client was admitted while another `cmd_thread` was alive, a `cmd_thread`
  was started after `quit` was set, or one could not be created;
- `"stray"`: a connection may be left in the command port's queue whose client has
  no session (it was refused, it left, or two clients connected at the same time).

`fault` is set when a thread uses the freed `s_client`; nothing happens after that.

### CmdLink

The connection carries units (a command, an upload command, a block of file data).
A receive takes any number of units that have arrived and the parser sees the first;
what came with it is noted in `lost`.  `p2s_recv_file` takes a unit as it comes,
whatever it is.  A `recv` that fails with -1 counts as a block (`Garbage`); one that reports the end, or
fails with another code, which `p2s_recvall` takes off what is left to receive, makes it spin for ever (`FileSpins`).
File data that reaches the parser may be read as any command, `put`, `load` and `reload` with their
answers and their uploads included (`ReceiveData`): such a command is number 0 in `executed`.
`upset` names the irregular events the properties exclude: the file changed between its size and
its data, the server had no buffer, the connection was lost.

### MsgLink

One thread prints and waits; `thread_kbuf` sends kernel text on the same socket.
`msg_thread` looks at the first characters of what one `recv` returned and answers
at most once.  A unit is a print, a text, or a text that happens to begin like a
print.  The replies are a number: they are all the same byte.

### FileOps

`s_movePath` and `s_removePath` call themselves for each directory entry; `stack` is the
C stack, one frame per call, and a step is one system call.  Each call may fail
(`MaxFaults` times), and directory reads may or may not show entries added while the
directory is open.  A file's contents are named by the path it had when the
command began, so "lost" means that no path has them.

A path stands for the file it names.  The code compares strings, and `toAbsolutePath` can spell one path in two ways:
after `cd ..` the working path ends in a slash (`cmd.c:189`), and `b` becomes `ux0://b`.  So `cmd.what` says whether the two arguments of an `mv`
are spelt alike, and only then `Refused` sees that the destination is the source or inside it.  For
`rm` it says whether `s_isDir` had an answer.

### FileList and WorkDir

`FileList` has the list as the code has it: blocks with `next` and `previous`, `head`, `tail` and
three counters.  A step is an entry read and allocated (`Read`, `AddUp`), one node
passed by the search (`Walk`), one of the three ways to link (`LinkFirst`,
`LinkLast`, `LinkBetween`) or one block freed (`Free`).  `Rank` gives the order of names when case
is ignored.  `sceIoDread` gives the names in any order, and its loop ends at the
last name or at an error (`ReadEnd`).  A missing block is `InsertFault`: the code writes through
what `p2s_malloc` returned.

`WorkDir` extends it with one session.  A path is a sequence of names.  Between two
system calls other programs create and delete files (`Create`, `Delete`), so that
`s_exist` may find what `sceIoDopen` no longer does.  `cd` is `Cd`, `CdEmpty`, `CdList` and, when the
directory cannot be opened, `CdBack` and `CdRelist`; `ls` uses a list of its own, on the stack:
the session's list is kept in `mine` meanwhile.  That list's head is not cleared
before use.  With zeroes there `Ls` happens, with anything else `LsJunk`, after which nothing is
promised.

### LogDelivery

`thread_kbuf` reads `client` and `client->msg_sock` twice, drains the kernel's list in
between and sends afterwards: `Top`, `Test`, `Field`, `Drain`, `Retest`, `Send`.  `cmd_thread` clears
the `s_client` (its `msg_sock` is 0 for a moment: `ZeroSock`), sets it, sets the ready
flag, and undoes all that; `psp2shell_exit` may run at any point, called by `module_stop` or, through
`reboot`, by `cmd_thread` itself.  The message list is what section 2's `KMsgList`
implements: a hook that finds the flag set stores its message later, or drops it.  Sessions do
not overlap here, since `ShellServer` has the cases in which they do; thread_wait is left
out but for that.  `owner` is the session a message was printed in, `to` the one it was sent
to.  A use of the freed `s_client` sets `fault`, and nothing happens after that.

### ClientLife

The two global sockets, the file descriptors behind them and the terminal, with a step per
access by `main` or by a `msg_thread`.  Descriptors are given out from the lowest, so that a
socket closed by one thread may be another connection to the next.  A `recv` keeps the
connection it began on.  The server, or the network, ends connections (`Lose`), with an
orderly end or a reset: `getsockopt(SO_ERROR)` reports only the second, once, to whoever asks first.  A
`send` on a connection whose end was reported kills the process (`proc = "pipe"`), and so does CTRL+C
(`Interrupted`) while `sigint` is `"default"`: before `connect_psp2` set the handler, after `msg_thread` took it
away, and in the program that `execvp` started until it has connected.  The other ways to end are `exit`
(`"exited"`), and `readline` without its handler or an `execvp` without `_argv` (`"killed"`).  `Exec` is `execvp`: all
threads vanish, the open descriptors stay.  `gen` numbers the calls of `connect_psp2`; `early` and
`beside` record in which of them the end was seen before the call was through, and which
began while an older `msg_thread` was there.

### DevCmds

The console runs one application; the user starts and ends applications between any two
system calls of a command.  `p2s_get_running_app_pid` is two calls, `GetList` and `GetProcess`,
and `title`, `reset` and the module commands make one or several such lookups.  `seen` collects
what ran since the command began.  Any call may fail; where the command does not look at the
result, or takes it for something else, `failed` notes the kind of call: `"lookup"` (an error of
either call is taken for no application), `"destroy"` (`sceAppMgrDestroyOtherApp` left the application
running), `"receive"` and `"dump"`.  `launch` and `load` call `sceAppMgrDestroyOtherApp` in
`p2s_launch_app_by_uri` (`DestroyAgain`), `load` for the second time.  `kpsp2shell_dump` copies through the chunk buffer, whose old contents stay when the copy
fails.  Memory addresses are taken modulo `Word`.

## 3. What is checked

| run | instance | shows |
|---|---|---|
| `kmsg` | 2 producers, 3 messages, 2 slots of 2 bytes, lengths 0, 1, 3, 2 descriptors | `TypeOK` (which holds both arrays' bounds), `ExactlyOnce`, and that the list implements `LogPipe`, liveness included |
| `shell` | 2 clients, 1 failure, the module may stop and either client reboot | the five safety invariants and `SessionStable`, every action |
| `shell_live` | 2 clients, 1 failure | `SlotFreed`, `Answered` under fairness |
| `shell_stop` | 2 clients, commands and uploads, stop at any point | `StopEnds`: the only ways in which `module_stop` can hang |
| `shell_unload` | 1 client | a counterexample to `StopTerminates` |
| `cmdlink` | 3 commands, files of 0 to 2 blocks | `DataKept` (file data is not parsed, uploads are intact), `Matched` (commands run in order; each result reaches its upload, until file data is carried out as a command), `Answered`, `UploadEnds` |
| `msglink` | 3 prints, 2 kernel texts | `RunAhead`, `ReplyIsOwn`, `PrintReturns` |
| `fileops` | every tree over 9 paths, 2 failing calls | `FilesKept` (which files a command may lose wherever it stops, and the three cases in which it loses more), `DeletedGone`, `Ends` |
| `workdir` | every tree over 6 paths on 2 devices, 8 arguments, 5 blocks, 1 failing open | `SortedList`, `Complete`, `ListIsCwd`, `UpGoesUp`, `CommandEnds` |
| `logdelivery` | 2 sessions, 2 messages, both callers of the exit | `SessionKeeps`, `LastPass`, `Delivered`, `Resets` |
| `clientlife` | 2 calls of `connect_psp2`, 2 lost connections, with and without a command in `argv` | `TerminalKept`, `OneReader`, `CleanRestart`, `EndNoticed` |
| `devcmds` | 2 titles, 3 starts, a module of segments of 3, 0, 2 and 0 bytes, a chunk of 2, addresses of 0 to 7 | `AimedAt`, `Replaced`, `DumpFaithful`, `MemShown`, `CommandEnds` |

### Bounds and why they are enough

What section 4 proves does not depend on these bounds; for the rest:

- `kmsg`: two producers are what a race needs, with the drain as a third party; two slots
  make "the other slot" and "full" happen, three messages refill a slot behind
  the drain's cursor.  Lengths 0, 1 and 3 against a slot of 2 bytes are: leaves the slot
  free, fits, is cut (or refused by the write hook).
- `shell*`: every session-to-session effect (refusal, two at once, one session's end
  during another's start) takes two clients; each client connects once, so that a name
  stands for its sockets.  One failure at a time is a drop, a failed bind or a failed
  thread creation, at any point.  One unread command tells "nothing to read" from "something to
  read", and after it was read the same or the other client sends one again.  `shell_live` and `shell_stop` leave out the
  command reboot, whose end is `logdelivery`'s `Resets`; `shell_live` has no `module_stop` and `shell_stop` no
  failures: `shell` has them all for safety.  Clients are interchangeable in `shell`, which uses that (`SYMMETRY`); the runs with liveness
  do not.
- `cmdlink`: an upload, a command pipelined behind it and one more that meets the
  result; two blocks tell first and last.
- `msglink`: two prints give the shift of replies, a third that it lasts.
- `workdir`: a directory in a directory in a device, so that `..` has three different
  outcomes; two files whose names differ only in case, one directory whose entries go to
  the head, between and to the tail; 5 blocks are too few for the session's and
  `ls`'s longest lists together, so that memory runs out as well.
- `logdelivery`: two sessions, so that one can begin while `thread_kbuf` holds what it
  took in the other; two messages tell a batch from its rest; both ways to call the exit,
  also at the same time.
- `clientlife`: two connections and two losses are a restart and a reconnection, together
  and apart; descriptors never run out (four are the sockets of both).  A third call
  adds a second restart, whose start is a state of the first, as the program keeps
  descriptors and terminal only; and a `msg_thread` that closes, through the globals, the
  sockets of the second call, after which main connects a third time beside two readers.
  `beside` names that case in the properties, and with one loss they were checked for three
  calls and six descriptors as well.
- `devcmds`: an application that ends and another one of either title in its place, within one
  command, with one more start to be told from it; segments that are a chunk and a part, empty, and a
  chunk exactly; two of the 40 tries tell the first and the last; all ranges of 8
  addresses, those that wrap around included.
- `fileops`: two directories of the same shape, three levels deep, so that a move
  merges directories, replaces files and recurses twice; one failure in the middle
  and one more on the way out.

### Fairness

- `KMsgList`: `WF(Drain)`.  `thread_kbuf` polls as long as a shell has a socket; so
  what happens in the end is claimed for a system to which a shell stays connected or
  connects again.  Producers need no fairness: a message counts once it is stored.
- `ShellServer`: weak fairness of `thread_wait`, of each `cmd_thread` and of each
  caller of `psp2shell_exit`.  The threads have the same priority and block in system
  calls.  Clients, the network and the caller of `module_stop` promise nothing.
- `CmdLink`: weak fairness of `cmd_thread`, and of a client's handler once it was
  entered; the user need not type anything.  The session ends only if the client does.
- `MsgLink`: `msg_thread` receives, and a wait that can end ends.  Prints and texts are free.
- `FileOps`, `WorkDir`, `DevCmds`: `cmd_thread` goes on with its command.  The user, other
  programs, new commands and, in an upload, the client's data are not promised.
- `LogDelivery`: weak fairness of `thread_kbuf`, of `cmd_thread` where it does not wait for its
  client, and of each caller of the exit.
- `ClientLife`: weak fairness of `main` where it does not wait for a key or a result, and of each
  `msg_thread`; `connect` succeeds in the end, which is what its loop waits for.

`CHECK_DEADLOCK FALSE` is set where the program may stop: after the bounded number of
commands, prints or clients, after `module_stop`, or in one of the waits the properties
name.  `kmsg` is checked for deadlock: the drain can always go on.

## 4. What is proved

`KMsgListProofs` proves, for any set of producers, any set of messages and any
number of slots:

| theorem | statement |
|---|---|
| `TypeCorrect` | `Spec => []TypeOK`: in particular both cursors stay inside their arrays |
| `InvariantCorrect` | `Spec => []IInv` |
| `KeptExactlyOnce` | `Spec => []ExactlyOnce` |
| `ImplementsLogPipe` | `Spec => Pipe!Safety`: the safety part of the refinement |

Assumption: `ConstantsAssumption` (at least one slot, of at least one byte; `Blank` is
not a message; lengths are natural numbers), which TLC evaluates in `kmsg`.

`ExactlyOnce` is not inductive: it says nothing of a message that is still on its way
into a slot.  `IInv` adds

- `Identity`: a message is in one thread's hands at most, and a thread with a slot in
  hand has a slot;
- `Fresh`: a message that is about to be stored was not stored, copied or left in a slot
  before;
- `Alone`: a thread with a message that is not contended is the only one, the drain
  included, that has that slot in hand;
- `Accounted`: for each message stored without contention, in which slot it is and
  how far the drain is with that slot.

`Alone` is the heart of it.  A slot is entered only when its length is 0, the length
becomes positive only when the producer leaves, and back to 0 only when the drain does;
so a slot is in one thread's hand unless two pass the test before either
leaves, and that is when `ScanFree` marks both messages as contended.  There is one lemma
per action; a step that changes none of the variables `IInv` reads is covered by
`Frame`.

`ShellServerProofs` proves all safety properties of `ShellServer`, for any set of clients
and any bounds:

| theorem | statement |
|---|---|
| `TypeCorrect` | `Spec => []TypeOK` |
| `LogsCorrect` | `Spec => []LogsForSession` |
| `JoinedCorrect` | `Spec => []JoinedBeforeFree` |
| `SocketsCorrect` | `Spec => []SocketsOwned` |
| `StableCorrect` | `Spec => SessionStable`, an action property |
| `PairedCorrect` | `Spec => []Paired` |

Assumption: `ConstantsAssumption` (the markers for no thread, no socket and a cleared
socket field are not threads or sockets).  What each needs beyond the property itself:

- `TypeCorrect`: `InHand`, that thread_wait has an accepted socket between `accept` and
  the start of a `cmd_thread`.
- `LogsCorrect`: `StartedOnce`.  A client goes from the message port's queue to
  thread_wait's hand and from there to one `cmd_thread`, so that starting a thread never takes
  the place of the one that is going to clear the flag.
- `JoinedCorrect`: `OneThread`, that outside the "rushed" mishaps the only thread alive is
  the one whose id `psp2shell_exit` will join and none is alive just before the next is
  started; `Rebooting`, that a `cmd_thread` that called `psp2shell_exit` is in that call, or `quit` is set and it
  receives nothing more, so that it never calls it again; and `Joined`, that an exit past its join has
  `quit` set and nobody left but its caller.
  `MonotoneStep` (mishaps and `quit` are never taken back, only `WaitSpawn` makes a
  thread) carries both across all other actions.
- `SocketsCorrect`: `Owned`.  An open socket is in a field of the `s_client`, in
  thread_wait's hand or in that of a thread about to store it, and the fields are
  empty (`Fields`) whenever a thread is going to fill them, so that no store
  overwrites a socket.
- `StableCorrect`: `OneThread` and `Joined` again; who writes the field is the session's own thread.
- `PairedCorrect`: `Pairing`.  The port alone cannot tell whose connection is first.  Put all
  clients without a command socket in one line (the session that starts, the one in
  thread_wait's hand, the message port's queue): the command port's queue is exactly the
  first part of that line, and the others are half connected (`Lined`).  Outside the "stray"
  mishaps a client comes to either queue's end only when those before it are through,
  and a session takes the head of both.  Once thread_wait has ended only the starting session
  counts (`First`), and `CmdOnce` says that a command connection is accepted once.

`FileListProofs` proves, for any names, any order of them and any number of blocks, and for
any tree, arguments and changes of the file system meanwhile:

| theorem | statement |
|---|---|
| `ListSorted` | `Spec => []SortedList` of `FileList`: types, links in both directions, order |
| `ListComplete` | `Spec => []Complete` of `FileList`: following `next` "length" times meets every name, once |
| `SessionLists` | `WDSpec => [](SortedList /\ Complete)`: also when `cd` and `ls` take turns with two lists |
| `ListIsCwdCorrect` | `WDSpec => []ListIsCwd` |
| `UpGoesUpCorrect` | `WDSpec => UpGoesUp`, an action property |

Assumptions: `ConstantsAssumption` of `FileList` (".." is a folder, folders are names, a rank for
each name, `NULL` is not a block) and `WorkDirAssumption` (of it only that arguments are
sequences of names), which TLC evaluates in `workdir`.

`WellLinked` says of each node that its neighbours point back, which a list that falls into a
chain and a separate circle would also satisfy; and `LinkLast` trusts `tail`, not the
node the search ended at.  So the inductive invariant says that all blocks stand in
one row: there is a sequence of distinct blocks, from `head` to `tail`, in which `next` and `previous`
lead from each to its neighbours (`Row`), and it is sorted (`Chain`).  With it

- `Searching` says of the search that `prev` is right before `p` in that row and that all nodes up
  to `prev` may stand before the new one, so the place the search stops at is the right one for
  either neighbour (`PassedInOrder`, `StopInOrder`);
- `RowInsert` puts an element into a row, and is used once for each of the three ways
  to link (`Splice`, `Place`, `LinkInv`);
- `Rest` says of the freeing that the blocks still held are the part of the row from the cursor on,
  so that the cursor's `next` is read before its block is gone and the list is empty at the end.

`ListComplete` adds that a name is in a block as soon as it is read, and only there (`Named`), and
what the counters count (`Counted`).  `Complete` follows `next` with a recursive function; that it
meets the row in its order (`RowMet`) is an induction, done with the least number at
which the two differ (`Least`, from the library's theorem that < is well founded on
the natural numbers, which has no operator for a parameter).

For a session, `Stored` says the same of the list that `cmd_ls` puts aside, in the blocks `others`,
and `OthersKept` that no step of `FileList` touches a field of those blocks; `Placed` says where
`cmd_thread` can be while a list is read or freed.  `Shows` relates the list to the path (a list
opened for a path that is not `HOME_PATH` has ".."), `Goes` the path to the argument of `cd`.

`CmdLinkProofs` proves, for any number of commands and any sizes of files:

| theorem | statement |
|---|---|
| `DataKeptCorrect` | `Spec => []DataKept` |
| `MatchedCorrect` | `Spec => []Matched` |

Assumption: `ConstantsAssumption` (both bounds are natural numbers).  The invariant `Link` says of the
stream that commands on their way are newer than those that arrived (`Fresh`) and keep their
order (`InOrder`), that nothing is under way to a client once the connection is lost (`Broken`), that, until file
data is carried out as a command (`Stray`), a client that waits has sent nothing after its upload and
the one answer under way is for it (`Talk`), and, unless `upset`, that the blocks the server
still waits for are exactly those at the head of the stream and those the client is still
to send, numbered without a gap after what is stored (`Account`).  File data is never
parsed because the server is counting blocks whenever one is at the head.

`MsgLinkProofs` proves, for any number of prints and texts:

| theorem | statement |
|---|---|
| `RunAheadCorrect` | `Spec => []RunAhead` |
| `ReplyIsOwnCorrect` | `Spec => []ReplyIsOwn` |

Assumption: `ConstantsAssumption` (both bounds are natural numbers).  Replies are a number, so both rest
on one `Balance`: prints that returned too early, replies and lookalikes under way together are
not more than time-outs, lookalikes sent and the reply the waiting print is owed.  It needs that
prints begin in turn (`InTurn`), that a connected client has received each print or will
(`Arrives`), and that none begins twice in the stream (`UnitsInOrder`).

`LifeCycleProofs` proves how the two programs end and begin.  It extends both modules, which is
why definitions of `LogDelivery` have names like `LogSpec` and `ExitClose`, where `ClientLife` has `Spec` and `Close`.  Of `LogDelivery`, for any number of
messages and any set of sessions:

| theorem | statement |
|---|---|
| `LastPassCorrect` | `LogSpec => []LastPass` |
| `SessionKeepsCorrect` | `LogSpec => []SessionKeeps` |

Assumption: `LogAssumption` (the markers are not sessions).  `LastPass` needs where `thread_kbuf` is in the
one pass it may still make after `quit` (`OnePass`).  `SessionKeeps` needs that sessions come
one after the other (`OneSession`), that `thread_kbuf` came past its tests only with this
session's client (`Asked`, `Connected`), and that a message of the running session that is in
its hands or in the list is either still sent to that session or was printed when an exit
had begun (`OwnedLate`, `SentTo`, `MsgsKept`).

Of `ClientLife`, for any number of calls of `connect_psp2`, of lost connections and of restarts:

| theorem | statement |
|---|---|
| `ClientInvariant` | `Spec => []IInv` |
| `TerminalKeptCorrect` | `Spec => []TerminalKept` |
| `OneReaderCorrect` | `Spec => []OneReader` |
| `CleanRestartCorrect` | `Spec => CleanRestart`, an action property |

Assumption: `ConstantsAssumption`.  Calls and descriptors are finitely many and numbered from 1, and there are two
descriptors for each call, so that none of them runs out: an error of `socket` is not modelled.

The three properties speak of different things (a socket left open, a second reader, the terminal), but rest on
the same question: what happens to the first call of a process, which is the one that is not in `beside`.  `IInv` has

- `Order`: calls begin in turn, all threads but the first are in `beside`, and where `main` can be before and
  after a call; `Returns`: what `main` does after it closed the sockets;
- `Files`: a socket is open at one descriptor at most.  Otherwise closing a global would not close the connection.
  That a descriptor is free when `connect_psp2` needs one (`FreeFd`) follows by counting: while one of the
  sockets of all calls is not open, fewer descriptors are in use than there are;
- `Owned`: an open descriptor is of a call whose thread is in this process, or one of the two exceptions;
- `Shut`: a socket of the first call that is still open is the one the global names, and neither `main` nor a thread
  is past closing it.  So when a thread comes to `execvp` all of them are closed, whoever closed them;
- `Joined`: while `main` is in `connect_psp2`, the thread of that call reads, or is in `early`;
- `Kept`: while the first thread reads and no error was reported on its connections, no later call begins and
  `main` does not close the sockets, unless it was asked to end.  That is `OneReader`; it needs
  `Unborn`, that a connection that is not made yet has no error pending;
- `Terminal`: without exceptions, what `setup_terminal` saved is what the user had, and it has been put back once anyone
  is past `close_terminal`; it is raw exactly while `readline_callback` is set, so that `readline` breaks down with the
  user's terminal only; and while it is raw, CTRL+C has its handler, `main` is about to set it, or a `msg_thread` has
  taken it away and is about to call `close_terminal`.  `TerminalKept` says nothing of SIGPIPE.

`PlainFacts` and the lemmas beside it say what the steps have in common (most change neither a socket nor the
terminal, both close the sockets in the same way, a thread moves on alone), so that
each part of `IInv` is shown for a few kinds of steps instead of for every action.

`DevCmdsProofs` proves, for any titles, processes, modules and segments, any chunk, address space and
line length:

| theorem | statement |
|---|---|
| `AimedAtCorrect` | `Spec => []AimedAt` |
| `ReplacedCorrect` | `Spec => []Replaced` |
| `DumpFaithfulCorrect` | `Spec => []DumpFaithful` |
| `MemShownCorrect` | `Spec => []MemShown` |

Assumption: `ConstantsAssumption`.  The address space has to be a whole number of lines (2^32 and 16 in the
code): with one of 8 and lines of 3, `memr` shows a line twice when it wraps around, and TLC
refutes `MemShown`.  `None` is not an application.

- `AimedAtCorrect`: what each place between the two calls knows (`Listed`: if the first of the list no longer
  runs, nothing ran at some moment since; `Aiming`, `Aimed`; `Nothing`, when SceShell may be meant).
- `ReplacedCorrect`: `Numbered`, that what the user starts after the command ended the application has a higher
  number than all before, unless `"destroy"` is in `failed`; `Received`, what is in `eboot.bin` when the application is started.
- `DumpFaithfulCorrect`: the file is the segments done, and the first bytes of the one at hand
  (`DumpDone`, `DumpFile`); what `DumpChunk` says of the buffer holds for the part that is written
  only, as the rest is left over from the chunk before.
- `MemShownCorrect`: either `memr` has shown all from the start of its range to its address (`Straight`), or the
  address started anew and the last line of the address space is in the range still to come
  (`Astray`), to which it returns for ever.

`FileOpsProofs` proves, for any set of paths, any file system over them and any number of failing calls:

| theorem | statement |
|---|---|
| `FilesKeptCorrect` | `Spec => []FilesKept` |
| `DeletedGoneCorrect` | `Spec => []DeletedGone` |

Assumption: `ConstantsAssumption` (a path is a sequence of names that is not empty, with every path the one above it
is there too; a session starts with a tree).

- The algebra of paths comes first, by elements of sequences: `Under` is an order in which what is above a path
  forms a chain (`UnderOrder`); `Moved` leads below the destination, can be undone (`MovedBack`), keeps the order and
  can be done in two parts (`MovedUnder`), and commutes with `Parent` (`MovedParent`) and with appending an entry's
  name, as `s_movePath` does (`MovedEntry`).
- Trees: what is above an existing path is a directory (`DirsAbove`) and a directory without entries has nothing
  below it (`NoneBelow`), both by a shortest path below (`NearestBelow`); deletions and `sceIoRename` keep a tree
  (`DeleteTree`, `RenameTree`).
- `Stacked` relates the C stack to the command: the outermost frame has its source; each caller reads a
  directory above its callee's; a frame's destination is its source moved as the command says; a directory that is
  read, and the two files of a replacement, are still what `sceIoGetstat` said.
- `Single`: there is nothing below the path of an `rm` whose stat was answered, so it deletes one file (`OnlyFile`).
- `Found` says where files are meanwhile, unless `mv` goes upwards or onto an alias of its source: below the source nothing but what was there; a
  file of the source there or at the corresponding path; any other file where it was, unless a file of the
  source corresponds to its path.  The two sides have no path in common (`Apart`), so that neither the
  removal of the file in the way nor the final `sceIoRmdir` meets the only copy of anything.
- `StepChanges` names the five things a step may do to the file system, `StepTurns` the four to the stack; the
  invariant is then shown for each of these and not for each of the actions again.

Model-checked only: liveness, which the prover does not do, that is the fairness of `LogPipe!Spec`, every `~>` property
and the other properties that say something happens in the end (`CommandEnds`, `Ends`, `UploadEnds`, `StopEnds` and
their like).  All safety and action properties of the runs are proved.

## 5. What the checks found

`shell_unload` is a run: `psp2shell_exit` joins the last `cmd_thread` before it closes the command
port (`psp2shell_m/source/main.c:340`); a client that connected only the message port
keeps that thread in `accept`, and the unload never ends.

The modules also have formulas that state what a comment, a message or a document
says and that do not hold.  No run has them; each is its module's last or next to last
property and TLC refutes it in the configuration of that module's first run:

| formula | what is said | what the code does |
|---|---|---|
| `KMsgList!NothingMissed` | `README.MD:42`: "to not miss some messages, the module wait for the shell on every print" | no hook waits, and a message is dropped when all slots are in use (`psp2shell_k/main.c:43`) |
| `ShellServer!OneClient` | `psp2shell_m/source/main.c:230`: "max client/socket count reached" | the slot looks free from the `accept` of a client until its `cmd_thread` has accepted the second connection; a second client is let in |
| `MsgLink!TimeoutMeansUnreceived` | `psp2shell_m/source/main.c:80`: "wait for client to receive message" | a print received behind kernel text is shown but not answered, and the server waits for its whole time-out |
| `FileOps!MovedReported` | `psp2shell_m/source/cmd.c:294`: "moved `%s` to `%s`" | printed for a source that does not exist too (`file.c:428`) |
| `DevCmds!DumpReported` | `psp2shell_m/source/module.c:220`: "module dump success" | the result is that of the last segment's `ksceIoOpen`; failed copies and writes, and an open that returns 0, count as done |
| `ClientLife!ExitStays` | `psp2shell_cli/source/cmd.c:458`: "Exit the shell." | `close_socks` in `cmd_exit` wakes `msg_thread`, whose `execvp` may come before `exit`: the program starts anew |

Also seen, and excluded by name in the properties:

- an upload command received behind another command is lost and its client waits for
  ever (`CmdLink!Answered` excludes commands in `lost`);
- `mv ux0:/b ux0:` with `ux0:/b/a` and `ux0:/b/b/a` loses `ux0:/b/a`: a directory moved
  into one above it is merged into what is being read (`FileOps!Upwards`);
- after `cd ..` to `ux0:/`, `mv b ux0:/b` loses `ux0:/b`: the spellings `ux0://b` and `ux0:/b` pass the checks of
  `file.c:417` and `:423`, the rename finds the destination there, and `:453` removes it (`FileOps!Aliased`);
- `rm` deletes a directory with all that is in it when `sceIoGetstat` fails in `s_isDir` (`file.c:73`; the exception
  in `FileOps!OnlyFile`);
- a `recv` that fails with -1 in an upload counts as a block of data (`CmdLink!upset`, `DevCmds!failed`), and `load`
  then launches what is there; a client that closes its connection in an upload, or `psp2shell_exit`
  closing the socket under it, leaves `cmd_thread` spinning, since `p2s_recvall` knows no failure but -1
  (`utility.c:214`; `ShellServer!SlotFreed`, and `StopEnds`: `module_stop` then waits for ever);
- file data that gets to the parser and reads as `put`, `load` or `reload` sends an answer to a client that did
  not ask, and what the client sends next goes into a file (`CmdLink!Stray`);
- `reboot` frees the `s_client` under the `cmd_thread` that carries it out: its wait for itself is refused
  (`main.c:340`), and when `psp2shell_exit` returns it closes the sockets through what was freed
  (`ShellServer!JoinedBeforeFree`, `LogDelivery!Resets`);
- `load` does not look at the result of `sceAppMgrDestroyOtherApp` (`cmd.c:134`): when it fails, `eboot.bin` of a
  running application is truncated (`"destroy"` in `DevCmds!Replaced`);
- when a call of `p2s_get_running_app_pid` fails, a module command takes it for no application and
  acts on SceShell, with an application running (`module.c:65`, `"lookup"` in `DevCmds!AimedAt`);
- a client that leaves between its two connections leaves one in the command port's
  queue for the next session (`ShellServer!Paired`);
- after a failed `cd` the path is what was typed, "..", a relative path or one that does not
  exist, with an empty list; from ".." the next `cd ..` leads to the start (`WorkDir!UpGoesUp`);
- `ls` reads the head of a list on its stack that nobody cleared (`WorkDir!LsJunk`);
- `thread_kbuf` and a thread in `psp2shell_exit` or `cmd_thread` may go through the freed `s_client`
  (`LogDelivery!fault`), `thread_kbuf` in one pass only (`LastPass`);
- messages left over from an ended session are sent to the next client (`SessionKeeps` is about the
  running session's own);
- after a reset the client's `main` connects anew and leaves the old `msg_thread` in its `recv`
  (`ClientLife!OneReader`); when that one ends it closes the new sockets, `main` connects once more, and
  the reader in between is left too, with no reset of its own (`beside`); and a `msg_thread` that sees the end while `main` is still connecting
  leaves the restarted program an open socket (`early`) and a terminal set to zeroes;
- the client ends with the terminal as `setup_terminal` made it when a `send` raises SIGPIPE, and when CTRL+C comes
  between `setup_terminal` and the handler (`psp2shell_cli/source/main.c:144-146`) or between the handler's removal
  and `close_terminal` (243-244): `ClientLife!TerminalKept` names these;
- `memr` of a range whose last line ends the address space starts anew at 0 (`DevCmds!Endless`).

## 6. What is not modelled

- The text of commands and prints: `CmdLink` has three kinds of commands, `MsgLink` three
  kinds of units, the other modules take arguments apart already.
- The retry of `p2s_netInit`: one step that succeeds or, once `quit` is set, gives up.  What a
  half initialised network does afterwards is the system's and not in this repository.
- `s_copyPath`, `s_copyFile`, `s_getPathInfo` and the unsorted insertion: no caller.
- `memw` and `thlist`, loops over what one system call returned; `umount`, two system calls;
  `mount`, whose body is compiled out, so that `title` falling through to it has no effect.
- In the client: errors of `socket` and `pthread_create`, line editing, history, help, `print_hex`.
- The loader: `taiLoadStartModule` and `taiStopUnloadModule` on a button, with the result drawn;
  what `module_stop` then does is in `ShellServer`.
- Drawing of the debug screen, one-call hook installation, the build.

## 7. Plan

Done, in this order: the message list and its proof, because every thread of the
console passes through it; the server's threads; the two connections; files; the directory list
with its proof and the working directory; the delivery of the log across sessions; the client; the
commands on applications, modules and memory.

Theorems: first the message list and its refinement, then the server, the directory list, the delivery
of the log, the commands, both connections, files, and the client.

Worth doing next: the loops over one system call's results (`memw`, `thlist`) and the retry of `p2s_netInit`, once a
reader needs them; of the theorems, only liveness is left.
