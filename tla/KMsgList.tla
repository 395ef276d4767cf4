------------------------------- MODULE KMsgList -------------------------------
(***************************************************************************)
(* The kernel plugin's message list (psp2shell_k/main.c): a static array   *)
(* of MSG_MAX slots, filled by the print hooks on whatever thread prints   *)
(* (Producers) and emptied by the one thread that calls                    *)
(* kpsp2shell_wait_buffer.  Nothing locks the array, so the loads and      *)
(* stores of a slot are steps of their own.                                *)
(*                                                                         *)
(* Every message of Msgs is printed at most once, which bounds behaviours. *)
(* A slot's text is abstracted to the message it came from, or Blank after *)
(* the memset.  contended, kept, missed and taken are history variables.   *)
(***************************************************************************)
EXTENDS Integers

CONSTANTS
  Producers,     \* threads that print
  Msgs,          \* messages they print
  Blank,         \* the text of a slot that was just cleared
  MSG_MAX,       \* number of slots
  P2S_MSG_LEN,   \* bytes of a slot
  Lens,          \* lengths a print may have
  Fds,           \* file descriptors a program may write to
  StdoutFd       \* the descriptor __stdout_fd is initialised with

ASSUME ConstantsAssumption ==
  /\ Blank \notin Msgs
  /\ MSG_MAX \in Nat \ {0}
  /\ P2S_MSG_LEN \in Nat \ {0}
  /\ Lens \subseteq Nat
  /\ StdoutFd \in Fds

VARIABLES
  ready,         \* a shell is attached
  stdout_fd,     \* __stdout_fd
  text, len,     \* kmsg_list[i].msg and kmsg_list[i].len
  pc, cur, n, at,              \* per producer: position, message, length, slot
  cpc, ci, count,              \* the drain: position, slot, entries of msg_list filled
  printed,       \* messages already printed
  contended,     \* messages stored while another thread had the same slot in hand
  kept,          \* messages stored with a positive length
  missed,        \* a message printed to an attached shell was not stored
  taken          \* how often a message was copied out

prodVars == <<pc, cur, n, at>>
consVars == <<cpc, ci, count>>
vars == <<ready, stdout_fd, text, len, prodVars, consVars,
          printed, contended, kept, missed, taken>>

Slots  == 0 .. MSG_MAX - 1
Texts  == Msgs \cup {Blank}
\* A producer between finding a free slot and setting its length.
Window == {"blank", "copy", "commit"}

Init ==
  /\ ready = FALSE /\ stdout_fd = StdoutFd
  /\ text = [i \in Slots |-> Blank] /\ len = [i \in Slots |-> 0]
  /\ pc = [p \in Producers |-> "idle"]
  /\ cur = [p \in Producers |-> Blank]
  /\ n = [p \in Producers |-> 0] /\ at = [p \in Producers |-> 0]
  /\ cpc = "idle" /\ ci = 0 /\ count = 0
  /\ printed = {} /\ contended = {} /\ kept = {} /\ missed = FALSE
  /\ taken = [m \in Msgs |-> 0]

-------------------------------------------------------------------------------
\* kpsp2shell_set_ready: the user plugin attaches or detaches a shell.
SetReady(b) ==
  /\ ready # b /\ ready' = b
  /\ UNCHANGED <<stdout_fd, text, len, prodVars, consVars,
                 printed, contended, kept, missed, taken>>

\* sceKernelGetStdout_hook: remember the descriptor a program got.
GetStdout(fd) ==
  /\ stdout_fd # fd /\ stdout_fd' = fd
  /\ UNCHANGED <<ready, text, len, prodVars, consVars,
                 printed, contended, kept, missed, taken>>

\* Calling kp2s_add_msg(l, m) on thread p.
CallAdd(p, m, l) ==
  /\ pc' = [pc EXCEPT ![p] = "scan"] /\ cur' = [cur EXCEPT ![p] = m]
  /\ n' = [n EXCEPT ![p] = l] /\ at' = [at EXCEPT ![p] = 0]

\* Leaving kp2s_add_msg: its locals are gone.
Return(p) ==
  /\ pc' = [pc EXCEPT ![p] = "idle"] /\ cur' = [cur EXCEPT ![p] = Blank]
  /\ n' = [n EXCEPT ![p] = 0] /\ at' = [at EXCEPT ![p] = 0]

\* ksceDebugPrintf_hook, ksceDebugPrintf2_hook
DebugPrintf(p, m, l) ==
  /\ pc[p] = "idle" /\ m \notin printed
  /\ printed' = printed \cup {m}
  /\ IF ready THEN CallAdd(p, m, l) ELSE UNCHANGED prodVars
  /\ UNCHANGED <<ready, stdout_fd, text, len, consVars, contended, kept, missed, taken>>

\* sceIoWrite_hook: what does not fit a slot is not even offered to the list.
Write(p, m, fd, size) ==
  /\ pc[p] = "idle" /\ m \notin printed
  /\ printed' = printed \cup {m}
  /\ IF fd = stdout_fd /\ ready /\ size < P2S_MSG_LEN
     THEN CallAdd(p, m, size) /\ UNCHANGED missed
     ELSE /\ UNCHANGED prodVars
          /\ missed' = (missed \/ (fd = stdout_fd /\ ready))
  /\ UNCHANGED <<ready, stdout_fd, text, len, consVars, contended, kept, taken>>

-------------------------------------------------------------------------------
\* Producers, other than p, storing into slot i.
Rivals(p, i) == {q \in Producers \ {p} : pc[q] \in Window /\ at[q] = i}

\* The drain is copying or clearing slot i.
DrainHas(i) == cpc \in {"copy", "clear"} /\ ci = i

\* Seeded fault: the free-slot test is forgotten.
ScanFreeUntested(p) ==
  /\ pc[p] = "scan" /\ at[p] < MSG_MAX
  /\ pc' = [pc EXCEPT ![p] = "blank"]
  /\ UNCHANGED <<ready, stdout_fd, text, len, cur, n, at, consVars,
                 printed, contended, kept, missed, taken>>

\* kp2s_add_msg, one round of the for loop: the slot is free, taken, or past the end.
ScanFree(p) ==
  /\ pc[p] = "scan" /\ at[p] < MSG_MAX /\ len[at[p]] <= 0
  /\ pc' = [pc EXCEPT ![p] = "blank"]
  /\ LET rivals == Rivals(p, at[p])
     IN contended' = contended \cup {cur[q] : q \in rivals}
          \cup (IF rivals # {} \/ DrainHas(at[p]) THEN {cur[p]} ELSE {})
  /\ UNCHANGED <<ready, stdout_fd, text, len, cur, n, at, consVars,
                 printed, kept, missed, taken>>

ScanNext(p) ==
  /\ pc[p] = "scan" /\ at[p] < MSG_MAX /\ len[at[p]] > 0
  /\ at' = [at EXCEPT ![p] = @ + 1]
  /\ UNCHANGED <<ready, stdout_fd, text, len, pc, cur, n, consVars,
                 printed, contended, kept, missed, taken>>

ScanFull(p) ==
  /\ pc[p] = "scan" /\ at[p] = MSG_MAX
  /\ Return(p)
  /\ missed' = TRUE
  /\ UNCHANGED <<ready, stdout_fd, text, len, consVars,
                 printed, contended, kept, taken>>

\* memset of the slot's text
BlankText(p) ==
  /\ pc[p] = "blank"
  /\ text' = [text EXCEPT ![at[p]] = Blank]
  /\ pc' = [pc EXCEPT ![p] = "copy"]
  /\ UNCHANGED <<ready, stdout_fd, len, cur, n, at, consVars,
                 printed, contended, kept, missed, taken>>

\* strncpy into the slot's text
CopyText(p) ==
  /\ pc[p] = "copy"
  /\ text' = [text EXCEPT ![at[p]] = cur[p]]
  /\ pc' = [pc EXCEPT ![p] = "commit"]
  /\ UNCHANGED <<ready, stdout_fd, len, cur, n, at, consVars,
                 printed, contended, kept, missed, taken>>

\* Seeded fault: the length is stored as the print reported it.
ClampForgotten(l) == l

\* new_len: a longer text was cut to the slot.
Clamp(l) == IF l > P2S_MSG_LEN THEN P2S_MSG_LEN ELSE l

\* kmsg_list[i].len = new_len; a length of 0 leaves the slot free.
SetLen(p) ==
  /\ pc[p] = "commit"
  /\ len' = [len EXCEPT ![at[p]] = Clamp(n[p])]
  /\ Return(p)
  /\ kept' = IF Clamp(n[p]) > 0 THEN kept \cup {cur[p]} ELSE kept
  /\ UNCHANGED <<ready, stdout_fd, text, consVars, printed, contended, missed, taken>>

-------------------------------------------------------------------------------
\* kpsp2shell_wait_buffer
DrainBegin ==
  /\ cpc = "idle"
  /\ cpc' = "test"
  /\ UNCHANGED <<ready, stdout_fd, text, len, prodVars, ci, count,
                 printed, contended, kept, missed, taken>>

\* Seeded fault: the slot is released before it was copied.
DrainTestReleases ==
  /\ cpc = "test" /\ ci < MSG_MAX
  /\ IF len[ci] > 0 THEN cpc' = "copy" /\ UNCHANGED ci
                    ELSE ci' = ci + 1 /\ UNCHANGED cpc
  /\ len' = [len EXCEPT ![ci] = 0]
  /\ UNCHANGED <<ready, stdout_fd, text, prodVars, count,
                 printed, contended, kept, missed, taken>>

DrainTest ==
  /\ cpc = "test" /\ ci < MSG_MAX
  /\ IF len[ci] > 0 THEN cpc' = "copy" /\ UNCHANGED ci
                    ELSE ci' = ci + 1 /\ UNCHANGED cpc
  /\ UNCHANGED <<ready, stdout_fd, text, len, prodVars, count,
                 printed, contended, kept, missed, taken>>

DrainCopy ==
  /\ cpc = "copy" /\ cpc' = "clear"
  /\ taken' = [m \in Msgs |-> IF text[ci] = m THEN taken[m] + 1 ELSE taken[m]]
  /\ UNCHANGED <<ready, stdout_fd, text, len, prodVars, ci, count,
                 printed, contended, kept, missed>>

DrainClear ==
  /\ cpc = "clear" /\ cpc' = "test"
  /\ len' = [len EXCEPT ![ci] = 0]
  /\ count' = count + 1 /\ ci' = ci + 1
  /\ UNCHANGED <<ready, stdout_fd, text, prodVars,
                 printed, contended, kept, missed, taken>>

DrainEnd ==
  /\ cpc = "test" /\ ci = MSG_MAX
  /\ cpc' = "idle" /\ ci' = 0 /\ count' = 0
  /\ UNCHANGED <<ready, stdout_fd, text, len, prodVars, printed, contended, kept, missed, taken>>

Drain == DrainBegin \/ DrainTest \/ DrainCopy \/ DrainClear \/ DrainEnd

Add(p) == ScanFree(p) \/ ScanNext(p) \/ ScanFull(p)
            \/ BlankText(p) \/ CopyText(p) \/ SetLen(p)

Next ==
  \/ \E b \in BOOLEAN : SetReady(b)
  \/ \E fd \in Fds : GetStdout(fd)
  \/ \E p \in Producers, m \in Msgs, l \in Lens :
       DebugPrintf(p, m, l) \/ \E fd \in Fds : Write(p, m, fd, l)
  \/ \E p \in Producers : Add(p)
  \/ Drain

Spec == Init /\ [][Next]_vars

\* thread_kbuf polls the list as long as client->msg_sock is there, whether the ready flag
\* is set or not: what is claimed to happen in the end is claimed for a system to which a
\* shell stays connected, or connects again and again.
FairSpec == Spec /\ WF_vars(Drain)

-------------------------------------------------------------------------------
\* The variables stay in their ranges.  In particular the drain's cursors stay
\* inside the two arrays: count never runs ahead of ci, so the writes to the
\* caller's msg_list of MSG_MAX entries are in bounds even while producers refill
\* slots the drain has already passed.
TypeOK ==
  /\ ready \in BOOLEAN /\ stdout_fd \in Fds
  /\ text \in [Slots -> Texts] /\ len \in [Slots -> 0 .. P2S_MSG_LEN]
  /\ pc \in [Producers -> {"idle", "scan"} \cup Window]
  /\ cur \in [Producers -> Texts] /\ n \in [Producers -> Nat]
  /\ at \in [Producers -> 0 .. MSG_MAX]
  /\ cpc \in {"idle", "test", "copy", "clear"}
  /\ ci \in 0 .. MSG_MAX /\ count \in 0 .. ci
  /\ cpc \in {"copy", "clear"} => ci < MSG_MAX
  /\ printed \in SUBSET Msgs /\ contended \in SUBSET Texts
  /\ kept \in SUBSET Texts /\ missed \in BOOLEAN
  /\ taken \in [Msgs -> Nat]

\* Slot i holds m for the reader: it will be copied out by the drain.
Holds(i, m) == text[i] = m /\ len[i] > 0 /\ ~(cpc = "clear" /\ ci = i)

\* A message kp2s_add_msg stored while no other thread had the slot in hand is
\* neither lost, nor blanked, nor handed over twice: it waits in a slot until
\* kpsp2shell_wait_buffer copies it out, exactly once.
ExactlyOnce ==
  \A m \in kept \ contended :
    \/ taken[m] = 0 /\ \E i \in Slots : Holds(i, m)
    \/ taken[m] = 1 /\ \A i \in Slots : ~Holds(i, m)

\* README.MD:42 "to not miss some messages, the module wait for the shell on every
\* print": no message printed to an attached shell is missed.  It does not hold: a message
\* that finds all slots in use is dropped.
NothingMissed == ~missed

\* What the abstract log sees of message m.
Seen(m) == IF m \notin kept \ contended THEN "new"
           ELSE IF taken[m] = 0 THEN "kept" ELSE "got"
SeenState == [m \in Msgs |-> Seen(m)]

Pipe == INSTANCE LogPipe WITH state <- SeenState

\* Refinement: for the messages stored without contention the list is the abstract
\* log, so none of them is lost between kp2s_add_msg and kpsp2shell_wait_buffer, and
\* thread_kbuf's polling hands every one of them over in the end.
PipeSpec == Pipe!Spec
===============================================================================
