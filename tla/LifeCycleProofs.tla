---------------------------- MODULE LifeCycleProofs ----------------------------
(***************************************************************************)
(* Theorems about how the two programs end and begin, for every value of   *)
(* the constants.  Of LogDelivery, the server's side: thread_kbuf makes    *)
(* one pass at most once quit is set, and the messages of a session that   *)
(* runs are neither lost nor misdirected.  Of ClientLife, the client's: a  *)
(* program started anew has no socket of the one before it, the terminal   *)
(* is given back, and one msg_thread reads.                                *)
(***************************************************************************)
EXTENDS LogDelivery, ClientLife, FiniteSetTheorems, WellFoundedInduction, TLAPS

(***************************************************************************)
(* LogDelivery.                                                            *)
(***************************************************************************)

Stages == {"new", "hook", "dropped", "stored", "batch", "sent", "lost"}
SesPcs == {"new", "clear", "setmsg", "on", "run", "reboot", "off", "close", "forget", "done"}
KbufPcs == {"top", "test", "field", "drain", "retest", "send", "done"}
ExitPcs == {"idle", "check", "set", "unready", "close", "forget", "join", "free", "null",
            "server", "done"}

-------------------------------------------------------------------------------
(* Type correctness, one group of variables at a time.                     *)

LogType ==
  /\ where \in [Msgs -> Stages] /\ owner \in [Msgs -> Sessions \cup {NoOne}]
  /\ to \in [Msgs -> Sessions \cup {NoOne}]
FlagType == ready \in BOOLEAN /\ quit \in BOOLEAN /\ reset \in BOOLEAN /\ fault \in BOOLEAN
SClientType ==
  /\ client \in [at : {"memory", "freed", "null"}, msg : Sessions \cup {NoSock, ZeroSock}]
  /\ open \subseteq Sessions
StepType ==
  ses \in [Sessions -> SesPcs] /\ kbuf \in KbufPcs /\ late \in 0 .. 2
  /\ exit \in [Exiters -> ExitPcs]

LEMMA LogTypeParts == LogTypeOK <=> LogType /\ FlagType /\ SClientType /\ StepType
BY DEF LogTypeOK, LogType, FlagType, SClientType, StepType, Stages, SesPcs, KbufPcs, ExitPcs

LEMMA LogTypePartsNext == LogTypeOK' <=> LogType' /\ FlagType' /\ SClientType' /\ StepType'
BY DEF LogTypeOK, LogType, FlagType, SClientType, StepType, Stages, SesPcs, KbufPcs, ExitPcs

LEMMA LogTypeInit == LogInit => LogTypeOK
<1> SUFFICES ASSUME LogInit PROVE LogType /\ FlagType /\ SClientType /\ StepType
  BY LogTypeParts
<1>1. LogType
  BY DEF LogInit, LogType, Stages
<1>2. FlagType /\ SClientType
  BY DEF LogInit, FlagType, SClientType
<1>3. StepType
  BY DEF LogInit, StepType, SesPcs, KbufPcs, ExitPcs
<1>4. QED
  BY <1>1, <1>2, <1>3

\* The kernel's hooks.
LEMMA HookType ==
  ASSUME LogTypeOK, NEW m \in Msgs, Hook(m)
  PROVE  LogTypeOK'
<1>1. LogType'
  BY LogTypeParts DEF Hook, Printed, Store, LogType, Stages
<1>2. QED
  BY <1>1, LogTypeParts, LogTypePartsNext DEF Hook, FlagType, SClientType, StepType

\* thread_kbuf.
LEMMA KbufType ==
  ASSUME LogTypeOK, ThreadKbuf
  PROVE  LogTypeOK'
<1> USE LogTypeParts
<1>1. SClientType' /\ UNCHANGED <<ready, quit, client, open, ses, exit, reset>>
  BY DEF ThreadKbuf, SClientType
<1>2. LogType' /\ fault' \in BOOLEAN /\ kbuf' \in KbufPcs /\ late' \in 0 .. 2
  <2>1. CASE Top \/ Test \/ SendEnd
    BY <2>1 DEF Top, Test, SendEnd, Kbuf, Unsent, Fine, log, LogType, FlagType, StepType, KbufPcs
  <2>2. CASE Field
    BY <2>2 DEF Field, Unsent, Through, Fine, Crash, log, LogType, FlagType, StepType, KbufPcs
  <2>3. CASE Drain
    BY <2>3 DEF Drain, Kbuf, Fine, LogType, FlagType, StepType, KbufPcs, Stages
  <2>4. CASE Retest
    BY <2>4 DEF Retest, Through, Fine, Crash, LogType, FlagType, StepType, KbufPcs, Stages
  <2>5. CASE Send
    <3>1. LogType'
      BY <2>5 DEF Send, LogType, SClientType, Batch, Stages
    <3>2. QED
      BY <2>5, <3>1 DEF Send, Through, Fine, Crash, FlagType, StepType, KbufPcs
  <2>6. QED
    BY <2>1, <2>2, <2>3, <2>4, <2>5 DEF ThreadKbuf
<1>3. QED
  BY <1>1, <1>2, LogTypePartsNext DEF FlagType, StepType

\* cmd_thread.
LEMMA CmdType ==
  ASSUME LogTypeOK, NEW c \in Sessions, CmdThread(c)
  PROVE  LogTypeOK'
<1> USE LogTypeParts
<1>1. LogType' /\ UNCHANGED <<quit, kbuf, late>>
  BY DEF CmdThread, LogType, log
<1>2. ses' \in [Sessions -> SesPcs]
  BY DEF CmdThread, Obliged, StartSession, Leave, Reboot, Clear, SetMsg, SetReady, ColdReset,
         CloseSock, Forget, Ses, StepType, SesPcs
<1>3. exit' \in [Exiters -> ExitPcs]
  BY DEF CmdThread, Obliged, StartSession, Leave, Reboot, Clear, SetMsg, SetReady, ColdReset,
         CloseSock, Forget, Put, StepType, ExitPcs, Exiters
<1>4. SClientType'
  BY DEF CmdThread, Obliged, StartSession, Leave, Reboot, Clear, SetMsg, SetReady, ColdReset,
         CloseSock, Forget, Put, SClientType
<1>5. FlagType'
  BY DEF CmdThread, Obliged, StartSession, Leave, Reboot, Clear, SetMsg, SetReady, ColdReset,
         CloseSock, Forget, Put, Fine, Crash, FlagType
<1>6. QED
  BY <1>1, <1>2, <1>3, <1>4, <1>5, LogTypePartsNext DEF StepType

\* psp2shell_exit.
LEMMA ExitType ==
  ASSUME LogTypeOK, NEW e \in Exiters, Psp2shellExit(e)
  PROVE  LogTypeOK'
<1> USE LogTypeParts
<1>1. LogType' /\ UNCHANGED <<ses, kbuf, late, reset>>
  BY DEF Psp2shellExit, LogType, log
<1>2. exit' \in [Exiters -> ExitPcs]
  BY DEF Psp2shellExit, ExitCheck, SetQuit, Unready, ExitClose, ExitForget, Join, Free, SetNull,
         EndServer, Exit, StepType, ExitPcs
<1>3. SClientType'
  BY DEF Psp2shellExit, ExitCheck, SetQuit, Unready, ExitClose, ExitForget, Join, Free, SetNull,
         EndServer, SClientType
<1>4. FlagType'
  BY DEF Psp2shellExit, ExitCheck, SetQuit, Unready, ExitClose, ExitForget, Join, Free, SetNull,
         EndServer, FlagType
<1>5. QED
  BY <1>1, <1>2, <1>3, <1>4, LogTypePartsNext DEF StepType

LEMMA LogTypeStep == LogTypeOK /\ [LogNext]_logVars => LogTypeOK'
<1> SUFFICES ASSUME LogTypeOK, [LogNext]_logVars PROVE LogTypeOK'
  OBVIOUS
<1>1. CASE UNCHANGED logVars
  BY <1>1 DEF logVars, log, LogTypeOK
<1>2. CASE Stop
  BY <1>2, LogTypeParts, LogTypePartsNext
  DEF Stop, ModuleStop, Exit, log, LogType, FlagType, SClientType, StepType, ExitPcs, Exiters
<1>3. QED
  BY <1>1, <1>2, HookType, KbufType, CmdType, ExitType DEF LogNext

LEMMA LogTypeInvariant == LogSpec => []LogTypeOK
BY LogTypeInit, LogTypeStep, PTL DEF LogSpec

-------------------------------------------------------------------------------
(* One pass.  A drain counted in late leaves thread_kbuf on its way to the *)
(* loop's test of quit, which stays set: it takes no second.               *)

OnePass ==
  \/ late = 0
  \/ late = 1 /\ quit /\ kbuf \in {"retest", "send", "top", "done"}

LEMMA OnePassStep == OnePass /\ [LogNext]_logVars => OnePass'
<1> SUFFICES ASSUME OnePass, [LogNext]_logVars PROVE OnePass'
  OBVIOUS
<1>1. CASE UNCHANGED logVars
  BY <1>1 DEF logVars, OnePass
<1>2. CASE ThreadKbuf
  <2>1. CASE Top \/ Test \/ SendEnd
    BY <1>2, <2>1 DEF ThreadKbuf, Top, Test, SendEnd, Kbuf, Unsent, OnePass
  <2>2. CASE Field
    BY <1>2, <2>2 DEF ThreadKbuf, Field, Unsent, Through, OnePass
  <2>3. CASE Drain
    BY <1>2, <2>3 DEF ThreadKbuf, Drain, Kbuf, OnePass
  <2>4. CASE Retest \/ Send
    BY <1>2, <2>4 DEF ThreadKbuf, Retest, Send, Through, OnePass
  <2>5. QED
    BY <1>2, <2>1, <2>2, <2>3, <2>4 DEF ThreadKbuf
<1>3. ASSUME NEW e \in Exiters, Psp2shellExit(e) PROVE OnePass'
  <2>1. UNCHANGED <<late, kbuf>> /\ (quit => quit')
    BY <1>3 DEF Psp2shellExit, ExitCheck, SetQuit, Unready, ExitClose, ExitForget, Join, Free,
                SetNull, EndServer
  <2>2. QED
    BY <2>1 DEF OnePass
<1>4. CASE Stop
  BY <1>4 DEF Stop, ModuleStop, OnePass
<1>5. ASSUME NEW m \in Msgs, Hook(m) PROVE OnePass'
  BY <1>5 DEF Hook, OnePass
<1>6. ASSUME NEW c \in Sessions, CmdThread(c) PROVE OnePass'
  BY <1>6 DEF CmdThread, OnePass
<1>7. QED
  BY <1>1, <1>2, <1>3, <1>4, <1>5, <1>6 DEF LogNext

\* After psp2shell_exit set quit, thread_kbuf (psp2shell_m/source/main.c:256) takes messages
\* from the kernel once more at most.
THEOREM LastPassCorrect == LogSpec => []LastPass
<1>1. LogInit => OnePass
  BY DEF LogInit, OnePass
<1>2. OnePass => LastPass
  BY DEF OnePass, LastPass
<1>3. QED
  BY <1>1, <1>2, OnePassStep, PTL DEF LogSpec

-------------------------------------------------------------------------------
(* What a running session keeps.                                           *)

\* thread_wait lets one session in at a time.
OneSession == \A c, d \in Sessions : InSession(c) /\ InSession(d) => c = d

\* psp2shell_exit is past its test of quit only once it has set it.
QuitFirst == \A e \in Exiters : exit[e] \notin {"idle", "check", "set"} => quit

\* The kernel logs only for a session that has asked for it.
Asked == ready => \E c \in Sessions : ses[c] \in {"run", "reboot", "off"}

\* As long as nobody stops the module, the session's socket is open and in the s_client.
Connected ==
  \A c \in Sessions : ~quit =>
    /\ ses[c] \in {"clear", "setmsg", "on", "run", "reboot", "off", "close"} => c \in open
    /\ ses[c] \in {"on", "run", "reboot", "off", "close"} => client.msg = c

\* A message belongs to a session that got as far as its loop ...
OwnedLate ==
  \A m \in Msgs : owner[m] \in Sessions =>
    ses[owner[m]] \in {"run", "reboot", "off", "close", "forget", "done"}

\* ... it has been given to a client only if it was sent ...
SentTo == \A m \in Msgs : where[m] # "sent" => to[m] = NoOne

\* ... and the running session has lost none.
MsgsKept ==
  \A m \in Msgs : owner[m] \in Sessions /\ ses[owner[m]] = "run" /\ ~quit =>
    where[m] # "lost" /\ to[m] \in {NoOne, owner[m]}

Keeps ==
  OneSession /\ QuitFirst /\ Asked /\ Connected /\ OwnedLate /\ SentTo /\ MsgsKept

LEMMA KeepsInit == LogInit => Keeps
BY LogAssumption
DEF LogInit, Keeps, OneSession, QuitFirst, Asked, Connected, OwnedLate, SentTo, MsgsKept, InSession

LEMMA KeepsHook ==
  ASSUME LogTypeOK, Keeps, NEW n \in Msgs, Hook(n)
  PROVE  Keeps'
<1>1. UNCHANGED <<ready, quit, client, open, ses, exit>>
  BY DEF Hook
<1>2. OneSession' /\ QuitFirst' /\ Asked' /\ Connected'
  BY <1>1 DEF Keeps, OneSession, QuitFirst, Asked, Connected, InSession
<1>3. CASE Printed(n)
  <2>1. PICK c \in Sessions : InSession(c) /\ owner' = [owner EXCEPT ![n] = c]
    BY <1>3 DEF Printed
  <2>2. ses[c] \in {"run", "reboot", "off"}
    BY <1>3, <2>1 DEF Printed, Keeps, Asked, OneSession, InSession
  <2>3. /\ where[n] = "new" /\ where' = [where EXCEPT ![n] = "hook"] /\ UNCHANGED to
        /\ where \in [Msgs -> Stages] /\ owner \in [Msgs -> Sessions \cup {NoOne}]
    BY <1>3, LogTypeParts DEF Printed, LogType
  <2>4. OwnedLate'
    BY <1>1, <2>1, <2>2, <2>3 DEF Keeps, OwnedLate
  <2>5. SentTo' /\ MsgsKept'
    BY <1>1, <2>1, <2>3 DEF Keeps, SentTo, MsgsKept
  <2>6. QED
    BY <1>2, <2>4, <2>5 DEF Keeps
<1>4. CASE Store(n)
  <2>1. /\ \E w \in {"stored", "dropped"} : where' = [where EXCEPT ![n] = w]
        /\ where[n] = "hook" /\ UNCHANGED <<owner, to>> /\ where \in [Msgs -> Stages]
    BY <1>4, LogTypeParts DEF Store, LogType
  <2>2. OwnedLate' /\ SentTo' /\ MsgsKept'
    BY <1>1, <2>1 DEF Keeps, OwnedLate, SentTo, MsgsKept
  <2>3. QED
    BY <1>2, <2>2 DEF Keeps
<1>5. QED
  BY <1>3, <1>4 DEF Hook

\* Whatever thread_kbuf held when the session began, it sends to the session's socket.
LEMMA KeepsKbuf ==
  ASSUME LogTypeOK, Keeps, ThreadKbuf
  PROVE  Keeps'
<1>1. UNCHANGED <<ready, quit, client, open, ses, exit>> /\ LogType
  BY LogTypeParts DEF ThreadKbuf
<1>2. OneSession' /\ QuitFirst' /\ Asked' /\ Connected'
  BY <1>1 DEF Keeps, OneSession, QuitFirst, Asked, Connected, InSession
<1>3. UNCHANGED owner /\ OwnedLate'
  BY <1>1 DEF ThreadKbuf, Top, Test, Field, Drain, Retest, Send, SendEnd, Unsent, log, Keeps,
              OwnedLate
<1>4. CASE UNCHANGED log
  BY <1>1, <1>2, <1>3, <1>4 DEF log, Keeps, SentTo, MsgsKept
<1>5. CASE Drain
  <2>1. UNCHANGED to /\ where' = [m \in Msgs |-> IF where[m] = "stored" THEN "batch" ELSE where[m]]
    BY <1>5 DEF Drain
  <2>2. SentTo' /\ MsgsKept'
    BY <1>1, <1>3, <2>1 DEF Keeps, SentTo, MsgsKept
  <2>3. QED
    BY <1>2, <1>3, <2>2 DEF Keeps
<1>6. CASE Retest
  <2>1. /\ UNCHANGED to
        /\ where' = [m \in Msgs |->
                       IF where[m] = "batch" /\ client.msg = NoSock THEN "lost" ELSE where[m]]
    BY <1>6 DEF Retest
  <2>2. SentTo'
    BY <2>1 DEF Keeps, SentTo
  <2>3. ASSUME NEW c \in Sessions, ses[c] = "run", ~quit PROVE client.msg # NoSock
    BY <2>3, LogAssumption DEF Keeps, Connected
  <2>4. MsgsKept'
    BY <1>1, <1>3, <2>1, <2>3 DEF Keeps, MsgsKept
  <2>5. QED
    BY <1>2, <1>3, <2>2, <2>4 DEF Keeps
<1>7. CASE Send
  <2>1. PICK m \in Batch :
          IF client.msg \in open
          THEN where' = [where EXCEPT ![m] = "sent"] /\ to' = [to EXCEPT ![m] = client.msg]
          ELSE where' = [where EXCEPT ![m] = "lost"] /\ UNCHANGED to
    BY <1>7 DEF Send
  <2>2. m \in Msgs /\ where[m] = "batch"
    BY DEF Batch
  <2>3. SentTo'
    BY <1>1, <2>1, <2>2 DEF Keeps, SentTo, LogType
  <2>4. ASSUME NEW c \in Sessions, ses[c] = "run", ~quit PROVE client.msg = c /\ c \in open
    BY <2>4 DEF Keeps, Connected
  <2>5. MsgsKept'
    BY <1>1, <1>3, <2>1, <2>2, <2>4 DEF Keeps, MsgsKept, LogType
  <2>6. QED
    BY <1>2, <1>3, <2>3, <2>5 DEF Keeps
<1>8. QED
  BY <1>4, <1>5, <1>6, <1>7 DEF ThreadKbuf, Top, Test, Field, SendEnd, Unsent

LEMMA KeepsCmd ==
  ASSUME LogTypeOK, Keeps, NEW c \in Sessions, CmdThread(c)
  PROVE  Keeps'
<1>0. UNCHANGED <<log, quit>> /\ ses \in [Sessions -> SesPcs] /\ exit \in [Exiters -> ExitPcs]
  BY LogTypeParts DEF CmdThread, StepType
<1>1. SentTo'
  BY <1>0 DEF log, Keeps, SentTo
<1>2. QuitFirst'
  BY <1>0 DEF Keeps, QuitFirst, CmdThread, Obliged, StartSession, Leave, Reboot, Clear, SetMsg,
              SetReady, ColdReset, CloseSock, Forget, Put
<1>3. OneSession'
  <2>1. CASE StartSession(c)
    BY <1>0, <2>1 DEF Keeps, OneSession, InSession, StartSession, Ses
  <2>2. CASE Leave(c) \/ Reboot(c) \/ Obliged(c)
    <3>1. \A d \in Sessions : ses'[d] \notin {"new", "done"} => InSession(d)
      BY <1>0, <2>2 DEF InSession, Obliged, Leave, Reboot, Clear, SetMsg, SetReady, ColdReset,
                        CloseSock, Forget, Ses
    <3>2. QED
      BY <3>1 DEF Keeps, OneSession, InSession
  <2>3. QED
    BY <2>1, <2>2 DEF CmdThread
<1>4. Asked'
  <2>1. CASE ready' = FALSE
    BY <2>1 DEF Asked
  <2>2. CASE SetReady(c, "on", "run", TRUE)
    BY <1>0, <2>2 DEF SetReady, Ses, Asked
  <2>3. CASE UNCHANGED ready
    <3>1. \A d \in Sessions : ses[d] \in {"run", "reboot", "off"} /\ ready'
                                => ses'[d] \in {"run", "reboot", "off"}
      BY <1>0, <2>3 DEF CmdThread, Obliged, StartSession, Leave, Reboot, Clear, SetMsg, SetReady,
                        ColdReset, CloseSock, Forget, Ses
    <3>2. QED
      BY <2>3, <3>1 DEF Keeps, Asked
  <2>4. QED
    BY <2>1, <2>2, <2>3 DEF CmdThread, Obliged, StartSession, Leave, Reboot, Clear, SetMsg,
                            SetReady, ColdReset, CloseSock, Forget, Put
<1>5. Connected'
  <2> SUFFICES ASSUME NEW d \in Sessions, ~quit
               PROVE  /\ ses'[d] \in {"clear", "setmsg", "on", "run", "reboot", "off", "close"}
                           => d \in open'
                      /\ ses'[d] \in {"on", "run", "reboot", "off", "close"} => client'.msg = d
    BY <1>0 DEF Connected
  <2>0. client \in [at : {"memory", "freed", "null"}, msg : Sessions \cup {NoSock, ZeroSock}]
    BY LogTypeParts DEF SClientType
  <2>1. CASE d # c
    <3>1. ses'[d] = ses[d]
      BY <1>0, <2>1 DEF CmdThread, Obliged, StartSession, Leave, Reboot, Clear, SetMsg, SetReady,
                        ColdReset, CloseSock, Forget, Ses
    <3>2. StartSession(c) \/ InSession(c)
      BY DEF CmdThread, Obliged, Leave, Reboot, Clear, SetMsg, SetReady, ColdReset, CloseSock,
             Forget, Ses, InSession
    <3>3. ~InSession(d)
      <4>1. StartSession(c) => ~InSession(d)
        BY <2>1 DEF StartSession, InSession
      <4>2. InSession(c) => ~InSession(d)
        BY <2>1 DEF Keeps, OneSession
      <4>3. QED
        BY <3>2, <4>1, <4>2
    <3>4. QED
      BY <3>1, <3>3 DEF InSession
  <2>2. CASE d = c /\ (StartSession(c) \/ Clear(c))
    BY <1>0, <2>0, <2>2 DEF StartSession, Clear, Put, Ses, Keeps, Connected
  <2>3. CASE d = c /\ SetMsg(c)
    BY <1>0, <2>0, <2>3 DEF SetMsg, Put, Ses, Keeps, Connected
  <2>4. CASE d = c /\ (Leave(c) \/ Reboot(c) \/ ColdReset(c) \/ SetReady(c, "on", "run", TRUE)
                       \/ SetReady(c, "off", "close", FALSE))
    BY <1>0, <2>4 DEF Leave, Reboot, ColdReset, SetReady, Ses, Keeps, Connected
  <2>5. CASE d = c /\ (CloseSock(c) \/ Forget(c))
    BY <1>0, <2>5 DEF CloseSock, Forget, Ses
  <2>6. QED
    BY <2>1, <2>2, <2>3, <2>4, <2>5 DEF CmdThread, Obliged
<1>6. OwnedLate'
  <2>1. \A d \in Sessions : ses[d] \in {"run", "reboot", "off", "close", "forget", "done"}
                            => ses'[d] \in {"run", "reboot", "off", "close", "forget", "done"}
    BY <1>0 DEF CmdThread, Obliged, StartSession, Leave, Reboot, Clear, SetMsg, SetReady, ColdReset,
                CloseSock, Forget, Ses
  <2>2. QED
    BY <1>0, <2>1 DEF log, Keeps, OwnedLate
<1>7. MsgsKept'
  <2>1. \A d \in Sessions : ses'[d] = "run" /\ ~quit => ses[d] \in {"run", "on"}
    BY <1>0, LogAssumption
    DEF CmdThread, Obliged, StartSession, Leave, Reboot, Clear, SetMsg, SetReady, ColdReset,
        CloseSock, Forget, Ses, Keeps, QuitFirst, Exiters
  <2>2. QED
    BY <1>0, <2>1 DEF log, Keeps, OwnedLate, MsgsKept
<1>8. QED
  BY <1>1, <1>2, <1>3, <1>4, <1>5, <1>6, <1>7 DEF Keeps

\* psp2shell_exit touches the s_client and the socket only after it set quit.
LEMMA KeepsExit ==
  ASSUME LogTypeOK, Keeps, NEW e \in Exiters, Psp2shellExit(e)
  PROVE  Keeps'
<1>0. UNCHANGED <<where, owner, to, ses>> /\ exit \in [Exiters -> ExitPcs]
  BY LogTypeParts DEF Psp2shellExit, log, StepType
<1>1. (quit => quit') /\ (quit' \/ (UNCHANGED <<client, open>>))
  BY <1>0 DEF Psp2shellExit, ExitCheck, SetQuit, Unready, ExitClose, ExitForget, Join, Free,
              SetNull, EndServer, Exit, Keeps, QuitFirst
<1>2. QuitFirst'
  BY <1>0, <1>1 DEF Psp2shellExit, ExitCheck, SetQuit, Unready, ExitClose, ExitForget, Join, Free,
                    SetNull, EndServer, Exit, Keeps, QuitFirst
<1>3. ready' => ready
  BY DEF Psp2shellExit, ExitCheck, SetQuit, Unready, ExitClose, ExitForget, Join, Free, SetNull,
         EndServer
<1>4. OneSession' /\ Asked' /\ Connected' /\ OwnedLate' /\ SentTo' /\ MsgsKept'
  BY <1>0, <1>1, <1>3
  DEF Keeps, OneSession, InSession, Asked, Connected, OwnedLate, SentTo, MsgsKept
<1>5. QED
  BY <1>2, <1>4 DEF Keeps

LEMMA KeepsStep == LogTypeOK /\ Keeps /\ [LogNext]_logVars => Keeps'
<1> SUFFICES ASSUME LogTypeOK, Keeps, [LogNext]_logVars PROVE Keeps'
  OBVIOUS
<1>1. CASE UNCHANGED logVars
  BY <1>1 DEF logVars, log, Keeps, OneSession, InSession, QuitFirst, Asked, Connected, OwnedLate,
              SentTo, MsgsKept
<1>2. CASE Stop
  BY <1>2, LogTypeParts DEF Stop, ModuleStop, Exit, log, StepType, Keeps, OneSession, InSession,
                         QuitFirst, Asked, Connected, OwnedLate, SentTo, MsgsKept
<1>3. QED
  BY <1>1, <1>2, KeepsHook, KeepsKbuf, KeepsCmd, KeepsExit DEF LogNext

\* While a session runs, thread_kbuf (psp2shell_m/source/main.c:256) neither loses a message
\* printed in it nor sends it to another client, whatever it held when the session began.
THEOREM SessionKeepsCorrect == LogSpec => []SessionKeeps
<1>1. Keeps /\ LogTypeOK => SessionKeeps
  BY DEF Keeps, MsgsKept, SessionKeeps
<1>2. QED
  BY <1>1, KeepsInit, KeepsStep, LogTypeInvariant, PTL DEF LogSpec

-------------------------------------------------------------------------------
(***************************************************************************)
(* ClientLife.                                                             *)
(***************************************************************************)

Reading == {"call", "recv", "reply"}
Joining == {"socket_cmd", "connect_cmd", "setup"}     \* ... what is left of connect_psp2
NoMsg == {"close_cmd", "forget_msg", "forget_cmd", "exec"}
NoCmd == {"forget_msg", "forget_cmd", "exec"}

\* The first msg_thread of the process: the others are begun beside it.
First(g) == reader[g] # "none" /\ g \notin beside
Beyond(pcs) == main \in pcs \/ \E h \in Gens : reader[h] \in pcs

Names(sock, c) == sock \in Fds /\ file[sock] = c
OnlyAt(c, f) == \A e \in Fds : file[e] = c => e = f

NoThread == \A g \in Gens : reader[g] = "none"

\* Where main and the threads are.
Order ==
  /\ \A g \in Gens : reader[g] # "none" => g <= gen /\ (main = "connect_msg" => g < gen)
  /\ main # "connect_msg" => \/ gen \in Gens /\ reader[gen] # "none"
                             \/ NoThread /\ main \in {"loop", "socket_msg"}
  /\ main = "connect_msg" => gen \in Gens
  /\ main = "connect_msg" /\ gen \notin beside => \A g \in Gens : reader[g] = "none"
  /\ \A g, h \in Gens : reader[g] # "none" /\ reader[h] # "none" /\ g < h => h \in beside
  /\ NoThread => msg_sock = -1
  /\ \A g \in early : g <= gen /\ reader[g] \notin Reading /\ (main = "connect_msg" => g < gen)

Returns ==
  /\ ret = "exit" => Closing(main) \/ main = "exit"
  /\ main = "exit" => ret = "exit"
  /\ main = "term" => ret \in {"check_cmd", "select"}
  /\ Closing(main) => ret # ""

\* Each socket is open at one descriptor at most.
Files ==
  /\ \A f \in Fds : file[f] # NoConn => file[f][1] <= gen
  /\ \A f, e \in Fds : file[f] = file[e] /\ file[f] # NoConn => f = e
  /\ main \in {"connect_msg", "socket_cmd"} => \A f \in Fds : file[f] # <<gen, "cmd">>
  /\ main = "connect_msg" => OnlyAt(<<gen, "msg">>, fd) /\ fd \in Fds
  /\ main = "connect_cmd" => OnlyAt(<<gen, "cmd">>, fd) /\ fd \in Fds

\* A descriptor that is open belongs to a thread of the process, but for the exceptions.
Owned ==
  \A f \in Fds : file[f] # NoConn =>
    LET g == file[f][1] IN
    \/ g \in beside \/ (file[f][2] = "cmd" /\ g \in early)
    \/ reader[g] # "none" \/ (main = "connect_msg" /\ gen = g)

\* Of the first call, the socket that is open is the one that the global names, until
\* someone closes it.
MsgShut(g) ==
  \A f \in Fds : file[f] = <<g, "msg">> =>
    msg_sock = f /\ ~Beyond(NoMsg) /\ gen = g /\ main # "socket_msg"
CmdShut(g) ==
  \A f \in Fds : file[f] = <<g, "cmd">> =>
    /\ cmd_sock = f \/ (main = "connect_cmd" /\ fd = f)
    /\ ~Beyond(NoCmd) /\ gen = g /\ main # "socket_msg" /\ msg_sock # -1
Shut == \A g \in Gens : First(g) => MsgShut(g) /\ (g \notin early => CmdShut(g))

\* As long as main connects, the thread of that call reads, or saw the end too early.
Joined ==
  \A g \in Gens : First(g) /\ gen = g /\ main \in Joining /\ g \notin early =>
    /\ reader[g] \in Reading /\ Names(msg_sock, <<g, "msg">>)
    /\ main = "connect_cmd" => Names(fd, <<g, "cmd">>)
    /\ main # "setup" => status[<<g, "cmd">>] = "none"

\* As long as the first thread reads and no end was reported, the globals name its sockets.
Kept ==
  \A g \in Gens :
    First(g) /\ reader[g] \in Reading
    /\ "dead" \notin {status[<<g, "msg">>], status[<<g, "cmd">>]} =>
      /\ gen = g /\ main # "socket_msg"
      /\ ret # "exit" =>
           /\ ~Closing(main) /\ main # "term" /\ Names(msg_sock, <<g, "msg">>)
           /\ main \notin {"socket_cmd", "connect_cmd"} => Names(cmd_sock, <<g, "cmd">>)

\* The connections to come, those of the first call of the process among them.
Unborn ==
  \A c \in Conns : c[1] > gen \/ (main = "connect_msg" /\ c[1] = gen /\ gen \notin beside) =>
    status[c] = "none"

\* Before setup_terminal.
Fresh ==
  \/ main \in {"loop", "socket_msg"} /\ NoThread
  \/ main \in {"connect_msg", "socket_cmd", "connect_cmd", "setup"}

\* CTRL+C does not end the process with the terminal as it is, or it may (see TerminalKept).
Caught == sigint = "handler" \/ main = "catch" \/ \E g \in Gens : reader[g] = "term"

\* What setup_terminal saved is what the user had, and it is back when main or the thread
\* is on its way out; and as long as it is not, CTRL+C has its handler, but for two places.
Saved ==
  /\ Fresh => old = "zero" /\ tty = "user"
  /\ ~Fresh => old = "user" /\ tty \in {"user", "raw"}
  /\ readline_callback <=> tty = "raw"
  /\ main = "exit" \/ ret = "exit" \/ proc \in {"exited", "killed"} => tty = "user"
  /\ \A g \in Gens : reader[g] \notin Reading \cup {"none", "term"} => tty = "user"
  /\ tty = "raw" => Caught
  /\ proc = "interrupted" => sigint = "default"
Terminal == early = {} /\ beside = {} => Saved

IInv == TypeOK /\ Order /\ Returns /\ Files /\ Owned /\ Shut /\ Joined /\ Kept /\ Unborn /\ Terminal

-------------------------------------------------------------------------------
(* The calls of the system.                                                *)

LEMMA Numbers ==
  /\ Gens \subseteq Nat /\ 0 \notin Gens /\ \A g \in Gens : 1 .. g \subseteq Gens
  /\ Fds \subseteq Nat /\ -1 \notin Fds /\ NoConn \notin Conns
  /\ Cardinality(Gens) \in Nat /\ Cardinality(Fds) \in Nat /\ MaxLoss \in Nat
<1>1. Cardinality(Gens) \in Nat /\ Cardinality(Fds) \in Nat
  BY FS_CardinalityType, ConstantsAssumption
<1>2. QED
  BY <1>1, ConstantsAssumption DEF Conns

LEMMA ConnParts ==
  /\ \A c \in Conns : c[1] \in Gens /\ c[2] \in {"msg", "cmd"} /\ c = <<c[1], c[2]>>
  /\ \A g \in Gens, k \in {"msg", "cmd"} : /\ <<g, k>> \in Conns
                                           /\ <<g, k>>[1] = g /\ <<g, k>>[2] = k
BY DEF Conns

LEMMA NotNoConn == \A g \in Gens, k \in {"msg", "cmd"} : <<g, k>> # NoConn
<1>1. ASSUME NEW g \in Gens, NEW k \in {"msg", "cmd"} PROVE <<g, k>> # NoConn
  <2>1. PICK c : c = <<g, k>>
    OBVIOUS
  <2>2. c \in Conns
    BY <2>1, ConnParts
  <2>3. c # NoConn
    BY <2>2, Numbers
  <2>4. QED
    BY <2>1, <2>3
<1>2. QED
  BY <1>1

\* As long as one of the sockets is not open, a descriptor is free.
LEMMA FreeFd ==
  ASSUME TypeOK, Files, NEW c \in Conns, \A f \in Fds : file[f] # c
  PROVE  \E f \in Fds : file[f] = NoConn
<1> SUFFICES ASSUME \A f \in Fds : file[f] # NoConn PROVE FALSE
  OBVIOUS
<1> DEFINE Others == Conns \ {c}
<1>1. file \in [Fds -> Others]
  BY DEF TypeOK
<1>2. IsFiniteSet(Conns) /\ Cardinality(Conns) = Cardinality(Gens) * 2
  <2>1. IsFiniteSet({"msg", "cmd"}) /\ Cardinality({"msg", "cmd"}) = 2
    <3>1. {"msg", "cmd"} = {"msg"} \cup {"cmd"} /\ "cmd" \notin {"msg"}
      OBVIOUS
    <3>2. IsFiniteSet({"msg"}) /\ Cardinality({"msg"}) = 1
      BY FS_Singleton
    <3>3. IsFiniteSet({"msg"} \cup {"cmd"}) /\ Cardinality({"msg"} \cup {"cmd"}) = 1 + 1
      BY <3>1, <3>2, FS_AddElement
    <3>4. QED
      BY <3>1, <3>3
  <2>2. IsFiniteSet(Gens)
    BY ConstantsAssumption
  <2>3. QED
    BY <2>1, <2>2, FS_Product DEF Conns
<1>3. IsFiniteSet(Others) /\ Cardinality(Others) = Cardinality(Conns) - 1
  BY <1>2, FS_RemoveElement
<1>4. IsFiniteSet(Fds) /\ Cardinality(Others) < Cardinality(Fds)
  <2>1. Cardinality(Gens) \in Nat /\ Cardinality(Fds) \in Nat
        /\ 2 * Cardinality(Gens) <= Cardinality(Fds) /\ IsFiniteSet(Fds)
    BY Numbers, ConstantsAssumption
  <2>2. QED
    BY <1>2, <1>3, <2>1
<1> HIDE DEF Others
<1>5. \E f, e \in Fds : f # e /\ file[f] = file[e]
  BY <1>1, <1>3, <1>4, FS_PigeonHole
<1>6. QED
  BY <1>5 DEF Files

LEMMA Least ==
  ASSUME NEW N \in SUBSET Nat, N # {}
  PROVE  \E n \in N : \A m \in N : n <= m
<1>1. PICK R : R = {ss \in Nat \X Nat : ss[1] < ss[2]}
  OBVIOUS
<1>2. IsWellFoundedOn(R, Nat)
  BY <1>1, NatLessThanWellFounded DEF OpToRel
<1>3. PICK n \in N : \A m \in N : <<m, n>> \notin R
  BY <1>2, WFMin
<1>4. ASSUME NEW m \in N PROVE n <= m
  <2>1. m \in Nat /\ n \in Nat
    OBVIOUS
  <2>2. ~(m < n)
    <3>1. ASSUME m < n PROVE <<m, n>> \in {ss \in Nat \X Nat : ss[1] < ss[2]}
      BY <2>1, <3>1
    <3>2. QED
      BY <1>1, <1>3, <3>1
  <2>3. QED
    BY <2>1, <2>2
<1>5. QED
  BY <1>4

LEMMA LowestFree ==
  ASSUME TypeOK, Files, NEW c \in Conns, \A f \in Fds : file[f] # c
  PROVE  Lowest \in Fds /\ file[Lowest] = NoConn
<1> DEFINE Unused == {f \in Fds : file[f] = NoConn}
<1>1. Unused \in SUBSET Nat /\ Unused # {}
  BY FreeFd, Numbers
<1>2. \E f \in Unused : \A e \in Unused : f <= e
  BY <1>1, Least
<1>3. \E f \in Fds : file[f] = NoConn /\ \A e \in Fds : file[e] = NoConn => f <= e
  BY <1>2
<1>4. QED
  BY <1>3 DEF Lowest

LEMMA SocketMsgFacts ==
  ASSUME TypeOK, Files, SocketMsg
  PROVE  \E f \in Fds :
           /\ file[f] = NoConn /\ fd' = f /\ file' = [file EXCEPT ![f] = <<gen + 1, "msg">>]
           /\ gen + 1 \in Gens /\ gen' = gen + 1
<1>1. gen \in Gens \cup {0}
  BY DEF TypeOK
<1>2. gen + 1 \in Gens
  BY DEF SocketMsg
<1>3. gen \in Nat /\ <<gen + 1, "msg">> \in Conns /\ <<gen + 1, "msg">>[1] = gen + 1
  <2>1. gen \in Nat
    BY <1>1, Numbers
  <2>2. PICK n : n = gen + 1
    OBVIOUS
  <2>3. <<n, "msg">> \in Conns /\ <<n, "msg">>[1] = n
    BY <1>2, <2>2, ConnParts
  <2>4. QED
    BY <2>1, <2>2, <2>3
<1>4. \A f \in Fds : file[f] # <<gen + 1, "msg">>
  <2>1. ASSUME NEW f \in Fds, file[f] = <<gen + 1, "msg">> PROVE FALSE
    <3>1. file[f] # NoConn
      BY <1>3, <2>1, Numbers
    <3>2. gen + 1 <= gen
      BY <1>3, <2>1, <3>1 DEF Files
    <3>3. QED
      BY <1>3, <3>2
  <2>2. QED
    BY <2>1
<1>5. Lowest \in Fds /\ file[Lowest] = NoConn
  BY <1>3, <1>4, LowestFree
<1>6. fd' = Lowest /\ file' = [file EXCEPT ![Lowest] = <<gen + 1, "msg">>] /\ gen' = gen + 1
  BY DEF SocketMsg, Fd
<1>7. QED
  BY <1>2, <1>5, <1>6

LEMMA SocketCmdFacts ==
  ASSUME TypeOK, Files, Order, SocketCmd
  PROVE  \E f \in Fds :
           /\ file[f] = NoConn /\ fd' = f /\ file' = [file EXCEPT ![f] = <<gen, "cmd">>]
           /\ gen \in Gens
<1>1. gen \in Gens /\ main = "socket_cmd"
  BY DEF Order, SocketCmd, At
<1>2. <<gen, "cmd">> \in Conns /\ \A f \in Fds : file[f] # <<gen, "cmd">>
  BY <1>1, ConnParts DEF Files
<1>3. Lowest \in Fds /\ file[Lowest] = NoConn
  BY <1>2, LowestFree
<1>4. QED
  BY <1>1, <1>3 DEF SocketCmd, Fd

\* The four steps of closing.
LEMMA CloseFacts ==
  ASSUME NEW pc, NEW then, Closing(pc), CloseStep(pc)
  PROVE  /\ UNCHANGED <<status, losses>>
         /\ \/ /\ pc = "close_msg" /\ AfterClose(pc, then) = "close_cmd" /\ Close(msg_sock)
               /\ UNCHANGED <<msg_sock, cmd_sock>>
            \/ /\ pc = "close_cmd" /\ AfterClose(pc, then) = "forget_msg" /\ Close(cmd_sock)
               /\ UNCHANGED <<msg_sock, cmd_sock>>
            \/ /\ pc = "forget_msg" /\ AfterClose(pc, then) = "forget_cmd" /\ msg_sock' = -1
               /\ UNCHANGED <<file, cmd_sock>>
            \/ /\ pc = "forget_cmd" /\ AfterClose(pc, then) = then /\ cmd_sock' = -1
               /\ UNCHANGED <<file, msg_sock>>
<1>1. /\ ClosePcs[1] = "close_msg" /\ ClosePcs[2] = "close_cmd"
      /\ ClosePcs[3] = "forget_msg" /\ ClosePcs[4] = "forget_cmd"
  BY DEF ClosePcs
<1>2. PICK i \in 1 .. 4 : ClosePcs[i] = pc
  BY DEF Closing
<1>3. \A j \in 1 .. 4 : ClosePcs[j] = pc => j = i
  BY <1>1, <1>2
<1>4. (CHOOSE j \in 1 .. 4 : ClosePcs[j] = pc) = i
  BY <1>2, <1>3
<1>5. /\ i = 1 => AfterClose(pc, then) = "close_cmd"
      /\ i = 2 => AfterClose(pc, then) = "forget_msg"
      /\ i = 3 => AfterClose(pc, then) = "forget_cmd"
      /\ i = 4 => AfterClose(pc, then) = then
  <2>1. AfterClose(pc, then) = IF (CHOOSE j \in 1 .. 4 : ClosePcs[j] = pc) = 4 THEN then
                               ELSE ClosePcs[(CHOOSE j \in 1 .. 4 : ClosePcs[j] = pc) + 1]
    BY DEF AfterClose
  <2>2. AfterClose(pc, then) = IF i = 4 THEN then ELSE ClosePcs[i + 1]
    BY <1>4, <2>1, Zenon
  <2>3. 1 + 1 = 2 /\ 2 + 1 = 3 /\ 3 + 1 = 4
    OBVIOUS
  <2>4. QED
    BY <1>1, <2>2, <2>3
<1>6. i = 1 \/ i = 2 \/ i = 3 \/ i = 4
  OBVIOUS
<1>7. UNCHANGED <<status, losses>>
  BY DEF CloseStep
<1>8. CASE i = 1
  BY <1>1, <1>2, <1>5, <1>7, <1>8 DEF CloseStep, globals
<1>9. CASE i = 2
  BY <1>1, <1>2, <1>5, <1>7, <1>9 DEF CloseStep, globals
<1>10. CASE i = 3
  BY <1>1, <1>2, <1>5, <1>7, <1>10 DEF CloseStep, globals
<1>11. CASE i = 4
  BY <1>1, <1>2, <1>5, <1>7, <1>11 DEF CloseStep, globals
<1>12. QED
  BY <1>6, <1>8, <1>9, <1>10, <1>11

LEMMA ClosingIs ==
  \A pc : Closing(pc) <=> pc \in {"close_msg", "close_cmd", "forget_msg", "forget_cmd"}
<1>1. /\ ClosePcs[1] = "close_msg" /\ ClosePcs[2] = "close_cmd"
      /\ ClosePcs[3] = "forget_msg" /\ ClosePcs[4] = "forget_cmd"
  BY DEF ClosePcs
<1>2. 1 .. 4 = {1, 2, 3, 4}
  OBVIOUS
<1>3. QED
  BY <1>1, <1>2 DEF Closing

-------------------------------------------------------------------------------
(* Type correctness, one group of variables at a time.                     *)

MainPcs == {"loop", "socket_msg", "connect_msg", "socket_cmd", "connect_cmd", "setup", "catch",
            "check_msg", "check_cmd", "select", "read", "line", "send", "ask", "send_file",
            "result", "data", "exit_term", "quit_term", "leave_term", "exit", "term",
            "close_msg", "close_cmd", "forget_msg", "forget_cmd"}
ReaderPcs == {"none", "call", "recv", "reply", "term", "close_msg", "close_cmd",
              "forget_msg", "forget_cmd", "exec"}
States == {"none", "open", "eof", "reset", "pipe", "dead"}

ProcType ==
  /\ proc \in {"running", "exited", "killed", "pipe", "interrupted"} /\ once \in Args
  /\ losses \in 0 .. MaxLoss
FileType == file \in [Fds -> Conns \cup {NoConn}] /\ status \in [Conns -> States]
SockType == msg_sock \in Socks /\ cmd_sock \in Socks /\ fd \in Socks
MainType ==
  /\ main \in MainPcs /\ ret \in {"", "check_cmd", "select", "exit"}
  /\ gen \in Gens \cup {0} /\ on \in Conns \cup {NoConn}
ReaderType ==
  /\ reader \in [Gens -> ReaderPcs] /\ from \in [Gens -> Conns \cup {NoConn}]
  /\ early \subseteq Gens /\ beside \subseteq Gens
TermType ==
  /\ readline_callback \in BOOLEAN
  /\ tty \in {"user", "raw", "zero"} /\ old \in {"user", "raw", "zero"}
  /\ sigint \in {"default", "handler"}

LEMMA TypeParts ==
  TypeOK <=> ProcType /\ FileType /\ SockType /\ MainType /\ ReaderType /\ TermType
BY DEF TypeOK, ProcType, FileType, SockType, MainType, ReaderType, TermType, MainPcs,
       ReaderPcs, States

LEMMA TypePartsNext ==
  TypeOK' <=> ProcType' /\ FileType' /\ SockType' /\ MainType' /\ ReaderType' /\ TermType'
BY DEF TypeOK, ProcType, FileType, SockType, MainType, ReaderType, TermType, MainPcs,
       ReaderPcs, States

LEMMA TypeInit == Init => TypeOK
<1> SUFFICES ASSUME Init PROVE TypeOK
  OBVIOUS
<1>1. ProcType
  <2>1. proc = "running" /\ once \in Args /\ losses = 0
    BY DEF Init
  <2>2. 0 \in 0 .. MaxLoss
    BY Numbers
  <2>3. QED
    BY <2>1, <2>2 DEF ProcType
<1>2. FileType /\ ReaderType
  BY DEF Init, FileType, ReaderType, States, ReaderPcs
<1>3. SockType /\ MainType /\ TermType
  BY DEF Init, SockType, MainType, TermType, MainPcs, Socks
<1>4. QED
  BY <1>1, <1>2, <1>3, TypeParts

LEMMA ConnOfType ==
  ASSUME FileType, NEW s \in Socks
  PROVE  ConnOf(s) \in Conns \cup {NoConn}
BY DEF FileType, ConnOf, Socks

LEMMA CloseType ==
  ASSUME FileType, NEW s
  PROVE  Close(s) => file' \in [Fds -> Conns \cup {NoConn}]
BY DEF FileType, Close

\* What send and the report of an error do to the states.
LEMMA ReportedType ==
  ASSUME FileType, NEW c \in Conns \cup {NoConn}, Reported(c)
  PROVE  /\ status' \in [Conns -> States]
         /\ \A d \in Conns : status'[d] # status[d] =>
              d = c /\ status[d] \in {"reset", "pipe"} /\ status'[d] = "dead"
         /\ c \in Conns /\ status[c] \in {"reset", "pipe"} => status'[c] = "dead"
BY Numbers DEF FileType, Reported, State, States

LEMMA SendType ==
  ASSUME FileType, NEW s \in Socks, SendOn(s), proc = "running"
  PROVE  /\ status' \in [Conns -> States] /\ proc' \in {"running", "pipe"}
         /\ \A d \in Conns : status'[d] # status[d] => /\ d = ConnOf(s)
                                                       /\ status'[d] \in {"pipe", "dead"}
                                                       /\ status[d] # "open" /\ status[d] # "dead"
<1>1. ConnOf(s) \in Conns \cup {NoConn}
  BY ConnOfType
<1>2. CASE ConnOf(s) = NoConn
  BY <1>2, Numbers DEF FileType, SendOn, State, States
<1>3. CASE ConnOf(s) \in Conns
  BY <1>3, Numbers DEF FileType, SendOn, State, States
<1>4. QED
  BY <1>1, <1>2, <1>3

\* connect_psp2.
LEMMA ConnectType ==
  ASSUME TypeOK, Files, Order, Connect, UNCHANGED once
  PROVE  TypeOK'
<1>1. ProcType /\ FileType /\ SockType /\ MainType /\ ReaderType /\ TermType
  BY TypeParts
<1>2. SUFFICES ProcType' /\ FileType' /\ SockType' /\ MainType' /\ ReaderType' /\ TermType'
  BY TypePartsNext
<1>3. CASE Loop
  <2>1. MainType' /\ UNCHANGED <<proc, sockets, globals, terminal, fd, beside, readers>>
    BY <1>1, <1>3 DEF Loop, At, MainType, MainPcs
  <2>2. ProcType' /\ FileType' /\ SockType'
    BY <1>1, <2>1 DEF sockets, globals, ProcType, FileType, SockType
  <2>3. ReaderType' /\ TermType'
    BY <1>1, <2>1 DEF terminal, readers, ReaderType, TermType
  <2>4. QED
    BY <2>1, <2>2, <2>3
<1>4. CASE SocketMsg
  <2>1. PICK f \in Fds : fd' = f /\ file' = [file EXCEPT ![f] = <<gen + 1, "msg">>]
                         /\ gen + 1 \in Gens /\ gen' = gen + 1
    BY <1>4, SocketMsgFacts
  <2>2. FileType' /\ SockType'
    <3>1. <<gen + 1, "msg">> \in Conns
      BY <2>1, ConnParts
    <3>2. file' \in [Fds -> Conns \cup {NoConn}]
      BY <1>1, <2>1, <3>1 DEF FileType
    <3>3. QED
      BY <1>1, <1>4, <2>1, <3>2 DEF SocketMsg, globals, FileType, SockType, Socks
  <2>3. beside' \subseteq Gens
    BY <1>1, <1>4, <2>1 DEF SocketMsg, ReaderType
  <2>4. QED
    BY <1>1, <1>4, <2>1, <2>2, <2>3 DEF SocketMsg, At, terminal, readers, ProcType, MainType,
         ReaderType, TermType, MainPcs
<1>5. CASE ConnectMsg
  <2>1. gen \in Gens /\ <<gen, "msg">> \in Conns
    BY <1>5, ConnParts DEF ConnectMsg, At, Order
  <2>2. ProcType' /\ FileType'
    BY <1>1, <1>5, <2>1 DEF ConnectMsg, ProcType, FileType, States
  <2>3. SockType' /\ MainType'
    BY <1>1, <1>5 DEF ConnectMsg, At, Fd, SockType, Socks, MainType, MainPcs
  <2>4. ReaderType' /\ TermType'
    BY <1>1, <1>5 DEF ConnectMsg, terminal, ReaderType, ReaderPcs, TermType
  <2>5. QED
    BY <2>2, <2>3, <2>4
<1>6. CASE SocketCmd
  <2>1. PICK f \in Fds : fd' = f /\ file' = [file EXCEPT ![f] = <<gen, "cmd">>] /\ gen \in Gens
    BY <1>6, SocketCmdFacts
  <2>2. file' \in [Fds -> Conns \cup {NoConn}]
    BY <1>1, <2>1, ConnParts DEF FileType
  <2>3. ProcType' /\ FileType' /\ SockType'
    BY <1>1, <1>6, <2>1, <2>2 DEF SocketCmd, globals, ProcType, FileType, SockType, Socks
  <2>4. MainType'
    BY <1>1, <1>6 DEF SocketCmd, At, MainType, MainPcs
  <2>5. ReaderType' /\ TermType'
    BY <1>1, <1>6 DEF SocketCmd, terminal, readers, ReaderType, TermType
  <2>6. QED
    BY <2>3, <2>4, <2>5
<1>7. CASE ConnectCmd
  <2>1. gen \in Gens /\ <<gen, "cmd">> \in Conns
    BY <1>7, ConnParts DEF ConnectCmd, At, Order
  <2>2. ProcType' /\ FileType'
    BY <1>1, <1>7, <2>1 DEF ConnectCmd, ProcType, FileType, States
  <2>3. SockType' /\ MainType'
    BY <1>1, <1>7 DEF ConnectCmd, At, Fd, SockType, Socks, MainType, MainPcs
  <2>4. ReaderType' /\ TermType'
    BY <1>1, <1>7 DEF ConnectCmd, terminal, readers, ReaderType, TermType
  <2>5. QED
    BY <2>2, <2>3, <2>4
<1>8. CASE SetupTerminal
  BY <1>1, <1>8 DEF SetupTerminal, At, sockets, globals, readers, ProcType, FileType,
       SockType, MainType, ReaderType, TermType, MainPcs
<1>9. QED
  BY <1>3, <1>4, <1>5, <1>6, <1>7, <1>8 DEF Connect

\* The rest of main.
LEMMA GotoType ==
  ASSUME TypeOK, UNCHANGED once, NEW pc, NEW then \in MainPcs, Goto(pc, then)
  PROVE  TypeOK'
<1>1. ProcType /\ FileType /\ SockType /\ MainType /\ ReaderType /\ TermType
  BY TypeParts
<1>2. ProcType' /\ FileType' /\ SockType' /\ MainType' /\ ReaderType' /\ TermType'
  BY <1>1 DEF Goto, At, sockets, globals, terminal, readers, ProcType, FileType, SockType,
       MainType, ReaderType, TermType
<1>3. QED
  BY <1>2, TypePartsNext

\* ... of which these go from one place to another.
Going == Select \/ Interrupt \/ ReadChar \/ Command \/ Ask

LEMMA GoingTo ==
  ASSUME Going
  PROVE  \E pc \in {"select", "read", "line", "ask"},
            then \in MainPcs \ {"socket_msg", "connect_msg", "socket_cmd", "connect_cmd",
                                "setup", "catch", "term", "exit", "close_msg", "close_cmd",
                                "forget_msg", "forget_cmd"} : Goto(pc, then)
<1>1. CASE Select
  BY <1>1 DEF Select, MainPcs
<1>2. CASE Interrupt
  BY <1>2 DEF Interrupt, MainPcs
<1>3. CASE ReadChar
  BY <1>3 DEF ReadChar, MainPcs
<1>4. CASE Command
  BY <1>4 DEF Command, After, MainPcs
<1>5. CASE Ask
  BY <1>5 DEF Ask, After, MainPcs
<1>6. QED
  BY <1>1, <1>2, <1>3, <1>4, <1>5 DEF Going

LEMMA MainType1 ==
  ASSUME TypeOK, Returns, UNCHANGED once, proc = "running", Main \/ Going \/ Result, ~Connect
  PROVE  TypeOK'
<1>1. ProcType /\ FileType /\ SockType /\ MainType /\ ReaderType /\ TermType
  BY TypeParts
<1>2. CASE Going
  BY <1>2, GoingTo, GotoType
<1>3. ASSUME ~Going
      PROVE  ProcType' /\ FileType' /\ SockType' /\ MainType' /\ ReaderType' /\ TermType'
  <2>1. ASSUME NEW pc, NEW sock \in Socks, NEW then \in {"check_cmd", "select"},
               Check(pc, sock, then)
        PROVE  ProcType' /\ FileType' /\ SockType' /\ MainType' /\ ReaderType' /\ TermType'
    <3>1. status' \in [Conns -> States]
      BY <1>1, <2>1, ConnOfType, ReportedType DEF Check
    <3>2. QED
      BY <1>1, <2>1, <3>1 DEF Check, At, globals, terminal, readers, ProcType, FileType, SockType,
           MainType, ReaderType, TermType, MainPcs
  <2>2. CASE MainClose
    <3>1. PICK then \in {"exit", "term"} :
            main' = AfterClose(main, then) /\ Closing(main) /\ CloseStep(main)
      BY <2>2 DEF MainClose
    <3>2. main' \in MainPcs /\ file' \in [Fds -> Conns \cup {NoConn}] /\ status' = status
          /\ losses' = losses /\ msg_sock' \in Socks /\ cmd_sock' \in Socks
      BY <1>1, <3>1, CloseFacts, CloseType DEF SockType, Socks, MainPcs, FileType
    <3>3. QED
      BY <1>1, <2>2, <3>2 DEF MainClose, terminal, readers, ProcType, FileType, SockType,
           MainType, ReaderType, TermType
  <2>3. CASE MainTerm
    <3>1. ret \in {"check_cmd", "select"}
      BY <2>3 DEF MainTerm, At, Returns
    <3>2. QED
      BY <1>1, <2>3, <3>1 DEF MainTerm, At, CloseTerminal, sockets, globals, readers, ProcType,
           FileType, SockType, MainType, ReaderType, TermType, MainPcs
  <2>4. CASE NoHandler
    BY <1>1, <2>4 DEF NoHandler, At, sockets, globals, terminal, readers, ProcType, FileType,
         SockType, MainType, ReaderType, TermType, MainPcs
  <2>5. CASE SendCmd \/ SendFile \/ SendData
    <3>1. SendOn(cmd_sock) /\ cmd_sock \in Socks
      BY <1>1, <2>5 DEF SendCmd, SendFile, SendData, SockType
    <3>2. status' \in [Conns -> States] /\ proc' \in {"running", "pipe"}
      BY <1>1, <3>1, SendType
    <3>3. ConnOf(cmd_sock) \in Conns \cup {NoConn}
      BY <1>1, <3>1, ConnOfType
    <3>4. main' \in MainPcs /\ on' \in Conns \cup {NoConn}
      BY <1>1, <2>5, <3>3 DEF SendCmd, SendFile, SendData, At, After, MainType, MainPcs
    <3>5. QED
      BY <1>1, <2>5, <3>2, <3>4 DEF SendCmd, SendFile, SendData, globals, terminal, readers,
           ProcType, FileType, SockType, MainType, ReaderType, TermType
  <2>6. CASE Result \/ NoResult
    <3>1. PICK then \in MainPcs : Answer(then)
      BY <2>6 DEF Result, NoResult, After, MainPcs
    <3>2. status' \in [Conns -> States]
      BY <1>1, <3>1, ReportedType DEF Answer, MainType
    <3>3. QED
      BY <1>1, <3>1, <3>2 DEF Answer, At, globals, terminal, readers, ProcType, FileType,
           SockType, MainType, ReaderType, TermType
  <2>7. CASE EndTerm
    BY <1>1, <2>7 DEF EndTerm, CloseTerminal, sockets, globals, readers, ProcType, FileType,
         SockType, MainType, ReaderType, TermType, MainPcs
  <2>8. CASE ExitProcess
    BY <1>1, <2>8 DEF ExitProcess, At, globals, terminal, readers, ProcType, FileType,
         SockType, MainType, ReaderType, TermType, MainPcs
  <2>9. CASE CheckMsg \/ CheckCmd
    BY <1>1, <2>1, <2>9 DEF CheckMsg, CheckCmd, SockType
  <2>10. CASE CatchInterrupt
    BY <1>1, <2>10 DEF CatchInterrupt, At, Start, sockets, globals, readers, ProcType, FileType,
         SockType, MainType, ReaderType, TermType, MainPcs
  <2>11. QED
    BY <1>3, <2>2, <2>3, <2>4, <2>5, <2>6, <2>7, <2>8, <2>9, <2>10 DEF Main, Keys, Commands,
       Going
<1>4. QED
  BY <1>2, <1>3, TypePartsNext

\* msg_thread.
LEMMA ThreadType ==
  ASSUME TypeOK, UNCHANGED once, proc = "running", NEW g \in Gens, MsgThread(g) \/ Got(g)
  PROVE  TypeOK'
<1>1. ProcType /\ FileType /\ SockType /\ MainType /\ ReaderType /\ TermType
  BY TypeParts
<1>2. SUFFICES ProcType' /\ FileType' /\ SockType' /\ MainType' /\ ReaderType' /\ TermType'
  BY TypePartsNext
<1>3. CASE Receive(g)
  <2>1. ConnOf(msg_sock) \in Conns \cup {NoConn}
    BY <1>1, ConnOfType DEF SockType
  <2>2. QED
    BY <1>1, <1>3, <2>1 DEF Receive, Rd, sockets, globals, terminal, mains, ProcType, FileType,
         SockType, MainType, ReaderType, TermType, ReaderPcs
<1>4. CASE Got(g)
  BY <1>1, <1>4 DEF Got, Rd, Nothing, sockets, globals, terminal, mains, ProcType, FileType,
       SockType, MainType, ReaderType, TermType, ReaderPcs
<1>5. CASE EndSeen(g)
  <2>1. status' \in [Conns -> States]
    BY <1>1, <1>5, ReportedType DEF EndSeen, ReaderType
  <2>2. early' \subseteq Gens
    BY <1>1, <1>5 DEF EndSeen, ReaderType
  <2>3. QED
    BY <1>1, <1>5, <2>1, <2>2 DEF EndSeen, Rd, Nothing, globals, mains, ProcType,
         FileType, SockType, MainType, ReaderType, TermType, ReaderPcs
<1>6. CASE Reply(g)
  <2>1. status' \in [Conns -> States] /\ proc' \in {"running", "pipe"}
    BY <1>1, <1>6, SendType DEF Reply, SockType
  <2>2. QED
    BY <1>1, <1>6, <2>1 DEF Reply, Rd, Nothing, globals, terminal, mains, ProcType, FileType,
         SockType, MainType, ReaderType, TermType, ReaderPcs
<1>7. CASE ThreadTerm(g)
  BY <1>1, <1>7 DEF ThreadTerm, Rd, CloseTerminal, sockets, globals, mains, ProcType, FileType,
       SockType, MainType, ReaderType, TermType, ReaderPcs
<1>8. CASE ThreadClose(g)
  <2>1. Closing(reader[g]) /\ CloseStep(reader[g])
        /\ reader' = [reader EXCEPT ![g] = AfterClose(reader[g], "exec")]
    BY <1>8 DEF ThreadClose, Rd
  <2>2. AfterClose(reader[g], "exec") \in ReaderPcs
    BY <2>1, CloseFacts DEF ReaderPcs
  <2>3. file' \in [Fds -> Conns \cup {NoConn}] /\ status' = status /\ losses' = losses
        /\ msg_sock' \in Socks /\ cmd_sock' \in Socks
    BY <1>1, <2>1, CloseFacts, CloseType DEF SockType, Socks, FileType
  <2>4. QED
    BY <1>1, <1>8, <2>1, <2>2, <2>3 DEF ThreadClose, terminal, mains, ProcType, FileType, SockType,
         MainType, ReaderType, TermType
<1>9. CASE Exec(g)
  <2>1. CASE once
    BY <1>1, <1>9, <2>1 DEF Exec, sockets, globals, ProcType, FileType, SockType, MainType,
         ReaderType, TermType
  <2>2. CASE ~once
    <3>1. ProcType' /\ FileType' /\ SockType' /\ MainType'
      BY <1>1, <1>9, <2>2 DEF Exec, sockets, ProcType, FileType, SockType, MainType, MainPcs, Socks
    <3>2. ReaderType'
      BY <1>1, <1>9, <2>2 DEF Exec, ReaderType, ReaderPcs
    <3>3. TermType'
      BY <1>1, <1>9, <2>2 DEF Exec, TermType
    <3>4. QED
      BY <3>1, <3>2, <3>3
  <2>3. QED
    BY <2>1, <2>2
<1>10. QED
  BY <1>3, <1>4, <1>5, <1>6, <1>7, <1>8, <1>9 DEF MsgThread

LEMMA LoseType ==
  ASSUME TypeOK, UNCHANGED once, NEW c \in Conns, Lose(c)
  PROVE  TypeOK'
<1>1. ProcType /\ FileType /\ SockType /\ MainType /\ ReaderType /\ TermType
  BY TypeParts
<1>2. losses' \in 0 .. MaxLoss
  BY <1>1, Numbers DEF Lose, ProcType
<1>3. UNCHANGED <<proc, file, globals, terminal, mains, readers>>
  BY DEF Lose
<1>4. ProcType' /\ FileType'
  BY <1>1, <1>2 DEF Lose, ProcType, FileType, States
<1>5. SockType' /\ MainType' /\ ReaderType' /\ TermType'
  BY <1>1, <1>3 DEF globals, terminal, mains, readers, SockType, MainType, ReaderType, TermType
<1>6. QED
  BY <1>4, <1>5, TypePartsNext

LEMMA TypeStep ==
  ASSUME TypeOK, Files, Order, Returns, [Next]_vars
  PROVE  TypeOK'
<1>1. CASE Connect /\ Next
  BY <1>1, ConnectType DEF Next
<1>2. CASE (Main \/ Going \/ Result) /\ Next /\ ~Connect
  BY <1>2, MainType1 DEF Next
<1>3. CASE Next /\ \E g \in Gens : MsgThread(g) \/ Got(g)
  BY <1>3, ThreadType DEF Next
<1>4. CASE Next /\ \E c \in Conns : Lose(c)
  BY <1>4, LoseType DEF Next
<1>5. CASE UNCHANGED vars
  <2>1. ProcType' /\ FileType' /\ SockType'
    BY <1>5, TypeParts DEF vars, sockets, globals, mains, ProcType, FileType, SockType
  <2>2. MainType' /\ ReaderType' /\ TermType'
    BY <1>5, TypeParts DEF vars, terminal, mains, readers, MainType, ReaderType, TermType
  <2>3. QED
    BY <2>1, <2>2, TypePartsNext
<1>6. CASE Next /\ Interrupted
  <2>1. ProcType' /\ FileType' /\ SockType'
    BY <1>6, TypeParts DEF Next, Interrupted, sockets, globals, mains, ProcType, FileType, SockType
  <2>2. MainType' /\ ReaderType' /\ TermType'
    BY <1>6, TypeParts DEF Interrupted, terminal, mains, readers, MainType, ReaderType, TermType
  <2>3. QED
    BY <2>1, <2>2, TypePartsNext
<1>7. QED
  BY <1>1, <1>2, <1>3, <1>4, <1>5, <1>6 DEF Next, Going, Main

-------------------------------------------------------------------------------
(* What the steps do to the sockets and to who is where.                   *)

MainCloses == {"close_msg", "close_cmd", "forget_msg", "forget_cmd"}

\* The steps of main that neither connect nor close nor end.
Plain ==
  CatchInterrupt \/ CheckMsg \/ CheckCmd \/ MainTerm \/ Going \/ NoHandler \/ SendCmd
  \/ SendFile \/ SendData \/ Result \/ NoResult \/ EndTerm

\* Nothing happens but that CTRL+C may end the process.
Still ==
  /\ UNCHANGED <<sockets, globals, terminal, mains, readers>>
  /\ proc' = proc \/ (proc' = "interrupted" /\ sigint = "default")

LEMMA PlainFacts ==
  ASSUME Returns, Plain
  PROVE  /\ UNCHANGED <<file, msg_sock, cmd_sock, fd, gen, reader, beside, early>>
         /\ main \notin {"loop", "socket_msg", "connect_msg", "exit"} \cup Joining \cup MainCloses
         /\ main' \notin {"socket_msg", "connect_msg", "term"} \cup Joining \cup NoMsg
         /\ ret # "exit"
         /\ ret' # "exit" => main' # "exit" /\ (main' = "close_msg" => ret' # "")
         /\ ret' = "exit" => main' \in {"close_msg", "exit"}
<1>1. ret # "exit" \/ main \in MainCloses \cup {"exit"}
  BY ClosingIs DEF Returns, MainCloses
<1>2. CASE Going
  <2>1. PICK pc \in {"select", "read", "line", "ask"},
             then \in MainPcs \ {"socket_msg", "connect_msg", "socket_cmd", "connect_cmd",
                                "setup", "catch", "term", "exit", "close_msg", "close_cmd",
                                "forget_msg", "forget_cmd"} : Goto(pc, then)
    BY <1>2, GoingTo
  <2>2. main = pc /\ main' = then /\ ret' = ret
        /\ UNCHANGED <<file, msg_sock, cmd_sock, fd, gen, reader, beside, early>>
    BY <2>1 DEF Goto, At, sockets, globals, readers
  <2>3. QED
    BY <1>1, <2>1, <2>2 DEF Joining, MainCloses, NoMsg, MainPcs
<1>3. CASE CheckMsg \/ CheckCmd
  <2>1. /\ UNCHANGED <<file, msg_sock, cmd_sock, fd, gen, reader, beside, early>>
        /\ main \in {"check_msg", "check_cmd"} /\ main' \in {"close_msg", "check_cmd", "select"}
        /\ ret' = ret \/ ret' \in {"check_cmd", "select"}
        /\ main' = "close_msg" => ret' \in {"check_cmd", "select"}
    BY <1>3 DEF CheckMsg, CheckCmd, Check, At, globals, readers
  <2>2. QED
    BY <1>1, <2>1 DEF Joining, MainCloses, NoMsg
<1>4. CASE MainTerm
  <2>1. /\ UNCHANGED <<file, msg_sock, cmd_sock, fd, gen, reader, beside, early>>
        /\ main = "term" /\ main' \in {"check_cmd", "select"} /\ ret' = ""
    BY <1>4 DEF MainTerm, At, sockets, globals, readers, Returns
  <2>2. QED
    BY <1>1, <2>1 DEF Joining, MainCloses, NoMsg
<1>5. CASE NoHandler \/ SendCmd \/ SendFile \/ SendData
  <2>1. /\ UNCHANGED <<file, msg_sock, cmd_sock, fd, gen, reader, beside, early, ret>>
        /\ main \in {"read", "send", "send_file", "data"}
        /\ main' \in {"read", "result", "data", "leave_term", "loop"}
    BY <1>5 DEF NoHandler, SendCmd, SendFile, SendData, At, After, sockets, globals, readers
  <2>2. QED
    BY <1>1, <2>1 DEF Joining, MainCloses, NoMsg
<1>6. CASE Result \/ NoResult
  <2>1. /\ UNCHANGED <<file, msg_sock, cmd_sock, fd, gen, reader, beside, early, ret>>
        /\ main = "result" /\ main' \in {"data", "leave_term", "loop"}
    BY <1>6 DEF Result, NoResult, Answer, At, After, globals, readers
  <2>2. QED
    BY <1>1, <2>1 DEF Joining, MainCloses, NoMsg
<1>7. CASE EndTerm
  <2>1. /\ UNCHANGED <<file, msg_sock, cmd_sock, fd, gen, reader, beside, early>>
        /\ main \in {"exit_term", "quit_term", "leave_term"} /\ main' \in {"close_msg", "exit"}
        /\ ret' = "exit"
    BY <1>7 DEF EndTerm, sockets, globals, readers
  <2>2. QED
    BY <1>1, <2>1 DEF Joining, MainCloses, NoMsg
<1>8. CASE CatchInterrupt
  <2>1. /\ UNCHANGED <<file, msg_sock, cmd_sock, fd, gen, reader, beside, early, ret>>
        /\ main = "catch" /\ main' \in {"line", "loop"}
    BY <1>8 DEF CatchInterrupt, At, Start, sockets, globals, readers
  <2>2. QED
    BY <1>1, <2>1 DEF Joining, MainCloses, NoMsg
<1>9. QED
  BY <1>2, <1>3, <1>4, <1>5, <1>6, <1>7, <1>8 DEF Plain

\* The msg_thread as long as it reads.
Reads(g) == Receive(g) \/ Got(g) \/ Reply(g)

LEMMA ReadFacts ==
  ASSUME NEW g \in Gens, Reads(g)
  PROVE  /\ UNCHANGED <<file, msg_sock, cmd_sock, fd, gen, main, ret, beside, early>>
         /\ UNCHANGED <<readline_callback, tty, old, sigint>> /\ reader[g] \in Reading
         /\ \E x \in Reading : reader' = [reader EXCEPT ![g] = x]
BY DEF Reads, Receive, Got, Reply, Rd, Reading, sockets, globals, terminal, mains

LEMMA EndFacts ==
  ASSUME NEW g \in Gens, EndSeen(g)
  PROVE  /\ UNCHANGED <<file, msg_sock, cmd_sock, fd, gen, main, ret, beside, proc>>
         /\ UNCHANGED <<readline_callback, tty, old>> /\ sigint' = "default"
         /\ reader[g] = "recv" /\ reader' = [reader EXCEPT ![g] = "term"]
         /\ early' = IF gen = g /\ main \in Joining THEN early \cup {g} ELSE early
<1>1. <<gen, main>> \in {g} \X {"socket_cmd", "connect_cmd", "setup"}
      <=> gen = g /\ main \in Joining
  BY DEF Joining
<1>2. QED
  BY <1>1 DEF EndSeen, Rd, globals, mains

LEMMA ThreadTermFacts ==
  ASSUME NEW g \in Gens, ThreadTerm(g)
  PROVE  /\ UNCHANGED <<file, msg_sock, cmd_sock, fd, gen, main, ret, beside, early, proc>>
         /\ UNCHANGED <<old, sigint>> /\ tty' = old /\ readline_callback' = FALSE
         /\ reader[g] = "term" /\ reader' = [reader EXCEPT ![g] = "close_msg"]
BY DEF ThreadTerm, Rd, CloseTerminal, sockets, globals, mains

\* A close or a forgotten descriptor, on the way from one place to the next.
Shutting(pc, next) ==
  \/ pc = "close_msg" /\ next = "close_cmd" /\ Close(msg_sock) /\ UNCHANGED <<msg_sock, cmd_sock>>
  \/ pc = "close_cmd" /\ next = "forget_msg" /\ Close(cmd_sock) /\ UNCHANGED <<msg_sock, cmd_sock>>
  \/ pc = "forget_msg" /\ next = "forget_cmd" /\ msg_sock' = -1 /\ UNCHANGED <<file, cmd_sock>>
  \/ /\ pc = "forget_cmd" /\ next \in {"exec", "exit", "term"} /\ cmd_sock' = -1
     /\ UNCHANGED <<file, msg_sock>>

LEMMA ThreadCloseFacts ==
  ASSUME NEW g \in Gens, ThreadClose(g)
  PROVE  /\ UNCHANGED <<fd, gen, main, ret, beside, early, proc>>
         /\ UNCHANGED <<readline_callback, tty, old, sigint>>
         /\ \E x \in MainCloses \cup {"exec"} :
              /\ reader' = [reader EXCEPT ![g] = x] /\ Shutting(reader[g], x)
              /\ reader[g] = "forget_cmd" <=> x = "exec"
<1>1. PICK x : x = AfterClose(reader[g], "exec")
  OBVIOUS
<1>2. Closing(reader[g]) /\ CloseStep(reader[g]) /\ reader' = [reader EXCEPT ![g] = x]
      /\ UNCHANGED <<fd, gen, main, ret, beside, early, proc>>
      /\ UNCHANGED <<readline_callback, tty, old, sigint>>
  BY <1>1 DEF ThreadClose, Rd, terminal, mains
<1>3. /\ Shutting(reader[g], x) /\ x \in MainCloses \cup {"exec"}
      /\ reader[g] = "forget_cmd" <=> x = "exec"
  BY <1>1, <1>2, CloseFacts DEF Shutting, MainCloses
<1>4. QED
  BY <1>2, <1>3

LEMMA MainCloseFacts ==
  ASSUME MainClose
  PROVE  /\ UNCHANGED <<fd, gen, reader, ret, beside, early, proc>>
         /\ UNCHANGED <<readline_callback, tty, old, sigint>>
         /\ main \in MainCloses
         /\ Shutting(main, main') /\ main' \in MainCloses \cup {"exit", "term"}
         /\ main = "forget_cmd" <=> main' \in {"exit", "term"}
         /\ main = "forget_cmd" => (main' = "exit" <=> ret = "exit")
<1>1. PICK then \in {"exit", "term"} : /\ then = "exit" <=> ret = "exit"
                                       /\ main' = AfterClose(main, then)
  BY DEF MainClose
<1>2. Closing(main) /\ CloseStep(main)
      /\ UNCHANGED <<fd, gen, reader, ret, beside, early, proc>>
      /\ UNCHANGED <<readline_callback, tty, old, sigint>>
  BY DEF MainClose, terminal, readers
<1>3. /\ Shutting(main, main') /\ main' \in MainCloses \cup {then} /\ main \in MainCloses
      /\ main = "forget_cmd" <=> main' = then
  BY <1>1, <1>2, CloseFacts DEF Shutting, MainCloses
<1>4. QED
  BY <1>1, <1>2, <1>3 DEF MainCloses

LEMMA ExecFacts ==
  ASSUME TypeOK, NEW g \in Gens, Exec(g)
  PROVE  /\ reader[g] = "exec" /\ UNCHANGED <<file, status, gen, beside, early, tty>>
         /\ \/ /\ UNCHANGED <<msg_sock, cmd_sock, main, ret, fd, reader>>
               /\ UNCHANGED <<readline_callback, old, sigint>> /\ proc' = "killed"
            \/ /\ msg_sock' = -1 /\ main' = "loop" /\ ret' = "" /\ old' = "zero"
               /\ \A h \in Gens : reader'[h] = "none"
               /\ readline_callback' = FALSE /\ UNCHANGED proc
BY DEF Exec, sockets, globals

LEMMA LoseFacts ==
  ASSUME NEW c \in Conns, Lose(c)
  PROVE  /\ UNCHANGED <<proc, file, msg_sock, cmd_sock, fd, gen, main, ret, reader, beside, early>>
         /\ UNCHANGED <<readline_callback, tty, old, sigint>>
         /\ status[c] = "open" /\ \E s \in {"eof", "reset"} : status' = [status EXCEPT ![c] = s]
BY DEF Lose, globals, terminal, mains, readers

LEMMA StepIs ==
  ASSUME [Next]_vars
  PROVE  \/ Still
         \/ /\ proc = "running" /\ UNCHANGED once
            /\ \/ Loop \/ SocketMsg \/ ConnectMsg \/ SocketCmd \/ ConnectCmd \/ SetupTerminal
               \/ Plain \/ MainClose \/ ExitProcess
               \/ \E g \in Gens : \/ Reads(g) \/ EndSeen(g) \/ ThreadTerm(g) \/ ThreadClose(g)
                                  \/ Exec(g)
               \/ \E c \in Conns : Lose(c)
<1>1. CASE UNCHANGED vars \/ (Next /\ Interrupted)
  BY <1>1 DEF vars, Interrupted, Still
<1>2. CASE Next /\ ~Interrupted
  BY <1>2 DEF Next, Main, Connect, Keys, Commands, Plain, Going, MsgThread, Reads
<1>3. QED
  BY <1>1, <1>2

-------------------------------------------------------------------------------
(* Where main and the threads are.                                         *)

LEMMA InitIInv == Init => IInv
<1> SUFFICES ASSUME Init PROVE IInv
  OBVIOUS
<1>1. /\ \A f \in Fds : file[f] = NoConn
      /\ \A c \in Conns : status[c] = "none"
      /\ \A g \in Gens : reader[g] = "none"
      /\ msg_sock = -1 /\ gen = 0 /\ ret = "" /\ main \in {"loop", "socket_msg"}
      /\ early = {} /\ beside = {} /\ old = "zero" /\ tty = "user" /\ proc = "running"
      /\ readline_callback = FALSE
  BY DEF Init
<1>2. TypeOK
  BY TypeInit
<1>3. Order /\ Returns
  BY <1>1, ClosingIs DEF Order, Returns, NoThread
<1>4. Files /\ Owned
  BY <1>1 DEF Files, Owned
<1>5. Shut /\ Joined /\ Kept /\ Unborn
  BY <1>1 DEF Shut, Joined, Kept, Unborn, First
<1>6. Terminal
  BY <1>1 DEF Terminal, Saved, Fresh, NoThread
<1>7. QED
  BY <1>2, <1>3, <1>4, <1>5, <1>6 DEF IInv

LEMMA ReturnsStep ==
  ASSUME TypeOK, Returns, [Next]_vars
  PROVE  Returns'
<1>1. Closing(main') <=> main' \in MainCloses
  BY ClosingIs DEF MainCloses
<1>2. Closing(main) <=> main \in MainCloses
  BY ClosingIs DEF MainCloses
<1>3. SUFFICES /\ ret' = "exit" => main' \in MainCloses \cup {"exit"}
               /\ main' = "exit" => ret' = "exit"
               /\ main' = "term" => ret' \in {"check_cmd", "select"}
               /\ main' \in MainCloses => ret' # ""
  BY <1>1 DEF Returns, Closing
<1>4. CASE UNCHANGED <<main, ret>>
  BY <1>2, <1>4 DEF Returns
<1>5. CASE Loop \/ SocketMsg \/ ConnectMsg \/ SocketCmd \/ ConnectCmd \/ SetupTerminal
  BY <1>2, <1>5 DEF Loop, SocketMsg, ConnectMsg, SocketCmd, ConnectCmd, SetupTerminal, At,
       Returns, MainCloses
<1>6. CASE Plain
  BY <1>6, PlainFacts DEF MainCloses, NoMsg
<1>7. CASE MainClose
  BY <1>2, <1>7, MainCloseFacts, TypeParts DEF Returns, MainCloses, MainType
<1>8. CASE ExitProcess
  BY <1>2, <1>8 DEF ExitProcess, At, Returns, MainCloses
<1>9. CASE \E g \in Gens : Exec(g)
  BY <1>2, <1>9, ExecFacts DEF Returns, MainCloses
<1>10. QED
  BY <1>4, <1>5, <1>6, <1>7, <1>8, <1>9, StepIs, ReadFacts, EndFacts, ThreadTermFacts,
     ThreadCloseFacts, LoseFacts DEF Still, mains

LEMMA GenNat == TypeOK => gen \in Nat /\ (gen = 0 \/ gen \in Gens)
<1> SUFFICES ASSUME TypeOK PROVE gen \in Nat /\ (gen = 0 \/ gen \in Gens)
  OBVIOUS
<1>1. gen \in Gens \cup {0}
  BY TypeParts DEF MainType
<1>2. CASE gen = 0
  BY <1>2
<1>3. CASE gen \in Gens
  BY <1>3, Numbers
<1>4. QED
  BY <1>1, <1>2, <1>3

\* A thread's move changes where that thread is.
Moves(g) ==
  /\ UNCHANGED <<gen, main, beside>> /\ reader[g] # "none"
  /\ \E x \in ReaderPcs \ {"none"} : /\ reader' = [reader EXCEPT ![g] = x]
                                     /\ x \in Reading => reader[g] \in Reading

LEMMA MoveFacts ==
  ASSUME TypeOK, NEW g \in Gens, Moves(g)
  PROVE  /\ \A h \in Gens : reader'[h] # "none" <=> reader[h] # "none"
         /\ \A h \in Gens : h # g => reader'[h] = reader[h]
         /\ \A h \in Gens : reader'[h] \in Reading => reader[h] \in Reading
         /\ \A h \in Gens : First(h)' <=> First(h)
<1>1. reader \in [Gens -> ReaderPcs] /\ "none" \notin Reading
  BY TypeParts DEF ReaderType, Reading
<1>2. PICK x \in ReaderPcs \ {"none"} : /\ reader' = [reader EXCEPT ![g] = x]
                                        /\ x \in Reading => reader[g] \in Reading
  BY DEF Moves
<1>3. \A h \in Gens : reader'[h] = IF h = g THEN x ELSE reader[h]
  BY <1>1, <1>2
<1>4. reader[g] # "none" /\ beside' = beside
  BY DEF Moves
<1>5. QED
  BY <1>2, <1>3, <1>4 DEF First

LEMMA ThreadMoves ==
  ASSUME NEW g \in Gens, Reads(g) \/ EndSeen(g) \/ ThreadTerm(g) \/ ThreadClose(g)
  PROVE  Moves(g)
<1>1. CASE Reads(g)
  BY <1>1, ReadFacts DEF Moves, Reading, ReaderPcs
<1>2. CASE EndSeen(g)
  BY <1>2, EndFacts DEF Moves, Reading, ReaderPcs
<1>3. CASE ThreadTerm(g)
  BY <1>3, ThreadTermFacts DEF Moves, Reading, ReaderPcs
<1>4. CASE ThreadClose(g)
  BY <1>4, ThreadCloseFacts DEF Moves, Reading, ReaderPcs, MainCloses, Shutting
<1>5. QED
  BY <1>1, <1>2, <1>3, <1>4

\* The first thread is alone with its own call of connect_psp2.
LEMMA OnlyFirst ==
  ASSUME Order, NEW g \in Gens, First(g), gen = g
  PROVE  \A h \in Gens : reader[h] # "none" => h = g
<1>1. ASSUME NEW h \in Gens, reader[h] # "none", h # g PROVE FALSE
  <2>1. h <= g /\ h \in Nat /\ g \in Nat
    BY <1>1, Numbers DEF Order
  <2>2. h < g
    BY <1>1, <2>1
  <2>3. QED
    BY <1>1, <2>2 DEF Order, First
<1>2. QED
  BY <1>1

LEMMA OrderMoves ==
  ASSUME TypeOK, Order, NEW g \in Gens, Moves(g), NoThread' => msg_sock' = -1,
         \A h \in early' : h \in early \/ (h = gen /\ main \in Joining /\ reader'[h] \notin Reading)
  PROVE  Order'
<1>1. /\ \A h \in Gens : reader'[h] # "none" <=> reader[h] # "none"
      /\ \A h \in Gens : reader'[h] \in Reading => reader[h] \in Reading
      /\ UNCHANGED <<gen, main, beside>>
  BY MoveFacts DEF Moves
<1>2. \A h \in Gens : reader'[h] # "none" =>
        h <= gen' /\ (main' = "connect_msg" => h < gen')
  BY <1>1 DEF Order
<1>3. /\ main' # "connect_msg" => \/ gen' \in Gens /\ reader'[gen'] # "none"
                                  \/ NoThread' /\ main' \in {"loop", "socket_msg"}
      /\ main' = "connect_msg" => gen' \in Gens
      /\ main' = "connect_msg" /\ gen' \notin beside' => \A h \in Gens : reader'[h] = "none"
  BY <1>1 DEF Order, NoThread
<1>4. \A k, h \in Gens : reader'[k] # "none" /\ reader'[h] # "none" /\ k < h => h \in beside'
  BY <1>1 DEF Order
<1>5. ASSUME NEW h \in early'
      PROVE  h <= gen' /\ reader'[h] \notin Reading /\ (main' = "connect_msg" => h < gen')
  <2>1. CASE h \in early
    <3>1. h \in Gens
      BY <2>1, TypeParts DEF ReaderType
    <3>2. QED
      BY <1>1, <2>1, <3>1 DEF Order
  <2>2. CASE h = gen /\ main \in Joining /\ reader'[h] \notin Reading
    <3>1. gen \in Nat
      BY GenNat
    <3>2. QED
      BY <1>1, <2>2, <3>1 DEF Joining
  <2>3. QED
    BY <1>5, <2>1, <2>2
<1>6. QED
  BY <1>2, <1>3, <1>4, <1>5 DEF Order

\* Steps of main that begin no call of connect_psp2.
LEMMA OrderMain ==
  ASSUME TypeOK, Order, UNCHANGED <<gen, reader, beside, early>>, NoThread => msg_sock' = -1,
         main' # "connect_msg", main # "connect_msg",
         NoThread => main' \in {"loop", "socket_msg"}
  PROVE  Order'
<1>1. /\ \A h \in Gens : reader[h] # "none" => h <= gen
      /\ \A k, h \in Gens : reader[k] # "none" /\ reader[h] # "none" /\ k < h => h \in beside
      /\ \A h \in early : h <= gen /\ reader[h] \notin Reading
  BY DEF Order
<1>2. \/ gen \in Gens /\ reader[gen] # "none"
      \/ NoThread /\ main' \in {"loop", "socket_msg"}
  BY DEF Order
<1>3. QED
  BY <1>1, <1>2 DEF Order, NoThread

LEMMA OrderConnect ==
  ASSUME TypeOK, Files, Order, Connect
  PROVE  Order'
<1>1. gen \in Nat /\ (gen = 0 \/ gen \in Gens) /\ Gens \subseteq Nat
  BY GenNat, Numbers
<1>2. CASE Loop
  <2>1. /\ UNCHANGED <<gen, reader, beside, early, msg_sock>>
        /\ main = "loop" /\ main' \in {"socket_msg", "check_msg"}
        /\ main' = "check_msg" => msg_sock # -1
    BY <1>2 DEF Loop, At, globals, readers
  <2>2. NoThread => msg_sock = -1
    BY DEF Order
  <2>3. QED
    BY <2>1, <2>2, OrderMain
<1>3. CASE SocketMsg
  <2>1. /\ main = "socket_msg" /\ main' = "connect_msg" /\ gen + 1 \in Gens /\ gen' = gen + 1
        /\ UNCHANGED <<reader, early, msg_sock>>
        /\ beside' = IF \E g \in Gens : reader[g] # "none" THEN beside \cup {gen'} ELSE beside
    BY <1>3 DEF SocketMsg, At, globals, readers
  <2>2. \A g \in Gens : reader'[g] # "none" => g < gen'
    BY <1>1, <2>1 DEF Order
  <2>3. gen' \notin beside' => \A g \in Gens : reader'[g] = "none"
    BY <2>1
  <2>4. \A g, h \in Gens : reader'[g] # "none" /\ reader'[h] # "none" /\ g < h => h \in beside'
    BY <2>1 DEF Order
  <2>5. NoThread' => msg_sock' = -1
    BY <2>1 DEF Order, NoThread
  <2>6. \A g \in early' : g <= gen' /\ reader'[g] \notin Reading /\ g < gen'
    <3>1. early \subseteq Gens
      BY TypeParts DEF ReaderType
    <3>2. QED
      BY <1>1, <2>1, <3>1 DEF Order
  <2>7. QED
    BY <1>1, <2>1, <2>2, <2>3, <2>4, <2>5, <2>6 DEF Order
<1>4. CASE ConnectMsg
  <2>1. /\ main = "connect_msg" /\ main' = "socket_cmd" /\ gen \in Gens
        /\ reader' = [reader EXCEPT ![gen] = "call"] /\ UNCHANGED <<gen, beside, early>>
    BY <1>4 DEF ConnectMsg, At, Order
  <2>2. \A g \in Gens : reader'[g] = IF g = gen THEN "call" ELSE reader[g]
    BY <2>1, TypeParts DEF ReaderType
  <2>3. \A g \in Gens : g # gen /\ reader[g] # "none" => g < gen
    BY <2>1 DEF Order
  <2>4. gen \notin beside => \A g \in Gens : reader[g] = "none"
    BY <2>1 DEF Order
  <2>5. \A g, h \in Gens : reader'[g] # "none" /\ reader'[h] # "none" /\ g < h => h \in beside'
    <3>1. ASSUME NEW g \in Gens, NEW h \in Gens, reader'[g] # "none", reader'[h] # "none", g < h
          PROVE  h \in beside
      <4>1. CASE h = gen
        BY <1>1, <2>2, <2>4, <3>1, <4>1
      <4>2. CASE h # gen /\ g = gen
        BY <1>1, <2>2, <2>3, <3>1, <4>2
      <4>3. CASE h # gen /\ g # gen
        BY <2>2, <3>1, <4>3 DEF Order
      <4>4. QED
        BY <4>1, <4>2, <4>3
    <3>2. QED
      BY <2>1, <3>1
  <2>6. \A g \in early' : g <= gen' /\ reader'[g] \notin Reading
    <3>1. early \subseteq Gens
      BY TypeParts DEF ReaderType
    <3>2. QED
      BY <1>1, <2>1, <2>2, <3>1 DEF Order
  <2>7. \A g \in Gens : reader'[g] # "none" => g <= gen'
    BY <1>1, <2>1, <2>2, <2>3
  <2>8. reader'[gen] = "call" /\ ~NoThread'
    BY <2>1, <2>2 DEF NoThread
  <2>9. QED
    BY <2>1, <2>5, <2>6, <2>7, <2>8 DEF Order
<1>5. CASE SocketCmd \/ ConnectCmd \/ SetupTerminal
  <2>1. /\ UNCHANGED <<gen, reader, beside, early, msg_sock>> /\ main \in Joining
        /\ main' # "connect_msg"
    BY <1>5 DEF SocketCmd, ConnectCmd, SetupTerminal, At, Joining, globals, readers
  <2>2. ~NoThread
    BY <2>1 DEF Order, NoThread, Joining
  <2>3. QED
    BY <2>1, <2>2, OrderMain DEF Joining
<1>6. QED
  BY <1>2, <1>3, <1>4, <1>5 DEF Connect

LEMMA OrderStep ==
  ASSUME TypeOK, Files, Order, Returns, [Next]_vars
  PROVE  Order'
<1>1. NoThread => msg_sock = -1 /\ main \in {"loop", "socket_msg", "connect_msg"}
  BY DEF Order, NoThread
<1>2. CASE UNCHANGED <<gen, main, reader, beside, early, msg_sock>>
  BY <1>2 DEF Order, NoThread
<1>3. CASE Plain
  <2>1. ~NoThread /\ main # "connect_msg" /\ main' # "connect_msg"
        /\ UNCHANGED <<gen, reader, beside, early>>
    BY <1>1, <1>3, PlainFacts
  <2>2. QED
    BY <2>1, OrderMain
<1>4. CASE MainClose
  <2>1. ~NoThread /\ main # "connect_msg" /\ main' # "connect_msg"
        /\ UNCHANGED <<gen, reader, beside, early>>
    BY <1>1, <1>4, MainCloseFacts DEF MainCloses
  <2>2. QED
    BY <2>1, OrderMain
<1>5. CASE \E g \in Gens : Reads(g) \/ EndSeen(g) \/ ThreadTerm(g) \/ ThreadClose(g)
  <2>1. PICK g \in Gens : Reads(g) \/ EndSeen(g) \/ ThreadTerm(g) \/ ThreadClose(g)
    BY <1>5
  <2>2. Moves(g)
    BY <2>1, ThreadMoves
  <2>3. ~NoThread'
    BY <2>2, MoveFacts DEF NoThread, Moves
  <2>4. \A h \in early' : h \in early \/ (h = gen /\ main \in Joining /\ reader'[h] \notin Reading)
    <3>1. CASE EndSeen(g)
      <4>1. reader'[g] = "term"
        BY <3>1, EndFacts, TypeParts DEF ReaderType
      <4>2. QED
        BY <3>1, <4>1, EndFacts DEF Reading
    <3>2. CASE ~EndSeen(g)
      BY <2>1, <3>2, ReadFacts, ThreadTermFacts, ThreadCloseFacts
    <3>3. QED
      BY <3>1, <3>2
  <2>5. QED
    BY <2>2, <2>3, <2>4, OrderMoves
<1>6. CASE \E g \in Gens : Exec(g)
  <2>1. CASE UNCHANGED <<gen, main, reader, beside, early, msg_sock>>
    BY <1>2, <2>1
  <2>2. CASE /\ msg_sock' = -1 /\ main' = "loop" /\ (\A h \in Gens : reader'[h] = "none")
             /\ UNCHANGED <<gen, beside, early>>
    <3>1. \A h \in early : h <= gen /\ h \in Gens
      BY TypeParts DEF Order, ReaderType
    <3>2. "none" \notin Reading
      BY DEF Reading
    <3>3. QED
      BY <2>2, <3>1, <3>2 DEF Order, NoThread
  <2>3. QED
    BY <1>6, <2>1, <2>2, ExecFacts
<1>7. CASE ExitProcess
  BY <1>2, <1>7 DEF ExitProcess, At, globals, readers
<1>8. CASE Connect
  BY <1>8, OrderConnect
<1>9. CASE Still \/ \E c \in Conns : Lose(c)
  BY <1>2, <1>9, LoseFacts DEF Still, globals, mains, readers
<1>10. QED
  BY <1>3, <1>4, <1>5, <1>6, <1>7, <1>8, <1>9, StepIs DEF Connect

-------------------------------------------------------------------------------
(* Each socket is open at one descriptor at most, and belongs to a call.   *)

\* Steps that open nothing.
Fewer == \A f \in Fds : file'[f] \in {file[f], NoConn}

LEMMA StillOpen ==
  ASSUME Fewer, NEW c \in Conns
  PROVE  \A f \in Fds : file'[f] = c => file[f] = c
<1>1. c # NoConn
  BY Numbers
<1>2. QED
  BY <1>1 DEF Fewer

LEMMA FilesFewer ==
  ASSUME TypeOK, Files, Order, UNCHANGED gen, Fewer,
         main' \in {"connect_msg", "socket_cmd", "connect_cmd"} => UNCHANGED <<main, fd>>
  PROVE  Files'
<1>1. \A f \in Fds : file'[f] # NoConn => file'[f] = file[f]
  BY DEF Fewer
<1>2. \A f \in Fds : file'[f] # NoConn => file'[f][1] <= gen'
  BY <1>1 DEF Files
<1>3. \A f, e \in Fds : file'[f] = file'[e] /\ file'[f] # NoConn => f = e
  BY <1>1 DEF Files
<1>4. CASE main' \in {"connect_msg", "socket_cmd", "connect_cmd"}
  <2>1. main' = main /\ fd' = fd /\ gen' = gen /\ gen \in Gens
    BY <1>4 DEF Order
  <2>2. <<gen, "msg">> \in Conns /\ <<gen, "cmd">> \in Conns
    BY <2>1, ConnParts
  <2>3. \A f \in Fds : /\ file'[f] = <<gen, "msg">> => file[f] = <<gen, "msg">>
                       /\ file'[f] = <<gen, "cmd">> => file[f] = <<gen, "cmd">>
    BY <2>2, StillOpen
  <2>4. CASE main = "connect_msg"
    BY <1>2, <1>3, <2>1, <2>3, <2>4 DEF Files, OnlyAt
  <2>5. CASE main = "socket_cmd"
    BY <1>2, <1>3, <2>1, <2>3, <2>5 DEF Files, OnlyAt
  <2>6. CASE main = "connect_cmd"
    BY <1>2, <1>3, <2>1, <2>3, <2>6 DEF Files, OnlyAt
  <2>7. QED
    BY <1>4, <2>1, <2>4, <2>5, <2>6
<1>5. CASE main' \notin {"connect_msg", "socket_cmd", "connect_cmd"}
  BY <1>2, <1>3, <1>5 DEF Files
<1>6. QED
  BY <1>4, <1>5

LEMMA CloseFewer == ASSUME TypeOK, NEW pc, NEW next, Shutting(pc, next) PROVE Fewer
<1>1. file \in [Fds -> Conns \cup {NoConn}]
  BY TypeParts DEF FileType
<1>2. QED
  BY <1>1 DEF Fewer, Shutting, Close

\* What the steps of connect_psp2 do.
LEMMA SocketMsgIs ==
  ASSUME TypeOK, Files, SocketMsg
  PROVE  /\ main = "socket_msg" /\ main' = "connect_msg" /\ gen + 1 \in Gens /\ gen' = gen + 1
         /\ UNCHANGED <<status, msg_sock, cmd_sock, ret, reader, early, tty, old>>
         /\ UNCHANGED <<readline_callback, sigint, proc>>
         /\ beside' = IF NoThread THEN beside ELSE beside \cup {gen'}
         /\ fd' \in Fds /\ file[fd'] = NoConn
         /\ \A f \in Fds : file'[f] = IF f = fd' THEN <<gen', "msg">> ELSE file[f]
<1>1. PICK f \in Fds : /\ file[f] = NoConn /\ fd' = f
                       /\ file' = [file EXCEPT ![f] = <<gen + 1, "msg">>]
                       /\ gen + 1 \in Gens /\ gen' = gen + 1
  BY SocketMsgFacts
<1>2. \A e \in Fds : file'[e] = IF e = f THEN <<gen', "msg">> ELSE file[e]
  BY <1>1, TypeParts DEF FileType
<1>3. QED
  BY <1>1, <1>2 DEF SocketMsg, At, globals, terminal, readers, NoThread

LEMMA ConnectMsgIs ==
  ASSUME TypeOK, Order, Files, ConnectMsg
  PROVE  /\ main = "connect_msg" /\ main' = "socket_cmd" /\ gen \in Gens
         /\ UNCHANGED <<file, cmd_sock, gen, ret, beside, early, tty, old>>
         /\ UNCHANGED <<readline_callback, sigint, proc>>
         /\ fd \in Fds /\ msg_sock' = fd /\ file[fd] = <<gen, "msg">>
         /\ \A g \in Gens : reader'[g] = IF g = gen THEN "call" ELSE reader[g]
         /\ \A c \in Conns : status'[c] = IF c = <<gen, "msg">> THEN "open" ELSE status[c]
<1>1. /\ main = "connect_msg" /\ main' = "socket_cmd" /\ msg_sock' = fd
      /\ file[fd] = <<gen, "msg">>
      /\ UNCHANGED <<file, cmd_sock, gen, ret, beside, early, tty, old>>
         /\ UNCHANGED <<readline_callback, sigint, proc>>
      /\ reader' = [reader EXCEPT ![gen] = "call"]
      /\ status' = [status EXCEPT ![<<gen, "msg">>] = "open"]
  BY DEF ConnectMsg, At, terminal
<1>2. gen \in Gens /\ fd \in Fds
  BY <1>1 DEF Order, Files
<1>3. reader \in [Gens -> ReaderPcs] /\ status \in [Conns -> States] /\ <<gen, "msg">> \in Conns
  BY <1>2, TypeParts, ConnParts DEF ReaderType, FileType
<1>4. QED
  BY <1>1, <1>2, <1>3

LEMMA SocketCmdIs ==
  ASSUME TypeOK, Order, Files, SocketCmd
  PROVE  /\ main = "socket_cmd" /\ main' = "connect_cmd" /\ gen \in Gens
         /\ UNCHANGED <<status, msg_sock, cmd_sock, gen, ret, reader, beside,
                        early, tty, old>>
         /\ UNCHANGED <<readline_callback, sigint, proc>>
         /\ fd' \in Fds /\ file[fd'] = NoConn
         /\ \A f \in Fds : file'[f] = IF f = fd' THEN <<gen, "cmd">> ELSE file[f]
<1>1. PICK f \in Fds : /\ file[f] = NoConn /\ fd' = f
                       /\ file' = [file EXCEPT ![f] = <<gen, "cmd">>] /\ gen \in Gens
  BY SocketCmdFacts
<1>2. \A e \in Fds : file'[e] = IF e = f THEN <<gen, "cmd">> ELSE file[e]
  BY <1>1, TypeParts DEF FileType
<1>3. QED
  BY <1>1, <1>2 DEF SocketCmd, At, globals, terminal, readers

LEMMA ConnectCmdIs ==
  ASSUME TypeOK, Order, Files, ConnectCmd
  PROVE  /\ main = "connect_cmd" /\ main' = "setup" /\ gen \in Gens
         /\ UNCHANGED <<file, msg_sock, gen, ret, reader, beside, early, tty, old>>
         /\ UNCHANGED <<readline_callback, sigint, proc>>
         /\ fd \in Fds /\ cmd_sock' = fd /\ file[fd] = <<gen, "cmd">>
         /\ \A c \in Conns : status'[c] = IF c = <<gen, "cmd">> THEN "open" ELSE status[c]
<1>1. /\ main = "connect_cmd" /\ main' = "setup" /\ cmd_sock' = fd
      /\ file[fd] = <<gen, "cmd">>
      /\ UNCHANGED <<file, msg_sock, gen, ret, reader, beside, early, tty, old>>
         /\ UNCHANGED <<readline_callback, sigint, proc>>
      /\ status' = [status EXCEPT ![<<gen, "cmd">>] = "open"]
  BY DEF ConnectCmd, At, terminal, readers
<1>2. gen \in Gens /\ fd \in Fds
  BY <1>1 DEF Order, Files, NoThread
<1>3. status \in [Conns -> States] /\ <<gen, "cmd">> \in Conns
  BY <1>2, TypeParts, ConnParts DEF FileType
<1>4. QED
  BY <1>1, <1>2, <1>3

LEMMA LoopIs ==
  ASSUME Loop
  PROVE  /\ main = "loop" /\ main' = IF msg_sock = -1 THEN "socket_msg" ELSE "check_msg"
         /\ UNCHANGED <<file, status, fd, msg_sock, cmd_sock, gen, ret, reader, beside, early>>
         /\ UNCHANGED <<readline_callback, tty, old, sigint, proc>>
BY DEF Loop, At, sockets, globals, terminal, readers

LEMMA SetupIs ==
  ASSUME SetupTerminal
  PROVE  /\ main = "setup" /\ main' = "catch" /\ readline_callback' = TRUE
         /\ UNCHANGED <<file, status, fd, msg_sock, cmd_sock, gen, ret, reader,
                        beside, early, sigint, proc>>
         /\ old' = tty /\ tty' = IF tty = "user" THEN "raw" ELSE tty
BY DEF SetupTerminal, At, sockets, globals, readers

LEMMA ExitIs ==
  ASSUME ExitProcess
  PROVE  /\ main = "exit" /\ main' = "exit" /\ proc' = "exited"
         /\ \A f \in Fds : file'[f] = NoConn
         /\ UNCHANGED <<status, fd, msg_sock, cmd_sock, gen, ret, reader, beside, early>>
         /\ UNCHANGED <<readline_callback, tty, old, sigint>>
BY DEF ExitProcess, At, globals, terminal, readers

LEMMA FilesStep ==
  ASSUME TypeOK, Files, Order, Returns, [Next]_vars
  PROVE  Files'
<1>1. gen \in Nat /\ Gens \subseteq Nat
  BY GenNat, Numbers
<1>2. ASSUME UNCHANGED file PROVE Fewer
  BY <1>2 DEF Fewer
<1>3. CASE SocketMsg
  <2>1. \A f \in Fds : file[f] # <<gen', "msg">> /\ file[f] # <<gen', "cmd">>
    <3>1. ASSUME NEW f \in Fds, NEW k \in {"msg", "cmd"}, file[f] = <<gen', k>> PROVE FALSE
      <4>1. file[f] \in Conns /\ file[f][1] = gen'
        <5>1. gen' \in Gens
          BY <1>3, SocketMsgIs
        <5>2. PICK g : g = gen'
          OBVIOUS
        <5>3. <<g, k>> \in Conns /\ <<g, k>>[1] = g
          BY <3>1, <5>1, <5>2, ConnParts
        <5>4. QED
          BY <3>1, <5>2, <5>3
      <4>2. gen' <= gen
        BY <4>1, Numbers DEF Files
      <4>3. QED
        BY <1>1, <1>3, <4>2, SocketMsgIs
    <3>2. QED
      BY <3>1
  <2>2. \A f \in Fds : file'[f] # NoConn => file'[f][1] <= gen'
    <3>1. ASSUME NEW f \in Fds, file'[f] # NoConn PROVE file'[f][1] <= gen'
      <4>1. CASE f = fd'
        BY <1>1, <1>3, <4>1, SocketMsgIs, ConnParts
      <4>2. CASE f # fd'
        <5>1. file[f] # NoConn /\ file'[f] = file[f] /\ gen' = gen + 1
          BY <1>3, <3>1, <4>2, SocketMsgIs
        <5>2. file[f] \in Conns /\ file[f][1] <= gen
          BY <5>1, TypeParts DEF FileType, Files
        <5>3. file[f][1] \in Nat
          BY <1>1, <5>2, ConnParts
        <5>4. QED
          BY <1>1, <5>1, <5>2, <5>3
      <4>3. QED
        BY <4>1, <4>2
    <3>2. QED
      BY <3>1
  <2>3. \A f, e \in Fds : file'[f] = file'[e] /\ file'[f] # NoConn => f = e
    <3>1. ASSUME NEW f \in Fds, NEW e \in Fds, file'[f] = file'[e], file'[f] # NoConn
          PROVE  f = e
      <4>1. CASE f = fd' \/ e = fd'
        BY <1>3, <2>1, <3>1, <4>1, SocketMsgIs
      <4>2. CASE f # fd' /\ e # fd'
        <5>1. file'[f] = file[f] /\ file'[e] = file[e]
          BY <1>3, <4>2, SocketMsgIs
        <5>2. QED
          BY <3>1, <5>1 DEF Files
      <4>3. QED
        BY <4>1, <4>2
    <3>2. QED
      BY <3>1
  <2>4. \A f \in Fds : file'[f] # <<gen', "cmd">>
    BY <1>3, <2>1, SocketMsgIs
  <2>5. \A f \in Fds : file'[f] = <<gen', "msg">> => f = fd'
    BY <1>3, <2>1, SocketMsgIs
  <2>6. main' = "connect_msg" /\ fd' \in Fds
    BY <1>3, SocketMsgIs
  <2>7. QED
    BY <2>2, <2>3, <2>4, <2>5, <2>6 DEF Files, OnlyAt
<1>4. CASE SocketCmd
  <2>1. main = "socket_cmd" /\ gen' = gen /\ gen \in Gens
    BY <1>4, SocketCmdIs
  <2>2. \A f \in Fds : file[f] # <<gen, "cmd">>
    BY <2>1 DEF Files
  <2>3. \A f \in Fds : file'[f] # NoConn => file'[f][1] <= gen'
    <3>1. ASSUME NEW f \in Fds, file'[f] # NoConn PROVE file'[f][1] <= gen'
      <4>1. CASE f = fd'
        <5>1. file'[f] = <<gen, "cmd">> /\ <<gen, "cmd">>[1] = gen
          BY <1>4, <2>1, <4>1, SocketCmdIs, ConnParts
        <5>2. QED
          BY <1>1, <2>1, <5>1
      <4>2. CASE f # fd'
        <5>1. file'[f] = file[f]
          BY <1>4, <4>2, SocketCmdIs
        <5>2. QED
          BY <2>1, <3>1, <5>1 DEF Files
      <4>3. QED
        BY <4>1, <4>2
    <3>2. QED
      BY <3>1
  <2>4. \A f, e \in Fds : file'[f] = file'[e] /\ file'[f] # NoConn => f = e
    <3>1. ASSUME NEW f \in Fds, NEW e \in Fds, file'[f] = file'[e], file'[f] # NoConn
          PROVE  f = e
      <4>1. CASE f = fd' \/ e = fd'
        BY <1>4, <2>2, <3>1, <4>1, SocketCmdIs
      <4>2. CASE f # fd' /\ e # fd'
        <5>1. file'[f] = file[f] /\ file'[e] = file[e]
          BY <1>4, <4>2, SocketCmdIs
        <5>2. QED
          BY <3>1, <5>1 DEF Files
      <4>3. QED
        BY <4>1, <4>2
    <3>2. QED
      BY <3>1
  <2>5. \A f \in Fds : file'[f] = <<gen', "cmd">> => f = fd'
    BY <1>4, <2>1, <2>2, SocketCmdIs
  <2>6. main' = "connect_cmd" /\ fd' \in Fds
    BY <1>4, SocketCmdIs
  <2>7. QED
    BY <2>3, <2>4, <2>5, <2>6 DEF Files, OnlyAt
<1>5. CASE Loop \/ ConnectCmd \/ SetupTerminal
  <2>1. UNCHANGED <<file, gen>> /\ main' \notin {"connect_msg", "socket_cmd", "connect_cmd"}
    BY <1>5, LoopIs, ConnectCmdIs, SetupIs
  <2>2. QED
    BY <1>2, <2>1, FilesFewer
<1>6. CASE ConnectMsg
  <2>1. UNCHANGED <<file, gen>> /\ main = "connect_msg" /\ main' = "socket_cmd"
    BY <1>6, ConnectMsgIs
  <2>2. QED
    BY <2>1 DEF Files
<1>7. CASE Plain
  <2>1. UNCHANGED <<file, gen>> /\ main' \notin {"connect_msg", "socket_cmd", "connect_cmd"}
    BY <1>7, PlainFacts DEF Joining
  <2>2. QED
    BY <1>2, <2>1, FilesFewer
<1>8. CASE MainClose
  <2>1. /\ UNCHANGED gen /\ main' \notin {"connect_msg", "socket_cmd", "connect_cmd"}
        /\ Shutting(main, main')
    BY <1>8, MainCloseFacts DEF MainCloses
  <2>2. Fewer
    BY <2>1, CloseFewer
  <2>3. QED
    BY <2>1, <2>2, FilesFewer
<1>9. CASE ExitProcess
  <2>1. Fewer
    BY <1>9, ExitIs DEF Fewer
  <2>2. QED
    BY <1>9, <2>1, ExitIs, FilesFewer
<1>10. CASE \E g \in Gens : Reads(g) \/ EndSeen(g) \/ ThreadTerm(g) \/ ThreadClose(g)
  <2>1. PICK g \in Gens : Reads(g) \/ EndSeen(g) \/ ThreadTerm(g) \/ ThreadClose(g)
    BY <1>10
  <2>2. UNCHANGED <<gen, main, fd>>
    BY <2>1, ReadFacts, EndFacts, ThreadTermFacts, ThreadCloseFacts
  <2>3. Fewer
    BY <1>2, <2>1, ReadFacts, EndFacts, ThreadTermFacts, ThreadCloseFacts, CloseFewer
  <2>4. QED
    BY <2>2, <2>3, FilesFewer
<1>11. CASE \E g \in Gens : Exec(g)
  <2>1. UNCHANGED <<file, gen>> /\ (UNCHANGED <<main, fd>> \/ main' = "loop")
    BY <1>11, ExecFacts
  <2>2. QED
    BY <1>2, <2>1, FilesFewer
<1>12. CASE Still \/ \E c \in Conns : Lose(c)
  <2>1. UNCHANGED <<file, gen, main, fd>>
    BY <1>12, LoseFacts DEF Still, sockets, mains
  <2>2. QED
    BY <1>2, <2>1, FilesFewer
<1>13. QED
  BY <1>3, <1>4, <1>5, <1>6, <1>7, <1>8, <1>9, <1>10, <1>11, <1>12, StepIs

LEMMA OwnedFewer ==
  ASSUME TypeOK, Owned, Fewer, early \subseteq early', beside \subseteq beside',
         \A g \in Gens : reader[g] # "none" => reader'[g] # "none",
         main = "connect_msg" => main' = "connect_msg" /\ gen' = gen
  PROVE  Owned'
<1>1. ASSUME NEW f \in Fds, file'[f] # NoConn
      PROVE  LET g == file'[f][1] IN
             \/ g \in beside' \/ (file'[f][2] = "cmd" /\ g \in early')
             \/ reader'[g] # "none" \/ (main' = "connect_msg" /\ gen' = g)
  <2>1. file'[f] = file[f] /\ file[f] # NoConn
    BY <1>1 DEF Fewer
  <2>2. PICK g \in Gens : g = file[f][1]
    BY <2>1, ConnParts, TypeParts DEF FileType
  <2>3. \/ g \in beside \/ (file[f][2] = "cmd" /\ g \in early)
        \/ reader[g] # "none" \/ (main = "connect_msg" /\ gen = g)
    BY <2>1, <2>2 DEF Owned
  <2>4. QED
    BY <2>1, <2>2, <2>3
<1>2. QED
  BY <1>1 DEF Owned

\* When a thread starts the program anew, what is open is what the exceptions name.
LEMMA ExecOwned ==
  ASSUME TypeOK, Order, Owned, Shut, NEW g \in Gens, reader[g] = "exec",
         NEW f \in Fds, file[f] # NoConn
  PROVE  file[f][1] \in beside \/ (file[f][2] = "cmd" /\ file[f][1] \in early)
<1>1. PICK h \in Gens, k \in {"msg", "cmd"} :
        file[f] = <<h, k>> /\ file[f][1] = h /\ file[f][2] = k
  BY ConnParts, TypeParts DEF FileType
<1>2. SUFFICES ASSUME h \notin beside, k = "cmd" => h \notin early PROVE FALSE
  BY <1>1
<1>3. "exec" \in NoMsg /\ "exec" \in NoCmd
  BY DEF NoMsg, NoCmd
<1>4. Beyond(NoMsg) /\ Beyond(NoCmd)
  BY <1>3 DEF Beyond
<1>5. reader[h] # "none"
  <2>1. reader[h] # "none" \/ (main = "connect_msg" /\ gen = h)
    BY <1>1, <1>2 DEF Owned
  <2>2. main = "connect_msg" /\ gen \notin beside => reader[g] = "none"
    BY DEF Order
  <2>3. QED
    BY <1>2, <2>1, <2>2
<1>6. First(h)
  BY <1>2, <1>5 DEF First
<1>7. QED
  BY <1>1, <1>2, <1>4, <1>6 DEF Shut, MsgShut, CmdShut

LEMMA OwnedStep ==
  ASSUME TypeOK, Files, Order, Returns, Owned, Shut, [Next]_vars
  PROVE  Owned'
<1>1. ASSUME UNCHANGED file PROVE Fewer
  BY <1>1 DEF Fewer
<1>2. CASE Loop \/ SetupTerminal \/ ConnectCmd
  <2>1. UNCHANGED <<file, early, beside, reader, gen>> /\ main # "connect_msg"
    BY <1>2, LoopIs, SetupIs, ConnectCmdIs
  <2>2. QED
    BY <1>1, <2>1, OwnedFewer
<1>3. CASE SocketMsg
  <2>1. ASSUME NEW f \in Fds, file'[f] # NoConn
        PROVE  LET g == file'[f][1] IN
               \/ g \in beside' \/ (file'[f][2] = "cmd" /\ g \in early')
               \/ reader'[g] # "none" \/ (main' = "connect_msg" /\ gen' = g)
    <3>1. CASE f = fd'
      <4>1. file'[f] = <<gen', "msg">> /\ main' = "connect_msg"
        BY <1>3, <3>1, SocketMsgIs
      <4>2. QED
        BY <4>1
    <3>2. CASE f # fd'
      <4>1. file'[f] = file[f] /\ UNCHANGED <<reader, early>> /\ beside \subseteq beside'
            /\ main # "connect_msg"
        BY <1>3, <3>2, SocketMsgIs
      <4>2. PICK g : g = file[f][1]
        OBVIOUS
      <4>3. g \in beside \/ (file[f][2] = "cmd" /\ g \in early) \/ reader[g] # "none"
        BY <2>1, <4>1, <4>2 DEF Owned
      <4>4. QED
        BY <4>1, <4>2, <4>3
    <3>3. QED
      BY <3>1, <3>2
  <2>2. QED
    BY <2>1 DEF Owned
<1>4. CASE ConnectMsg
  <2>1. /\ UNCHANGED <<file, early, beside, gen>> /\ gen \in Gens
        /\ \A g \in Gens : reader'[g] = IF g = gen THEN "call" ELSE reader[g]
    BY <1>4, ConnectMsgIs
  <2>2. ASSUME NEW f \in Fds, file[f] # NoConn
        PROVE  \/ file[f][1] \in beside \/ (file[f][2] = "cmd" /\ file[f][1] \in early)
               \/ reader'[file[f][1]] # "none"
    <3>1. PICK g \in Gens : g = file[f][1]
      BY <2>2, ConnParts, TypeParts DEF FileType
    <3>2. \/ g \in beside \/ (file[f][2] = "cmd" /\ g \in early)
          \/ reader[g] # "none" \/ gen = g
      BY <2>2, <3>1 DEF Owned
    <3>3. QED
      BY <2>1, <3>1, <3>2
  <2>3. QED
    BY <2>1, <2>2 DEF Owned
<1>5. CASE SocketCmd
  <2>1. /\ main = "socket_cmd" /\ gen \in Gens /\ UNCHANGED <<reader, early, beside>>
        /\ \A f \in Fds : file'[f] = IF f = fd' THEN <<gen, "cmd">> ELSE file[f]
    BY <1>5, SocketCmdIs
  <2>2. reader[gen] # "none"
    BY <2>1 DEF Order, NoThread
  <2>3. ASSUME NEW f \in Fds, file'[f] # NoConn
        PROVE  \/ file'[f][1] \in beside \/ (file'[f][2] = "cmd" /\ file'[f][1] \in early)
               \/ reader[file'[f][1]] # "none"
    <3>1. CASE f = fd'
      <4>1. file'[f] = <<gen, "cmd">>
        BY <2>1, <3>1
      <4>2. QED
        BY <2>2, <4>1
    <3>2. CASE f # fd'
      <4>1. file'[f] = file[f]
        BY <2>1, <3>2
      <4>2. PICK g : g = file[f][1]
        OBVIOUS
      <4>3. g \in beside \/ (file[f][2] = "cmd" /\ g \in early) \/ reader[g] # "none"
        BY <2>1, <2>3, <4>1, <4>2 DEF Owned
      <4>4. QED
        BY <4>1, <4>2, <4>3
    <3>3. QED
      BY <3>1, <3>2
  <2>4. QED
    BY <2>1, <2>3 DEF Owned
<1>6. CASE Plain
  <2>1. UNCHANGED <<file, early, beside, reader>> /\ main # "connect_msg"
    BY <1>6, PlainFacts
  <2>2. QED
    BY <1>1, <2>1, OwnedFewer
<1>7. CASE MainClose
  <2>1. UNCHANGED <<early, beside, reader>> /\ main # "connect_msg" /\ Shutting(main, main')
    BY <1>7, MainCloseFacts DEF MainCloses
  <2>2. Fewer
    BY <2>1, CloseFewer
  <2>3. QED
    BY <2>1, <2>2, OwnedFewer
<1>8. CASE ExitProcess
  BY <1>8, ExitIs DEF Owned
<1>9. CASE \E g \in Gens : Reads(g) \/ EndSeen(g) \/ ThreadTerm(g) \/ ThreadClose(g)
  <2>1. PICK g \in Gens : Reads(g) \/ EndSeen(g) \/ ThreadTerm(g) \/ ThreadClose(g)
    BY <1>9
  <2>2. UNCHANGED <<gen, main, beside>> /\ \A h \in Gens : reader[h] # "none" => reader'[h] # "none"
    BY <2>1, ThreadMoves, MoveFacts DEF Moves
  <2>3. Fewer
    BY <1>1, <2>1, ReadFacts, EndFacts, ThreadTermFacts, ThreadCloseFacts, CloseFewer
  <2>4. early \subseteq early'
    BY <2>1, ReadFacts, EndFacts, ThreadTermFacts, ThreadCloseFacts
  <2>5. QED
    BY <2>2, <2>3, <2>4, OwnedFewer
<1>10. CASE \E g \in Gens : Exec(g)
  <2>1. PICK g \in Gens : Exec(g)
    BY <1>10
  <2>2. CASE UNCHANGED <<main, reader>>
    BY <1>1, <2>1, <2>2, ExecFacts, OwnedFewer
  <2>3. reader[g] = "exec" /\ UNCHANGED <<file, early, beside>>
    BY <2>1, ExecFacts
  <2>4. \A f \in Fds : file[f] # NoConn =>
          file[f][1] \in beside \/ (file[f][2] = "cmd" /\ file[f][1] \in early)
    BY <2>3, ExecOwned
  <2>5. QED
    BY <2>3, <2>4 DEF Owned
<1>11. CASE Still \/ \E c \in Conns : Lose(c)
  BY <1>1, <1>11, LoseFacts, OwnedFewer DEF Still, sockets, mains, readers
<1>12. QED
  BY <1>2, <1>3, <1>4, <1>5, <1>6, <1>7, <1>8, <1>9, <1>10, <1>11, StepIs

-------------------------------------------------------------------------------
(* The sockets of the first call are closed before anything is begun anew. *)

LEMMA ShutKept ==
  ASSUME TypeOK, Shut, Fewer, UNCHANGED <<msg_sock, cmd_sock, gen, fd>>, early \subseteq early',
         \A g \in Gens : First(g)' => First(g),
         Beyond(NoMsg)' => Beyond(NoMsg), Beyond(NoCmd)' => Beyond(NoCmd),
         main' # "socket_msg", main = "connect_cmd" => main' = "connect_cmd"
  PROVE  Shut'
<1> SUFFICES ASSUME NEW g \in Gens, First(g)'
             PROVE  MsgShut(g)' /\ (g \notin early' => CmdShut(g)')
  BY DEF Shut
<1>1. First(g) /\ MsgShut(g) /\ (g \notin early => CmdShut(g))
  BY DEF Shut
<1>2. \A f \in Fds : /\ file'[f] = <<g, "msg">> => file[f] = <<g, "msg">>
                     /\ file'[f] = <<g, "cmd">> => file[f] = <<g, "cmd">>
  BY ConnParts, StillOpen
<1>3. MsgShut(g)'
  BY <1>1, <1>2 DEF MsgShut
<1>4. ASSUME g \notin early' PROVE CmdShut(g)'
  BY <1>1, <1>2, <1>4 DEF CmdShut
<1>5. QED
  BY <1>3, <1>4

LEMMA ShutShutting ==
  ASSUME TypeOK, Shut, UNCHANGED <<gen, fd, beside, early>>,
         \A g \in Gens : First(g)' => First(g),
         NEW pc, NEW next, Shutting(pc, next), Beyond({pc}),
         Beyond(NoMsg)' => Beyond(NoMsg) \/ next \in NoMsg,
         Beyond(NoCmd)' => Beyond(NoCmd) \/ next \in NoCmd,
         main' # "socket_msg", main = "connect_cmd" => main' = "connect_cmd",
         \A g \in Gens : First(g) /\ gen = g /\ main = "connect_cmd" => g \in early
  PROVE  Shut'
<1> SUFFICES ASSUME NEW g \in Gens, First(g)'
             PROVE  MsgShut(g)' /\ (g \notin early' => CmdShut(g)')
  BY DEF Shut
<1>1. First(g) /\ MsgShut(g) /\ (g \notin early => CmdShut(g))
  BY DEF Shut
<1>2. Fewer
  BY CloseFewer
<1>3. \A f \in Fds : /\ file'[f] = <<g, "msg">> => file[f] = <<g, "msg">>
                     /\ file'[f] = <<g, "cmd">> => file[f] = <<g, "cmd">>
  BY <1>2, ConnParts, StillOpen
<1>4. pc \in NoMsg => Beyond(NoMsg)
  BY DEF Beyond
<1>5. pc \in NoCmd => Beyond(NoCmd)
  BY DEF Beyond
<1>6. pc \in NoMsg => \A f \in Fds : file'[f] # <<g, "msg">>
  BY <1>1, <1>3, <1>4 DEF MsgShut
<1>7. pc \in NoCmd /\ g \notin early => \A f \in Fds : file'[f] # <<g, "cmd">>
  BY <1>1, <1>3, <1>5 DEF CmdShut
<1>8. <<g, "msg">> # NoConn /\ <<g, "cmd">> # NoConn
  BY NotNoConn
<1>9. \A f \in Fds : Close(f) => file'[f] = NoConn
  BY DEF Close
<1>10. CASE pc = "close_msg"
  <2>1. Close(msg_sock) /\ next = "close_cmd" /\ UNCHANGED <<msg_sock, cmd_sock>>
    BY <1>10 DEF Shutting
  <2>2. \A f \in Fds : file'[f] # <<g, "msg">>
    BY <1>1, <1>3, <1>8, <1>9, <2>1 DEF MsgShut
  <2>3. Beyond(NoCmd)' => Beyond(NoCmd)
    BY <2>1 DEF NoCmd
  <2>4. QED
    BY <1>1, <1>3, <2>1, <2>2, <2>3 DEF MsgShut, CmdShut
<1>11. CASE pc = "close_cmd"
  <2>1. Close(cmd_sock)
    BY <1>11 DEF Shutting
  <2>2. \A f \in Fds : file'[f] # <<g, "msg">>
    BY <1>6, <1>11 DEF NoMsg
  <2>3. ASSUME g \notin early PROVE \A f \in Fds : file'[f] # <<g, "cmd">>
    BY <1>1, <1>3, <1>8, <1>9, <2>1, <2>3 DEF CmdShut
  <2>4. QED
    BY <2>2, <2>3 DEF MsgShut, CmdShut
<1>12. CASE pc \in {"forget_msg", "forget_cmd"}
  BY <1>6, <1>7, <1>12 DEF NoMsg, NoCmd, MsgShut, CmdShut
<1>13. QED
  BY <1>10, <1>11, <1>12 DEF Shutting

\* Once main begins a call beside the first thread, nothing of that thread's is open.
LEMMA AllShut ==
  ASSUME TypeOK, Shut, NEW g \in Gens, First(g),
         gen # g \/ main = "socket_msg" \/ (main = "loop" /\ msg_sock = -1)
  PROVE  /\ \A f \in Fds : file[f] # <<g, "msg">>
         /\ g \notin early => \A f \in Fds : file[f] # <<g, "cmd">>
BY Numbers DEF Shut, MsgShut, CmdShut

LEMMA ShutStep ==
  ASSUME TypeOK, Files, Order, Returns, Shut, Joined, [Next]_vars
  PROVE  Shut'
<1>1. ASSUME UNCHANGED file PROVE Fewer
  BY <1>1 DEF Fewer
<1>2. ASSUME UNCHANGED <<reader, beside>> PROVE \A g \in Gens : First(g)' <=> First(g)
  BY <1>2 DEF First
<1>3. ASSUME UNCHANGED reader, main' \notin NoMsg
      PROVE  (Beyond(NoMsg)' => Beyond(NoMsg)) /\ (Beyond(NoCmd)' => Beyond(NoCmd))
  BY <1>3 DEF Beyond, NoMsg, NoCmd
<1>4. CASE Loop
  <2>1. CASE msg_sock # -1
    BY <1>1, <1>2, <1>3, <1>4, <2>1, LoopIs, ShutKept DEF NoMsg
  <2>2. CASE msg_sock = -1
    <3>1. \A g \in Gens : First(g)' => First(g)
      BY <1>2, <1>4, LoopIs
    <3>2. main = "loop" /\ UNCHANGED <<file, early>>
      BY <1>4, LoopIs
    <3>3. QED
      BY <2>2, <3>1, <3>2, AllShut DEF Shut, MsgShut, CmdShut
  <2>3. QED
    BY <2>1, <2>2
<1>5. CASE SocketMsg
  <2>1. ASSUME NEW g \in Gens, First(g)'
        PROVE  MsgShut(g)' /\ (g \notin early' => CmdShut(g)')
    <3>1. First(g) /\ main = "socket_msg" /\ UNCHANGED early /\ gen' = gen + 1
      BY <1>5, <2>1, SocketMsgIs DEF First
    <3>2. g # gen'
      BY <3>1, Numbers, GenNat DEF Order, First
    <3>3. gen' \in Gens /\ <<gen', "msg">> # <<g, "msg">> /\ <<gen', "msg">> # <<g, "cmd">>
      BY <1>5, <3>2, SocketMsgIs
    <3>4. /\ \A f \in Fds : file'[f] # <<g, "msg">>
          /\ g \notin early => \A f \in Fds : file'[f] # <<g, "cmd">>
      BY <1>5, <3>1, <3>3, AllShut, SocketMsgIs
    <3>5. QED
      BY <3>1, <3>4 DEF MsgShut, CmdShut
  <2>2. QED
    BY <2>1 DEF Shut
<1>6. CASE ConnectMsg
  <2>1. ASSUME NEW g \in Gens, First(g)'
        PROVE  MsgShut(g)' /\ (g \notin early' => CmdShut(g)')
    <3>1. CASE g = gen
      <4>1. \A h \in Gens : reader[h] = "none"
        BY <1>6, <2>1, <3>1, ConnectMsgIs DEF Order, First
      <4>2. ~Beyond(NoMsg)' /\ ~Beyond(NoCmd)'
        BY <1>6, <4>1, ConnectMsgIs DEF Beyond, NoMsg, NoCmd
      <4>3. \A f \in Fds : /\ file'[f] = <<g, "msg">> => f = msg_sock'
                           /\ file'[f] # <<g, "cmd">>
        BY <1>6, <3>1, ConnectMsgIs DEF Files, OnlyAt
      <4>4. QED
        BY <1>6, <3>1, <4>2, <4>3, ConnectMsgIs DEF MsgShut, CmdShut
    <3>2. CASE g # gen
      <4>1. First(g) /\ UNCHANGED <<file, early>>
        BY <1>6, <2>1, <3>2, ConnectMsgIs DEF First
      <4>2. QED
        BY <3>2, <4>1, AllShut DEF MsgShut, CmdShut
    <3>3. QED
      BY <3>1, <3>2
  <2>2. QED
    BY <2>1 DEF Shut
<1>7. CASE SocketCmd
  <2>1. ASSUME NEW g \in Gens, First(g)'
        PROVE  MsgShut(g)' /\ (g \notin early' => CmdShut(g)')
    <3>1. First(g)
      BY <1>2, <1>7, <2>1, SocketCmdIs
    <3>2. CASE g = gen
      <4>1. ~Beyond(NoMsg) => ~Beyond(NoMsg)'
        BY <1>3, <1>7, SocketCmdIs DEF NoMsg
      <4>2. \A f \in Fds : file'[f] = <<g, "msg">> => file[f] = <<g, "msg">>
        BY <1>7, <3>2, SocketCmdIs
      <4>3. MsgShut(g)'
        BY <1>7, <3>1, <3>2, <4>1, <4>2, SocketCmdIs DEF Shut, MsgShut
      <4>4. ASSUME g \notin early' PROVE CmdShut(g)'
        <5>1. reader[g] \in Reading /\ msg_sock \in Fds
          BY <1>7, <3>1, <3>2, <4>4, SocketCmdIs DEF Joined, Joining, Names
        <5>2. \A h \in Gens : reader'[h] \notin NoCmd
          <6>1. \A h \in Gens : reader[h] \in Reading \cup {"none"}
            BY <3>1, <3>2, <5>1, OnlyFirst
          <6>2. QED
            BY <1>7, <6>1, SocketCmdIs DEF Reading, NoCmd
        <5>3. \A f \in Fds : file'[f] = <<g, "cmd">> => f = fd'
          BY <1>7, <3>2, SocketCmdIs DEF Files
        <5>4. QED
          BY <1>7, <3>2, <5>1, <5>2, <5>3, SocketCmdIs, Numbers DEF CmdShut, Beyond, NoCmd
      <4>5. QED
        BY <4>3, <4>4
    <3>3. CASE g # gen
      <4>1. /\ \A f \in Fds : file[f] # <<g, "msg">>
            /\ g \notin early => \A f \in Fds : file[f] # <<g, "cmd">>
        BY <3>1, <3>3, AllShut
      <4>2. <<gen, "cmd">> # <<g, "msg">> /\ <<gen, "cmd">> # <<g, "cmd">>
        BY <3>3
      <4>3. QED
        BY <1>7, <4>1, <4>2, SocketCmdIs DEF MsgShut, CmdShut
    <3>4. QED
      BY <3>2, <3>3
  <2>2. QED
    BY <2>1 DEF Shut
<1>8. CASE ConnectCmd
  <2>1. ASSUME NEW g \in Gens, First(g)'
        PROVE  MsgShut(g)' /\ (g \notin early' => CmdShut(g)')
    <3>1. First(g) /\ MsgShut(g) /\ (g \notin early => CmdShut(g))
      BY <1>2, <1>8, <2>1, ConnectCmdIs DEF Shut
    <3>2. ~Beyond(NoMsg) => ~Beyond(NoMsg)'
      BY <1>3, <1>8, ConnectCmdIs DEF NoMsg
    <3>3. ~Beyond(NoCmd) => ~Beyond(NoCmd)'
      BY <1>3, <1>8, ConnectCmdIs DEF NoMsg
    <3>4. MsgShut(g)'
      BY <1>8, <3>1, <3>2, ConnectCmdIs DEF MsgShut
    <3>5. ASSUME g \notin early' PROVE CmdShut(g)'
      <4>1. CmdShut(g)
        BY <1>8, <3>1, <3>5, ConnectCmdIs
      <4>2. ASSUME NEW f \in Fds, file[f] = <<g, "cmd">>
            PROVE  cmd_sock' = f /\ ~Beyond(NoCmd) /\ gen = g /\ msg_sock # -1
        <5>1. gen = g /\ ~Beyond(NoCmd) /\ msg_sock # -1
          BY <4>1, <4>2 DEF CmdShut
        <5>2. fd \in Fds /\ file[fd] = file[f] /\ file[f] # NoConn
          <6>1. <<g, "cmd">> # NoConn
            BY NotNoConn
          <6>2. fd \in Fds /\ file[fd] = <<gen, "cmd">>
            BY <1>8, ConnectCmdIs
          <6>3. QED
            BY <4>2, <5>1, <6>1, <6>2
        <5>3. fd = f
          BY <5>2 DEF Files
        <5>4. QED
          BY <1>8, <5>1, <5>3, ConnectCmdIs
      <4>3. QED
        BY <1>8, <3>3, <4>2, ConnectCmdIs DEF CmdShut
    <3>6. QED
      BY <3>4, <3>5
  <2>2. QED
    BY <2>1 DEF Shut
<1>9. CASE SetupTerminal
  BY <1>1, <1>2, <1>3, <1>9, SetupIs, ShutKept DEF NoMsg
<1>10. CASE Plain
  <2>1. main # "connect_cmd" /\ main' # "socket_msg" /\ main' \notin NoMsg
        /\ UNCHANGED <<file, msg_sock, cmd_sock, fd, gen, reader, beside, early>>
    BY <1>10, PlainFacts DEF Joining
  <2>2. QED
    BY <1>1, <1>2, <1>3, <2>1, ShutKept
<1>11. CASE MainClose
  <2>1. /\ UNCHANGED <<fd, gen, reader, beside, early>> /\ main \in MainCloses
        /\ Shutting(main, main') /\ main' \in MainCloses \cup {"exit", "term"}
    BY <1>11, MainCloseFacts
  <2>2. Beyond({main})
    BY DEF Beyond
  <2>3. /\ Beyond(NoMsg)' => Beyond(NoMsg) \/ main' \in NoMsg
        /\ Beyond(NoCmd)' => Beyond(NoCmd) \/ main' \in NoCmd
    BY <2>1 DEF Beyond
  <2>4. main # "connect_cmd" /\ main' # "socket_msg"
    BY <2>1 DEF MainCloses
  <2>5. \A g \in Gens : First(g)' => First(g)
    BY <1>2, <2>1
  <2>6. QED
    BY <2>1, <2>2, <2>3, <2>4, <2>5, ShutShutting
<1>12. CASE ExitProcess
  <2>1. \A f \in Fds : file'[f] = NoConn
    BY <1>12, ExitIs
  <2>2. QED
    BY <2>1, NotNoConn DEF Shut, MsgShut, CmdShut
<1>13. CASE \E g \in Gens : Reads(g) \/ EndSeen(g) \/ ThreadTerm(g)
  <2>1. PICK g \in Gens : Reads(g) \/ EndSeen(g) \/ ThreadTerm(g)
    BY <1>13
  <2>2. /\ UNCHANGED <<file, msg_sock, cmd_sock, fd, gen, main, beside>> /\ early \subseteq early'
        /\ \E x \in Reading \cup {"term", "close_msg"} : reader' = [reader EXCEPT ![g] = x]
    BY <2>1, ReadFacts, EndFacts, ThreadTermFacts DEF Reading
  <2>3. \A h \in Gens : First(h)' => First(h)
    BY <2>1, ThreadMoves, MoveFacts
  <2>4. \A h \in Gens : reader'[h] \in NoMsg => reader[h] \in NoMsg
    BY <2>2, TypeParts DEF ReaderType, Reading, NoMsg
  <2>5. \A h \in Gens : reader'[h] \in NoCmd => reader[h] \in NoCmd
    BY <2>2, TypeParts DEF ReaderType, Reading, NoCmd
  <2>6. (Beyond(NoMsg)' => Beyond(NoMsg)) /\ (Beyond(NoCmd)' => Beyond(NoCmd))
    BY <2>2, <2>4, <2>5 DEF Beyond
  <2>7. CASE main # "socket_msg"
    BY <1>1, <2>2, <2>3, <2>6, <2>7, ShutKept
  <2>8. CASE main = "socket_msg"
    BY <2>2, <2>3, <2>8, AllShut DEF Shut, MsgShut, CmdShut
  <2>9. QED
    BY <2>7, <2>8
<1>14. CASE \E g \in Gens : ThreadClose(g)
  <2>1. PICK g \in Gens : ThreadClose(g)
    BY <1>14
  <2>2. PICK x \in MainCloses \cup {"exec"} :
          reader' = [reader EXCEPT ![g] = x] /\ Shutting(reader[g], x)
    BY <2>1, ThreadCloseFacts
  <2>3. UNCHANGED <<fd, gen, main, beside, early>>
    BY <2>1, ThreadCloseFacts
  <2>4. \A h \in Gens : First(h)' => First(h)
    BY <2>1, ThreadMoves, MoveFacts
  <2>5. \A h \in Gens : reader'[h] = reader[h] \/ reader'[h] = x
    BY <2>2, TypeParts DEF ReaderType
  <2>6. /\ Beyond(NoMsg)' => Beyond(NoMsg) \/ x \in NoMsg
        /\ Beyond(NoCmd)' => Beyond(NoCmd) \/ x \in NoCmd
    BY <2>3, <2>5 DEF Beyond
  <2>7. Beyond({reader[g]})
    BY DEF Beyond
  <2>8. ASSUME NEW h \in Gens, First(h), gen = h, main = "connect_cmd", h \notin early PROVE FALSE
    <3>1. reader[h] \in Reading
      BY <2>8 DEF Joined, Joining
    <3>2. reader[g] # "none" /\ reader[g] \notin Reading
      BY <2>2 DEF Shutting, Reading
    <3>3. QED
      BY <2>8, <3>1, <3>2, OnlyFirst
  <2>9. CASE main # "socket_msg"
    BY <2>2, <2>3, <2>4, <2>6, <2>7, <2>8, <2>9, ShutShutting
  <2>10. CASE main = "socket_msg"
    <3>1. Fewer
      BY <2>2, CloseFewer
    <3>2. ASSUME NEW h \in Gens, First(h)'
          PROVE  /\ \A f \in Fds : file'[f] # <<h, "msg">>
                 /\ h \notin early => \A f \in Fds : file'[f] # <<h, "cmd">>
      <4>1. /\ \A f \in Fds : file[f] # <<h, "msg">>
            /\ h \notin early => \A f \in Fds : file[f] # <<h, "cmd">>
        BY <2>4, <2>10, <3>2, AllShut
      <4>2. <<h, "msg">> \in Conns /\ <<h, "cmd">> \in Conns
        BY ConnParts
      <4>3. \A f \in Fds : /\ file'[f] = <<h, "msg">> => file[f] = <<h, "msg">>
                           /\ file'[f] = <<h, "cmd">> => file[f] = <<h, "cmd">>
        BY <3>1, <4>2, StillOpen
      <4>4. QED
        BY <4>1, <4>3
    <3>3. QED
      BY <2>3, <3>2 DEF Shut, MsgShut, CmdShut
  <2>11. QED
    BY <2>9, <2>10
<1>15. CASE \E g \in Gens : Exec(g)
  <2>1. PICK g \in Gens : Exec(g)
    BY <1>15
  <2>2. CASE UNCHANGED <<msg_sock, cmd_sock, main, fd, reader>>
    <3>1. UNCHANGED <<file, gen, beside, early>>
      BY <2>1, ExecFacts
    <3>2. QED
      BY <2>2, <3>1 DEF Shut, MsgShut, CmdShut, First, Beyond
  <2>3. CASE \A h \in Gens : reader'[h] = "none"
    BY <2>3 DEF Shut, First
  <2>4. QED
    BY <2>1, <2>2, <2>3, ExecFacts
<1>16. CASE Still \/ \E c \in Conns : Lose(c)
  <2>1. UNCHANGED <<msg_sock, cmd_sock, main, fd, reader, file, gen, beside, early>>
    BY <1>16, LoseFacts DEF Still, sockets, globals, mains, readers
  <2>2. QED
    BY <2>1 DEF Shut, MsgShut, CmdShut, First, Beyond
<1>17. QED
  BY <1>4, <1>5, <1>6, <1>7, <1>8, <1>9, <1>10, <1>11, <1>12, <1>13, <1>14, <1>15, <1>16, StepIs

-------------------------------------------------------------------------------
(* What becomes of a connection.                                           *)

\* A connection that no one opened is changed by who opens it, or by a send on what a
\* global names; one whose end was reported stays dead until it is opened.
LEMMA PlainStatus ==
  ASSUME TypeOK, proc = "running", Plain, NEW c \in Conns, status'[c] # status[c]
  PROVE  /\ status[c] # "dead"
         /\ status[c] # "none" \/ c = ConnOf(cmd_sock)
<1>1. FileType /\ cmd_sock \in Socks /\ msg_sock \in Socks /\ on \in Conns \cup {NoConn}
  BY TypeParts DEF SockType, MainType
<1>2. CASE CheckMsg \/ CheckCmd
  <2>1. PICK s \in Socks : Reported(ConnOf(s))
    BY <1>1, <1>2 DEF CheckMsg, CheckCmd, Check
  <2>2. status[c] \in {"reset", "pipe"}
    BY <1>1, <2>1, ConnOfType, ReportedType
  <2>3. QED
    BY <2>2
<1>3. CASE SendCmd \/ SendFile \/ SendData
  <2>1. SendOn(cmd_sock)
    BY <1>3 DEF SendCmd, SendFile, SendData
  <2>2. c = ConnOf(cmd_sock) /\ status[c] # "dead"
    BY <1>1, <2>1, SendType
  <2>3. QED
    BY <2>2
<1>4. CASE Result \/ NoResult
  <2>1. Reported(on)
    BY <1>4 DEF Result, NoResult, Answer
  <2>2. status[c] \in {"reset", "pipe"}
    BY <1>1, <2>1, ReportedType
  <2>3. QED
    BY <2>2
<1>5. CASE CatchInterrupt \/ MainTerm \/ NoHandler \/ EndTerm
  BY <1>5 DEF CatchInterrupt, MainTerm, NoHandler, EndTerm, sockets
<1>6. CASE Going
  <2>1. \E pc, then : Goto(pc, then)
    BY <1>6, GoingTo
  <2>2. QED
    BY <2>1 DEF Goto, sockets
<1>7. QED
  BY <1>2, <1>3, <1>4, <1>5, <1>6 DEF Plain

LEMMA StatusStep ==
  ASSUME TypeOK, Order, Files, [Next]_vars, NEW c \in Conns, status'[c] # status[c]
  PROVE  \/ ConnectMsg /\ c = <<gen, "msg">>
         \/ ConnectCmd /\ c = <<gen, "cmd">>
         \/ status[c] # "none" /\ status[c] # "dead"
         \/ status[c] # "dead" /\ Plain /\ c = ConnOf(cmd_sock)
         \/ status[c] # "dead" /\ (\E g \in Gens : Reads(g)) /\ c = ConnOf(msg_sock)
<1>1. FileType /\ msg_sock \in Socks /\ from \in [Gens -> Conns \cup {NoConn}]
  BY TypeParts DEF SockType, ReaderType
<1>2. CASE Loop \/ SocketMsg \/ SocketCmd \/ SetupTerminal \/ MainClose \/ ExitProcess
  <2>1. UNCHANGED status
    BY <1>2 DEF Loop, SocketMsg, SocketCmd, SetupTerminal, MainClose, CloseStep, ExitProcess,
         sockets
  <2>2. QED
    BY <2>1
<1>3. CASE ConnectMsg
  BY <1>3, ConnectMsgIs
<1>4. CASE ConnectCmd
  BY <1>4, ConnectCmdIs
<1>5. CASE Plain /\ proc = "running"
  BY <1>5, PlainStatus
<1>6. ASSUME NEW g \in Gens, proc = "running", Reads(g)
      PROVE  status[c] # "dead" /\ (status[c] # "none" \/ c = ConnOf(msg_sock))
  <2>1. CASE Receive(g) \/ Got(g)
    BY <2>1 DEF Receive, Got, sockets
  <2>2. CASE Reply(g)
    <3>1. SendOn(msg_sock)
      BY <2>2 DEF Reply
    <3>2. c = ConnOf(msg_sock) /\ status[c] # "dead"
      BY <1>1, <1>6, <3>1, SendType
    <3>3. QED
      BY <3>2
  <2>3. QED
    BY <1>6, <2>1, <2>2 DEF Reads
<1>7. ASSUME NEW g \in Gens, EndSeen(g) \/ ThreadTerm(g) \/ ThreadClose(g) \/ Exec(g)
      PROVE  status[c] # "dead" /\ status[c] # "none"
  <2>1. CASE EndSeen(g)
    <3>1. Reported(from[g]) /\ from[g] \in Conns \cup {NoConn}
      BY <1>1, <2>1 DEF EndSeen
    <3>2. status[c] \in {"reset", "pipe"}
      BY <1>1, <3>1, ReportedType
    <3>3. QED
      BY <3>2
  <2>2. CASE ThreadTerm(g) \/ ThreadClose(g) \/ Exec(g)
    BY <2>2 DEF ThreadTerm, ThreadClose, CloseStep, Exec, sockets
  <2>3. QED
    BY <1>7, <2>1, <2>2
<1>8. ASSUME NEW d \in Conns, Lose(d) PROVE status[c] # "dead" /\ status[c] # "none"
  <2>1. status[d] = "open" /\ \E s \in {"eof", "reset"} : status' = [status EXCEPT ![d] = s]
    BY <1>8, LoseFacts
  <2>2. c = d
    BY <1>1, <2>1 DEF FileType
  <2>3. QED
    BY <2>1, <2>2
<1>9. CASE Still
  BY <1>9 DEF Still, sockets
<1>10. QED
  BY <1>2, <1>3, <1>4, <1>5, <1>6, <1>7, <1>8, <1>9, StepIs

\* What a descriptor stands for was begun by a call.
LEMMA ConnOfOld ==
  ASSUME TypeOK, Files, NEW s \in Socks, ConnOf(s) # NoConn
  PROVE  s \in Fds /\ ConnOf(s) = file[s] /\ ConnOf(s)[1] <= gen
<1>1. s # -1
  BY DEF ConnOf
<1>2. s \in Fds /\ ConnOf(s) = file[s]
  BY <1>1 DEF Socks, ConnOf
<1>3. QED
  BY <1>2 DEF Files

LEMMA UnbornStep ==
  ASSUME TypeOK, Order, Files, Returns, Unborn, [Next]_vars
  PROVE  Unborn'
<1> SUFFICES ASSUME NEW c \in Conns,
                    c[1] > gen' \/ (main' = "connect_msg" /\ c[1] = gen' /\ gen' \notin beside')
             PROVE  status'[c] = "none"
  BY DEF Unborn
<1>1. gen \in Nat /\ c[1] \in Nat /\ c[1] \in Gens
  BY GenNat, ConnParts, Numbers
<1>2. CASE SocketMsg
  <2>1. gen' = gen + 1 /\ status' = status
    BY <1>2, SocketMsgIs
  <2>2. c[1] > gen
    BY <1>1, <2>1
  <2>3. QED
    BY <2>1, <2>2 DEF Unborn
<1>3. CASE ~SocketMsg
  <2>1. gen' = gen /\ (main' = "connect_msg" => main = "connect_msg" /\ UNCHANGED beside)
    <3>1. CASE Loop \/ ConnectMsg \/ SocketCmd \/ ConnectCmd \/ SetupTerminal
      BY <3>1, LoopIs, ConnectMsgIs, SocketCmdIs, ConnectCmdIs, SetupIs
    <3>2. CASE Plain
      BY <3>2, PlainFacts
    <3>3. CASE MainClose
      BY <3>3, MainCloseFacts DEF MainCloses
    <3>4. CASE ExitProcess
      BY <3>4, ExitIs
    <3>5. CASE \E g \in Gens : Reads(g) \/ EndSeen(g) \/ ThreadTerm(g) \/ ThreadClose(g) \/ Exec(g)
      BY <3>5, ReadFacts, EndFacts, ThreadTermFacts, ThreadCloseFacts, ExecFacts
    <3>6. CASE Still \/ \E d \in Conns : Lose(d)
      BY <3>6, LoseFacts DEF Still, mains
    <3>7. QED
      BY <1>3, <3>1, <3>2, <3>3, <3>4, <3>5, <3>6, StepIs
  <2>2. c[1] > gen \/ (main = "connect_msg" /\ c[1] = gen /\ gen \notin beside)
    BY <2>1
  <2>3. status[c] = "none"
    BY <2>2 DEF Unborn
  <2>4. SUFFICES ASSUME status'[c] # status[c] PROVE FALSE
    BY <2>3
  <2>5. c # NoConn /\ msg_sock \in Socks /\ cmd_sock \in Socks
    BY Numbers, TypeParts DEF SockType
  <2>6. CASE c[1] > gen
    <3>1. ~(c[1] <= gen)
      BY <1>1, <2>6
    <3>2. c # ConnOf(cmd_sock) /\ c # ConnOf(msg_sock)
      BY <2>5, <3>1, ConnOfOld
    <3>3. c # <<gen, "msg">> /\ c # <<gen, "cmd">>
      BY <1>1, <2>6
    <3>4. QED
      BY <2>3, <2>4, <3>2, <3>3, StatusStep
  <2>7. CASE main = "connect_msg" /\ c[1] = gen /\ gen \notin beside
    <3>1. \A g \in Gens : reader[g] = "none"
      BY <2>7 DEF Order
    <3>2. ~ \E g \in Gens : Reads(g)
      BY <3>1, ReadFacts DEF Reading
    <3>3. ~Plain /\ ~ConnectCmd
      BY <2>7, PlainFacts DEF ConnectCmd, At
    <3>4. ~ConnectMsg
      <4>1. ASSUME ConnectMsg PROVE FALSE
        BY <2>1, <2>2, <2>7, <1>1, <4>1, ConnectMsgIs
      <4>2. QED
        BY <4>1
    <3>5. QED
      BY <2>3, <2>4, <3>2, <3>3, <3>4, StatusStep
  <2>8. QED
    BY <2>2, <2>6, <2>7
<1>4. QED
  BY <1>2, <1>3

-------------------------------------------------------------------------------
(* While main connects, the thread of that call reads.                     *)

\* The command connection stays what it was as long as main is not through with it.
LEMMA NotYet ==
  ASSUME TypeOK, Order, Files, Returns, Joined, [Next]_vars, UNCHANGED main,
         NEW g \in Gens, First(g), gen = g, main \in Joining \ {"setup"}, g \notin early
  PROVE  status'[<<g, "cmd">>] = "none"
<1>1. status[<<g, "cmd">>] = "none" /\ Names(msg_sock, <<g, "msg">>)
  BY DEF Joined
<1>2. SUFFICES ASSUME status'[<<g, "cmd">>] # status[<<g, "cmd">>] PROVE FALSE
  BY <1>1
<1>3. <<g, "cmd">> \in Conns
  BY ConnParts
<1>4. ~ConnectMsg /\ ~ConnectCmd
  BY DEF ConnectMsg, ConnectCmd, At
<1>5. ~Plain
  BY PlainFacts
<1>6. ConnOf(msg_sock) = <<g, "msg">>
  BY <1>1, Numbers DEF Names, ConnOf
<1>7. <<g, "cmd">> # <<g, "msg">>
  OBVIOUS
<1>8. QED
  BY <1>1, <1>2, <1>3, <1>4, <1>5, <1>6, <1>7, StatusStep

LEMMA JoinedStep ==
  ASSUME TypeOK, Order, Files, Returns, Joined, Unborn, [Next]_vars
  PROVE  Joined'
<1> SUFFICES ASSUME NEW g \in Gens, First(g)', gen' = g, main' \in Joining, g \notin early'
             PROVE  /\ reader'[g] \in Reading /\ Names(msg_sock, <<g, "msg">>)'
                    /\ main' = "connect_cmd" => Names(fd, <<g, "cmd">>)'
                    /\ main' # "setup" => status'[<<g, "cmd">>] = "none"
  BY DEF Joined
<1>1. CASE ConnectMsg
  <2>1. gen = g /\ gen \notin beside /\ main = "connect_msg"
    BY <1>1, ConnectMsgIs DEF First
  <2>2. <<g, "cmd">> \in Conns /\ <<g, "cmd">>[1] = g /\ <<g, "cmd">> # <<g, "msg">>
    BY ConnParts
  <2>3. status[<<g, "cmd">>] = "none"
    BY <2>1, <2>2 DEF Unborn
  <2>4. status'[<<g, "cmd">>] = "none" /\ reader'[g] = "call" /\ main' = "socket_cmd"
    BY <1>1, <2>1, <2>2, <2>3, ConnectMsgIs
  <2>5. msg_sock' \in Fds /\ file'[msg_sock'] = <<g, "msg">>
    BY <1>1, <2>1, ConnectMsgIs
  <2>6. QED
    BY <2>4, <2>5 DEF Names, Reading
<1>2. CASE SocketCmd
  <2>1. gen = g /\ First(g) /\ main = "socket_cmd" /\ g \notin early
    BY <1>2, SocketCmdIs DEF First
  <2>2. reader[g] \in Reading /\ Names(msg_sock, <<g, "msg">>) /\ status[<<g, "cmd">>] = "none"
    BY <2>1 DEF Joined, Joining
  <2>3. msg_sock # fd'
    BY <1>2, <2>2, NotNoConn, SocketCmdIs DEF Names
  <2>4. QED
    BY <1>2, <2>1, <2>2, <2>3, SocketCmdIs DEF Names
<1>3. CASE ConnectCmd
  <2>1. gen = g /\ First(g) /\ main = "connect_cmd" /\ g \notin early
    BY <1>3, ConnectCmdIs DEF First
  <2>2. reader[g] \in Reading /\ Names(msg_sock, <<g, "msg">>)
    BY <2>1 DEF Joined, Joining
  <2>3. QED
    BY <1>3, <2>2, ConnectCmdIs DEF Names
<1>4. ASSUME UNCHANGED <<main, gen, fd, file, msg_sock>>, First(g), g \notin early,
             reader[g] \in Reading => reader'[g] \in Reading
      PROVE  /\ reader'[g] \in Reading /\ Names(msg_sock, <<g, "msg">>)'
             /\ main' = "connect_cmd" => Names(fd, <<g, "cmd">>)'
             /\ main' # "setup" => status'[<<g, "cmd">>] = "none"
  <2>1. /\ reader[g] \in Reading /\ Names(msg_sock, <<g, "msg">>)
        /\ main = "connect_cmd" => Names(fd, <<g, "cmd">>)
    BY <1>4 DEF Joined
  <2>2. main # "setup" => status'[<<g, "cmd">>] = "none"
    BY <1>4, NotYet
  <2>3. QED
    BY <1>4, <2>1, <2>2 DEF Names
<1>5. CASE \E h \in Gens : Reads(h) \/ EndSeen(h) \/ ThreadTerm(h) \/ ThreadClose(h)
  <2>1. PICK h \in Gens : Reads(h) \/ EndSeen(h) \/ ThreadTerm(h) \/ ThreadClose(h)
    BY <1>5
  <2>2. Moves(h)
    BY <2>1, ThreadMoves
  <2>3. First(g) /\ gen = g /\ main \in Joining /\ reader[h] # "none"
    BY <2>2, MoveFacts DEF Moves
  <2>4. h = g
    BY <2>3, OnlyFirst
  <2>5. g \notin early
    BY <2>1, ReadFacts, EndFacts, ThreadTermFacts, ThreadCloseFacts
  <2>6. reader[g] \in Reading
    BY <2>3, <2>5 DEF Joined
  <2>7. Reads(g)
    <3>1. ~EndSeen(g)
      BY <2>3, EndFacts
    <3>2. ~ThreadTerm(g)
      BY <2>6, ThreadTermFacts DEF Reading
    <3>3. ~ThreadClose(g)
      BY <2>6, ThreadCloseFacts DEF Reading, Shutting
    <3>4. QED
      BY <2>1, <2>4, <3>1, <3>2, <3>3
  <2>8. reader'[g] \in Reading
    BY <2>7, ReadFacts, TypeParts DEF ReaderType
  <2>9. QED
    BY <1>4, <2>3, <2>5, <2>7, <2>8, ReadFacts
<1>6. CASE \E h \in Gens : Exec(h)
  <2>1. UNCHANGED <<main, gen, fd, file, msg_sock, reader, beside, early>>
    BY <1>6, ExecFacts DEF Joining
  <2>2. QED
    BY <1>4, <2>1 DEF First
<1>7. CASE Still \/ \E c \in Conns : Lose(c)
  <2>1. UNCHANGED <<main, gen, fd, file, msg_sock, reader, beside, early>>
    BY <1>7, LoseFacts DEF Still, sockets, globals, mains, readers
  <2>2. QED
    BY <1>4, <2>1 DEF First
<1>8. ~(Loop \/ SocketMsg \/ SetupTerminal)
  BY LoopIs, SocketMsgIs, SetupIs DEF Joining
<1>9. ~(Plain \/ MainClose \/ ExitProcess)
  BY PlainFacts, MainCloseFacts, ExitIs DEF Joining, MainCloses
<1>10. QED
  BY <1>1, <1>2, <1>3, <1>5, <1>6, <1>7, <1>8, <1>9, StepIs

-------------------------------------------------------------------------------
(* As long as the first thread reads and no end was reported, main is with *)
(* that thread's call.                                                     *)

Alive(g) ==
  First(g) /\ reader[g] \in Reading /\ "dead" \notin {status[<<g, "msg">>], status[<<g, "cmd">>]}
With(g) ==
  /\ gen = g /\ main # "socket_msg"
  /\ ret # "exit" =>
       /\ ~Closing(main) /\ main # "term" /\ Names(msg_sock, <<g, "msg">>)
       /\ main \notin {"socket_cmd", "connect_cmd"} => Names(cmd_sock, <<g, "cmd">>)

LEMMA KeptIs == (Kept <=> \A g \in Gens : Alive(g) => With(g))
                /\ (Kept' <=> \A g \in Gens : Alive(g)' => With(g)')
BY DEF Kept, Alive, With

LEMMA ReaderMoves ==
  ASSUME TypeOK, Order, Files, Returns, [Next]_vars, ~ConnectMsg,
         NEW g \in Gens, First(g)', reader'[g] \in Reading
  PROVE  First(g) /\ reader[g] \in Reading
<1>1. "none" \notin Reading
  BY DEF Reading
<1>2. CASE Loop \/ SocketMsg \/ SocketCmd \/ ConnectCmd \/ SetupTerminal
  <2>1. UNCHANGED reader /\ beside \subseteq beside'
    BY <1>2, LoopIs, SocketMsgIs, SocketCmdIs, ConnectCmdIs, SetupIs
  <2>2. QED
    BY <2>1 DEF First
<1>3. CASE Plain \/ MainClose \/ ExitProcess
  BY <1>3, PlainFacts, MainCloseFacts, ExitIs DEF First
<1>4. CASE \E h \in Gens : Reads(h) \/ EndSeen(h) \/ ThreadTerm(h) \/ ThreadClose(h)
  BY <1>4, ThreadMoves, MoveFacts
<1>5. CASE \E h \in Gens : Exec(h)
  BY <1>1, <1>5, ExecFacts DEF First
<1>6. CASE Still \/ \E c \in Conns : Lose(c)
  BY <1>6, LoseFacts DEF Still, mains, readers, First
<1>7. QED
  BY <1>2, <1>3, <1>4, <1>5, <1>6, StepIs

LEMMA AliveBefore ==
  ASSUME TypeOK, Order, Files, Returns, Joined, [Next]_vars, ~ConnectMsg,
         NEW g \in Gens, Alive(g)'
  PROVE  Alive(g)
<1>1. First(g) /\ reader[g] \in Reading
  BY ReaderMoves DEF Alive
<1>2. ASSUME NEW k \in {"msg", "cmd"}, status[<<g, k>>] = "dead", status'[<<g, k>>] # "dead"
      PROVE  FALSE
  <2>1. <<g, k>> \in Conns /\ <<g, k>>[1] = g /\ <<g, k>>[2] = k
    BY ConnParts
  <2>2. ConnectCmd /\ <<g, k>> = <<gen, "cmd">>
    BY <1>2, <2>1, StatusStep
  <2>3. gen = g /\ k = "cmd" /\ main = "connect_cmd"
    BY <2>1, <2>2 DEF ConnectCmd, At
  <2>4. g \notin early
    BY <1>1 DEF Order
  <2>5. status[<<g, "cmd">>] = "none"
    BY <1>1, <2>3, <2>4 DEF Joined, Joining
  <2>6. QED
    BY <1>2, <2>3, <2>5
<1>3. QED
  BY <1>1, <1>2 DEF Alive

\* When main closes the sockets on its own, the end of one of them was reported.
LEMMA DeadReported ==
  ASSUME TypeOK, Returns, Plain, main' = "close_msg", ret' # "exit"
  PROVE  \E s \in {msg_sock, cmd_sock} : Dead(ConnOf(s)) /\ Reported(ConnOf(s))
<1>1. CASE CheckMsg
  BY <1>1 DEF CheckMsg, Check, At
<1>2. CASE CheckCmd
  BY <1>2 DEF CheckCmd, Check, At
<1>3. CASE Going
  <2>1. PICK then \in MainPcs \ {"close_msg"} : \E pc : Goto(pc, then)
    BY <1>3, GoingTo
  <2>2. QED
    BY <2>1 DEF Goto, At
<1>4. CASE CatchInterrupt \/ MainTerm \/ EndTerm
  BY <1>4 DEF CatchInterrupt, MainTerm, EndTerm, At, Start, Returns
<1>5. CASE NoHandler \/ SendCmd \/ SendFile \/ SendData \/ Result \/ NoResult
  BY <1>5 DEF NoHandler, SendCmd, SendFile, SendData, Result, NoResult, Answer, At, After
<1>6. QED
  BY <1>1, <1>2, <1>3, <1>4, <1>5 DEF Plain

LEMMA WithPlain ==
  ASSUME TypeOK, Returns, Plain, NEW g \in Gens, With(g), Alive(g)'
  PROVE  With(g)'
<1>1. /\ UNCHANGED <<file, msg_sock, cmd_sock, gen>> /\ ret # "exit"
      /\ main \notin {"socket_cmd", "connect_cmd"}
      /\ main' \notin {"socket_msg", "term", "close_cmd", "forget_msg", "forget_cmd"}
  BY PlainFacts DEF Joining, NoMsg
<1>2. Names(msg_sock, <<g, "msg">>) /\ Names(cmd_sock, <<g, "cmd">>) /\ gen = g
  BY <1>1 DEF With
<1>3. ASSUME main' = "close_msg", ret' # "exit" PROVE FALSE
  <2>1. PICK s \in {msg_sock, cmd_sock} : Dead(ConnOf(s)) /\ Reported(ConnOf(s))
    BY <1>3, DeadReported
  <2>2. PICK k \in {"msg", "cmd"} : ConnOf(s) = <<g, k>>
    BY <1>2, <2>1, Numbers DEF Names, ConnOf
  <2>3. <<g, k>> \in Conns /\ <<g, k>> # NoConn
    BY NotNoConn, ConnParts
  <2>4. status[<<g, k>>] \in {"reset", "pipe"}
    BY <2>1, <2>2, <2>3, TypeParts DEF Dead, State, FileType, States
  <2>5. status'[<<g, k>>] = "dead"
    BY <2>1, <2>2, <2>3, <2>4, ReportedType, TypeParts
  <2>6. QED
    BY <2>5 DEF Alive
<1>4. ret' # "exit" => ~Closing(main')
  BY <1>1, <1>3, ClosingIs
<1>5. QED
  BY <1>1, <1>2, <1>4 DEF With, Names, Closing

LEMMA KeptStep ==
  ASSUME TypeOK, Order, Files, Returns, Joined, Kept, [Next]_vars
  PROVE  Kept'
<1> SUFFICES ASSUME NEW g \in Gens, Alive(g)' PROVE With(g)'
  BY KeptIs
<1>1. Closing(main) <=> main \in MainCloses
  BY ClosingIs DEF MainCloses
<1>2. Closing(main)' <=> main' \in MainCloses
  BY ClosingIs DEF MainCloses, Closing
<1>3. CASE ConnectMsg
  <2>1. CASE g = gen
    <3>1. /\ main = "connect_msg" /\ main' = "socket_cmd" /\ gen' = g /\ ret' = ret
          /\ Names(msg_sock, <<g, "msg">>)'
      BY <1>3, <2>1, ConnectMsgIs DEF Names
    <3>2. QED
      BY <1>2, <3>1 DEF With, MainCloses
  <2>2. CASE g # gen
    <3>1. First(g) /\ reader[g] \in Reading
      BY <1>3, <2>2, ConnectMsgIs DEF Alive, First
    <3>2. /\ <<g, "msg">> \in Conns /\ <<g, "msg">> # <<gen, "msg">>
          /\ <<g, "cmd">> \in Conns /\ <<g, "cmd">> # <<gen, "msg">>
      BY <2>2, ConnParts
    <3>3. status'[<<g, "msg">>] = status[<<g, "msg">>]
         /\ status'[<<g, "cmd">>] = status[<<g, "cmd">>]
      BY <1>3, <3>2, ConnectMsgIs
    <3>4. Alive(g)
      BY <3>1, <3>3 DEF Alive
    <3>5. QED
      BY <2>2, <3>4, KeptIs DEF With
  <2>3. QED
    BY <2>1, <2>2
<1>4. CASE ~ConnectMsg
  <2>1. Alive(g) /\ With(g)
    BY <1>4, AliveBefore, KeptIs
  <2>2. gen = g /\ main # "socket_msg" /\ First(g)
    BY <2>1 DEF With, Alive
  <2>3. ret = "exit" => main \in MainCloses \cup {"exit"}
    BY <1>1 DEF Returns
  <2>4. CASE Loop
    <3>1. main = "loop" /\ ret # "exit"
      BY <2>3, <2>4, LoopIs DEF MainCloses
    <3>2. Names(msg_sock, <<g, "msg">>) /\ Names(cmd_sock, <<g, "cmd">>) /\ msg_sock # -1
      BY <2>1, <3>1, Numbers DEF With, Names
    <3>3. main' = "check_msg" /\ UNCHANGED <<file, msg_sock, cmd_sock, gen, ret>>
      BY <2>4, <3>2, LoopIs
    <3>4. QED
      BY <1>2, <2>2, <3>2, <3>3 DEF With, Names, MainCloses
  <2>5. CASE SocketMsg
    BY <2>2, <2>5, SocketMsgIs
  <2>6. CASE SocketCmd
    <3>1. /\ main = "socket_cmd" /\ main' = "connect_cmd" /\ UNCHANGED <<msg_sock, gen, ret>>
          /\ file[fd'] = NoConn /\ \A f \in Fds : f # fd' => file'[f] = file[f]
      BY <2>6, SocketCmdIs
    <3>2. Names(msg_sock, <<g, "msg">>)
      BY <2>1, <2>3, <3>1 DEF With, MainCloses
    <3>3. Names(msg_sock, <<g, "msg">>)'
      BY <3>1, <3>2, NotNoConn DEF Names
    <3>4. QED
      BY <1>2, <2>2, <3>1, <3>3 DEF With, MainCloses
  <2>7. CASE ConnectCmd
    <3>1. /\ main = "connect_cmd" /\ main' = "setup" /\ UNCHANGED <<file, msg_sock, gen, ret>>
          /\ fd \in Fds /\ cmd_sock' = fd /\ file[fd] = <<g, "cmd">>
      BY <2>2, <2>7, ConnectCmdIs
    <3>2. Names(msg_sock, <<g, "msg">>)
      BY <2>1, <2>3, <3>1 DEF With, MainCloses
    <3>3. Names(msg_sock, <<g, "msg">>)' /\ Names(cmd_sock, <<g, "cmd">>)'
      BY <3>1, <3>2 DEF Names
    <3>4. QED
      BY <1>2, <2>2, <3>1, <3>3 DEF With, MainCloses
  <2>8. CASE SetupTerminal
    <3>1. /\ main = "setup" /\ main' = "catch"
          /\ UNCHANGED <<file, msg_sock, cmd_sock, gen, ret>>
      BY <2>8, SetupIs
    <3>2. Names(msg_sock, <<g, "msg">>) /\ Names(cmd_sock, <<g, "cmd">>)
      BY <2>1, <2>3, <3>1 DEF With, MainCloses
    <3>3. QED
      BY <1>2, <2>2, <3>1, <3>2 DEF With, Names, MainCloses
  <2>9. CASE Plain
    BY <2>1, <2>9, WithPlain
  <2>10. CASE MainClose
    <3>1. main \in MainCloses /\ UNCHANGED <<gen, ret>> /\ main' # "socket_msg"
      BY <2>10, MainCloseFacts DEF MainCloses
    <3>2. ret = "exit"
      BY <1>1, <2>1, <3>1 DEF With
    <3>3. QED
      BY <2>2, <3>1, <3>2 DEF With
  <2>11. CASE ExitProcess
    <3>1. main = "exit" /\ main' = "exit" /\ UNCHANGED <<gen, ret>> /\ ret = "exit"
      BY <2>11, ExitIs DEF Returns
    <3>2. QED
      BY <2>2, <3>1 DEF With
  <2>12. CASE UNCHANGED <<file, msg_sock, cmd_sock, gen, main, ret>>
    BY <2>1, <2>12 DEF With, Names, Closing
  <2>13. CASE \E h \in Gens : Reads(h) \/ EndSeen(h) \/ ThreadTerm(h) \/ ThreadClose(h)
    <3>1. PICK h \in Gens : Reads(h) \/ EndSeen(h) \/ ThreadTerm(h) \/ ThreadClose(h)
      BY <2>13
    <3>2. h = g
      BY <2>2, <3>1, ThreadMoves, OnlyFirst DEF Moves
    <3>3. reader[g] \in Reading /\ reader'[g] \in Reading
      BY <2>1 DEF Alive
    <3>4. ~EndSeen(g)
      BY <3>3, EndFacts, TypeParts DEF ReaderType, Reading
    <3>5. ~ThreadTerm(g) /\ ~ThreadClose(g)
      BY <3>3, ThreadTermFacts, ThreadCloseFacts DEF Reading, Shutting
    <3>6. QED
      BY <2>12, <3>1, <3>2, <3>4, <3>5, ReadFacts
  <2>14. CASE \E h \in Gens : Exec(h)
    <3>1. reader'[g] # "none"
      BY DEF Alive, Reading
    <3>2. QED
      BY <2>12, <2>14, <3>1, ExecFacts
  <2>15. CASE Still \/ \E c \in Conns : Lose(c)
    BY <2>12, <2>15, LoseFacts DEF Still, sockets, globals, mains
  <2>16. QED
    BY <1>4, <2>4, <2>5, <2>6, <2>7, <2>8, <2>9, <2>10, <2>11, <2>13, <2>14, <2>15, StepIs
<1>5. QED
  BY <1>3, <1>4

-------------------------------------------------------------------------------
(* The terminal.                                                           *)

LEMMA PlainTerm ==
  ASSUME Returns, proc = "running", TypeOK, Plain
  PROVE  /\ old' = old
         /\ \/ UNCHANGED <<tty, readline_callback>>
            \/ tty' = old /\ readline_callback' = FALSE
         /\ sigint' = "handler" \/ (sigint' = sigint /\ main # "catch")
         /\ \/ proc' \in {"running", "pipe"}
            \/ proc' = "killed" /\ readline_callback = FALSE /\ UNCHANGED <<tty, readline_callback>>
         /\ ret' = "exit" => tty' = old /\ readline_callback' = FALSE
<1>1. ret # "exit"
  BY PlainFacts
<1>2. CASE Going
  <2>1. \E pc \in {"select", "read", "line", "ask"} : \E then : Goto(pc, then)
    BY <1>2, GoingTo
  <2>2. QED
    BY <1>1, <2>1 DEF Goto, At, terminal
<1>3. CASE CheckMsg \/ CheckCmd
  <2>1. UNCHANGED <<proc, readline_callback, tty, old, sigint>> /\ main # "catch"
        /\ ret' \in {ret, "check_cmd", "select"}
    BY <1>3 DEF CheckMsg, CheckCmd, Check, At, terminal
  <2>2. QED
    BY <1>1, <2>1
<1>4. CASE MainTerm
  BY <1>4 DEF MainTerm, At, CloseTerminal
<1>5. CASE NoHandler \/ Result \/ NoResult
  BY <1>1, <1>5 DEF NoHandler, Result, NoResult, Answer, At, terminal
<1>6. CASE SendCmd \/ SendFile \/ SendData
  <2>1. SendOn(cmd_sock) /\ UNCHANGED <<readline_callback, tty, old, sigint, ret>>
        /\ cmd_sock \in Socks /\ FileType /\ main # "catch"
    BY <1>6, TypeParts DEF SendCmd, SendFile, SendData, At, terminal, SockType
  <2>2. proc' \in {"running", "pipe"}
    BY <2>1, SendType
  <2>3. QED
    BY <1>1, <2>1, <2>2
<1>7. CASE EndTerm
  BY <1>7 DEF EndTerm, CloseTerminal
<1>8. CASE CatchInterrupt
  BY <1>1, <1>8 DEF CatchInterrupt
<1>9. QED
  BY <1>2, <1>3, <1>4, <1>5, <1>6, <1>7, <1>8 DEF Plain

\* As long as nothing is begun beside it, there is one thread.
LEMMA OneThread ==
  ASSUME Order, beside = {}, NEW g \in Gens, NEW h \in Gens, reader[g] # "none", reader[h] # "none"
  PROVE  g = h
<1>1. g \in Nat /\ h \in Nat
  BY Numbers
<1>2. ~(g < h) /\ ~(h < g)
  BY DEF Order
<1>3. QED
  BY <1>1, <1>2

\* Before setup_terminal the thread reads.
LEMMA FreshReads ==
  ASSUME TypeOK, Order, Joined, early = {}, beside = {}, Fresh, NEW g \in Gens, reader[g] # "none"
  PROVE  reader[g] \in Reading
<1>1. main \in {"connect_msg"} \cup Joining
  BY DEF Fresh, NoThread, Joining
<1>2. main # "connect_msg"
  BY DEF Order
<1>3. gen \in Gens /\ reader[gen] # "none"
  BY <1>1, <1>2 DEF Order, Joining
<1>4. g = gen
  BY <1>3, OneThread
<1>5. QED
  BY <1>1, <1>2, <1>4 DEF Joined, First

\* Steps that leave the terminal and where main is.
LEMMA SavedKept ==
  ASSUME Saved, UNCHANGED <<readline_callback, tty, old, main, ret>>,
         proc' \in {"running", "pipe"}, NoThread' <=> NoThread, Caught => Caught',
         \A g \in Gens : reader'[g] \in Reading \cup {"none", "term"} \/ reader'[g] = reader[g]
  PROVE  Saved'
<1>1. Fresh' <=> Fresh
  BY DEF Fresh
<1>2. QED
  BY <1>1 DEF Saved

LEMMA SavedConnect ==
  ASSUME TypeOK, Order, Files, Returns, Joined, Saved, early = {}, beside = {}, beside' = {},
         proc = "running", Connect
  PROVE  Saved'
<1>1. ret = "exit" => main \in MainCloses \cup {"exit"}
  BY ClosingIs DEF Returns, MainCloses
<1>2. CASE Loop
  <2>1. /\ main = "loop" /\ main' \in {"socket_msg", "check_msg"}
        /\ main' = "check_msg" => msg_sock # -1
        /\ UNCHANGED <<readline_callback, tty, old, sigint, ret, proc, reader>>
    BY <1>2, LoopIs
  <2>2. NoThread => main' = "socket_msg"
    BY <2>1 DEF Order
  <2>3. Fresh' <=> Fresh
    BY <2>1, <2>2 DEF Fresh, NoThread
  <2>4. QED
    BY <2>1, <2>3 DEF Saved, Caught
<1>3. CASE SocketMsg
  <2>1. NoThread
    BY <1>3, SocketMsgIs
  <2>2. Fresh /\ Fresh' /\ main' # "exit"
    BY <1>3, <2>1, SocketMsgIs DEF Fresh
  <2>3. UNCHANGED <<readline_callback, tty, old, sigint, ret, proc, reader>>
    BY <1>3, SocketMsgIs
  <2>4. QED
    BY <2>2, <2>3 DEF Saved
<1>4. CASE ConnectMsg
  <2>1. Fresh /\ Fresh' /\ main' # "exit"
    BY <1>4, ConnectMsgIs DEF Fresh
  <2>2. UNCHANGED <<readline_callback, tty, old, sigint, ret, proc>>
    BY <1>4, ConnectMsgIs
  <2>3. \A g \in Gens : reader'[g] \in {"call", reader[g]} /\ "call" \in Reading
    BY <1>4, ConnectMsgIs DEF Reading
  <2>4. QED
    BY <2>1, <2>2, <2>3 DEF Saved
<1>5. CASE SocketCmd \/ ConnectCmd
  <2>1. Fresh /\ Fresh' /\ main' # "exit"
    BY <1>5, SocketCmdIs, ConnectCmdIs DEF Fresh
  <2>2. UNCHANGED <<readline_callback, tty, old, sigint, ret, proc, reader>>
    BY <1>5, SocketCmdIs, ConnectCmdIs
  <2>3. QED
    BY <2>1, <2>2 DEF Saved
<1>6. CASE SetupTerminal
  <2>1. /\ main = "setup" /\ main' = "catch" /\ UNCHANGED <<ret, reader, proc>>
        /\ readline_callback' = TRUE /\ old' = tty /\ tty' = IF tty = "user" THEN "raw" ELSE tty
    BY <1>6, SetupIs
  <2>2. Fresh
    BY <2>1 DEF Fresh
  <2>3. old' = "user" /\ tty' = "raw"
    BY <2>1, <2>2 DEF Saved
  <2>4. ~NoThread
    BY <2>1 DEF Order, NoThread
  <2>5. ~Fresh'
    BY <2>1, <2>4 DEF Fresh, NoThread
  <2>6. ret' # "exit" /\ proc' = "running" /\ main' # "exit" /\ Caught'
    BY <1>1, <2>1 DEF MainCloses, Caught
  <2>7. \A g \in Gens : reader'[g] \in Reading \cup {"none", "term"}
    BY <2>1, <2>2, FreshReads
  <2>8. QED
    BY <2>1, <2>3, <2>5, <2>6, <2>7 DEF Saved
<1>7. QED
  BY <1>2, <1>3, <1>4, <1>5, <1>6 DEF Connect

LEMMA SavedMain ==
  ASSUME TypeOK, Order, Returns, Saved, proc = "running", Plain \/ MainClose \/ ExitProcess
  PROVE  Saved'
<1>1. CASE Plain
  <2>1. /\ UNCHANGED reader
        /\ main \notin {"loop", "socket_msg", "connect_msg"} \cup Joining
        /\ main' \notin {"socket_msg", "connect_msg"} \cup Joining
        /\ ret' # "exit" => main' # "exit"
    BY <1>1, PlainFacts
  <2>2. ~NoThread
    BY <2>1 DEF Order, NoThread
  <2>3. ~Fresh /\ ~Fresh'
    BY <2>1, <2>2 DEF Fresh, Joining, NoThread
  <2>4. /\ old' = old /\ proc' \in {"running", "pipe", "killed"}
        /\ UNCHANGED <<tty, readline_callback>> \/ (tty' = old /\ readline_callback' = FALSE)
        /\ ret' = "exit" => tty' = old /\ readline_callback' = FALSE
        /\ proc' = "killed" => readline_callback = FALSE /\ UNCHANGED <<tty, readline_callback>>
    BY <1>1, PlainTerm
  <2>5. old = "user" /\ old' = "user" /\ tty \in {"user", "raw"}
        /\ (readline_callback <=> tty = "raw")
    BY <2>3, <2>4 DEF Saved
  <2>6. /\ tty' \in {"user", "raw"} /\ (readline_callback' <=> tty' = "raw")
        /\ tty' = "raw" => tty = "raw"
        /\ ret' = "exit" \/ main' = "exit" \/ proc' \in {"exited", "killed"} => tty' = "user"
    BY <2>1, <2>4, <2>5
  <2>7. \A g \in Gens : reader'[g] \notin Reading \cup {"none", "term"} => tty' = "user"
    BY <2>1, <2>6 DEF Saved
  <2>8. tty' = "raw" => Caught'
    <3>1. sigint' = "handler" \/ (sigint' = sigint /\ main # "catch")
      BY <1>1, PlainTerm
    <3>2. tty = "raw" => Caught
      BY DEF Saved
    <3>3. QED
      BY <2>1, <2>6, <3>1, <3>2 DEF Caught
  <2>9. QED
    BY <2>3, <2>4, <2>5, <2>6, <2>7, <2>8 DEF Saved
<1>2. CASE MainClose
  <2>1. /\ UNCHANGED <<reader, ret, readline_callback, tty, old, sigint, proc>>
        /\ main \in MainCloses
        /\ main' \in MainCloses \cup {"exit", "term"} /\ (main' = "exit" => ret = "exit")
    BY <1>2, MainCloseFacts DEF MainCloses
  <2>2. ~Fresh /\ ~Fresh'
    BY <2>1 DEF Fresh, MainCloses
  <2>3. Caught => Caught'
    BY <2>1 DEF Caught, MainCloses
  <2>4. QED
    BY <2>1, <2>2, <2>3 DEF Saved
<1>3. CASE ExitProcess
  <2>1. main = "exit" /\ main' = "exit" /\ proc' = "exited"
        /\ UNCHANGED <<ret, reader, readline_callback, tty, old>>
    BY <1>3, ExitIs
  <2>2. ~Fresh /\ ~Fresh'
    BY <2>1 DEF Fresh
  <2>3. QED
    BY <2>1, <2>2 DEF Saved
<1>4. QED
  BY <1>1, <1>2, <1>3

LEMMA SavedThread ==
  ASSUME TypeOK, Order, Joined, Saved, early = {}, beside = {}, proc = "running",
         NEW g \in Gens, Reads(g) \/ EndSeen(g) \/ ThreadTerm(g) \/ ThreadClose(g) \/ Exec(g)
  PROVE  Saved'
<1>1. reader \in [Gens -> ReaderPcs] /\ FileType /\ msg_sock \in Socks
  BY TypeParts DEF ReaderType, SockType
<1>2. CASE Reads(g)
  <2>1. /\ UNCHANGED <<readline_callback, tty, old, sigint, main, ret>> /\ reader[g] \in Reading
        /\ \E x \in Reading : reader' = [reader EXCEPT ![g] = x]
    BY <1>2, ReadFacts
  <2>2. proc' \in {"running", "pipe"}
    <3>1. CASE Reply(g)
      <4>1. SendOn(msg_sock)
        BY <3>1 DEF Reply
      <4>2. proc' \in {"running", "pipe"}
        BY <1>1, <4>1, SendType
      <4>3. QED
        BY <4>2
    <3>2. QED
      BY <1>2, <3>1 DEF Reads, Receive, Got
  <2>3. NoThread' <=> NoThread
    BY <1>2, ThreadMoves, MoveFacts DEF NoThread
  <2>4. \A h \in Gens : reader'[h] \in Reading \cup {"none", "term"} \/ reader'[h] = reader[h]
    BY <1>1, <2>1
  <2>5. Caught => Caught'
    <3>1. \A h \in Gens : reader[h] = "term" => reader'[h] = "term"
      BY <1>1, <2>1 DEF Reading
    <3>2. QED
      BY <2>1, <3>1 DEF Caught
  <2>6. QED
    BY <2>1, <2>2, <2>3, <2>4, <2>5, SavedKept
<1>3. CASE EndSeen(g)
  <2>1. /\ UNCHANGED <<readline_callback, tty, old, main, ret, proc>>
        /\ reader' = [reader EXCEPT ![g] = "term"]
    BY <1>3, EndFacts
  <2>2. proc' \in {"running", "pipe"} /\ Caught'
    BY <1>1, <2>1 DEF Caught
  <2>3. NoThread' <=> NoThread
    BY <1>3, ThreadMoves, MoveFacts DEF NoThread
  <2>4. \A h \in Gens : reader'[h] \in Reading \cup {"none", "term"} \/ reader'[h] = reader[h]
    BY <1>1, <2>1
  <2>5. QED
    BY <2>1, <2>2, <2>3, <2>4, SavedKept
<1>4. CASE ThreadTerm(g)
  <2>1. /\ UNCHANGED <<old, main, ret, proc>> /\ reader[g] = "term" /\ tty' = old
        /\ readline_callback' = FALSE
    BY <1>4, ThreadTermFacts
  <2>2. ~Fresh
    BY <2>1, FreshReads DEF Reading
  <2>3. NoThread' <=> NoThread
    BY <1>4, ThreadMoves, MoveFacts DEF NoThread
  <2>4. ~Fresh' /\ tty' = "user" /\ old' = "user"
    BY <2>1, <2>2, <2>3 DEF Fresh, Saved
  <2>5. QED
    BY <2>1, <2>4 DEF Saved
<1>5. CASE ThreadClose(g)
  <2>1. UNCHANGED <<readline_callback, tty, old, main, ret, proc>> /\ reader[g] \in MainCloses
    BY <1>5, ThreadCloseFacts DEF Shutting, MainCloses
  <2>2. tty = "user"
    BY <2>1 DEF Saved, MainCloses, Reading
  <2>3. NoThread' <=> NoThread
    BY <1>5, ThreadMoves, MoveFacts DEF NoThread
  <2>4. Fresh' <=> Fresh
    BY <2>1, <2>3 DEF Fresh
  <2>5. QED
    BY <2>1, <2>2, <2>4 DEF Saved
<1>6. CASE Exec(g)
  <2>1. reader[g] = "exec" /\ tty' = tty
    BY <1>6, ExecFacts
  <2>2. tty = "user"
    BY <2>1 DEF Saved, Reading
  <2>3. CASE UNCHANGED <<main, ret, reader, readline_callback, old>> /\ proc' = "killed"
    BY <2>1, <2>2, <2>3 DEF Saved, Fresh, NoThread
  <2>4. CASE /\ main' = "loop" /\ ret' = "" /\ old' = "zero" /\ readline_callback' = FALSE
             /\ (\A h \in Gens : reader'[h] = "none") /\ UNCHANGED proc
    <3>1. Fresh'
      BY <2>4 DEF Fresh, NoThread
    <3>2. QED
      BY <2>1, <2>2, <2>4, <3>1 DEF Saved
  <2>5. QED
    BY <1>6, <2>3, <2>4, ExecFacts
<1>7. QED
  BY <1>2, <1>3, <1>4, <1>5, <1>6

LEMMA TerminalStep ==
  ASSUME TypeOK, Order, Files, Returns, Joined, Terminal, [Next]_vars
  PROVE  Terminal'
<1> SUFFICES ASSUME early' = {}, beside' = {} PROVE Saved'
  BY DEF Terminal
<1>1. early \subseteq early' /\ beside \subseteq beside'
  <2>1. CASE Loop \/ SocketMsg \/ ConnectMsg \/ SocketCmd \/ ConnectCmd \/ SetupTerminal
    BY <2>1, LoopIs, SocketMsgIs, ConnectMsgIs, SocketCmdIs, ConnectCmdIs, SetupIs
  <2>2. CASE Plain \/ MainClose \/ ExitProcess
    BY <2>2, PlainFacts, MainCloseFacts, ExitIs
  <2>3. CASE \E g \in Gens : Reads(g) \/ EndSeen(g) \/ ThreadTerm(g) \/ ThreadClose(g) \/ Exec(g)
    BY <2>3, ReadFacts, EndFacts, ThreadTermFacts, ThreadCloseFacts, ExecFacts
  <2>4. CASE Still \/ \E c \in Conns : Lose(c)
    BY <2>4, LoseFacts DEF Still, mains, readers
  <2>5. QED
    BY <2>1, <2>2, <2>3, <2>4, StepIs
<1>2. early = {} /\ beside = {} /\ Saved
  BY <1>1 DEF Terminal
<1>3. CASE proc = "running" /\ Connect
  BY <1>2, <1>3, SavedConnect
<1>4. CASE proc = "running" /\ (Plain \/ MainClose \/ ExitProcess)
  BY <1>2, <1>4, SavedMain
<1>5. CASE proc = "running" /\ \E g \in Gens : \/ Reads(g) \/ EndSeen(g) \/ ThreadTerm(g)
                                               \/ ThreadClose(g) \/ Exec(g)
  BY <1>2, <1>5, SavedThread
<1>6. CASE /\ UNCHANGED <<readline_callback, tty, old, sigint, main, ret, reader>>
           /\ proc' = proc \/ (proc' = "interrupted" /\ sigint = "default")
  BY <1>2, <1>6 DEF Saved, Fresh, NoThread, Caught
<1>7. QED
  BY <1>3, <1>4, <1>5, <1>6, StepIs, LoseFacts DEF Connect, Still, terminal, mains, readers

-------------------------------------------------------------------------------
(* The theorems.                                                           *)

LEMMA IInvStep == IInv /\ [Next]_vars => IInv'
<1> SUFFICES ASSUME IInv, [Next]_vars PROVE IInv'
  OBVIOUS
<1>1. TypeOK /\ Order /\ Returns /\ Files /\ Owned /\ Shut /\ Joined /\ Kept /\ Unborn /\ Terminal
  BY DEF IInv
<1>2. TypeOK' /\ Order' /\ Returns' /\ Files'
  BY <1>1, TypeStep, OrderStep, ReturnsStep, FilesStep
<1>3. Owned' /\ Shut' /\ Joined'
  BY <1>1, OwnedStep, ShutStep, JoinedStep
<1>4. Kept' /\ Unborn' /\ Terminal'
  BY <1>1, KeptStep, UnbornStep, TerminalStep
<1>5. QED
  BY <1>2, <1>3, <1>4 DEF IInv

\* What the client's threads keep, whatever the server does and for any number of calls of
\* connect_psp2: the inductive invariant.
THEOREM ClientInvariant == Spec => []IInv
BY InitIInv, IInvStep, PTL DEF Spec

\* The user has the terminal back as it was when psp2shell_cli exits or breaks down in readline
\* or in the restart, however often msg_thread started it anew, unless the end of the
\* connection was seen while connect_psp2 was at work or a call was begun beside a thread that
\* was still there; and when CTRL+C ends it, but for the two places without the handler that
\* main.c:146 and 243 leave.  SIGPIPE is not covered: it leaves the terminal as it is.
THEOREM TerminalKeptCorrect == Spec => []TerminalKept
<1>1. IInv => TerminalKept
  BY DEF IInv, Terminal, Saved, Caught, TerminalKept
<1>2. QED
  BY <1>1, ClientInvariant, PTL

\* Two msg_threads read, and answer for each other, only after an error was reported on a
\* connection of the first, or when the first was itself begun beside an older one.
THEOREM OneReaderCorrect == Spec => []OneReader
<1>1. IInv => OneReader
  <2> SUFFICES ASSUME IInv, NEW g \in Gens, NEW h \in Gens, g < h,
                      {reader[g], reader[h]} \subseteq {"call", "recv", "reply"},
                      "dead" \notin {status[<<g, "msg">>], status[<<g, "cmd">>]}, g \notin beside
               PROVE  FALSE
    BY DEF OneReader
  <2>1. First(g) /\ reader[g] \in Reading /\ reader[h] # "none"
    BY DEF First, Reading
  <2>2. gen = g
    BY <2>1 DEF IInv, Kept
  <2>3. h <= g /\ g \in Nat /\ h \in Nat
    BY <2>1, <2>2, Numbers DEF IInv, Order
  <2>4. QED
    BY <2>3
<1>2. QED
  BY <1>1, ClientInvariant, PTL

\* The program that execvp starts has no socket of the program before it, but for the
\* exceptions: a call begun beside another, and the command socket of a call whose end was
\* seen while main was still connecting it.
THEOREM CleanRestartCorrect == Spec => CleanRestart
<1>1. ASSUME IInv, NEW g \in Gens, Exec(g), NEW f \in Fds
      PROVE  \/ file'[f] = NoConn \/ file'[f][1] \in beside
             \/ file'[f][2] = "cmd" /\ file'[f][1] \in early
  <2>1. TypeOK /\ Order /\ Owned /\ Shut
    BY <1>1 DEF IInv
  <2>2. reader[g] = "exec" /\ file' = file
    BY <1>1, <2>1, ExecFacts
  <2>3. QED
    BY <2>1, <2>2, ExecOwned
<1>2. IInv => [\A g \in Gens : Exec(g) => \A f \in Fds :
                 \/ file'[f] = NoConn \/ file'[f][1] \in beside
                 \/ file'[f][2] = "cmd" /\ file'[f][1] \in early]_vars
  BY <1>1
<1>3. QED
  BY <1>2, ClientInvariant, PTL DEF CleanRestart

================================================================================
