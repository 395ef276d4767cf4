-------------------------------- MODULE FileOps --------------------------------
(***************************************************************************)
(* The commands mv, rm and rmdir (psp2shell_m/source/cmd.c) and the        *)
(* recursive s_movePath and s_removePath behind them (file.c), one system  *)
(* call per step: each call may fail, and the command then stops halfway.  *)
(* A path stands for the file it names.  toAbsolutePath can spell the same *)
(* one in two ways (ux0://b for b after `cd ..`, when the working path     *)
(* ends in a slash, and ux0:/b as it is typed), and s_movePath compares    *)
(* spellings: whether those of its arguments agree is part of the command. *)
(*                                                                         *)
(* The C call stack is a sequence of frames, the innermost first.  A file's *)
(* contents are named by the path it had when the command began.           *)
(***************************************************************************)
EXTENDS Integers, FiniteSets, SequencesExt

CONSTANTS
  Paths,         \* sequences of names; what would lie outside of it is not created
  Trees,         \* the file systems a session may start with
  MaxFaults      \* bound: system calls that fail although they could succeed

None == <<>>
Dir  == <<"/">>
Parent(p) == Front(p)
Under(p, q) == IsPrefix(p, q)
IsTree(t) ==
  \A p \in Paths : /\ t[p] \in {None, Dir} \cup Paths
                   /\ t[p] # None /\ Len(p) > 1 => t[Parent(p)] = Dir

ASSUME ConstantsAssumption ==
  /\ Paths \subseteq Seq(UNION {Range(p) : p \in Paths})
  /\ \A p \in Paths : Len(p) > 0 /\ (Len(p) > 1 => Parent(p) \in Paths)
  /\ Dir \notin Paths /\ Trees # {} /\ MaxFaults \in Nat
  /\ Trees \subseteq [Paths -> {None, Dir} \cup Paths] /\ \A t \in Trees : IsTree(t)

VARIABLES
  fs,            \* per path None, Dir or a file's contents
  cmd,           \* the command: op, src, dst, and what decides its checks (Answers)
  stack,         \* frames of s_movePath or s_removePath
  result,        \* "none" before the first command, then "running", "ok" or "err"
  files,         \* the files there were when the command began
  faults

vars == <<fs, cmd, stack, result, files, faults>>

Kind(p) ==
  IF p \notin Paths \/ fs[p] = None THEN "none" ELSE IF fs[p] = Dir THEN "dir" ELSE "file"
Children(p) == {q \in Paths : Len(q) = Len(p) + 1 /\ Under(p, q) /\ Kind(q) # "none"}
Frame(s, d) == [pc |-> "start", src |-> s, dst |-> d, must |-> {}, seen |-> {}]

Init ==
  /\ fs \in Trees /\ stack = <<>> /\ result = "none" /\ files = {} /\ faults = 0
  /\ cmd = [op |-> "rm", src |-> <<>>, dst |-> <<>>, what |-> "any"]

-------------------------------------------------------------------------------
(* The file system (external).                                             *)

Fault == faults < MaxFaults /\ faults' = faults + 1
Sound == UNCHANGED faults

\* Path q with its part s replaced by d.
Moved(q, s, d) == d \o SubSeq(q, Len(s) + 1, Len(q))

\* Nothing is renamed to itself or to a path below itself, however it is spelt.
CanRename(s, d) ==
  /\ Kind(s) # "none" /\ Kind(d) = "none" /\ d \in Paths /\ ~Under(s, d)
  /\ Len(d) > 1 => Kind(Parent(d)) = "dir"
  /\ \A q \in Paths : Under(s, q) /\ Kind(q) # "none" => Moved(q, s, d) \in Paths

Rename(s, d) ==
  fs' = [q \in Paths |->
           IF Under(s, q) THEN None
           ELSE IF Under(d, q) /\ Moved(q, d, s) \in Paths THEN fs[Moved(q, d, s)]
           ELSE fs[q]]

Delete(p) == fs' = [fs EXCEPT ![p] = None]
Keep == UNCHANGED fs

-------------------------------------------------------------------------------
(* Calls and returns.                                                      *)

Top == Head(stack)
At(op, pc) == stack # <<>> /\ cmd.op = op /\ Top.pc = pc
Goto(pc) == stack' = <<[Top EXCEPT !.pc = pc]>> \o Tail(stack)
Open(p) == stack' = <<[Top EXCEPT !.pc = "read", !.must = Children(p)]>> \o Tail(stack)

Succeed ==
  /\ stack' = Tail(stack)
  /\ result' = IF Len(stack) = 1 THEN "ok" ELSE "running"

\* A result of 0 or less is passed on by every caller.
Fail == stack' = <<>> /\ result' = "err"

Running == UNCHANGED result

\* Seeded fault: the directory is opened anew for each entry.
ReadsAnew(c) == c \in Children(Top.src)

\* sceIoDread returned entry c of the directory of the innermost frame.  Entries added
\* since it was opened may or may not show up.
Reads(c) == c \in Children(Top.src) \ Top.seen
See(c) == [Top EXCEPT !.seen = @ \cup {c}]

\* It has no more entries, or (a fault) reports an error, which ends the loop just so.
AllRead == Top.must \cap Children(Top.src) \subseteq Top.seen /\ Sound
ReadEnds == AllRead \/ Fault

-------------------------------------------------------------------------------
\* mv: the spellings of its arguments agree or not.  rm: its path is no directory, or
\* sceIoGetstat failed, which s_isDir takes for that.
Answers(op) ==
  IF op = "mv" THEN {"alike", "unlike"} ELSE IF op = "rm" THEN {"file", "unknown"} ELSE {"any"}

\* cmd_mv, cmd_rmdir; cmd_rm unless s_isDir finds a directory.  The session's first such
\* command is enough: what earlier ones leave behind is one of Trees.
Begin(op, s, d, what) ==
  /\ result = "none" /\ (what = "file" => Kind(s) # "dir")
  /\ IF what = "unknown" THEN Fault ELSE Sound
  /\ cmd' = [op |-> IF op = "mv" THEN "mv" ELSE "rm", src |-> s, dst |-> d, what |-> what]
  /\ fs' = [p \in Paths |-> IF Kind(p) = "file" THEN p ELSE fs[p]]
  /\ files' = {p \in Paths : Kind(p) = "file"}
  /\ stack' = <<Frame(s, d)>> /\ result' = "running"

-------------------------------------------------------------------------------
(* s_movePath with MOVE_INTEGRATE | MOVE_REPLACE.                          *)

\* The paths are spelt the same, or the destination as being inside the source.
Refused == cmd.what = "alike" /\ Under(Top.src, Top.dst)

MvRefuse ==
  /\ At("mv", "start") /\ Refused
  /\ Fail /\ Keep /\ Sound

\* The first sceIoRename.
MvRename ==
  /\ At("mv", "start") /\ ~Refused /\ CanRename(Top.src, Top.dst)
  /\ Rename(Top.src, Top.dst) /\ Succeed /\ Sound

\* It failed because the destination exists: the kinds decide, unless sceIoGetstat or
\* sceIoDopen fails.
MvExists ==
  /\ At("mv", "start") /\ ~Refused
  /\ Kind(Top.src) # "none" /\ Kind(Top.dst) # "none" /\ Keep
  /\ \/ Kind(Top.src) # Kind(Top.dst) /\ Fail /\ Sound
     \/ Kind(Top.src) = "file" /\ Kind(Top.dst) = "file" /\ Goto("remove") /\ Running /\ Sound
     \/ Kind(Top.src) = "dir" /\ Kind(Top.dst) = "dir" /\ Open(Top.src) /\ Running /\ Sound
     \/ Fail /\ Fault

\* It failed for another reason, which passes for success.
MvRenameFails ==
  /\ At("mv", "start") /\ ~Refused
  /\ Succeed /\ Keep
  /\ \/ Kind(Top.src) = "none" /\ Sound
     \/ Kind(Top.dst) = "none" /\ ~CanRename(Top.src, Top.dst) /\ Sound
     \/ Kind(Top.src) # "none" /\ Fault

\* Seeded fault: the source is removed instead of the file it replaces.
MvRemoveSource ==
  /\ At("mv", "remove") /\ Goto("again") /\ Running /\ Delete(Top.src) /\ Sound

\* The file to be replaced is removed (the result is not looked at), then the other renamed.
MvRemove ==
  /\ At("mv", "remove") /\ Goto("again") /\ Running
  /\ \/ Delete(Top.dst) /\ Sound
     \/ Keep /\ Fault

MvAgain ==
  /\ At("mv", "again")
  /\ \/ CanRename(Top.src, Top.dst) /\ Rename(Top.src, Top.dst) /\ Succeed /\ Sound
     \/ ~CanRename(Top.src, Top.dst) /\ Fail /\ Keep /\ Sound
     \/ CanRename(Top.src, Top.dst) /\ Fail /\ Keep /\ Fault

\* One entry of the source directory is moved into the destination directory.
MvEntry(c) ==
  /\ At("mv", "read") /\ Reads(c)
  /\ stack' = <<Frame(c, Append(Top.dst, Last(c))), See(c)>> \o Tail(stack)
  /\ Running /\ Keep /\ Sound

\* The source directory is removed, if it is empty; the result is not looked at.
MvEnd ==
  /\ At("mv", "read") /\ ReadEnds /\ Succeed
  /\ IF Children(Top.src) = {} THEN Delete(Top.src) \/ Keep ELSE Keep

-------------------------------------------------------------------------------
(* s_removePath.                                                           *)

RmStart ==
  /\ At("rm", "start")
  /\ \/ Kind(Top.src) = "dir" /\ Open(Top.src) /\ Running /\ Keep /\ Sound
     \/ Kind(Top.src) = "file" /\ Delete(Top.src) /\ Succeed /\ Sound
     \/ Kind(Top.src) = "none" /\ Fail /\ Keep /\ Sound
     \/ Kind(Top.src) # "none" /\ Fail /\ Keep /\ Fault

RmEntry(c) ==
  /\ At("rm", "read") /\ Reads(c)
  /\ \/ /\ Kind(c) = "dir" /\ Keep /\ Running /\ Sound
        /\ stack' = <<Frame(c, <<>>), See(c)>> \o Tail(stack)
     \/ /\ Kind(c) = "file" /\ Delete(c) /\ Running /\ Sound
        /\ stack' = <<See(c)>> \o Tail(stack)
     \/ Kind(c) = "file" /\ Fail /\ Keep /\ Fault

\* Seeded fault: what sceIoRmdir returns is not looked at.
RmEndUnchecked ==
  /\ At("rm", "read") /\ ReadEnds /\ Succeed
  /\ IF Children(Top.src) = {} THEN Delete(Top.src) ELSE Keep

\* sceIoRmdir, which refuses a directory that is not empty.
RmEnd ==
  /\ At("rm", "read")
  /\ \/ ReadEnds /\ IF Children(Top.src) = {} THEN Delete(Top.src) /\ Succeed ELSE Keep /\ Fail
     \/ Keep /\ Fail /\ Fault

-------------------------------------------------------------------------------
Step ==
  /\ \/ MvRefuse \/ MvRename \/ MvExists \/ MvRenameFails \/ MvRemove \/ MvAgain \/ MvEnd
     \/ RmStart \/ RmEnd
     \/ \E c \in Paths : MvEntry(c) \/ RmEntry(c)
  /\ UNCHANGED <<cmd, files>>

Next ==
  \/ \E s \in Paths :
       \/ \E d \in Paths, what \in Answers("mv") : Begin("mv", s, d, what)
       \/ \E op \in {"rm", "rmdir"} : \E what \in Answers(op) : Begin(op, s, <<>>, what)
  \/ Step

Spec == Init /\ [][Next]_vars
\* cmd_thread goes on with the command; nothing has to be entered.
FairSpec == Spec /\ WF_vars(Step)

-------------------------------------------------------------------------------
(* Properties.                                                             *)

\* The variables stay in their ranges; the file system stays a tree.
TypeOK ==
  /\ IsTree(fs) /\ files \subseteq Paths /\ faults \in 0 .. MaxFaults
  /\ result \in {"none", "running", "ok", "err"} /\ (stack # <<>>) = (result = "running")
  /\ \A i \in DOMAIN stack :
       /\ stack[i].pc \in {"start", "remove", "again", "read"}
       /\ stack[i].src \in Paths /\ stack[i].must \cup stack[i].seen \subseteq Paths

\* Files whose contents are nowhere any more.
Lost == {p \in files : \A q \in Paths : fs[q] # p}

\* mv into a directory the source is in: the source is merged into the directories above
\* it while they are read, and an entry of it may replace another one.
Upwards == Under(cmd.dst, cmd.src)

\* mv onto or below its own source under another spelling: s_movePath goes on, finds that
\* the destination exists and removes it, which is the source.
Aliased == cmd.what = "unlike" /\ Under(cmd.src, cmd.dst)

\* mv never loses a file it was to move, wherever it stops, but for these two.
SourceKept == cmd.op = "mv" /\ ~Upwards /\ ~Aliased => \A p \in Lost : ~Under(cmd.src, p)

\* mv loses no other file than those a file of the source was to replace.
OnlyReplaced ==
  cmd.op = "mv" /\ ~Upwards /\ ~Aliased =>
    \A p \in Lost : Under(cmd.dst, p) /\ Moved(p, cmd.dst, cmd.src) \in files

\* Files outside the named paths stay where they are.
ElsewhereKept ==
  \A p \in files : ~Under(cmd.src, p) /\ (cmd.op = "mv" => ~Under(cmd.dst, p)) => fs[p] = p

\* rm deletes one file and no directory, unless the stat of its argument failed.
OnlyFile == cmd.what = "file" => Lost \subseteq {cmd.src}

\* Wherever mv, rm or rmdir stops, the file system is a tree and no file is lost or moved
\* but those the command was to delete, move or replace; mv upwards, mv of a path onto an
\* alias of it (file.c:417) and rm of a directory whose stat failed (file.c:73) lose more.
FilesKept == TypeOK /\ SourceKept /\ OnlyReplaced /\ ElsewhereKept /\ OnlyFile

\* A path that rm or rmdir reports as deleted is gone with all that was in it.
DeletedGone ==
  cmd.op = "rm" /\ result = "ok" => \A q \in Paths : Under(cmd.src, q) => fs[q] = None

\* A command comes to an end.
Ends == stack # <<>> ~> stack = <<>>

\* psp2shell_m/source/cmd.c:294 "moved `%s` to `%s`": what mv reports as moved was.  It does
\* not hold: s_movePath takes every error of sceIoRename but EEXIST for a success.
MovedReported ==
  cmd.op = "mv" /\ result = "ok" => Kind(cmd.src) = "none" /\ Kind(cmd.dst) # "none"
================================================================================
