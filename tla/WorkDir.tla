-------------------------------- MODULE WorkDir --------------------------------
(***************************************************************************)
(* The working directory of a session (psp2shell_m/source/cmd.c: cmd_cd,   *)
(* cmd_ls) over the directory lists of FileList, while other programs on   *)
(* the console create and delete files between any two system calls.       *)
(*                                                                         *)
(* A path is the sequence of its parts, a device or "root" first; a slash  *)
(* at its end, which the code adds and strips, is not shown.               *)
(***************************************************************************)
EXTENDS FileList, SequencesExt

CONSTANTS
  Mounts,        \* the devices, mount points of the table
  Paths,         \* what may exist on them
  Args,          \* the arguments of cd and ls
  MaxFaults      \* bound: calls of sceIoDopen that fail although they could succeed

HOME_PATH == <<"root">>

ASSUME WorkDirAssumption ==
  /\ Mounts \subseteq Folders \ {DIR_UP} /\ MaxFaults \in Nat
  /\ \A q \in Paths : Head(q) \in Mounts /\ Range(q) \subseteq Names \ {DIR_UP}
  /\ Args \subseteq Seq(Names \cup Range(HOME_PATH)) \ {<<>>}

VARIABLES
  tree,          \* the paths that exist
  at,            \* where cmd_thread is
  path,          \* client->fileList.path
  arg, shown,    \* oldPath of cmd_cd; fileList.path of cmd_ls
  from, of,      \* path when cmd_cd began; what the client's list shows
  mine,          \* the client's list while cmd_ls fills its own
  faults

dirs == <<at, path, arg, shown, from, of, mine>>
allVars == <<vars, tree, dirs, faults>>

Kept == [head |-> head, tail |-> tail, length |-> length, files |-> files,
         folders |-> folders, seen |-> seen]
Nothing == [head |-> NULL, tail |-> NULL, length |-> 0, files |-> 0, folders |-> 0,
            seen |-> {}]
Holds(l) ==
  /\ head' = l.head /\ tail' = l.tail /\ length' = l.length /\ files' = l.files
  /\ folders' = l.folders /\ seen' = l.seen

ParentIn(t, q) == Len(q) = 1 \/ (Front(q) \in t /\ Last(Front(q)) \in Folders)
IsTree(t) == \A q \in t : ParentIn(t, q)

WDInit ==
  /\ Init /\ others = {} /\ tree \in {t \in SUBSET Paths : IsTree(t)}
  /\ at = "out" /\ path = HOME_PATH /\ arg = HOME_PATH /\ shown = HOME_PATH
  /\ from = HOME_PATH /\ of = HOME_PATH /\ mine = Nothing /\ faults = 0

-------------------------------------------------------------------------------
(* The file system (external): paths without a device name nothing.  The   *)
(* steps inside FileList's functions do not look at it.                    *)

Create ==
  /\ pc = "idle"
  /\ \E q \in Paths \ tree : ParentIn(tree, q) /\ Len(q) > 1 /\ tree' = tree \cup {q}
  /\ UNCHANGED <<vars, dirs, faults>>

Delete ==
  /\ pc = "idle"
  /\ \E q \in tree : Len(q) > 1 /\ tree' = {r \in tree : ~IsPrefix(q, r)}
  /\ UNCHANGED <<vars, dirs, faults>>

Exists(q) == q \in tree
Entries(q) == {Last(r) : r \in {x \in tree : Len(x) = Len(q) + 1 /\ IsPrefix(q, x)}}

\* s_fileListGetEntries(path q) into the list at hand; the entries are those of the moment
\* of sceIoDopen.
Opens(q) ==
  /\ \/ q = HOME_PATH /\ GetMountPointEntries /\ todo' = {Head(r) : r \in tree}
     \/ Exists(q) /\ Last(q) \in Folders /\ GetDirectoryEntries /\ todo' = Entries(q)
  /\ UNCHANGED <<others, faults, tree>>

OpenFails(q) ==
  /\ q # HOME_PATH /\ pc = "idle" /\ head = NULL
  /\ \/ ~(Exists(q) /\ Last(q) \in Folders) /\ UNCHANGED faults
     \/ faults < MaxFaults /\ faults' = faults + 1
  /\ UNCHANGED <<vars, tree>>

\* A step inside FileList's functions.
Inside == Step /\ UNCHANGED <<others, tree, dirs, faults>>

-------------------------------------------------------------------------------
(* The session.                                                            *)

Ready == at = "ready" /\ pc = "idle"

\* cmd_thread clears the s_client and lists the mount points.
Connect ==
  /\ at = "out" /\ pc = "idle" /\ at' = "home" /\ path' = HOME_PATH
  /\ Holds(Nothing) /\ UNCHANGED <<pc, home, todo, blocks, others, fields, cursor>>
  /\ UNCHANGED <<tree, arg, shown, from, of, mine, faults>>

ListHome ==
  /\ at = "home" /\ Opens(HOME_PATH) /\ at' = "ready" /\ of' = HOME_PATH
  /\ UNCHANGED <<path, arg, shown, from, mine>>

\* s_fileListEmpty, of no effect on an empty list.
EmptyThen(next_at) ==
  /\ pc = "idle"
  /\ \/ Empty
     \/ head = NULL /\ UNCHANGED vars
  /\ at' = next_at /\ UNCHANGED <<others, tree, mine, faults>>

Disconnect == at = "ready" /\ EmptyThen("out") /\ UNCHANGED <<path, arg, shown, from, of>>

-------------------------------------------------------------------------------
(* cmd_cd.                                                                 *)

\* Seeded fault: the last part stays when it follows the device.
AboveNot(q) == IF Len(q) > 2 THEN Front(q) ELSE q

\* The path before the last '/', else the device, else HOME_PATH.
Above(q) == IF Len(q) > 1 THEN Front(q) ELSE HOME_PATH

Candidate(a) ==
  IF a = <<DIR_UP>> THEN Above(path)
  ELSE IF Exists(a) THEN a
  ELSE IF Exists(path \o a) THEN path \o a ELSE path

Cd ==
  /\ Ready /\ at' = "cd"
  /\ \E a \in Args : path' = Candidate(a) /\ arg' = a
  /\ from' = path /\ UNCHANGED <<vars, tree, shown, of, mine, faults>>

CdEmpty == at = "cd" /\ EmptyThen("list") /\ UNCHANGED <<path, arg, shown, from, of>>

CdDone == at' = "ready" /\ arg' = HOME_PATH /\ from' = HOME_PATH /\ UNCHANGED <<shown, mine>>

CdList ==
  at = "list" /\ Opens(path) /\ of' = path /\ CdDone /\ UNCHANGED path

\* Seeded fault: the path is not restored.
CdBackNot ==
  at = "list" /\ OpenFails(path) /\ at' = "relist" /\ UNCHANGED <<path, arg, shown, from, of, mine>>

\* "could not cd to directory": what is restored is the argument.
CdBack ==
  /\ at = "list" /\ OpenFails(path) /\ at' = "relist" /\ path' = arg
  /\ UNCHANGED <<arg, shown, from, of, mine>>

\* Its result is not looked at; the list stays empty when it fails.
CdRelist ==
  at = "relist" /\ (Opens(arg) \/ OpenFails(arg)) /\ of' = arg /\ CdDone /\ UNCHANGED path

-------------------------------------------------------------------------------
(* cmd_ls.                                                                 *)

IsAbsolute(a) == Head(a) \in Mounts
LsPath(a) ==
  IF a = HOME_PATH THEN path
  ELSE IF path = HOME_PATH \/ IsAbsolute(a) THEN a ELSE path \o a

\* The list on the stack is empty when the stack holds zeroes, ...
Ls ==
  /\ Ready /\ at' = "ls" /\ \E a \in Args \ {<<DIR_UP>>} : shown' = LsPath(a)
  /\ mine' = Kept /\ Holds(Nothing) /\ others' = blocks /\ blocks' = {}
  /\ UNCHANGED <<pc, home, todo, fields, cursor, tree, path, arg, from, of, faults>>

\* ... else its functions follow whatever the head happens to hold.
LsJunk ==
  /\ Ready /\ pc' = "fault" /\ at' = "ls"
  /\ UNCHANGED <<home, todo, seen, blocks, others, fields, list, cursor, tree, path, arg>>
  /\ UNCHANGED <<shown, from, of, mine, faults>>

LsList ==
  at = "ls" /\ Opens(shown) /\ at' = "show" /\ UNCHANGED <<path, arg, shown, from, of, mine>>
LsFails ==
  at = "ls" /\ OpenFails(shown) /\ at' = "shown" /\ UNCHANGED <<path, arg, shown, from, of, mine>>

\* The entries are printed and the list is emptied.
LsShow == at = "show" /\ EmptyThen("shown") /\ UNCHANGED <<path, arg, shown, from, of>>

LsReturn ==
  /\ at = "shown" /\ pc = "idle" /\ at' = "ready"
  /\ Holds(mine) /\ blocks' = others /\ others' = {} /\ mine' = Nothing
  /\ shown' = HOME_PATH
  /\ UNCHANGED <<pc, home, todo, fields, cursor, tree, path, arg, from, of, faults>>

-------------------------------------------------------------------------------
Commanding ==
  \/ Inside \/ ListHome \/ CdEmpty \/ CdList \/ CdBack \/ CdRelist
  \/ LsList \/ LsFails \/ LsShow \/ LsReturn

WDNext ==
  \/ Create \/ Delete \/ Connect \/ Disconnect \/ Cd \/ Ls \/ LsJunk \/ Commanding

WDSpec == WDInit /\ [][WDNext]_allVars

\* cmd_thread goes on within a command; clients need not send one.
WDFairSpec == WDSpec /\ WF_allVars(Commanding)

-------------------------------------------------------------------------------
(* Properties.                                                             *)

\* The list the session keeps is that of its path, or is empty and the path is what was
\* typed: cd never leaves one directory's entries under another's name.
ListIsCwd == Ready => of = path /\ (path # HOME_PATH /\ head # NULL => DIR_UP \in seen)

\* cd .. ends closer to HOME_PATH, whatever was deleted meanwhile: at worst the path is the
\* argument "..", from which the next cd .. leads to HOME_PATH.
UpGoesUp ==
  [][(at \in {"list", "relist"} /\ at' = "ready" /\ arg = <<DIR_UP>>) =>
       \/ path' = HOME_PATH \/ Len(path') < Len(from)
       \/ path' = <<DIR_UP>> /\ from # <<DIR_UP>>]_allVars

\* Every cd and ls comes to its end.
CommandEnds == at \in {"cd", "ls"} ~> Ready \/ pc = "fault"
===============================================================================
