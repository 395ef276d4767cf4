----------------------------- MODULE DevCmdsProofs -----------------------------
(***************************************************************************)
(* Theorems about DevCmds, for any titles, modules and segments, any size  *)
(* of the buffer and of the address space: which process a module command  *)
(* acts on, when eboot.bin is replaced, what a dump holds and what memr    *)
(* shows.                                                                  *)
(***************************************************************************)
EXTENDS DevCmds, SequenceTheorems, TLAPS

Aims == {"title", "name", "aim", "id", "tell"}
DumpPcs == {"segment", "copy", "write", "dumped"}
Pcs ==
  {"idle", "list", "process", "destroy", "open", "receive", "again", "launch", "act", "acted",
   "info", "memr"} \cup Aims \cup DumpPcs

-------------------------------------------------------------------------------
(* Type correctness, with what cmd_thread knows at each place.             *)

\* At that place, or looking up the process on the way to it.
For(place) == pc = place \/ (pc \in {"list", "process"} /\ then = place)

Located ==
  /\ pc \in Pcs /\ (pc \in {"list", "process"} => then \in Aims)
  /\ pc = "process" => id \in Apps
  /\ pc \in {"destroy", "open", "receive", "again", "launch"} \/ (For("name") /\ op = "reset") =>
       tid \in Titles
  /\ For("aim") \/ pc \in {"act", "info"} \cup DumpPcs => uid \in Mods
  /\ pc \in {"copy", "write"} => seg \in 1 .. 4
  /\ pc = "segment" => seg # 0

\* The console, and what the commands remember of it.
ConsoleType ==
  /\ app \in Apps \cup {None} /\ starts \in 0 .. MaxStarts /\ loaded \subseteq Procs \X Mods
  /\ seen \subseteq Apps \cup {None} /\ told \subseteq Apps \cup {None}
ArgsType ==
  /\ image \in {"old", "empty", "new", "bad"}
  /\ tid \in Titles \cup {None} /\ uid \in Mods \cup {None} /\ id \in Apps \cup {None}
  /\ pid \in Procs \cup {None} /\ tries \in 0 .. Tries
DumpType == seg \in 0 .. 5 /\ ret \in {-1, 0}

LEMMA TypeParts ==
  TypeOK <=> ConsoleType /\ ArgsType /\ DumpType /\ failed \subseteq Calls
             /\ shown \subseteq 0 .. Word - 1
BY DEF TypeOK, ConsoleType, ArgsType, DumpType

LEMMA TypePartsNext ==
  TypeOK' <=> ConsoleType' /\ ArgsType' /\ DumpType' /\ failed' \subseteq Calls
              /\ shown' \subseteq 0 .. Word - 1
BY DEF TypeOK, ConsoleType, ArgsType, DumpType

\* The end of a command leaves nothing of it.
LEMMA FinishClears ==
  ASSUME TypeOK, Finish
  PROVE  TypeOK' /\ Located'
<1>1. ConsoleType'
  <2>1. UNCHANGED <<app, starts, loaded>> /\ seen' = {} /\ told' = {}
    BY DEF Finish
  <2>2. QED
    BY <2>1, TypeParts DEF ConsoleType
<1>2. ArgsType'
  <2>1. /\ image' = "old" /\ tid' = None /\ uid' = None /\ id' = None
        /\ pid' = None /\ tries' = 0
    BY DEF Finish
  <2>2. QED
    BY <2>1, ConstantsAssumption DEF ArgsType
<1>3. DumpType' /\ failed' \subseteq Calls /\ shown' \subseteq 0 .. Word - 1
  <2>1. seg' = 0 /\ ret' = 0 /\ failed' = {} /\ shown' = {}
    BY DEF Finish
  <2>2. DumpType'
    BY <2>1 DEF DumpType
  <2>3. QED
    BY <2>1, <2>2
<1>4. Located'
  BY DEF Finish, Located, For, Pcs, Aims, DumpPcs
<1>5. QED
  BY <1>1, <1>2, <1>3, <1>4, TypePartsNext

\* The start and the end of an application.
LEMMA StartsType ==
  ASSUME ConsoleType, NEW t \in Titles, Starts(t)
  PROVE  /\ app' \in Apps \cup {None} /\ starts' \in 0 .. MaxStarts
         /\ loaded' \subseteq Procs \X Mods /\ seen' \subseteq Apps \cup {None}
<1>1. starts + 1 \in Pids /\ starts' = starts + 1 /\ starts' \in 0 .. MaxStarts
  BY ConstantsAssumption DEF Starts, ConsoleType, Pids
<1>2. app' \in Apps /\ seen' \subseteq Apps \cup {None}
  BY <1>1 DEF Starts, Ran, Apps, ConsoleType
<1>3. AppModules(starts + 1) \subseteq Procs \X Mods
  BY <1>1 DEF AppModules, Procs
<1>4. loaded' \subseteq Procs \X Mods
  BY <1>3 DEF Starts, Without, ConsoleType
<1>5. QED
  BY <1>1, <1>2, <1>4

LEMMA EndsType ==
  ASSUME ConsoleType, Ends
  PROVE  /\ app' = None /\ starts' = starts /\ loaded' \subseteq Procs \X Mods
         /\ seen' \subseteq Apps \cup {None}
BY DEF Ends, Ran, Without, ConsoleType

LEMMA UserType ==
  ASSUME TypeOK, Located, User
  PROVE  TypeOK' /\ Located'
<1>1. ConsoleType'
  <2>1. told' = told /\ (Ends \/ \E t \in Titles : Starts(t))
    BY DEF User, notes
  <2>2. QED
    BY <2>1, StartsType, EndsType, TypeParts DEF ConsoleType
<1>2. ArgsType' /\ DumpType' /\ failed' \subseteq Calls /\ shown' \subseteq 0 .. Word - 1
  BY TypeParts DEF User, args, found, dump, memr, ArgsType, DumpType
<1>3. Located'
  BY DEF User, args, found, dump, Located, For
<1>4. QED
  BY <1>1, <1>2, <1>3, TypePartsNext

LEMMA CommandType ==
  ASSUME TypeOK, Located, Command
  PROVE  TypeOK' /\ Located'
<1>1. PICK o \in {"load", "launch", "reload", "reset", "title", "modls", "modinfo", "modstart",
                  "modstop", "modstartp", "modstopp", "moddump", "memr"},
           t \in Titles \cup {None}, u \in Mods \cup {None} : Begin(o, t, u)
  BY DEF Command
<1>2. /\ UNCHANGED <<app, starts, image, loaded, told, failed, tries, seg, ret, shown>>
      /\ seen' = {app} /\ tid' = t /\ uid' = u /\ op' = o
  BY <1>1 DEF Begin, Command, console, dump, memr
<1>3. /\ id' = id /\ (pid' = pid \/ pid' \in Procs)
      /\ pc' \in {"destroy", "again", "list", "info", "act", "memr"}
      /\ pc' = "list" => then' \in {"title", "name", "aim"}
  BY DEF Command, Lookup, found
<1>4. ConsoleType'
  BY <1>2, TypeParts DEF ConsoleType
<1>5. ArgsType' /\ DumpType' /\ failed' \subseteq Calls /\ shown' \subseteq 0 .. Word - 1
  BY <1>2, <1>3, TypeParts DEF ArgsType, DumpType
<1>6. Located'
  <2>1. pc' \in {"destroy", "again"} => tid' \in Titles
    BY DEF Command, Begin, Lookup, found
  <2>2. pc' = "list" /\ then' = "name" => op' = "title"
    BY DEF Command, Begin, Lookup
  <2>3. pc' \in {"info", "act"} \/ (pc' = "list" /\ then' = "aim") => uid' \in Mods
    BY DEF Command, Begin, Lookup, found
  <2>4. QED
    BY <1>3, <2>1, <2>2, <2>3 DEF Located, For, Pcs, Aims, DumpPcs
<1>7. QED
  BY <1>4, <1>5, <1>6, TypePartsNext

LEMMA LookupType ==
  ASSUME TypeOK, Located, GetList \/ GetProcess \/ LookupFails
  PROVE  TypeOK' /\ Located'
<1>1. /\ UNCHANGED <<app, starts, loaded, seen, told, image, tid, op, uid, tries, seg, ret, shown,
                     then>>
      /\ failed' \subseteq Calls
  <2>1. failed \subseteq Calls
    BY TypeParts
  <2>2. QED
    BY <2>1 DEF GetList, GetProcess, LookupFails, Fails, Calls, Same, console, args, dump, memr
<1>2. id' \in Apps \cup {None} /\ pid' \in Procs \cup {None}
  <2>1. CASE GetList
    BY <2>1, TypeParts DEF GetList, ConsoleType, ArgsType
  <2>2. CASE GetProcess
    <3>1. id \in Apps
      BY <2>2 DEF GetProcess, Located
    <3>2. QED
      BY <2>2, <3>1, TypeParts DEF GetProcess, ArgsType, Apps, Procs
  <2>3. CASE LookupFails
    BY <2>3, TypeParts DEF LookupFails, ArgsType
  <2>4. QED
    BY <2>1, <2>2, <2>3
<1>3. ConsoleType' /\ ArgsType' /\ DumpType' /\ shown' \subseteq 0 .. Word - 1
  BY <1>1, <1>2, TypeParts DEF ConsoleType, ArgsType, DumpType
<1>4. pc' \in {"process", then} /\ pc \in {"list", "process"} /\ (pc' = "process" => id' \in Apps)
  BY TypeParts DEF GetList, GetProcess, LookupFails, ConsoleType, Located, Aims
<1>5. Located'
  BY <1>1, <1>4 DEF Located, For, Pcs, Aims, DumpPcs
<1>6. QED
  BY <1>1, <1>3, <1>5, TypePartsNext

LEMMA TitleType ==
  ASSUME TypeOK, Located, GetTitle \/ NoTitle \/ GetName \/ NoName \/ TellId \/ Tell
  PROVE  TypeOK' /\ Located'
<1>1. CASE Finish
  BY <1>1, FinishClears
<1>2. CASE ~Finish
  <2>1. GetTitle \/ GetName \/ TellId
    BY <1>2 DEF NoTitle, NoName, Tell
  <2>2. /\ UNCHANGED <<app, starts, loaded, seen, image, failed, op, uid, tries, seg, ret, shown,
                       id, pid>>
        /\ told' \in {told, told \cup {app}} /\ (tid' = tid \/ (app # None /\ tid' = app.title))
    <3>1. CASE GetTitle
      BY <1>2, <3>1 DEF GetTitle, Lookup, Answers, console, notes, dump, memr, found
    <3>2. CASE GetName \/ TellId
      BY <3>2 DEF GetName, TellId, Lookup, console, args, dump, memr, found
    <3>3. QED
      BY <2>1, <3>1, <3>2
  <2>3. tid' \in Titles \cup {None}
    BY <2>2, TypeParts DEF ArgsType, ConsoleType, Apps
  <2>4. ConsoleType' /\ ArgsType' /\ DumpType' /\ failed' \subseteq Calls
        /\ shown' \subseteq 0 .. Word - 1
    BY <2>2, <2>3, TypeParts DEF ConsoleType, ArgsType, DumpType
  <2>5. CASE GetTitle
    <3>1. app \in Apps /\ tid' = app.title
      BY <1>2, <2>5, TypeParts DEF GetTitle, Answers, ConsoleType
    <3>2. (pc' = "list" /\ then' = "name") \/ pc' = "destroy"
      BY <1>2, <2>5 DEF GetTitle, Lookup
    <3>3. QED
      BY <2>4, <3>1, <3>2, TypePartsNext DEF Apps, Located, For, Pcs, Aims, DumpPcs
  <2>6. CASE GetName \/ TellId
    <3>1. /\ tid' = tid /\ (pc' = "destroy" => pc = "name" /\ op = "reset")
          /\ pc' = "destroy" \/ (pc' = "list" /\ then' \in {"id", "tell"})
      BY <2>6 DEF GetName, TellId, Lookup, args
    <3>2. QED
      BY <2>2, <2>4, <3>1, TypePartsNext DEF Located, For, Pcs, Aims, DumpPcs
  <2>7. QED
    BY <2>1, <2>5, <2>6
<1>3. QED
  BY <1>1, <1>2

LEMMA ReplaceType ==
  ASSUME TypeOK, Located,
         \/ Destroy \/ DestroyAgain \/ Open \/ OpenFails \/ Receive \/ ReceiveNothing
         \/ Launch \/ Refused \/ Launched
  PROVE  TypeOK' /\ Located'
<1>1. CASE Finish
  BY <1>1, FinishClears
<1>2. CASE ~Finish
  <2>1. Destroy \/ DestroyAgain \/ Open \/ Receive \/ Launch \/ (Refused /\ op = "reset")
    BY <1>2 DEF OpenFails, ReceiveNothing, Refused, Launched
  <2>2. pc \in {"destroy", "open", "receive", "again", "launch"} /\ tid \in Titles
    BY <2>1 DEF Destroy, DestroyAgain, DestroyOtherApp, Open, Receive, Launch, Refused, Located
  <2>3. UNCHANGED <<args, found, seg, ret, shown, told>>
    BY <2>1 DEF Destroy, DestroyAgain, DestroyOtherApp, Open, Receive, Launch, Refused, notes,
                dump, memr
  <2>4. ConsoleType'
    <3>1. Ends \/ Starts(tid) \/ UNCHANGED <<app, starts, loaded, seen>>
      BY <2>1 DEF Destroy, DestroyAgain, DestroyOtherApp, Open, Receive, Launch, Refused, console,
                  notes
    <3>2. QED
      BY <2>2, <2>3, <3>1, StartsType, EndsType, TypeParts DEF ConsoleType
  <2>5. image' \in {image, "empty", "bad", "new"} /\ failed' \subseteq Calls
    <3>1. /\ image' \in {image, "empty", "bad", "new"}
          /\ failed' = failed \/ \E c \in Calls : Fails(c)
      BY <2>1 DEF Destroy, DestroyAgain, DestroyOtherApp, Open, Receive, Launch, Refused, console,
                  notes, Calls
    <3>2. QED
      BY <3>1, TypeParts DEF Fails
  <2>6. tries' = tries \/ (tries < Tries /\ tries' = tries + 1)
    BY <2>1 DEF Destroy, DestroyAgain, DestroyOtherApp, Open, Receive, Launch, Refused
  <2>7. ArgsType' /\ DumpType' /\ failed' \subseteq Calls /\ shown' \subseteq 0 .. Word - 1
    <3>1. tries' \in 0 .. Tries
      BY <2>6, TypeParts, ConstantsAssumption DEF ArgsType
    <3>2. QED
      BY <2>3, <2>5, <3>1, TypeParts DEF args, found, ArgsType, DumpType
  <2>8. pc' \in {"open", "receive", "again", "launch"}
    BY <2>1, <2>2 DEF Destroy, DestroyAgain, DestroyOtherApp, Open, Receive, Launch, Refused
  <2>9. Located'
    BY <2>2, <2>3, <2>8 DEF args, found, Located, For, Pcs, Aims, DumpPcs
  <2>10. QED
    BY <2>4, <2>7, <2>9, TypePartsNext
<1>3. QED
  BY <1>1, <1>2

LEMMA ActType ==
  ASSUME TypeOK, Located, Aim \/ Act \/ Acted
  PROVE  TypeOK' /\ Located'
<1>1. CASE Acted
  BY <1>1, FinishClears DEF Acted
<1>2. CASE Aim \/ Act
  <2>1. pc \in {"aim", "act"} /\ uid \in Mods
    BY <1>2 DEF Aim, Act, Located, For
  <2>2. UNCHANGED <<app, starts, image, args, id, tries, seen, told, failed, seg, ret, shown>>
    BY <1>2 DEF Aim, Act, console, found, notes, dump, memr
  <2>3. pid' \in Procs \cup {None} /\ pc' \in {"act", "acted"}
    BY <1>2, TypeParts DEF Aim, Act, found, Procs, ArgsType
  <2>4. loaded' \subseteq Procs \X Mods
    <3>1. Running(pid) => pid \in Procs
      BY TypeParts DEF Running, Procs, ConsoleType, Apps
    <3>2. QED
      BY <1>2, <2>1, <3>1, TypeParts DEF Aim, Act, console, ConsoleType
  <2>5. ConsoleType' /\ ArgsType' /\ DumpType' /\ failed' \subseteq Calls
        /\ shown' \subseteq 0 .. Word - 1
    BY <2>2, <2>3, <2>4, TypeParts DEF args, ConsoleType, ArgsType, DumpType
  <2>6. Located'
    BY <2>1, <2>2, <2>3 DEF args, Located, For, Pcs, Aims, DumpPcs
  <2>7. QED
    BY <2>5, <2>6, TypePartsNext
<1>3. QED
  BY <1>1, <1>2

LEMMA DumpStepType ==
  ASSUME TypeOK, Located, DumpCmd
  PROVE  TypeOK' /\ Located'
<1>1. CASE Finish
  BY <1>1, FinishClears
<1>2. CASE ~Finish
  <2>1. Info \/ SkipSegment \/ OpenSegment \/ Copy \/ Write \/ CloseSegment \/ Dumped
    BY <1>2 DEF DumpCmd, NoInfo, DumpTold
  <2>2. pc \in {"info"} \cup DumpPcs /\ pc' \in DumpPcs /\ uid \in Mods
    BY <2>1 DEF Info, SkipSegment, OpenSegment, Copy, Write, CloseSegment, Dumped, DumpPcs, Located
  <2>3. UNCHANGED <<console, args, found, tries, seen, told, shown>>
    BY <2>1 DEF Info, SkipSegment, OpenSegment, Copy, Write, CloseSegment, Dumped, DumpKept, memr
  <2>4. /\ seg' = seg \/ seg' = 1 \/ (seg \in 0 .. 4 /\ seg' = seg + 1)
        /\ ret' \in {-1, 0} /\ (pc' \in {"copy", "write"} => seg' = seg /\ seg \in 1 .. 4)
        /\ (pc' = "segment" => seg' # 0)
    <3>1. seg \in 0 .. 5 /\ ret \in {-1, 0} /\ (pc \in {"copy", "write"} => seg \in 1 .. 4)
          /\ (pc = "segment" => seg # 0)
      BY TypeParts DEF DumpType, Located
    <3>2. CASE Info \/ SkipSegment \/ Copy \/ Write \/ CloseSegment \/ Dumped
      BY <3>1, <3>2 DEF Info, SkipSegment, Copy, Write, CloseSegment, Dumped
    <3>3. CASE OpenSegment
      <4>1. seg # 0
        BY <3>3 DEF OpenSegment, Located
      <4>2. QED
        BY <3>1, <3>3, <4>1 DEF OpenSegment
    <3>4. QED
      BY <2>1, <3>2, <3>3
  <2>5. failed' \subseteq Calls
    <3>1. failed' = failed \/ \E c \in Calls : Fails(c)
      BY <2>1 DEF Info, SkipSegment, OpenSegment, Copy, Write, CloseSegment, Dumped, Calls
    <3>2. QED
      BY <3>1, TypeParts DEF Fails
  <2>6. ConsoleType' /\ ArgsType' /\ DumpType' /\ shown' \subseteq 0 .. Word - 1
    BY <2>3, <2>4, TypeParts DEF console, args, found, ConsoleType, ArgsType, DumpType
  <2>7. Located'
    BY <2>2, <2>3, <2>4 DEF args, found, Located, For, Pcs, Aims, DumpPcs
  <2>8. QED
    BY <2>5, <2>6, <2>7, TypePartsNext
<1>3. QED
  BY <1>1, <1>2

\* The addresses stay in the address space.
MemrType ==
  pc = "memr" => /\ addr \in 0 .. Word - 1 /\ max = (from[1] + from[2]) % Word
                 /\ from \in (0 .. Word - 1) \X (0 .. Word - 1)

LEMMA Wraps ==
  ASSUME NEW x \in Nat
  PROVE  /\ x % Word \in 0 .. Word - 1
         /\ x < Word => x % Word = x
         /\ Word <= x /\ x < 2 * Word => x % Word = x - Word
BY ConstantsAssumption

LEMMA MemType ==
  ASSUME TypeOK, Located, MemrType, MemLine \/ MemEnd
  PROVE  TypeOK' /\ Located'
<1>1. CASE MemEnd
  BY <1>1, FinishClears DEF MemEnd
<1>2. CASE MemLine
  <2>1. shown' \subseteq 0 .. Word - 1
    BY <1>2, TypeParts DEF MemLine, MemrType
  <2>2. ConsoleType' /\ ArgsType' /\ DumpType' /\ failed' \subseteq Calls
    BY <1>2, TypeParts
    DEF MemLine, console, args, found, notes, dump, ConsoleType, ArgsType, DumpType
  <2>3. Located'
    BY <1>2 DEF MemLine, args, found, Located, For, Pcs, Aims, DumpPcs
  <2>4. QED
    BY <2>1, <2>2, <2>3, TypePartsNext
<1>3. QED
  BY <1>1, <1>2

LEMMA MemrStep ==
  ASSUME Located, MemrType, [Next]_vars
  PROVE  MemrType'
<1>1. CASE pc' # "memr"
  BY <1>1 DEF MemrType
<1>2. CASE MemLine
  <2>1. /\ UNCHANGED <<pc, from, max>> /\ addr \in 0 .. Word - 1 /\ addr' = (addr + Line) % Word
        /\ pc = "memr"
    BY <1>2 DEF MemLine, MemrType
  <2>2. addr' \in 0 .. Word - 1
    BY <2>1, Wraps, ConstantsAssumption
  <2>3. QED
    BY <2>1, <2>2 DEF MemrType
<1>3. CASE Command /\ pc' = "memr"
  <2>1. PICK a, size \in 0 .. Word - 1 :
          from' = <<a, size>> /\ addr' = a /\ max' = (a + size) % Word
    BY <1>3 DEF Command, Lookup
  <2>2. QED
    BY <2>1 DEF MemrType
<1>4. CASE UNCHANGED <<pc, memr>>
  BY <1>4 DEF memr, MemrType
<1>5. pc' = "memr" => Command \/ MemLine \/ UNCHANGED <<pc, memr>>
  <2>1. CASE GetList \/ GetProcess \/ LookupFails
    BY <2>1 DEF GetList, GetProcess, LookupFails, Located, Aims
  <2>2. CASE GetTitle \/ NoTitle \/ GetName \/ NoName \/ TellId \/ Tell
    BY <2>2 DEF GetTitle, NoTitle, GetName, NoName, TellId, Tell, Lookup, Finish
  <2>3. CASE Destroy \/ DestroyAgain \/ Open \/ OpenFails \/ Launch \/ Refused \/ Launched
             \/ Receive
             \/ ReceiveNothing \/ Aim \/ Act \/ Acted
    BY <2>3 DEF Destroy, DestroyAgain, DestroyOtherApp, Open, OpenFails, Launch, Refused, Launched,
                Receive, ReceiveNothing, Aim,
                Act, Acted, Finish
  <2>4. CASE DumpCmd
    BY <2>4 DEF DumpCmd, Info, NoInfo, SkipSegment, OpenSegment, Copy, Write, CloseSegment, Dumped,
                DumpTold, Finish
  <2>5. CASE MemEnd \/ User \/ UNCHANGED vars
    BY <2>5 DEF MemEnd, User, vars, Finish
  <2>6. QED
    BY <2>1, <2>2, <2>3, <2>4, <2>5 DEF Next, Steps
<1>6. QED
  BY <1>1, <1>2, <1>3, <1>4, <1>5

LEMMA TypeStep ==
  ASSUME TypeOK, Located, MemrType, [Next]_vars
  PROVE  TypeOK' /\ Located'
<1>1. CASE UNCHANGED vars
  <2>1. UNCHANGED <<console, args, found, pc, tries, seen, told, failed, seg, ret, shown>>
    BY <1>1 DEF vars, notes, dump, memr
  <2>2. ConsoleType' /\ ArgsType' /\ DumpType' /\ failed' \subseteq Calls
        /\ shown' \subseteq 0 .. Word - 1
    BY <2>1, TypeParts DEF console, args, found, ConsoleType, ArgsType, DumpType
  <2>3. Located'
    BY <2>1 DEF args, found, Located, For
  <2>4. QED
    BY <2>2, <2>3, TypePartsNext
<1>2. QED
  BY <1>1, UserType, CommandType, LookupType, TitleType, ReplaceType, ActType, DumpStepType,
     MemType DEF Next, Steps

LEMMA TypeInit == Init => TypeOK /\ Located /\ MemrType
<1> SUFFICES ASSUME Init PROVE TypeOK /\ Located /\ MemrType
  OBVIOUS
<1>1. pc = "idle" /\ failed = {}
  BY DEF Init, Idle
<1>2. /\ app = None /\ starts = 0 /\ loaded = {<<Own, m>> : m \in Mods} /\ seen = {} /\ told = {}
      /\ image = "old" /\ tid = None /\ uid = None /\ id = None /\ pid = None /\ tries = 0
      /\ seg = 0 /\ ret = 0 /\ shown = {}
  BY DEF Init, Idle
<1>3. ConsoleType
  BY <1>2, ConstantsAssumption DEF ConsoleType, Procs
<1>4. ArgsType
  BY <1>2, ConstantsAssumption DEF ArgsType
<1>5. DumpType /\ shown \subseteq 0 .. Word - 1
  BY <1>2 DEF DumpType
<1>6. Located /\ MemrType
  BY <1>1 DEF Located, For, Pcs, MemrType, DumpPcs
<1>7. QED
  BY <1>1, <1>3, <1>4, <1>5, <1>6, TypeParts

Typed == TypeOK /\ Located /\ MemrType

LEMMA TypeInvariant == Spec => []Typed
<1>1. Typed /\ [Next]_vars => Typed'
  BY TypeStep, MemrStep DEF Typed
<1>2. QED
  BY <1>1, TypeInit, PTL DEF Spec, Typed

-------------------------------------------------------------------------------
(* Which process a command acts on, and what title tells.                  *)

\* During a command seen has what runs now, and title told only of such applications.
Watched == (pc = "idle" => told = {}) /\ (pc # "idle" => app \in seen) /\ told \subseteq seen

\* The first of the list ran; if it is no longer what runs, it has ended in between.
Listed == pc = "process" => id \in seen /\ (app # id => None \in seen)

Among(p) == \E a \in seen \ {None} : a.pid = p
Nothing == None \in seen \/ "lookup" \in failed
Aiming == pc = "aim" => IF pid = None THEN Nothing ELSE Among(pid)
Aimed ==
  pc = "act" /\ op \in {"modls", "modinfo", "modstart", "modstop"} =>
    (pid = Own /\ Nothing) \/ Among(pid)

AimInv == Watched /\ Listed /\ Aiming /\ Aimed

\* Where no process is looked up or used, only what was seen and told counts.
LEMMA AimElsewhere ==
  ASSUME pc' \notin {"process", "aim", "act", "idle"}, app' \in seen', told' \subseteq seen'
  PROVE  AimInv'
BY DEF AimInv, Watched, Listed, Aiming, Aimed

LEMMA AimFinish ==
  ASSUME Finish
  PROVE  AimInv'
<1>1. pc' = "idle" /\ told' = {}
  BY DEF Finish
<1>2. QED
  BY <1>1 DEF AimInv, Watched, Listed, Aiming, Aimed

LEMMA AimCommand ==
  ASSUME AimInv, Command
  PROVE  AimInv'
<1>1. pc = "idle" /\ app' = app /\ seen' = {app} /\ told' = {}
  BY DEF Command, Begin, console, AimInv, Watched
<1>2. /\ pc' \in {"destroy", "again", "list", "info", "act", "memr"}
      /\ pc' = "act" => op' \in {"modstartp", "modstopp"}
  BY DEF Command, Begin, Lookup
<1>3. QED
  BY <1>1, <1>2 DEF AimInv, Watched, Listed, Aiming, Aimed

LEMMA AimLookup ==
  ASSUME TypeOK, Located, AimInv, GetList \/ GetProcess \/ LookupFails
  PROVE  AimInv'
<1>1. UNCHANGED <<app, seen, told>> /\ pc # "idle" /\ then \in Aims
  BY DEF GetList, GetProcess, LookupFails, Same, console, Located
<1>2. Watched' /\ pc' \in {"process"} \cup Aims
  BY <1>1 DEF GetList, GetProcess, LookupFails, AimInv, Watched, Aims
<1>3. CASE GetList
  BY <1>1, <1>2, <1>3 DEF GetList, AimInv, Watched, Listed, Aiming, Aimed, Aims, Nothing
<1>4. CASE GetProcess
  <2>1. pc = "process" /\ pc' \in Aims /\ pid' = (IF app = id THEN app.pid ELSE None)
    BY <1>1, <1>4 DEF GetProcess
  <2>2. id \in Apps /\ id # None /\ (app = id => app.pid # None)
    BY <2>1, ConstantsAssumption DEF Located, Apps, Procs
  <2>3. Aiming'
    BY <1>1, <2>1, <2>2 DEF AimInv, Watched, Listed, Aiming, Among, Nothing
  <2>4. QED
    BY <1>2, <2>1, <2>3 DEF AimInv, Listed, Aimed, Aims
<1>5. CASE LookupFails
  <2>1. pc' \in Aims /\ pid' = None /\ "lookup" \in failed'
    BY <1>1, <1>5 DEF LookupFails, Fails
  <2>2. QED
    BY <1>2, <2>1 DEF AimInv, Listed, Aiming, Aimed, Aims, Nothing
<1>6. QED
  BY <1>3, <1>4, <1>5

LEMMA AimTitle ==
  ASSUME AimInv, GetTitle \/ NoTitle \/ GetName \/ NoName \/ TellId \/ Tell
  PROVE  AimInv'
<1>1. CASE Finish
  BY <1>1, AimFinish
<1>2. CASE ~Finish
  <2>1. app' = app /\ seen' = seen /\ told' \in {told, told \cup {app}} /\ pc # "idle"
    BY <1>2 DEF GetTitle, NoTitle, GetName, NoName, TellId, Tell, console, notes
  <2>2. pc' \in {"destroy", "list"}
    BY <1>2 DEF GetTitle, NoTitle, GetName, NoName, TellId, Tell, Lookup
  <2>3. QED
    BY <2>1, <2>2, AimElsewhere DEF AimInv, Watched
<1>3. QED
  BY <1>1, <1>2

LEMMA AimReplace ==
  ASSUME AimInv,
         \/ Destroy \/ DestroyAgain \/ Open \/ OpenFails \/ Receive \/ ReceiveNothing
         \/ Launch \/ Refused \/ Launched
  PROVE  AimInv'
<1>1. CASE Finish
  BY <1>1, AimFinish
<1>2. CASE ~Finish
  <2>1. /\ pc \in {"destroy", "open", "receive", "again", "launch"}
        /\ pc' \in {"open", "receive", "again", "launch"}
    BY <1>2 DEF Destroy, DestroyAgain, DestroyOtherApp, Open, OpenFails, Receive, ReceiveNothing,
                Launch, Refused, Launched
  <2>2. told' = told /\ ((app' = app /\ seen' = seen) \/ Ends \/ Starts(tid))
    BY <1>2 DEF Destroy, DestroyAgain, DestroyOtherApp, Open, OpenFails, Receive, ReceiveNothing,
                Launch, Refused, Launched,
                console, notes
  <2>3. app' \in seen' /\ seen \subseteq seen'
    BY <2>1, <2>2 DEF Ends, Starts, Ran, AimInv, Watched
  <2>4. QED
    BY <2>1, <2>2, <2>3, AimElsewhere DEF AimInv, Watched
<1>3. QED
  BY <1>1, <1>2

LEMMA AimAct ==
  ASSUME AimInv, Aim \/ Act \/ Acted
  PROVE  AimInv'
<1>1. CASE Acted
  BY <1>1, AimFinish DEF Acted
<1>2. CASE Aim \/ Act
  <2>1. UNCHANGED <<app, seen, told, failed>> /\ pc # "idle"
    BY <1>2 DEF Aim, Act, console, notes
  <2>2. CASE Act
    BY <2>1, <2>2, AimElsewhere DEF Act, AimInv, Watched
  <2>3. CASE Aim
    <3>1. pc = "aim" /\ pc' = "act" /\ pid' = (IF pid = None THEN Own ELSE pid)
      BY <2>3 DEF Aim
    <3>2. QED
      BY <2>1, <3>1 DEF AimInv, Watched, Listed, Aiming, Aimed, Among, Nothing
  <2>4. QED
    BY <1>2, <2>2, <2>3
<1>3. QED
  BY <1>1, <1>2

LEMMA AimDumpMem ==
  ASSUME AimInv, DumpCmd \/ MemLine \/ MemEnd
  PROVE  AimInv'
<1>1. CASE Finish
  BY <1>1, AimFinish
<1>2. CASE ~Finish
  <2>1. UNCHANGED <<app, seen, told>> /\ pc # "idle" /\ pc' \in DumpPcs \cup {"memr"}
    BY <1>2 DEF DumpCmd, Info, NoInfo, SkipSegment, OpenSegment, Copy, Write, CloseSegment, Dumped,
                DumpTold, MemLine, MemEnd, DumpKept, console, notes, DumpPcs
  <2>2. QED
    BY <2>1, AimElsewhere DEF AimInv, Watched, DumpPcs
<1>3. QED
  BY <1>1, <1>2

\* The user ends or starts applications: between two, none runs.
LEMMA AimUser ==
  ASSUME AimInv, User
  PROVE  AimInv'
<1>1. UNCHANGED <<pc, op, id, pid, told, failed>>
  BY DEF User, args, found
<1>2. /\ seen' = (IF pc = "idle" THEN {} ELSE seen \cup {app'})
      /\ (app = None \/ app' = None)
  BY DEF User, Ends, Starts, Ran
<1>3. Watched'
  BY <1>1, <1>2 DEF AimInv, Watched
<1>4. CASE pc = "idle"
  BY <1>1, <1>3, <1>4 DEF AimInv, Listed, Aiming, Aimed
<1>5. CASE pc # "idle"
  <2>1. seen' = seen \cup {app'} /\ app \in seen
    BY <1>2, <1>5 DEF AimInv, Watched
  <2>2. Listed' /\ Aiming' /\ Aimed'
    BY <1>1, <1>2, <2>1 DEF AimInv, Listed, Aiming, Aimed, Among, Nothing
  <2>3. QED
    BY <1>3, <2>2 DEF AimInv
<1>6. QED
  BY <1>4, <1>5

LEMMA AimStep == Typed /\ AimInv /\ [Next]_vars => AimInv'
<1> SUFFICES ASSUME TypeOK, Located, AimInv, [Next]_vars PROVE AimInv'
  BY DEF Typed
<1>1. CASE UNCHANGED vars
  BY <1>1 DEF vars, console, args, found, notes, AimInv, Watched, Listed, Aiming, Aimed, Among,
              Nothing
<1>2. QED
  BY <1>1, AimCommand, AimLookup, AimTitle, AimReplace, AimAct, AimDumpMem, AimUser
  DEF Next, Steps

\* A module command of psp2shell_m/source/cmd.c that looks for the running application acts
\* on one that ran during the command, and on SceShell only if at some moment none did or a
\* call of the lookup failed (utility.c:39); and title tells of such applications only.
THEOREM AimedAtCorrect == Spec => []AimedAt
<1>1. Init => AimInv
  BY DEF Init, Idle, AimInv, Watched, Listed, Aiming, Aimed
<1>2. Typed /\ AimInv => AimedAt
  BY DEF Typed, AimInv, Watched, Aimed, Among, Nothing, AimedAt
<1>3. QED
  BY <1>1, <1>2, AimStep, TypeInvariant, PTL DEF Spec

-------------------------------------------------------------------------------
(* eboot.bin.                                                              *)

\* Since the command ended the application, the system numbers those it starts higher.
Numbered ==
  /\ app # None => app.pid <= starts
  /\ pc \in {"open", "receive"} =>
       mark \in Nat /\ mark <= starts /\ (app # None => mark < app.pid \/ "destroy" \in failed)

\* What is started was received, or the connection failed.
Received ==
  pc \in {"again", "launch"} /\ op \in {"load", "reload"} => image = "new" \/ "receive" \in failed

\* The only ways to the file ...
LEMMA WaysToFile ==
  ASSUME Located, [Next]_vars, pc' \in {"open", "receive"}
  PROVE  \/ Destroy \/ (UNCHANGED <<pc, mark, failed>> /\ (User \/ UNCHANGED <<app, starts>>))
         \/ (pc = "open" /\ UNCHANGED <<mark, app, starts, failed>>)
<1>1. CASE GetList \/ GetProcess \/ LookupFails
  BY <1>1 DEF GetList, GetProcess, LookupFails, Located, Aims
<1>2. CASE GetTitle \/ NoTitle \/ GetName \/ NoName \/ TellId \/ Tell \/ Command
  BY <1>2 DEF GetTitle, NoTitle, GetName, NoName, TellId, Tell, Lookup, Finish, Command, Begin
<1>3. CASE OpenFails \/ ReceiveNothing \/ Launched \/ Acted \/ NoInfo \/ DumpTold \/ MemEnd
  BY <1>3 DEF OpenFails, ReceiveNothing, Launched, Acted, NoInfo, DumpTold, MemEnd, Finish
<1>4. CASE Aim \/ Act \/ DumpCmd \/ MemLine
  BY <1>4 DEF Aim, Act, DumpCmd, Info, NoInfo, SkipSegment, OpenSegment, Copy, Write, CloseSegment,
              Dumped, DumpTold, MemLine, Finish
<1>5. CASE Destroy \/ DestroyAgain \/ Receive \/ Open
  BY <1>5 DEF Destroy, DestroyAgain, Receive, Open, notes
<1>6. CASE Launch \/ Refused
  BY <1>6 DEF Launch, Refused, Finish, console, notes
<1>7. CASE User \/ UNCHANGED vars
  BY <1>7 DEF User, vars, console, notes
<1>8. QED
  BY <1>1, <1>2, <1>3, <1>4, <1>5, <1>6, <1>7 DEF Next, Steps

\* ... and past it.
LEMMA WaysPast ==
  ASSUME Located, [Next]_vars, pc' \in {"again", "launch"}, op' \in {"load", "reload"}
  PROVE  \/ Receive
         \/ /\ pc \in {"again", "launch"} /\ UNCHANGED <<op, image>>
            /\ failed \subseteq failed'
<1>1. CASE GetList \/ GetProcess \/ LookupFails
  BY <1>1 DEF GetList, GetProcess, LookupFails, Located, Aims
<1>2. CASE GetTitle \/ NoTitle \/ GetName \/ NoName \/ TellId \/ Tell \/ Command
  BY <1>2 DEF GetTitle, NoTitle, GetName, NoName, TellId, Tell, Lookup, Finish, Command, Begin
<1>3. CASE OpenFails \/ ReceiveNothing \/ Launched \/ Acted \/ NoInfo \/ DumpTold \/ MemEnd
  BY <1>3 DEF OpenFails, ReceiveNothing, Launched, Acted, NoInfo, DumpTold, MemEnd, Finish
<1>4. CASE Aim \/ Act \/ DumpCmd \/ MemLine
  BY <1>4 DEF Aim, Act, DumpCmd, Info, NoInfo, SkipSegment, OpenSegment, Copy, Write, CloseSegment,
              Dumped, DumpTold, MemLine, Finish
<1>5. CASE Destroy \/ DestroyAgain \/ Receive \/ Open
  BY <1>5 DEF Destroy, DestroyAgain, DestroyOtherApp, Fails, Receive, Open, args
<1>6. CASE Launch \/ Refused
  BY <1>6 DEF Launch, Refused, Finish, args, console, notes
<1>7. CASE User \/ UNCHANGED vars
  BY <1>7 DEF User, vars, args, console, notes
<1>8. QED
  BY <1>1, <1>2, <1>3, <1>4, <1>5, <1>6, <1>7 DEF Next, Steps

\* What may happen to the running application.
LEMMA AppSteps ==
  ASSUME [Next]_vars
  PROVE  UNCHANGED <<app, starts>> \/ Ends \/ \E t : Starts(t)
<1>1. CASE Launch \/ User \/ Destroy \/ DestroyAgain
  BY <1>1 DEF Launch, User, Destroy, DestroyAgain, DestroyOtherApp
<1>2. CASE ~(Launch \/ User \/ Destroy \/ DestroyAgain)
  BY <1>2
  DEF Next, Steps, Command, Begin, GetList, GetProcess, LookupFails, Same, GetTitle, NoTitle,
      GetName, NoName, TellId, Tell, Open, OpenFails, Receive, ReceiveNothing, Refused, Launched,
      Aim, Act, Acted, DumpCmd, Info, NoInfo, SkipSegment, OpenSegment, Copy, Write, CloseSegment,
      Dumped, DumpTold, DumpKept, MemLine, MemEnd, Finish, console, vars
<1>3. QED
  BY <1>1, <1>2

LEMMA NumberedStep ==
  ASSUME TypeOK, Located, Numbered, [Next]_vars
  PROVE  Numbered'
<1>1. starts \in Nat /\ (app # None => app.pid \in Nat)
  BY TypeParts, ConstantsAssumption DEF ConsoleType, Apps, Pids
<1>2. \/ UNCHANGED <<app, starts>> \/ (starts' = starts /\ app' = None)
      \/ (starts' = starts + 1 /\ app'.pid = starts + 1)
  BY AppSteps DEF Ends, Starts, Ran
<1>3. app' # None => app'.pid <= starts'
  BY <1>1, <1>2 DEF Numbered
<1>4. CASE pc' \in {"open", "receive"}
  <2>1. CASE Destroy
    <3>1. /\ mark' = starts /\ starts' = starts
          /\ app' = None \/ "destroy" \in failed'
      BY <2>1 DEF Destroy, DestroyOtherApp, Ends, Ran, Fails
    <3>2. QED
      BY <1>1, <1>3, <3>1 DEF Numbered
  <2>2. CASE pc \in {"open", "receive"} /\ UNCHANGED <<mark, failed>>
    BY <1>1, <1>2, <1>3, <2>2 DEF Numbered
  <2>3. QED
    BY <1>4, <2>1, <2>2, WaysToFile
<1>5. QED
  BY <1>3, <1>4 DEF Numbered

LEMMA ReceivedStep ==
  ASSUME Located, Received, [Next]_vars
  PROVE  Received'
<1>1. CASE Receive
  BY <1>1 DEF Receive, Received, Fails
<1>2. QED
  BY <1>1, WaysPast DEF Received

\* load and reload write eboot.bin when its application does not run, but for one that the
\* user started meanwhile or that sceAppMgrDestroyOtherApp failed to end, and start it only
\* with what the client sent or after an error of the connection (psp2shell_m/source/cmd.c:130).
THEOREM ReplacedCorrect == Spec => []Replaced
<1>1. Init => Numbered /\ Received
  <2>1. Init => pc = "idle" /\ app = None
    BY DEF Init, Idle
  <2>2. QED
    BY <2>1 DEF Numbered, Received
<1>2. Typed /\ Numbered /\ Received /\ [Next]_vars => Numbered' /\ Received'
  BY NumberedStep, ReceivedStep DEF Typed
<1>3. Typed /\ Numbered /\ Received => Replaced
  BY DEF Numbered, Received, Replaced
<1>4. QED
  BY <1>1, <1>2, <1>3, TypeInvariant, PTL DEF Spec

-------------------------------------------------------------------------------
(* The dump.                                                               *)

Byte == Cells \cup {None}

\* The first n bytes of segment s of the module asked for.
Taken(s, n) == [k \in 1 .. n |-> <<uid, s, k - 1>>]

DumpShape == chunk \in [1 .. CHUNK_SIZE -> Byte] /\ file \in [1 .. 4 -> Seq(Byte) \cup {None}]

\* As long as no call failed, the segments that are done are whole ...
DumpDone ==
  /\ pc \notin DumpPcs => ret = 0
  /\ pc \in DumpPcs /\ "dump" \notin failed =>
       ret = 0 /\ \A s \in 1 .. 4 : s < seg /\ Segs[uid][s] > 0 => Whole(s)
  /\ pc = "dumped" => seg = 5

\* ... the file has the bytes up to the position ...
DumpFile ==
  pc \in {"copy", "write"} =>
    /\ Size > 0 /\ pos \in 0 .. Size /\ file[seg] \in Seq(Byte)
    /\ "dump" \notin failed => file[seg] = Taken(seg, pos)

\* ... and the buffer the next ones.
DumpChunk ==
  pc = "write" =>
    /\ pos < Size
    /\ "dump" \notin failed => \A k \in 1 .. Part : chunk[k] = <<uid, seg, pos + k - 1>>

Dumping == DumpShape /\ DumpDone /\ DumpFile /\ DumpChunk

LEMMA TakenSeq ==
  ASSUME uid \in Mods, NEW s \in 1 .. 4, NEW n \in 0 .. 10
  PROVE  Taken(s, n) \in Seq(Byte) /\ Len(Taken(s, n)) = n
<1>1. Taken(s, n) \in [1 .. n -> Byte]
  BY DEF Taken, Byte, Cells
<1>2. Taken(s, n) \in Seq(Byte)
  BY <1>1, SeqDef
<1>3. QED
  BY <1>1, <1>2, LenProperties

\* How two sequences make a third.
LEMMA ConcatIs ==
  ASSUME NEW S, NEW a \in Seq(S), NEW b \in Seq(S), NEW c \in Seq(S), Len(c) = Len(a) + Len(b),
         \A i \in 1 .. Len(a) : c[i] = a[i], \A i \in 1 .. Len(b) : c[Len(a) + i] = b[i]
  PROVE  a \o b = c
<1>1. /\ a \o b \in Seq(S) /\ Len(a \o b) = Len(a) + Len(b)
      /\ \A i \in 1 .. Len(a) + Len(b) :
           (a \o b)[i] = IF i <= Len(a) THEN a[i] ELSE b[i - Len(a)]
  BY ConcatProperties
<1>2. Len(a) \in Nat /\ Len(b) \in Nat
  BY LenProperties
<1>3. ASSUME NEW i \in 1 .. Len(a) + Len(b) PROVE (a \o b)[i] = c[i]
  <2>1. CASE i <= Len(a)
    BY <1>1, <1>2, <2>1
  <2>2. CASE i > Len(a)
    <3>1. i - Len(a) \in 1 .. Len(b) /\ Len(a) + (i - Len(a)) = i
      BY <1>2, <2>2
    <3>2. c[Len(a) + (i - Len(a))] = b[i - Len(a)]
      BY <3>1
    <3>3. QED
      BY <1>1, <1>2, <2>2, <3>1, <3>2
  <2>3. QED
    BY <1>2, <2>1, <2>2
<1>4. QED
  BY <1>1, <1>3, SeqEqual

\* Writing the buffer appends the next bytes.
LEMMA Appends ==
  ASSUME uid \in Mods, DumpShape, NEW s \in 1 .. 4, NEW n \in 0 .. 10, NEW p \in 0 .. CHUNK_SIZE,
         n + p <= 10, \A k \in 1 .. p : chunk[k] = <<uid, s, n + k - 1>>
  PROVE  Taken(s, n) \o SubSeq(chunk, 1, p) = Taken(s, n + p)
<1>1. /\ SubSeq(chunk, 1, p) \in Seq(Byte) /\ Len(SubSeq(chunk, 1, p)) = p
      /\ \A i \in 1 .. p : SubSeq(chunk, 1, p)[i] = chunk[i]
  <2>1. \A i \in 1 .. p : chunk[i] \in Byte
    BY ConstantsAssumption DEF DumpShape
  <2>2. QED
    BY <2>1, SubSeqProperties, ConstantsAssumption
<1>2. n \in Nat /\ p \in Nat /\ n + p \in 0 .. 10
  BY ConstantsAssumption
<1>3. /\ Taken(s, n) \in Seq(Byte) /\ Len(Taken(s, n)) = n
      /\ Taken(s, n + p) \in Seq(Byte) /\ Len(Taken(s, n + p)) = n + p
  BY <1>2, TakenSeq
<1>4. \A i \in 1 .. n : Taken(s, n + p)[i] = Taken(s, n)[i]
  BY <1>2 DEF Taken
<1>5. ASSUME NEW i \in 1 .. p PROVE Taken(s, n + p)[n + i] = chunk[i]
  <2>1. n + i \in 1 .. n + p
    BY <1>2
  <2>2. Taken(s, n + p)[n + i] = <<uid, s, n + i - 1>>
    BY <2>1 DEF Taken
  <2>3. QED
    BY <2>2
<1> DEFINE a == Taken(s, n)
           b == SubSeq(chunk, 1, p)
           c == Taken(s, n + p)
<1>6. /\ a \in Seq(Byte) /\ b \in Seq(Byte) /\ c \in Seq(Byte) /\ Len(c) = Len(a) + Len(b)
      /\ \A i \in 1 .. Len(a) : c[i] = a[i]
  BY <1>1, <1>3, <1>4
<1>7. \A i \in 1 .. Len(b) : c[Len(a) + i] = b[i]
  BY <1>1, <1>3, <1>5
<1> HIDE DEF a, b, c
<1>8. a \o b = c
  BY <1>6, <1>7, ConcatIs
<1>9. QED
  BY <1>8 DEF a, b, c

LEMMA SizeType ==
  ASSUME uid \in Mods, seg \in 1 .. 4
  PROVE  /\ Size \in 0 .. 10
         /\ pos \in 0 .. Size /\ pos < Size => Part \in 1 .. CHUNK_SIZE /\ pos + Part <= Size
BY ConstantsAssumption DEF Size, Part
LEMMA WholeTaken == \A s : Whole(s) <=> file[s] = Taken(s, Segs[uid][s])
BY DEF Whole, Taken

\* Outside a dump only the shape and the result matter.
LEMMA DumpElsewhere ==
  ASSUME pc' \notin DumpPcs, DumpShape', ret' = 0
  PROVE  Dumping'
BY DEF Dumping, DumpDone, DumpFile, DumpChunk, DumpPcs

LEMMA DumpFinish ==
  ASSUME Dumping, Finish
  PROVE  Dumping'
<1>1. pc' = "idle" /\ file' = NoFile /\ chunk' = chunk /\ ret' = 0
  BY DEF Finish
<1>2. DumpShape'
  BY <1>1 DEF Dumping, DumpShape, NoFile
<1>3. QED
  BY <1>1, <1>2, DumpElsewhere DEF DumpPcs

LEMMA DumpOthers ==
  ASSUME Located, Dumping, [Next]_vars, ~DumpCmd
  PROVE  Dumping'
<1>1. CASE Finish
  BY <1>1, DumpFinish
<1>2. CASE User \/ UNCHANGED vars
  <2>1. UNCHANGED <<pc, uid, failed, seg, pos, chunk, file, ret>>
    BY <1>2 DEF User, vars, args, notes, dump
  <2>2. QED
    BY <2>1 DEF Dumping, DumpShape, DumpDone, DumpFile, DumpChunk, Size, Part, Taken, Whole
<1>3. CASE ~Finish /\ ~User /\ ~UNCHANGED vars
  <2>1. pc \notin DumpPcs /\ pc' \notin DumpPcs /\ UNCHANGED dump
    <3>1. CASE GetList \/ GetProcess \/ LookupFails
      BY <3>1 DEF GetList, GetProcess, LookupFails, Same, Located, Aims, DumpPcs
    <3>2. CASE Command
      BY <3>2 DEF Command, Begin, Lookup, DumpPcs
    <3>3. CASE GetTitle \/ NoTitle \/ GetName \/ NoName \/ TellId \/ Tell
      BY <1>3, <3>3 DEF GetTitle, NoTitle, GetName, NoName, TellId, Tell, Lookup, DumpPcs
    <3>4. CASE \/ Destroy \/ DestroyAgain \/ Open \/ OpenFails \/ Launch \/ Refused \/ Launched
               \/ Receive
               \/ ReceiveNothing
      BY <1>3, <3>4 DEF Destroy, DestroyAgain, DestroyOtherApp, Open, OpenFails, Launch, Refused,
                        Launched, Receive,
                        ReceiveNothing, DumpPcs
    <3>5. CASE Aim \/ Act \/ Acted \/ MemLine \/ MemEnd
      BY <1>3, <3>5 DEF Aim, Act, Acted, MemLine, MemEnd, DumpPcs
    <3>6. QED
      BY <1>3, <3>1, <3>2, <3>3, <3>4, <3>5 DEF Next, Steps
  <2>2. DumpShape' /\ ret' = 0
    BY <2>1 DEF dump, Dumping, DumpShape, DumpDone
  <2>3. QED
    BY <2>1, <2>2, DumpElsewhere
<1>4. QED
  BY <1>1, <1>2, <1>3

\* Between the segments.
LEMMA DumpBetween ==
  ASSUME TypeOK, Located, Dumping, Info \/ SkipSegment \/ CloseSegment \/ Dumped
  PROVE  Dumping'
<1>1. UNCHANGED <<uid, chunk, file>> /\ failed' = failed /\ uid \in Mods /\ seg \in 0 .. 5
  BY TypeParts
  DEF Info, SkipSegment, CloseSegment, Dumped, DumpKept, args, Located, DumpPcs, DumpType
<1>2. DumpShape' /\ pc' \in {"segment", "dumped"}
  BY <1>1 DEF Info, SkipSegment, CloseSegment, Dumped, Dumping, DumpShape
<1>3. \A s : Whole(s)' <=> Whole(s)
  BY <1>1 DEF Whole
<1>4. DumpFile' /\ DumpChunk'
  BY <1>2 DEF DumpFile, DumpChunk
<1>5. CASE Info
  <2>1. pc = "info" /\ pc' = "segment" /\ seg' = 1 /\ ret' = ret
    BY <1>5 DEF Info
  <2>2. ret = 0 /\ \A s \in 1 .. 4 : ~(s < seg')
    BY <2>1 DEF Dumping, DumpDone, DumpPcs
  <2>3. DumpDone'
    BY <2>1, <2>2 DEF DumpDone, DumpPcs
  <2>4. QED
    BY <1>2, <1>4, <2>3 DEF Dumping
<1>6. CASE SkipSegment
  <2>1. pc = "segment" /\ pc' = pc /\ ret' = ret /\ seg' = seg + 1 /\ Segs[uid][seg] = 0
    BY <1>6 DEF SkipSegment, Size
  <2>2. \A s \in 1 .. 4 : s < seg + 1 /\ Segs[uid][s] > 0 => s < seg
    BY <1>1, <2>1
  <2>3. DumpDone'
    BY <1>1, <1>3, <2>1, <2>2 DEF Dumping, DumpDone, DumpPcs
  <2>4. QED
    BY <1>2, <1>4, <2>3 DEF Dumping
<1>7. CASE CloseSegment
  <2>1. /\ pc = "copy" /\ pos >= Size /\ pc' = "segment" /\ ret' = 0 /\ seg' = seg + 1
        /\ seg \in 1 .. 4
    BY <1>7 DEF CloseSegment, Located
  <2>2. pos = Size
    BY <1>1, <2>1, SizeType DEF Dumping, DumpFile
  <2>3. "dump" \notin failed => Whole(seg)
    BY <2>1, <2>2, WholeTaken DEF Dumping, DumpFile, Size
  <2>4. \A s \in 1 .. 4 : s < seg + 1 => s < seg \/ s = seg
    BY <2>1
  <2>5. DumpDone'
    BY <1>1, <1>3, <2>1, <2>3, <2>4 DEF Dumping, DumpDone, DumpPcs
  <2>6. QED
    BY <1>2, <1>4, <2>5 DEF Dumping
<1>8. CASE Dumped
  <2>1. pc = "segment" /\ pc' = "dumped" /\ seg = 5 /\ UNCHANGED <<seg, ret>>
    BY <1>8 DEF Dumped
  <2>2. DumpDone'
    BY <1>1, <1>3, <2>1 DEF Dumping, DumpDone, DumpPcs
  <2>3. QED
    BY <1>2, <1>4, <2>2 DEF Dumping
<1>9. QED
  BY <1>2, <1>4, <1>5, <1>6, <1>7, <1>8 DEF Dumping

\* The first part of a segment comes after nothing.
LEMMA DumpOpen ==
  ASSUME TypeOK, Located, Dumping, OpenSegment
  PROVE  Dumping'
<1>1. /\ UNCHANGED <<uid, chunk>> /\ uid \in Mods /\ seg \in 1 .. 4 /\ pc = "segment" /\ Size > 0
  <2>1. seg \in 0 .. 5 /\ seg # 0
    BY TypeParts DEF OpenSegment, Located, DumpType
  <2>2. QED
    BY <2>1 DEF OpenSegment, DumpKept, args, Located, DumpPcs
<1>2. CASE /\ pc' = "copy" /\ pos' = 0 /\ file' = [file EXCEPT ![seg] = <<>>]
           /\ UNCHANGED <<seg, ret, failed>>
  <2>1. /\ DumpShape' /\ file'[seg] = <<>> /\ <<>> \in Seq(Byte)
        /\ \A s \in 1 .. 4 : s # seg => file'[s] = file[s]
    BY <1>1, <1>2 DEF Dumping, DumpShape
  <2>2. Taken(seg, 0) = <<>>
    <3>1. uid \in Mods /\ seg \in 1 .. 4 /\ 0 \in 0 .. 10
      BY <1>1
    <3>2. Taken(seg, 0) \in Seq(Byte) /\ Len(Taken(seg, 0)) = 0
      BY <3>1, TakenSeq
    <3>3. QED
      BY <3>2, EmptySeq
  <2>3. Taken(seg, pos)' = Taken(seg, 0) /\ Size' = Size /\ 0 \in 0 .. Size
    BY <1>1, <1>2, SizeType DEF Taken, Size
  <2>4. DumpFile'
    BY <1>1, <1>2, <2>1, <2>2, <2>3 DEF DumpFile
  <2>5. DumpDone'
    BY <1>1, <1>2, <2>1 DEF Dumping, DumpDone, DumpPcs, Whole
  <2>6. QED
    BY <1>2, <2>1, <2>4, <2>5 DEF Dumping, DumpChunk
<1>3. CASE Fails("dump") /\ UNCHANGED <<pc, pos, file>>
  BY <1>1, <1>3 DEF Fails, Dumping, DumpShape, DumpDone, DumpFile, DumpChunk, DumpPcs
<1>4. QED
  BY <1>2, <1>3 DEF OpenSegment

LEMMA DumpCopy ==
  ASSUME TypeOK, Located, Dumping, Copy
  PROVE  Dumping'
<1>1. /\ UNCHANGED <<uid, seg, pos, file, ret>> /\ uid \in Mods /\ seg \in 1 .. 4
      /\ pc = "copy" /\ pc' = "write" /\ pos < Size
  BY DEF Copy, DumpKept, args, Located, DumpPcs
<1>2. /\ Size \in 0 .. 10 /\ pos \in 0 .. Size /\ Part \in 1 .. CHUNK_SIZE /\ pos + Part <= Size
  BY <1>1, SizeType DEF Dumping, DumpFile
<1>3. Size' = Size /\ Part' = Part /\ (\A s, n : Taken(s, n)' = Taken(s, n))
      /\ (\A s : Whole(s)' <=> Whole(s))
  BY <1>1 DEF Size, Part, Taken, Whole
<1>4. CASE /\ chunk' = [k \in 1 .. CHUNK_SIZE |->
                          IF k <= Part THEN <<uid, seg, pos + k - 1>> ELSE chunk[k]]
           /\ UNCHANGED failed
  <2>1. ASSUME NEW k \in 1 .. CHUNK_SIZE, k <= Part PROVE <<uid, seg, pos + k - 1>> \in Byte
    <3>1. pos + k - 1 \in 0 .. 9
      BY <1>2, <2>1, ConstantsAssumption
    <3>2. QED
      BY <1>1, <3>1 DEF Byte, Cells
  <2>2. DumpShape'
    BY <1>1, <1>4, <2>1 DEF Dumping, DumpShape
  <2>3. \A k \in 1 .. Part : chunk'[k] = <<uid, seg, pos + k - 1>>
    BY <1>2, <1>4, ConstantsAssumption
  <2>4. DumpChunk'
    BY <1>1, <1>3, <2>3 DEF DumpChunk
  <2>5. DumpDone'
    BY <1>1, <1>3, <1>4 DEF Dumping, DumpDone, DumpPcs
  <2>6. DumpFile'
    BY <1>1, <1>3, <1>4 DEF Dumping, DumpFile
  <2>7. QED
    BY <2>2, <2>4, <2>5, <2>6 DEF Dumping
<1>5. CASE Fails("dump") /\ UNCHANGED chunk
  BY <1>1, <1>3, <1>5 DEF Fails, Dumping, DumpShape, DumpDone, DumpFile, DumpChunk, DumpPcs
<1>6. QED
  BY <1>4, <1>5 DEF Copy

LEMMA DumpWrite ==
  ASSUME TypeOK, Located, Dumping, Write
  PROVE  Dumping'
<1>1. /\ UNCHANGED <<uid, seg, chunk, ret>> /\ uid \in Mods /\ seg \in 1 .. 4
      /\ pc = "write" /\ pc' = "copy" /\ pos' = pos + Part
  BY DEF Write, DumpKept, args, Located, DumpPcs
<1>2. /\ Size > 0 /\ Size \in 0 .. 10 /\ pos \in 0 .. Size /\ pos < Size
      /\ Part \in 1 .. CHUNK_SIZE /\ pos + Part <= Size /\ file[seg] \in Seq(Byte)
  BY <1>1, SizeType DEF Dumping, DumpFile, DumpChunk
<1>3. /\ pos' \in 0 .. Size /\ pos \in 0 .. 10 /\ Part \in 0 .. CHUNK_SIZE /\ pos + Part <= 10
  <2>1. Part \in Nat
    BY <1>2, ConstantsAssumption
  <2>2. QED
    BY <1>1, <1>2, <2>1
<1>4. Size' = Size /\ (\A s, n : Taken(s, n)' = Taken(s, n))
  BY <1>1 DEF Size, Taken
<1>5. CASE file' = [file EXCEPT ![seg] = @ \o SubSeq(chunk, 1, Part)] /\ UNCHANGED failed
  <2>1. SubSeq(chunk, 1, Part) \in Seq(Byte)
    <3>1. \A i \in 1 .. Part : chunk[i] \in Byte
      BY <1>3, ConstantsAssumption DEF Dumping, DumpShape
    <3>2. Part \in Int
      BY <1>3, ConstantsAssumption
    <3>3. QED
      BY <3>1, <3>2, SubSeqProperties
  <2>2. file[seg] \o SubSeq(chunk, 1, Part) \in Seq(Byte)
    BY <1>2, <2>1, ConcatProperties
  <2>3. /\ DumpShape' /\ file'[seg] = file[seg] \o SubSeq(chunk, 1, Part)
        /\ \A s \in 1 .. 4 : s # seg => file'[s] = file[s]
    BY <1>1, <1>5, <2>2 DEF Dumping, DumpShape
  <2>4. ASSUME "dump" \notin failed PROVE file'[seg] = Taken(seg, pos + Part)
    <3>1. file[seg] = Taken(seg, pos) /\ \A k \in 1 .. Part : chunk[k] = <<uid, seg, pos + k - 1>>
      BY <1>1, <2>4 DEF Dumping, DumpFile, DumpChunk
    <3>2. Taken(seg, pos) \o SubSeq(chunk, 1, Part) = Taken(seg, pos + Part)
      BY <1>1, <1>3, <3>1, Appends DEF Dumping
    <3>3. QED
      BY <2>3, <3>1, <3>2
  <2>5. DumpFile'
    BY <1>1, <1>2, <1>3, <1>4, <1>5, <2>2, <2>3, <2>4 DEF DumpFile
  <2>6. DumpDone'
    BY <1>1, <1>5, <2>3 DEF Dumping, DumpDone, DumpPcs, Whole
  <2>7. QED
    BY <1>1, <2>3, <2>5, <2>6 DEF Dumping, DumpChunk
<1>6. CASE Fails("dump") /\ UNCHANGED file
  BY <1>1, <1>2, <1>3, <1>4, <1>6
  DEF Fails, Dumping, DumpShape, DumpDone, DumpFile, DumpChunk, DumpPcs
<1>7. QED
  BY <1>5, <1>6 DEF Write

LEMMA DumpStep == Typed /\ Dumping /\ [Next]_vars => Dumping'
<1> SUFFICES ASSUME TypeOK, Located, Dumping, [Next]_vars PROVE Dumping'
  BY DEF Typed
<1>1. CASE NoInfo \/ DumpTold
  BY <1>1, DumpFinish DEF NoInfo, DumpTold
<1>2. QED
  BY <1>1, DumpOthers, DumpBetween, DumpOpen, DumpCopy, DumpWrite DEF DumpCmd

LEMMA DumpInit == Init => Dumping
<1> SUFFICES ASSUME Init PROVE Dumping
  OBVIOUS
<1>1. pc = "idle" /\ ret = 0 /\ file = NoFile /\ chunk = [k \in 1 .. CHUNK_SIZE |-> None]
  BY DEF Init, Idle
<1>2. DumpShape
  BY <1>1 DEF DumpShape, NoFile, Byte
<1>3. QED
  BY <1>1, <1>2 DEF Dumping, DumpDone, DumpFile, DumpChunk, DumpPcs

\* A dump of psp2shell_k/main.c:161 in which no call failed has every byte of every segment
\* at its place, whatever their sizes and the size of the buffer.
THEOREM DumpFaithfulCorrect == Spec => []DumpFaithful
<1>1. Dumping => DumpFaithful
  <2>1. ASSUME Dumping, pc = "dumped", "dump" \notin failed PROVE ret = 0 /\ AllWhole
    BY <2>1 DEF Dumping, DumpDone, AllWhole, DumpPcs
  <2>2. QED
    BY <2>1 DEF DumpFaithful
<1>2. QED
  BY <1>1, DumpInit, DumpStep, TypeInvariant, PTL DEF Spec

-------------------------------------------------------------------------------
(* The lines of memr.                                                      *)

Multiple(x) == \E k \in 0 .. Word : x = k * Line

\* memr has shown what lies before its address.
Straight ==
  /\ from[1] <= addr /\ shown \subseteq from[1] .. max - 1
  /\ \A x \in from[1] .. addr - 1 : \E l \in shown : l <= x /\ x < l + Line

\* Its address started anew from 0: the last line of the address space is still in the
\* range, and it comes back to that line for ever.
Astray == \E c \in 0 .. Line - 1 : c <= addr /\ Multiple(addr - c) /\ Word - Line + c < max

MemInv ==
  /\ pc # "memr" => shown = {}
  /\ pc = "memr" /\ from[1] + from[2] < Word => Straight \/ Astray

\* Lines divide the address space.
LEMMA MultipleNext ==
  ASSUME NEW x \in Nat, Multiple(x), x < Word
  PROVE  x + Line <= Word /\ Multiple(x + Line)
<1>1. PICK k \in 0 .. Word : x = k * Line
  BY DEF Multiple
<1>2. Line \in Nat /\ Line >= 1 /\ Word \in Nat /\ k \in Nat
  BY ConstantsAssumption
<1>3. PICK n \in 1 .. Word : Word = n * Line
  BY ConstantsAssumption
<1>4. k < n
  <2>1. ASSUME n <= k PROVE n * Line <= k * Line
    BY <1>2, <1>3, <2>1
  <2>2. QED
    BY <1>1, <1>2, <1>3, <2>1
<1>5. (k + 1) * Line = x + Line
  BY <1>1, <1>2
<1>6. (k + 1) * Line <= n * Line
  BY <1>2, <1>3, <1>4
<1>7. k + 1 \in 0 .. Word
  <2>1. k + 1 <= (k + 1) * Line
    BY <1>2
  <2>2. QED
    BY <1>2, <1>3, <1>6, <2>1
<1>8. QED
  BY <1>2, <1>3, <1>5, <1>6, <1>7 DEF Multiple

LEMMA MultipleZero == Multiple(0)
BY ConstantsAssumption DEF Multiple

\* In the last line of the address space, which is in the range, memr goes on.
LEMMA AstrayGoes ==
  ASSUME MemrType, pc = "memr", Astray
  PROVE  addr < max
<1>1. PICK c \in 0 .. Line - 1 : c <= addr /\ Multiple(addr - c) /\ Word - Line + c < max
  BY DEF Astray
<1>2. addr \in 0 .. Word - 1 /\ Word \in Nat /\ Line \in Nat /\ max \in Nat
  BY Wraps, ConstantsAssumption DEF MemrType
<1>3. addr - c + Line <= Word
  BY <1>1, <1>2, MultipleNext
<1>4. QED
  BY <1>1, <1>2, <1>3

LEMMA AstrayStep ==
  ASSUME MemrType, Astray, MemLine
  PROVE  Astray'
<1>1. PICK c \in 0 .. Line - 1 : c <= addr /\ Multiple(addr - c) /\ Word - Line + c < max
  BY DEF Astray
<1>2. /\ addr \in 0 .. Word - 1 /\ Word \in Nat /\ Line \in 1 .. Word /\ max' = max
      /\ addr' = (addr + Line) % Word
  BY ConstantsAssumption DEF MemrType, MemLine
<1>3. addr - c \in Nat /\ addr - c < Word /\ addr - c + Line <= Word /\ Multiple(addr - c + Line)
  BY <1>1, <1>2, MultipleNext
<1>4. CASE addr + Line < Word
  <2>1. addr' = addr + Line
    BY <1>2, <1>4, Wraps
  <2>2. addr' - c = addr - c + Line
    BY <1>1, <1>2, <2>1
  <2>3. QED
    BY <1>1, <1>2, <1>3, <2>2 DEF Astray
<1>5. CASE addr + Line >= Word
  <2>1. addr' = addr + Line - Word
    BY <1>2, <1>5, Wraps
  <2>2. addr - c + Line = Word
    <3>1. CASE addr - c + Line < Word
      <4>1. addr - c + Line + Line <= Word
        BY <1>2, <1>3, <3>1, MultipleNext
      <4>2. QED
        BY <1>1, <1>2, <1>5, <4>1
    <3>2. QED
      BY <1>2, <1>3, <3>1
  <2>3. addr' = c /\ addr' - c = 0
    BY <1>1, <1>2, <2>1, <2>2
  <2>4. QED
    BY <1>1, <1>2, <2>3, MultipleZero DEF Astray
<1>6. QED
  BY <1>2, <1>4, <1>5

LEMMA StraightStep ==
  ASSUME MemrType, Straight, MemLine
  PROVE  Straight' \/ Astray'
<1>1. /\ pc = "memr" /\ addr < max /\ shown' = shown \cup {addr} /\ addr' = (addr + Line) % Word
      /\ UNCHANGED <<from, max>>
  BY DEF MemLine
<1>2. /\ addr \in 0 .. Word - 1 /\ Word \in Nat /\ Line \in 1 .. Word /\ max \in Nat
      /\ from[1] \in Nat /\ from[1] <= addr
  <2>1. /\ addr \in 0 .. Word - 1 /\ max = (from[1] + from[2]) % Word
        /\ from[1] \in 0 .. Word - 1 /\ from[2] \in 0 .. Word - 1
    BY <1>1 DEF MemrType
  <2>2. Word \in Nat /\ Line \in 1 .. Word
    BY ConstantsAssumption
  <2>3. from[1] + from[2] \in Nat
    BY <2>1, <2>2
  <2>4. max \in Nat
    BY <2>1, <2>2, <2>3, Wraps
  <2>5. QED
    BY <2>1, <2>2, <2>4 DEF Straight
<1>3. CASE addr + Line < Word
  <2>1. addr' = addr + Line
    BY <1>1, <1>2, <1>3, Wraps
  <2>2. shown' \subseteq from'[1] .. max' - 1
    BY <1>1, <1>2 DEF Straight
  <2>3. ASSUME NEW x \in from[1] .. addr' - 1
        PROVE  \E l \in shown' : l <= x /\ x < l + Line
    <3>1. CASE x < addr
      BY <1>1, <1>2, <2>1, <3>1 DEF Straight
    <3>2. CASE addr <= x
      <4>1. x < addr + Line /\ addr \in shown'
        BY <1>1, <1>2, <2>1, <3>2
      <4>2. QED
        BY <3>2, <4>1
    <3>3. QED
      BY <1>2, <2>1, <3>1, <3>2
  <2>4. QED
    BY <1>1, <1>2, <2>1, <2>2, <2>3 DEF Straight
<1>4. CASE addr + Line >= Word
  <2>1. addr' = addr + Line - Word
    BY <1>1, <1>2, <1>4, Wraps
  <2>2. /\ addr' \in 0 .. Line - 1 /\ addr' <= addr' /\ addr' - addr' = 0
        /\ Word - Line + addr' < max'
    BY <1>1, <1>2, <1>4, <2>1
  <2>3. QED
    BY <2>2, MultipleZero DEF Astray
<1>5. QED
  BY <1>2, <1>3, <1>4

\* The other commands leave memr's variables alone.
LEMMA MemElsewhere ==
  ASSUME Located, [Next]_vars, ~Command, ~MemLine, ~Finish
  PROVE  UNCHANGED memr /\ (pc' = "memr" <=> pc = "memr")
<1>1. CASE GetList \/ GetProcess \/ LookupFails
  BY <1>1 DEF GetList, GetProcess, LookupFails, Same, Located, Aims
<1>2. CASE GetTitle \/ NoTitle \/ GetName \/ NoName \/ TellId \/ Tell
  BY <1>2 DEF GetTitle, NoTitle, GetName, NoName, TellId, Tell, Lookup
<1>3. CASE Destroy \/ DestroyAgain \/ Open \/ OpenFails \/ Launch \/ Refused \/ Launched \/ Receive
           \/ ReceiveNothing \/ Aim \/ Act \/ Acted
  BY <1>3 DEF Destroy, DestroyAgain, DestroyOtherApp, Open, OpenFails, Launch, Refused, Launched,
              Receive, ReceiveNothing, Aim,
              Act, Acted
<1>4. CASE DumpCmd
  BY <1>4 DEF DumpCmd, Info, NoInfo, SkipSegment, OpenSegment, Copy, Write, CloseSegment, Dumped,
              DumpTold, DumpKept
<1>5. CASE MemEnd \/ User \/ UNCHANGED vars
  BY <1>5 DEF MemEnd, User, vars
<1>6. QED
  BY <1>1, <1>2, <1>3, <1>4, <1>5 DEF Next, Steps

LEMMA MemStep == Typed /\ MemInv /\ [Next]_vars => MemInv'
<1> SUFFICES ASSUME Located, MemrType, MemInv, [Next]_vars PROVE MemInv'
  BY DEF Typed
<1>1. CASE Finish
  BY <1>1 DEF Finish, MemInv
<1>2. CASE MemLine
  <2>1. UNCHANGED <<pc, from>> /\ pc = "memr"
    BY <1>2 DEF MemLine
  <2>2. QED
    BY <1>2, <2>1, AstrayStep, StraightStep DEF MemInv
<1>3. CASE Command
  <2>1. pc = "idle" /\ shown' = shown
    BY <1>3 DEF Command, Begin, memr
  <2>2. shown' = {}
    BY <2>1 DEF MemInv
  <2>3. CASE pc' = "memr"
    <3>1. PICK a, size \in 0 .. Word - 1 : from' = <<a, size>> /\ addr' = a
      BY <1>3, <2>3 DEF Command, Lookup
    <3>2. from'[1] = a /\ a \in Int
      BY <3>1, ConstantsAssumption
    <3>3. Straight'
      BY <2>2, <3>1, <3>2 DEF Straight
    <3>4. QED
      BY <2>3, <3>3 DEF MemInv
  <2>4. QED
    BY <2>2, <2>3 DEF MemInv
<1>4. CASE UNCHANGED memr /\ (pc' = "memr" <=> pc = "memr")
  BY <1>4 DEF memr, MemInv, Straight, Astray
<1>5. QED
  BY <1>1, <1>2, <1>3, <1>4, MemElsewhere

\* memr (psp2shell_m/source/cmd.c:331) shows every address of its range and no line that
\* begins outside, wherever the range begins and however long it is: if the address passes
\* the end of the address space, the command does not end.
THEOREM MemShownCorrect == Spec => []MemShown
<1>1. Init => MemInv
  <2>1. Init => pc = "idle" /\ shown = {}
    BY DEF Init, Idle
  <2>2. QED
    BY <2>1 DEF MemInv
<1>2. Typed /\ MemInv => MemShown
  <2> SUFFICES ASSUME MemrType, MemInv, pc = "memr", addr >= max, from[1] + from[2] - 1 + 1 < Word
               PROVE  /\ \A x \in from[1] .. from[1] + from[2] - 1 :
                           \E l \in shown : l <= x /\ x < l + Line
                      /\ shown \subseteq from[1] .. from[1] + from[2] - 1
    BY DEF Typed, MemShown
  <2>1. /\ addr \in 0 .. Word - 1 /\ max = (from[1] + from[2]) % Word
        /\ from[1] \in 0 .. Word - 1 /\ from[2] \in 0 .. Word - 1 /\ Word \in Nat
    BY ConstantsAssumption DEF MemrType
  <2>2. max = from[1] + from[2]
    <3>1. from[1] + from[2] \in Nat /\ from[1] + from[2] < Word
      BY <2>1
    <3>2. QED
      BY <2>1, <3>1, Wraps
  <2>3. Straight
    <3>1. ~Astray
      BY <2>1, <2>2, AstrayGoes
    <3>2. from[1] + from[2] < Word
      BY <2>1
    <3>3. QED
      BY <3>1, <3>2 DEF MemInv
  <2>4. QED
    BY <2>1, <2>2, <2>3 DEF Straight
<1>3. QED
  BY <1>1, <1>2, MemStep, TypeInvariant, PTL DEF Spec
===============================================================================
