------------------------------- MODULE FileList -------------------------------
(***************************************************************************)
(* The sorted, doubly linked directory list of psp2shell_m/source/file.c:  *)
(* s_fileListGetEntries reads a directory or the mount points and inserts  *)
(* each entry with s_fileListAddEntry (SORT_BY_NAME_AND_FOLDER, the only   *)
(* order its callers ask for), s_fileListEmpty frees the blocks.  One step *)
(* per entry read, per node passed and per node freed.                     *)
(***************************************************************************)
EXTENDS Integers, FiniteSets

CONSTANTS
  Names,         \* what directories hold; a mount point is a name too
  Folders,       \* the names that are directories
  DIR_UP,        \* ".."
  Rank,          \* position of a name when case is ignored, a prefix before what it starts
  Nodes,         \* memory blocks p2s_malloc can return, one per entry
  NULL

ASSUME ConstantsAssumption ==
  /\ DIR_UP \in Folders /\ Folders \subseteq Names
  /\ Rank \in [Names -> Int] /\ NULL \notin Nodes

VARIABLES
  pc,            \* "idle", "up", "read", "walk", "free" or "fault"
  home,          \* the entries are mount points
  todo,          \* names sceIoDread or the table of mount points has still to give
  seen,          \* names read by this call
  blocks,        \* nodes allocated for this list
  others,        \* nodes that hold something else
  name, next, previous,          \* fields of the nodes
  head, tail, length, files, folders,   \* s_FileList
  new, p, prev   \* entry, p and previous of s_fileListAddEntry; p is Empty's cursor too

list == <<head, tail, length, files, folders>>
fields == <<name, next, previous>>
cursor == <<new, p, prev>>
vars == <<pc, home, todo, seen, blocks, others, fields, list, cursor>>

\* The caller has cleared or emptied the list.
Init ==
  /\ pc = "idle" /\ home = FALSE /\ todo = {} /\ seen = {} /\ blocks = {}
  /\ others \in SUBSET Nodes /\ name = [n \in Nodes |-> DIR_UP]
  /\ next = [n \in Nodes |-> NULL] /\ previous = [n \in Nodes |-> NULL]
  /\ head = NULL /\ tail = NULL /\ length = 0 /\ files = 0 /\ folders = 0
  /\ new = NULL /\ p = NULL /\ prev = NULL

-------------------------------------------------------------------------------
(* s_fileListAddEntry.                                                     *)

IsFolder(n) == name[n] \in Folders
Less(e, q) == Rank[name[e]] < Rank[name[q]]

\* Seeded fault: ".." is compared like the other folders.
StopsAtUp(e, q) ==
  \/ IsFolder(e) /\ ~IsFolder(q)
  \/ name[e] = DIR_UP
  \/ IsFolder(e) = IsFolder(q) /\ Less(e, q)

\* The search for e's place ends at q.
Stops(e, q) ==
  \/ IsFolder(e) /\ ~IsFolder(q)
  \/ name[e] = DIR_UP
  \/ name[q] # DIR_UP /\ IsFolder(e) = IsFolder(q) /\ Less(e, q)

\* The block p2s_malloc returns while there is one: which makes no difference, addresses
\* are only compared with NULL.
Block == CHOOSE n \in Nodes \ (blocks \cup others) : TRUE
MemoryOut == blocks \cup others = Nodes

\* p2s_malloc for name n, then s_fileListAddEntry up to its loop.  The caller writes
\* through what p2s_malloc returned without a test.
InsertFault ==
  /\ MemoryOut /\ pc' = "fault"
  /\ UNCHANGED <<blocks, fields, list, cursor>>

Insert(n) ==
  /\ ~MemoryOut /\ blocks' = blocks \cup {Block}
  /\ name' = [name EXCEPT ![Block] = n]
  /\ next' = [next EXCEPT ![Block] = NULL] /\ previous' = [previous EXCEPT ![Block] = NULL]
  /\ files' = files + (IF n \in Folders THEN 0 ELSE 1)
  /\ folders' = folders + (IF n \in Folders \ {DIR_UP} THEN 1 ELSE 0)
  /\ IF head = NULL
     THEN /\ head' = Block /\ tail' = Block /\ length' = length + 1 /\ pc' = "read"
          /\ UNCHANGED cursor
     ELSE /\ new' = Block /\ p' = head /\ prev' = NULL /\ pc' = "walk"
          /\ UNCHANGED <<head, tail, length>>

Walk ==
  /\ pc = "walk" /\ p # NULL /\ ~Stops(new, p)
  /\ prev' = p /\ p' = next[p]
  /\ UNCHANGED <<pc, home, todo, seen, blocks, fields, list, new>>

Found == pc = "walk" /\ (p # NULL => Stops(new, p))
Linked ==
  /\ length' = length + 1 /\ pc' = "read" /\ new' = NULL /\ p' = NULL /\ prev' = NULL
  /\ UNCHANGED <<home, todo, seen, blocks, name, files, folders>>

\* entry (new head) -> p (old head)
LinkFirst ==
  /\ Found /\ prev = NULL
  /\ next' = [next EXCEPT ![new] = p] /\ previous' = [previous EXCEPT ![p] = new]
  /\ head' = new /\ UNCHANGED tail
  /\ Linked

\* Seeded fault: the old tail stays the tail.
LinkLastNoTail ==
  /\ Found /\ prev # NULL /\ next[prev] = NULL
  /\ next' = [next EXCEPT ![tail] = new] /\ previous' = [previous EXCEPT ![new] = tail]
  /\ UNCHANGED <<head, tail>>
  /\ Linked

\* p (old tail) -> entry (new tail)
LinkLast ==
  /\ Found /\ prev # NULL /\ next[prev] = NULL
  /\ next' = [next EXCEPT ![tail] = new] /\ previous' = [previous EXCEPT ![new] = tail]
  /\ tail' = new /\ UNCHANGED head
  /\ Linked

\* previous -> entry -> p
LinkBetween ==
  /\ Found /\ prev # NULL /\ next[prev] # NULL
  /\ next' = [next EXCEPT ![prev] = new, ![new] = p]
  /\ previous' = [previous EXCEPT ![new] = prev, ![p] = new]
  /\ UNCHANGED <<head, tail>>
  /\ Linked

-------------------------------------------------------------------------------
(* s_fileListGetEntries, s_fileListEmpty.                                  *)

\* s_fileListGetMountPointEntries: names of the table that sceIoGetstat finds.
GetMountPointEntries ==
  /\ pc = "idle" /\ head = NULL /\ home' = TRUE /\ seen' = {} /\ pc' = "read"
  /\ todo' \in SUBSET (Folders \ {DIR_UP})
  /\ UNCHANGED <<blocks, fields, list, cursor>>

\* s_fileListGetDirectoryEntries, when sceIoDopen succeeds (else nothing happens).  What
\* sceIoDread gives is the directory's entries but ".", "..", in any order.
GetDirectoryEntries ==
  /\ pc = "idle" /\ head = NULL /\ home' = FALSE /\ seen' = {DIR_UP} /\ pc' = "up"
  /\ todo' \in SUBSET (Names \ {DIR_UP})
  /\ UNCHANGED <<blocks, fields, list, cursor>>

AddUp == pc = "up" /\ (Insert(DIR_UP) \/ InsertFault) /\ UNCHANGED <<home, todo, seen>>

Read ==
  /\ pc = "read"
  /\ \E n \in todo : (Insert(n) \/ InsertFault) /\ todo' = todo \ {n} /\ seen' = seen \cup {n}
  /\ UNCHANGED home

\* No more entries, or an error of sceIoDread, which ends the loop just so.
ReadEnd ==
  /\ pc = "read" /\ (todo = {} \/ ~home) /\ pc' = "idle"
  /\ UNCHANGED <<home, todo, seen, blocks, fields, list, cursor>>

Empty ==
  /\ pc = "idle" /\ head # NULL /\ pc' = "free" /\ p' = head
  /\ UNCHANGED <<home, todo, seen, blocks, fields, list, new, prev>>

\* A block that is given back is unmapped: its fields are gone.
Release(n) ==
  /\ blocks' = blocks \ {n} /\ name' = [name EXCEPT ![n] = DIR_UP]
  /\ next' = [next EXCEPT ![n] = NULL] /\ previous' = [previous EXCEPT ![n] = NULL]
  /\ UNCHANGED <<pc, home, todo, seen, list, new, prev>>

\* Seeded fault: the cursor does not move.
FreeAgain == pc = "free" /\ p # NULL /\ Release(p) /\ p' = p

Free == pc = "free" /\ p # NULL /\ Release(p) /\ p' = next[p]

Emptied ==
  /\ pc = "free" /\ p = NULL /\ pc' = "idle" /\ seen' = {} /\ todo' = {}
  /\ head' = NULL /\ tail' = NULL /\ length' = 0 /\ files' = 0 /\ folders' = 0
  /\ UNCHANGED <<home, blocks, fields, cursor>>

Step ==
  \/ AddUp \/ Read \/ ReadEnd \/ Walk \/ LinkFirst \/ LinkLast \/ LinkBetween
  \/ Free \/ Emptied

Next ==
  /\ GetMountPointEntries \/ GetDirectoryEntries \/ Empty \/ Step
  /\ UNCHANGED others

Spec == Init /\ [][Next]_vars

\* The calling thread goes on within a call; it need not make one.
FairSpec == Spec /\ WF_vars(Step /\ UNCHANGED others)

-------------------------------------------------------------------------------
(* Properties.                                                             *)

\* The variables stay in their ranges.
TypeOK ==
  /\ pc \in {"idle", "up", "read", "walk", "free", "fault"} /\ home \in BOOLEAN
  /\ todo \subseteq Names /\ seen \subseteq Names /\ blocks \subseteq Nodes
  /\ others \subseteq Nodes /\ blocks \cap others = {}
  /\ name \in [Nodes -> Names]
  /\ next \in [Nodes -> Nodes \cup {NULL}] /\ previous \in [Nodes -> Nodes \cup {NULL}]
  /\ {head, tail, new, p, prev} \subseteq Nodes \cup {NULL}
  /\ {length, files, folders} \subseteq Nat

\* The nodes of the list while it is not being freed.
Held == IF pc = "walk" THEN blocks \ {new} ELSE blocks

\* Every block of the list is linked both ways, once, between head and tail: nothing that
\* s_fileListAddEntry linked is lost for s_fileListEmpty or for the next insertion.
WellLinked ==
  pc # "free" =>
    /\ (head = NULL <=> Held = {}) /\ (tail = NULL <=> Held = {})
    /\ head # NULL => head \in Held /\ tail \in Held
    /\ \A n \in Held :
         /\ next[n] \in Held \cup {NULL} /\ previous[n] \in Held \cup {NULL}
         /\ (next[n] = NULL <=> n = tail)
         /\ (previous[n] = NULL <=> n = head)
         /\ \A m \in Held : next[n] = m <=> previous[m] = n

\* a may stand right before b: ".." first, folders before files, then by name.
InOrder(a, b) ==
  \/ a = DIR_UP
  \/ b # DIR_UP /\ a \in Folders /\ b \notin Folders
  \/ b # DIR_UP /\ (a \in Folders <=> b \in Folders) /\ Rank[a] <= Rank[b]

\* The list is sorted after every insertion, whatever order sceIoDread gives.
Sorted ==
  pc # "free" => \A n \in Held : next[n] # NULL => InOrder(name[n], name[next[n]])

\* cmd_ls, which follows next from head "length" times, meets every name read, once.
Complete ==
  pc \in {"idle", "read"} =>
    LET at[k \in 0 .. length] ==
          IF k <= 1 THEN head ELSE IF at[k - 1] = NULL THEN NULL ELSE next[at[k - 1]]
    IN  /\ \A k \in 1 .. length : at[k] # NULL
        /\ {name[at[k]] : k \in 1 .. length} = seen
        /\ length = Cardinality(seen)
        /\ length = files + folders + (IF DIR_UP \in seen THEN 1 ELSE 0)

\* The list s_fileListAddEntry builds: its fields stay in their ranges, it is linked, and
\* sorted, through every insertion.
SortedList == TypeOK /\ WellLinked /\ Sorted

\* Each call returns: neither the search nor the freeing runs in a circle.
Returns == pc # "idle" ~> pc \in {"idle", "fault"}
===============================================================================
