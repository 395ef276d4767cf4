----------------------------- MODULE FileListProofs -----------------------------
(***************************************************************************)
(* The list of FileList is sorted, linked and complete after every         *)
(* insertion and through every s_fileListEmpty, for any names and any      *)
(* number of blocks; and so are, through every cd and ls, the list of a    *)
(* session and the one cmd_ls has on its stack (WorkDir).                  *)
(*                                                                         *)
(* Links that look right node by node may still leave a circle of nodes    *)
(* beside the list, which s_fileListEmpty would never free.  The inductive *)
(* invariant therefore says that the blocks stand in one row: a numbering  *)
(* of all of them along next from head to tail.  An insertion renumbers    *)
(* those behind the new entry, a release drops the first.                  *)
(***************************************************************************)
EXTENDS WorkDir, SequenceTheorems, FiniteSetTheorems, WellFoundedInduction, TLAPS

Row(s, n, S) ==
  /\ s \in [1 .. n -> S]
  /\ \A x \in S : \E i \in 1 .. n : s[i] = x
  /\ \A i, j \in 1 .. n : s[i] = s[j] => i = j

\* s with x behind its first j entries.
InsertedAt(s, n, j, x) ==
  [i \in 1 .. n + 1 |-> IF i <= j THEN s[i] ELSE IF i = j + 1 THEN x ELSE s[i - 1]]

Chain(s) ==
  /\ Row(s, length, Held)
  /\ head = (IF length = 0 THEN NULL ELSE s[1])
  /\ tail = (IF length = 0 THEN NULL ELSE s[length])
  /\ \A i \in 1 .. length :
       /\ next[s[i]] = (IF i < length THEN s[i + 1] ELSE NULL)
       /\ previous[s[i]] = (IF i > 1 THEN s[i - 1] ELSE NULL)
  /\ \A i \in 1 .. length - 1 : InOrder(name[s[i]], name[s[i + 1]])

\* The nodes s_fileListEmpty has not freed yet.
Rest(s, n) ==
  /\ Row(s, n, blocks) /\ p = (IF n = 0 THEN NULL ELSE s[1])
  /\ \A i \in 1 .. n : next[s[i]] = (IF i < n THEN s[i + 1] ELSE NULL)

\* Where the search of s_fileListAddEntry is.
Searching ==
  /\ new \in blocks /\ head # NULL /\ next[new] = NULL /\ previous[new] = NULL
  /\ \/ prev = NULL /\ p = head
     \/ prev \in Held /\ p = next[prev] /\ InOrder(name[prev], name[new])

IInv ==
  /\ TypeOK
  /\ pc = "up" => head = NULL
  /\ pc = "walk" => Searching
  /\ pc # "free" => \E s \in [1 .. length -> Nodes] : Chain(s)
  /\ pc = "free" => \E n \in Nat : \E s \in [1 .. n -> Nodes] : Rest(s, n)

-------------------------------------------------------------------------------
LEMMA RowInsert ==
  ASSUME NEW S, NEW n \in Nat, NEW s, Row(s, n, S), NEW x, x \notin S, NEW j \in 0 .. n
  PROVE  Row(InsertedAt(s, n, j, x), n + 1, S \cup {x})
<1> DEFINE t == InsertedAt(s, n, j, x)
<1>1. t \in [1 .. n + 1 -> S \cup {x}]
  BY DEF Row, InsertedAt
<1>2. ASSUME NEW y \in S \cup {x} PROVE \E i \in 1 .. n + 1 : t[i] = y
  <2>1. CASE y = x
    <3>1. j + 1 \in 1 .. n + 1 /\ t[j + 1] = x BY DEF InsertedAt
    <3> QED BY <2>1, <3>1
  <2>2. CASE y \in S
    <3>1. PICK i \in 1 .. n : s[i] = y BY <2>2 DEF Row
    <3>2. CASE i <= j BY <3>1, <3>2 DEF InsertedAt
    <3>3. CASE i > j
      <4>1. i + 1 \in 1 .. n + 1 /\ t[i + 1] = s[i] BY <3>3 DEF InsertedAt
      <4> QED BY <3>1, <4>1
    <3> QED BY <3>2, <3>3
  <2> QED BY <2>1, <2>2
<1>3. ASSUME NEW i \in 1 .. n + 1, NEW k \in 1 .. n + 1, t[i] = t[k] PROVE i = k
  <2> DEFINE old(a) == IF a <= j THEN a ELSE a - 1
  <2>1. \A a \in 1 .. n + 1 : a # j + 1 => old(a) \in 1 .. n /\ t[a] = s[old(a)] /\ t[a] \in S
    BY DEF InsertedAt, Row
  <2>2. t[j + 1] = x /\ j + 1 \in 1 .. n + 1 BY DEF InsertedAt
  <2>3. CASE i = j + 1 \/ k = j + 1 BY <2>1, <2>2, <2>3, <1>3
  <2>4. CASE i # j + 1 /\ k # j + 1
    <3>1. old(i) = old(k) BY <2>1, <2>4, <1>3 DEF Row
    <3> QED BY <3>1, <2>4
  <2> QED BY <2>3, <2>4
<1> QED BY <1>1, <1>2, <1>3 DEF Row

\* An entry that the search has passed may stand before the new one, ...
LEMMA PassedInOrder ==
  ASSUME ConstantsAssumption, name \in [Nodes -> Names], NEW e \in Nodes, NEW q \in Nodes,
         ~Stops(e, q)
  PROVE  InOrder(name[q], name[e])
BY DEF ConstantsAssumption, Stops, InOrder, IsFolder, Less

\* ... and the new one before the entry where it stops.
LEMMA StopInOrder ==
  ASSUME ConstantsAssumption, name \in [Nodes -> Names], NEW e \in Nodes, NEW q \in Nodes,
         Stops(e, q)
  PROVE  InOrder(name[e], name[q])
BY DEF ConstantsAssumption, Stops, InOrder, IsFolder, Less

\* A chain is what the properties ask for.
LEMMA ChainSorted ==
  ASSUME ConstantsAssumption, IInv
  PROVE  SortedList
<1>1. CASE pc = "free" BY <1>1 DEF IInv, SortedList, WellLinked, Sorted
<1>2. CASE pc # "free"
  <2>1. PICK s \in [1 .. length -> Nodes] : Chain(s) BY <1>2 DEF IInv
  <2>2. length \in Nat /\ NULL \notin Nodes /\ Held \subseteq Nodes
    BY DEF IInv, TypeOK, ConstantsAssumption, Held
  <2>3. \A n \in Held : \E i \in 1 .. length : s[i] = n BY <2>1 DEF Chain, Row
  <2>4. \A i \in 1 .. length : s[i] \in Held /\ s[i] # NULL BY <2>1, <2>2 DEF Chain, Row
  <2>5. \A i, j \in 1 .. length : s[i] = s[j] => i = j BY <2>1 DEF Chain, Row
  <2>6. (head = NULL <=> Held = {}) /\ (tail = NULL <=> Held = {})
    <3>1. CASE length = 0 BY <3>1, <2>1, <2>3 DEF Chain
    <3>2. CASE length # 0
      <4>1. 1 \in 1 .. length /\ length \in 1 .. length BY <3>2, <2>2
      <4> QED BY <4>1, <3>2, <2>1, <2>4 DEF Chain
    <3> QED BY <3>1, <3>2
  <2>7. head # NULL => head \in Held /\ tail \in Held
    <3>1. ASSUME head # NULL PROVE 1 \in 1 .. length /\ length \in 1 .. length
      BY <3>1, <2>1, <2>2 DEF Chain
    <3> QED BY <3>1, <2>1, <2>4 DEF Chain
  <2>8. ASSUME NEW n \in Held
        PROVE  /\ next[n] \in Held \cup {NULL} /\ previous[n] \in Held \cup {NULL}
               /\ (next[n] = NULL <=> n = tail)
               /\ (previous[n] = NULL <=> n = head)
               /\ \A m \in Held : next[n] = m <=> previous[m] = n
               /\ next[n] # NULL => InOrder(name[n], name[next[n]])
    <3>1. PICK i \in 1 .. length : s[i] = n BY <2>3
    <3>2. next[n] = (IF i < length THEN s[i + 1] ELSE NULL) /\ i \in Nat /\ length > 0
      BY <3>1, <2>1, <2>2 DEF Chain
    <3>3. previous[n] = (IF i > 1 THEN s[i - 1] ELSE NULL) BY <3>1, <2>1, <2>2 DEF Chain
    <3>4. head = s[1] /\ tail = s[length] /\ 1 \in 1 .. length /\ length \in 1 .. length
      BY <3>2, <2>1, <2>2 DEF Chain
    <3>5. next[n] \in Held \cup {NULL} /\ (next[n] = NULL <=> n = tail)
      BY <3>1, <3>2, <3>4, <2>2, <2>4, <2>5
    <3>6. previous[n] \in Held \cup {NULL} /\ (previous[n] = NULL <=> n = head)
      BY <3>1, <3>3, <3>4, <2>2, <2>4, <2>5
    <3>7. ASSUME NEW m \in Held PROVE next[n] = m <=> previous[m] = n
      <4>1. PICK k \in 1 .. length : s[k] = m BY <2>3
      <4>2. previous[m] = (IF k > 1 THEN s[k - 1] ELSE NULL) BY <4>1, <2>1, <2>2 DEF Chain
      <4>3. next[n] = m <=> k = i + 1 BY <3>1, <3>2, <4>1, <2>2, <2>4, <2>5
      <4>4. previous[m] = n <=> k = i + 1 BY <3>1, <4>1, <4>2, <2>2, <2>4, <2>5
      <4> QED BY <4>3, <4>4
    <3>8. next[n] # NULL => InOrder(name[n], name[next[n]])
      BY <3>1, <3>2, <2>1, <2>2 DEF Chain
    <3> QED BY <3>5, <3>6, <3>7, <3>8
  <2>9. WellLinked BY <1>2, <2>6, <2>7, <2>8 DEF WellLinked
  <2>10. Sorted BY <2>8 DEF Sorted
  <2> QED BY <2>9, <2>10 DEF SortedList, IInv
<1> QED BY <1>1, <1>2

-------------------------------------------------------------------------------
(* The invariant holds in the initial states and is kept by every action.  *)

LEMMA InitInv ==
  ASSUME ConstantsAssumption, Init
  PROVE  IInv
<1>1. TypeOK
  <2>1. others \subseteq Nodes /\ blocks = {} /\ blocks \cap others = {} BY DEF Init
  <2>2. name \in [Nodes -> Names] BY DEF ConstantsAssumption, Init
  <2>3. next \in [Nodes -> Nodes \cup {NULL}] /\ previous \in [Nodes -> Nodes \cup {NULL}]
    BY DEF Init
  <2>4. {head, tail, new, p, prev} \subseteq Nodes \cup {NULL} BY DEF Init
  <2>5. {length, files, folders} \subseteq Nat BY DEF Init
  <2>6. /\ pc \in {"idle", "up", "read", "walk", "free", "fault"} /\ home \in BOOLEAN
        /\ todo \subseteq Names /\ seen \subseteq Names /\ blocks \subseteq Nodes
    BY DEF Init
  <2> QED BY <2>1, <2>2, <2>3, <2>4, <2>5, <2>6 DEF TypeOK
<1>2. length = 0 /\ 1 .. length = {} BY DEF Init
<1> DEFINE s == [i \in 1 .. length |-> NULL]
<1>3. s \in [1 .. length -> Nodes] BY <1>2
<1>4. Chain(s)
  <2>1. Held = {} BY DEF Init, Held
  <2>2. s \in [1 .. length -> Held] BY <1>2, <2>1
  <2> HIDE DEF s
  <2>3. Row(s, length, Held) BY <1>2, <2>1, <2>2 DEF Row
  <2>4. length - 1 < 1 BY <1>2
  <2> QED BY <1>2, <2>3, <2>4 DEF Chain, Init
<1> QED BY <1>1, <1>3, <1>4 DEF IInv, Init

\* An empty list has no head.
LEMMA HeadLength ==
  ASSUME ConstantsAssumption, TypeOK, NEW s \in [1 .. length -> Nodes], Chain(s)
  PROVE  head = NULL <=> length = 0
<1>1. length \in Nat BY DEF TypeOK
<1>2. ASSUME length # 0 PROVE head # NULL
  <2>1. 1 \in 1 .. length BY <1>1, <1>2
  <2> QED BY <1>2, <2>1 DEF ConstantsAssumption, Chain
<1> QED BY <1>2 DEF Chain

\* p2s_malloc returns a block that holds nothing else.
LEMMA BlockFresh ==
  ASSUME TypeOK, ~MemoryOut
  PROVE  Block \in Nodes \ (blocks \cup others)
<1>1. \E n : n \in Nodes \ (blocks \cup others) BY DEF TypeOK, MemoryOut
<1> QED BY <1>1 DEF Block

LEMMA InsertInv ==
  ASSUME ConstantsAssumption, IInv, pc \in {"up", "read"}, NEW n \in Names, Insert(n),
         home' = home, todo' \subseteq Names, seen' \subseteq Names, UNCHANGED others
  PROVE  IInv'
<1>1. PICK s \in [1 .. length -> Nodes] : Chain(s) BY DEF IInv
<1>2. PICK b : b = Block OBVIOUS
<1>3. b \in Nodes /\ b \notin blocks /\ b \notin others
  BY <1>2, BlockFresh DEF IInv, Insert
<1>4. /\ blocks' = blocks \cup {b} /\ name' = [name EXCEPT ![b] = n]
      /\ next' = [next EXCEPT ![b] = NULL] /\ previous' = [previous EXCEPT ![b] = NULL]
  BY <1>2 DEF Insert
<1>5. Held = blocks /\ TypeOK BY DEF Held, IInv
<1>6. CASE head = NULL
  <2>1. length = 0 BY <1>1, <1>5, <1>6, HeadLength
  <2>2. blocks = {} BY <1>1, <1>5, <2>1 DEF Chain, Row
  <2>3. head' = b /\ tail' = b /\ length' = 1 /\ pc' = "read" /\ UNCHANGED cursor
    BY <1>2, <1>6, <2>1 DEF Insert
  <2>4. files' \in Nat /\ folders' \in Nat BY <1>5 DEF Insert, TypeOK
  <2>5. TypeOK'
    BY <1>3, <1>4, <1>5, <2>3, <2>4 DEF TypeOK, cursor
  <2>6. PICK t : t = [i \in 1 .. 1 |-> b] OBVIOUS
  <2>7. Held' = {b} BY <1>4, <2>2, <2>3 DEF Held
  <2>8. t \in [1 .. length' -> Nodes] BY <1>3, <2>3, <2>6
  <2>9. next'[b] = NULL /\ previous'[b] = NULL BY <1>3, <1>4, <1>5 DEF TypeOK
  <2>10. Chain(t)' BY <2>3, <2>6, <2>7, <2>9 DEF Chain, Row
  <2> QED BY <2>3, <2>5, <2>8, <2>10 DEF IInv
<1>7. CASE head # NULL
  <2>1. new' = b /\ p' = head /\ prev' = NULL /\ pc' = "walk"
        /\ head' = head /\ tail' = tail /\ length' = length
    BY <1>2, <1>7 DEF Insert
  <2>2. files' \in Nat /\ folders' \in Nat BY <1>5 DEF Insert, TypeOK
  <2>3. TypeOK' BY <1>3, <1>4, <1>5, <2>1, <2>2 DEF TypeOK
  <2>4. Held' = Held BY <1>3, <1>4, <1>5, <2>1 DEF Held
  <2>5. \A i \in 1 .. length : s[i] \in blocks BY <1>1, <1>5 DEF Chain, Row
  <2>6. \A i \in 1 .. length : /\ next'[s[i]] = next[s[i]] /\ previous'[s[i]] = previous[s[i]]
                               /\ name'[s[i]] = name[s[i]]
    BY <1>3, <1>4, <1>5, <2>5 DEF TypeOK
  <2>7. Chain(s)'
    <3>1. \A i \in 1 .. length - 1 : i \in 1 .. length /\ i + 1 \in 1 .. length
      BY <1>5 DEF TypeOK
    <3>2. \A i \in 1 .. length - 1 : InOrder(name'[s[i]], name'[s[i + 1]])
      BY <1>1, <2>6, <3>1 DEF Chain
    <3> QED BY <1>1, <2>1, <2>4, <2>6, <3>2 DEF Chain
  <2>8. Searching' BY <1>3, <1>4, <1>5, <1>7, <2>1 DEF Searching, TypeOK
  <2> QED BY <1>1, <2>1, <2>3, <2>7, <2>8 DEF IInv
<1> QED BY <1>6, <1>7

LEMMA WalkInv ==
  ASSUME ConstantsAssumption, IInv, Walk, UNCHANGED others
  PROVE  IInv'
<1>1. PICK s \in [1 .. length -> Nodes] : Chain(s) BY DEF IInv, Walk
<1>2. \A n \in Held : next[n] \in Nodes \cup {NULL} /\ n \in Nodes
  BY DEF IInv, TypeOK, Held
<1>3. p \in Held
  <2>1. CASE prev = NULL
    <3>1. p = head /\ head # NULL
      BY <2>1 DEF IInv, Searching, Walk, ConstantsAssumption, Held, TypeOK
    <3>2. length # 0 BY <3>1, <1>1, HeadLength DEF IInv
    <3>3. 1 \in 1 .. length /\ head = s[1] BY <3>2, <1>1 DEF Chain, IInv, TypeOK
    <3> QED BY <3>1, <3>3, <1>1 DEF Chain, Row
  <2>2. CASE prev # NULL
    <3>1. prev \in Held /\ p = next[prev] /\ p # NULL BY <2>2 DEF IInv, Searching, Walk
    <3>2. WellLinked BY ChainSorted DEF SortedList
    <3> QED BY <3>1, <3>2 DEF WellLinked, Walk
  <2> QED BY <2>1, <2>2
<1>4. new \in Nodes /\ p \in Nodes /\ new \notin Held
  BY <1>2, <1>3 DEF IInv, Searching, Walk, TypeOK, Held
<1>5. InOrder(name[p], name[new]) BY <1>4, PassedInOrder DEF Walk, IInv, TypeOK
<1>6. TypeOK' BY <1>4 DEF IInv, TypeOK, Walk, fields, list
<1>7. Held' = Held BY DEF Held, Walk
<1>8. Searching' BY <1>3, <1>5, <1>7 DEF IInv, Searching, Walk, fields, list
<1>9. Chain(s)' BY <1>1, <1>7 DEF Chain, Walk, fields, list
<1> QED BY <1>1, <1>6, <1>8, <1>9 DEF IInv, Walk, list

\* Linking the new entry behind the first j entries of the chain gives a chain.
LEMMA Splice ==
  ASSUME ConstantsAssumption, TypeOK, NEW s \in [1 .. length -> Nodes], Chain(s),
         pc = "walk", new \in blocks, pc' = "read", blocks' = blocks, name' = name,
         length' = length + 1, NEW j \in 0 .. length,
         \A x \in Nodes :
           next'[x] = IF j > 0 /\ x = s[j] THEN new
                      ELSE IF x = new THEN (IF j < length THEN s[j + 1] ELSE NULL)
                      ELSE next[x],
         \A x \in Nodes :
           previous'[x] = IF j < length /\ x = s[j + 1] THEN new
                          ELSE IF x = new THEN (IF j > 0 THEN s[j] ELSE NULL)
                          ELSE previous[x],
         head' = IF j = 0 THEN new ELSE head,
         tail' = IF j = length THEN new ELSE tail,
         j > 0 => InOrder(name[s[j]], name[new]),
         j < length => InOrder(name[new], name[s[j + 1]])
  PROVE  \E t \in [1 .. length' -> Nodes] : Chain(t)'
<1>1. PICK t : t = InsertedAt(s, length, j, new) OBVIOUS
<1>2. length \in Nat /\ j \in Nat /\ j <= length /\ length + 1 \in Nat BY DEF TypeOK
<1>3. Held = blocks \ {new} /\ Held' = Held \cup {new} /\ new \in Nodes BY DEF Held, TypeOK
<1>4. Row(s, length, Held) /\ Row(t, length + 1, Held')
  BY <1>1, <1>2, <1>3, RowInsert DEF Chain
<1>5. t \in [1 .. length' -> Nodes]
  BY <1>3, <1>4 DEF Row, Held, TypeOK
<1>6. \A i \in 1 .. length : s[i] \in Nodes /\ s[i] # new BY <1>3, <1>4 DEF Row
<1>7. \A i, k \in 1 .. length : s[i] = s[k] => i = k BY <1>4 DEF Row
<1>8. \A i \in 1 .. length + 1 :
        /\ i <= j => i \in 1 .. length /\ t[i] = s[i]
        /\ i = j + 1 => t[i] = new
        /\ i > j + 1 => i - 1 \in 1 .. length /\ t[i] = s[i - 1]
  BY <1>1, <1>2 DEF InsertedAt
<1>9. head' = t[1] /\ tail' = t[length + 1]
  <2>1. 1 \in 1 .. length + 1 /\ length + 1 \in 1 .. length + 1 BY <1>2
  <2>2. head' = t[1]
    <3>1. CASE j = 0 BY <3>1, <2>1, <1>8
    <3>2. CASE j # 0 BY <3>2, <2>1, <1>2, <1>8 DEF Chain
    <3> QED BY <3>1, <3>2
  <2>3. tail' = t[length + 1]
    <3>1. CASE j = length BY <3>1, <2>1, <1>8
    <3>2. CASE j # length
      <4>1. length + 1 > j + 1 /\ length # 0 BY <3>2, <1>2
      <4>2. t[length + 1] = s[length] BY <4>1, <2>1, <1>2, <1>8
      <4> QED BY <3>2, <4>1, <4>2 DEF Chain
    <3> QED BY <3>1, <3>2
  <2> QED BY <2>2, <2>3
<1>10. ASSUME NEW i \in 1 .. length + 1
       PROVE  /\ next'[t[i]] = (IF i < length + 1 THEN t[i + 1] ELSE NULL)
              /\ previous'[t[i]] = (IF i > 1 THEN t[i - 1] ELSE NULL)
              /\ i < length + 1 => InOrder(name[t[i]], name[t[i + 1]])
  <2>1. \A k \in 1 .. length :
          /\ next[s[k]] = (IF k < length THEN s[k + 1] ELSE NULL)
          /\ previous[s[k]] = (IF k > 1 THEN s[k - 1] ELSE NULL)
          /\ k < length => InOrder(name[s[k]], name[s[k + 1]])
    BY <1>2 DEF Chain
  <2>2. i < length + 1 => i + 1 \in 1 .. length + 1 BY <1>2
  <2>3. i > 1 => i - 1 \in 1 .. length + 1 BY <1>2
  <2>4. CASE i < j
    <3>1. /\ i \in 1 .. length /\ t[i] = s[i] /\ t[i + 1] = s[i + 1] /\ i < length
          /\ i + 1 \in 1 .. length /\ (i > 1 => t[i - 1] = s[i - 1])
      BY <2>2, <2>3, <2>4, <1>2, <1>8
    <3>2. s[i] # s[j] /\ (j < length => s[i] # s[j + 1]) BY <2>4, <3>1, <1>2, <1>7
    <3>3. next'[t[i]] = next[s[i]] /\ previous'[t[i]] = previous[s[i]] BY <3>1, <3>2, <1>6
    <3> QED BY <2>1, <3>1, <3>3, <1>2
  <2>5. CASE i = j
    <3>1. i \in 1 .. length /\ t[i] = s[i] /\ t[i + 1] = new /\ (i > 1 => t[i - 1] = s[i - 1])
      BY <2>2, <2>3, <2>5, <1>2, <1>8
    <3>2. j < length => s[i] # s[j + 1] BY <2>5, <3>1, <1>2, <1>7
    <3>3. next'[t[i]] = new /\ previous'[t[i]] = previous[s[i]]
      BY <2>5, <3>1, <3>2, <1>2, <1>6
    <3> QED BY <2>1, <2>5, <3>1, <3>3, <1>2
  <2>6. CASE i = j + 1
    <3>1. t[i] = new /\ (i < length + 1 => t[i + 1] = s[j + 1] /\ j + 1 \in 1 .. length)
          /\ (i > 1 => t[i - 1] = s[j] /\ j \in 1 .. length)
      BY <2>2, <2>3, <2>6, <1>2, <1>8
    <3>2. next'[new] = (IF j < length THEN s[j + 1] ELSE NULL)
      BY <1>2, <1>3, <1>6
    <3>3. previous'[new] = (IF j > 0 THEN s[j] ELSE NULL)
      BY <1>2, <1>3, <1>6
    <3> QED BY <2>6, <3>1, <3>2, <3>3, <1>2
  <2>7. CASE i > j + 1
    <3> DEFINE k == i - 1
    <3>1. /\ k \in 1 .. length /\ t[i] = s[k] /\ k > j
          /\ (i < length + 1 => t[i + 1] = s[k + 1] /\ k + 1 \in 1 .. length)
      BY <2>2, <2>7, <1>2, <1>8
    <3>2. t[i - 1] = IF k = j + 1 THEN new ELSE s[k - 1]
      BY <2>3, <2>7, <1>2, <1>8
    <3>3. j > 0 => s[k] # s[j] BY <3>1, <1>2, <1>7
    <3>4. next'[t[i]] = next[s[k]] BY <3>1, <3>3, <1>6
    <3>5. j < length /\ (s[k] = s[j + 1] <=> k = j + 1) BY <3>1, <1>2, <1>7
    <3>6. previous'[t[i]] = IF k = j + 1 THEN new ELSE previous[s[k]]
      BY <3>1, <3>5, <1>6
    <3> QED BY <2>1, <2>7, <3>1, <3>2, <3>4, <3>6, <1>2
  <2> QED BY <2>4, <2>5, <2>6, <2>7, <1>2
<1>11. Chain(t)'
  <2>1. length' # 0 /\ head' = t[1] /\ tail' = t[length'] BY <1>2, <1>9
  <2>2. \A i \in 1 .. length' - 1 : InOrder(name'[t[i]], name'[t[i + 1]])
    BY <1>2, <1>10
  <2> QED BY <2>1, <2>2, <1>4, <1>10 DEF Chain
<1> QED BY <1>5, <1>11

\* Where the search ends is between two neighbours of the chain, or at one of its ends.
LEMMA Place ==
  ASSUME ConstantsAssumption, IInv, Found, NEW s \in [1 .. length -> Nodes], Chain(s)
  PROVE  /\ length > 0 /\ head = s[1] /\ tail = s[length]
         /\ \A i \in 1 .. length : s[i] \in Held /\ s[i] # new /\ s[i] # NULL
         /\ \A i, k \in 1 .. length : s[i] = s[k] => i = k
         /\ \/ prev = NULL /\ p = s[1] /\ InOrder(name[new], name[s[1]])
            \/ \E j \in 1 .. length :
                 /\ prev = s[j] /\ InOrder(name[s[j]], name[new])
                 /\ next[prev] = NULL <=> j = length
                 /\ j < length => p = s[j + 1] /\ InOrder(name[new], name[s[j + 1]])
<1>1. TypeOK /\ Searching /\ length \in Nat BY DEF IInv, Found, TypeOK
<1>2. length > 0 BY <1>1, HeadLength DEF Searching
<1>3. head = s[1] /\ tail = s[length] /\ 1 \in 1 .. length BY <1>1, <1>2 DEF Chain
<1>4. \A i \in 1 .. length : s[i] \in Held /\ s[i] # new /\ s[i] # NULL
  BY DEF Chain, Row, Held, Found, ConstantsAssumption
<1>5. \A i, k \in 1 .. length : s[i] = s[k] => i = k BY DEF Chain, Row
<1>6. p # NULL => InOrder(name[new], name[p])
  BY <1>1, StopInOrder DEF TypeOK, Searching, Found
<1>7. CASE prev = NULL
  <2>1. NULL \notin Held BY <1>1 DEF Held, TypeOK, ConstantsAssumption
  <2>2. p = s[1] BY <1>1, <1>3, <1>7, <2>1 DEF Searching
  <2> QED BY <1>2, <1>3, <1>4, <1>5, <1>6, <1>7, <2>2
<1>8. CASE prev # NULL
  <2>1. prev \in Held /\ p = next[prev] /\ InOrder(name[prev], name[new])
    BY <1>1, <1>8 DEF Searching
  <2>2. PICK j \in 1 .. length : s[j] = prev BY <2>1 DEF Chain, Row
  <2>3. next[prev] = (IF j < length THEN s[j + 1] ELSE NULL) /\ j \in Nat /\ j <= length
    BY <1>1, <2>2 DEF Chain
  <2>4. j < length => j + 1 \in 1 .. length /\ p = s[j + 1] /\ p # NULL
    BY <1>1, <1>4, <2>1, <2>3
  <2> QED BY <1>2, <1>3, <1>4, <1>5, <1>6, <1>1, <2>1, <2>2, <2>3, <2>4
<1> QED BY <1>7, <1>8

LEMMA LinkInv ==
  ASSUME ConstantsAssumption, IInv, LinkFirst \/ LinkLast \/ LinkBetween, UNCHANGED others
  PROVE  IInv'
<1>1. PICK s \in [1 .. length -> Nodes] : Chain(s)
  BY DEF IInv, LinkFirst, LinkLast, LinkBetween, Found
<1>2. Found /\ Linked BY DEF LinkFirst, LinkLast, LinkBetween
<1>3. TypeOK /\ Searching /\ pc = "walk" /\ new \in blocks /\ new \in Nodes
  BY <1>2 DEF IInv, Found, Searching, TypeOK
<1>4. /\ length' = length + 1 /\ pc' = "read" /\ new' = NULL /\ p' = NULL /\ prev' = NULL
      /\ UNCHANGED <<home, todo, seen, blocks, name, files, folders>>
  BY <1>2 DEF Linked
<1>5. length \in Nat /\ length + 1 \in Nat BY <1>3 DEF TypeOK
<1>6. next[new] = NULL /\ previous[new] = NULL BY <1>3 DEF Searching
<1>7. \A i \in 1 .. length : s[i] \in Nodes OBVIOUS
<1>8. /\ length > 0 /\ head = s[1] /\ tail = s[length]
      /\ \A i \in 1 .. length : s[i] \in Held /\ s[i] # new /\ s[i] # NULL
      /\ \A i, k \in 1 .. length : s[i] = s[k] => i = k
  BY <1>1, <1>2, Place
<1>9. /\ next \in [Nodes -> Nodes \cup {NULL}] /\ previous \in [Nodes -> Nodes \cup {NULL}]
  BY <1>3 DEF TypeOK
<1>10. CASE LinkFirst
  <2>1. p = s[1] /\ InOrder(name[new], name[s[1]])
    BY <1>1, <1>2, <1>8, <1>10, Place DEF LinkFirst
  <2>2. 0 \in 0 .. length /\ 1 \in 1 .. length /\ 0 # length BY <1>5, <1>8
  <2>3. next' = [next EXCEPT ![new] = s[1]] /\ previous' = [previous EXCEPT ![s[1]] = new]
        /\ head' = new /\ tail' = tail
    BY <1>10, <2>1 DEF LinkFirst
  <2>4. \A x \in Nodes : next'[x] = IF x = new THEN s[1] ELSE next[x]
    BY <1>9, <2>3
  <2>5. \A x \in Nodes : previous'[x] = IF x = s[1] THEN new
                                        ELSE IF x = new THEN NULL ELSE previous[x]
    BY <1>6, <1>9, <2>3
  <2>6. \E t \in [1 .. length' -> Nodes] : Chain(t)'
    <3> DEFINE j == 0
    <3>1. j \in 0 .. length /\ ~(j > 0) /\ j < length /\ s[j + 1] = s[1] BY <1>8, <2>2
    <3>2. \A x \in Nodes :
            next'[x] = IF j > 0 /\ x = s[j] THEN new
                       ELSE IF x = new THEN (IF j < length THEN s[j + 1] ELSE NULL)
                       ELSE next[x]
      BY <2>4, <3>1
    <3>3. \A x \in Nodes :
            previous'[x] = IF j < length /\ x = s[j + 1] THEN new
                           ELSE IF x = new THEN (IF j > 0 THEN s[j] ELSE NULL)
                           ELSE previous[x]
      BY <2>5, <3>1
    <3>4. head' = (IF j = 0 THEN new ELSE head) /\ tail' = (IF j = length THEN new ELSE tail)
      BY <2>2, <2>3
    <3>5. (j > 0 => InOrder(name[s[j]], name[new]))
          /\ (j < length => InOrder(name[new], name[s[j + 1]]))
      BY <2>1, <3>1
    <3> HIDE DEF j
    <3> QED BY <1>1, <1>3, <1>4, <3>1, <3>2, <3>3, <3>4, <3>5, Splice
  <2>7. /\ next' \in [Nodes -> Nodes \cup {NULL}]
        /\ previous' \in [Nodes -> Nodes \cup {NULL}]
    BY <1>3, <1>7, <1>9, <2>2, <2>3
  <2>8. TypeOK' BY <1>3, <1>4, <1>5, <2>3, <2>7 DEF TypeOK
  <2> QED BY <1>4, <2>6, <2>8 DEF IInv
<1>11. CASE LinkLast \/ LinkBetween
  <2>1. PICK j \in 1 .. length :
          /\ prev = s[j] /\ InOrder(name[s[j]], name[new])
          /\ next[prev] = NULL <=> j = length
          /\ j < length => p = s[j + 1] /\ InOrder(name[new], name[s[j + 1]])
    BY <1>1, <1>2, <1>11, Place DEF LinkLast, LinkBetween
  <2>2. j \in 0 .. length /\ j > 0 /\ j # 0 /\ (j < length <=> j # length)
    BY <1>5
  <2>3. head' = (IF j = 0 THEN new ELSE head) /\ tail' = (IF j = length THEN new ELSE tail)
    BY <1>11, <2>1, <2>2 DEF LinkLast, LinkBetween
  <2>4. next' = (IF j = length THEN [next EXCEPT ![s[j]] = new]
                               ELSE [next EXCEPT ![s[j]] = new, ![new] = s[j + 1]])
        /\ previous' = (IF j = length THEN [previous EXCEPT ![new] = s[j]]
                        ELSE [previous EXCEPT ![new] = s[j], ![s[j + 1]] = new])
    BY <1>8, <1>11, <2>1, <2>2 DEF LinkLast, LinkBetween
  <2>5. s[j] \in Nodes /\ s[j] # new /\ (j < length => s[j + 1] \in Nodes /\ s[j + 1] # new)
    <3>1. j < length => j + 1 \in 1 .. length BY <1>5
    <3> QED BY <1>7, <1>8, <3>1
  <2>6. \A x \in Nodes :
          next'[x] = IF j > 0 /\ x = s[j] THEN new
                     ELSE IF x = new THEN (IF j < length THEN s[j + 1] ELSE NULL)
                     ELSE next[x]
    BY <1>6, <1>9, <2>2, <2>4, <2>5
  <2>7. \A x \in Nodes :
          previous'[x] = IF j < length /\ x = s[j + 1] THEN new
                         ELSE IF x = new THEN (IF j > 0 THEN s[j] ELSE NULL)
                         ELSE previous[x]
    BY <1>6, <1>9, <2>2, <2>4, <2>5
  <2>8. \E t \in [1 .. length' -> Nodes] : Chain(t)'
    BY <1>1, <1>3, <1>4, <2>1, <2>2, <2>3, <2>6, <2>7, Splice
  <2>9. /\ next' \in [Nodes -> Nodes \cup {NULL}]
        /\ previous' \in [Nodes -> Nodes \cup {NULL}]
    BY <1>3, <1>9, <2>2, <2>4, <2>5
  <2>10. TypeOK' BY <1>3, <1>4, <1>5, <2>3, <2>9 DEF TypeOK
  <2> QED BY <1>4, <2>8, <2>10 DEF IInv
<1> QED BY <1>10, <1>11

\* The calls of s_fileListGetEntries begin on an empty list, and end with the list as it is.
LEMMA CallInv ==
  ASSUME ConstantsAssumption, IInv, UNCHANGED others,
         GetMountPointEntries \/ GetDirectoryEntries \/ ReadEnd
  PROVE  IInv'
<1>1. UNCHANGED <<blocks, fields, list, cursor>> /\ pc' \in {"read", "up", "idle"}
  BY DEF GetMountPointEntries, GetDirectoryEntries, ReadEnd
<1>2. pc' = "up" => head = NULL BY DEF GetMountPointEntries, GetDirectoryEntries, ReadEnd
<1>3. home' \in BOOLEAN /\ todo' \subseteq Names /\ seen' \subseteq Names
  BY DEF GetMountPointEntries, GetDirectoryEntries, ReadEnd, IInv, TypeOK, ConstantsAssumption
<1>4. TypeOK' BY <1>1, <1>3 DEF IInv, TypeOK, fields, list, cursor
<1>5. pc \in {"idle", "read"} BY DEF GetMountPointEntries, GetDirectoryEntries, ReadEnd
<1>6. PICK s \in [1 .. length -> Nodes] : Chain(s) BY <1>5 DEF IInv
<1>7. Held' = Held BY <1>1, <1>5 DEF Held
<1>8. Chain(s)' BY <1>1, <1>6, <1>7 DEF Chain, fields, list
<1> QED BY <1>1, <1>2, <1>4, <1>6, <1>8 DEF IInv, fields, list

\* Writing through a failed p2s_malloc changes nothing of the list.
LEMMA FaultInv ==
  ASSUME ConstantsAssumption, IInv, pc \in {"up", "read"}, InsertFault, UNCHANGED others,
         home' = home, todo' \subseteq Names, seen' \subseteq Names
  PROVE  IInv'
<1>1. TypeOK' BY DEF IInv, TypeOK, InsertFault, fields, list, cursor
<1>2. PICK s \in [1 .. length -> Nodes] : Chain(s) BY DEF IInv
<1>3. Held' = Held BY DEF Held, InsertFault
<1>4. Chain(s)' BY <1>2, <1>3 DEF Chain, InsertFault, fields, list
<1> QED BY <1>1, <1>2, <1>4 DEF IInv, InsertFault, list

\* s_fileListEmpty has the whole chain before it.
LEMMA EmptyInv ==
  ASSUME ConstantsAssumption, IInv, Empty, UNCHANGED others
  PROVE  IInv'
<1>1. PICK s \in [1 .. length -> Nodes] : Chain(s) BY DEF IInv, Empty
<1>2. TypeOK' BY DEF IInv, TypeOK, Empty, fields, list
<1>3. length \in Nat /\ Held = blocks BY DEF IInv, TypeOK, Held, Empty
<1>4. PICK n \in Nat : n = length BY <1>3
<1>5. Rest(s, n)' BY <1>1, <1>3, <1>4 DEF Chain, Rest, Row, Empty, fields, list
<1>6. s \in [1 .. n -> Nodes] /\ pc' = "free" BY <1>4 DEF Empty
<1> QED BY <1>2, <1>5, <1>6 DEF IInv

\* A release takes the first of the nodes that are left.
LEMMA FreeInv ==
  ASSUME ConstantsAssumption, IInv, Free, UNCHANGED others
  PROVE  IInv'
<1> PICK n \in Nat : \E s \in [1 .. n -> Nodes] : Rest(s, n) BY DEF IInv, Free
<1>1. PICK s \in [1 .. n -> Nodes] : Rest(s, n) OBVIOUS
<1>2. TypeOK /\ p # NULL /\ pc = "free" /\ pc' = "free" BY DEF IInv, Free, Release
<1>3. n # 0 /\ p = s[1] /\ n - 1 \in Nat /\ 1 \in 1 .. n BY <1>1, <1>2 DEF Rest
<1>4. p \in blocks /\ p \in Nodes BY <1>1, <1>3 DEF Rest, Row
<1>5. p' \in Nodes \cup {NULL} BY <1>2, <1>4 DEF TypeOK, Free
<1>6. TypeOK'
  <2>1. blocks' \subseteq Nodes /\ blocks' \cap others = {} BY <1>2 DEF TypeOK, Free, Release
  <2>2. name' \in [Nodes -> Names] BY <1>2 DEF TypeOK, Free, Release, ConstantsAssumption
  <2>3. next' \in [Nodes -> Nodes \cup {NULL}] /\ previous' \in [Nodes -> Nodes \cup {NULL}]
    BY <1>2 DEF TypeOK, Free, Release
  <2> QED BY <1>2, <1>5, <2>1, <2>2, <2>3 DEF TypeOK, Free, Release, list
<1>7. PICK t : t = [i \in 1 .. n - 1 |-> s[i + 1]] OBVIOUS
<1>8. \A i \in 1 .. n - 1 : i + 1 \in 1 .. n /\ i + 1 # 1 /\ t[i] = s[i + 1] BY <1>3, <1>7
<1>9. \A i, k \in 1 .. n : s[i] = s[k] => i = k BY <1>1 DEF Rest, Row
<1>10. \A i \in 1 .. n - 1 : t[i] \in blocks \ {p}
  <2>1. \A i \in 1 .. n - 1 : s[i + 1] \in blocks BY <1>1, <1>8 DEF Rest, Row
  <2>2. \A i \in 1 .. n - 1 : s[i + 1] # s[1] BY <1>3, <1>8, <1>9
  <2> QED BY <1>3, <1>8, <2>1, <2>2
<1>11. Row(t, n - 1, blocks \ {p})
  <2>1. t \in [1 .. n - 1 -> blocks \ {p}] BY <1>7, <1>10
  <2>2. ASSUME NEW x \in blocks \ {p} PROVE \E i \in 1 .. n - 1 : t[i] = x
    <3>1. PICK i \in 1 .. n : s[i] = x BY <1>1 DEF Rest, Row
    <3>2. i # 1 BY <1>3, <3>1
    <3>3. i - 1 \in 1 .. n - 1 /\ (i - 1) + 1 = i BY <1>3, <3>2
    <3> QED BY <1>8, <3>1, <3>3
  <2>3. ASSUME NEW i \in 1 .. n - 1, NEW k \in 1 .. n - 1, t[i] = t[k] PROVE i = k
    BY <1>8, <1>9, <2>3
  <2> QED BY <2>1, <2>2, <2>3 DEF Row
<1>12. p' = (IF n - 1 = 0 THEN NULL ELSE t[1])
  <2>1. p' = (IF 1 < n THEN s[2] ELSE NULL) BY <1>1, <1>3 DEF Rest, Free
  <2>2. CASE n = 1 BY <2>1, <2>2
  <2>3. CASE n # 1
    <3>1. 1 \in 1 .. n - 1 BY <1>3, <2>3
    <3> QED BY <2>1, <2>3, <3>1, <1>3, <1>8
  <2> QED BY <2>2, <2>3
<1>13. ASSUME NEW i \in 1 .. n - 1
       PROVE  next'[t[i]] = (IF i < n - 1 THEN t[i + 1] ELSE NULL)
  <2>1. next'[t[i]] = next[s[i + 1]] BY <1>2, <1>8, <1>10 DEF Free, Release, TypeOK
  <2>2. next[s[i + 1]] = (IF i + 1 < n THEN s[i + 2] ELSE NULL)
    BY <1>1, <1>8 DEF Rest
  <2>3. i < n - 1 => i + 1 \in 1 .. n - 1 /\ t[i + 1] = s[i + 2] BY <1>3, <1>8
  <2> QED BY <1>3, <2>1, <2>2, <2>3
<1>14. Rest(t, n - 1)'
  <2>1. blocks' = blocks \ {p} BY DEF Free, Release
  <2> QED BY <1>11, <1>12, <1>13, <2>1 DEF Rest
<1>15. t \in [1 .. n - 1 -> Nodes] BY <1>2, <1>7, <1>10 DEF TypeOK
<1> QED BY <1>2, <1>3, <1>6, <1>14, <1>15 DEF IInv

LEMMA EmptiedInv ==
  ASSUME ConstantsAssumption, IInv, Emptied, UNCHANGED others
  PROVE  IInv'
<1> PICK n \in Nat : \E s \in [1 .. n -> Nodes] : Rest(s, n) BY DEF IInv, Emptied
<1>1. PICK s \in [1 .. n -> Nodes] : Rest(s, n) OBVIOUS
<1>2. n = 0
  <2>1. ASSUME n # 0 PROVE FALSE
    <3>1. 1 \in 1 .. n BY <2>1
    <3> QED BY <1>1, <2>1, <3>1 DEF Rest, Emptied, ConstantsAssumption
  <2> QED BY <2>1
<1>3. blocks = {} /\ s \in [1 .. 0 -> blocks] BY <1>1, <1>2 DEF Rest, Row
<1>4. TypeOK' BY DEF IInv, TypeOK, Emptied, fields, cursor, ConstantsAssumption
<1>5. /\ length' = 0 /\ head' = NULL /\ tail' = NULL /\ pc' = "idle" /\ blocks' = blocks
      /\ Held' = {}
  BY <1>3 DEF Emptied, Held
<1>6. Row(s, 0, {}) BY <1>3 DEF Row
<1>7. Chain(s)' BY <1>5, <1>6 DEF Chain
<1> QED BY <1>3, <1>4, <1>5, <1>7, <1>1, <1>2 DEF IInv

LEMMA NextInv ==
  ASSUME ConstantsAssumption, IInv, [Next]_vars
  PROVE  IInv'
<1>1. CASE GetMountPointEntries /\ UNCHANGED others BY <1>1, CallInv
<1>2. CASE GetDirectoryEntries /\ UNCHANGED others BY <1>2, CallInv
<1>3. CASE Empty /\ UNCHANGED others BY <1>3, EmptyInv
<1>4. CASE AddUp /\ UNCHANGED others
  <2>1. home' = home /\ todo' \subseteq Names /\ seen' \subseteq Names /\ DIR_UP \in Names
    BY <1>4 DEF AddUp, IInv, TypeOK, ConstantsAssumption
  <2> QED BY <1>4, <2>1, InsertInv, FaultInv DEF AddUp
<1>5. CASE Read /\ UNCHANGED others
  <2>1. PICK n \in todo : (Insert(n) \/ InsertFault) /\ todo' = todo \ {n} /\ seen' = seen \cup {n}
    BY <1>5 DEF Read
  <2>2. /\ pc = "read" /\ home' = home /\ todo' \subseteq Names /\ seen' \subseteq Names
        /\ n \in Names
    BY <1>5, <2>1 DEF Read, IInv, TypeOK
  <2> QED BY <1>5, <2>1, <2>2, InsertInv, FaultInv
<1>6. CASE ReadEnd /\ UNCHANGED others BY <1>6, CallInv
<1>7. CASE Walk /\ UNCHANGED others BY <1>7, WalkInv
<1>8. CASE (LinkFirst \/ LinkLast \/ LinkBetween) /\ UNCHANGED others BY <1>8, LinkInv
<1>9. CASE Free /\ UNCHANGED others BY <1>9, FreeInv
<1>10. CASE Emptied /\ UNCHANGED others BY <1>10, EmptiedInv
<1>11. CASE UNCHANGED vars
  <2>1. TypeOK' BY <1>11 DEF IInv, TypeOK, vars, fields, list, cursor
  <2>2. Held' = Held BY <1>11 DEF Held, vars, cursor
  <2>3. Searching' = Searching BY <1>11, <2>2 DEF Searching, vars, fields, list, cursor
  <2>4. ASSUME NEW s PROVE Chain(s)' = Chain(s)
    BY <1>11, <2>2 DEF Chain, vars, fields, list
  <2>5. ASSUME NEW s, NEW n PROVE Rest(s, n)' = Rest(s, n)
    BY <1>11 DEF Rest, vars, fields, cursor
  <2>6. UNCHANGED <<pc, length, head>> BY <1>11 DEF vars, list
  <2> QED BY <2>1, <2>3, <2>4, <2>5, <2>6 DEF IInv
<1> QED BY <1>1, <1>2, <1>3, <1>4, <1>5, <1>6, <1>7, <1>8, <1>9, <1>10, <1>11 DEF Next, Step

\* The list of s_fileListAddEntry and s_fileListEmpty is linked both ways from head to tail
\* and sorted, folders first and ".." before them, after any sequence of insertions and
\* releases, for any number of names and blocks.
THEOREM ListSorted == Spec => []SortedList
<1>1. Init => IInv BY InitInv, ConstantsAssumption
<1>2. IInv /\ [Next]_vars => IInv' BY NextInv, ConstantsAssumption
<1>3. IInv => SortedList BY ChainSorted, ConstantsAssumption
<1> QED BY <1>1, <1>2, <1>3, PTL DEF Spec

-------------------------------------------------------------------------------
(* The list is complete.                                                   *)

\* A set of numbers that is not empty has a least one: what induction over the list needs.
LEMMA Least ==
  ASSUME NEW S \in SUBSET Nat, S # {}
  PROVE  \E n \in S : \A m \in S : n <= m
<1>1. PICK R : R = {ss \in Nat \X Nat : ss[1] < ss[2]} OBVIOUS
<1>2. IsWellFoundedOn(R, Nat) BY <1>1, NatLessThanWellFounded DEF OpToRel
<1>3. PICK n \in S : \A m \in S : <<m, n>> \notin R BY <1>2, WFMin
<1>4. ASSUME NEW m \in S PROVE n <= m
  <2>1. m \in Nat /\ n \in Nat OBVIOUS
  <2>2. ~(m < n)
    <3>1. ASSUME m < n PROVE <<m, n>> \in {ss \in Nat \X Nat : ss[1] < ss[2]} BY <2>1, <3>1
    <3> QED BY <1>1, <1>3, <3>1
  <2> QED BY <2>1, <2>2
<1> QED BY <1>4

\* What cmd_ls meets when it follows next from head.
Met(h, n, nx) ==
  CHOOSE met : met = [k \in 0 .. n |-> IF k <= 1 THEN h
                                       ELSE IF met[k - 1] = NULL THEN NULL ELSE nx[met[k - 1]]]

\* It meets the nodes of the row in their order.
LEMMA RowMet ==
  ASSUME NEW n \in Nat, NEW s, NEW h, NEW nx, n > 0 => h = s[1],
         \A i \in 1 .. n : s[i] # NULL, \A i \in 1 .. n - 1 : nx[s[i]] = s[i + 1]
  PROVE  \A k \in 1 .. n : Met(h, n, nx)[k] = s[k]
<1> DEFINE met == Met(h, n, nx)
           want == [k \in 0 .. n |-> IF k <= 1 THEN h ELSE s[k]]
<1>1. met = [k \in 0 .. n |-> IF k <= 1 THEN h
                              ELSE IF met[k - 1] = NULL THEN NULL ELSE nx[met[k - 1]]]
  <2>1. ASSUME NEW k \in 0 .. n, ~(k <= 1)
        PROVE  s[k] = IF want[k - 1] = NULL THEN NULL ELSE nx[want[k - 1]]
    <3>1. k - 1 \in 1 .. n - 1 /\ k - 1 \in 1 .. n /\ k - 1 \in 0 .. n /\ (k - 1) + 1 = k
      BY <2>1
    <3>2. want[k - 1] = s[k - 1]
      <4>1. CASE k - 1 <= 1
        <5>1. k - 1 = 1 /\ n > 0 BY <3>1, <4>1
        <5> QED BY <3>1, <5>1
      <4>2. CASE ~(k - 1 <= 1) BY <3>1, <4>2
      <4> QED BY <4>1, <4>2
    <3> QED BY <3>1, <3>2
  <2>2. want = [k \in 0 .. n |-> IF k <= 1 THEN h
                                 ELSE IF want[k - 1] = NULL THEN NULL ELSE nx[want[k - 1]]]
    BY <2>1
  <2> HIDE DEF want
  <2>3. \E a : a = [k \in 0 .. n |-> IF k <= 1 THEN h
                                     ELSE IF a[k - 1] = NULL THEN NULL ELSE nx[a[k - 1]]]
    BY <2>2
  <2> QED BY <2>3 DEF Met
<1> HIDE DEF met
<1> DEFINE Wrong == {k \in 1 .. n : met[k] # s[k]}
<1>2. ASSUME Wrong # {} PROVE FALSE
  <2>1. Wrong \in SUBSET Nat OBVIOUS
  <2>2. PICK k \in Wrong : \A m \in Wrong : k <= m BY <1>2, <2>1, Least
  <2>3. k \in 1 .. n /\ met[k] # s[k] /\ n > 0 OBVIOUS
  <2>4. CASE k = 1
    <3>1. met[1] = h BY <1>1, <2>3, <2>4
    <3> QED BY <2>3, <2>4, <3>1
  <2>5. CASE k # 1
    <3>1. /\ k \in 0 .. n /\ ~(k <= 1) /\ k - 1 \in 1 .. n - 1 /\ k - 1 \in 1 .. n
          /\ (k - 1) + 1 = k /\ ~(k <= k - 1)
      BY <2>3, <2>5
    <3>2. met[k - 1] = s[k - 1] BY <2>2, <3>1
    <3>3. met[k] = IF met[k - 1] = NULL THEN NULL ELSE nx[met[k - 1]] BY <1>1, <3>1
    <3> QED BY <2>3, <3>1, <3>2, <3>3
  <2> QED BY <2>4, <2>5
<1>3. \A k \in 1 .. n : met[k] = s[k] BY <1>2
<1> QED BY <1>3 DEF met

-------------------------------------------------------------------------------
(* The blocks hold the names that were read, each once, and are counted.   *)

\* A name is in a block as soon as it is read, and only there.
Named ==
  pc \notin {"free", "fault"} =>
    /\ \A n \in blocks : pc # "up" /\ name[n] \in seen
    /\ pc # "up" => \A x \in seen : \E n \in blocks : name[n] = x
    /\ \A m, n \in blocks : name[m] = name[n] => m = n
    /\ pc # "idle" => todo \cap seen = {}
    /\ pc = "up" => seen = {DIR_UP}

\* What the counters say.
Counted ==
  pc \notin {"free", "fault"} =>
    /\ IsFiniteSet(seen) /\ files = Cardinality(seen \ Folders)
    /\ folders = Cardinality((seen \cap Folders) \ {DIR_UP})

LEMMA CountersSum ==
  ASSUME Counted, DIR_UP \in Folders, pc \notin {"free", "fault"}
  PROVE  Cardinality(seen) = files + folders + (IF DIR_UP \in seen THEN 1 ELSE 0)
<1> DEFINE F == seen \ Folders
           D == (seen \cap Folders) \ {DIR_UP}
<1>1. IsFiniteSet(seen) /\ files = Cardinality(F) /\ folders = Cardinality(D) BY DEF Counted
<1>2. F \in SUBSET seen /\ D \in SUBSET seen OBVIOUS
<1>3. IsFiniteSet(F) /\ IsFiniteSet(D) BY <1>1, <1>2, FS_Subset
<1>4. Cardinality(F \cup D) = Cardinality(F) + Cardinality(D) /\ IsFiniteSet(F \cup D)
  <2>1. F \cap D = {} OBVIOUS
  <2>2. Cardinality(F \cap D) = 0 BY <2>1, FS_EmptySet
  <2>3. Cardinality(F) \in Nat /\ Cardinality(D) \in Nat BY <1>3, FS_CardinalityType
  <2> HIDE DEF F, D
  <2> QED BY <1>3, <2>2, <2>3, FS_Union
<1>5. CASE DIR_UP \in seen
  <2>1. seen = (F \cup D) \cup {DIR_UP} /\ DIR_UP \notin F \cup D BY <1>5
  <2>2. Cardinality(seen) = Cardinality(F \cup D) + 1
    <3> HIDE DEF F, D
    <3> QED BY <1>4, <2>1, FS_AddElement
  <2> QED BY <1>1, <1>4, <1>5, <2>2
<1>6. CASE DIR_UP \notin seen
  <2>1. seen = F \cup D BY <1>6
  <2>2. Cardinality(F) \in Nat /\ Cardinality(D) \in Nat BY <1>3, FS_CardinalityType
  <2>3. Cardinality(seen) = files + folders
    <3> HIDE DEF F, D
    <3> QED BY <1>1, <1>4, <2>1
  <2> HIDE DEF F, D
  <2> QED BY <1>1, <1>6, <2>2, <2>3
<1> QED BY <1>5, <1>6

LEMMA ChainComplete ==
  ASSUME ConstantsAssumption, IInv, Named, Counted
  PROVE  Complete
<1> SUFFICES ASSUME pc \in {"idle", "read"} PROVE Complete
  BY DEF Complete
<1>1. PICK s \in [1 .. length -> Nodes] : Chain(s) BY DEF IInv
<1>2. Held = blocks /\ length \in Nat /\ NULL \notin Nodes
  BY DEF Held, IInv, TypeOK, ConstantsAssumption
<1> DEFINE met == Met(head, length, next)
<1>3. \A k \in 1 .. length : met[k] = s[k]
  <2>1. length > 0 => head = s[1] BY <1>1, <1>2 DEF Chain
  <2>2. \A i \in 1 .. length : s[i] # NULL BY <1>2
  <2>3. \A i \in 1 .. length - 1 : next[s[i]] = s[i + 1]
    <3>1. \A i \in 1 .. length - 1 : i \in 1 .. length /\ i < length BY <1>2
    <3> QED BY <1>1, <3>1 DEF Chain
  <2> QED BY <1>2, <2>1, <2>2, <2>3, RowMet
<1>4. Row(s, length, blocks) BY <1>1, <1>2 DEF Chain
<1>5. \A k \in 1 .. length : met[k] # NULL BY <1>2, <1>3
<1> DEFINE g == [k \in 1 .. length |-> name[s[k]]]
<1>6. g \in [1 .. length -> seen] BY <1>4 DEF Row, Named
<1>7. \A x \in seen : \E k \in 1 .. length : g[k] = x
  <2>1. ASSUME NEW x \in seen PROVE \E k \in 1 .. length : name[s[k]] = x
    <3>1. PICK n \in blocks : name[n] = x BY DEF Named
    <3> QED BY <1>4, <3>1 DEF Row
  <2> QED BY <2>1
<1>8. \A i, k \in 1 .. length : g[i] = g[k] => i = k BY <1>4 DEF Row, Named
<1>9. {name[met[k]] : k \in 1 .. length} = seen
  <2>1. \A k \in 1 .. length : name[met[k]] = g[k] BY <1>3
  <2> HIDE DEF g, met
  <2> QED BY <1>6, <1>7, <2>1
<1>10. length = Cardinality(seen)
  <2> HIDE DEF g
  <2>1. g \in Bijection(1 .. length, seen)
    BY <1>6, <1>7, <1>8 DEF Bijection, Injection, Surjection, IsInjective
  <2>2. ExistsBijection(1 .. length, seen) BY <2>1 DEF ExistsBijection
  <2> QED BY <1>2, <2>2, FS_CountingElements
<1>11. length = files + folders + (IF DIR_UP \in seen THEN 1 ELSE 0)
  BY <1>10, CountersSum DEF ConstantsAssumption
<1> HIDE DEF met
<1>12. /\ \A k \in 1 .. length : met[k] # NULL
       /\ {name[met[k]] : k \in 1 .. length} = seen
       /\ length = Cardinality(seen)
       /\ length = files + folders + (IF DIR_UP \in seen THEN 1 ELSE 0)
  BY <1>5, <1>9, <1>10, <1>11
<1> QED BY <1>12 DEF Complete, met, Met

Contents == Named /\ Counted

LEMMA InitNamed ==
  ASSUME Init
  PROVE  Contents
<1>1. Named BY DEF Init, Named
<1>2. seen \ Folders = {} /\ (seen \cap Folders) \ {DIR_UP} = {} /\ seen = {} BY DEF Init
<1>3. Counted BY <1>2, FS_EmptySet DEF Init, Counted
<1> QED BY <1>1, <1>3 DEF Contents

\* An empty list has no blocks.
LEMMA NoBlocks ==
  ASSUME ConstantsAssumption, IInv, pc # "free", head = NULL
  PROVE  Held = {}
<1>1. PICK s \in [1 .. length -> Nodes] : Chain(s) BY DEF IInv
<1>2. length = 0 BY <1>1, HeadLength DEF IInv
<1> QED BY <1>1, <1>2 DEF Chain, Row

\* s_fileListEmpty ends when every block is freed.
LEMMA NothingLeft ==
  ASSUME ConstantsAssumption, IInv, Emptied
  PROVE  blocks = {}
<1>1. PICK n \in Nat : \E s \in [1 .. n -> Nodes] : Rest(s, n) BY DEF IInv, Emptied
<1>2. PICK s \in [1 .. n -> Nodes] : Rest(s, n) BY <1>1
<1>3. n = 0
  <2>1. ASSUME n # 0 PROVE FALSE
    <3>1. 1 \in 1 .. n BY <2>1
    <3> QED BY <1>2, <2>1, <3>1 DEF Rest, Emptied, ConstantsAssumption
  <2> QED BY <2>1
<1> QED BY <1>2, <1>3 DEF Rest, Row

\* A new block holds a name that no other has.
LEMMA InsertNamed ==
  ASSUME ConstantsAssumption, IInv, Contents, pc \in {"up", "read"}, NEW n \in Names,
         Insert(n), todo' = todo \ {n}, seen' = seen \cup {n},
         (IF pc = "up" THEN n = DIR_UP ELSE n \in todo)
  PROVE  Contents'
<1>1. PICK b : b = Block OBVIOUS
<1>2. b \in Nodes /\ b \notin blocks BY <1>1, BlockFresh DEF IInv, Insert
<1>3. blocks' = blocks \cup {b} /\ name' = [name EXCEPT ![b] = n] /\ pc' \in {"read", "walk"}
  BY <1>1 DEF Insert
<1>4. name' [b] = n /\ (\A m \in blocks : name'[m] = name[m]) /\ blocks \subseteq Nodes
  BY <1>2, <1>3 DEF IInv, TypeOK
<1>5. Named BY DEF Contents
<1>6. Named'
  <2>1. CASE pc = "up"
    <3>1. blocks = {} /\ seen = {DIR_UP} /\ n = DIR_UP BY <1>5, <2>1 DEF Named
    <3>2. blocks' = {b} /\ seen' = {n} /\ name'[b] = n BY <1>3, <1>4, <3>1
    <3> QED BY <1>3, <3>2 DEF Named
  <2>2. CASE pc = "read"
    <3>1. /\ \A m \in blocks : name[m] \in seen
          /\ \A x \in seen : \E m \in blocks : name[m] = x
          /\ \A m, k \in blocks : name[m] = name[k] => m = k
          /\ todo \cap seen = {} /\ n \in todo /\ n \notin seen
      BY <1>5, <2>2 DEF Named
    <3>2. \A m \in blocks' : name'[m] \in seen' BY <1>3, <1>4, <3>1
    <3>3. \A x \in seen' : \E m \in blocks' : name'[m] = x BY <1>3, <1>4, <3>1
    <3>4. \A m, k \in blocks' : name'[m] = name'[k] => m = k BY <1>3, <1>4, <3>1
    <3>5. todo' \cap seen' = {} BY <3>1
    <3> QED BY <1>3, <3>2, <3>3, <3>4, <3>5 DEF Named
  <2> QED BY <2>1, <2>2
<1>7. Counted'
  <2>1. IsFiniteSet(seen) /\ files = Cardinality(seen \ Folders)
        /\ folders = Cardinality((seen \cap Folders) \ {DIR_UP})
    BY DEF Contents, Counted
  <2>2. IsFiniteSet(seen') BY <2>1, FS_AddElement
  <2>3. files' = files + (IF n \in Folders THEN 0 ELSE 1)
        /\ folders' = folders + (IF n \in Folders \ {DIR_UP} THEN 1 ELSE 0)
    BY DEF Insert
  <2>4. files \in Nat /\ folders \in Nat BY DEF IInv, TypeOK
  <2>5. CASE n = DIR_UP
    <3>1. n \in Folders BY <2>5 DEF ConstantsAssumption
    <3>2. seen' \ Folders = seen \ Folders
          /\ (seen' \cap Folders) \ {DIR_UP} = (seen \cap Folders) \ {DIR_UP}
      BY <2>5, <3>1
    <3>3. files' = files /\ folders' = folders BY <2>3, <2>4, <2>5, <3>1
    <3> QED BY <2>1, <2>2, <3>2, <3>3 DEF Counted
  <2>6. CASE n # DIR_UP
    <3>1. n \notin seen BY <1>5, <2>6 DEF Named
    <3>2. CASE n \in Folders
      <4>1. seen' \ Folders = seen \ Folders
            /\ (seen' \cap Folders) \ {DIR_UP} = ((seen \cap Folders) \ {DIR_UP}) \cup {n}
        BY <2>6, <3>2
      <4>2. IsFiniteSet((seen \cap Folders) \ {DIR_UP}) BY <2>1, FS_Subset
      <4>3. Cardinality(((seen \cap Folders) \ {DIR_UP}) \cup {n}) = folders + 1
        BY <2>1, <3>1, <4>2, FS_AddElement
      <4>4. files' = files /\ folders' = folders + 1 BY <2>3, <2>4, <2>6, <3>2
      <4> QED BY <2>1, <2>2, <4>1, <4>3, <4>4 DEF Counted
    <3>3. CASE n \notin Folders
      <4>1. seen' \ Folders = (seen \ Folders) \cup {n}
            /\ (seen' \cap Folders) \ {DIR_UP} = (seen \cap Folders) \ {DIR_UP}
        BY <2>6, <3>3
      <4>2. IsFiniteSet(seen \ Folders) BY <2>1, FS_Subset
      <4>3. Cardinality((seen \ Folders) \cup {n}) = files + 1
        BY <2>1, <3>1, <4>2, FS_AddElement
      <4>4. files' = files + 1 /\ folders' = folders BY <2>3, <2>4, <3>3
      <4> QED BY <2>1, <2>2, <4>1, <4>3, <4>4 DEF Counted
    <3> QED BY <3>2, <3>3
  <2> QED BY <2>5, <2>6
<1> QED BY <1>6, <1>7 DEF Contents

\* A call begins with no block and, but for "..", no name read.
LEMMA CallNamed ==
  ASSUME ConstantsAssumption, IInv, Contents, GetMountPointEntries \/ GetDirectoryEntries
  PROVE  Contents'
<1>1. pc = "idle" /\ head = NULL /\ blocks' = blocks /\ name' = name /\ UNCHANGED list
  BY DEF GetMountPointEntries, GetDirectoryEntries, fields
<1>2. blocks = {} BY <1>1, NoBlocks DEF Held
<1>3. seen = {}
  BY <1>1, <1>2 DEF Contents, Named
<1>4. files = 0 /\ folders = 0
  <2>1. seen \ Folders = {} /\ (seen \cap Folders) \ {DIR_UP} = {} BY <1>3
  <2> QED BY <1>1, <2>1, FS_EmptySet DEF Contents, Counted
<1>5. files' = 0 /\ folders' = 0 BY <1>1, <1>4 DEF list
<1>6. seen' \ Folders = {} /\ (seen' \cap Folders) \ {DIR_UP} = {}
  BY DEF GetMountPointEntries, GetDirectoryEntries, ConstantsAssumption
<1>7. IsFiniteSet(seen')
  <2>1. seen' = {} \/ seen' = {DIR_UP} BY DEF GetMountPointEntries, GetDirectoryEntries
  <2>2. IsFiniteSet({}) BY FS_EmptySet
  <2>3. IsFiniteSet({DIR_UP}) BY FS_Singleton
  <2>4. CASE seen' = {} BY <2>2, <2>4
  <2>5. CASE seen' = {DIR_UP} BY <2>3, <2>5
  <2> QED BY <2>1, <2>4, <2>5
<1>8. Counted' BY <1>5, <1>6, <1>7, FS_EmptySet DEF Counted
<1>10. CASE GetDirectoryEntries
  <2>1. Named' BY <1>1, <1>2, <1>10 DEF Named, GetDirectoryEntries
  <2> QED BY <1>8, <2>1 DEF Contents
<1>11. CASE GetMountPointEntries
  <2>1. Named' BY <1>1, <1>2, <1>11 DEF Named, GetMountPointEntries
  <2> QED BY <1>8, <2>1 DEF Contents
<1> QED BY <1>10, <1>11

LEMMA NextNamed ==
  ASSUME ConstantsAssumption, IInv, Contents, [Next]_vars
  PROVE  Contents'
<1>1. CASE GetMountPointEntries \/ GetDirectoryEntries BY <1>1, CallNamed
<1>2. CASE AddUp
  <2>1. CASE InsertFault BY <2>1 DEF InsertFault, Contents, Named, Counted
  <2>2. CASE Insert(DIR_UP)
    <3>1. pc = "up" /\ todo' = todo /\ seen' = seen /\ DIR_UP \in Names
      BY <1>2 DEF AddUp, ConstantsAssumption
    <3>2. seen = {DIR_UP} /\ todo \cap seen = {} BY <3>1 DEF Contents, Named
    <3>3. todo' = todo \ {DIR_UP} /\ seen' = seen \cup {DIR_UP} BY <3>1, <3>2
    <3> QED BY <2>2, <3>1, <3>3, InsertNamed
  <2> QED BY <1>2, <2>1, <2>2 DEF AddUp
<1>3. CASE Read
  <2>1. PICK n \in todo : /\ Insert(n) \/ InsertFault
                          /\ todo' = todo \ {n} /\ seen' = seen \cup {n}
    BY <1>3 DEF Read
  <2>2. CASE InsertFault BY <2>2 DEF InsertFault, Contents, Named, Counted
  <2>3. CASE Insert(n)
    <3>1. pc = "read" /\ n \in Names BY <1>3 DEF Read, IInv, TypeOK
    <3> QED BY <2>1, <2>3, <3>1, InsertNamed
  <2> QED BY <2>1, <2>2, <2>3
<1>4. ASSUME Empty \/ Free PROVE Contents'
  <2>1. pc' = "free" BY <1>4 DEF Empty, Free, Release
  <2> QED BY <2>1 DEF Contents, Named, Counted
<1>5. CASE Emptied
  <2>1. blocks' = {} /\ seen' = {} /\ todo' = {} /\ files' = 0 /\ folders' = 0 /\ pc' = "idle"
    BY <1>5, NothingLeft DEF Emptied
  <2>2. seen' \ Folders = {} /\ (seen' \cap Folders) \ {DIR_UP} = {} BY <2>1
  <2>3. Named' BY <2>1 DEF Named
  <2>4. Counted' BY <2>1, <2>2, FS_EmptySet DEF Counted
  <2> QED BY <2>3, <2>4 DEF Contents
<1>6. ASSUME ReadEnd \/ Walk \/ LinkFirst \/ LinkLast \/ LinkBetween
      PROVE  Contents'
  <2>1. /\ UNCHANGED <<todo, seen, blocks, name, files, folders>>
        /\ pc \in {"read", "walk"} /\ pc' \in {"idle", "read", "walk"}
    BY <1>6 DEF ReadEnd, Walk, LinkFirst, LinkLast, LinkBetween, Linked, Found, fields, list
  <2> QED BY <2>1 DEF Contents, Named, Counted
<1>7. CASE UNCHANGED vars
  BY <1>7 DEF vars, fields, list, Contents, Named, Counted
<1> QED BY <1>1, <1>2, <1>3, <1>4, <1>5, <1>6, <1>7 DEF Next, Step

\* cmd_ls, which takes as many steps along next as there are entries, meets every name that
\* sceIoDread gave, once, and the counters it shows are right.
THEOREM ListComplete == Spec => []Complete
<1>1. Init => IInv /\ Contents BY InitInv, InitNamed, ConstantsAssumption
<1>2. IInv /\ Contents /\ [Next]_vars => IInv' /\ Contents'
  BY NextInv, NextNamed, ConstantsAssumption
<1>3. IInv /\ Contents => Complete BY ChainComplete, ConstantsAssumption DEF Contents
<1> QED BY <1>1, <1>2, <1>3, PTL DEF Spec

-------------------------------------------------------------------------------
(***************************************************************************)
(* The session's list, while cmd_ls fills one of its own from other blocks.  *)
(***************************************************************************)

\* The list with head and counters l stands in the blocks S as Chain and Contents say.
ChainOf(l, S, s) ==
  /\ Row(s, l.length, S)
  /\ l.head = (IF l.length = 0 THEN NULL ELSE s[1])
  /\ l.tail = (IF l.length = 0 THEN NULL ELSE s[l.length])
  /\ \A i \in 1 .. l.length :
       /\ next[s[i]] = (IF i < l.length THEN s[i + 1] ELSE NULL)
       /\ previous[s[i]] = (IF i > 1 THEN s[i - 1] ELSE NULL)
  /\ \A i \in 1 .. l.length - 1 : InOrder(name[s[i]], name[s[i + 1]])

NamesOf(l, S) ==
  /\ \A n \in S : name[n] \in l.seen
  /\ \A x \in l.seen : \E n \in S : name[n] = x
  /\ \A m, n \in S : name[m] = name[n] => m = n
  /\ IsFiniteSet(l.seen) /\ l.files = Cardinality(l.seen \ Folders)
  /\ l.folders = Cardinality((l.seen \cap Folders) \ {DIR_UP})

Lists == [head : Nodes \cup {NULL}, tail : Nodes \cup {NULL}, length : Nat, files : Nat,
          folders : Nat, seen : SUBSET Names]

Stored(l, S) ==
  /\ l \in Lists /\ NamesOf(l, S)
  /\ \E s \in [1 .. l.length -> Nodes] : ChainOf(l, S, s)

Listing == at \in {"ls", "show", "shown"} /\ pc # "fault"

\* Nothing inside FileList's functions touches blocks of another list.
LEMMA OthersKept ==
  ASSUME ConstantsAssumption, IInv, [Next]_vars
  PROVE  /\ others' = others
         /\ \A n \in others : /\ name'[n] = name[n] /\ next'[n] = next[n]
                              /\ previous'[n] = previous[n]
<1>1. others' = others BY DEF Next, vars
<1>2. TypeOK /\ others \subseteq Nodes /\ blocks \cap others = {} BY DEF IInv, TypeOK
<1> DEFINE Same == \A n \in others : /\ name'[n] = name[n] /\ next'[n] = next[n]
                                     /\ previous'[n] = previous[n]
<1>3. ASSUME UNCHANGED fields PROVE Same BY <1>3 DEF fields
<1>4. ASSUME NEW n, Insert(n) PROVE Same
  <2>1. PICK b : b = Block OBVIOUS
  <2>2. b \notin others BY <1>2, <1>4, <2>1, BlockFresh DEF Insert
  <2> QED BY <1>2, <1>4, <2>1, <2>2 DEF Insert, TypeOK
<1>5. ASSUME LinkFirst \/ LinkLast \/ LinkBetween PROVE Same
  <2>1. PICK s \in [1 .. length -> Nodes] : Chain(s)
    BY <1>5 DEF IInv, LinkFirst, LinkLast, LinkBetween, Found
  <2>2. /\ name' = name /\ new \in blocks /\ new \notin others /\ Found
    BY <1>2, <1>5 DEF LinkFirst, LinkLast, LinkBetween, Linked, Found, IInv, Searching
  <2>3. \A i \in 1 .. length : s[i] \in blocks
    BY <2>1, <2>2 DEF Chain, Row, Held, Found
  <2>4. length > 0 /\ head = s[1] /\ tail = s[length] /\ length \in Nat
    BY <1>2, <2>1, <2>2, Place DEF TypeOK
  <2>5. tail \notin others
    <3>1. length \in 1 .. length BY <2>4
    <3> QED BY <1>2, <2>3, <2>4, <3>1
  <2>6. CASE prev = NULL
    <3>1. p = s[1] /\ 1 \in 1 .. length
      <4>1. /\ \A i \in 1 .. length : s[i] # NULL
            /\ (p = s[1] \/ \E j \in 1 .. length : prev = s[j])
        BY <2>1, <2>2, Place
      <4> QED BY <2>4, <2>6, <4>1
    <3>2. p \notin others BY <1>2, <2>3, <3>1
    <3>3. LinkFirst BY <1>5, <2>6 DEF LinkLast, LinkBetween
    <3> QED BY <1>2, <2>2, <3>2, <3>3 DEF LinkFirst, TypeOK
  <2>7. CASE prev # NULL
    <3>1. PICK j \in 1 .. length :
            /\ prev = s[j] /\ (next[prev] = NULL <=> j = length)
            /\ j < length => p = s[j + 1]
      BY <2>1, <2>2, <2>7, Place
    <3>2. prev \notin others BY <1>2, <2>3, <3>1
    <3>3. next[prev] # NULL => p \notin others
      <4>1. next[prev] # NULL => j + 1 \in 1 .. length /\ j < length BY <2>4, <3>1
      <4> QED BY <1>2, <2>3, <3>1, <4>1
    <3>4. CASE LinkLast BY <1>2, <2>2, <2>5, <3>4 DEF LinkLast, TypeOK
    <3>5. CASE LinkBetween
      <4>1. p \notin others BY <3>3, <3>5 DEF LinkBetween
      <4> QED BY <1>2, <2>2, <3>2, <3>5, <4>1 DEF LinkBetween, TypeOK
    <3> QED BY <1>5, <2>7, <3>4, <3>5 DEF LinkFirst
  <2> QED BY <2>6, <2>7
<1>6. ASSUME Free PROVE Same
  <2>1. PICK n \in Nat : \E s \in [1 .. n -> Nodes] : Rest(s, n) BY <1>6 DEF IInv, Free
  <2>2. PICK s \in [1 .. n -> Nodes] : Rest(s, n) BY <2>1
  <2>3. p \in blocks
    <3>1. n # 0 BY <1>6, <2>2 DEF Rest, Free
    <3>2. 1 \in 1 .. n /\ p = s[1] BY <2>2, <3>1 DEF Rest
    <3> QED BY <2>2, <3>2 DEF Rest, Row
  <2>4. p \notin others BY <1>2, <2>3
  <2> QED BY <1>2, <1>6, <2>4 DEF Free, Release, TypeOK
<1>7. ASSUME Next PROVE Same
  <2>1. CASE AddUp BY <1>3, <1>4, <2>1 DEF AddUp, InsertFault
  <2>2. CASE Read BY <1>3, <1>4, <2>2 DEF Read, InsertFault
  <2>3. CASE UNCHANGED fields BY <1>3, <2>3
  <2>4. CASE \/ GetMountPointEntries \/ GetDirectoryEntries \/ Empty \/ ReadEnd \/ Walk
             \/ Emptied
    BY <1>3, <2>4 DEF GetMountPointEntries, GetDirectoryEntries, Empty, ReadEnd, Walk, Emptied
  <2> QED BY <1>5, <1>6, <1>7, <2>1, <2>2, <2>4 DEF Next, Step
<1>8. UNCHANGED vars => UNCHANGED fields BY DEF vars, fields
<1> QED BY <1>1, <1>3, <1>7, <1>8

LEMMA StoredKept ==
  ASSUME ConstantsAssumption, IInv, [Next]_vars, mine' = mine, Stored(mine, others)
  PROVE  Stored(mine, others)'
<1>1. /\ others' = others
      /\ \A n \in others : /\ name'[n] = name[n] /\ next'[n] = next[n]
                           /\ previous'[n] = previous[n]
  BY OthersKept
<1>2. PICK s \in [1 .. mine.length -> Nodes] : ChainOf(mine, others, s) BY DEF Stored
<1>3. mine.length \in Nat BY DEF Stored, Lists
<1>4. \A i \in 1 .. mine.length : s[i] \in others BY <1>2 DEF ChainOf, Row
<1>5. \A i \in 1 .. mine.length - 1 : i \in 1 .. mine.length /\ i + 1 \in 1 .. mine.length
  BY <1>3
<1>6. ChainOf(mine, others, s)'
  <2>1. \A i \in 1 .. mine.length :
          /\ next'[s[i]] = next[s[i]] /\ previous'[s[i]] = previous[s[i]]
          /\ name'[s[i]] = name[s[i]]
    BY <1>1, <1>4
  <2>2. \A i \in 1 .. mine.length - 1 : InOrder(name'[s[i]], name'[s[i + 1]])
    BY <1>2, <1>5, <2>1 DEF ChainOf
  <2> QED BY <1>1, <1>2, <2>1, <2>2 DEF ChainOf
<1>7. NamesOf(mine, others)' BY <1>1 DEF Stored, NamesOf
<1> QED BY <1>1, <1>2, <1>6, <1>7 DEF Stored

-------------------------------------------------------------------------------
(* The invariant of the session.                                           *)

\* Where cmd_thread can be while its list is read or freed.
Placed ==
  /\ at \in {"out", "home", "ready", "cd", "list", "relist", "ls", "show", "shown"}
  /\ at \notin {"ls", "show", "shown"} => others = {}
  /\ pc # "fault" =>
       /\ at = "home" \/ at = "ls" => pc = "idle" /\ head = NULL
       /\ at = "ready" \/ at = "show" => pc # "free"
       /\ at = "cd" => pc = "idle"
       /\ at \in {"out", "list", "relist", "shown"} => pc = "free" \/ (pc = "idle" /\ head = NULL)

\* What the session's list is a list of.
Shows ==
  pc # "fault" =>
    /\ at = "home" => path = HOME_PATH
    /\ at = "ready" \/ Listing => of = path
    /\ at = "ready" /\ (pc # "idle" \/ head # NULL) /\ path # HOME_PATH => DIR_UP \in seen
    /\ Listing /\ mine.head # NULL /\ path # HOME_PATH => DIR_UP \in mine.seen

\* What cd has made of the path.
Goes ==
  /\ {path, arg, from} \subseteq Seq(Names \cup Range(HOME_PATH))
  /\ at \in {"cd", "list"} /\ arg = <<DIR_UP>> => path = Above(from)
  /\ at = "relist" => path = arg /\ (arg = <<DIR_UP>> => from # <<DIR_UP>>)

Lined == IInv /\ Contents /\ (Listing => Stored(mine, others))

WDInv == Placed /\ Lined /\ Shows /\ Goes

LEMMA StepPc ==
  ASSUME Step
  PROVE  /\ pc \in {"up", "read", "walk", "free"}
         /\ pc # "free" => pc' # "free" /\ seen \subseteq seen'
         /\ pc = "free" => pc' = "free" \/ (pc' = "idle" /\ head' = NULL)
<1>1. CASE AddUp BY <1>1 DEF AddUp, Insert, InsertFault
<1>2. CASE Read
  <2>1. PICK n \in todo : /\ Insert(n) \/ InsertFault
                          /\ todo' = todo \ {n} /\ seen' = seen \cup {n}
    BY <1>2 DEF Read
  <2>2. pc = "read" /\ pc' # "free" BY <1>2, <2>1 DEF Read, Insert, InsertFault
  <2> QED BY <2>1, <2>2
<1>3. CASE ReadEnd \/ Walk BY <1>3 DEF ReadEnd, Walk
<1>4. CASE LinkFirst \/ LinkLast \/ LinkBetween
  BY <1>4 DEF LinkFirst, LinkLast, LinkBetween, Linked, Found
<1>5. CASE Free \/ Emptied BY <1>5 DEF Free, Release, Emptied
<1> QED BY <1>1, <1>2, <1>3, <1>4, <1>5 DEF Step

\* Most steps are steps of FileList's functions, or touch no list.
LEMMA LinedStep ==
  ASSUME ConstantsAssumption, Lined, [Next]_vars, mine' = mine, pc # "fault",
         at' \in {"ls", "show", "shown"} => at \in {"ls", "show", "shown"}
  PROVE  Lined'
<1>1. IInv' /\ Contents' BY NextInv, NextNamed DEF Lined
<1>2. Listing' => Stored(mine, others)'
  <2>1. Listing' => Listing BY DEF Listing
  <2>2. Stored(mine, others) => Stored(mine, others)' BY StoredKept DEF Lined
  <2> QED BY <2>1, <2>2 DEF Lined
<1> QED BY <1>1, <1>2 DEF Lined

\* The steps that exchange the lists: on connecting, ...
LEMMA EmptyLined ==
  ASSUME ConstantsAssumption, IInv, pc = "idle", pc' = "idle", Holds(Nothing), blocks' = {},
         others' \subseteq Nodes,
         UNCHANGED <<home, todo, fields, cursor>>
  PROVE  IInv' /\ Contents'
<1>1. /\ head' = NULL /\ tail' = NULL /\ length' = 0 /\ files' = 0 /\ folders' = 0 /\ seen' = {}
  BY DEF Holds, Nothing
<1>2. TypeOK' BY <1>1 DEF IInv, TypeOK, fields, cursor
<1>3. \E s \in [1 .. length' -> Nodes] : Chain(s)'
  <2> DEFINE s == [i \in 1 .. 0 |-> NULL]
  <2>1. s \in [1 .. 0 -> Nodes] /\ s \in [1 .. 0 -> {}] OBVIOUS
  <2>2. Held' = {} BY DEF Held
  <2> HIDE DEF s
  <2>3. Row(s, 0, {}) BY <2>1 DEF Row
  <2>4. Chain(s)' BY <1>1, <2>2, <2>3 DEF Chain
  <2> QED BY <1>1, <2>1, <2>4
<1>4. Named' BY <1>1 DEF Named
<1>5. Counted'
  <2>1. seen' \ Folders = {} /\ (seen' \cap Folders) \ {DIR_UP} = {} BY <1>1
  <2> QED BY <1>1, <2>1, FS_EmptySet DEF Counted
<1> QED BY <1>2, <1>3, <1>4, <1>5 DEF IInv, Contents

\* ... on entering cmd_ls, ...
LEMMA LsLined ==
  ASSUME ConstantsAssumption, Lined, Placed, Ls
  PROVE  Lined'
<1>1. pc = "idle" /\ pc' = "idle" /\ at = "ready" /\ others' = blocks /\ blocks' = {}
  BY DEF Ls, Ready
<1>2. TypeOK /\ IInv BY DEF Lined, IInv
<1>3. IInv' /\ Contents' BY <1>1, <1>2, EmptyLined DEF Ls, TypeOK
<1>4. mine' = Kept BY DEF Ls
<1>5. Kept \in Lists BY <1>2 DEF Kept, Lists, TypeOK
<1>6. NamesOf(Kept, blocks) BY <1>1 DEF Lined, Contents, Named, Counted, NamesOf, Kept
<1>7. PICK s \in [1 .. length -> Nodes] : Chain(s) BY <1>1, <1>2 DEF IInv
<1>8. ChainOf(Kept, blocks, s)
  <2>1. Held = blocks BY <1>1 DEF Held
  <2> QED BY <1>7, <2>1 DEF Chain, ChainOf, Kept
<1>9. UNCHANGED fields BY DEF Ls
<1>10. NamesOf(mine, others)' BY <1>1, <1>4, <1>6, <1>9 DEF NamesOf, fields
<1>11. ChainOf(mine, others, s)' BY <1>1, <1>4, <1>8, <1>9 DEF ChainOf, fields
<1>12. s \in [1 .. mine'.length -> Nodes] BY <1>4, <1>7 DEF Kept
<1>13. Stored(mine, others)' BY <1>4, <1>5, <1>10, <1>11, <1>12 DEF Stored
<1> QED BY <1>3, <1>13 DEF Lined

\* ... and on leaving it.
LEMMA LsReturnLined ==
  ASSUME ConstantsAssumption, Lined, Placed, LsReturn
  PROVE  Lined'
<1>1. /\ pc = "idle" /\ pc' = "idle" /\ at' = "ready" /\ others' = {} /\ blocks' = others
      /\ Holds(mine) /\ UNCHANGED <<home, todo, fields, cursor>> /\ Listing
  BY DEF LsReturn, Listing
<1>2. TypeOK /\ Stored(mine, others) BY <1>1 DEF Lined, IInv
<1>3. /\ mine \in Lists /\ NamesOf(mine, others) BY <1>2 DEF Stored
<1>4. PICK s \in [1 .. mine.length -> Nodes] : ChainOf(mine, others, s) BY <1>2 DEF Stored
<1>5. /\ head' = mine.head /\ tail' = mine.tail /\ length' = mine.length
      /\ files' = mine.files /\ folders' = mine.folders /\ seen' = mine.seen
  BY <1>1 DEF Holds
<1>6. TypeOK'
  <2>1. /\ {head', tail'} \subseteq Nodes \cup {NULL} /\ {length', files', folders'} \subseteq Nat
        /\ seen' \subseteq Names
    BY <1>3, <1>5 DEF Lists
  <2> QED BY <1>1, <1>2, <2>1 DEF TypeOK, fields, cursor
<1>7. Chain(s)'
  <2>1. Held' = others BY <1>1 DEF Held
  <2> QED BY <1>1, <1>4, <1>5, <2>1 DEF Chain, ChainOf, fields
<1>8. IInv' BY <1>1, <1>4, <1>5, <1>6, <1>7 DEF IInv
<1>9. Named' /\ Counted' BY <1>1, <1>3, <1>5 DEF NamesOf, Named, Counted, fields
<1>10. ~Listing' BY <1>1 DEF Listing
<1> QED BY <1>8, <1>9, <1>10 DEF Lined, Contents

\* Nothing happens after a write through a missing block or a list that was not cleared.
LEMMA NotFault ==
  ASSUME WDNext
  PROVE  pc # "fault"
<1>1. CASE Inside BY <1>1, StepPc DEF Inside
<1>2. ASSUME NEW q, Opens(q) PROVE pc = "idle"
  BY <1>2 DEF Opens, GetMountPointEntries, GetDirectoryEntries
<1>3. ASSUME NEW q, OpenFails(q) PROVE pc = "idle" BY <1>3 DEF OpenFails
<1>4. CASE ListHome \/ CdList \/ CdBack \/ CdRelist \/ LsList \/ LsFails
  BY <1>2, <1>3, <1>4 DEF ListHome, CdList, CdBack, CdRelist, LsList, LsFails
<1>5. CASE \/ Create \/ Delete \/ Connect \/ Disconnect \/ Cd \/ Ls \/ LsJunk \/ CdEmpty
           \/ LsShow \/ LsReturn
  BY <1>5 DEF Create, Delete, Connect, Disconnect, Cd, Ls, LsJunk, CdEmpty, LsShow, LsReturn,
              EmptyThen, Ready
<1> QED BY <1>1, <1>4, <1>5 DEF WDNext, Commanding

\* What a step of the session does to the list: one of FileList's, or none.
Calls ==
  \/ Create \/ Delete \/ Disconnect \/ Cd \/ Inside \/ ListHome \/ CdEmpty \/ CdList
  \/ CdBack \/ CdRelist \/ LsList \/ LsFails \/ LsShow

LEMMA CallsNext ==
  ASSUME Calls
  PROVE  [Next]_vars /\ mine' = mine /\ others' = others
<1>1. UNCHANGED vars => others' = others BY DEF vars
<1>2. UNCHANGED dirs => mine' = mine BY DEF dirs
<1>3. CASE Create \/ Delete BY <1>1, <1>2, <1>3 DEF Create, Delete
<1>4. CASE Cd BY <1>1, <1>4 DEF Cd
<1>5. CASE Inside BY <1>2, <1>5 DEF Inside, Next
<1>6. CASE Disconnect \/ CdEmpty \/ LsShow
  <2>1. PICK next_at : EmptyThen(next_at) BY <1>6 DEF Disconnect, CdEmpty, LsShow
  <2> QED BY <1>1, <2>1 DEF EmptyThen, Next
<1>7. ASSUME NEW q, Opens(q) PROVE Next /\ others' = others BY <1>7 DEF Opens, Next
<1>8. ASSUME NEW q, OpenFails(q) PROVE UNCHANGED vars BY <1>8 DEF OpenFails
<1>9. CASE ListHome \/ CdList \/ LsList BY <1>7, <1>9 DEF ListHome, CdList, CdDone, LsList
<1>10. CASE CdBack \/ LsFails BY <1>1, <1>8, <1>10 DEF CdBack, LsFails
<1>11. CASE CdRelist BY <1>1, <1>7, <1>8, <1>11 DEF CdRelist, CdDone
<1> QED BY <1>3, <1>4, <1>5, <1>6, <1>9, <1>10, <1>11 DEF Calls

LEMMA LinedNext ==
  ASSUME ConstantsAssumption, Placed, Lined, [WDNext]_allVars
  PROVE  Lined'
<1>1. CASE Calls
  <2>1. pc # "fault" BY <1>1, NotFault DEF Calls, WDNext, Commanding
  <2>2. at' \in {"ls", "show", "shown"} => at \in {"ls", "show", "shown"}
    BY <1>1 DEF Calls, Create, Delete, Disconnect, Cd, Inside, ListHome, CdEmpty, CdList,
                CdBack, CdRelist, CdDone, LsList, LsFails, LsShow, EmptyThen, dirs
  <2> QED BY <1>1, <2>1, <2>2, CallsNext, LinedStep
<1>2. CASE Connect
  <2>1. pc = "idle" /\ at = "out" /\ head = NULL /\ others = {} /\ at' = "home"
    BY <1>2 DEF Connect, Placed
  <2>2. blocks = {} BY <2>1, NoBlocks DEF Lined, Held
  <2>3. IInv' /\ Contents' BY <1>2, <2>1, <2>2, EmptyLined DEF Connect, Lined
  <2> QED BY <2>1, <2>3 DEF Lined, Listing
<1>3. CASE Ls BY <1>3, LsLined
<1>4. CASE LsReturn BY <1>4, LsReturnLined
<1>5. CASE LsJunk
  <2>1. /\ pc = "idle" /\ pc' = "fault"
        /\ UNCHANGED <<home, todo, seen, blocks, others, fields, list, cursor>>
    BY <1>5 DEF LsJunk, Ready
  <2>2. PICK s \in [1 .. length -> Nodes] : Chain(s) BY <2>1 DEF Lined, IInv
  <2>3. Held' = Held BY <2>1 DEF Held
  <2>4. Chain(s)' BY <2>1, <2>2, <2>3 DEF Chain, fields, list
  <2>5. TypeOK' BY <2>1 DEF Lined, IInv, TypeOK, fields, list, cursor
  <2>6. IInv' BY <2>1, <2>2, <2>4, <2>5 DEF IInv, list
  <2> QED BY <2>1, <2>6 DEF Lined, Contents, Named, Counted, Listing
<1>6. CASE UNCHANGED allVars
  <2>1. UNCHANGED vars /\ mine' = mine /\ at' = at BY <1>6 DEF allVars, dirs
  <2>2. CASE pc # "fault" BY <2>1, <2>2, LinedStep
  <2>3. CASE pc = "fault"
    <3>1. IInv' /\ Contents' BY <2>1, NextInv, NextNamed DEF Lined
    <3> QED BY <2>1, <2>3, <3>1 DEF Lined, Listing, vars
  <2> QED BY <2>2, <2>3
<1> QED BY <1>1, <1>2, <1>3, <1>4, <1>5, <1>6 DEF WDNext, Commanding, Calls

LEMMA PlacedNext ==
  ASSUME Placed, [WDNext]_allVars
  PROVE  Placed'
<1>1. CASE Inside
  <2>1. at' = at /\ others' = others BY <1>1 DEF Inside, dirs
  <2> QED BY <1>1, <2>1, StepPc DEF Inside, Placed
<1>2. CASE Create \/ Delete
  BY <1>2 DEF Create, Delete, vars, list, dirs, Placed
<1>3. CASE Connect
  BY <1>3 DEF Connect, Holds, Nothing, Placed
<1>4. ASSUME NEW next_at \in {"out", "list", "shown"}, EmptyThen(next_at),
             at \in {"ready", "cd", "show"},
             at = "show" <=> next_at = "shown"
      PROVE  Placed'
  <2>1. pc = "idle" /\ at' = next_at /\ others' = others BY <1>4 DEF EmptyThen
  <2>2. pc' = "free" \/ (pc' = "idle" /\ head' = NULL)
    BY <1>4 DEF EmptyThen, Empty, vars, list
  <2> QED BY <1>4, <2>1, <2>2 DEF Placed
<1>5. CASE Disconnect \/ CdEmpty \/ LsShow BY <1>4, <1>5 DEF Disconnect, CdEmpty, LsShow
<1>6. CASE Cd BY <1>6 DEF Cd, Ready, vars, Placed
<1>7. ASSUME NEW q, Opens(q) PROVE pc' \in {"read", "up"} /\ others' = others
  BY <1>7 DEF Opens, GetMountPointEntries, GetDirectoryEntries
<1>8. ASSUME NEW q, OpenFails(q) PROVE pc' = "idle" /\ head' = NULL /\ others' = others
  BY <1>8 DEF OpenFails, vars, list
<1>9. CASE ListHome \/ CdList \/ LsList
  BY <1>7, <1>9 DEF ListHome, CdList, CdDone, LsList, Placed
<1>10. CASE CdBack \/ LsFails BY <1>8, <1>10 DEF CdBack, LsFails, Placed
<1>11. CASE CdRelist BY <1>7, <1>8, <1>11 DEF CdRelist, CdDone, Placed
<1>12. CASE Ls BY <1>12 DEF Ls, Ready, Holds, Nothing, Placed
<1>13. CASE LsJunk BY <1>13 DEF LsJunk, Ready, Placed
<1>14. CASE LsReturn BY <1>14 DEF LsReturn, Placed
<1>15. CASE UNCHANGED allVars BY <1>15 DEF allVars, vars, list, dirs, Placed
<1> QED BY <1>1, <1>2, <1>3, <1>5, <1>6, <1>9, <1>10, <1>11, <1>12, <1>13, <1>14, <1>15
        DEF WDNext, Commanding

\* A list that is opened for a path other than HOME_PATH has "..".
LEMMA OpensUp ==
  ASSUME NEW q, Opens(q)
  PROVE  q # HOME_PATH => DIR_UP \in seen'
BY DEF Opens, GetDirectoryEntries

LEMMA ShowsNext ==
  ASSUME Placed, Lined, Shows, Goes, [WDNext]_allVars
  PROVE  Shows'
<1>1. CASE Inside
  <2>1. UNCHANGED <<at, path, arg, of, mine>> BY <1>1 DEF Inside, dirs
  <2>2. pc # "fault" /\ (pc' # "fault" => (Listing' <=> Listing))
    BY <1>1, <2>1, StepPc DEF Inside, Listing
  <2>3. at = "ready" => pc # "idle" /\ seen \subseteq seen'
    BY <1>1, <2>2, StepPc DEF Inside, Placed
  <2> QED BY <2>1, <2>2, <2>3 DEF Shows
<1>2. CASE Create \/ Delete \/ UNCHANGED allVars
  <2>1. UNCHANGED <<pc, head, seen, at, path, arg, of, mine>>
    BY <1>2 DEF Create, Delete, allVars, vars, list, dirs
  <2> QED BY <2>1 DEF Shows, Listing
<1>3. CASE Connect BY <1>3 DEF Connect, Shows, Listing
<1>4. CASE Disconnect \/ CdEmpty BY <1>4 DEF Disconnect, CdEmpty, EmptyThen, Shows, Listing
<1>5. CASE Cd BY <1>5 DEF Cd, Shows, Listing
<1>6. CASE ListHome BY <1>6, NotFault DEF ListHome, Shows, Listing, WDNext, Commanding
<1>7. CASE CdList BY <1>7, OpensUp DEF CdList, CdDone, Shows, Listing
<1>8. CASE CdBack BY <1>8 DEF CdBack, Shows, Listing
<1>9. CASE CdRelist
  <2>1. at' = "ready" /\ of' = arg /\ path' = path /\ path = arg
    BY <1>9, NotFault DEF CdRelist, CdDone, Goes, WDNext, Commanding
  <2>2. ASSUME Opens(arg) PROVE path' # HOME_PATH => DIR_UP \in seen'
    BY <2>1, <2>2, OpensUp
  <2>3. ASSUME OpenFails(arg) PROVE pc' = "idle" /\ head' = NULL
    BY <2>3 DEF OpenFails, vars, list
  <2> QED BY <1>9, <2>1, <2>2, <2>3 DEF CdRelist, Shows, Listing
<1>10. CASE Ls
  <2>1. /\ pc = "idle" /\ pc' = "idle" /\ at = "ready" /\ at' = "ls" /\ mine' = Kept
        /\ path' = path /\ of' = of
    BY <1>10 DEF Ls, Ready
  <2>2. mine'.head = head /\ mine'.seen = seen BY <2>1 DEF Kept
  <2> QED BY <2>1, <2>2 DEF Shows, Listing
<1>11. CASE LsJunk BY <1>11 DEF LsJunk, Shows
<1>12. CASE LsList \/ LsFails \/ LsShow
  <2>1. /\ UNCHANGED <<path, of, mine>> /\ at \in {"ls", "show"} /\ at' \in {"show", "shown"}
    BY <1>12 DEF LsList, LsFails, LsShow, EmptyThen
  <2>2. pc # "fault" BY <1>12, NotFault DEF WDNext, Commanding
  <2> QED BY <2>1, <2>2 DEF Shows, Listing
<1>13. CASE LsReturn
  <2>1. /\ pc = "idle" /\ pc' = "idle" /\ at = "shown" /\ at' = "ready" /\ Listing
        /\ head' = mine.head /\ seen' = mine.seen /\ path' = path /\ of' = of
    BY <1>13 DEF LsReturn, Listing, Holds
  <2> QED BY <2>1 DEF Shows, Listing
<1> QED BY <1>1, <1>2, <1>3, <1>4, <1>5, <1>6, <1>7, <1>8, <1>9, <1>10, <1>11, <1>12, <1>13
        DEF WDNext, Commanding

LEMMA HomeSeq == HOME_PATH \in Seq(Names \cup Range(HOME_PATH))
<1>1. "root" \in Range(HOME_PATH)
  <2>1. 1 \in DOMAIN HOME_PATH /\ HOME_PATH[1] = "root" BY DEF HOME_PATH
  <2> QED BY <2>1 DEF Range
<1> DEFINE S == Names \cup Range(HOME_PATH)
<1>2. "root" \in S BY <1>1
<1> HIDE DEF S
<1>3. <<"root">> \in Seq(S) BY <1>2
<1> QED BY <1>3 DEF HOME_PATH, S

\* The path above q is shorter, or HOME_PATH.
LEMMA AboveShorter ==
  ASSUME NEW S, NEW q \in Seq(S)
  PROVE  /\ Above(q) = HOME_PATH \/ Len(Above(q)) < Len(q)
         /\ Above(q) = HOME_PATH \/ Above(q) \in Seq(S)
<1>1. CASE Len(q) > 1
  <2>1. Len(q) \in Nat /\ \A i \in 1 .. Len(q) - 1 : q[i] \in S BY LenProperties, ElementOfSeq
  <2>2. /\ Front(q) \in Seq(S)
        /\ Len(Front(q)) = IF 1 <= Len(q) - 1 THEN (Len(q) - 1) - 1 + 1 ELSE 0
    BY <2>1, SubSeqProperties DEF Front
  <2> QED BY <1>1, <2>1, <2>2 DEF Above
<1>2. CASE ~(Len(q) > 1) BY <1>2 DEF Above
<1> QED BY <1>1, <1>2

LEMMA GoesNext ==
  ASSUME WorkDirAssumption, Goes, [WDNext]_allVars
  PROVE  Goes'
<1> DEFINE S == Names \cup Range(HOME_PATH)
<1>1. HOME_PATH \in Seq(S) BY HomeSeq
<1>2. path \in Seq(S) /\ arg \in Seq(S) /\ from \in Seq(S) BY DEF Goes
<1>3. ASSUME UNCHANGED <<path, arg, from>>,
             at' \in {"cd", "list"} => at \in {"cd", "list"}, at' = "relist" => at = "relist"
      PROVE  Goes'
  BY <1>3 DEF Goes
<1>4. CASE Cd
  <2>1. PICK a \in Args : path' = Candidate(a) /\ arg' = a BY <1>4 DEF Cd
  <2>2. from' = path /\ at' = "cd" BY <1>4 DEF Cd
  <2>3. a \in Seq(S) BY DEF WorkDirAssumption
  <2>4. path \o a \in Seq(S) BY <1>2, <2>3, ConcatProperties
  <2>5. Above(path) \in Seq(S) BY <1>1, <1>2, AboveShorter
  <2>6. path' \in Seq(S) BY <1>2, <2>1, <2>3, <2>4, <2>5 DEF Candidate
  <2>7. a = <<DIR_UP>> => path' = Above(path) BY <2>1 DEF Candidate
  <2> HIDE DEF S
  <2>8. {path', arg', from'} \subseteq Seq(S) BY <1>2, <2>1, <2>2, <2>3, <2>6
  <2> QED BY <2>1, <2>2, <2>7, <2>8 DEF Goes, S
<1>5. CASE Connect
  <2>1. path' = HOME_PATH /\ UNCHANGED <<arg, from>> /\ at' = "home" BY <1>5 DEF Connect
  <2> QED BY <1>1, <1>2, <2>1 DEF Goes
<1>6. CASE CdBack
  <2>1. path' = arg /\ UNCHANGED <<arg, from>> /\ at = "list" /\ at' = "relist"
        /\ path # HOME_PATH
    BY <1>6 DEF CdBack, OpenFails
  <2>2. arg = <<DIR_UP>> => path = Above(from) BY <2>1 DEF Goes
  <2>3. ~(Len(<<DIR_UP>>) > 1) OBVIOUS
  <2>4. arg = <<DIR_UP>> => from # <<DIR_UP>> BY <2>1, <2>2, <2>3 DEF Above
  <2> QED BY <1>2, <2>1, <2>4 DEF Goes
<1>7. CASE CdList \/ CdRelist
  <2>1. path' = path /\ arg' = HOME_PATH /\ from' = HOME_PATH /\ at' = "ready"
    BY <1>7 DEF CdList, CdRelist, CdDone
  <2> QED BY <1>1, <1>2, <2>1 DEF Goes
<1>8. CASE \/ Create \/ Delete \/ Disconnect \/ Ls \/ LsJunk \/ Inside \/ ListHome \/ CdEmpty
           \/ LsList \/ LsFails \/ LsShow \/ LsReturn \/ UNCHANGED allVars
  BY <1>3, <1>8
     DEF Create, Delete, Disconnect, Ls, LsJunk, Inside, ListHome, CdEmpty, LsList, LsFails,
         LsShow, LsReturn, EmptyThen, dirs, allVars
<1> QED BY <1>4, <1>5, <1>6, <1>7, <1>8 DEF WDNext, Commanding

LEMMA WDInitInv ==
  ASSUME ConstantsAssumption, WDInit
  PROVE  WDInv
<1>1. /\ Init /\ others = {} /\ at = "out" /\ path = HOME_PATH /\ arg = HOME_PATH
      /\ from = HOME_PATH
  BY DEF WDInit
<1>2. Lined BY <1>1, InitInv, InitNamed DEF Lined, Listing
<1>3. Placed /\ Shows BY <1>1 DEF Placed, Shows, Listing, Init
<1>4. HOME_PATH \in Seq(Names \cup Range(HOME_PATH)) BY HomeSeq
<1>5. Goes BY <1>1, <1>4 DEF Goes
<1> QED BY <1>2, <1>3, <1>5 DEF WDInv

LEMMA WDNextInv ==
  ASSUME ConstantsAssumption, WorkDirAssumption, WDInv, [WDNext]_allVars
  PROVE  WDInv'
BY PlacedNext, LinedNext, ShowsNext, GoesNext DEF WDInv

-------------------------------------------------------------------------------
(* What the session may rely on, for any tree, arguments and changes of    *)
(* the file system meanwhile.                                              *)

\* Through every cd and ls, the list of the session and the one cmd_ls has on its stack are
\* linked, sorted and complete: neither touches a block of the other.
THEOREM SessionLists == WDSpec => [](SortedList /\ Complete)
<1>1. WDInit => WDInv BY WDInitInv, ConstantsAssumption
<1>2. WDInv /\ [WDNext]_allVars => WDInv'
  BY WDNextInv, ConstantsAssumption, WorkDirAssumption
<1>3. WDInv => SortedList /\ Complete
  BY ChainSorted, ChainComplete, ConstantsAssumption DEF WDInv, Lined, Contents
<1> QED BY <1>1, <1>2, <1>3, PTL DEF WDSpec

\* Between two commands the list cmd_cd left in the s_client is that of its path, or empty
\* where the path is what was typed.
THEOREM ListIsCwdCorrect == WDSpec => []ListIsCwd
<1>1. WDInit => WDInv BY WDInitInv, ConstantsAssumption
<1>2. WDInv /\ [WDNext]_allVars => WDInv'
  BY WDNextInv, ConstantsAssumption, WorkDirAssumption
<1>3. WDInv => ListIsCwd BY DEF WDInv, Shows, ListIsCwd, Ready
<1> QED BY <1>1, <1>2, <1>3, PTL DEF WDSpec

\* cmd_cd with ".." ends closer to HOME_PATH, or at "..", from where the next one leads there.
THEOREM UpGoesUpCorrect == WDSpec => UpGoesUp
<1> DEFINE Up == (at \in {"list", "relist"} /\ at' = "ready" /\ arg = <<DIR_UP>>) =>
                   \/ path' = HOME_PATH \/ Len(path') < Len(from)
                   \/ path' = <<DIR_UP>> /\ from # <<DIR_UP>>
<1>1. WDInit => WDInv BY WDInitInv, ConstantsAssumption
<1>2. WDInv /\ [WDNext]_allVars => WDInv'
  BY WDNextInv, ConstantsAssumption, WorkDirAssumption
<1>3. WDInv /\ [WDNext]_allVars => [Up]_allVars
  <2> SUFFICES ASSUME WDInv, WDNext, at \in {"list", "relist"}, at' = "ready", arg = <<DIR_UP>>
               PROVE  \/ path' = HOME_PATH \/ Len(path') < Len(from)
                      \/ path' = <<DIR_UP>> /\ from # <<DIR_UP>>
    OBVIOUS
  <2>1. path' = path
    BY DEF WDNext, Commanding, Create, Delete, Connect, Disconnect, Cd, Ls, LsJunk, Inside,
           ListHome, CdEmpty, CdList, CdBack, CdRelist, LsList, LsFails, LsShow, LsReturn,
           EmptyThen, dirs, Ready
  <2>2. CASE at = "list"
    <3>1. path = Above(from) /\ from \in Seq(Names \cup Range(HOME_PATH))
      BY <2>2 DEF WDInv, Goes
    <3> QED BY <2>1, <3>1, AboveShorter
  <2>3. CASE at = "relist" BY <2>1, <2>3 DEF WDInv, Goes
  <2> QED BY <2>2, <2>3
<1> QED BY <1>1, <1>2, <1>3, PTL DEF WDSpec, UpGoesUp
===============================================================================
