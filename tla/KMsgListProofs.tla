---------------------------- MODULE KMsgListProofs ----------------------------
(***************************************************************************)
(* Proofs about the kernel message list, for any number of printing        *)
(* threads, messages, slots and lengths.                                   *)
(***************************************************************************)
EXTENDS KMsgList, TLAPS

-------------------------------------------------------------------------------
(* The inductive invariant.                                                *)

Active(p) == pc[p] # "idle"
InWindow(p, i) == pc[p] \in Window /\ at[p] = i

\* A thread inside kp2s_add_msg carries a message of its own, not stored yet.
Identity ==
  /\ kept \subseteq printed
  /\ \A p \in Producers : Active(p) => cur[p] \in printed \ kept
  /\ \A p, q \in Producers : p # q /\ Active(p) /\ Active(q) => cur[p] # cur[q]
  /\ \A p \in Producers : pc[p] \in Window => at[p] \in Slots

\* Texts come from printed messages; the text of a message in progress is only
\* where its thread has just copied it, and nobody has taken it yet.
Fresh ==
  /\ \A i \in Slots : text[i] \in printed \cup {Blank}
  /\ \A m \in Msgs \ printed : taken[m] = 0
  /\ \A p \in Producers : Active(p) /\ cur[p] \notin contended =>
       /\ taken[cur[p]] = 0
       /\ \A i \in Slots : text[i] = cur[p] => pc[p] = "commit" /\ at[p] = i

\* A thread storing without contention has the slot to itself.
Alone ==
  \A p \in Producers : pc[p] \in Window /\ cur[p] \notin contended =>
    /\ \A q \in Producers \ {p} : ~InWindow(q, at[p])
    /\ ~DrainHas(at[p])
    /\ len[at[p]] = 0
    /\ pc[p] = "commit" => text[at[p]] = cur[p]

\* m waits in slot i and no thread is about to overwrite it.
HeldAt(i, m) == Holds(i, m) /\ \A p \in Producers : ~InWindow(p, i)

\* What is left of a message that was copied out: the slot is free, and no thread
\* is going to set its length over the old text; or the drain is about to free it.
Residue(i) ==
  \/ /\ len[i] = 0 /\ ~(cpc = "copy" /\ ci = i)
     /\ \A p \in Producers : ~(pc[p] \in {"copy", "commit"} /\ at[p] = i)
  \/ /\ cpc = "clear" /\ ci = i
     /\ \A p \in Producers : ~InWindow(p, i)

Accounted ==
  \A m \in kept \ contended :
    /\ \A i, j \in Slots : text[i] = m /\ text[j] = m => i = j
    /\ \/ taken[m] = 0 /\ \E i \in Slots : HeldAt(i, m)
       \/ taken[m] = 1 /\ \A i \in Slots : text[i] = m => Residue(i)

IInv == TypeOK /\ Identity /\ Fresh /\ Alone /\ Accounted

-------------------------------------------------------------------------------
(* Type correctness.                                                       *)

LEMMA ClampType == ASSUME NEW l \in Nat PROVE Clamp(l) \in 0 .. P2S_MSG_LEN
BY ConstantsAssumption DEF Clamp

\* The producers' variables are typed.
ProdTypes ==
  /\ pc \in [Producers -> {"idle", "scan"} \cup Window]
  /\ cur \in [Producers -> Texts] /\ n \in [Producers -> Nat]
  /\ at \in [Producers -> 0 .. MSG_MAX]

LEMMA CallAddTypes ==
  ASSUME ProdTypes, NEW p \in Producers, NEW m \in Msgs, NEW l \in Lens, CallAdd(p, m, l)
  PROVE  ProdTypes'
<1>1. l \in Nat /\ m \in Texts /\ 0 \in 0 .. MSG_MAX
  BY ConstantsAssumption DEF Texts
<1>2. pc' \in [Producers -> {"idle", "scan"} \cup Window]
  BY DEF ProdTypes, CallAdd
<1>3. cur' \in [Producers -> Texts]
  BY <1>1 DEF ProdTypes, CallAdd
<1>4. n' \in [Producers -> Nat]
  BY <1>1 DEF ProdTypes, CallAdd
<1>5. at' \in [Producers -> 0 .. MSG_MAX]
  BY <1>1 DEF ProdTypes, CallAdd
<1>6. QED
  BY <1>2, <1>3, <1>4, <1>5 DEF ProdTypes, Texts

LEMMA ReturnTypes ==
  ASSUME ProdTypes, NEW p \in Producers, Return(p)
  PROVE  ProdTypes'
<1>1. 0 \in Nat /\ Blank \in Texts /\ 0 \in 0 .. MSG_MAX
  BY ConstantsAssumption DEF Texts
<1>2. pc' \in [Producers -> {"idle", "scan"} \cup Window]
  BY DEF ProdTypes, Return
<1>3. cur' \in [Producers -> Texts]
  BY <1>1 DEF ProdTypes, Return
<1>4. n' \in [Producers -> Nat]
  BY <1>1 DEF ProdTypes, Return
<1>5. at' \in [Producers -> 0 .. MSG_MAX]
  BY <1>1 DEF ProdTypes, Return
<1>6. QED
  BY <1>2, <1>3, <1>4, <1>5 DEF ProdTypes, Texts

\* No step leaves the ranges of TypeOK.
LEMMA TypeStep == TypeOK /\ [Next]_vars => TypeOK'
<1> SUFFICES ASSUME TypeOK, [Next]_vars PROVE TypeOK'
  OBVIOUS
<1>0. ProdTypes
  BY DEF TypeOK, ProdTypes
<1>1. ASSUME NEW b \in BOOLEAN, SetReady(b) PROVE TypeOK'
  BY <1>1 DEF SetReady, TypeOK, Slots, Texts, Window, consVars, prodVars
<1>2. ASSUME NEW fd \in Fds, GetStdout(fd) PROVE TypeOK'
  BY <1>2 DEF GetStdout, TypeOK, Slots, Texts, Window, consVars, prodVars
<1>3. ASSUME NEW p \in Producers, NEW m \in Msgs, NEW l \in Lens, DebugPrintf(p, m, l)
      PROVE TypeOK'
  <2>1. ProdTypes'
    <3>1. CASE ready
      BY <1>0, <1>3, <3>1, CallAddTypes DEF DebugPrintf
    <3>2. CASE ~ready
      BY <1>0, <1>3, <3>2 DEF DebugPrintf, ProdTypes, prodVars
    <3>3. QED
      BY <3>1, <3>2
  <2>2. QED
    BY <1>3, <2>1 DEF DebugPrintf, TypeOK, ProdTypes, Slots, Texts, consVars
<1>4. ASSUME NEW p \in Producers, NEW m \in Msgs, NEW l \in Lens, NEW fd \in Fds,
             Write(p, m, fd, l)
      PROVE TypeOK'
  <2>1. ProdTypes' /\ missed' \in BOOLEAN
    <3>1. CASE fd = stdout_fd /\ ready /\ l < P2S_MSG_LEN
      BY <1>0, <1>4, <3>1, CallAddTypes DEF Write, TypeOK
    <3>2. CASE ~(fd = stdout_fd /\ ready /\ l < P2S_MSG_LEN)
      BY <1>0, <1>4, <3>2 DEF Write, ProdTypes, prodVars, TypeOK
    <3>3. QED
      BY <3>1, <3>2
  <2>2. QED
    BY <1>4, <2>1 DEF Write, TypeOK, ProdTypes, Slots, Texts, consVars
<1>5. ASSUME NEW p \in Producers, ScanFree(p) PROVE TypeOK'
  BY <1>5 DEF ScanFree, Rivals, TypeOK, Slots, Texts, Window, consVars
<1>6. ASSUME NEW p \in Producers, ScanNext(p) PROVE TypeOK'
  BY <1>6, ConstantsAssumption DEF ScanNext, TypeOK, Slots, Texts, Window, consVars
<1>7. ASSUME NEW p \in Producers, ScanFull(p) PROVE TypeOK'
  <2>1. ProdTypes'
    BY <1>0, <1>7, ReturnTypes DEF ScanFull
  <2>2. QED
    BY <1>7, <2>1 DEF ScanFull, TypeOK, ProdTypes, Slots, Texts, consVars
<1>8. ASSUME NEW p \in Producers, BlankText(p) PROVE TypeOK'
  BY <1>8 DEF BlankText, TypeOK, Slots, Texts, Window, consVars
<1>9. ASSUME NEW p \in Producers, CopyText(p) PROVE TypeOK'
  BY <1>9 DEF CopyText, TypeOK, Slots, Texts, Window, consVars
<1>10. ASSUME NEW p \in Producers, SetLen(p) PROVE TypeOK'
  <2>1. ProdTypes'
    BY <1>0, <1>10, ReturnTypes DEF SetLen
  <2>2. Clamp(n[p]) \in 0 .. P2S_MSG_LEN
    BY <1>0, ClampType DEF ProdTypes
  <2>3. len' \in [Slots -> 0 .. P2S_MSG_LEN]
    BY <1>10, <2>2 DEF SetLen, TypeOK
  <2>4. kept' \in SUBSET Texts
    BY <1>10, <1>0 DEF SetLen, TypeOK, ProdTypes
  <2>5. QED
    BY <1>10, <2>1, <2>3, <2>4 DEF SetLen, TypeOK, ProdTypes, Slots, Texts, consVars
<1>11. CASE Drain
  <2>1. CASE DrainBegin
    BY <2>1 DEF DrainBegin, TypeOK, Slots, Texts, Window, prodVars
  <2>2. CASE DrainTest
    BY <2>2, ConstantsAssumption DEF DrainTest, TypeOK, Slots, Texts, Window, prodVars
  <2>3. CASE DrainCopy
    <3>1. taken' \in [Msgs -> Nat]
      BY <2>3 DEF DrainCopy, TypeOK
    <3>2. QED
      BY <2>3, <3>1 DEF DrainCopy, TypeOK, Slots, Texts, Window, prodVars
  <2>4. CASE DrainClear
    <3>1. ci' \in 0 .. MSG_MAX /\ count' \in 0 .. ci'
      BY <2>4, ConstantsAssumption DEF DrainClear, TypeOK
    <3>2. len' \in [Slots -> 0 .. P2S_MSG_LEN]
      <4>1. 0 \in 0 .. P2S_MSG_LEN
        BY ConstantsAssumption
      <4>2. QED
        BY <2>4, <4>1 DEF DrainClear, TypeOK
    <3>3. QED
      BY <2>4, <3>1, <3>2 DEF DrainClear, TypeOK, Slots, Texts, Window, prodVars
  <2>5. CASE DrainEnd
    BY <2>5, ConstantsAssumption DEF DrainEnd, TypeOK, Slots, Texts, Window, prodVars
  <2>6. QED
    BY <1>11, <2>1, <2>2, <2>3, <2>4, <2>5 DEF Drain
<1>12. CASE UNCHANGED vars
  BY <1>12 DEF vars, TypeOK, Slots, Texts, Window, consVars, prodVars
<1>13. QED
  BY <1>1, <1>2, <1>3, <1>4, <1>5, <1>6, <1>7, <1>8, <1>9, <1>10, <1>11, <1>12
  DEF Next, Add

LEMMA TypeInit == Init => TypeOK
<1> SUFFICES ASSUME Init PROVE TypeOK
  OBVIOUS
<1>1. 0 \in Nat /\ Blank \in Texts /\ 0 \in 0 .. MSG_MAX /\ 0 \in 0 .. P2S_MSG_LEN
  BY ConstantsAssumption DEF Texts
<1>2. text \in [Slots -> Texts] /\ len \in [Slots -> 0 .. P2S_MSG_LEN]
  BY <1>1 DEF Init
<1>3. /\ pc \in [Producers -> {"idle", "scan"} \cup Window]
      /\ cur \in [Producers -> Texts] /\ n \in [Producers -> Nat]
      /\ at \in [Producers -> 0 .. MSG_MAX]
  BY <1>1 DEF Init
<1>4. ci \in 0 .. MSG_MAX /\ count \in 0 .. ci /\ cpc = "idle"
  BY <1>1 DEF Init
<1>5. taken \in [Msgs -> Nat]
  BY DEF Init
<1>6. QED
  BY <1>2, <1>3, <1>4, <1>5, ConstantsAssumption DEF Init, TypeOK

\* Every variable of the list keeps its range; the drain never writes past the
\* caller's msg_list (psp2shell_k/main.c:110-128).
THEOREM TypeCorrect == Spec => []TypeOK
BY TypeInit, TypeStep, PTL DEF Spec

-------------------------------------------------------------------------------
(* The invariant is preserved.  Rest is what it says beyond the types; each   *)
(* lemma below is one action, or one group of actions with the same effect.   *)

Rest == Identity /\ Fresh /\ Alone /\ Accounted

\* The variables the invariant reads, printed apart.
invVars == <<text, len, prodVars, cpc, ci, contended, kept, taken>>

LEMMA Frame ==
  ASSUME TypeOK, Rest, UNCHANGED invVars, printed \subseteq printed'
  PROVE  Rest'
<1> USE DEF invVars, prodVars
<1>1. Identity'
  BY DEF Rest, Identity, Active, Window
<1>2. Fresh'
  BY DEF Rest, Fresh, Active
<1>3. Alone'
  BY DEF Rest, Alone, InWindow, DrainHas
<1>4. Accounted'
  BY DEF Rest, Accounted, HeldAt, Holds, Residue, InWindow
<1>5. QED
  BY <1>1, <1>2, <1>3, <1>4 DEF Rest

\* A print enters kp2s_add_msg with a message nobody has seen.
LEMMA CallStep ==
  ASSUME TypeOK, Rest, NEW p \in Producers, NEW m \in Msgs, NEW l \in Lens,
         pc[p] = "idle", m \notin printed, CallAdd(p, m, l),
         printed' = printed \cup {m},
         UNCHANGED <<text, len, cpc, ci, contended, kept, taken>>
  PROVE  Rest'
<1>1. /\ pc'[p] = "scan" /\ cur'[p] = m
      /\ \A q \in Producers \ {p} : pc'[q] = pc[q] /\ cur'[q] = cur[q] /\ at'[q] = at[q]
  BY DEF CallAdd, TypeOK
<1>2. Identity'
  BY <1>1 DEF Rest, Identity, Active, Window, Slots
<1>3. Fresh'
  BY <1>1, ConstantsAssumption DEF Rest, Fresh, Identity, Active
<1>4. Alone'
  BY <1>1 DEF Rest, Alone, InWindow, DrainHas, Window
<1>5. Accounted'
  BY <1>1 DEF Rest, Accounted, HeldAt, Holds, Residue, InWindow, Window
<1>6. QED
  BY <1>2, <1>3, <1>4, <1>5 DEF Rest

LEMMA ScanFreeStep ==
  ASSUME TypeOK, Rest, NEW p \in Producers, ScanFree(p)
  PROVE  Rest'
<1> DEFINE s == at[p]
<1>1. /\ pc[p] = "scan" /\ pc'[p] = "blank" /\ s \in Slots /\ len[s] = 0
      /\ \A q \in Producers \ {p} : pc'[q] = pc[q]
      /\ UNCHANGED <<text, len, cur, at, cpc, ci, printed, kept, taken>>
  BY ConstantsAssumption DEF ScanFree, TypeOK, Slots, consVars
<1>2. /\ contended \subseteq contended'
      /\ \A q \in Producers \ {p} : InWindow(q, s) => cur[q] \in contended'
      /\ cur[p] \notin contended' =>
           /\ \A q \in Producers \ {p} : ~InWindow(q, s)
           /\ ~DrainHas(s)
  BY DEF ScanFree, Rivals, InWindow
<1>3. Identity'
  BY <1>1 DEF Rest, Identity, Active, Window
<1>4. Fresh'
  BY <1>1, <1>2 DEF Rest, Fresh, Active
<1>5. Alone'
  <2> SUFFICES ASSUME NEW q \in Producers, pc'[q] \in Window, cur'[q] \notin contended'
               PROVE  /\ \A r \in Producers \ {q} : ~InWindow(r, at[q])'
                      /\ ~DrainHas(at[q])'
                      /\ len'[at'[q]] = 0
                      /\ pc'[q] = "commit" => text'[at'[q]] = cur'[q]
    BY DEF Alone
  <2>1. CASE q = p
    BY <1>1, <1>2, <2>1 DEF InWindow, DrainHas, Window
  <2>2. CASE q # p
    BY <1>1, <1>2, <2>2 DEF Rest, Alone, InWindow, DrainHas, Window
  <2>3. QED
    BY <2>1, <2>2
<1>6. Accounted'
  <2> SUFFICES ASSUME NEW m \in kept \ contended
               PROVE  /\ \A i, j \in Slots : text[i] = m /\ text[j] = m => i = j
                      /\ \/ taken[m] = 0 /\ \E i \in Slots : HeldAt(i, m)'
                         \/ taken[m] = 1 /\ \A i \in Slots : text[i] = m => Residue(i)'
    BY <1>1, <1>2 DEF Accounted
  <2>1. ASSUME NEW i \in Slots, HeldAt(i, m) PROVE HeldAt(i, m)'
    BY <1>1, <2>1 DEF HeldAt, Holds, InWindow
  <2>2. ASSUME NEW i \in Slots, Residue(i) PROVE Residue(i)'
    BY <1>1, <2>2 DEF Residue, InWindow, Window
  <2>3. QED
    BY <2>1, <2>2 DEF Rest, Accounted
<1>7. QED
  BY <1>3, <1>4, <1>5, <1>6 DEF Rest

\* Moving on to the next slot, or leaving the list without a slot.
LEMMA ScanOnStep ==
  ASSUME TypeOK, Rest, NEW p \in Producers, ScanNext(p) \/ ScanFull(p)
  PROVE  Rest'
<1>1. /\ pc[p] = "scan" /\ pc'[p] \notin Window
      /\ pc'[p] # "idle" => cur'[p] = cur[p]
      /\ \A q \in Producers \ {p} : pc'[q] = pc[q] /\ cur'[q] = cur[q] /\ at'[q] = at[q]
      /\ UNCHANGED <<text, len, cpc, ci, printed, contended, kept, taken>>
  BY DEF ScanNext, ScanFull, Return, TypeOK, consVars, Window
<1>2. Identity'
  BY <1>1 DEF Rest, Identity, Active, Window, Slots
<1>3. Fresh'
  BY <1>1 DEF Rest, Fresh, Active, Window
<1>4. Alone'
  BY <1>1 DEF Rest, Alone, InWindow, DrainHas
<1>5. Accounted'
  BY <1>1 DEF Rest, Accounted, HeldAt, Holds, Residue, InWindow, Window
<1>6. QED
  BY <1>2, <1>3, <1>4, <1>5 DEF Rest

LEMMA BlankTextStep ==
  ASSUME TypeOK, Rest, NEW p \in Producers, BlankText(p)
  PROVE  Rest'
<1> DEFINE s == at[p]
<1>1. /\ pc[p] = "blank" /\ pc'[p] = "copy" /\ s \in Slots
      /\ \A q \in Producers \ {p} : pc'[q] = pc[q]
      /\ text'[s] = Blank /\ \A i \in Slots \ {s} : text'[i] = text[i]
      /\ UNCHANGED <<len, cur, at, cpc, ci, printed, contended, kept, taken>>
  BY DEF BlankText, TypeOK, consVars, Rest, Identity, Window
<1>2. /\ \A q \in Producers : Active(q) => cur[q] # Blank
      /\ \A m \in kept : m # Blank
  BY ConstantsAssumption DEF TypeOK, Rest, Identity
<1>3. Identity'
  BY <1>1 DEF Rest, Identity, Active, Window
<1>4. Fresh'
  BY <1>1, <1>2 DEF Rest, Fresh, Active
<1>5. Alone'
  BY <1>1 DEF Rest, Alone, Identity, InWindow, DrainHas, Window
<1>6. Accounted'
  <2> SUFFICES ASSUME NEW m \in kept \ contended
               PROVE  /\ \A i, j \in Slots : text'[i] = m /\ text'[j] = m => i = j
                      /\ \/ taken[m] = 0 /\ \E i \in Slots : HeldAt(i, m)'
                         \/ taken[m] = 1 /\ \A i \in Slots : text'[i] = m => Residue(i)'
    BY <1>1 DEF Accounted
  <2>1. \A i \in Slots : text'[i] = m => i # s /\ text[i] = m
    BY <1>1, <1>2
  <2>2. ASSUME NEW i \in Slots, HeldAt(i, m) PROVE HeldAt(i, m)'
    BY <1>1, <2>2 DEF HeldAt, Holds, InWindow, Window
  <2>3. ASSUME NEW i \in Slots, Residue(i), i # s PROVE Residue(i)'
    BY <1>1, <2>3 DEF Residue, InWindow, Window
  <2>4. QED
    BY <2>1, <2>2, <2>3 DEF Rest, Accounted
<1>7. QED
  BY <1>3, <1>4, <1>5, <1>6 DEF Rest

LEMMA CopyTextStep ==
  ASSUME TypeOK, Rest, NEW p \in Producers, CopyText(p)
  PROVE  Rest'
<1> DEFINE s == at[p]
<1>1. /\ pc[p] = "copy" /\ pc'[p] = "commit" /\ s \in Slots
      /\ \A q \in Producers \ {p} : pc'[q] = pc[q]
      /\ text'[s] = cur[p] /\ \A i \in Slots \ {s} : text'[i] = text[i]
      /\ UNCHANGED <<len, cur, at, cpc, ci, printed, contended, kept, taken>>
  BY DEF CopyText, TypeOK, consVars, Rest, Identity, Window
<1>2. cur[p] \in printed \ kept
  BY <1>1 DEF Rest, Identity, Active
<1>3. Identity'
  BY <1>1 DEF Rest, Identity, Active, Window
<1>4. Fresh'
  <2>1. \A i \in Slots : text'[i] \in printed' \cup {Blank}
    BY <1>1, <1>2 DEF Rest, Fresh
  <2>2. ASSUME NEW q \in Producers, Active(q)', cur'[q] \notin contended'
        PROVE  /\ taken'[cur'[q]] = 0
               /\ \A i \in Slots : text'[i] = cur'[q] => pc'[q] = "commit" /\ at'[q] = i
    BY <1>1, <2>2 DEF Rest, Fresh, Identity, Active
  <2>3. QED
    BY <1>1, <2>1, <2>2 DEF Rest, Fresh
<1>5. Alone'
  BY <1>1 DEF Rest, Alone, Identity, InWindow, DrainHas, Window
<1>6. Accounted'
  <2> SUFFICES ASSUME NEW m \in kept \ contended
               PROVE  /\ \A i, j \in Slots : text'[i] = m /\ text'[j] = m => i = j
                      /\ \/ taken[m] = 0 /\ \E i \in Slots : HeldAt(i, m)'
                         \/ taken[m] = 1 /\ \A i \in Slots : text'[i] = m => Residue(i)'
    BY <1>1 DEF Accounted
  <2>1. \A i \in Slots : text'[i] = m => i # s /\ text[i] = m
    BY <1>1, <1>2
  <2>2. ASSUME NEW i \in Slots, HeldAt(i, m) PROVE HeldAt(i, m)'
    BY <1>1, <2>2 DEF HeldAt, Holds, InWindow, Window
  <2>3. ASSUME NEW i \in Slots, Residue(i), i # s PROVE Residue(i)'
    BY <1>1, <2>3 DEF Residue, InWindow, Window
  <2>4. QED
    BY <2>1, <2>2, <2>3 DEF Rest, Accounted
<1>7. QED
  BY <1>3, <1>4, <1>5, <1>6 DEF Rest

LEMMA SetLenStep ==
  ASSUME TypeOK, Rest, NEW p \in Producers, SetLen(p)
  PROVE  Rest'
<1> DEFINE s == at[p]
           new == Clamp(n[p])
<1>1. /\ pc[p] = "commit" /\ pc'[p] = "idle" /\ s \in Slots
      /\ \A q \in Producers \ {p} : pc'[q] = pc[q] /\ cur'[q] = cur[q] /\ at'[q] = at[q]
      /\ len'[s] = new /\ \A i \in Slots \ {s} : len'[i] = len[i]
      /\ UNCHANGED <<text, cpc, ci, printed, contended, taken>>
  BY DEF SetLen, Return, TypeOK, consVars, Rest, Identity, Window
<1>2. /\ new > 0 => kept' = kept \cup {cur[p]}
      /\ ~(new > 0) => kept' = kept
  BY DEF SetLen
<1>3. Identity'
  BY <1>1, <1>2 DEF Rest, Identity, Active, Window, Slots
<1>4. Fresh'
  BY <1>1 DEF Rest, Fresh, Active
<1>5. Alone'
  BY <1>1 DEF Rest, Alone, Identity, InWindow, DrainHas, Window
<1>6. Accounted'
  <2> SUFFICES ASSUME NEW m \in kept' \ contended
               PROVE  /\ \A i, j \in Slots : text[i] = m /\ text[j] = m => i = j
                      /\ \/ taken[m] = 0 /\ \E i \in Slots : HeldAt(i, m)'
                         \/ taken[m] = 1 /\ \A i \in Slots : text[i] = m => Residue(i)'
    BY <1>1 DEF Accounted
  <2>1. CASE m \in kept
    <3>1. ASSUME NEW i \in Slots, HeldAt(i, m) PROVE HeldAt(i, m)'
      BY <1>1, <3>1 DEF HeldAt, Holds, InWindow, Window
    <3>2. ASSUME NEW i \in Slots, Residue(i) PROVE Residue(i)'
      BY <1>1, <3>2 DEF Residue, InWindow, Window
    <3>3. QED
      BY <2>1, <3>1, <3>2 DEF Rest, Accounted
  <2>2. CASE m \notin kept
    <3>1. m = cur[p] /\ new > 0 /\ Active(p) /\ pc[p] \in Window
      BY <1>1, <1>2, <2>2 DEF Active, Window
    <3>2. /\ taken[m] = 0 /\ text[s] = m
          /\ \A i \in Slots : text[i] = m => i = s
      BY <1>1, <3>1 DEF Rest, Fresh, Alone
    <3>3. ASSUME NEW i \in Slots, i = s PROVE HeldAt(i, m)'
      <4>1. len'[i] > 0 /\ text'[i] = m
        BY <1>1, <3>1, <3>2, <3>3
      <4>2. ~(cpc' = "clear" /\ ci' = i)
        BY <1>1, <3>1, <3>3 DEF Rest, Alone, DrainHas
      <4>3. \A q \in Producers : ~(pc'[q] \in Window /\ at'[q] = i)
        BY <1>1, <3>1, <3>3 DEF Rest, Alone, InWindow, Window
      <4>4. QED
        BY <4>1, <4>2, <4>3 DEF HeldAt, Holds, InWindow
    <3>4. QED
      BY <1>1, <3>2, <3>3
  <2>3. QED
    BY <2>1, <2>2
<1>7. QED
  BY <1>3, <1>4, <1>5, <1>6 DEF Rest

\* The drain begins, ends, skips a free slot, or turns to an occupied one.
LEMMA DrainMoveStep ==
  ASSUME TypeOK, Rest, DrainBegin \/ DrainTest \/ DrainEnd
  PROVE  Rest'
<1>1. /\ cpc \in {"idle", "test"}
      /\ \/ cpc' \in {"idle", "test"}
         \/ cpc' = "copy" /\ ci' = ci /\ len[ci] > 0
      /\ UNCHANGED <<text, len, pc, cur, at, printed, contended, kept, taken>>
  <2>1. CASE DrainBegin
    BY <2>1 DEF DrainBegin, prodVars
  <2>2. CASE DrainTest
    BY <2>2 DEF DrainTest, prodVars
  <2>3. CASE DrainEnd
    BY <2>3 DEF DrainEnd, prodVars
  <2>4. QED
    BY <2>1, <2>2, <2>3
<1>2. Identity'
  BY <1>1 DEF Rest, Identity, Active, Window
<1>3. Fresh'
  BY <1>1 DEF Rest, Fresh, Active
<1>4. Alone'
  BY <1>1 DEF Rest, Alone, InWindow, DrainHas
<1>5. Accounted'
  BY <1>1 DEF Rest, Accounted, HeldAt, Holds, Residue, InWindow
<1>6. QED
  BY <1>2, <1>3, <1>4, <1>5 DEF Rest

LEMMA DrainCopyStep ==
  ASSUME TypeOK, Rest, DrainCopy
  PROVE  Rest'
<1>1. /\ cpc = "copy" /\ cpc' = "clear" /\ ci \in Slots
      /\ \A m \in Msgs : taken'[m] = IF text[ci] = m THEN taken[m] + 1 ELSE taken[m]
      /\ UNCHANGED <<text, len, pc, cur, at, ci, printed, contended, kept>>
  BY ConstantsAssumption DEF DrainCopy, TypeOK, Slots, prodVars
<1>2. Identity'
  BY <1>1 DEF Rest, Identity, Active, Window
<1>3. Fresh'
  <2>1. \A m \in Msgs \ printed' : taken'[m] = 0
    BY <1>1, ConstantsAssumption DEF Rest, Fresh
  <2>2. ASSUME NEW q \in Producers, Active(q), cur[q] \notin contended
        PROVE  taken'[cur[q]] = 0
    <3>1. cur[q] \in Msgs /\ taken[cur[q]] = 0
      BY <2>2 DEF Rest, Identity, Fresh, TypeOK
    <3>2. text[ci] # cur[q]
      BY <1>1, <2>2 DEF Rest, Fresh, Alone, DrainHas, Window
    <3>3. QED
      BY <1>1, <3>1, <3>2
  <2>3. QED
    BY <1>1, <2>1, <2>2 DEF Rest, Fresh, Active
<1>4. Alone'
  BY <1>1 DEF Rest, Alone, InWindow, DrainHas
<1>5. Accounted'
  <2> SUFFICES ASSUME NEW m \in kept \ contended
               PROVE  /\ \A i, j \in Slots : text[i] = m /\ text[j] = m => i = j
                      /\ \/ taken'[m] = 0 /\ \E i \in Slots : HeldAt(i, m)'
                         \/ taken'[m] = 1 /\ \A i \in Slots : text[i] = m => Residue(i)'
    BY <1>1 DEF Accounted
  <2>0. m \in Msgs
    BY DEF Rest, Identity, TypeOK
  <2>1. CASE text[ci] = m
    <3>1. ~Residue(ci)
      BY <1>1 DEF Residue
    <3>2. taken[m] = 0 /\ \E i \in Slots : HeldAt(i, m)
      BY <1>1, <2>1, <3>1 DEF Rest, Accounted
    <3>3. HeldAt(ci, m) /\ \A i \in Slots : text[i] = m => i = ci
      BY <1>1, <2>1, <3>2 DEF Rest, Accounted, HeldAt, Holds
    <3>4. Residue(ci)'
      BY <1>1, <3>3 DEF HeldAt, Residue, InWindow
    <3>5. taken'[m] = 1
      BY <1>1, <2>0, <2>1, <3>2
    <3>6. QED
      BY <1>1, <3>3, <3>4, <3>5
  <2>2. CASE text[ci] # m
    <3>1. taken'[m] = taken[m]
      BY <1>1, <2>0, <2>2
    <3>2. ASSUME NEW i \in Slots, HeldAt(i, m) PROVE HeldAt(i, m)'
      BY <1>1, <2>2, <3>2 DEF HeldAt, Holds, InWindow
    <3>3. ASSUME NEW i \in Slots, Residue(i) PROVE Residue(i)'
      BY <1>1, <3>3 DEF Residue, InWindow
    <3>4. QED
      BY <3>1, <3>2, <3>3 DEF Rest, Accounted
  <2>3. QED
    BY <2>1, <2>2
<1>6. QED
  BY <1>2, <1>3, <1>4, <1>5 DEF Rest

LEMMA DrainClearStep ==
  ASSUME TypeOK, Rest, DrainClear
  PROVE  Rest'
<1>1. /\ cpc = "clear" /\ cpc' = "test" /\ ci \in Slots
      /\ len'[ci] = 0 /\ \A i \in Slots \ {ci} : len'[i] = len[i]
      /\ UNCHANGED <<text, pc, cur, at, printed, contended, kept, taken>>
  BY ConstantsAssumption DEF DrainClear, TypeOK, Slots, prodVars
<1>2. Identity'
  BY <1>1 DEF Rest, Identity, Active, Window
<1>3. Fresh'
  BY <1>1 DEF Rest, Fresh, Active
<1>4. Alone'
  BY <1>1 DEF Rest, Identity, Alone, InWindow, DrainHas
<1>5. Accounted'
  <2>1. ASSUME NEW i \in Slots, NEW m \in Texts, HeldAt(i, m) PROVE HeldAt(i, m)'
    BY <1>1, <2>1 DEF HeldAt, Holds, InWindow
  <2>2. ASSUME NEW i \in Slots, Residue(i) PROVE Residue(i)'
    BY <1>1, <2>2 DEF Residue, InWindow, Window
  <2>3. QED
    BY <1>1, <2>1, <2>2 DEF Rest, Accounted, TypeOK
<1>6. QED
  BY <1>2, <1>3, <1>4, <1>5 DEF Rest

LEMMA RestInit == Init => Rest
<1> SUFFICES ASSUME Init PROVE Rest
  OBVIOUS
<1>1. Identity
  BY DEF Init, Identity, Active, Window
<1>2. Fresh
  BY DEF Init, Fresh, Active
<1>3. Alone
  BY DEF Init, Alone, Window
<1>4. Accounted
  BY DEF Init, Accounted
<1>5. QED
  BY <1>1, <1>2, <1>3, <1>4 DEF Rest

LEMMA RestStep == TypeOK /\ Rest /\ [Next]_vars => Rest'
<1> SUFFICES ASSUME TypeOK, Rest, [Next]_vars PROVE Rest'
  OBVIOUS
<1>1. ASSUME NEW b \in BOOLEAN, SetReady(b) PROVE Rest'
  BY <1>1, Frame DEF SetReady, invVars, consVars
<1>2. ASSUME NEW fd \in Fds, GetStdout(fd) PROVE Rest'
  BY <1>2, Frame DEF GetStdout, invVars, consVars
<1>3. ASSUME NEW p \in Producers, NEW m \in Msgs, NEW l \in Lens, DebugPrintf(p, m, l)
      PROVE Rest'
  <2>1. CASE ready
    BY <1>3, <2>1, CallStep DEF DebugPrintf, consVars
  <2>2. CASE ~ready
    BY <1>3, <2>2, Frame DEF DebugPrintf, invVars, consVars
  <2>3. QED
    BY <2>1, <2>2
<1>4. ASSUME NEW p \in Producers, NEW m \in Msgs, NEW l \in Lens, NEW fd \in Fds,
             Write(p, m, fd, l)
      PROVE Rest'
  <2>1. CASE fd = stdout_fd /\ ready /\ l < P2S_MSG_LEN
    BY <1>4, <2>1, CallStep DEF Write, consVars
  <2>2. CASE ~(fd = stdout_fd /\ ready /\ l < P2S_MSG_LEN)
    BY <1>4, <2>2, Frame DEF Write, invVars, consVars
  <2>3. QED
    BY <2>1, <2>2
<1>5. ASSUME NEW p \in Producers, Add(p) PROVE Rest'
  BY <1>5, ScanFreeStep, ScanOnStep, BlankTextStep, CopyTextStep, SetLenStep DEF Add
<1>6. CASE Drain
  BY <1>6, DrainMoveStep, DrainCopyStep, DrainClearStep DEF Drain
<1>7. CASE UNCHANGED vars
  BY <1>7, Frame DEF vars, invVars, consVars
<1>8. QED
  BY <1>1, <1>2, <1>3, <1>4, <1>5, <1>6, <1>7 DEF Next

\* IInv is inductive.
THEOREM InvariantCorrect == Spec => []IInv
<1>1. Init => IInv
  BY TypeInit, RestInit DEF IInv, Rest
<1>2. IInv /\ [Next]_vars => IInv'
  BY TypeStep, RestStep DEF IInv, Rest
<1>3. QED
  BY <1>1, <1>2, PTL DEF Spec

\* A message stored while no other thread had its slot in hand is waiting in a slot
\* or was copied out, exactly once (psp2shell_k/main.c:42-52 against 110-128).
THEOREM KeptExactlyOnce == Spec => []ExactlyOnce
<1>1. IInv => ExactlyOnce
  <2> SUFFICES ASSUME IInv, NEW m \in kept \ contended
               PROVE  \/ taken[m] = 0 /\ \E i \in Slots : Holds(i, m)
                      \/ taken[m] = 1 /\ \A i \in Slots : ~Holds(i, m)
    BY DEF ExactlyOnce
  <2>1. \A i \in Slots : Residue(i) => ~Holds(i, m)
    BY DEF Residue, Holds
  <2>2. QED
    BY <2>1 DEF IInv, Accounted, HeldAt, Holds
<1>2. QED
  BY <1>1, InvariantCorrect, PTL

-------------------------------------------------------------------------------
(* The list implements the abstract log.                                   *)

LEMMA SeenFrame ==
  ASSUME \A m \in Msgs : Seen(m)' = Seen(m)
  PROVE  SeenState' = SeenState
BY DEF SeenState

\* Every step is a step of the log or none: only setting a length keeps a message,
\* only the drain's copy hands one over.
LEMMA PipeStep ==
  ASSUME TypeOK, Rest, [Next]_vars
  PROVE  [Pipe!Next]_SeenState
<1>1. ASSUME UNCHANGED <<kept, contended, taken>> PROVE SeenState' = SeenState
  BY <1>1, SeenFrame DEF Seen
<1>2. ASSUME NEW p \in Producers, ScanFree(p) PROVE SeenState' = SeenState
  <2>1. /\ kept' = kept /\ taken' = taken
        /\ \A m \in kept : m \in contended' <=> m \in contended
    BY <1>2 DEF ScanFree, Rivals, Rest, Identity, Active, Window
  <2>2. QED
    BY <2>1, SeenFrame DEF Seen
<1>3. ASSUME NEW p \in Producers, SetLen(p) PROVE [Pipe!Next]_SeenState
  <2>1. cur[p] \in Msgs /\ cur[p] \notin kept /\ contended' = contended /\ taken' = taken
    BY <1>3 DEF SetLen, TypeOK, Rest, Identity, Active
  <2>2. CASE kept' = kept
    BY <1>1, <2>1, <2>2
  <2>3. CASE kept' = kept \cup {cur[p]} /\ cur[p] \in contended
    BY <2>1, <2>3, SeenFrame DEF Seen
  <2>4. CASE kept' = kept \cup {cur[p]} /\ cur[p] \notin contended
    <3>1. taken[cur[p]] = 0
      BY <1>3, <2>4 DEF SetLen, Rest, Fresh, Active
    <3>2. Pipe!Keep(cur[p])
      BY <2>1, <2>4, <3>1 DEF Pipe!Keep, SeenState, Seen
    <3>3. QED
      BY <2>1, <3>2 DEF Pipe!Next
  <2>5. QED
    BY <1>3, <2>2, <2>3, <2>4 DEF SetLen
<1>4. ASSUME DrainCopy PROVE [Pipe!Next]_SeenState
  <2> DEFINE m == text[ci]
  <2>1. /\ cpc = "copy" /\ ci \in Slots /\ kept' = kept /\ contended' = contended
        /\ \A k \in Msgs : taken'[k] = IF m = k THEN taken[k] + 1 ELSE taken[k]
    BY <1>4, ConstantsAssumption DEF DrainCopy, TypeOK, Slots
  <2>2. CASE m \in Msgs /\ m \in kept \ contended
    <3>1. taken[m] = 0
      BY <2>1, <2>2 DEF Rest, Accounted, Residue
    <3>2. taken'[m] = 1
      BY <2>1, <2>2, <3>1
    <3>3. Pipe!HandOver(m)
      BY <2>1, <2>2, <3>1, <3>2 DEF Pipe!HandOver, SeenState, Seen
    <3>4. QED
      BY <2>2, <3>3 DEF Pipe!Next
  <2>3. CASE ~(m \in Msgs /\ m \in kept \ contended)
    BY <2>1, <2>3, SeenFrame DEF Seen
  <2>4. QED
    BY <2>2, <2>3
<1>5. ASSUME NEW p \in Producers, Add(p) PROVE [Pipe!Next]_SeenState
  BY <1>1, <1>2, <1>3, <1>5 DEF Add, ScanNext, ScanFull, BlankText, CopyText, consVars
<1>6. CASE Drain
  BY <1>1, <1>4, <1>6 DEF Drain, DrainBegin, DrainTest, DrainClear, DrainEnd
<1>7. ASSUME NEW p \in Producers, NEW k \in Msgs, NEW l \in Lens,
             DebugPrintf(p, k, l) \/ \E fd \in Fds : Write(p, k, fd, l)
      PROVE  SeenState' = SeenState
  BY <1>1, <1>7 DEF DebugPrintf, Write
<1>8. CASE (\E b \in BOOLEAN : SetReady(b)) \/ (\E fd \in Fds : GetStdout(fd))
  BY <1>1, <1>8 DEF SetReady, GetStdout
<1>9. CASE UNCHANGED vars
  BY <1>1, <1>9 DEF vars
<1>10. QED
  BY <1>5, <1>6, <1>7, <1>8, <1>9 DEF Next

\* Seen through its uncontended messages, the kernel list is the abstract log: a
\* message is kept once, handed over at most once, and never forgotten in between.
THEOREM ImplementsLogPipe == Spec => Pipe!Safety
<1>1. Init => Pipe!Init
  BY DEF Init, Pipe!Init, SeenState, Seen
<1>2. TypeOK /\ Rest /\ [Next]_vars => [Pipe!Next]_SeenState
  BY PipeStep
<1>3. IInv => TypeOK /\ Rest
  BY DEF IInv, Rest
<1>4. QED
  BY <1>1, <1>2, <1>3, InvariantCorrect, PTL DEF Spec, Pipe!Safety
===============================================================================
