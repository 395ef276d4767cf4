----------------------------- MODULE FileOpsProofs -----------------------------
(***************************************************************************)
(* Proofs about FileOps, for every set of paths and every file system over *)
(* them.                                                                   *)
(*                                                                         *)
(* First what holds of paths: Under is an order in which the paths above a *)
(* path form a chain, and Moved carries what is under one path over to     *)
(* what is under another and back.                                         *)
(***************************************************************************)
EXTENDS FileOps, SequenceTheorems, WellFoundedInduction, TLAPS

-------------------------------------------------------------------------------
(* Paths.                                                                  *)

\* One path is under another if it begins with its names.
LEMMA UnderDef ==
  ASSUME NEW S, NEW p \in Seq(S), NEW q \in Seq(S)
  PROVE  Under(p, q) <=> Len(p) <= Len(q) /\ \A i \in 1 .. Len(p) : p[i] = q[i]
<1>1. /\ Len(p) \in Nat /\ Len(q) \in Nat
      /\ \A i \in 1 .. Len(p) : p[i] \in S
      /\ \A i \in 1 .. Len(q) : q[i] \in S
  BY ElementOfSeq
<1>2. SubSeq(p, 1, Len(p)) = p BY SubSeqFull
<1>3. ASSUME Len(p) <= Len(q)
      PROVE  /\ SubSeq(q, 1, Len(p)) \in Seq(S) /\ Len(SubSeq(q, 1, Len(p))) = Len(p)
             /\ \A i \in 1 .. Len(p) : SubSeq(q, 1, Len(p))[i] = q[i]
  BY <1>1, <1>3
<1>4. ASSUME Len(p) <= Len(q), \A i \in 1 .. Len(p) : p[i] = q[i]
      PROVE  p = SubSeq(q, 1, Len(p))
  BY <1>1, <1>3, <1>4, SeqEqual
<1> QED BY <1>1, <1>2, <1>3, <1>4 DEF Under, IsPrefix

LEMMA UnderOrder ==
  ASSUME NEW S, NEW p \in Seq(S), NEW q \in Seq(S), NEW r \in Seq(S)
  PROVE  /\ Under(p, p) /\ Under(<<>>, p)
         /\ Under(p, q) /\ Under(q, r) => Under(p, r)
         /\ Under(p, q) /\ Under(q, p) => p = q
         /\ Under(p, r) /\ Under(q, r) => Under(p, q) \/ Under(q, p)
         /\ Under(p, q) => Len(p) <= Len(q) /\ (p # q => Len(p) < Len(q))
<1>1. Len(p) \in Nat /\ Len(q) \in Nat /\ Len(r) \in Nat OBVIOUS
<1>2. Under(p, p) BY <1>1, UnderDef
<1>3. Under(<<>>, p)
  <2>1. <<>> \in Seq(S) /\ Len(<<>>) = 0 BY EmptySeq
  <2>2. Len(<<>>) <= Len(p) /\ \A i \in 1 .. Len(<<>>) : <<>>[i] = p[i] BY <1>1, <2>1
  <2> QED BY <2>1, <2>2, UnderDef, Zenon
<1>4. ASSUME Under(p, q), Under(q, r) PROVE Under(p, r)
  BY <1>1, <1>4, UnderDef
<1>5. ASSUME Under(p, q), Len(p) = Len(q) PROVE p = q
  BY <1>5, UnderDef, SeqEqual
<1>6. ASSUME Under(p, q) PROVE Len(p) <= Len(q)
  BY <1>6, UnderDef
<1>7. ASSUME Under(q, p) PROVE Len(q) <= Len(p)
  BY <1>7, UnderDef
<1>8. ASSUME Under(p, r), Under(q, r) PROVE Under(p, q) \/ Under(q, p)
  <2>1. /\ Len(p) <= Len(r) /\ \A i \in 1 .. Len(p) : p[i] = r[i]
        /\ Len(q) <= Len(r) /\ \A i \in 1 .. Len(q) : q[i] = r[i]
    BY <1>8, UnderDef
  <2>2. CASE Len(p) <= Len(q)
    <3>1. \A i \in 1 .. Len(p) : p[i] = q[i] BY <1>1, <2>1, <2>2
    <3> QED BY <2>2, <3>1, UnderDef
  <2>3. CASE Len(q) <= Len(p)
    <3>1. \A i \in 1 .. Len(q) : q[i] = p[i] BY <1>1, <2>1, <2>3
    <3> QED BY <2>3, <3>1, UnderDef
  <2> QED BY <1>1, <2>2, <2>3
<1> QED BY <1>1, <1>2, <1>3, <1>4, <1>5, <1>6, <1>7, <1>8

\* The names of a path that is moved.
IsMoved(m, q, s, d) ==
  /\ Len(m) = Len(d) + (Len(q) - Len(s))
  /\ \A i \in 1 .. Len(m) : m[i] = IF i <= Len(d) THEN d[i] ELSE q[Len(s) + (i - Len(d))]

LEMMA MovedDef ==
  ASSUME NEW S, NEW s \in Seq(S), NEW d \in Seq(S), NEW q \in Seq(S), Under(s, q)
  PROVE  Moved(q, s, d) \in Seq(S) /\ IsMoved(Moved(q, s, d), q, s, d)
<1> DEFINE e == SubSeq(q, Len(s) + 1, Len(q))
<1>1. Len(s) \in Nat /\ Len(d) \in Nat /\ Len(q) \in Nat /\ Len(s) <= Len(q) BY UnderDef
<1>2. \A i \in Len(s) + 1 .. Len(q) : q[i] \in S
  <2>1. \A i \in Len(s) + 1 .. Len(q) : i \in 1 .. Len(q) BY <1>1
  <2> QED BY <2>1, ElementOfSeq
<1>3. Len(s) + 1 \in Int /\ Len(q) \in Int BY <1>1
<1>4. /\ e \in Seq(S) /\ Len(e) = (IF Len(s) + 1 <= Len(q) THEN Len(q) - (Len(s) + 1) + 1 ELSE 0)
      /\ \A i \in 1 .. Len(q) - (Len(s) + 1) + 1 : e[i] = q[(Len(s) + 1) + i - 1]
  BY <1>2, <1>3, SubSeqProperties
<1>5. Len(e) = Len(q) - Len(s) /\ \A i \in 1 .. Len(e) : e[i] = q[Len(s) + i] BY <1>1, <1>4
<1> HIDE DEF e
<1>6. /\ d \o e \in Seq(S) /\ Len(d \o e) = Len(d) + Len(e)
      /\ \A i \in 1 .. Len(d) + Len(e) : (d \o e)[i] = IF i <= Len(d) THEN d[i] ELSE e[i - Len(d)]
  BY <1>4, ConcatProperties
<1>7. Moved(q, s, d) = d \o e BY DEF Moved, e
<1>8. Len(d \o e) = Len(d) + (Len(q) - Len(s)) BY <1>5, <1>6
<1>9. ASSUME NEW i \in 1 .. Len(d \o e), ~(i <= Len(d))
      PROVE  (d \o e)[i] = q[Len(s) + (i - Len(d))]
  <2>1. i \in 1 .. Len(d) + Len(e) /\ i - Len(d) \in 1 .. Len(e) BY <1>1, <1>5, <1>6, <1>9
  <2> QED BY <1>5, <1>6, <1>9, <2>1
<1>10. \A i \in 1 .. Len(d \o e) : i <= Len(d) => (d \o e)[i] = d[i] BY <1>6
<1> QED BY <1>6, <1>7, <1>8, <1>9, <1>10 DEF IsMoved

\* Moved leads below the destination, keeps the order and can be undone.
LEMMA MovedBack ==
  ASSUME NEW S, NEW s \in Seq(S), NEW d \in Seq(S), NEW q \in Seq(S), Under(s, q)
  PROVE  /\ Moved(q, s, d) \in Seq(S) /\ Under(d, Moved(q, s, d))
         /\ Moved(s, s, d) = d /\ Moved(Moved(q, s, d), d, s) = q
<1> DEFINE m == Moved(q, s, d)
           b == Moved(m, d, s)
<1>1. Len(s) \in Nat /\ Len(d) \in Nat /\ Len(q) \in Nat /\ Len(s) <= Len(q)
      /\ \A i \in 1 .. Len(s) : s[i] = q[i]
  BY UnderDef
<1>2. /\ m \in Seq(S) /\ Len(m) = Len(d) + (Len(q) - Len(s))
      /\ \A i \in 1 .. Len(m) : m[i] = IF i <= Len(d) THEN d[i] ELSE q[Len(s) + (i - Len(d))]
  <2>1. m \in Seq(S) /\ IsMoved(m, q, s, d) BY MovedDef
  <2> HIDE DEF m
  <2> QED BY <2>1 DEF IsMoved
<1> HIDE DEF m
<1>3. Under(d, m)
  <2>1. \A i \in 1 .. Len(d) : i \in 1 .. Len(m) /\ d[i] = m[i] BY <1>1, <1>2
  <2>2. Len(d) <= Len(m) BY <1>1, <1>2
  <2> QED BY <1>2, <2>1, <2>2, UnderDef
<1>4. /\ b \in Seq(S) /\ Len(b) = Len(s) + (Len(m) - Len(d))
      /\ \A i \in 1 .. Len(b) : b[i] = IF i <= Len(s) THEN s[i] ELSE m[Len(d) + (i - Len(s))]
  <2>1. b \in Seq(S) /\ IsMoved(b, m, d, s) BY <1>2, <1>3, MovedDef
  <2> HIDE DEF b
  <2> QED BY <2>1 DEF IsMoved
<1> HIDE DEF b
<1>5. Len(b) = Len(q) BY <1>1, <1>2, <1>4
<1>6. ASSUME NEW i \in 1 .. Len(b) PROVE b[i] = q[i]
  <2>1. CASE i <= Len(s)
    <3>1. i \in 1 .. Len(s) BY <1>1, <1>5, <2>1
    <3> QED BY <1>1, <1>4, <2>1, <3>1
  <2>2. CASE ~(i <= Len(s))
    <3>1. /\ Len(d) + (i - Len(s)) \in 1 .. Len(m) /\ ~(Len(d) + (i - Len(s)) <= Len(d))
          /\ Len(s) + ((Len(d) + (i - Len(s))) - Len(d)) = i
      BY <1>1, <1>2, <1>5, <2>2
    <3>2. b[i] = m[Len(d) + (i - Len(s))] BY <1>4, <2>2
    <3> QED BY <1>2, <3>1, <3>2
  <2> QED BY <2>1, <2>2
<1>7. b = q BY <1>4, <1>5, <1>6, SeqEqual
<1>8. Moved(s, s, d) = d
  <2> DEFINE t == Moved(s, s, d)
  <2>1. Under(s, s) BY UnderOrder
  <2>2. /\ t \in Seq(S) /\ Len(t) = Len(d) + (Len(s) - Len(s))
        /\ \A i \in 1 .. Len(t) : t[i] = IF i <= Len(d) THEN d[i] ELSE s[Len(s) + (i - Len(d))]
    <3>1. t \in Seq(S) /\ IsMoved(t, s, s, d) BY <2>1, MovedDef
    <3> HIDE DEF t
    <3> QED BY <3>1 DEF IsMoved
  <2> HIDE DEF t
  <2>3. Len(t) = Len(d) /\ \A i \in 1 .. Len(t) : t[i] = d[i] BY <1>1, <2>2
  <2>4. t = d BY <2>2, <2>3, SeqEqual
  <2> QED BY <2>4 DEF t
<1> QED BY <1>2, <1>3, <1>7, <1>8 DEF m, b

LEMMA MovedUnder ==
  ASSUME NEW S, NEW s \in Seq(S), NEW d \in Seq(S), NEW q \in Seq(S), NEW r \in Seq(S),
         Under(s, q), Under(q, r)
  PROVE  /\ Under(Moved(q, s, d), Moved(r, s, d))
         /\ Moved(r, q, Moved(q, s, d)) = Moved(r, s, d)
<1> DEFINE m == Moved(q, s, d)
           n == Moved(r, s, d)
           o == Moved(r, q, m)
<1>1. Len(s) \in Nat /\ Len(d) \in Nat /\ Len(q) \in Nat /\ Len(r) \in Nat
      /\ Len(s) <= Len(q) /\ Len(q) <= Len(r) /\ \A i \in 1 .. Len(q) : q[i] = r[i]
  BY UnderDef
<1>2. /\ m \in Seq(S) /\ Len(m) = Len(d) + (Len(q) - Len(s))
      /\ \A i \in 1 .. Len(m) : m[i] = IF i <= Len(d) THEN d[i] ELSE q[Len(s) + (i - Len(d))]
  <2>1. m \in Seq(S) /\ IsMoved(m, q, s, d) BY MovedDef
  <2> HIDE DEF m
  <2> QED BY <2>1 DEF IsMoved
<1>3. /\ n \in Seq(S) /\ Len(n) = Len(d) + (Len(r) - Len(s))
      /\ \A i \in 1 .. Len(n) : n[i] = IF i <= Len(d) THEN d[i] ELSE r[Len(s) + (i - Len(d))]
  <2>1. Under(s, r) BY UnderOrder
  <2>2. n \in Seq(S) /\ IsMoved(n, r, s, d) BY <2>1, MovedDef
  <2> HIDE DEF n
  <2> QED BY <2>2 DEF IsMoved
<1> HIDE DEF m, n
<1>4. /\ o \in Seq(S) /\ Len(o) = Len(m) + (Len(r) - Len(q))
      /\ \A i \in 1 .. Len(o) : o[i] = IF i <= Len(m) THEN m[i] ELSE r[Len(q) + (i - Len(m))]
  <2>1. o \in Seq(S) /\ IsMoved(o, r, q, m) BY <1>2, MovedDef
  <2> HIDE DEF o
  <2> QED BY <2>1 DEF IsMoved
<1> HIDE DEF o
<1>5. ASSUME NEW i \in 1 .. Len(m) PROVE i \in 1 .. Len(n) /\ m[i] = n[i]
  <2>1. i \in 1 .. Len(n) BY <1>1, <1>2, <1>3, <1>5
  <2>2. CASE i <= Len(d) BY <1>2, <1>3, <2>1, <2>2
  <2>3. CASE ~(i <= Len(d))
    <3>1. Len(s) + (i - Len(d)) \in 1 .. Len(q) BY <1>1, <1>2, <2>3
    <3>2. q[Len(s) + (i - Len(d))] = r[Len(s) + (i - Len(d))] BY <1>1, <3>1
    <3>3. m[i] = q[Len(s) + (i - Len(d))] BY <1>2, <2>3
    <3>4. n[i] = r[Len(s) + (i - Len(d))] BY <1>3, <2>1, <2>3
    <3> QED BY <2>1, <3>2, <3>3, <3>4
  <2> QED BY <2>2, <2>3
<1>6. Len(m) <= Len(n) BY <1>1, <1>2, <1>3
<1>7. Under(m, n) BY <1>2, <1>3, <1>5, <1>6, UnderDef
<1>8. Len(o) = Len(n) BY <1>1, <1>2, <1>3, <1>4
<1>9. ASSUME NEW i \in 1 .. Len(o) PROVE o[i] = n[i]
  <2>1. CASE i <= Len(m)
    <3>1. i \in 1 .. Len(m) BY <1>1, <1>2, <2>1
    <3> QED BY <1>4, <1>5, <2>1, <3>1
  <2>2. CASE ~(i <= Len(m))
    <3>1. Len(q) + (i - Len(m)) = Len(s) + (i - Len(d)) /\ ~(i <= Len(d)) /\ i \in 1 .. Len(n)
      BY <1>1, <1>2, <1>8, <2>2
    <3>2. o[i] = r[Len(q) + (i - Len(m))] BY <1>4, <2>2
    <3>3. n[i] = r[Len(s) + (i - Len(d))] BY <1>3, <3>1
    <3> QED BY <3>1, <3>2, <3>3
  <2> QED BY <2>1, <2>2
<1>10. o = n BY <1>3, <1>4, <1>8, <1>9, SeqEqual
<1> QED BY <1>7, <1>10 DEF m, n, o

\* The path above a path.
LEMMA ParentAbove ==
  ASSUME NEW S, NEW p \in Seq(S), Len(p) > 0
  PROVE  /\ Parent(p) \in Seq(S) /\ Len(Parent(p)) = Len(p) - 1 /\ Under(Parent(p), p)
         /\ \A r \in Seq(S) : Under(r, p) /\ r # p => Under(r, Parent(p))
         /\ \A r \in Seq(S) : Under(r, p) /\ Len(r) = Len(p) - 1 => r = Parent(p)
<1> DEFINE u == SubSeq(p, 1, Len(p) - 1)
<1>1. Len(p) \in Nat /\ \A i \in 1 .. Len(p) : p[i] \in S BY ElementOfSeq
<1>2. \A i \in 1 .. Len(p) - 1 : i \in 1 .. Len(p) /\ p[i] \in S BY <1>1
<1>3. 1 \in Int /\ Len(p) - 1 \in Int BY <1>1
<1>4. u \in Seq(S) BY <1>2, <1>3, SubSeqProperties
<1>5. Len(u) = Len(p) - 1 /\ \A i \in 1 .. Len(u) : u[i] = p[i]
  <2> DEFINE k == Len(p) - 1
  <2>1. k \in Nat /\ k \in Int /\ 1 \in Int /\ \A i \in 1 .. k : p[i] \in S BY <1>1, <1>2
  <2> HIDE DEF k
  <2>2. /\ Len(SubSeq(p, 1, k)) = (IF 1 <= k THEN k - 1 + 1 ELSE 0)
        /\ \A i \in 1 .. k - 1 + 1 : SubSeq(p, 1, k)[i] = p[1 + i - 1]
    BY <2>1, SubSeqProperties
  <2>3. Len(SubSeq(p, 1, k)) = k /\ \A i \in 1 .. k : SubSeq(p, 1, k)[i] = p[i]
    BY <2>1, <2>2
  <2> QED BY <2>3 DEF u, k
<1>6. u \in Seq(S) BY <1>4
<1> HIDE DEF u
<1>7. Under(u, p)
  <2>1. Len(u) <= Len(p) BY <1>1, <1>5
  <2> QED BY <1>5, <1>6, <2>1, UnderDef
<1>8. ASSUME NEW r \in Seq(S), Under(r, p), r # p PROVE Under(r, u)
  <2>1. Len(r) < Len(p) /\ Len(r) \in Nat BY <1>8, UnderOrder
  <2>2. ~(Under(u, r) /\ u # r) BY <1>1, <1>5, <1>6, <2>1, UnderOrder
  <2>3. Under(u, r) \/ Under(r, u) BY <1>6, <1>7, <1>8, UnderOrder
  <2> QED BY <1>6, <2>2, <2>3, UnderOrder
<1>9. ASSUME NEW r \in Seq(S), Under(r, p), Len(r) = Len(p) - 1 PROVE r = u
  <2>1. Under(u, r) \/ Under(r, u) BY <1>6, <1>7, <1>9, UnderOrder
  <2>2. Len(u) = Len(r) /\ Len(u) \in Nat BY <1>1, <1>5, <1>9
  <2> QED BY <1>6, <2>1, <2>2, UnderOrder
<1> QED BY <1>5, <1>6, <1>7, <1>8, <1>9 DEF u, Parent, Front

LEMMA MovedParent ==
  ASSUME NEW S, NEW s \in Seq(S), NEW d \in Seq(S), NEW q \in Seq(S), Under(s, q), q # s
  PROVE  Parent(Moved(q, s, d)) = Moved(Parent(q), s, d)
<1>1. Len(s) < Len(q) /\ Len(s) \in Nat /\ Len(d) \in Nat /\ Len(q) \in Nat BY UnderOrder
<1>2. Parent(q) \in Seq(S) /\ Len(Parent(q)) = Len(q) - 1 /\ Under(Parent(q), q)
      /\ Under(s, Parent(q))
  <2>1. Len(q) > 0 BY <1>1
  <2> QED BY <2>1, ParentAbove
<1>3. Under(Moved(Parent(q), s, d), Moved(q, s, d)) BY <1>2, MovedUnder
<1>4. Moved(q, s, d) \in Seq(S) /\ Len(Moved(q, s, d)) = Len(d) + (Len(q) - Len(s))
  BY MovedDef DEF IsMoved
<1>5. /\ Moved(Parent(q), s, d) \in Seq(S)
      /\ Len(Moved(Parent(q), s, d)) = Len(d) + (Len(Parent(q)) - Len(s))
  BY <1>2, MovedDef DEF IsMoved
<1>6. Len(Moved(q, s, d)) > 0 /\ Len(Moved(Parent(q), s, d)) = Len(Moved(q, s, d)) - 1
  BY <1>1, <1>2, <1>4, <1>5
<1> QED BY <1>3, <1>4, <1>5, <1>6, ParentAbove

\* The path that s_movePath gives an entry of the source directory.
LEMMA MovedEntry ==
  ASSUME NEW S, NEW s \in Seq(S), NEW d \in Seq(S), NEW p \in Seq(S), NEW c \in Seq(S),
         Under(s, p), Under(p, c), Len(c) = Len(p) + 1
  PROVE  Append(Moved(p, s, d), Last(c)) = Moved(c, s, d)
<1> DEFINE m == Moved(p, s, d)
           n == Moved(c, s, d)
           a == Append(m, Last(c))
<1>1. Len(s) \in Nat /\ Len(d) \in Nat /\ Len(p) \in Nat /\ Len(c) \in Nat /\ Len(s) <= Len(p)
  BY UnderDef
<1>2. m \in Seq(S) /\ Len(m) = Len(d) + (Len(p) - Len(s)) BY MovedDef DEF IsMoved
<1>3. /\ n \in Seq(S) /\ Len(n) = Len(d) + (Len(c) - Len(s))
      /\ \A i \in 1 .. Len(n) : n[i] = IF i <= Len(d) THEN d[i] ELSE c[Len(s) + (i - Len(d))]
  <2>1. Under(s, c) BY UnderOrder
  <2>2. n \in Seq(S) /\ IsMoved(n, c, s, d) BY <2>1, MovedDef
  <2> HIDE DEF n
  <2> QED BY <2>2 DEF IsMoved
<1>4. Under(m, n) BY MovedUnder
<1> HIDE DEF m, n
<1>5. Len(n) = Len(m) + 1 /\ \A i \in 1 .. Len(m) : m[i] = n[i]
  <2>1. \A i \in 1 .. Len(m) : m[i] = n[i] BY <1>2, <1>3, <1>4, UnderDef
  <2>2. Len(n) = Len(m) + 1 BY <1>1, <1>2, <1>3
  <2> QED BY <2>1, <2>2
<1>6. n[Len(n)] = Last(c) /\ Last(c) \in S
  <2>1. Len(n) \in 1 .. Len(n) /\ ~(Len(n) <= Len(d)) /\ Len(s) + (Len(n) - Len(d)) = Len(c)
        /\ Len(c) \in 1 .. Len(c)
    BY <1>1, <1>3
  <2> QED BY <1>3, <2>1, ElementOfSeq DEF Last
<1>7. /\ a \in Seq(S) /\ Len(a) = Len(m) + 1 /\ a[Len(m) + 1] = Last(c)
      /\ \A i \in 1 .. Len(m) : a[i] = m[i]
  BY <1>2, <1>6
<1> HIDE DEF a
<1>8. \A i \in 1 .. Len(a) : a[i] = n[i]
  <2>1. \A i \in 1 .. Len(a) : i \in 1 .. Len(m) \/ i = Len(m) + 1 BY <1>2, <1>7
  <2> QED BY <1>5, <1>6, <1>7, <2>1
<1>9. a = n BY <1>3, <1>5, <1>7, <1>8, SeqEqual
<1> QED BY <1>9 DEF a, m, n

-------------------------------------------------------------------------------
(* Trees.                                                                  *)

AnyPath == Seq(UNION {Range(p) : p \in Paths})
Values == {None, Dir} \cup Paths

LEMMA PathsAny ==
  /\ Paths \subseteq AnyPath /\ None \in AnyPath /\ None \notin Paths /\ Dir \notin Paths
  /\ None # Dir
  /\ \A p \in Paths : /\ Len(p) \in Nat /\ Len(p) > 0
                      /\ Len(p) > 1 => Parent(p) \in Paths
<1>1. Paths \subseteq AnyPath /\ \A p \in Paths : Len(p) > 0 /\ (Len(p) > 1 => Parent(p) \in Paths)
  BY ConstantsAssumption DEF AnyPath
<1>2. \A p \in Paths : Len(p) \in Nat BY <1>1 DEF AnyPath
<1>3. Len(None) = 0 /\ None \in AnyPath BY EmptySeq DEF None, AnyPath
<1>4. Len(Dir) = 1 BY DEF Dir
<1>5. None # Dir BY <1>3, <1>4
<1>6. Dir \notin Paths BY ConstantsAssumption
<1>7. None \notin Paths BY <1>1, <1>3
<1> QED BY <1>1, <1>2, <1>3, <1>5, <1>6, <1>7

\* Every set of numbers that is not empty has a least one.
LEMMA Least ==
  ASSUME NEW N \in SUBSET Nat, N # {}
  PROVE  \E n \in N : \A m \in N : n <= m
<1>1. PICK R : R = {ss \in Nat \X Nat : ss[1] < ss[2]} OBVIOUS
<1>2. IsWellFoundedOn(R, Nat) BY <1>1, NatLessThanWellFounded DEF OpToRel
<1>3. PICK n \in N : \A m \in N : <<m, n>> \notin R BY <1>2, WFMin
<1>4. ASSUME NEW m \in N PROVE n <= m
  <2>1. m \in Nat /\ n \in Nat OBVIOUS
  <2>2. ~(m < n)
    <3>1. ASSUME m < n PROVE <<m, n>> \in {ss \in Nat \X Nat : ss[1] < ss[2]} BY <2>1, <3>1
    <3> QED BY <1>1, <1>3, <3>1
  <2> QED BY <2>1, <2>2
<1> QED BY <1>4

\* Of the paths below p that exist in a tree, a shortest one lies right below p.
LEMMA NearestBelow ==
  ASSUME NEW t, IsTree(t), NEW p \in Paths,
         NEW q \in Paths, Under(p, q), p # q, t[q] # None
  PROVE  \E r \in Paths : /\ Under(p, r) /\ Len(r) = Len(p) + 1 /\ t[r] # None
                          /\ Parent(r) = p /\ t[p] = Dir
<1> DEFINE Below == {r \in Paths : Under(p, r) /\ p # r /\ t[r] # None}
           Lens == {Len(r) : r \in Below}
<1>1. q \in Below OBVIOUS
<1>2. Lens \in SUBSET Nat /\ Lens # {} BY <1>1, PathsAny
<1>3. PICK n \in Lens : \A m \in Lens : n <= m BY <1>2, Least
<1>4. PICK r \in Below : Len(r) = n OBVIOUS
<1>5. /\ p \in AnyPath /\ r \in AnyPath /\ Len(p) \in Nat /\ Len(r) \in Nat /\ Len(p) > 0
  BY PathsAny
<1>6. Len(p) < Len(r) BY <1>5, UnderOrder DEF AnyPath
<1>7. Len(r) > 1 /\ Len(r) > 0 BY <1>5, <1>6
<1>8. Parent(r) \in Paths /\ t[Parent(r)] = Dir BY <1>7, PathsAny DEF IsTree
<1>9. Len(Parent(r)) = Len(r) - 1 /\ Under(p, Parent(r))
  BY <1>5, <1>7, ParentAbove DEF AnyPath
<1>10. Parent(r) \notin Below
  <2>1. ASSUME Parent(r) \in Below PROVE FALSE
    <3>1. Len(Parent(r)) \in Lens BY <2>1
    <3>2. n <= Len(r) - 1 BY <1>3, <1>9, <3>1
    <3> HIDE DEF Below, Lens
    <3> QED BY <1>4, <1>5, <3>2
  <2> QED BY <2>1
<1>11. Parent(r) = p BY <1>8, <1>9, <1>10, PathsAny
<1>12. Len(r) = Len(p) + 1 BY <1>5, <1>9, <1>11
<1> QED BY <1>8, <1>11, <1>12

\* What is above a path that exists is a directory.
LEMMA DirsAbove ==
  ASSUME NEW t, IsTree(t), NEW p \in Paths, NEW q \in Paths, Under(p, q), p # q, t[p] # Dir
  PROVE  t[q] = None
BY NearestBelow

\* A directory without entries has nothing below it.
LEMMA NoneBelow ==
  ASSUME IsTree(fs), NEW p \in Paths, Children(p) = {}, NEW q \in Paths, Under(p, q), p # q
  PROVE  fs[q] = None
<1> SUFFICES ASSUME fs[q] # None PROVE FALSE OBVIOUS
<1>1. PICK r \in Paths : Under(p, r) /\ Len(r) = Len(p) + 1 /\ fs[r] # None BY NearestBelow
<1>2. Kind(r) # "none" BY <1>1 DEF Kind
<1> QED BY <1>1, <1>2 DEF Children

Tree(t) == t \in [Paths -> Values] /\ IsTree(t)

LEMMA TreeDef ==
  ASSUME NEW t \in [Paths -> Values],
         \A p \in Paths : t[p] # None /\ Len(p) > 1 => t[Parent(p)] = Dir
  PROVE  Tree(t)
BY DEF Tree, IsTree, Values

LEMMA Kinds ==
  ASSUME NEW p
  PROVE  /\ Kind(p) \in {"none", "dir", "file"}
         /\ Kind(p) = "none" <=> p \notin Paths \/ fs[p] = None
         /\ Kind(p) = "dir" <=> p \in Paths /\ fs[p] = Dir
         /\ Kind(p) = "file" <=> p \in Paths /\ fs[p] # None /\ fs[p] # Dir
BY PathsAny DEF Kind

\* Deleting a path that nothing is below.
LEMMA DeleteTree ==
  ASSUME Tree(fs), NEW p \in Paths, Delete(p), Kind(p) = "file" \/ Children(p) = {}
  PROVE  /\ Tree(fs') /\ \A q \in Paths : fs'[q] = IF q = p THEN None ELSE fs[q]
         /\ \A q \in Paths : Under(p, q) => fs'[q] = None
<1>1. fs' \in [Paths -> Values] BY DEF Tree, Delete, Values
<1>2. \A q \in Paths : fs'[q] = IF q = p THEN None ELSE fs[q] BY DEF Tree, Delete
<1>3. ASSUME NEW q \in Paths, Under(p, q), p # q PROVE fs[q] = None
  <2>1. CASE Kind(p) = "file" BY <1>3, <2>1, Kinds, DirsAbove DEF Tree
  <2>2. CASE Children(p) = {} BY <1>3, <2>2, NoneBelow DEF Tree
  <2> QED BY <2>1, <2>2
<1>4. ASSUME NEW q \in Paths, fs'[q] # None, Len(q) > 1 PROVE fs'[Parent(q)] = Dir
  <2>1. q # p /\ fs[q] # None BY <1>2, <1>4
  <2>2. Parent(q) \in Paths /\ fs[Parent(q)] = Dir BY <1>4, <2>1, PathsAny DEF Tree, IsTree
  <2>3. Under(Parent(q), q)
    <3>1. q \in AnyPath /\ Len(q) > 0 BY PathsAny
    <3> QED BY <3>1, ParentAbove DEF AnyPath
  <2>4. Parent(q) # p BY <1>3, <2>1, <2>3
  <2> QED BY <1>2, <2>2, <2>4
<1> QED BY <1>1, <1>2, <1>3, <1>4, TreeDef

\* What sceIoRename leaves at each path.
LEMMA Renamed ==
  ASSUME NEW s, NEW d, Rename(s, d), NEW q \in Paths
  PROVE  fs'[q] = IF Under(s, q) THEN None
                  ELSE IF Under(d, q) /\ Moved(q, d, s) \in Paths THEN fs[Moved(q, d, s)]
                  ELSE fs[q]
BY DEF Rename

LEMMA RenameTree ==
  ASSUME Tree(fs), NEW s \in Paths, NEW d \in AnyPath, ~Under(s, d), CanRename(s, d),
         Rename(s, d)
  PROVE  Tree(fs')
<1>1. fs' \in [Paths -> Values]
  <2>1. ASSUME NEW q \in Paths PROVE fs'[q] \in Values
    BY Renamed DEF Tree, Values
  <2>2. fs' = [q \in Paths |-> fs'[q]] BY DEF Rename
  <2> HIDE DEF Rename
  <2> QED BY <2>1, <2>2
<1>2. s \in AnyPath /\ d \in Paths /\ fs[d] = None /\ (Len(d) > 1 => fs[Parent(d)] = Dir)
  BY PathsAny, Kinds DEF CanRename
<1>3. ASSUME NEW p \in Paths, fs'[p] # None, Len(p) > 1 PROVE fs'[Parent(p)] = Dir
  <2>1. p \in AnyPath /\ Parent(p) \in Paths /\ Parent(p) \in AnyPath /\ Len(p) > 0
    BY <1>3, PathsAny
  <2>2. Under(Parent(p), p) BY <2>1, ParentAbove DEF AnyPath
  <2>3. ~Under(s, p) BY <1>3, Renamed
  <2>4. ~Under(s, Parent(p)) BY <1>2, <2>1, <2>2, <2>3, UnderOrder DEF AnyPath
  <2>5. CASE p = d
    <3>1. ~Under(d, Parent(p))
      <4>1. Len(Parent(p)) = Len(p) - 1 /\ Len(p) \in Nat BY <2>1, ParentAbove DEF AnyPath
      <4>2. ~(Len(d) <= Len(Parent(p))) BY <2>5, <4>1
      <4> QED BY <2>1, <4>2, UnderOrder DEF AnyPath
    <3> QED BY <1>2, <1>3, <2>1, <2>4, <2>5, <3>1, Renamed
  <2>6. CASE p # d /\ Under(d, p) /\ Moved(p, d, s) \in Paths
    <3> DEFINE m == Moved(p, d, s)
    <3>1. fs[m] # None BY <1>3, <2>3, <2>6, Renamed
    <3>2. Under(d, Parent(p)) BY <2>1, <2>6, ParentAbove DEF AnyPath
    <3>3. Parent(m) = Moved(Parent(p), d, s) BY <1>2, <2>1, <2>6, MovedParent DEF AnyPath
    <3>4. Under(s, m) /\ m # s
      <4>1. Under(s, m) /\ Moved(m, s, d) = p /\ Moved(s, s, d) = d
        BY <1>2, <2>1, <2>6, MovedBack DEF AnyPath
      <4> HIDE DEF m
      <4> QED BY <2>6, <4>1
    <3>5. Len(m) > 1
      <4>1. m \in AnyPath /\ Len(m) \in Nat /\ Len(s) \in Nat /\ Len(s) > 0
        BY <2>6, PathsAny
      <4>2. Len(s) < Len(m) BY <1>2, <3>4, <4>1, UnderOrder DEF AnyPath
      <4> HIDE DEF m
      <4> QED BY <4>1, <4>2
    <3>6. Parent(m) \in Paths /\ fs[Parent(m)] = Dir
      BY <2>6, <3>1, <3>5, PathsAny DEF Tree, IsTree
    <3> QED BY <2>1, <2>4, <3>2, <3>3, <3>6, Renamed
  <2>7. CASE ~(Under(d, p) /\ Moved(p, d, s) \in Paths)
    <3>1. fs'[p] = fs[p] BY <2>3, <2>7, Renamed
    <3>2. ~Under(d, p)
      <4>1. p # d \/ fs[p] = None BY <1>2
      <4>2. fs[p] # None /\ fs[d] # Dir BY <1>2, <1>3, <3>1, PathsAny
      <4> QED BY <1>2, <4>1, <4>2, DirsAbove DEF Tree
    <3>3. ~Under(d, Parent(p)) BY <1>2, <2>1, <2>2, <3>2, UnderOrder DEF AnyPath
    <3>4. fs'[Parent(p)] = fs[Parent(p)] BY <2>1, <2>4, <3>3, Renamed
    <3>5. fs[Parent(p)] = Dir BY <1>3, <3>1 DEF Tree, IsTree
    <3> QED BY <3>4, <3>5
  <2> QED BY <2>5, <2>6, <2>7
<1> QED BY <1>1, <1>3, TreeDef

-------------------------------------------------------------------------------
(* The inductive invariant: where the frames are, and where the files are. *)

Frames ==
  [pc : {"start", "remove", "again", "read"}, src : Paths, dst : AnyPath,
   must : SUBSET Paths, seen : SUBSET Paths]

Commands ==
  [op : {"mv", "rm"}, src : AnyPath, dst : AnyPath,
   what : {"alike", "unlike", "file", "unknown", "any"}]

Typed ==
  /\ Tree(fs) /\ files \subseteq Paths /\ faults \in 0 .. MaxFaults
  /\ result \in {"none", "running", "ok", "err"} /\ (stack # <<>>) = (result = "running")
  /\ stack \in Seq(Frames) /\ cmd \in Commands

IsFile(t, p) == p \in Paths /\ t[p] # None /\ t[p] # Dir

\* Frame f of command c, in file system t: it works below the source of the command, at the
\* corresponding path below the destination.
Placed(f, t, c) ==
  /\ Under(c.src, f.src)
  /\ c.op = "mv" =>
       /\ f.dst = Moved(f.src, c.src, c.dst)
       /\ f.pc = "remove" => IsFile(t, f.src) /\ IsFile(t, f.dst)
       /\ c.what = "alike" /\ Under(c.src, c.dst) => f.pc = "start" /\ f.src = c.src
       /\ f.pc = "read" /\ ~Under(c.dst, c.src) /\ ~Under(c.src, c.dst) => t[f.src] = Dir

\* The frames of stack w: the outermost has the command's source, every caller reads the
\* directory that its callee's path is in.
Nested(w, s) ==
  /\ w # <<>> => w[Len(w)].src = s
  /\ \A i \in 1 .. Len(w) : i > 1 => w[i].pc = "read"
  /\ \A i, j \in 1 .. Len(w) : i < j => Len(w[j].src) < Len(w[i].src)

Stacked == Nested(stack, cmd.src) /\ \A i \in 1 .. Len(stack) : Placed(stack[i], fs, cmd)

\* File system t while s is moved to d: below s files are where they were, each file below s
\* is there or at the corresponding path below d, and every other one is where it was or
\* has made room for a file of s.
Found(t, s, d) ==
  /\ \A q \in Paths : Under(s, q) => t[q] \in {None, Dir, q} /\ (t[q] = q => q \in files)
  /\ \A p \in files : Under(s, p) =>
       t[p] = p \/ (Moved(p, s, d) \in Paths /\ t[Moved(p, s, d)] = p)
  /\ \A p \in files : ~Under(s, p) => t[p] = p \/ (Under(d, p) /\ Moved(p, d, s) \in files)

AllFound == cmd.op = "mv" /\ ~Upwards /\ ~Aliased => Found(fs, cmd.src, cmd.dst)

\* There are no other files below the path of an rm whose stat was answered.
Single ==
  cmd.what = "file" => cmd.op = "rm" /\ \A p \in files : Under(cmd.src, p) => p = cmd.src

\* An mv knows whether its arguments are spelt alike.
Asked == cmd.op = "mv" => cmd.what \in {"alike", "unlike"}

IInv == Typed /\ Stacked /\ AllFound /\ ElsewhereKept /\ DeletedGone /\ Single /\ Asked

-------------------------------------------------------------------------------
(* What calls and returns do to the stack.                                 *)

LEMMA FrameLen ==
  ASSUME NEW f \in Frames
  PROVE  f.src \in Paths /\ Len(f.src) \in Nat /\ f.src \in AnyPath /\ f.dst \in AnyPath
BY PathsAny DEF Frames

\* A return.
LEMMA PopNested ==
  ASSUME NEW w \in Seq(Frames), w # <<>>, NEW s, Nested(w, s)
  PROVE  /\ Tail(w) \in Seq(Frames) /\ Nested(Tail(w), s)
         /\ \A i \in 1 .. Len(Tail(w)) : i + 1 \in 2 .. Len(w) /\ Tail(w)[i] = w[i + 1]
<1> DEFINE v == Tail(w)
<1>1. /\ v \in Seq(Frames) /\ Len(v) = Len(w) - 1 /\ \A i \in 1 .. Len(v) : v[i] = w[i + 1]
  BY HeadTailProperties
<1>2. Len(w) \in Nat /\ Len(w) > 0 BY EmptySeq
<1> HIDE DEF v
<1>3. \A i \in 1 .. Len(v) : i + 1 \in 2 .. Len(w) /\ i + 1 \in 1 .. Len(w) /\ i + 1 > 1
  BY <1>1, <1>2
<1>4. ASSUME v # <<>> PROVE v[Len(v)].src = s
  <2>1. Len(v) > 0 BY <1>1, <1>4, EmptySeq
  <2>2. Len(v) \in 1 .. Len(v) /\ Len(v) + 1 = Len(w) BY <1>1, <1>2, <2>1
  <2> QED BY <1>1, <2>2 DEF Nested
<1>5. \A i \in 1 .. Len(v) : v[i].pc = "read" BY <1>1, <1>3 DEF Nested
<1>6. ASSUME NEW i \in 1 .. Len(v), NEW j \in 1 .. Len(v), i < j
      PROVE  Len(v[j].src) < Len(v[i].src)
  <2>1. i + 1 < j + 1 BY <1>6
  <2> QED BY <1>1, <1>3, <2>1 DEF Nested
<1>7. Nested(v, s) BY <1>4, <1>5, <1>6 DEF Nested
<1> QED BY <1>1, <1>3, <1>7 DEF v

\* The innermost frame changes in place.
LEMMA TopNested ==
  ASSUME NEW w \in Seq(Frames), w # <<>>, NEW s, Nested(w, s),
         NEW x \in Frames, x.src = Head(w).src
  PROVE  LET v == <<x>> \o Tail(w) IN
         /\ v \in Seq(Frames) /\ Len(v) = Len(w) /\ v # <<>> /\ Nested(v, s)
         /\ v[1] = x /\ \A i \in 2 .. Len(w) : v[i] = w[i]
<1> DEFINE v == <<x>> \o Tail(w)
<1>1. /\ Tail(w) \in Seq(Frames) /\ Len(Tail(w)) = Len(w) - 1
      /\ \A i \in 1 .. Len(Tail(w)) : Tail(w)[i] = w[i + 1]
  BY HeadTailProperties
<1>2. Len(w) \in Nat /\ Len(w) > 0 /\ Head(w) = w[1] BY EmptySeq
<1>3. <<x>> \in Seq(Frames) /\ Len(<<x>>) = 1 /\ <<x>>[1] = x OBVIOUS
<1>4. /\ v \in Seq(Frames) /\ Len(v) = 1 + Len(Tail(w))
      /\ \A i \in 1 .. 1 + Len(Tail(w)) : v[i] = IF i <= 1 THEN <<x>>[i] ELSE Tail(w)[i - 1]
  BY <1>1, <1>3, ConcatProperties
<1> HIDE DEF v
<1>5. Len(v) = Len(w) /\ v[1] = x BY <1>1, <1>2, <1>3, <1>4
<1>6. ASSUME NEW i \in 2 .. Len(w) PROVE v[i] = w[i]
  <2>1. i \in 1 .. 1 + Len(Tail(w)) /\ ~(i <= 1) /\ i - 1 \in 1 .. Len(Tail(w)) /\ (i - 1) + 1 = i
    BY <1>1, <1>2
  <2> QED BY <1>1, <1>4, <2>1
<1>7. \A i \in 1 .. Len(w) : v[i].src = w[i].src
  <2>1. \A i \in 1 .. Len(w) : i = 1 \/ i \in 2 .. Len(w) BY <1>2
  <2> QED BY <1>2, <1>5, <1>6, <2>1
<1>8. \A i \in 1 .. Len(w) : i > 1 => v[i].pc = "read"
  <2>1. \A i \in 1 .. Len(w) : i > 1 => i \in 2 .. Len(w) BY <1>2
  <2> QED BY <1>6, <2>1 DEF Nested
<1>9. v # <<>> BY <1>2, <1>5, EmptySeq
<1>10. v[Len(v)].src = s
  <2>1. Len(w) \in 1 .. Len(w) BY <1>2
  <2> QED BY <1>5, <1>7, <2>1 DEF Nested
<1>11. \A i, j \in 1 .. Len(w) : i < j => Len(v[j].src) < Len(v[i].src) BY <1>7 DEF Nested
<1>12. Nested(v, s) BY <1>5, <1>8, <1>10, <1>11 DEF Nested
<1> QED BY <1>4, <1>5, <1>6, <1>9, <1>12 DEF v

\* A call, for an entry of the directory that the innermost frame reads.
LEMMA PushNested ==
  ASSUME NEW w \in Seq(Frames), w # <<>>, NEW s, Nested(w, s),
         NEW x \in Frames, NEW y \in Frames, y.src = Head(w).src, y.pc = "read",
         Len(x.src) = Len(y.src) + 1
  PROVE  LET v == <<x, y>> \o Tail(w) IN
         /\ v \in Seq(Frames) /\ Len(v) = Len(w) + 1 /\ v # <<>> /\ Nested(v, s)
         /\ v[1] = x /\ v[2] = y
         /\ \A i \in 3 .. Len(v) : i - 1 \in 2 .. Len(w) /\ v[i] = w[i - 1]
<1> DEFINE v == <<x, y>> \o Tail(w)
<1>1. /\ Tail(w) \in Seq(Frames) /\ Len(Tail(w)) = Len(w) - 1
      /\ \A i \in 1 .. Len(Tail(w)) : Tail(w)[i] = w[i + 1]
  BY HeadTailProperties
<1>2. Len(w) \in Nat /\ Len(w) > 0 /\ Head(w) = w[1] BY EmptySeq
<1>3. <<x, y>> \in Seq(Frames) /\ Len(<<x, y>>) = 2 /\ <<x, y>>[1] = x /\ <<x, y>>[2] = y
  OBVIOUS
<1>4. /\ v \in Seq(Frames) /\ Len(v) = 2 + Len(Tail(w))
      /\ \A i \in 1 .. 2 + Len(Tail(w)) : v[i] = IF i <= 2 THEN <<x, y>>[i] ELSE Tail(w)[i - 2]
  BY <1>1, <1>3, ConcatProperties
<1> HIDE DEF v
<1>5. Len(v) = Len(w) + 1 BY <1>1, <1>2, <1>4
<1>6. v[1] = x /\ v[2] = y
  <2>1. 1 \in 1 .. 2 + Len(Tail(w)) /\ 2 \in 1 .. 2 + Len(Tail(w)) BY <1>1, <1>2
  <2> QED BY <1>3, <1>4, <2>1
<1>7. ASSUME NEW i \in 3 .. Len(v) PROVE i - 1 \in 2 .. Len(w) /\ v[i] = w[i - 1]
  <2>1. /\ i \in 1 .. 2 + Len(Tail(w)) /\ ~(i <= 2) /\ i - 2 \in 1 .. Len(Tail(w))
        /\ (i - 2) + 1 = i - 1 /\ i - 1 \in 2 .. Len(w)
    BY <1>1, <1>2, <1>5
  <2> QED BY <1>1, <1>4, <2>1
<1>8. ASSUME NEW i \in 2 .. Len(v) PROVE i - 1 \in 1 .. Len(w) /\ v[i].src = w[i - 1].src
  <2>1. i = 2 \/ i \in 3 .. Len(v) BY <1>5
  <2>2. 2 - 1 = 1 /\ 1 \in 1 .. Len(w) BY <1>2
  <2>3. i - 1 \in 1 .. Len(w) BY <1>2, <1>5
  <2> QED BY <1>2, <1>6, <1>7, <2>1, <2>2, <2>3
<1>9. \A i \in 1 .. Len(v) : i > 1 => v[i].pc = "read"
  <2>1. ASSUME NEW i \in 1 .. Len(v), i > 1 PROVE v[i].pc = "read"
    <3>1. i = 2 \/ i \in 3 .. Len(v) BY <1>2, <1>5, <2>1
    <3>2. CASE i \in 3 .. Len(v)
      <4>1. i - 1 \in 1 .. Len(w) /\ i - 1 > 1 BY <1>2, <1>5, <3>2
      <4> QED BY <1>7, <3>2, <4>1 DEF Nested
    <3> QED BY <1>6, <3>1, <3>2
  <2> QED BY <2>1
<1>10. v # <<>> BY <1>2, <1>5, EmptySeq
<1>11. v[Len(v)].src = s
  <2>1. Len(v) \in 2 .. Len(v) /\ Len(v) - 1 = Len(w) BY <1>2, <1>5
  <2> QED BY <1>8, <2>1 DEF Nested
<1>12. ASSUME NEW i \in 1 .. Len(v), NEW j \in 1 .. Len(v), i < j
       PROVE  Len(v[j].src) < Len(v[i].src)
  <2>1. j \in 2 .. Len(v) BY <1>2, <1>5, <1>12
  <2>2. j - 1 \in 1 .. Len(w) /\ v[j].src = w[j - 1].src BY <1>8, <2>1
  <2>3. CASE i \in 2 .. Len(v)
    <3>1. i - 1 \in 1 .. Len(w) /\ v[i].src = w[i - 1].src BY <1>8, <2>3
    <3>2. i - 1 < j - 1 BY <1>12
    <3> QED BY <2>2, <3>1, <3>2 DEF Nested
  <2>4. CASE i = 1
    <3>1. v[i].src = x.src BY <1>6, <2>4
    <3>2. Len(x.src) = Len(w[1].src) + 1 /\ Len(w[1].src) \in Nat BY <1>2, FrameLen
    <3>3. CASE j - 1 = 1 BY <2>2, <3>1, <3>2, <3>3
    <3>4. CASE j - 1 # 1
      <4>1. 1 \in 1 .. Len(w) /\ 1 < j - 1 BY <1>2, <2>1, <2>2, <3>4
      <4>2. Len(w[j - 1].src) < Len(w[1].src) BY <2>2, <4>1 DEF Nested
      <4>3. w[j - 1] \in Frames BY <2>2, ElementOfSeq
      <4>4. Len(w[j - 1].src) \in Nat BY <4>3, FrameLen
      <4> QED BY <2>2, <3>1, <3>2, <4>2, <4>4
    <3> QED BY <3>3, <3>4
  <2> QED BY <1>2, <1>5, <2>3, <2>4
<1>13. Nested(v, s) BY <1>9, <1>11, <1>12 DEF Nested
<1> QED BY <1>4, <1>5, <1>6, <1>7, <1>10, <1>13 DEF v

-------------------------------------------------------------------------------
(* What a step does to the file system.                                    *)

Moving == cmd.op = "mv" /\ ~(cmd.what = "alike" /\ Under(cmd.src, cmd.dst))

LEMMA TopFacts ==
  ASSUME Typed, Stacked, stack # <<>>
  PROVE  /\ Top \in Frames /\ Top = stack[1] /\ Len(stack) \in Nat /\ Len(stack) > 0
         /\ Top.src \in Paths /\ Top.src \in AnyPath /\ Top.dst \in AnyPath
         /\ cmd.src \in AnyPath /\ cmd.dst \in AnyPath /\ cmd.op \in {"mv", "rm"}
         /\ Placed(Top, fs, cmd) /\ Under(cmd.src, Top.src)
         /\ cmd.op = "mv" => Top.dst = Moved(Top.src, cmd.src, cmd.dst) /\ Under(cmd.dst, Top.dst)
         /\ cmd.op = "mv" /\ (Top.pc # "start" \/ ~Refused) => Moving
<1>1. stack \in Seq(Frames) /\ Len(stack) \in Nat /\ Len(stack) > 0 /\ Top = stack[1]
  BY EmptySeq DEF Typed, Top
<1>2. 1 \in 1 .. Len(stack) /\ Top \in Frames BY <1>1, ElementOfSeq
<1>3. Placed(Top, fs, cmd) BY <1>1, <1>2 DEF Stacked
<1>4. Top.src \in Paths /\ Top.src \in AnyPath /\ Top.dst \in AnyPath BY <1>2, FrameLen
<1>5. cmd.src \in AnyPath /\ cmd.dst \in AnyPath /\ cmd.op \in {"mv", "rm"}
  BY DEF Typed, Commands
<1>6. Under(cmd.src, Top.src) BY <1>3 DEF Placed
<1>7. ASSUME cmd.op = "mv"
      PROVE  Top.dst = Moved(Top.src, cmd.src, cmd.dst) /\ Under(cmd.dst, Top.dst)
  <2>1. Top.dst = Moved(Top.src, cmd.src, cmd.dst) BY <1>3, <1>7 DEF Placed
  <2>2. Under(cmd.dst, Moved(Top.src, cmd.src, cmd.dst))
    BY <1>4, <1>5, <1>6, MovedBack DEF AnyPath
  <2> QED BY <2>1, <2>2
<1>8. ASSUME cmd.op = "mv", Top.pc # "start" \/ ~Refused PROVE Moving
  <2>1. SUFFICES ASSUME cmd.what = "alike", Under(cmd.src, cmd.dst) PROVE FALSE
    BY <1>8 DEF Moving
  <2>2. Top.pc = "start" /\ Top.src = cmd.src BY <1>3, <1>8, <2>1 DEF Placed
  <2>3. Top.dst = cmd.dst BY <1>5, <1>7, <1>8, <2>2, MovedBack, UnderOrder DEF AnyPath
  <2> QED BY <1>8, <2>1, <2>2, <2>3 DEF Refused
<1> QED BY <1>1, <1>2, <1>3, <1>4, <1>5, <1>6, <1>7, <1>8

\* The changes a step may make.
Deletes == cmd.op = "rm" /\ \E p \in Paths :
  Under(cmd.src, p) /\ Delete(p) /\ (Kind(p) = "file" \/ Children(p) = {})
Replaces == Moving /\ Top.pc = "remove" /\ Delete(Top.dst)
Renames ==
  /\ Moving /\ stack' = Tail(stack) /\ ~Under(Top.src, Top.dst)
  /\ CanRename(Top.src, Top.dst) /\ Rename(Top.src, Top.dst)
Clears ==
  /\ Moving /\ stack' = Tail(stack) /\ Top.pc = "read"
  /\ Children(Top.src) = {} /\ Delete(Top.src)
Changes == fs' = fs \/ Deletes \/ Replaces \/ Renames \/ Clears

LEMMA ReadsBelow ==
  ASSUME Typed, Stacked, stack # <<>>, NEW c \in Paths, Reads(c)
  PROVE  /\ Under(Top.src, c) /\ Under(cmd.src, c) /\ Len(c) = Len(Top.src) + 1
         /\ c \in AnyPath
<1>1. Under(Top.src, c) /\ Len(c) = Len(Top.src) + 1 BY DEF Reads, Children
<1> QED BY <1>1, TopFacts, PathsAny, UnderOrder DEF AnyPath

LEMMA StepChanges ==
  ASSUME Typed, Stacked, Step
  PROVE  Changes /\ stack # <<>>
<1>1. CASE MvRefuse BY <1>1 DEF MvRefuse, At, Changes, Keep
<1>2. CASE MvRename
  BY <1>2, TopFacts DEF MvRename, At, Changes, Renames, Succeed, CanRename
<1>3. CASE MvExists BY <1>3 DEF MvExists, At, Changes, Keep
<1>4. CASE MvRenameFails BY <1>4 DEF MvRenameFails, At, Changes, Keep
<1>5. CASE MvRemove
  <2>1. stack # <<>> /\ cmd.op = "mv" /\ Top.pc = "remove" BY <1>5 DEF MvRemove, At
  <2>2. Moving BY <2>1, TopFacts
  <2> QED BY <1>5, <2>1, <2>2 DEF MvRemove, Changes, Replaces, Keep
<1>6. CASE MvAgain
  <2>1. stack # <<>> /\ cmd.op = "mv" /\ Top.pc = "again" BY <1>6 DEF MvAgain, At
  <2>2. Moving BY <2>1, TopFacts
  <2> QED BY <1>6, <2>1, <2>2 DEF MvAgain, Changes, Renames, Succeed, Keep, CanRename
<1>7. CASE MvEnd
  <2>1. stack # <<>> /\ cmd.op = "mv" /\ Top.pc = "read" BY <1>7 DEF MvEnd, At
  <2>2. Moving BY <2>1, TopFacts
  <2> QED BY <1>7, <2>1, <2>2 DEF MvEnd, Changes, Clears, Succeed, Keep
<1>8. CASE RmStart
  BY <1>8, TopFacts DEF RmStart, At, Changes, Deletes, Keep
<1>9. CASE RmEnd
  BY <1>9, TopFacts DEF RmEnd, At, Changes, Deletes, Keep
<1>10. ASSUME NEW c \in Paths, MvEntry(c) PROVE Changes /\ stack # <<>>
  BY <1>10 DEF MvEntry, At, Changes, Keep
<1>11. ASSUME NEW c \in Paths, RmEntry(c) PROVE Changes /\ stack # <<>>
  <2>1. stack # <<>> /\ cmd.op = "rm" /\ Reads(c) BY <1>11 DEF RmEntry, At
  <2>2. Under(cmd.src, c) BY <2>1, ReadsBelow
  <2> QED BY <1>11, <2>1, <2>2 DEF RmEntry, Changes, Deletes, Keep
<1> QED BY <1>1, <1>2, <1>3, <1>4, <1>5, <1>6, <1>7, <1>8, <1>9, <1>10, <1>11 DEF Step

\* The two sides of a move have no path in common.
LEMMA Apart ==
  ASSUME NEW s \in AnyPath, NEW d \in AnyPath, ~Under(s, d), ~Under(d, s),
         NEW q \in AnyPath, Under(s, q), Under(d, q)
  PROVE  FALSE
BY UnderOrder DEF AnyPath

LEMMA ChangesTree ==
  ASSUME Typed, Stacked, stack # <<>>, Changes
  PROVE  Tree(fs')
<1>1. Tree(fs) BY DEF Typed
<1>2. CASE fs' = fs BY <1>1, <1>2
<1>3. CASE Deletes BY <1>1, <1>3, DeleteTree DEF Deletes
<1>4. CASE Replaces
  <2>1. IsFile(fs, Top.dst) BY <1>4, TopFacts DEF Replaces, Moving, Placed
  <2>2. Top.dst \in Paths /\ Kind(Top.dst) = "file" BY <2>1, Kinds DEF IsFile
  <2> QED BY <1>1, <1>4, <2>2, DeleteTree DEF Replaces
<1>5. CASE Renames BY <1>1, <1>5, TopFacts, RenameTree DEF Renames
<1>6. CASE Clears BY <1>1, <1>6, TopFacts, DeleteTree DEF Clears
<1> QED BY <1>2, <1>3, <1>4, <1>5, <1>6 DEF Changes

\* Nothing changes outside the command's paths.
LEMMA ChangesWithin ==
  ASSUME Typed, Stacked, stack # <<>>, Changes,
         NEW p \in Paths, ~Under(cmd.src, p), cmd.op = "mv" => ~Under(cmd.dst, p)
  PROVE  fs'[p] = fs[p]
<1>1. fs \in [Paths -> Values] BY DEF Typed, Tree
<1>2. CASE fs' = fs BY <1>2
<1>3. CASE Deletes BY <1>1, <1>3 DEF Deletes, Delete
<1>4. ASSUME cmd.op = "mv" PROVE ~Under(Top.src, p) /\ ~Under(Top.dst, p)
  <2>1. /\ cmd.src \in AnyPath /\ Top.src \in AnyPath /\ Under(cmd.src, Top.src)
        /\ cmd.dst \in AnyPath /\ Top.dst \in AnyPath /\ Under(cmd.dst, Top.dst)
    BY <1>4, TopFacts
  <2>2. p \in AnyPath BY PathsAny
  <2>3. ~Under(Top.src, p) BY <2>1, <2>2, UnderOrder DEF AnyPath
  <2>4. ~Under(Top.dst, p) BY <1>4, <2>1, <2>2, UnderOrder DEF AnyPath
  <2> QED BY <2>3, <2>4
<1>5. cmd.op = "mv" => p # Top.src /\ p # Top.dst
  <2>1. p \in AnyPath BY PathsAny
  <2>2. Under(p, p) BY <2>1, UnderOrder DEF AnyPath
  <2> QED BY <1>4, <2>2
<1>6. CASE Replaces BY <1>1, <1>5, <1>6 DEF Replaces, Moving, Delete
<1>7. CASE Renames BY <1>4, <1>7, Renamed DEF Renames, Moving
<1>8. CASE Clears BY <1>1, <1>5, <1>8 DEF Clears, Moving, Delete
<1> QED BY <1>2, <1>3, <1>6, <1>7, <1>8 DEF Changes

\* The directories that the callers read stay.
LEMMA ChangesCallers ==
  ASSUME Typed, Stacked, stack # <<>>, Changes, NEW i \in 2 .. Len(stack)
  PROVE  Placed(stack[i], fs', cmd)
<1> DEFINE f == stack[i]
<1>1. /\ i \in 1 .. Len(stack) /\ 1 \in 1 .. Len(stack) /\ 1 < i /\ i > 1
      /\ f \in Frames /\ stack \in Seq(Frames)
  BY TopFacts, ElementOfSeq DEF Typed
<1>2. f.pc = "read" /\ Placed(f, fs, cmd) /\ Len(f.src) < Len(Top.src)
  BY <1>1, TopFacts DEF Stacked, Nested
<1>3. f.src \in Paths /\ f.src \in AnyPath /\ Len(f.src) \in Nat /\ Len(Top.src) \in Nat
  BY <1>1, TopFacts, FrameLen
<1>4. ~Under(Top.src, f.src)
  <2>1. ~(Len(Top.src) <= Len(f.src)) BY <1>2, <1>3
  <2> QED BY <1>3, <2>1, TopFacts, UnderOrder DEF AnyPath
<1> HIDE DEF f
<1>5. ASSUME cmd.op = "mv", ~Under(cmd.src, cmd.dst), ~Under(cmd.dst, cmd.src)
      PROVE  fs'[f.src] = fs[f.src]
  <2>1. fs \in [Paths -> Values] BY DEF Typed, Tree
  <2>2. Under(cmd.src, f.src) BY <1>2 DEF Placed
  <2>3. ~Under(cmd.dst, f.src) BY <1>3, <1>5, <2>2, TopFacts, Apart
  <2>4. ~Under(Top.dst, f.src)
    BY <1>3, <1>5, <2>3, TopFacts, UnderOrder DEF AnyPath
  <2>5. f.src # Top.src /\ f.src # Top.dst
    BY <1>3, <1>4, <2>4, TopFacts, UnderOrder DEF AnyPath
  <2>6. CASE Deletes BY <1>5, <2>6 DEF Deletes
  <2>7. CASE Replaces BY <1>3, <2>1, <2>5, <2>7 DEF Replaces, Delete
  <2>8. CASE Renames BY <1>3, <1>4, <2>4, <2>8, Renamed DEF Renames
  <2>9. CASE Clears BY <1>3, <2>1, <2>5, <2>9 DEF Clears, Delete
  <2> QED BY <2>6, <2>7, <2>8, <2>9 DEF Changes
<1>6. Placed(f, fs', cmd) BY <1>2, <1>5 DEF Placed
<1> QED BY <1>6 DEF f

-------------------------------------------------------------------------------
(* The types and the stack.                                                *)

\* What a step does to the stack.
Continues == \E x \in Frames :
  /\ x.src = Top.src /\ stack' = <<x>> \o Tail(stack) /\ Placed(x, fs', cmd)
Calls == \E x, y \in Frames :
  /\ y.src = Top.src /\ y.pc = "read" /\ Len(x.src) = Len(y.src) + 1
  /\ stack' = <<x, y>> \o Tail(stack) /\ Placed(x, fs', cmd) /\ Placed(y, fs', cmd)
Turns ==
  \/ stack' = <<>> /\ result' = "err"
  \/ stack' = Tail(stack) /\ result' = IF Len(stack) = 1 THEN "ok" ELSE "running"
  \/ (Continues \/ Calls) /\ UNCHANGED result

\* The innermost frame with another pc.
LEMMA TopGoto ==
  ASSUME Typed, Stacked, stack # <<>>, NEW pc \in {"start", "remove", "again", "read"}
  PROVE  LET x == [Top EXCEPT !.pc = pc] IN
         /\ x \in Frames /\ x.pc = pc /\ x.src = Top.src /\ x.dst = Top.dst
BY TopFacts DEF Frames

LEMMA TopReads ==
  ASSUME Typed, Stacked, stack # <<>>, NEW M \in SUBSET Paths
  PROVE  LET x == [Top EXCEPT !.pc = "read", !.must = M] IN
         /\ x \in Frames /\ x.pc = "read" /\ x.src = Top.src /\ x.dst = Top.dst
BY TopFacts DEF Frames

LEMMA TopSees ==
  ASSUME Typed, Stacked, stack # <<>>, NEW c \in Paths
  PROVE  LET x == See(c) IN
         /\ x \in Frames /\ x.pc = Top.pc /\ x.src = Top.src /\ x.dst = Top.dst
BY TopFacts DEF Frames, See

LEMMA StepTurns ==
  ASSUME Typed, Stacked, Step
  PROVE  Turns
<1> USE DEF Fail, Succeed, Turns
<1>1. CASE MvRefuse BY <1>1 DEF MvRefuse
<1>2. CASE MvRename BY <1>2 DEF MvRename
<1>3. CASE MvExists
  <2>1. /\ stack # <<>> /\ cmd.op = "mv" /\ Top.pc = "start" /\ ~Refused /\ fs' = fs
    BY <1>3 DEF MvExists, At, Keep
  <2>2. Moving /\ Placed(Top, fs, cmd) /\ Top.src \in Paths BY <2>1, TopFacts
  <2>3. CASE Kind(Top.src) = "file" /\ Kind(Top.dst) = "file" /\ Goto("remove") /\ Running
    <3> DEFINE x == [Top EXCEPT !.pc = "remove"]
    <3>1. x \in Frames /\ x.pc = "remove" /\ x.src = Top.src /\ x.dst = Top.dst
      BY <2>1, TopGoto
    <3>2. IsFile(fs, Top.src) /\ IsFile(fs, Top.dst) BY <2>3, Kinds DEF IsFile
    <3>3. stack' = <<x>> \o Tail(stack) BY <2>3 DEF Goto
    <3> HIDE DEF x
    <3>4. Placed(x, fs', cmd) BY <2>1, <2>2, <3>1, <3>2 DEF Placed, Moving
    <3> QED BY <2>3, <3>1, <3>3, <3>4 DEF Continues, Running
  <2>4. CASE Kind(Top.src) = "dir" /\ Open(Top.src) /\ Running
    <3> DEFINE x == [Top EXCEPT !.pc = "read", !.must = Children(Top.src)]
    <3>1. x \in Frames /\ x.pc = "read" /\ x.src = Top.src /\ x.dst = Top.dst
      <4>1. Children(Top.src) \in SUBSET Paths BY DEF Children
      <4> QED BY <2>1, <4>1, TopReads
    <3>2. fs[Top.src] = Dir BY <2>4, Kinds
    <3>3. stack' = <<x>> \o Tail(stack) BY <2>4 DEF Open
    <3> HIDE DEF x
    <3>4. Placed(x, fs', cmd) BY <2>1, <2>2, <3>1, <3>2 DEF Placed, Moving
    <3> QED BY <2>4, <3>1, <3>3, <3>4 DEF Continues, Running
  <2> QED BY <1>3, <2>3, <2>4 DEF MvExists
<1>4. CASE MvRenameFails BY <1>4 DEF MvRenameFails
<1>5. CASE MvRemove
  <2>1. stack # <<>> /\ cmd.op = "mv" /\ Top.pc = "remove" /\ Goto("again") /\ Running
    BY <1>5 DEF MvRemove, At
  <2>2. Moving /\ Placed(Top, fs, cmd) BY <2>1, TopFacts
  <2> DEFINE x == [Top EXCEPT !.pc = "again"]
  <2>3. x \in Frames /\ x.pc = "again" /\ x.src = Top.src /\ x.dst = Top.dst
    BY <2>1, TopGoto
  <2>4. stack' = <<x>> \o Tail(stack) BY <2>1 DEF Goto
  <2> HIDE DEF x
  <2>5. Placed(x, fs', cmd) BY <2>1, <2>2, <2>3 DEF Placed, Moving
  <2> QED BY <2>1, <2>3, <2>4, <2>5 DEF Continues, Running
<1>6. CASE MvAgain BY <1>6 DEF MvAgain
<1>7. CASE MvEnd BY <1>7 DEF MvEnd
<1>8. CASE RmStart
  <2>1. stack # <<>> /\ cmd.op = "rm" BY <1>8 DEF RmStart, At
  <2>2. CASE Open(Top.src) /\ Running
    <3> DEFINE x == [Top EXCEPT !.pc = "read", !.must = Children(Top.src)]
    <3>1. x \in Frames /\ x.pc = "read" /\ x.src = Top.src /\ x.dst = Top.dst
      <4>1. Children(Top.src) \in SUBSET Paths BY DEF Children
      <4> QED BY <2>1, <4>1, TopReads
    <3>2. stack' = <<x>> \o Tail(stack) BY <2>2 DEF Open
    <3> HIDE DEF x
    <3>3. Placed(x, fs', cmd) BY <2>1, <3>1, TopFacts DEF Placed
    <3> QED BY <2>2, <3>1, <3>2, <3>3 DEF Continues, Running
  <2> QED BY <1>8, <2>2 DEF RmStart
<1>9. CASE RmEnd BY <1>9 DEF RmEnd
<1>10. ASSUME NEW c \in Paths, MvEntry(c) PROVE Turns
  <2> DEFINE x == Frame(c, Append(Top.dst, Last(c)))
             y == See(c)
  <2>1. /\ stack # <<>> /\ cmd.op = "mv" /\ Top.pc = "read" /\ Reads(c) /\ Running /\ fs' = fs
        /\ stack' = <<x, y>> \o Tail(stack)
    BY <1>10 DEF MvEntry, At, Keep
  <2>2. Moving /\ Placed(Top, fs, cmd) BY <2>1, TopFacts
  <2>3. /\ Under(Top.src, c) /\ Under(cmd.src, c) /\ Len(c) = Len(Top.src) + 1 /\ c \in AnyPath
    BY <2>1, ReadsBelow
  <2>4. y \in Frames /\ y.pc = "read" /\ y.src = Top.src /\ y.dst = Top.dst BY <2>1, TopSees
  <2> HIDE DEF y
  <2>5. Append(Top.dst, Last(c)) = Moved(c, cmd.src, cmd.dst)
    <3>1. /\ cmd.src \in AnyPath /\ cmd.dst \in AnyPath /\ Top.src \in AnyPath
          /\ Under(cmd.src, Top.src) /\ Top.dst = Moved(Top.src, cmd.src, cmd.dst)
      BY <2>1, TopFacts
    <3>2. Append(Moved(Top.src, cmd.src, cmd.dst), Last(c)) = Moved(c, cmd.src, cmd.dst)
      BY <2>3, <3>1, MovedEntry DEF AnyPath
    <3> QED BY <3>1, <3>2
  <2>6. Moved(c, cmd.src, cmd.dst) \in AnyPath BY <2>1, <2>3, TopFacts, MovedDef DEF AnyPath
  <2>7. /\ x \in Frames /\ x.pc = "start" /\ x.src = c /\ x.dst = Moved(c, cmd.src, cmd.dst)
    BY <2>5, <2>6 DEF Frame, Frames
  <2> HIDE DEF x
  <2>8. Placed(x, fs', cmd) BY <2>1, <2>2, <2>3, <2>7 DEF Placed, Moving
  <2>9. Placed(y, fs', cmd) BY <2>1, <2>2, <2>4 DEF Placed, Moving
  <2>10. Len(x.src) = Len(y.src) + 1 BY <2>3, <2>4, <2>7
  <2> QED BY <2>1, <2>4, <2>7, <2>8, <2>9, <2>10 DEF Calls, Running
<1>11. ASSUME NEW c \in Paths, RmEntry(c) PROVE Turns
  <2>1. stack # <<>> /\ cmd.op = "rm" /\ Top.pc = "read" /\ Reads(c) BY <1>11 DEF RmEntry, At
  <2>2. /\ Under(Top.src, c) /\ Under(cmd.src, c) /\ Len(c) = Len(Top.src) + 1 /\ c \in AnyPath
    BY <2>1, ReadsBelow
  <2> DEFINE y == See(c)
             x == Frame(c, <<>>)
  <2>3. y \in Frames /\ y.pc = "read" /\ y.src = Top.src /\ y.dst = Top.dst BY <2>1, TopSees
  <2>4. y = See(c) OBVIOUS
  <2> HIDE DEF y
  <2>5. Placed(y, fs', cmd) BY <2>1, <2>3, TopFacts DEF Placed
  <2>6. CASE stack' = <<x, See(c)>> \o Tail(stack) /\ Running
    <3>1. /\ x \in Frames /\ x.pc = "start" /\ x.src = c
      BY PathsAny DEF Frame, Frames, None
    <3>2. stack' = <<x, y>> \o Tail(stack) BY <2>4, <2>6
    <3> HIDE DEF x
    <3>3. Placed(x, fs', cmd) BY <2>1, <2>2, <3>1 DEF Placed
    <3>4. Len(x.src) = Len(y.src) + 1 BY <2>2, <2>3, <3>1
    <3> QED BY <2>3, <2>5, <2>6, <3>1, <3>2, <3>3, <3>4 DEF Calls, Running
  <2>7. CASE stack' = <<See(c)>> \o Tail(stack) /\ Running
    BY <2>3, <2>4, <2>5, <2>7 DEF Continues, Running
  <2> QED BY <1>11, <2>6, <2>7 DEF RmEntry
<1> QED BY <1>1, <1>2, <1>3, <1>4, <1>5, <1>6, <1>7, <1>8, <1>9, <1>10, <1>11 DEF Step

LEMMA StepFaults ==
  ASSUME Typed, Step
  PROVE  faults' \in 0 .. MaxFaults
<1>1. faults \in 0 .. MaxFaults /\ MaxFaults \in Nat BY ConstantsAssumption DEF Typed
<1>2. ASSUME Fault PROVE faults' \in 0 .. MaxFaults BY <1>1, <1>2 DEF Fault
<1>3. ASSUME Sound PROVE faults' \in 0 .. MaxFaults BY <1>1, <1>3 DEF Sound
<1>4. Fault \/ Sound
  BY DEF Step, MvRefuse, MvRename, MvExists, MvRenameFails, MvRemove, MvAgain, MvEnd, RmStart,
         RmEnd, MvEntry, RmEntry, ReadEnds, AllRead
<1> QED BY <1>2, <1>3, <1>4

LEMMA StackedNext ==
  ASSUME Typed, Stacked, Step
  PROVE  stack' \in Seq(Frames) /\ (stack' # <<>>) = (result' = "running") /\ Stacked'
<1>1. /\ stack # <<>> /\ Changes /\ Turns /\ UNCHANGED <<cmd, files>> /\ result = "running"
      /\ stack \in Seq(Frames) /\ Len(stack) \in Nat /\ Len(stack) > 0
  BY StepChanges, StepTurns, TopFacts DEF Step, Typed
<1>2. Nested(stack, cmd.src) BY DEF Stacked
<1>3. \A i \in 2 .. Len(stack) : Placed(stack[i], fs', cmd) BY <1>1, ChangesCallers
<1>4. CASE stack' = <<>> /\ result' = "err"
  <2>1. stack' \in Seq(Frames) /\ Len(stack') = 0 BY <1>4, EmptySeq
  <2>2. Nested(stack', cmd') BY <1>4, <2>1 DEF Nested
  <2>3. Nested(stack', cmd.src) BY <1>4, <2>1 DEF Nested
  <2> QED BY <1>1, <1>4, <2>1, <2>3 DEF Stacked
<1>5. CASE stack' = Tail(stack) /\ result' = IF Len(stack) = 1 THEN "ok" ELSE "running"
  <2>1. /\ stack' \in Seq(Frames) /\ Nested(stack', cmd.src)
        /\ \A i \in 1 .. Len(stack') : i + 1 \in 2 .. Len(stack) /\ stack'[i] = stack[i + 1]
    BY <1>1, <1>2, <1>5, PopNested
  <2>2. Len(stack') = Len(stack) - 1 BY <1>1, <1>5, HeadTailProperties
  <2>3. stack' # <<>> <=> Len(stack) # 1
    <3>1. stack' = <<>> <=> Len(stack') = 0 BY <2>1, EmptySeq
    <3> QED BY <1>1, <2>2, <3>1
  <2>4. \A i \in 1 .. Len(stack') : Placed(stack'[i], fs', cmd) BY <1>3, <2>1
  <2> QED BY <1>1, <1>5, <2>1, <2>3, <2>4 DEF Stacked
<1>6. CASE Continues /\ UNCHANGED result
  <2>1. PICK x \in Frames :
          x.src = Top.src /\ stack' = <<x>> \o Tail(stack) /\ Placed(x, fs', cmd)
    BY <1>6 DEF Continues
  <2>2. /\ stack' \in Seq(Frames) /\ Len(stack') = Len(stack) /\ stack' # <<>>
        /\ Nested(stack', cmd.src) /\ stack'[1] = x
        /\ \A i \in 2 .. Len(stack) : stack'[i] = stack[i]
    BY <1>1, <1>2, <2>1, TopNested DEF Top
  <2>3. \A i \in 1 .. Len(stack') : i = 1 \/ i \in 2 .. Len(stack) BY <1>1, <2>2
  <2>4. \A i \in 1 .. Len(stack') : Placed(stack'[i], fs', cmd) BY <1>3, <2>1, <2>2, <2>3
  <2> QED BY <1>1, <1>6, <2>2, <2>4 DEF Stacked
<1>7. CASE Calls /\ UNCHANGED result
  <2>1. PICK x \in Frames, y \in Frames :
          /\ y.src = Top.src /\ y.pc = "read" /\ Len(x.src) = Len(y.src) + 1
          /\ stack' = <<x, y>> \o Tail(stack) /\ Placed(x, fs', cmd) /\ Placed(y, fs', cmd)
    BY <1>7 DEF Calls
  <2>2. /\ stack' \in Seq(Frames) /\ Len(stack') = Len(stack) + 1 /\ stack' # <<>>
        /\ Nested(stack', cmd.src) /\ stack'[1] = x /\ stack'[2] = y
        /\ \A i \in 3 .. Len(stack') : i - 1 \in 2 .. Len(stack) /\ stack'[i] = stack[i - 1]
    BY <1>1, <1>2, <2>1, PushNested DEF Top
  <2>3. \A i \in 1 .. Len(stack') : i = 1 \/ i = 2 \/ i \in 3 .. Len(stack') BY <1>1, <2>2
  <2>4. \A i \in 1 .. Len(stack') : Placed(stack'[i], fs', cmd) BY <1>3, <2>1, <2>2, <2>3
  <2> QED BY <1>1, <1>7, <2>2, <2>4 DEF Stacked
<1> QED BY <1>1, <1>4, <1>5, <1>6, <1>7 DEF Turns

LEMMA TypedNext ==
  ASSUME Typed, Stacked, Step
  PROVE  Typed'
<1>1. Changes /\ Turns /\ stack # <<>> /\ UNCHANGED <<cmd, files>>
  BY StepChanges, StepTurns DEF Step
<1>2. Tree(fs') BY <1>1, ChangesTree
<1>3. faults' \in 0 .. MaxFaults BY StepFaults
<1>4. stack' \in Seq(Frames) /\ (stack' # <<>>) = (result' = "running") BY StackedNext
<1>5. result' \in {"none", "running", "ok", "err"} BY <1>1 DEF Turns, Typed
<1> QED BY <1>1, <1>2, <1>3, <1>4, <1>5 DEF Typed

-------------------------------------------------------------------------------
(* The files.                                                              *)

LEMMA Carried ==
  ASSUME NEW s \in AnyPath, NEW d \in AnyPath, NEW q \in AnyPath, Under(s, q)
  PROVE  /\ Moved(q, s, d) \in AnyPath /\ Under(d, Moved(q, s, d))
         /\ Moved(Moved(q, s, d), d, s) = q
BY MovedBack DEF AnyPath

LEMMA CarriedOn ==
  ASSUME NEW s \in AnyPath, NEW d \in AnyPath, NEW a \in AnyPath, NEW q \in AnyPath,
         Under(s, a), Under(a, q)
  PROVE  Moved(q, a, Moved(a, s, d)) = Moved(q, s, d)
BY MovedUnder DEF AnyPath

LEMMA FoundNext ==
  ASSUME Typed, Stacked, Asked, Step, cmd.op = "mv", ~Upwards, ~Aliased,
         Found(fs, cmd.src, cmd.dst)
  PROVE  Found(fs', cmd.src, cmd.dst)
<1> DEFINE s == cmd.src
           d == cmd.dst
           a == Top.src
           b == Top.dst
<1>1. Changes /\ stack # <<>> BY StepChanges
<1>2. /\ s \in AnyPath /\ d \in AnyPath /\ a \in Paths /\ a \in AnyPath /\ b \in AnyPath
      /\ Under(s, a) /\ Under(d, b) /\ b = Moved(a, s, d) /\ Placed(Top, fs, cmd)
  BY <1>1, TopFacts
<1>3. fs \in [Paths -> Values] /\ Tree(fs) /\ files \subseteq Paths BY DEF Typed, Tree
<1>4. ~Under(d, s) BY DEF Upwards
<1>apart. ASSUME Moving PROVE ~Under(s, d) BY <1>apart DEF Aliased, Asked, Moving
<1>5. \A p \in Paths : p \in AnyPath BY PathsAny
<1>6. CASE fs' = fs BY <1>6
<1>7. CASE Deletes BY <1>7 DEF Deletes
<1> SUFFICES ASSUME Moving, Replaces \/ Renames \/ Clears PROVE Found(fs', s, d)
  BY <1>1, <1>6, <1>7 DEF Changes, Replaces, Renames, Clears
<1>8. ASSUME NEW q \in AnyPath, Under(s, q) PROVE ~Under(d, q) /\ ~Under(b, q)
  <2>1. ~Under(d, q) BY <1>2, <1>4, <1>8, <1>apart, Apart
  <2> QED BY <1>2, <1>8, <2>1, UnderOrder DEF AnyPath
<1>9. ASSUME NEW q \in AnyPath, Under(d, q) PROVE ~Under(s, q) /\ ~Under(a, q)
  <2>1. ~Under(s, q) BY <1>2, <1>4, <1>9, <1>apart, Apart
  <2> QED BY <1>2, <1>9, <2>1, UnderOrder DEF AnyPath
<1> HIDE DEF s, d, a, b
<1>10. ASSUME NEW p \in files, Under(s, p)
       PROVE  /\ Moved(p, s, d) \in AnyPath /\ Under(d, Moved(p, s, d))
              /\ Moved(Moved(p, s, d), d, s) = p
  <2>1. p \in AnyPath BY <1>3, <1>5
  <2> QED BY <1>2, <1>10, <2>1, Carried
<1>11. Moved(b, d, s) = a BY <1>2, Carried
<1>12. None \notin Paths /\ Dir \notin Paths BY PathsAny
<1>13. /\ \A q \in Paths : Under(s, q) => fs[q] \in {None, Dir, q} /\ (fs[q] = q => q \in files)
       /\ \A p \in files : Under(s, p) =>
            fs[p] = p \/ (Moved(p, s, d) \in Paths /\ fs[Moved(p, s, d)] = p)
       /\ \A p \in files : ~Under(s, p) =>
            fs[p] = p \/ (Under(d, p) /\ Moved(p, d, s) \in files)
  BY DEF Found, s, d
<1>14. CASE Replaces
  <2>1. IsFile(fs, a) /\ IsFile(fs, b) BY <1>2, <1>14 DEF Replaces, Moving, Placed, a, b
  <2>2. fs[a] = a /\ a \in files BY <1>2, <1>13, <2>1 DEF IsFile
  <2>3. \A q \in Paths : fs'[q] = IF q = b THEN None ELSE fs[q]
    BY <1>3, <1>14 DEF Replaces, Delete, b
  <2>4. ASSUME NEW q \in Paths, Under(s, q) PROVE fs'[q] = fs[q]
    <3>1. q # b BY <1>2, <1>5, <1>8, <2>4
    <3> QED BY <2>3, <3>1
  <2>5. ASSUME NEW p \in files, Under(s, p), fs[p] # p
        PROVE  Moved(p, s, d) \in Paths /\ fs'[Moved(p, s, d)] = p
    <3>1. Moved(p, s, d) \in Paths /\ fs[Moved(p, s, d)] = p BY <1>13, <2>5
    <3>2. Moved(p, s, d) # b BY <1>10, <1>11, <2>2, <2>5
    <3> QED BY <2>3, <3>1, <3>2
  <2>6. ASSUME NEW p \in files, ~Under(s, p), fs[p] = p, fs'[p] # p
        PROVE  Under(d, p) /\ Moved(p, d, s) \in files
    <3>1. p = b BY <1>3, <2>3, <2>6
    <3> QED BY <1>2, <1>11, <2>2, <3>1
  <2> QED BY <1>3, <1>13, <2>4, <2>5, <2>6 DEF Found
<1>15. CASE Renames
  <2>1. CanRename(a, b) /\ Rename(a, b) BY <1>15 DEF Renames, a, b
  <2>2. fs[b] = None /\ b \in Paths BY <2>1, Kinds DEF CanRename
  <2>3. \A q \in Paths : Under(b, q) => fs[q] = None
    BY <1>3, <2>2, DirsAbove, PathsAny DEF Tree
  <2>4. \A q \in Paths : ~Under(a, q) /\ ~Under(b, q) => fs'[q] = fs[q] BY <2>1, Renamed
  <2>5. ASSUME NEW q \in Paths, Under(s, q) PROVE fs'[q] = fs[q] \/ fs'[q] = None
    BY <1>5, <1>8, <2>1, <2>5, Renamed
  <2>6. ASSUME NEW q \in Paths, Under(s, q), fs'[q] = q PROVE q \in files
    BY <1>12, <1>13, <2>5, <2>6
  <2>7. ASSUME NEW p \in files, Under(s, p), fs'[p] # p
        PROVE  Moved(p, s, d) \in Paths /\ fs'[Moved(p, s, d)] = p
    <3> DEFINE m == Moved(p, s, d)
    <3>1. CASE fs[p] = p
      <4>1. Under(a, p) BY <1>3, <1>5, <1>8, <2>4, <2>7, <3>1
      <4>2. Kind(p) # "none" BY <1>3, <1>12, <3>1, Kinds
      <4>3. Moved(p, a, b) = m
        <5>1. p \in AnyPath BY <1>3, <1>5
        <5>2. Moved(p, a, Moved(a, s, d)) = Moved(p, s, d) BY <1>2, <4>1, <5>1, CarriedOn
        <5> QED BY <1>2, <5>2
      <4>4. m \in Paths BY <1>3, <2>1, <4>1, <4>2, <4>3 DEF CanRename
      <4>5. Under(b, m) /\ Moved(m, b, a) = p
        <5>1. Under(b, Moved(p, a, b)) /\ Moved(Moved(p, a, b), b, a) = p
          <6>1. p \in AnyPath BY <1>3, <1>5
          <6> QED BY <1>2, <4>1, <6>1, Carried
        <5> QED BY <4>3, <5>1
      <4>6. ~Under(a, m) BY <1>9, <1>10, <2>7
      <4> HIDE DEF m
      <4>7. fs'[m] = fs[p] BY <1>3, <2>1, <4>4, <4>5, <4>6, Renamed
      <4> QED BY <3>1, <4>4, <4>7 DEF m
    <3>2. CASE fs[p] # p
      <4>1. m \in Paths /\ fs[m] = p BY <1>13, <2>7, <3>2
      <4>2. ~Under(b, m) BY <1>3, <1>12, <2>3, <4>1
      <4>3. ~Under(a, m) BY <1>9, <1>10, <2>7
      <4> QED BY <2>4, <4>1, <4>2, <4>3
    <3> QED BY <3>1, <3>2
  <2>8. ASSUME NEW p \in files, ~Under(s, p), fs[p] = p PROVE fs'[p] = p
    <3>1. ~Under(b, p) BY <1>3, <1>12, <2>3, <2>8
    <3>2. ~Under(a, p) BY <1>2, <1>3, <1>5, <2>8, UnderOrder DEF AnyPath, s, a
    <3> QED BY <1>3, <2>4, <2>8, <3>1, <3>2
  <2> QED BY <1>3, <1>13, <2>5, <2>6, <2>7, <2>8 DEF Found
<1>16. CASE Clears
  <2>1. fs[a] = Dir BY <1>2, <1>4, <1>16, <1>apart DEF Clears, Moving, Placed, s, d, a
  <2>2. \A q \in Paths : fs'[q] = IF q = a THEN None ELSE fs[q]
    BY <1>3, <1>16 DEF Clears, Delete, a
  <2>3. \A p \in files, q \in Paths : fs[q] = p => fs'[q] = p BY <1>3, <1>12, <2>1, <2>2
  <2>4. ASSUME NEW q \in Paths, Under(s, q), fs'[q] = q PROVE fs[q] = q
    BY <1>12, <2>2, <2>4
  <2> QED BY <1>3, <1>13, <2>2, <2>3, <2>4 DEF Found
<1> QED BY <1>14, <1>15, <1>16

LEMMA ElsewhereNext ==
  ASSUME Typed, Stacked, ElsewhereKept, Step
  PROVE  ElsewhereKept'
<1>1. Changes /\ stack # <<>> /\ UNCHANGED <<cmd, files>> /\ files \subseteq Paths
  BY StepChanges DEF Step, Typed
<1>2. ASSUME NEW p \in files, ~Under(cmd.src, p), cmd.op = "mv" => ~Under(cmd.dst, p)
      PROVE  fs'[p] = p
  <2>1. fs'[p] = fs[p] BY <1>1, <1>2, ChangesWithin
  <2> QED BY <1>2, <2>1 DEF ElsewhereKept
<1> QED BY <1>1, <1>2 DEF ElsewhereKept

LEMMA DeletedNext ==
  ASSUME Typed, Stacked, Step
  PROVE  DeletedGone'
<1>1. /\ stack # <<>> /\ Turns /\ UNCHANGED cmd /\ result = "running" /\ Tree(fs)
  BY StepChanges, StepTurns DEF Step, Typed
<1> SUFFICES ASSUME cmd.op = "rm", result' = "ok"
             PROVE  \A q \in Paths : Under(cmd.src, q) => fs'[q] = None
  BY <1>1 DEF DeletedGone
<1>2. Top.src = cmd.src /\ cmd.src \in Paths
  <2>1. Len(stack) = 1 BY <1>1 DEF Turns
  <2> QED BY <1>1, <2>1, TopFacts DEF Stacked, Nested
<1>3. Delete(Top.src) /\ (Kind(Top.src) = "file" \/ Children(Top.src) = {})
  <2>1. RmStart \/ RmEnd \/ \E c \in Paths : RmEntry(c)
    BY DEF Step, MvRefuse, MvRename, MvExists, MvRenameFails, MvRemove, MvAgain, MvEnd,
           MvEntry, At
  <2>2. CASE RmStart BY <1>1, <2>2 DEF RmStart, Running, Fail
  <2>3. CASE RmEnd BY <1>1, <2>3 DEF RmEnd, Fail
  <2>4. CASE \E c \in Paths : RmEntry(c) BY <1>1, <2>4 DEF RmEntry, Running, Fail
  <2> QED BY <2>1, <2>2, <2>3, <2>4
<1> QED BY <1>1, <1>2, <1>3, DeleteTree

LEMMA StepInv ==
  ASSUME IInv, Step
  PROVE  IInv'
<1>1. Typed' /\ Stacked' BY TypedNext, StackedNext DEF IInv
<1>2. ElsewhereKept' /\ DeletedGone' BY ElsewhereNext, DeletedNext DEF IInv
<1>3. AllFound'
  <2>1. UNCHANGED <<cmd, files>> BY DEF Step
  <2>2. ASSUME cmd.op = "mv", ~Upwards, ~Aliased PROVE Found(fs', cmd.src, cmd.dst)
    BY <2>2, FoundNext DEF IInv, AllFound
  <2> QED BY <2>1, <2>2 DEF AllFound, Upwards, Aliased, Found
<1>4. Single' /\ Asked' BY DEF IInv, Step, Single, Asked
<1> QED BY <1>1, <1>2, <1>3, <1>4 DEF IInv

\* The first step of a command.
LEMMA BeginInv ==
  ASSUME IInv, NEW op \in {"mv", "rm", "rmdir"}, NEW what \in Answers(op),
         NEW s \in Paths, NEW d \in AnyPath, Begin(op, s, d, what)
  PROVE  IInv'
<1> USE DEF Begin
<1>1. fs \in [Paths -> Values] /\ IsTree(fs) BY DEF IInv, Typed, Tree
<1>2. \A p \in Paths : fs'[p] = IF Kind(p) = "file" THEN p ELSE fs[p] OBVIOUS
<1>3. None \notin Paths /\ Dir \notin Paths /\ s \in AnyPath BY PathsAny
<1>4. fs' \in [Paths -> Values] BY <1>1 DEF Values
<1>5. ASSUME NEW p \in Paths, fs'[p] # None, Len(p) > 1 PROVE fs'[Parent(p)] = Dir
  <2>1. fs[p] # None BY <1>2, <1>5, Kinds
  <2>2. Parent(p) \in Paths /\ fs[Parent(p)] = Dir BY <1>1, <1>5, <2>1, PathsAny DEF IsTree
  <2> QED BY <1>2, <2>2, Kinds
<1>6. Tree(fs') BY <1>4, <1>5, TreeDef
<1>7. cmd' \in Commands /\ cmd'.src = s /\ cmd'.dst = d /\ cmd'.what = what
  BY <1>3 DEF Commands, Answers
<1> DEFINE f == Frame(s, d)
<1>8. f \in Frames /\ f.pc = "start" /\ f.src = s /\ f.dst = d BY DEF Frame, Frames
<1>9. stack' = <<f>> /\ f \in Frames BY <1>8
<1> HIDE DEF f
<1>10. /\ stack' \in Seq(Frames) /\ Len(stack') = 1 /\ stack'[1] = f /\ stack' # <<>>
  BY <1>9
<1>faults. faults' \in 0 .. MaxFaults
  <2>1. faults \in 0 .. MaxFaults /\ MaxFaults \in Nat
    BY ConstantsAssumption DEF IInv, Typed
  <2>2. Fault \/ Sound OBVIOUS
  <2> HIDE DEF Begin
  <2> QED BY <2>1, <2>2 DEF Fault, Sound
<1>11. Typed' BY <1>6, <1>7, <1>10, <1>faults DEF Typed
<1>12. Nested(stack', cmd'.src) BY <1>7, <1>8, <1>10 DEF Nested
<1>13. Placed(f, fs', cmd')
  <2>1. Under(s, s) /\ Moved(s, s, d) = d BY <1>3, UnderOrder, MovedBack DEF AnyPath
  <2> HIDE DEF Begin
  <2> QED BY <1>7, <1>8, <2>1 DEF Placed
<1>14. Stacked' BY <1>10, <1>12, <1>13 DEF Stacked
<1>15. \A p \in files' : p \in Paths /\ fs'[p] = p OBVIOUS
<1>16. ASSUME NEW q \in Paths PROVE fs'[q] \in {None, Dir, q} /\ (fs'[q] = q => q \in files')
  BY <1>2, <1>3, Kinds
<1>17. AllFound' BY <1>15, <1>16 DEF AllFound, Found
<1>18. ElsewhereKept' BY <1>15 DEF ElsewhereKept
<1>19. DeletedGone' BY DEF DeletedGone
<1>21. Asked' BY DEF Asked, Answers
<1>22. Single'
  <2>1. ASSUME what = "file", NEW p \in Paths, Kind(p) = "file", Under(s, p) PROVE p = s
    <3>1. fs[s] # Dir BY <2>1, Kinds
    <3>2. fs[p] # None BY <2>1, Kinds
    <3> QED BY <1>1, <2>1, <3>1, <3>2, DirsAbove
  <2>2. what = "file" => cmd'.op = "rm" BY DEF Answers
  <2>3. files' = {p \in Paths : Kind(p) = "file"} OBVIOUS
  <2> HIDE DEF Begin
  <2> QED BY <1>7, <2>1, <2>2, <2>3 DEF Single
<1> QED BY <1>11, <1>14, <1>17, <1>18, <1>19, <1>21, <1>22 DEF IInv

LEMMA InitInv ==
  ASSUME Init
  PROVE  IInv
<1>1. Tree(fs) BY ConstantsAssumption DEF Init, Tree, Values
<1>2. stack = <<>> /\ stack \in Seq(Frames) /\ Len(stack) = 0 BY EmptySeq DEF Init
<1>3. cmd.op = "rm" /\ cmd.what = "any" /\ cmd \in Commands
  BY PathsAny DEF Init, None, Commands
<1>4. Typed BY <1>1, <1>2, <1>3, ConstantsAssumption DEF Init, Typed
<1>5. Stacked BY <1>2 DEF Stacked, Nested
<1>6. AllFound /\ ElsewhereKept /\ DeletedGone /\ Single /\ Asked
  BY <1>3 DEF Init, AllFound, ElsewhereKept, DeletedGone, Single, Asked
<1> QED BY <1>4, <1>5, <1>6 DEF IInv

LEMMA NextInv ==
  ASSUME IInv, [Next]_vars
  PROVE  IInv'
<1>1. CASE Step BY <1>1, StepInv
<1>2. ASSUME NEW s \in Paths, NEW d \in Paths, NEW what \in Answers("mv"),
             Begin("mv", s, d, what)
      PROVE  IInv'
  BY <1>2, BeginInv, PathsAny
<1>3. ASSUME NEW s \in Paths, NEW op \in {"rm", "rmdir"}, NEW what \in Answers(op),
             Begin(op, s, <<>>, what)
      PROVE  IInv'
  <2>1. <<>> \in AnyPath BY PathsAny DEF None
  <2> QED BY <1>3, <2>1, BeginInv
<1>4. CASE UNCHANGED vars
  BY <1>4 DEF vars, IInv, Typed, Stacked, AllFound, Found, Upwards, Aliased, ElsewhereKept,
              DeletedGone, Single, Asked
<1> QED BY <1>1, <1>2, <1>3, <1>4 DEF Next

LEMMA SpecInv == Spec => []IInv
BY InitInv, NextInv, PTL DEF Spec

LEMMA InvFilesKept ==
  ASSUME IInv
  PROVE  FilesKept
<1>1. TypeOK
  <2>1. ASSUME NEW i \in DOMAIN stack
        PROVE  /\ stack[i].pc \in {"start", "remove", "again", "read"}
               /\ stack[i].src \in Paths /\ stack[i].must \cup stack[i].seen \subseteq Paths
    <3>1. stack[i] \in Frames BY <2>1, ElementOfSeq DEF IInv, Typed
    <3> QED BY <3>1 DEF Frames
  <2> QED BY <2>1 DEF IInv, Typed, Tree, TypeOK
<1>2. ASSUME cmd.op = "mv", ~Upwards, ~Aliased, NEW p \in Lost
      PROVE  ~Under(cmd.src, p) /\ Under(cmd.dst, p) /\ Moved(p, cmd.dst, cmd.src) \in files
  <2>1. p \in files /\ p \in Paths /\ \A q \in Paths : fs[q] # p
    BY DEF Lost, IInv, Typed
  <2> QED BY <1>2, <2>1 DEF IInv, AllFound, Found
<1>3. ASSUME cmd.what = "file", NEW p \in Lost PROVE p = cmd.src
  <2>1. p \in files /\ p \in Paths /\ fs[p] # p BY DEF Lost, IInv, Typed
  <2>2. cmd.op = "rm" /\ (Under(cmd.src, p) => p = cmd.src) BY <1>3, <2>1 DEF IInv, Single
  <2>3. Under(cmd.src, p) BY <2>1, <2>2 DEF IInv, ElsewhereKept
  <2> QED BY <2>2, <2>3
<1> QED BY <1>1, <1>2, <1>3 DEF FilesKept, SourceKept, OnlyReplaced, OnlyFile, IInv

-------------------------------------------------------------------------------
\* Wherever s_movePath or s_removePath stops, with whatever file system and whatever system
\* calls fail: it leaves a tree; outside the command's paths every file is where it was; mv
\* has every file it was not to replace where it was or where it was moved to, unless it moves
\* upwards or onto an alias of its source; rm deletes one file, unless its stat failed.
THEOREM FilesKeptCorrect == Spec => []FilesKept
BY SpecInv, InvFilesKept, PTL

\* What s_removePath reports as deleted is gone, with all that was below it.
THEOREM DeletedGoneCorrect == Spec => []DeletedGone
<1>1. IInv => DeletedGone BY DEF IInv
<1> QED BY <1>1, SpecInv, PTL

================================================================================
