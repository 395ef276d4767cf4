----------------------------- MODULE MsgLinkProofs -----------------------------
(***************************************************************************)
(* Theorems about MsgLink, for any number of prints and kernel texts: how  *)
(* far the server can run ahead of the client, and whose reply a print     *)
(* gets.  Both follow from one balance of prints, units and replies.       *)
(***************************************************************************)
EXTENDS MsgLink, SequenceTheorems, FiniteSetTheorems, TLAPS

Begun == Prints \ Unstarted

\* The prints begin one after the other; the one waiting is the last of them.
InTurn ==
  \E n \in 0 .. MaxPrints :
    /\ Unstarted = n + 1 .. MaxPrints /\ waiting \in {0, n} /\ lookalikes <= n + texts
    /\ waiting # 0 => ends[waiting] = "no"

\* Only a client that is gone breaks a wait; a connected one has received each print or will
\* do so, in the order in which they began.
Arrives ==
  /\ shown \subseteq Begun /\ (open => \A p \in Prints : ends[p] # "error")
  /\ ~open => toCli = <<>>
  /\ open => \A p \in Begun \ shown : \E i \in DOMAIN toCli : toCli[i].id = p
  /\ waiting \in shown => Returned \subseteq shown

\* Units begin a print or are nobody's, and no print begins twice.
UnitsInOrder ==
  /\ \A i \in DOMAIN toCli :
       /\ toCli[i].kind = "print" <=> toCli[i].id # 0
       /\ toCli[i].id # 0 => toCli[i].id \in Begun \ shown
  /\ \A i, j \in DOMAIN toCli :
       i < j /\ toCli[i].id # 0 /\ toCli[j].id # 0 => toCli[i].id < toCli[j].id

Lookalikes(s) == {i \in DOMAIN s : s[i].kind = "lookalike"}
Own == IF waiting \in shown THEN 1 ELSE 0

\* The prints that returned too early, the replies and the lookalikes on their way are not
\* more than the prints that timed out, the lookalikes sent, and the reply that the waiting
\* print is owed.
Balance ==
  Cardinality(Returned \ shown) + replies + Cardinality(Lookalikes(toCli))
    <= Cardinality(TimedOut) + lookalikes + Own

\* The variables stay in their ranges; that of replies follows from the balance.
Ranges ==
  /\ open \in BOOLEAN /\ toCli \in Seq(Units) /\ shown \subseteq Prints /\ replies \in Nat
  /\ waiting \in Prints \cup {0} /\ ends \in [Prints -> {"no", "reply", "timeout", "error"}]
  /\ texts \in 0 .. MaxTexts /\ lookalikes \in Nat

Link == Ranges /\ InTurn /\ Arrives /\ UnitsInOrder /\ Balance

-------------------------------------------------------------------------------
(* Counting.                                                               *)

LEMMA PrintSets ==
  ASSUME NEW S, S \subseteq Prints
  PROVE  IsFiniteSet(S) /\ Cardinality(S) \in 0 .. MaxPrints
<1>1. IsFiniteSet(Prints) /\ Cardinality(Prints) = MaxPrints
  BY FS_Interval, ConstantsAssumption DEF Prints
<1>2. IsFiniteSet(S) /\ Cardinality(S) <= Cardinality(Prints)
  BY <1>1, FS_Subset
<1>3. QED
  BY <1>1, <1>2, FS_CardinalityType, ConstantsAssumption

LEMMA LookSet ==
  ASSUME NEW s \in Seq(Units)
  PROVE  IsFiniteSet(Lookalikes(s)) /\ Cardinality(Lookalikes(s)) \in Nat
<1>1. Len(s) \in Nat /\ DOMAIN s = 1 .. Len(s)
  BY LenProperties
<1>2. IsFiniteSet(1 .. Len(s))
  BY <1>1, FS_Interval
<1>3. QED
  BY <1>1, <1>2, FS_Subset, FS_CardinalityType DEF Lookalikes

\* What is sent behind the units on their way adds its lookalikes to theirs.
LEMMA LookConcat ==
  ASSUME NEW s \in Seq(Units), NEW t \in Seq(Units)
  PROVE  Cardinality(Lookalikes(s \o t)) <= Cardinality(Lookalikes(s)) + Cardinality(Lookalikes(t))
<1>1. /\ Len(s) \in Nat /\ DOMAIN s = 1 .. Len(s) /\ Len(t) \in Nat /\ DOMAIN t = 1 .. Len(t)
  BY LenProperties
<1>2. /\ s \o t \in Seq(Units) /\ Len(s \o t) = Len(s) + Len(t)
      /\ \A i \in 1 .. Len(s) + Len(t) : (s \o t)[i] = IF i <= Len(s) THEN s[i] ELSE t[i - Len(s)]
  BY ConcatProperties
<1>3. DOMAIN (s \o t) = 1 .. Len(s) + Len(t)
  BY <1>2, LenProperties
<1> DEFINE A == {i \in Lookalikes(s \o t) : i <= Len(s)}
           B == {i \in Lookalikes(s \o t) : i > Len(s)}
           f == [i \in B |-> i - Len(s)]
<1>4. Lookalikes(s \o t) = A \cup B
  BY <1>1, <1>3 DEF Lookalikes
<1>5. A \subseteq Lookalikes(s)
  BY <1>1, <1>2, <1>3 DEF Lookalikes
<1>6. f \in Injection(B, Lookalikes(t))
  <2>1. ASSUME NEW i \in B PROVE i - Len(s) \in Lookalikes(t)
    <3>1. i \in 1 .. Len(s) + Len(t) /\ i > Len(s) /\ (s \o t)[i].kind = "lookalike"
      BY <1>3 DEF Lookalikes
    <3>2. i - Len(s) \in 1 .. Len(t) /\ (s \o t)[i] = t[i - Len(s)]
      BY <1>1, <1>2, <3>1
    <3>3. QED
      BY <1>1, <3>1, <3>2 DEF Lookalikes
  <2>2. ASSUME NEW i \in B, NEW j \in B, f[i] = f[j] PROVE i = j
    BY <1>1, <1>3, <2>2 DEF Lookalikes
  <2>3. QED
    BY <2>1, <2>2 DEF Injection, IsInjective
<1>7. IsFiniteSet(B) /\ Cardinality(B) <= Cardinality(Lookalikes(t)) /\ Cardinality(B) \in Nat
  BY <1>6, LookSet, FS_Injection, FS_CardinalityType
<1>8. IsFiniteSet(A) /\ Cardinality(A) <= Cardinality(Lookalikes(s)) /\ Cardinality(A) \in Nat
  BY <1>5, LookSet, FS_Subset, FS_CardinalityType
<1>9. Cardinality(A \cup B) = Cardinality(A) + Cardinality(B) - Cardinality(A \cap B)
  BY <1>7, <1>8, FS_Union
<1>10. Cardinality(A \cap B) \in Nat
  BY <1>7, <1>8, FS_Intersection, FS_CardinalityType
<1>11. Cardinality(A \cup B) <= Cardinality(Lookalikes(s)) + Cardinality(Lookalikes(t))
  <2> HIDE DEF A, B
  <2> QED
    BY <1>7, <1>8, <1>9, <1>10, LookSet
<1>12. QED
  BY <1>4, <1>11

\* What a recv takes is gone, and a lookalike at its head with it.
LEMMA LookTaken ==
  ASSUME NEW s \in Seq(Units), NEW k \in 1 .. Len(s)
  PROVE  LET t == SubSeq(s, k + 1, Len(s)) IN
         /\ t \in Seq(Units) /\ DOMAIN t = 1 .. Len(s) - k /\ \A i \in DOMAIN t : t[i] = s[k + i]
         /\ Cardinality(Lookalikes(t)) <=
              Cardinality(Lookalikes(s)) - (IF s[1].kind = "lookalike" THEN 1 ELSE 0)
<1> DEFINE t == SubSeq(s, k + 1, Len(s))
<1>1. Len(s) \in Nat /\ DOMAIN s = 1 .. Len(s) /\ k \in Nat /\ k <= Len(s) /\ k >= 1
  BY LenProperties
<1>2. \A i \in k + 1 .. Len(s) : s[i] \in Units
  BY <1>1, ElementOfSeq
<1>3. /\ t \in Seq(Units) /\ Len(t) = Len(s) - k
      /\ \A i \in 1 .. Len(s) - (k + 1) + 1 : t[i] = s[k + 1 + i - 1]
  <2>1. k + 1 \in Int /\ Len(s) \in Int
    BY <1>1
  <2>2. /\ t \in Seq(Units) /\ Len(t) = IF k + 1 <= Len(s) THEN Len(s) - (k + 1) + 1 ELSE 0
        /\ \A i \in 1 .. Len(s) - (k + 1) + 1 : t[i] = s[k + 1 + i - 1]
    BY <1>2, <2>1, SubSeqProperties
  <2> HIDE DEF t
  <2>3. Len(t) = Len(s) - k
    <3>1. Len(t) = IF k + 1 <= Len(s) THEN Len(s) - (k + 1) + 1 ELSE 0
      BY <2>2
    <3>2. k \in Nat /\ Len(s) \in Nat /\ k <= Len(s)
      BY <1>1
    <3>3. CASE k + 1 <= Len(s)
      BY <3>1, <3>2, <3>3
    <3>4. CASE ~(k + 1 <= Len(s))
      BY <3>1, <3>2, <3>4
    <3>5. QED
      BY <3>3, <3>4
  <2>4. QED
    BY <2>2, <2>3
<1>4. DOMAIN t = 1 .. Len(s) - k
  BY <1>3, LenProperties
<1> HIDE DEF t
<1>5. ASSUME NEW i \in DOMAIN t PROVE t[i] = s[k + i]
  <2>1. i \in 1 .. Len(s) - (k + 1) + 1 /\ k + 1 + i - 1 = k + i
    BY <1>1, <1>4
  <2>2. QED
    BY <1>3, <2>1
<1> DEFINE S == Lookalikes(s) \ {1}
           f == [i \in Lookalikes(t) |-> i + k]
<1>6. f \in Injection(Lookalikes(t), S)
  <2>1. ASSUME NEW i \in Lookalikes(t) PROVE i + k \in S
    <3>1. i \in 1 .. Len(s) - k /\ t[i].kind = "lookalike"
      BY <1>4 DEF Lookalikes
    <3>2. i + k \in 1 .. Len(s) /\ i + k # 1 /\ t[i] = s[i + k]
      BY <1>1, <1>4, <1>5, <3>1
    <3>3. QED
      BY <1>1, <3>1, <3>2 DEF Lookalikes
  <2>2. ASSUME NEW i \in Lookalikes(t), NEW j \in Lookalikes(t), f[i] = f[j] PROVE i = j
    BY <1>1, <1>4, <2>2 DEF Lookalikes
  <2>3. QED
    BY <2>1, <2>2 DEF Injection, IsInjective
<1>7. /\ IsFiniteSet(S)
      /\ Cardinality(S) =
           IF 1 \in Lookalikes(s) THEN Cardinality(Lookalikes(s)) - 1
           ELSE Cardinality(Lookalikes(s))
  BY LookSet, FS_RemoveElement
<1>8. Cardinality(Lookalikes(t)) <= Cardinality(S)
  BY <1>6, <1>7, FS_Injection
<1>9. 1 \in Lookalikes(s) <=> s[1].kind = "lookalike"
  BY <1>1 DEF Lookalikes
<1>10. Cardinality(Lookalikes(t)) <=
         Cardinality(Lookalikes(s)) - (IF s[1].kind = "lookalike" THEN 1 ELSE 0)
  BY <1>3, <1>7, <1>8, <1>9, LookSet
<1>11. QED
  BY <1>3, <1>4, <1>5, <1>10 DEF t

-------------------------------------------------------------------------------
(* The server sends.                                                       *)

LEMMA SendFacts ==
  ASSUME toCli \in Seq(Units), lookalikes \in Nat, NEW units \in Seq(Units), Send(units)
  PROVE  /\ toCli' \in Seq(Units) /\ Cardinality(Lookalikes(units)) \in Nat
         /\ lookalikes' = lookalikes + Cardinality(Lookalikes(units))
         /\ Cardinality(Lookalikes(toCli')) + lookalikes <=
              Cardinality(Lookalikes(toCli)) + lookalikes'
         /\ ~open => toCli' = toCli
         /\ open => /\ DOMAIN toCli' = 1 .. Len(toCli) + Len(units)
                    /\ \A i \in 1 .. Len(toCli) : toCli'[i] = toCli[i]
                    /\ \A i \in 1 .. Len(units) : toCli'[Len(toCli) + i] = units[i]
<1>1. Cardinality(Lookalikes(units)) \in Nat /\ Cardinality(Lookalikes(toCli)) \in Nat
  BY LookSet
<1>2. lookalikes' = lookalikes + Cardinality(Lookalikes(units))
  BY DEF Send, Lookalikes
<1>3. CASE ~open
  BY <1>1, <1>2, <1>3 DEF Send
<1>4. CASE open
  <2>1. toCli' = toCli \o units
    BY <1>4 DEF Send
  <2>2. /\ toCli' \in Seq(Units) /\ Len(toCli') = Len(toCli) + Len(units)
        /\ \A i \in 1 .. Len(toCli) + Len(units) :
             toCli'[i] = IF i <= Len(toCli) THEN toCli[i] ELSE units[i - Len(toCli)]
    BY <2>1, ConcatProperties
  <2>3. Cardinality(Lookalikes(toCli')) <=
          Cardinality(Lookalikes(toCli)) + Cardinality(Lookalikes(units))
    BY <2>1, LookConcat
  <2>4. DOMAIN toCli' = 1 .. Len(toCli) + Len(units)
    BY <2>2, LenProperties
  <2>5. Len(toCli) \in Nat /\ Len(units) \in Nat
    BY LenProperties
  <2>6. \A i \in 1 .. Len(toCli) : toCli'[i] = toCli[i]
    BY <2>2, <2>5
  <2>7. ASSUME NEW i \in 1 .. Len(units) PROVE toCli'[Len(toCli) + i] = units[i]
    <3>1. /\ Len(toCli) + i \in 1 .. Len(toCli) + Len(units) /\ ~(Len(toCli) + i <= Len(toCli))
          /\ Len(toCli) + i - Len(toCli) = i
      BY <2>5
    <3>2. QED
      BY <2>2, <3>1
  <2>8. Cardinality(Lookalikes(toCli')) \in Nat
    BY <2>2, LookSet
  <2>9. Cardinality(Lookalikes(toCli')) + lookalikes <=
          Cardinality(Lookalikes(toCli)) + lookalikes'
    BY <1>1, <1>2, <2>3, <2>8
  <2>10. QED
    BY <1>1, <1>2, <1>4, <2>2, <2>4, <2>6, <2>7, <2>9
<1>5. QED
  BY <1>3, <1>4

\* Units go behind those on their way; only the first can begin a print, a new one.
LEMMA UnitsSent ==
  ASSUME Link, NEW units \in Seq(Units), Send(units), Begun \subseteq Begun', UNCHANGED shown,
         \A i \in 1 .. Len(units) :
           /\ units[i].kind = "print" <=> units[i].id # 0
           /\ units[i].id # 0 =>
                i = 1 /\ units[i].id \in Begun' \ shown /\ \A q \in Begun : q < units[i].id
  PROVE  UnitsInOrder'
<1>1. toCli \in Seq(Units) /\ lookalikes \in Nat /\ UnitsInOrder
  BY DEF Link, Ranges
<1>2. CASE ~open
  <2>1. toCli' = toCli
    BY <1>1, <1>2, SendFacts
  <2>2. QED
    BY <1>1, <2>1 DEF UnitsInOrder
<1>3. CASE open
  <2>1. /\ DOMAIN toCli' = 1 .. Len(toCli) + Len(units) /\ Len(toCli) \in Nat /\ Len(units) \in Nat
        /\ DOMAIN toCli = 1 .. Len(toCli) /\ \A i \in 1 .. Len(toCli) : toCli'[i] = toCli[i]
        /\ \A i \in 1 .. Len(units) : toCli'[Len(toCli) + i] = units[i]
    BY <1>1, <1>3, SendFacts, LenProperties
  <2>2. \A i \in DOMAIN toCli' :
          i \in 1 .. Len(toCli) \/ \E j \in 1 .. Len(units) : i = Len(toCli) + j
    <3>1. ASSUME NEW i \in DOMAIN toCli', i > Len(toCli)
          PROVE  i - Len(toCli) \in 1 .. Len(units) /\ i = Len(toCli) + (i - Len(toCli))
      BY <2>1, <3>1
    <3>2. QED
      BY <2>1, <3>1
  <2>3. ASSUME NEW i \in DOMAIN toCli'
        PROVE  /\ toCli'[i].kind = "print" <=> toCli'[i].id # 0
               /\ toCli'[i].id # 0 => toCli'[i].id \in Begun' \ shown'
    <3>1. CASE i \in 1 .. Len(toCli)
      <4>1. toCli'[i] = toCli[i] /\ i \in DOMAIN toCli
        BY <2>1, <3>1
      <4>2. QED
        BY <1>1, <4>1 DEF UnitsInOrder
    <3>2. ASSUME NEW n \in 1 .. Len(units), i = Len(toCli) + n
          PROVE  /\ toCli'[i].kind = "print" <=> toCli'[i].id # 0
                 /\ toCli'[i].id # 0 => toCli'[i].id \in Begun' \ shown'
      <4>1. toCli'[i] = units[n]
        BY <2>1, <3>2
      <4>2. QED
        BY <4>1
    <3>3. QED
      BY <2>2, <3>1, <3>2
  <2>4. ASSUME NEW i \in DOMAIN toCli', NEW j \in DOMAIN toCli', i < j, toCli'[i].id # 0,
               toCli'[j].id # 0
        PROVE  toCli'[i].id < toCli'[j].id
    <3>0. i \in Nat /\ j \in Nat /\ 1 <= i /\ Len(toCli) \in Nat
      BY <2>1, <2>4
    <3>1. CASE j \in 1 .. Len(toCli)
      <4>1. i \in 1 .. Len(toCli)
        BY <2>4, <3>0, <3>1
      <4>2. QED
        BY <1>1, <2>1, <2>4, <3>1, <4>1 DEF UnitsInOrder
    <3>2. ASSUME NEW n \in 1 .. Len(units), j = Len(toCli) + n PROVE toCli'[i].id < toCli'[j].id
      <4>1. toCli'[j] = units[n]
        BY <2>1, <3>2
      <4>2. n = 1 /\ \A q \in Begun : q < units[n].id
        BY <2>4, <4>1
      <4>3. i \in 1 .. Len(toCli)
        BY <2>4, <3>0, <3>2, <4>2
      <4>4. toCli'[i].id \in Begun
        BY <1>1, <2>1, <2>4, <4>3 DEF UnitsInOrder
      <4>5. QED
        BY <4>1, <4>2, <4>4
    <3>3. QED
      BY <2>2, <3>1, <3>2
  <2>5. QED
    BY <2>3, <2>4 DEF UnitsInOrder
<1>4. QED
  BY <1>2, <1>3

LEMMA OneLook ==
  ASSUME NEW s \in Seq(Units), NEW x, Lookalikes(s) \subseteq {x}
  PROVE  Cardinality(Lookalikes(s)) <= 1
<1>1. IsFiniteSet({x}) /\ Cardinality({x}) = 1
  BY FS_Singleton
<1>2. QED
  BY <1>1, FS_Subset

\* Each number in the balance is one.
LEMMA Numbers ==
  ASSUME Ranges
  PROVE  /\ Cardinality(Returned \ shown) \in Nat /\ Cardinality(TimedOut) \in Nat
         /\ Cardinality(Lookalikes(toCli)) \in Nat /\ replies \in Nat /\ lookalikes \in Nat
         /\ Own \in {0, 1}
<1>1. Returned \ shown \subseteq Prints /\ TimedOut \subseteq Prints /\ toCli \in Seq(Units)
      /\ replies \in Nat /\ lookalikes \in Nat
  BY DEF Returned, TimedOut, Ranges
<1>2. Cardinality(Returned \ shown) \in Nat /\ Cardinality(TimedOut) \in Nat
  BY <1>1, PrintSets, ConstantsAssumption
<1>3. QED
  BY <1>1, <1>2, LookSet DEF Own

LEMMA Booked ==
  ASSUME NEW r \in Nat, NEW w \in Nat, NEW c \in Nat, NEW d \in Nat, NEW t \in Nat,
         NEW l \in Nat, NEW m \in Nat, NEW o \in {0, 1},
         r + w + c <= t + l + o, d + l <= c + m
  PROVE  r + w + d <= t + m + o
OBVIOUS

\* What is sent is booked on both sides.
LEMMA BalanceSent ==
  ASSUME Link, NEW units \in Seq(Units), Send(units), UNCHANGED <<replies, ends, shown>>, Own' = Own
  PROVE  Balance'
<1>1. toCli \in Seq(Units) /\ lookalikes \in Nat
  BY DEF Link, Ranges
<1>2. /\ toCli' \in Seq(Units) /\ lookalikes' = lookalikes + Cardinality(Lookalikes(units))
      /\ Cardinality(Lookalikes(units)) \in Nat
      /\ Cardinality(Lookalikes(toCli')) + lookalikes <=
           Cardinality(Lookalikes(toCli)) + lookalikes'
  BY <1>1, SendFacts
<1>3. /\ Cardinality(Lookalikes(toCli')) \in Nat /\ lookalikes' \in Nat
  BY <1>1, <1>2, LookSet
<1>4. Returned' = Returned /\ TimedOut' = TimedOut
  BY DEF Returned, TimedOut
<1>5. /\ Cardinality(Returned \ shown) + replies + Cardinality(Lookalikes(toCli))
           <= Cardinality(TimedOut) + lookalikes + Own
      /\ Cardinality(Returned \ shown) \in Nat /\ Cardinality(TimedOut) \in Nat
      /\ Cardinality(Lookalikes(toCli)) \in Nat /\ replies \in Nat /\ Own \in {0, 1}
  BY Numbers DEF Link, Balance
<1>6. Cardinality(Lookalikes(toCli')) + lookalikes <= Cardinality(Lookalikes(toCli)) + lookalikes'
  BY <1>2
<1>7. Cardinality(Returned \ shown) + replies + Cardinality(Lookalikes(toCli'))
        <= Cardinality(TimedOut) + lookalikes' + Own
  BY <1>1, <1>3, <1>5, <1>6, Booked
<1>8. QED
  BY <1>4, <1>7 DEF Balance

LEMMA SendTextStep ==
  ASSUME Link, NEW kind \in {"text", "lookalike"}, SendText(kind)
  PROVE  Link'
<1> DEFINE units == <<[id |-> 0, kind |-> kind]>>
<1>1. /\ texts < MaxTexts /\ texts' = texts + 1 /\ Send(units)
      /\ UNCHANGED <<open, replies, waiting, ends, shown>>
  BY DEF SendText
<1>2. /\ units \in Seq(Units) /\ Len(units) = 1 /\ DOMAIN units = 1 .. 1
      /\ units[1].id = 0 /\ units[1].kind # "print"
  BY DEF Units, Kinds
<1> HIDE DEF units
<1>3. toCli \in Seq(Units) /\ lookalikes \in Nat /\ texts \in 0 .. MaxTexts
  BY DEF Link, Ranges
<1>4. /\ toCli' \in Seq(Units) /\ Cardinality(Lookalikes(units)) \in Nat
      /\ lookalikes' = lookalikes + Cardinality(Lookalikes(units))
      /\ Cardinality(Lookalikes(toCli')) + lookalikes <=
           Cardinality(Lookalikes(toCli)) + lookalikes'
      /\ ~open => toCli' = toCli
      /\ open => /\ DOMAIN toCli' = 1 .. Len(toCli) + Len(units)
                 /\ \A i \in 1 .. Len(toCli) : toCli'[i] = toCli[i]
  BY <1>1, <1>2, <1>3, SendFacts
<1>5. Cardinality(Lookalikes(units)) <= 1
  <2>1. Lookalikes(units) \subseteq {1}
    BY <1>2 DEF Lookalikes
  <2>2. QED
    BY <1>2, <2>1, OneLook
<1>6. /\ Unstarted' = Unstarted /\ Returned' = Returned /\ TimedOut' = TimedOut /\ Own' = Own
      /\ Begun' = Begun
  BY <1>1 DEF Unstarted, Returned, TimedOut, Own, Begun
<1>7. Ranges'
  <2>1. texts' \in 0 .. MaxTexts /\ lookalikes' \in Nat
    BY <1>1, <1>3, <1>4, ConstantsAssumption
  <2>2. QED
    BY <1>1, <1>4, <2>1 DEF Link, Ranges
<1>8. InTurn'
  <2>1. PICK n \in 0 .. MaxPrints :
          /\ Unstarted = n + 1 .. MaxPrints /\ waiting \in {0, n} /\ lookalikes <= n + texts
          /\ waiting # 0 => ends[waiting] = "no"
    BY DEF Link, InTurn
  <2>2. lookalikes' <= n + texts'
    BY <1>1, <1>3, <1>4, <1>5, <2>1, ConstantsAssumption
  <2>3. QED
    BY <1>1, <1>6, <2>1, <2>2 DEF InTurn
<1>9. Arrives'
  <2>1. ASSUME open, NEW p \in Begun \ shown PROVE \E i \in DOMAIN toCli' : toCli'[i].id = p
    <3>1. PICK i \in DOMAIN toCli : toCli[i].id = p
      BY <2>1 DEF Link, Arrives
    <3>2. Len(toCli) \in Nat /\ DOMAIN toCli = 1 .. Len(toCli)
      BY <1>3, LenProperties
    <3>3. i \in DOMAIN toCli' /\ toCli'[i] = toCli[i]
      BY <1>2, <1>4, <2>1, <3>1, <3>2
    <3>4. QED
      BY <3>1, <3>3
  <2>2. QED
    BY <1>1, <1>4, <1>6, <2>1 DEF Link, Arrives
<1>10. UnitsInOrder'
  <2>1. \A i \in 1 .. Len(units) :
           /\ units[i].kind = "print" <=> units[i].id # 0
           /\ units[i].id # 0 =>
                i = 1 /\ units[i].id \in Begun' \ shown /\ \A q \in Begun : q < units[i].id
    BY <1>2
  <2>2. Begun \subseteq Begun' /\ UNCHANGED shown
    BY <1>1, <1>6
  <2>3. QED
    BY <1>1, <1>2, <2>1, <2>2, UnitsSent
<1>11. Balance'
  BY <1>1, <1>2, <1>6, BalanceSent
<1>12. QED
  BY <1>7, <1>8, <1>9, <1>10, <1>11 DEF Link

\* The print goes ahead of the rest that was split off it.
LEMMA OneAhead ==
  ASSUME NEW x \in Units, NEW s \in Seq(Units), Len(s) <= 1
  PROVE  LET u == <<x>> \o s IN
         /\ u \in Seq(Units) /\ Len(u) \in 1 .. 2 /\ DOMAIN u = 1 .. Len(u) /\ u[1] = x
         /\ \A i \in DOMAIN u : i # 1 => 1 \in DOMAIN s /\ u[i] = s[1]
<1> DEFINE u == <<x>> \o s
<1>1. <<x>> \in Seq(Units) /\ Len(<<x>>) = 1 /\ <<x>>[1] = x
  OBVIOUS
<1>2. Len(s) \in 0 .. 1 /\ DOMAIN s = 1 .. Len(s)
  <2>1. Len(s) \in Nat /\ DOMAIN s = 1 .. Len(s)
    BY LenProperties
  <2>2. QED
    BY <2>1
<1>3. /\ u \in Seq(Units) /\ Len(u) = 1 + Len(s)
      /\ \A i \in 1 .. 1 + Len(s) : u[i] = IF i <= 1 THEN <<x>>[i] ELSE s[i - 1]
  BY <1>1, ConcatProperties
<1>4. DOMAIN u = 1 .. Len(u)
  BY <1>3, LenProperties
<1> HIDE DEF u
<1>5. u[1] = x
  BY <1>1, <1>2, <1>3
<1>6. ASSUME NEW i \in DOMAIN u, i # 1 PROVE 1 \in DOMAIN s /\ u[i] = s[1]
  <2>1. i \in 1 .. 1 + Len(s) /\ Len(s) = 1 /\ i = 2
    BY <1>2, <1>3, <1>4, <1>6
  <2>2. u[2] = s[2 - 1] /\ 1 \in DOMAIN s
    BY <1>2, <1>3, <2>1
  <2>3. QED
    BY <2>1, <2>2
<1>7. QED
  BY <1>2, <1>3, <1>4, <1>5, <1>6 DEF u

LEMMA PrintColorStep ==
  ASSUME Link, NEW tail \in Tails, PrintColor(tail)
  PROVE  Link'
<1>1. PICK n \in 0 .. MaxPrints :
        /\ Unstarted = n + 1 .. MaxPrints /\ lookalikes <= n + texts
  BY DEF Link, InTurn
<1> DEFINE p == n + 1
           units == <<[id |-> p, kind |-> "print"]>> \o tail
<1>2. p \in Prints /\ p \in Unstarted /\ p \in Nat /\ p # 0 /\ p \in 0 .. MaxPrints
  <2>1. Unstarted # {} /\ n \in Nat /\ MaxPrints \in Nat
    BY <1>1, ConstantsAssumption DEF PrintColor
  <2>2. n + 1 <= MaxPrints
    BY <1>1, <2>1
  <2>3. QED
    BY <1>1, <2>1, <2>2 DEF Prints
<1>3. waiting' = p
  <2>1. waiting' = CHOOSE q \in Unstarted : \A r \in Unstarted : q <= r
    BY DEF PrintColor
  <2>2. \A q \in Unstarted : (\A r \in Unstarted : q <= r) <=> q = p
    BY <1>1, <1>2
  <2>3. QED
    BY <1>2, <2>1, <2>2
<1>4. /\ waiting = 0 /\ Send(units) /\ UNCHANGED <<open, replies, ends, shown, texts>>
  BY <1>3 DEF PrintColor
<1>5. /\ units \in Seq(Units) /\ Len(units) \in 1 .. 2 /\ DOMAIN units = 1 .. Len(units)
      /\ units[1] = [id |-> p, kind |-> "print"]
      /\ \A i \in DOMAIN units : i # 1 => units[i].id = 0 /\ units[i].kind # "print"
  <2>1. [id |-> p, kind |-> "print"] \in Units
    BY <1>2 DEF Units, Kinds
  <2>2. tail \in Seq(Units) /\ Len(tail) <= 1
        /\ \A i \in DOMAIN tail : tail[i].id = 0 /\ tail[i].kind # "print"
    <3>1. CASE tail = <<>>
      BY <3>1
    <3>2. ASSUME NEW k \in {"text", "lookalike"}, tail = <<[id |-> 0, kind |-> k]>>
          PROVE  tail \in Seq(Units) /\ Len(tail) <= 1
                 /\ \A i \in DOMAIN tail : tail[i].id = 0 /\ tail[i].kind # "print"
      <4>1. [id |-> 0, kind |-> k] \in Units
        BY DEF Units, Kinds
      <4>2. QED
        BY <3>2, <4>1
    <3>3. QED
      BY <3>1, <3>2 DEF Tails
  <2>3. QED
    BY <2>1, <2>2, OneAhead
<1> HIDE DEF units
<1>6. toCli \in Seq(Units) /\ lookalikes \in Nat /\ texts \in Nat /\ shown \subseteq Begun
  BY ConstantsAssumption DEF Link, Ranges, Arrives
<1>7. Cardinality(Lookalikes(units)) \in Nat /\ Cardinality(Lookalikes(units)) <= 1
  <2>1. Lookalikes(units) \subseteq {2}
    BY <1>5 DEF Lookalikes
  <2>2. QED
    BY <1>5, <2>1, OneLook, LookSet
<1>8. /\ toCli' \in Seq(Units) /\ lookalikes' = lookalikes + Cardinality(Lookalikes(units))
      /\ ~open => toCli' = toCli
      /\ open => /\ DOMAIN toCli' = 1 .. Len(toCli) + Len(units)
                 /\ \A i \in 1 .. Len(toCli) : toCli'[i] = toCli[i]
                 /\ \A i \in 1 .. Len(units) : toCli'[Len(toCli) + i] = units[i]
  BY <1>4, <1>5, <1>6, SendFacts
<1>9. /\ Unstarted' = Unstarted \ {p} /\ Begun' = Begun \cup {p} /\ p \notin Begun
      /\ Returned' = Returned /\ TimedOut' = TimedOut /\ p \notin shown /\ ends[p] = "no"
      /\ Own = 0 /\ Own' = 0
  <2>1. Unstarted' = Unstarted \ {p}
    BY <1>2, <1>3, <1>4 DEF Unstarted, Prints
  <2>2. Begun' = Begun \cup {p} /\ p \notin Begun /\ p \notin shown
    BY <1>2, <1>6, <2>1 DEF Begun
  <2>3. 0 \notin Prints
    BY DEF Prints
  <2>4. Own = 0 /\ Own' = 0
    BY <1>3, <1>4, <1>6, <2>2, <2>3 DEF Own, Begun
  <2>5. QED
    BY <1>2, <1>4, <2>1, <2>2, <2>4 DEF Returned, TimedOut, Unstarted
<1>10. Ranges'
  <2>1. lookalikes' \in Nat /\ waiting' \in Prints
    BY <1>2, <1>3, <1>6, <1>7, <1>8
  <2>2. QED
    BY <1>4, <1>8, <2>1 DEF Link, Ranges
<1>11. InTurn'
  <2>1. n + 1 .. MaxPrints = {n + 1} \cup (p + 1 .. MaxPrints) /\ n + 1 \notin p + 1 .. MaxPrints
    BY <1>2, ConstantsAssumption
  <2>2. Unstarted' = p + 1 .. MaxPrints
    BY <1>1, <1>9, <2>1
  <2>3. lookalikes' <= p + texts'
    <3>1. lookalikes' <= (n + texts) + 1 /\ n \in Nat
      BY <1>1, <1>6, <1>7, <1>8
    <3>2. QED
      BY <1>4, <1>6, <3>1
  <2>4. ends'[waiting'] = "no"
    BY <1>3, <1>4, <1>9
  <2>5. QED
    BY <1>2, <1>3, <2>2, <2>3, <2>4 DEF InTurn
<1>12. Arrives'
  <2>0. Len(toCli) \in Nat /\ DOMAIN toCli = 1 .. Len(toCli)
    BY <1>6, LenProperties
  <2>1. ASSUME open, NEW q \in Begun' \ shown PROVE \E i \in DOMAIN toCli' : toCli'[i].id = q
    <3>1. CASE q = p
      <4>1. Len(toCli) + 1 \in DOMAIN toCli' /\ toCli'[Len(toCli) + 1] = units[1]
        BY <1>5, <1>8, <2>0, <2>1
      <4>2. QED
        BY <1>5, <3>1, <4>1
    <3>2. CASE q # p
      <4>1. q \in Begun \ shown
        BY <1>9, <3>2
      <4>2. PICK i \in DOMAIN toCli : toCli[i].id = q
        BY <2>1, <4>1 DEF Link, Arrives
      <4>3. i \in DOMAIN toCli' /\ toCli'[i] = toCli[i]
        BY <1>5, <1>8, <2>0, <2>1, <4>2
      <4>4. QED
        BY <4>2, <4>3
    <3>3. QED
      BY <3>1, <3>2
  <2>2. waiting' \notin shown'
    BY <1>3, <1>4, <1>9
  <2>3. shown' \subseteq Begun'
    BY <1>4, <1>6, <1>9
  <2>4. QED
    BY <1>4, <1>8, <2>1, <2>2, <2>3 DEF Link, Arrives
<1>13. UnitsInOrder'
  <2>1. \A q \in Begun : q < p
    <3>1. Begun = {q \in 1 .. MaxPrints : q \notin n + 1 .. MaxPrints}
      BY <1>1 DEF Begun, Prints
    <3>2. QED
      BY <1>2, <3>1, ConstantsAssumption
  <2>2. Begun \subseteq Begun' /\ UNCHANGED shown /\ p \in Begun' \ shown
    BY <1>4, <1>9
  <2>3. \A i \in 1 .. Len(units) :
           /\ units[i].kind = "print" <=> units[i].id # 0
           /\ units[i].id # 0 =>
                i = 1 /\ units[i].id \in Begun' \ shown /\ \A q \in Begun : q < units[i].id
    <3>1. ASSUME NEW i \in DOMAIN units
          PROVE  /\ units[i].kind = "print" <=> units[i].id # 0
                 /\ units[i].id # 0 =>
                      i = 1 /\ units[i].id \in Begun' \ shown /\ \A q \in Begun : q < units[i].id
      <4>1. CASE i = 1
        <5>1. units[i].id = p /\ units[i].kind = "print"
          BY <1>5, <4>1
        <5>2. QED
          BY <1>2, <2>1, <2>2, <4>1, <5>1
      <4>2. CASE i # 1
        BY <1>5, <4>2
      <4>3. QED
        BY <4>1, <4>2
    <3>2. QED
      BY <1>5, <3>1
  <2>4. QED
    BY <1>4, <1>5, <2>2, <2>3, UnitsSent
<1>14. Balance'
  BY <1>4, <1>5, <1>9, BalanceSent
<1>15. QED
  BY <1>10, <1>11, <1>12, <1>13, <1>14 DEF Link

-------------------------------------------------------------------------------
(* A wait ends.                                                            *)

\* However it ends, the print that waited is no longer waiting, and has returned unless the
\* connection broke.
LEMMA ReturnFacts ==
  ASSUME Link, waiting # 0, NEW how \in {"reply", "timeout", "error"}, how = "error" => ~open,
         Return(how), replies' \in Nat, UNCHANGED <<open, toCli, shown, texts, lookalikes>>
  PROVE  /\ Ranges' /\ InTurn' /\ Arrives' /\ UnitsInOrder' /\ Own' = 0
         /\ waiting \notin Returned /\ waiting \notin TimedOut
         /\ Returned' = IF how = "error" THEN Returned ELSE Returned \cup {waiting}
         /\ TimedOut' = IF how = "timeout" THEN TimedOut \cup {waiting} ELSE TimedOut
<1>1. /\ waiting \in Prints /\ ends \in [Prints -> {"no", "reply", "timeout", "error"}]
      /\ ends[waiting] = "no" /\ shown \subseteq Prints /\ 0 \notin Prints
  BY DEF Link, Ranges, InTurn, Prints
<1>2. waiting' = 0 /\ ends' = [ends EXCEPT ![waiting] = how]
  BY DEF Return
<1>3. ends' \in [Prints -> {"no", "reply", "timeout", "error"}] /\ ends'[waiting] = how
      /\ \A p \in Prints : p # waiting => ends'[p] = ends[p]
  BY <1>1, <1>2
<1>4. Unstarted' = Unstarted /\ Begun' = Begun
  BY <1>1, <1>2, <1>3 DEF Unstarted, Begun
<1>5. /\ waiting \notin Returned /\ waiting \notin TimedOut
      /\ Returned' = IF how = "error" THEN Returned ELSE Returned \cup {waiting}
      /\ TimedOut' = IF how = "timeout" THEN TimedOut \cup {waiting} ELSE TimedOut
  BY <1>1, <1>3 DEF Returned, TimedOut
<1>6. Own' = 0 /\ waiting' \notin shown'
  BY <1>1, <1>2 DEF Own
<1>7. Ranges'
  BY <1>2, <1>3 DEF Link, Ranges
<1>8. InTurn'
  BY <1>2, <1>4 DEF Link, InTurn
<1>9. Arrives'
  <2>1. open' => \A p \in Prints : ends'[p] # "error"
    BY <1>3 DEF Link, Arrives
  <2>2. QED
    BY <1>4, <1>6, <2>1 DEF Link, Arrives
<1>10. UnitsInOrder'
  BY <1>4 DEF Link, UnitsInOrder
<1>11. QED
  BY <1>5, <1>6, <1>7, <1>8, <1>9, <1>10

\* A print that returns before the client has it is one more of those.
LEMMA OneMore ==
  ASSUME Link, waiting # 0, waiting \notin Returned, waiting \notin TimedOut
  PROVE  /\ waiting \in shown => (Returned \cup {waiting}) \ shown = Returned \ shown
         /\ waiting \notin shown =>
              Cardinality((Returned \cup {waiting}) \ shown) = Cardinality(Returned \ shown) + 1
         /\ Cardinality(TimedOut \cup {waiting}) = Cardinality(TimedOut) + 1
<1>1. IsFiniteSet(Returned \ shown) /\ IsFiniteSet(TimedOut)
  <2>1. Returned \ shown \subseteq Prints /\ TimedOut \subseteq Prints
    BY DEF Returned, TimedOut
  <2>2. QED
    BY <2>1, PrintSets
<1>2. CASE waiting \in shown
  BY <1>1, <1>2, FS_AddElement
<1>3. CASE waiting \notin shown
  <2>1. (Returned \cup {waiting}) \ shown = (Returned \ shown) \cup {waiting}
    BY <1>3
  <2>2. QED
    BY <1>1, <1>3, <2>1, FS_AddElement
<1>4. QED
  BY <1>2, <1>3

LEMMA GetReplyStep ==
  ASSUME Link, GetReply
  PROVE  Link'
<1>1. /\ waiting # 0 /\ replies > 0 /\ replies' = replies - 1 /\ Return("reply")
      /\ UNCHANGED <<open, toCli, shown, texts, lookalikes>>
  BY DEF GetReply
<1>2. replies' \in Nat /\ replies \in Nat
  BY <1>1 DEF Link, Ranges
<1>3. /\ Ranges' /\ InTurn' /\ Arrives' /\ UnitsInOrder' /\ Own' = 0
      /\ waiting \notin Returned /\ waiting \notin TimedOut
      /\ Returned' = Returned \cup {waiting} /\ TimedOut' = TimedOut
  BY <1>1, <1>2, ReturnFacts
<1>4. /\ Cardinality(Returned \ shown) + replies + Cardinality(Lookalikes(toCli))
           <= Cardinality(TimedOut) + lookalikes + Own
      /\ Cardinality(Returned \ shown) \in Nat /\ Cardinality(TimedOut) \in Nat
      /\ Cardinality(Lookalikes(toCli)) \in Nat /\ lookalikes \in Nat
  BY Numbers DEF Link, Balance
<1>5. CASE waiting \in shown
  <2>1. Cardinality(Returned' \ shown') = Cardinality(Returned \ shown) /\ Own = 1
    BY <1>1, <1>3, <1>5, OneMore DEF Own
  <2>2. QED
    BY <1>1, <1>2, <1>3, <1>4, <2>1 DEF Link, Balance
<1>6. CASE waiting \notin shown
  <2>1. Cardinality(Returned' \ shown') = Cardinality(Returned \ shown) + 1 /\ Own = 0
    BY <1>1, <1>3, <1>6, OneMore DEF Own
  <2>2. QED
    BY <1>1, <1>2, <1>3, <1>4, <2>1 DEF Link, Balance
<1>7. QED
  BY <1>5, <1>6

LEMMA TimeoutStep ==
  ASSUME Link, Timeout
  PROVE  Link'
<1>1. /\ waiting # 0 /\ replies = 0 /\ Return("timeout")
      /\ UNCHANGED <<open, toCli, replies, shown, texts, lookalikes>>
  BY DEF Timeout
<1>2. replies' \in Nat
  BY <1>1
<1>3. /\ Ranges' /\ InTurn' /\ Arrives' /\ UnitsInOrder' /\ Own' = 0
      /\ waiting \notin Returned /\ waiting \notin TimedOut
      /\ Returned' = Returned \cup {waiting} /\ TimedOut' = TimedOut \cup {waiting}
  BY <1>1, <1>2, ReturnFacts
<1>4. /\ Cardinality(Returned \ shown) + replies + Cardinality(Lookalikes(toCli))
           <= Cardinality(TimedOut) + lookalikes + Own
      /\ Cardinality(Returned \ shown) \in Nat /\ Cardinality(TimedOut) \in Nat
      /\ Cardinality(Lookalikes(toCli)) \in Nat /\ lookalikes \in Nat
  BY Numbers DEF Link, Balance
<1>5. Cardinality(TimedOut') = Cardinality(TimedOut) + 1
  BY <1>1, <1>3, OneMore
<1>6. CASE waiting \in shown
  <2>1. Cardinality(Returned' \ shown') = Cardinality(Returned \ shown) /\ Own = 1
    BY <1>1, <1>3, <1>6, OneMore DEF Own
  <2>2. QED
    BY <1>1, <1>3, <1>4, <1>5, <2>1 DEF Link, Balance
<1>7. CASE waiting \notin shown
  <2>1. Cardinality(Returned' \ shown') = Cardinality(Returned \ shown) + 1 /\ Own = 0
    BY <1>1, <1>3, <1>7, OneMore DEF Own
  <2>2. QED
    BY <1>1, <1>3, <1>4, <1>5, <2>1 DEF Link, Balance
<1>8. QED
  BY <1>6, <1>7

\* Nothing is under way to a client that is gone.
LEMMA NoLook ==
  Cardinality(Lookalikes(<<>>)) = 0
<1>1. Lookalikes(<<>>) = {}
  BY DEF Lookalikes
<1>2. QED
  BY <1>1, FS_EmptySet

LEMMA BrokenStep ==
  ASSUME Link, Broken
  PROVE  Link'
<1>1. /\ waiting # 0 /\ replies = 0 /\ ~open /\ Return("error")
      /\ UNCHANGED <<open, toCli, replies, shown, texts, lookalikes>>
  BY DEF Broken
<1>2. replies' \in Nat
  BY <1>1
<1>3. /\ Ranges' /\ InTurn' /\ Arrives' /\ UnitsInOrder' /\ Own' = 0
      /\ Returned' = Returned /\ TimedOut' = TimedOut
  BY <1>1, <1>2, ReturnFacts
<1>4. /\ Cardinality(Returned \ shown) + replies + Cardinality(Lookalikes(toCli))
           <= Cardinality(TimedOut) + lookalikes + Own
      /\ Cardinality(Returned \ shown) \in Nat /\ Cardinality(TimedOut) \in Nat
      /\ Cardinality(Lookalikes(toCli)) \in Nat /\ lookalikes \in Nat
  BY Numbers DEF Link, Balance
<1>5. CASE waiting \in shown
  <2>1. Returned \ shown = {}
    BY <1>5 DEF Link, Arrives
  <2>2. Cardinality(Returned' \ shown') = 0
    BY <1>1, <1>3, <2>1, FS_EmptySet
  <2>3. Cardinality(Lookalikes(toCli')) = 0
    BY <1>1, NoLook DEF Link, Arrives
  <2>4. QED
    BY <1>1, <1>3, <1>4, <2>2, <2>3 DEF Link, Balance
<1>6. CASE waiting \notin shown
  <2>1. Own = 0
    BY <1>6 DEF Own
  <2>2. QED
    BY <1>1, <1>3, <1>4, <2>1 DEF Link, Balance
<1>7. QED
  BY <1>5, <1>6

-------------------------------------------------------------------------------
(* The client receives, and goes away.                                     *)

\* The first of the units that a recv returns decides what is answered.
LEMMA Answered ==
  ASSUME Link, open, 1 \in DOMAIN toCli, toCli[1].kind = "print",
         shown \subseteq shown', toCli[1].id \in shown', UNCHANGED <<waiting, ends>>
  PROVE  \/ Own = 0 /\ Own' = 1
         \/ Cardinality(Returned \ shown') <= Cardinality(Returned \ shown) - 1
<1> DEFINE h == toCli[1].id
<1>1. h # 0 /\ h \in Begun \ shown /\ \A p \in Prints : ends[p] # "error"
  BY DEF Link, UnitsInOrder, Arrives
<1>2. h \in Prints /\ h \notin Unstarted /\ ends \in [Prints -> {"no", "reply", "timeout", "error"}]
  BY <1>1 DEF Begun, Link, Ranges
<1>3. CASE h = waiting
  BY <1>1, <1>3 DEF Own
<1>4. CASE h # waiting
  <2>1. h \in Returned
    <3>1. ends[h] # "no" /\ ends[h] # "error" /\ ends[h] \in {"no", "reply", "timeout", "error"}
      BY <1>1, <1>2, <1>4 DEF Unstarted
    <3>2. QED
      BY <1>2, <3>1 DEF Returned
  <2>2. Returned \ shown \subseteq Prints
    BY DEF Returned
  <2>3. /\ IsFiniteSet(Returned \ shown) /\ Cardinality(Returned \ shown) \in Nat
        /\ IsFiniteSet((Returned \ shown) \ {h})
        /\ Cardinality((Returned \ shown) \ {h}) = Cardinality(Returned \ shown) - 1
    <3>1. IsFiniteSet(Returned \ shown) /\ h \in Returned \ shown
      BY <1>1, <2>1, <2>2, PrintSets
    <3>2. Cardinality(Returned \ shown) \in Nat
      BY <3>1, FS_CardinalityType
    <3> DEFINE R == Returned \ shown
    <3>3. IsFiniteSet(R) /\ h \in R
      BY <3>1
    <3> HIDE DEF R, h
    <3>4. /\ IsFiniteSet(R \ {h})
          /\ Cardinality(R \ {h}) = IF h \in R THEN Cardinality(R) - 1 ELSE Cardinality(R)
      BY <3>3, FS_RemoveElement
    <3>5. IsFiniteSet(R \ {h}) /\ Cardinality(R \ {h}) = Cardinality(R) - 1
      BY <3>3, <3>4
    <3>6. QED
      BY <3>1, <3>2, <3>5 DEF R
  <2>4. Returned \ shown' \subseteq (Returned \ shown) \ {h}
    OBVIOUS
  <2>5. QED
    BY <2>3, <2>4, FS_Subset
<1>5. QED
  BY <1>3, <1>4

LEMMA ReceiveStep ==
  ASSUME Link, NEW k \in 1 .. Len(toCli), Receive(k)
  PROVE  Link'
<1> DEFINE got == {toCli[i].id : i \in 1 .. k} \ {0}
<1>1. /\ open /\ toCli' = SubSeq(toCli, k + 1, Len(toCli)) /\ shown' = shown \cup got
      /\ replies' = IF toCli[1].kind \in {"print", "lookalike"} THEN replies + 1 ELSE replies
      /\ UNCHANGED <<open, waiting, ends, texts, lookalikes>>
  BY DEF Receive
<1>2. /\ toCli \in Seq(Units) /\ replies \in Nat /\ Len(toCli) \in Nat
      /\ DOMAIN toCli = 1 .. Len(toCli)
  BY LenProperties DEF Link, Ranges
<1>3. k \in Nat /\ 1 <= k /\ k <= Len(toCli) /\ 1 .. k \subseteq DOMAIN toCli /\ 1 \in 1 .. k
  BY <1>2
<1>4. /\ toCli' \in Seq(Units) /\ DOMAIN toCli' = 1 .. Len(toCli) - k
      /\ \A i \in DOMAIN toCli' : toCli'[i] = toCli[k + i]
      /\ Cardinality(Lookalikes(toCli')) <=
           Cardinality(Lookalikes(toCli)) - (IF toCli[1].kind = "lookalike" THEN 1 ELSE 0)
  BY <1>1, <1>2, LookTaken
<1>5. \A i \in DOMAIN toCli' : k + i \in DOMAIN toCli /\ k + i > k
  BY <1>2, <1>3, <1>4
<1>6. Unstarted' = Unstarted /\ Begun' = Begun /\ Returned' = Returned /\ TimedOut' = TimedOut
  BY <1>1 DEF Unstarted, Begun, Returned, TimedOut
<1>7. got \subseteq Begun \ shown
  BY <1>3 DEF Link, UnitsInOrder
<1>8. \A i \in DOMAIN toCli, p \in got : toCli[i].id = p => i \in 1 .. k
  <2>1. ASSUME NEW i \in DOMAIN toCli, NEW j \in 1 .. k, toCli[j].id # 0, toCli[i].id = toCli[j].id
        PROVE  i \in 1 .. k
    <3>1. toCli[i].id \in Nat
      <4>1. toCli[i] \in Units
        BY <1>2, ElementOfSeq
      <4>2. QED
        BY <4>1, ConstantsAssumption DEF Units, Prints
    <3>2. ~(j < i)
      BY <1>3, <2>1, <3>1 DEF Link, UnitsInOrder
    <3>3. QED
      BY <1>2, <1>3, <3>2
  <2>2. QED
    BY <2>1
<1> HIDE DEF got
<1>9. Ranges'
  <2>1. replies' \in Nat
    BY <1>1, <1>2
  <2>2. shown' \subseteq Prints
    BY <1>1, <1>7 DEF Link, Ranges, Begun
  <2>3. QED
    BY <1>1, <1>4, <2>1, <2>2 DEF Link, Ranges
<1>10. InTurn'
  BY <1>1, <1>6 DEF Link, InTurn
<1>11. Arrives'
  <2>1. ASSUME NEW p \in Begun \ shown' PROVE \E i \in DOMAIN toCli' : toCli'[i].id = p
    <3>1. p \in Begun \ shown /\ p \notin got /\ p \in Prints /\ 0 \notin Prints
      BY <1>1 DEF Begun, Prints
    <3>2. PICK i \in DOMAIN toCli : toCli[i].id = p
      BY <1>1, <3>1 DEF Link, Arrives
    <3>3. i \notin 1 .. k
      BY <3>1, <3>2 DEF got
    <3>4. i - k \in DOMAIN toCli' /\ k + (i - k) = i
      BY <1>2, <1>3, <1>4, <3>3
    <3>5. QED
      BY <1>4, <3>2, <3>4
  <2>2. ASSUME waiting \in shown', NEW r \in Returned PROVE r \in shown'
    <3>1. CASE waiting \in shown
      BY <1>1, <3>1 DEF Link, Arrives
    <3>2. CASE waiting \in got /\ r \notin shown
      <4>1. PICK n \in 0 .. MaxPrints :
              /\ Unstarted = n + 1 .. MaxPrints /\ waiting \in {0, n}
              /\ waiting # 0 => ends[waiting] = "no"
        BY DEF Link, InTurn
      <4>2. waiting # 0 /\ waiting = n
        BY <3>2, <4>1 DEF got
      <4>3. r \in Begun /\ r \in Prints /\ r # waiting
        BY <4>1, <4>2 DEF Returned, Begun, Unstarted
      <4>4. r < waiting
        BY <4>1, <4>2, <4>3, ConstantsAssumption DEF Begun, Prints
      <4>5. PICK i \in DOMAIN toCli : toCli[i].id = r
        BY <1>1, <3>2, <4>3 DEF Link, Arrives
      <4>6. PICK j \in 1 .. k : toCli[j].id = waiting
        BY <3>2 DEF got
      <4>7. r # 0 /\ r \in Nat /\ waiting \in Nat
        BY <4>1, <4>2, <4>3 DEF Prints
      <4>8. ~(j < i)
        BY <1>3, <4>2, <4>4, <4>5, <4>6, <4>7 DEF Link, UnitsInOrder
      <4>9. i \in 1 .. k
        BY <1>2, <1>3, <4>8
      <4>10. QED
        BY <1>1, <4>5, <4>7, <4>9 DEF got
    <3>3. QED
      BY <1>1, <2>2, <3>1, <3>2
  <2>3. shown' \subseteq Begun
    BY <1>1, <1>7 DEF Link, Arrives
  <2>4. QED
    BY <1>1, <1>6, <2>1, <2>2, <2>3 DEF Link, Arrives
<1>12. UnitsInOrder'
  <2>1. ASSUME NEW i \in DOMAIN toCli'
        PROVE  /\ toCli'[i].kind = "print" <=> toCli'[i].id # 0
               /\ toCli'[i].id # 0 => toCli'[i].id \in Begun' \ shown'
    <3>1. toCli'[i] = toCli[k + i] /\ k + i \in DOMAIN toCli /\ k + i \notin 1 .. k
      BY <1>3, <1>4, <1>5
    <3>2. toCli[k + i].id \notin got
      BY <1>8, <3>1
    <3>3. QED
      BY <1>1, <1>6, <3>1, <3>2 DEF Link, UnitsInOrder
  <2>2. ASSUME NEW i \in DOMAIN toCli', NEW j \in DOMAIN toCli', i < j, toCli'[i].id # 0,
               toCli'[j].id # 0
        PROVE  toCli'[i].id < toCli'[j].id
    <3>1. k + i < k + j
      BY <1>2, <1>3, <1>4, <2>2
    <3>2. QED
      BY <1>4, <1>5, <2>2, <3>1 DEF Link, UnitsInOrder
  <2>3. QED
    BY <2>1, <2>2 DEF UnitsInOrder
<1>13. Balance'
  <2>1. /\ Cardinality(Returned \ shown) + replies + Cardinality(Lookalikes(toCli))
             <= Cardinality(TimedOut) + lookalikes + Own
        /\ Cardinality(Returned \ shown) \in Nat /\ Cardinality(TimedOut) \in Nat
        /\ Cardinality(Lookalikes(toCli)) \in Nat /\ lookalikes \in Nat /\ Own \in {0, 1}
    BY Numbers DEF Link, Balance
  <2>2. Cardinality(Lookalikes(toCli')) \in Nat /\ replies' \in Nat
    BY <1>4, <1>9, LookSet DEF Ranges
  <2>3. /\ Cardinality(Returned \ shown') \in Nat
        /\ Cardinality(Returned \ shown') <= Cardinality(Returned \ shown)
    <3>1. Returned \ shown' \subseteq Returned \ shown /\ Returned \ shown \subseteq Prints
          /\ Returned \ shown' \subseteq Prints
      BY <1>1 DEF Returned
    <3>2. QED
      BY <3>1, PrintSets, FS_Subset, ConstantsAssumption
  <2>4. Own' \in {0, 1} /\ (Own = 0 \/ Own' = 1)
    BY <1>1 DEF Own
  <2>5. \/ /\ replies' = replies
           /\ Cardinality(Lookalikes(toCli')) <= Cardinality(Lookalikes(toCli))
        \/ /\ replies' = replies + 1
           /\ Cardinality(Lookalikes(toCli')) <= Cardinality(Lookalikes(toCli)) - 1
        \/ /\ replies' = replies + 1 /\ toCli[1].kind = "print"
           /\ Cardinality(Lookalikes(toCli')) <= Cardinality(Lookalikes(toCli))
    <3>1. Cardinality(Lookalikes(toCli')) <= Cardinality(Lookalikes(toCli))
      BY <1>4, <2>1, <2>2
    <3>2. CASE toCli[1].kind = "lookalike"
      BY <1>1, <1>4, <3>2
    <3>3. CASE toCli[1].kind # "lookalike"
      BY <1>1, <3>1, <3>3
    <3>4. QED
      BY <3>2, <3>3
  <2>6. toCli[1].kind = "print" =>
          \/ Own = 0 /\ Own' = 1
          \/ Cardinality(Returned \ shown') <= Cardinality(Returned \ shown) - 1
    <3>1. ASSUME toCli[1].kind = "print" PROVE 1 \in DOMAIN toCli /\ toCli[1].id \in shown'
      <4>1. 1 \in DOMAIN toCli /\ toCli[1].id # 0
        BY <1>3, <3>1 DEF Link, UnitsInOrder
      <4>2. toCli[1].id \in got
        BY <1>3, <4>1 DEF got
      <4>3. QED
        BY <1>1, <4>1, <4>2
    <3>2. QED
      BY <1>1, <3>1, Answered
  <2>7. Cardinality(Returned \ shown') + replies' + Cardinality(Lookalikes(toCli'))
          <= Cardinality(TimedOut) + lookalikes + Own'
    <3> DEFINE r == Cardinality(Returned \ shown)     r2 == Cardinality(Returned \ shown')
               c == Cardinality(Lookalikes(toCli))    c2 == Cardinality(Lookalikes(toCli'))
               t == Cardinality(TimedOut)             o == Own      o2 == Own'
    <3>1. /\ r \in Nat /\ c \in Nat /\ t \in Nat /\ o \in {0, 1} /\ replies \in Nat
          /\ r2 \in Nat /\ c2 \in Nat /\ o2 \in {0, 1} /\ replies' \in Nat /\ lookalikes \in Nat
      BY <1>2, <2>1, <2>2, <2>3, <2>4
    <3>2. r + replies + c <= t + lookalikes + o
      BY <2>1
    <3>3. r2 <= r /\ (o = 0 \/ o2 = 1)
      BY <2>3, <2>4
    <3>4. \/ replies' = replies /\ c2 <= c
          \/ replies' = replies + 1 /\ c2 <= c - 1
          \/ replies' = replies + 1 /\ toCli[1].kind = "print" /\ c2 <= c
      BY <2>5
    <3>5. toCli[1].kind = "print" => (o = 0 /\ o2 = 1) \/ r2 <= r - 1
      BY <2>6
    <3> HIDE DEF r, r2, c, c2, t, o, o2
    <3>6. o <= o2
      BY <3>1, <3>3
    <3>7. r2 + replies' + c2 <= t + lookalikes + o2
      <4>1. CASE replies' = replies /\ c2 <= c
        BY <3>1, <3>2, <3>3, <3>6, <4>1
      <4>2. CASE replies' = replies + 1 /\ c2 <= c - 1
        BY <3>1, <3>2, <3>3, <3>6, <4>2
      <4>3. CASE replies' = replies + 1 /\ c2 <= c /\ o = 0 /\ o2 = 1
        BY <3>1, <3>2, <3>3, <4>3
      <4>4. CASE replies' = replies + 1 /\ c2 <= c /\ r2 <= r - 1
        BY <3>1, <3>2, <3>6, <4>4
      <4>5. QED
        BY <3>4, <3>5, <4>1, <4>2, <4>3, <4>4
    <3>8. QED
      BY <3>7 DEF r, r2, c, c2, t, o, o2
  <2>8. QED
    BY <1>1, <1>6, <2>7 DEF Balance
<1>14. QED
  BY <1>9, <1>10, <1>11, <1>12, <1>13 DEF Link

LEMMA LeaveStep ==
  ASSUME Link, Leave
  PROVE  Link'
<1>1. /\ open' = FALSE /\ toCli' = <<>>
      /\ UNCHANGED <<replies, waiting, ends, shown, texts, lookalikes>>
  BY DEF Leave
<1>2. /\ Unstarted' = Unstarted /\ Begun' = Begun /\ Returned' = Returned /\ TimedOut' = TimedOut
      /\ Own' = Own
  BY <1>1 DEF Unstarted, Begun, Returned, TimedOut, Own
<1>3. Ranges' /\ InTurn'
  <2>1. Ranges'
    <3>1. open' \in BOOLEAN
      BY <1>1
    <3>2. toCli' \in Seq(Units)
      BY <1>1
    <3>3. QED
      BY <1>1, <3>1, <3>2 DEF Link, Ranges
  <2>2. InTurn'
    BY <1>1, <1>2 DEF Link, InTurn
  <2>3. QED
    BY <2>1, <2>2
<1>4. Arrives' /\ UnitsInOrder'
  BY <1>1, <1>2 DEF Link, Arrives, UnitsInOrder
<1>5. Balance'
  <2>1. /\ Cardinality(Returned \ shown) + replies + Cardinality(Lookalikes(toCli))
             <= Cardinality(TimedOut) + lookalikes + Own
        /\ Cardinality(Returned \ shown) \in Nat /\ Cardinality(TimedOut) \in Nat
        /\ Cardinality(Lookalikes(toCli)) \in Nat /\ lookalikes \in Nat /\ replies \in Nat
        /\ Own \in {0, 1}
    BY Numbers DEF Link, Balance
  <2>2. Cardinality(Lookalikes(toCli')) = 0
    BY <1>1, NoLook
  <2>3. Cardinality(Returned \ shown) + replies + 0 <= Cardinality(TimedOut) + lookalikes + Own
    BY <2>1
  <2>4. QED
    BY <1>1, <1>2, <2>2, <2>3 DEF Balance
<1>6. QED
  BY <1>3, <1>4, <1>5 DEF Link

-------------------------------------------------------------------------------
(* The theorems.                                                           *)

LEMMA InitLink == Init => Link
<1> SUFFICES ASSUME Init PROVE Link
  OBVIOUS
<1>1. /\ open = TRUE /\ toCli = <<>> /\ replies = 0 /\ waiting = 0
      /\ ends = [p \in Prints |-> "no"] /\ shown = {} /\ texts = 0 /\ lookalikes = 0
  BY DEF Init
<1>2. Unstarted = Prints /\ Returned = {} /\ TimedOut = {} /\ Begun = {} /\ Own = 0
  <2>1. 0 \notin Prints
    BY DEF Prints
  <2>2. QED
    BY <1>1, <2>1 DEF Unstarted, Returned, TimedOut, Begun, Own
<1>3. Ranges /\ Arrives /\ UnitsInOrder
  BY <1>1, <1>2, ConstantsAssumption DEF Ranges, Arrives, UnitsInOrder
<1>4. InTurn
  BY <1>1, <1>2, ConstantsAssumption DEF InTurn, Prints
<1>5. Balance
  <2>1. Cardinality(Returned \ shown) = 0 /\ Cardinality(TimedOut) = 0
    BY <1>2, FS_EmptySet
  <2>2. QED
    BY <1>1, <1>2, <2>1, NoLook DEF Balance
<1>6. QED
  BY <1>3, <1>4, <1>5 DEF Link

LEMMA StutterLink == Link /\ UNCHANGED vars => Link'
<1> SUFFICES ASSUME Link, UNCHANGED vars PROVE Link'
  OBVIOUS
<1>1. /\ Unstarted' = Unstarted /\ Begun' = Begun /\ Returned' = Returned /\ TimedOut' = TimedOut
      /\ Own' = Own
  BY DEF vars, Unstarted, Begun, Returned, TimedOut, Own
<1>2. QED
  BY <1>1 DEF vars, Link, Ranges, InTurn, Arrives, UnitsInOrder, Balance

LEMMA LinkInvariant == Spec => []Link
<1>1. Link /\ [Next]_vars => Link'
  <2> SUFFICES ASSUME Link, [Next]_vars PROVE Link'
    OBVIOUS
  <2>1. CASE Sending
    BY <2>1, PrintColorStep, SendTextStep DEF Sending
  <2>2. CASE Waiting
    BY <2>2, GetReplyStep, TimeoutStep, BrokenStep DEF Waiting
  <2>3. CASE Receiving
    BY <2>3, ReceiveStep DEF Receiving
  <2>4. CASE Leave
    BY <2>4, LeaveStep
  <2>5. CASE UNCHANGED vars
    BY <2>5, StutterLink
  <2>6. QED
    BY <2>1, <2>2, <2>3, <2>4, <2>5 DEF Next
<1>2. QED
  BY <1>1, InitLink, PTL DEF Spec

\* The prints that timed out and the one whose reply is owed are different prints.
LEMMA Owed ==
  ASSUME Link
  PROVE  Cardinality(TimedOut) + Own <= MaxPrints
<1>1. TimedOut \subseteq Prints /\ waiting \in Prints \cup {0} /\ shown \subseteq Prints
      /\ (waiting # 0 => waiting \notin TimedOut) /\ 0 \notin Prints
  BY DEF Link, Ranges, InTurn, TimedOut, Prints
<1>2. IsFiniteSet(TimedOut) /\ Cardinality(TimedOut) \in 0 .. MaxPrints
  BY <1>1, PrintSets
<1>3. CASE waiting \in shown
  <2>1. waiting \notin TimedOut /\ TimedOut \cup {waiting} \subseteq Prints
    BY <1>1, <1>3
  <2>2. Cardinality(TimedOut \cup {waiting}) \in 0 .. MaxPrints
    BY <2>1, PrintSets
  <2>3. Cardinality(TimedOut \cup {waiting}) = Cardinality(TimedOut) + 1
    BY <1>2, <2>1, FS_AddElement
  <2>4. Own = 1
    BY <1>3 DEF Own
  <2>5. QED
    BY <1>2, <2>2, <2>3, <2>4
<1>4. CASE waiting \notin shown
  BY <1>2, <1>4, ConstantsAssumption DEF Own
<1>5. QED
  BY <1>3, <1>4

LEMMA LinkRunAhead == Link => RunAhead
<1> SUFFICES ASSUME Link PROVE RunAhead
  OBVIOUS
<1>1. /\ Cardinality(Returned \ shown) + replies + Cardinality(Lookalikes(toCli))
           <= Cardinality(TimedOut) + lookalikes + Own
      /\ Cardinality(Returned \ shown) \in Nat /\ Cardinality(TimedOut) \in Nat
      /\ Cardinality(Lookalikes(toCli)) \in Nat /\ lookalikes \in Nat /\ replies \in Nat
      /\ Own \in {0, 1}
  BY Numbers DEF Link, Balance
<1>2. lookalikes \in 0 .. MaxPrints + MaxTexts
  <2>1. PICK n \in 0 .. MaxPrints : lookalikes <= n + texts
    BY DEF Link, InTurn
  <2>2. texts \in 0 .. MaxTexts
    BY DEF Link, Ranges
  <2>3. QED
    BY <1>1, <2>1, <2>2, ConstantsAssumption
<1>3. replies \in 0 .. 2 * MaxPrints + MaxTexts
  <2>1. Cardinality(TimedOut) + Own <= MaxPrints
    BY Owed
  <2>2. QED
    BY <1>1, <1>2, <2>1, ConstantsAssumption
<1>4. TypeOK
  BY <1>2, <1>3 DEF TypeOK, Link, Ranges
<1>5. Cardinality(Returned \ shown) <= Cardinality(TimedOut) + lookalikes
  <2>1. CASE waiting \in shown
    <3>1. Returned \ shown = {}
      BY <2>1 DEF Link, Arrives
    <3>2. Cardinality(Returned \ shown) = 0
      BY <3>1, FS_EmptySet
    <3>3. QED
      BY <1>1, <3>2
  <2>2. CASE waiting \notin shown
    <3>1. Own = 0
      BY <2>2 DEF Own
    <3>2. QED
      BY <1>1, <3>1
  <2>3. QED
    BY <2>1, <2>2
<1>6. QED
  BY <1>4, <1>5 DEF RunAhead

LEMMA LinkReplyIsOwn == Link => ReplyIsOwn
<1> SUFFICES ASSUME Link, lookalikes = 0, TimedOut = {}, replies > 0
             PROVE  replies = 1 /\ waiting \in shown
  BY DEF ReplyIsOwn
<1>1. /\ Cardinality(Returned \ shown) + replies + Cardinality(Lookalikes(toCli))
           <= Cardinality(TimedOut) + lookalikes + Own
      /\ Cardinality(Returned \ shown) \in Nat /\ Cardinality(Lookalikes(toCli)) \in Nat
      /\ replies \in Nat /\ Own \in {0, 1}
  BY Numbers DEF Link, Balance
<1>2. Cardinality(TimedOut) = 0
  BY FS_EmptySet
<1>3. replies = 1 /\ Own = 1
  BY <1>1, <1>2
<1>4. QED
  BY <1>3 DEF Own

\* Whatever the number of prints and texts and wherever messages are split or taken together,
\* each time-out of p2s_msg_wait_reply and each text that looks like a print lets
\* psp2shell_print_color run ahead of msg_thread by one print, and nothing else does.
THEOREM RunAheadCorrect == Spec => []RunAhead
<1>1. QED
  BY LinkInvariant, LinkRunAhead, PTL

\* Until the first time-out or lookalike, the reply that psp2shell_print_color waits for is
\* the one msg_thread sent for that print, and it is the only one.
THEOREM ReplyIsOwnCorrect == Spec => []ReplyIsOwn
<1>1. QED
  BY LinkInvariant, LinkReplyIsOwn, PTL
===============================================================================
