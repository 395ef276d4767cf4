----------------------------- MODULE CmdLinkProofs -----------------------------
(***************************************************************************)
(* Theorems about CmdLink, for any number of commands and blocks: file     *)
(* data and commands keep apart on the one connection, and each answer     *)
(* meets its upload.                                                       *)
(***************************************************************************)
EXTENDS CmdLink, SequenceTheorems, TLAPS

Busy == srv.pc \in {"alloc", "file", "spin"}
Done == {executed[i] : i \in DOMAIN executed} \cup lost
IsCommand(i) == i \in DOMAIN toSrv /\ toSrv[i].kind # "data"

\* The commands under way are newer than those that arrived, in the order they were entered.
Fresh ==
  /\ \A e \in Done : e < next
  /\ \A i \in DOMAIN toSrv : IsCommand(i) =>
       toSrv[i].id \in Ids /\ toSrv[i].id < next /\ \A e \in Done : e < toSrv[i].id
  /\ \A i, j \in DOMAIN toSrv : IsCommand(i) /\ IsCommand(j) /\ i < j => toSrv[i].id < toSrv[j].id

\* What an upload stores belongs to a command that arrived, and fits; or to none, when file
\* data was taken for the command.
Storing ==
  /\ \A id \in Ids \ Done : stored[id] = <<>> /\ complete[id] = -1
  /\ ~Busy => srv.id = 0 /\ srv.left = 0
  /\ Busy /\ srv.id = 0 => upset
  /\ Busy /\ srv.id # 0 =>
       /\ srv.id \in Ids /\ srv.id \in Done /\ complete[srv.id] = -1
       /\ Len(stored[srv.id]) + srv.left <= MaxBlocks

\* What was under way to the client went with the connection.
Broken == conn # "up" => toCli = <<>> /\ upset

\* A client that waits has sent nothing after its upload, and its answer is the only one.
Talk ==
  /\ toCli # <<>> =>
       /\ toSrv = <<>> /\ Len(toCli) = 1 /\ cli.pc = "wait"
       /\ executed # <<>> /\ cli.id = executed[Len(executed)]
  /\ conn = "up" => \A i \in DOMAIN toSrv : toSrv[i].kind = "upload" =>
       /\ i = Len(toSrv) /\ cli.pc = "wait" /\ cli.id = toSrv[i].id /\ toCli = <<>>
       /\ ~upset => toSrv[i].nr = cli.left

\* The blocks the client is still going to send, because it has the server's OK or will have it.
Sending == cli.pc = "send" \/ (cli.pc = "wait" /\ toCli = <<"OK">>)
Pending == IF Sending THEN cli.left ELSE 0
Arriving == srv.left - Pending

\* The blocks that the server still waits for are those under way, at the head of the
\* connection, and those the client is still going to send; what it has stored came before.
Account ==
  /\ Arriving \in 0 .. Len(toSrv)
  /\ Sending => Len(toSrv) = Arriving /\ (cli.id = srv.id \/ cli.left = 0)
  /\ \A i \in DOMAIN toSrv :
       IF i <= Arriving THEN toSrv[i] = [kind |-> "data", id |-> srv.id, nr |-> srv.left + 1 - i]
       ELSE toSrv[i].kind # "data"
  /\ Busy => \A i \in 1 .. Len(stored[srv.id]) :
       stored[srv.id][i] =
         [kind |-> "data", id |-> srv.id, nr |-> Len(stored[srv.id]) + srv.left + 1 - i]
  /\ \A i \in DOMAIN executed : executed[i] # 0

Link ==
  /\ TypeOK /\ Fresh /\ Storing /\ Broken /\ InOrder
  /\ Stray \/ Talk
  /\ ~upset => Account
  /\ UploadIntact

-------------------------------------------------------------------------------
(* Units under way.                                                        *)

LEMMA FromFacts ==
  ASSUME NEW S, NEW s \in Seq(S), NEW k \in 1 .. Len(s)
  PROVE  /\ From(s, k) \in Seq(S) /\ Len(From(s, k)) = Len(s) - k
         /\ DOMAIN From(s, k) = 1 .. Len(s) - k
         /\ \A i \in 1 .. Len(s) - k : From(s, k)[i] = s[k + i]
<1> DEFINE t == SubSeq(s, k + 1, Len(s))
<1>1. Len(s) \in Nat /\ DOMAIN s = 1 .. Len(s)
  BY LenProperties
<1>2. k \in Nat /\ k <= Len(s) /\ k >= 1
  BY <1>1
<1>3. \A i \in k + 1 .. Len(s) : s[i] \in S
  BY <1>1, <1>2, ElementOfSeq
<1>4. k + 1 \in Int /\ Len(s) \in Int
  BY <1>1, <1>2
<1>5. /\ t \in Seq(S) /\ Len(t) = IF k + 1 <= Len(s) THEN Len(s) - (k + 1) + 1 ELSE 0
      /\ \A i \in 1 .. Len(s) - (k + 1) + 1 : t[i] = s[k + 1 + i - 1]
  BY <1>3, <1>4, SubSeqProperties
<1>6. DOMAIN t = 1 .. Len(t)
  BY <1>5, LenProperties
<1>7. From(s, k) = t
  BY DEF From
<1> HIDE DEF t
<1>8. Len(t) = Len(s) - k
  <2>1. Len(t) = IF k + 1 <= Len(s) THEN Len(s) - (k + 1) + 1 ELSE 0
    BY <1>5
  <2>2. Len(s) \in Nat
    BY <1>1
  <2>3. CASE k + 1 <= Len(s)
    BY <1>2, <2>1, <2>2, <2>3
  <2>4. CASE ~(k + 1 <= Len(s))
    BY <1>2, <2>1, <2>2, <2>4
  <2>5. QED
    BY <2>3, <2>4
<1>9. ASSUME NEW i \in 1 .. Len(s) - k PROVE t[i] = s[k + i]
  <2>1. i \in 1 .. Len(s) - (k + 1) + 1 /\ k + 1 + i - 1 = k + i
    BY <1>1, <1>2
  <2>2. QED
    BY <1>5, <2>1
<1>10. QED
  BY <1>5, <1>6, <1>7, <1>8, <1>9

\* The commands that came with another one are among the units of the recv.
LEMMA Behind ==
  ASSUME NEW s \in Seq(Units), NEW k \in 1 .. Len(s), NEW c \in Commands(SubSeq(s, 2, k))
  PROVE  \E i \in 2 .. k : i \in DOMAIN s /\ s[i].kind # "data" /\ c = s[i].id
<1> DEFINE t == SubSeq(s, 2, k)
<1>1. Len(s) \in Nat /\ DOMAIN s = 1 .. Len(s)
  BY LenProperties
<1>2. k \in Nat /\ k <= Len(s) /\ k >= 1
  BY <1>1
<1>3. \A i \in 2 .. k : i \in DOMAIN s /\ s[i] \in Units
  BY <1>1, <1>2, ElementOfSeq
<1>4. 2 \in Int /\ k \in Int
  BY <1>2
<1>5. /\ t \in Seq(Units) /\ Len(t) = IF 2 <= k THEN k - 2 + 1 ELSE 0
      /\ \A i \in 1 .. k - 2 + 1 : t[i] = s[2 + i - 1]
  BY <1>3, <1>4, SubSeqProperties
<1>6. DOMAIN t = 1 .. Len(t) /\ Len(t) \in Nat
  BY <1>5, LenProperties
<1>7. PICK i \in DOMAIN t : t[i].kind # "data" /\ c = t[i].id
  BY DEF Commands
<1> HIDE DEF t
<1>8. i \in 1 .. k - 2 + 1 /\ i + 1 \in 2 .. k /\ 2 + i - 1 = i + 1
  <2>1. CASE 2 <= k
    BY <1>2, <1>5, <1>6, <2>1
  <2>2. CASE ~(2 <= k)
    BY <1>2, <1>5, <1>6, <2>2
  <2>3. QED
    BY <2>1, <2>2
<1>9. QED
  BY <1>3, <1>5, <1>7, <1>8

LEMMA AppendFacts ==
  ASSUME NEW S, NEW s \in Seq(S), NEW x \in S
  PROVE  /\ Append(s, x) \in Seq(S) /\ Len(Append(s, x)) = Len(s) + 1 /\ Append(s, x) # <<>>
         /\ DOMAIN Append(s, x) = DOMAIN s \cup {Len(s) + 1} /\ DOMAIN s = 1 .. Len(s)
         /\ Len(s) \in Nat /\ DOMAIN Append(s, x) = 1 .. Len(s) + 1
         /\ \A i \in DOMAIN s : Append(s, x)[i] = s[i]
         /\ Append(s, x)[Len(s) + 1] = x
<1>1. Len(s) \in Nat /\ DOMAIN s = 1 .. Len(s)
  BY LenProperties
<1>2. /\ Append(s, x) \in Seq(S) /\ Len(Append(s, x)) = Len(s) + 1
      /\ \A i \in 1 .. Len(s) : Append(s, x)[i] = s[i]
      /\ Append(s, x)[Len(s) + 1] = x
  BY AppendProperties
<1>3. DOMAIN Append(s, x) = 1 .. Len(s) + 1
  BY <1>2, LenProperties
<1>4. 1 .. Len(s) + 1 = (1 .. Len(s)) \cup {Len(s) + 1}
  BY <1>1
<1>5. Append(s, x) # <<>>
  BY <1>1, <1>2
<1>6. QED
  BY <1>1, <1>2, <1>3, <1>4, <1>5

-------------------------------------------------------------------------------
(* Commands stay in order.                                                 *)

\* What the invariant says of the shapes of the variables, for arithmetic.
LEMMA Shapes ==
  ASSUME TypeOK
  PROVE  /\ toSrv \in Seq(Units) /\ Len(toSrv) \in Nat /\ DOMAIN toSrv = 1 .. Len(toSrv)
         /\ \A i \in DOMAIN toSrv : /\ toSrv[i] \in Units /\ toSrv[i].id \in Nat
                                    /\ toSrv[i].nr \in 0 .. MaxBlocks
         /\ executed \in Seq(0 .. MaxCmds) /\ DOMAIN executed = 1 .. Len(executed)
         /\ Len(executed) \in Nat /\ \A i \in DOMAIN executed : executed[i] \in Nat
         /\ lost \subseteq Ids /\ Done \subseteq Nat /\ next \in Nat /\ next >= 1
         /\ srv.left \in Nat /\ srv.id \in Nat /\ cli.left \in Nat /\ cli.id \in Nat
<1>1. /\ toSrv \in Seq(Units) /\ executed \in Seq(0 .. MaxCmds) /\ lost \subseteq Ids
      /\ next \in 1 .. MaxCmds + 1
  BY DEF TypeOK
<1>2. /\ Len(toSrv) \in Nat /\ DOMAIN toSrv = 1 .. Len(toSrv)
      /\ DOMAIN executed = 1 .. Len(executed) /\ Len(executed) \in Nat
  BY <1>1, LenProperties
<1>3. \A i \in DOMAIN toSrv : toSrv[i] \in Units
  BY <1>1, <1>2, ElementOfSeq
<1>4. \A u \in Units : u.id \in Nat /\ u.nr \in 0 .. MaxBlocks
  BY ConstantsAssumption DEF Units, Ids
<1>5. \A i \in DOMAIN executed : executed[i] \in 0 .. MaxCmds
  BY <1>1, <1>2, ElementOfSeq
<1>6. \A i \in DOMAIN executed : executed[i] \in Nat
  BY <1>5, ConstantsAssumption
<1>7. Done \subseteq Nat /\ next \in Nat /\ next >= 1
  <2>1. lost \subseteq Nat
    BY <1>1, ConstantsAssumption DEF Ids
  <2>2. Done \subseteq Nat
    BY <1>6, <2>1 DEF Done
  <2>3. QED
    BY <1>1, <2>2, ConstantsAssumption
<1>8. srv.left \in Nat /\ srv.id \in Nat /\ cli.left \in Nat /\ cli.id \in Nat
  <2>1. /\ srv.left \in 0 .. MaxBlocks /\ srv.id \in 0 .. MaxCmds
        /\ cli.left \in 0 .. MaxBlocks /\ cli.id \in 0 .. MaxCmds
    BY DEF TypeOK
  <2>2. QED
    BY <2>1, ConstantsAssumption
<1>9. QED
  BY <1>1, <1>2, <1>3, <1>4, <1>6, <1>7, <1>8

\* The next command is the newest.
LEMMA FreshSent ==
  ASSUME TypeOK, Fresh, NEW u \in Units, toSrv' = Append(toSrv, u), Done' = Done,
         \/ u.kind = "data" /\ next' = next
         \/ u.kind # "data" /\ u.id = next /\ next \in Ids /\ next' = next + 1
  PROVE  Fresh'
<1>1. /\ toSrv \in Seq(Units) /\ Len(toSrv) \in Nat /\ next \in Nat /\ Done \subseteq Nat
      /\ DOMAIN toSrv = 1 .. Len(toSrv) /\ \A i \in DOMAIN toSrv : toSrv[i].id \in Nat
  BY Shapes
<1>2. /\ DOMAIN toSrv' = DOMAIN toSrv \cup {Len(toSrv) + 1}
      /\ \A i \in DOMAIN toSrv : toSrv'[i] = toSrv[i]
      /\ toSrv'[Len(toSrv) + 1] = u
  BY <1>1, AppendFacts
<1>3. next' \in Nat /\ next <= next' /\ (u.kind # "data" => next < next')
  BY <1>1
<1>4. \A e \in Done : e < next'
  BY <1>1, <1>3 DEF Fresh
<1>5. ASSUME NEW i \in DOMAIN toSrv', IsCommand(i)'
      PROVE  toSrv'[i].id \in Ids /\ toSrv'[i].id < next' /\ \A e \in Done : e < toSrv'[i].id
  <2>1. CASE i \in DOMAIN toSrv
    <3>1. /\ toSrv'[i].id = toSrv[i].id /\ toSrv[i].id \in Ids /\ toSrv[i].id < next
          /\ \A e \in Done : e < toSrv[i].id
      BY <1>2, <1>5, <2>1 DEF Fresh, IsCommand
    <3>2. toSrv[i].id \in Nat
      BY <1>1, <2>1
    <3>3. QED
      BY <1>1, <1>3, <3>1, <3>2
  <2>2. CASE i = Len(toSrv) + 1
    <3>1. toSrv'[i] = u /\ u.kind # "data"
      BY <1>2, <1>5, <2>2 DEF IsCommand
    <3>2. QED
      BY <1>3, <3>1 DEF Fresh
  <2>3. QED
    BY <1>2, <2>1, <2>2
<1>6. ASSUME NEW i \in DOMAIN toSrv', NEW j \in DOMAIN toSrv', IsCommand(i)', IsCommand(j)', i < j
      PROVE  toSrv'[i].id < toSrv'[j].id
  <2>1. i \in DOMAIN toSrv /\ toSrv'[i] = toSrv[i]
    <3>1. i # Len(toSrv) + 1
      BY <1>1, <1>2, <1>6
    <3>2. QED
      BY <1>2, <3>1
  <2>2. CASE j \in DOMAIN toSrv
    BY <1>2, <1>6, <2>1, <2>2 DEF Fresh, IsCommand
  <2>3. CASE j = Len(toSrv) + 1
    <3>1. toSrv'[j] = u /\ u.kind # "data"
      BY <1>2, <1>6, <2>3 DEF IsCommand
    <3>2. toSrv[i].id < next
      BY <1>6, <2>1 DEF Fresh, IsCommand
    <3>3. QED
      BY <2>1, <3>1, <3>2
  <2>4. QED
    BY <1>2, <2>2, <2>3
<1>7. QED
  BY <1>4, <1>5, <1>6 DEF Fresh

\* What has arrived is older than what has not.
LEMMA FreshTaken ==
  ASSUME TypeOK, Fresh, NEW k \in 1 .. Len(toSrv), toSrv' = From(toSrv, k), UNCHANGED next,
         \A e \in Done' : e \in Done \/ e = 0 \/ \E i \in 1 .. k : IsCommand(i) /\ e = toSrv[i].id
  PROVE  Fresh'
<1>1. /\ toSrv \in Seq(Units) /\ Len(toSrv) \in Nat /\ next \in Nat /\ Done \subseteq Nat
      /\ DOMAIN toSrv = 1 .. Len(toSrv) /\ \A i \in DOMAIN toSrv : toSrv[i].id \in Nat
      /\ next >= 1 /\ k \in Nat
  BY Shapes
<1>2. DOMAIN toSrv' = 1 .. Len(toSrv) - k /\ \A i \in 1 .. Len(toSrv) - k : toSrv'[i] = toSrv[k + i]
  BY <1>1, FromFacts
<1>3. \A i \in DOMAIN toSrv' : k + i \in DOMAIN toSrv /\ \A j \in 1 .. k : j < k + i
  BY <1>1, <1>2
<1>4. ASSUME NEW e \in Done' PROVE e < next'
  <2>1. CASE e = 0
    BY <1>1, <2>1
  <2>2. CASE e # 0
    BY <2>2 DEF Fresh, IsCommand
  <2>3. QED
    BY <2>1, <2>2
<1>5. ASSUME NEW i \in DOMAIN toSrv', IsCommand(i)'
      PROVE  toSrv'[i].id \in Ids /\ toSrv'[i].id < next' /\ \A e \in Done' : e < toSrv'[i].id
  <2>1. toSrv'[i] = toSrv[k + i] /\ IsCommand(k + i)
    BY <1>2, <1>3, <1>5 DEF IsCommand
  <2>2. toSrv[k + i].id \in Ids /\ toSrv[k + i].id < next /\ \A e \in Done : e < toSrv[k + i].id
    BY <1>3, <2>1 DEF Fresh
  <2>3. ASSUME NEW e \in Done' PROVE e < toSrv[k + i].id
    <3>1. CASE e = 0
      BY <2>2, <3>1 DEF Ids
    <3>2. ASSUME NEW j \in 1 .. k, IsCommand(j), e = toSrv[j].id PROVE e < toSrv[k + i].id
      <4>1. j < k + i /\ j \in DOMAIN toSrv /\ k + i \in DOMAIN toSrv
        BY <1>3, <3>2 DEF IsCommand
      <4>2. QED
        BY <2>1, <3>2, <4>1 DEF Fresh
    <3>3. QED
      BY <2>2, <3>1, <3>2
  <2>4. QED
    BY <2>1, <2>2, <2>3
<1>6. ASSUME NEW i \in DOMAIN toSrv', NEW j \in DOMAIN toSrv', IsCommand(i)', IsCommand(j)', i < j
      PROVE  toSrv'[i].id < toSrv'[j].id
  <2>1. /\ toSrv'[i] = toSrv[k + i] /\ IsCommand(k + i) /\ k + i \in DOMAIN toSrv
        /\ toSrv'[j] = toSrv[k + j] /\ IsCommand(k + j) /\ k + j \in DOMAIN toSrv
    BY <1>2, <1>3, <1>6 DEF IsCommand
  <2>2. k + i < k + j
    BY <1>1, <1>2, <1>6
  <2>3. QED
    BY <2>1, <2>2 DEF Fresh
<1>7. QED
  BY <1>4, <1>5, <1>6 DEF Fresh

-------------------------------------------------------------------------------
(* The client sends.                                                       *)

\* What only the server touches stays as it is.
LEMMA ServerKept ==
  ASSUME Link, UNCHANGED srvVars, ~upset' => ~upset
  PROVE  /\ Storing' /\ InOrder' /\ UploadIntact' /\ Done' = Done /\ Busy' = Busy
         /\ Stray' = Stray
         /\ UNCHANGED <<srv, executed, lost, stored, complete>>
<1>1. UNCHANGED <<srv, executed, lost, stored, complete>>
  BY DEF srvVars
<1>2. Done' = Done /\ Busy' = Busy /\ Stray' = Stray
  BY <1>1 DEF Done, Busy, Stray
<1>3. Storing'
  BY <1>1, <1>2 DEF Link, Storing
<1>4. InOrder'
  BY <1>1 DEF Link, InOrder
<1>5. UploadIntact'
  BY <1>1 DEF Link, UploadIntact, Sent
<1>6. QED
  BY <1>1, <1>2, <1>3, <1>4, <1>5

\* A command goes behind everything, a block behind the blocks before it.
LEMMA AccountSent ==
  ASSUME TypeOK, Account, NEW u \in Units, toSrv' = Append(toSrv, u),
         UNCHANGED <<srv, executed, stored>>,
         \/ ~Sending' /\ Pending' = Pending /\ u.kind # "data"
         \/ /\ Sending' /\ Sending /\ Pending' = Pending - 1 /\ cli'.id = cli.id
            /\ cli.id = srv.id /\ u = [kind |-> "data", id |-> cli.id, nr |-> cli.left]
  PROVE  Account'
<1>1. /\ toSrv \in Seq(Units) /\ Len(toSrv) \in Nat /\ DOMAIN toSrv = 1 .. Len(toSrv)
      /\ srv.left \in Nat /\ cli.left \in Nat
  BY Shapes
<1>2. /\ DOMAIN toSrv' = DOMAIN toSrv \cup {Len(toSrv) + 1} /\ Len(toSrv') = Len(toSrv) + 1
      /\ \A i \in DOMAIN toSrv : toSrv'[i] = toSrv[i]
      /\ toSrv'[Len(toSrv) + 1] = u
  BY <1>1, AppendFacts
<1>3. Pending \in Nat /\ Arriving = srv.left - Pending /\ Arriving' = srv.left - Pending'
  BY <1>1 DEF Pending, Arriving
<1>4. Arriving \in 0 .. Len(toSrv)
  BY DEF Account
<1>5. /\ Busy' => \A i \in 1 .. Len(stored'[srv'.id]) :
           stored'[srv'.id][i] =
             [kind |-> "data", id |-> srv'.id, nr |-> Len(stored'[srv'.id]) + srv'.left + 1 - i]
      /\ \A i \in DOMAIN executed' : executed'[i] # 0
  BY DEF Account, Busy
<1>6. CASE ~Sending' /\ Pending' = Pending /\ u.kind # "data"
  <2>1. Arriving' = Arriving
    BY <1>3, <1>6
  <2>2. Arriving' \in 0 .. Len(toSrv') /\ ~(Len(toSrv) + 1 <= Arriving')
    BY <1>1, <1>2, <1>4, <2>1
  <2>3. ASSUME NEW i \in DOMAIN toSrv'
        PROVE  IF i <= Arriving'
               THEN toSrv'[i] = [kind |-> "data", id |-> srv.id, nr |-> srv.left + 1 - i]
               ELSE toSrv'[i].kind # "data"
    <3>1. CASE i \in DOMAIN toSrv
      BY <1>2, <2>1, <3>1 DEF Account
    <3>2. CASE i = Len(toSrv) + 1
      BY <1>2, <1>6, <2>2, <3>2
    <3>3. QED
      BY <1>2, <3>1, <3>2
  <2>4. QED
    BY <1>5, <1>6, <2>2, <2>3 DEF Account
<1>7. CASE /\ Sending' /\ Sending /\ Pending' = Pending - 1 /\ cli'.id = cli.id
           /\ cli.id = srv.id /\ u = [kind |-> "data", id |-> cli.id, nr |-> cli.left]
  <2>1. Pending = cli.left /\ Len(toSrv) = Arriving
    BY <1>7 DEF Pending, Account
  <2>2. Arriving' = Len(toSrv) + 1 /\ Len(toSrv') = Len(toSrv) + 1
    <3>1. Pending' = Pending - 1
      BY <1>7
    <3>2. QED
      BY <1>1, <1>2, <1>3, <2>1, <3>1
  <2>3. Arriving' \in 0 .. Len(toSrv') /\ \A i \in DOMAIN toSrv : i <= Arriving /\ i <= Arriving'
    BY <1>1, <2>1, <2>2
  <2>4. cli.left = srv.left + 1 - (Len(toSrv) + 1)
    BY <1>1, <1>3, <2>1
  <2>5. ASSUME NEW i \in DOMAIN toSrv'
        PROVE  /\ i <= Arriving'
               /\ toSrv'[i] = [kind |-> "data", id |-> srv.id, nr |-> srv.left + 1 - i]
    <3>1. CASE i \in DOMAIN toSrv
      BY <1>2, <2>3, <3>1 DEF Account
    <3>2. CASE i = Len(toSrv) + 1
      <4>1. toSrv'[i] = [kind |-> "data", id |-> srv.id, nr |-> srv.left + 1 - i]
        BY <1>2, <1>7, <2>4, <3>2
      <4>2. QED
        BY <1>1, <2>2, <3>2, <4>1
    <3>3. QED
      BY <1>2, <3>1, <3>2
  <2>6. QED
    BY <1>5, <1>7, <2>2, <2>3, <2>5 DEF Account
<1>8. QED
  BY <1>6, <1>7

LEMMA SendPlainStep ==
  ASSUME Link, SendPlain
  PROVE  Link'
<1> DEFINE u == [kind |-> "plain", id |-> next, nr |-> 0]
<1>1. /\ cli.pc = "idle" /\ next <= MaxCmds /\ toSrv' = Append(toSrv, u) /\ next' = next + 1
      /\ UNCHANGED <<conn, toCli, cli, srvVars, upset>>
  BY DEF SendPlain
<1>2. TypeOK /\ toSrv \in Seq(Units) /\ next \in Nat /\ next \in 1 .. MaxCmds + 1
  BY Shapes DEF Link, TypeOK
<1>3. next \in Ids /\ next' \in 1 .. MaxCmds + 1
  BY <1>1, <1>2, ConstantsAssumption DEF Ids
<1>4. u \in Units /\ u.kind = "plain" /\ u.id = next
  BY <1>3, ConstantsAssumption DEF Units
<1> HIDE DEF u
<1>5. /\ toSrv' \in Seq(Units) /\ DOMAIN toSrv' = DOMAIN toSrv \cup {Len(toSrv) + 1}
      /\ \A i \in DOMAIN toSrv : toSrv'[i] = toSrv[i]
      /\ toSrv'[Len(toSrv) + 1] = u
  BY <1>1, <1>2, <1>4, AppendFacts
<1>6. /\ Storing' /\ InOrder' /\ UploadIntact' /\ Done' = Done /\ Busy' = Busy
      /\ Stray' = Stray /\ UNCHANGED <<srv, executed, lost, stored, complete>>
  BY <1>1, ServerKept
<1>7. TypeOK'
  BY <1>1, <1>2, <1>3, <1>5, <1>6 DEF TypeOK
<1>8. Fresh'
  BY <1>1, <1>2, <1>3, <1>4, <1>6, FreshSent DEF Link
<1>9. Broken' /\ (Stray' \/ Talk')
  BY <1>1, <1>4, <1>5, <1>6 DEF Link, Talk, Broken
<1>10. ASSUME ~upset' PROVE Account'
  <2>1. Account /\ ~Sending' /\ Pending' = Pending
    BY <1>1, <1>10 DEF Link, Sending, Pending
  <2>2. UNCHANGED <<srv, executed, stored>> /\ u.kind # "data"
    BY <1>4, <1>6
  <2>3. QED
    BY <1>1, <1>2, <1>4, <2>1, <2>2, AccountSent
<1>11. QED
  BY <1>6, <1>7, <1>8, <1>9, <1>10 DEF Link

LEMMA SendUploadStep ==
  ASSUME Link, NEW size \in 0 .. MaxBlocks, NEW blocks \in 0 .. MaxBlocks,
         SendUpload(size, blocks)
  PROVE  Link'
<1> DEFINE u == [kind |-> "upload", id |-> next, nr |-> size]
<1>1. /\ cli.pc = "idle" /\ next <= MaxCmds /\ toSrv' = Append(toSrv, u) /\ next' = next + 1
      /\ cli' = [pc |-> "wait", id |-> next, left |-> blocks]
      /\ upset' = (upset \/ size # blocks) /\ UNCHANGED <<conn, toCli, srvVars>>
  BY DEF SendUpload
<1>2. TypeOK /\ toSrv \in Seq(Units) /\ next \in Nat /\ next \in 1 .. MaxCmds + 1
  BY Shapes DEF Link, TypeOK
<1>3. next \in Ids /\ next' \in 1 .. MaxCmds + 1 /\ next \in 0 .. MaxCmds
  BY <1>1, <1>2, ConstantsAssumption DEF Ids
<1>4. u \in Units /\ u.kind = "upload" /\ u.id = next /\ u.nr = size
  BY <1>3 DEF Units
<1> HIDE DEF u
<1>5. /\ toSrv' \in Seq(Units) /\ DOMAIN toSrv' = DOMAIN toSrv \cup {Len(toSrv) + 1}
      /\ \A i \in DOMAIN toSrv : toSrv'[i] = toSrv[i]
      /\ toSrv'[Len(toSrv) + 1] = u /\ Len(toSrv') = Len(toSrv) + 1
  BY <1>1, <1>2, <1>4, AppendFacts
<1>6. (~upset' => ~upset /\ size = blocks) /\ (upset => upset') /\ upset' \in BOOLEAN
  BY <1>1
<1>7. /\ Storing' /\ InOrder' /\ UploadIntact' /\ Done' = Done /\ Busy' = Busy
      /\ Stray' = Stray /\ UNCHANGED <<srv, executed, lost, stored, complete>>
  BY <1>1, <1>6, ServerKept
<1>8. cli' \in [pc : {"idle", "wait", "send", "gone"}, id : 0 .. MaxCmds, left : 0 .. MaxBlocks]
  BY <1>1, <1>3
<1>9. TypeOK'
  BY <1>1, <1>2, <1>3, <1>5, <1>6, <1>7, <1>8 DEF TypeOK
<1>10. Fresh'
  BY <1>1, <1>2, <1>3, <1>4, <1>7, FreshSent DEF Link
<1>11. Broken' /\ (~Stray => Talk /\ toCli = <<>>)
  BY <1>1, <1>6 DEF Link, Talk, Broken
<1>12. ASSUME ~Stray' PROVE Talk'
  <2>1. \A i \in DOMAIN toSrv : conn = "up" => toSrv[i].kind # "upload"
    BY <1>1, <1>7, <1>11, <1>12 DEF Talk
  <2>2. toCli = <<>>
    BY <1>7, <1>11, <1>12
  <2>3. ASSUME conn' = "up", NEW i \in DOMAIN toSrv', toSrv'[i].kind = "upload"
        PROVE  /\ i = Len(toSrv') /\ cli'.pc = "wait" /\ cli'.id = toSrv'[i].id /\ toCli' = <<>>
               /\ ~upset' => toSrv'[i].nr = cli'.left
    <3>1. i = Len(toSrv) + 1 /\ toSrv'[i] = u
      BY <1>1, <1>5, <2>1, <2>3
    <3>2. QED
      BY <1>1, <1>4, <1>5, <1>6, <2>2, <3>1
  <2>4. QED
    BY <1>1, <2>2, <2>3 DEF Talk
<1>13. ASSUME ~upset' PROVE Account'
  <2>1. Account /\ ~Stray
    BY <1>6, <1>13 DEF Link, Account, Stray
  <2>4. ~Sending' /\ Pending' = Pending
    BY <1>1, <1>11, <2>1 DEF Sending, Pending
  <2>2. UNCHANGED <<srv, executed, stored>> /\ u.kind # "data"
    BY <1>4, <1>7
  <2>3. QED
    BY <1>1, <1>2, <1>4, <2>1, <2>2, <2>4, AccountSent
<1>14. QED
  BY <1>7, <1>9, <1>10, <1>11, <1>12, <1>13 DEF Link

LEMMA OneResult ==
  ASSUME NEW s \in Seq({"OK", "NOK"}), Len(s) = 1
  PROVE  s = <<"OK">> <=> Head(s) = "OK"
<1>1. s = <<"OK">> => Head(s) = "OK"
  OBVIOUS
<1>2. Head(s) = s[1] /\ s # <<>>
  OBVIOUS
<1>3. ASSUME s[1] = "OK" PROVE s = <<"OK">>
  <2>1. <<"OK">> \in Seq({"OK", "NOK"}) /\ Len(<<"OK">>) = 1 /\ <<"OK">>[1] = "OK"
    OBVIOUS
  <2>2. \A i \in 1 .. Len(s) : s[i] = <<"OK">>[i]
    BY <1>3, <2>1
  <2>3. QED
    BY <2>1, <2>2, SeqEqual
<1>4. QED
  BY <1>1, <1>2, <1>3

LEMMA NoneLeft ==
  ASSUME NEW S, NEW s \in Seq(S), Len(s) = 1, NEW k \in 1 .. Len(s)
  PROVE  From(s, k) = <<>>
<1>1. k = 1 /\ From(s, k) \in Seq(S) /\ Len(From(s, k)) = Len(s) - k
  BY FromFacts
<1>2. Len(From(s, k)) = 0
  BY <1>1
<1>3. QED
  BY <1>1, <1>2, EmptySeq

LEMMA GetResultStep ==
  ASSUME Link, NEW k \in 1 .. Len(toCli), GetResult(k)
  PROVE  Link'
<1>1. /\ cli.pc = "wait" /\ toCli' = From(toCli, k)
      /\ cli' = [cli EXCEPT !.pc = IF Head(toCli) = "OK" THEN "send" ELSE "idle"]
      /\ UNCHANGED <<conn, toSrv, next, srvVars, upset>>
  BY DEF GetResult
<1>2. /\ TypeOK /\ toCli \in Seq({"OK", "NOK"})
      /\ cli \in [pc : {"idle", "wait", "send", "gone"}, id : 0 .. MaxCmds, left : 0 .. MaxBlocks]
  BY DEF Link, TypeOK
<1>3. toCli # <<>> /\ conn = "up" /\ (~Stray => toSrv = <<>> /\ Len(toCli) = 1)
  <2>1. toCli # <<>>
    BY <1>2, EmptySeq
  <2>2. QED
    BY <2>1 DEF Link, Talk, Broken
<1>4. toCli' \in Seq({"OK", "NOK"}) /\ (~Stray => toCli' = <<>>)
  BY <1>1, <1>2, <1>3, NoneLeft, FromFacts
<1>5. /\ cli'.pc = (IF Head(toCli) = "OK" THEN "send" ELSE "idle")
      /\ cli'.id = cli.id /\ cli'.left = cli.left
      /\ cli' \in [pc : {"idle", "wait", "send", "gone"}, id : 0 .. MaxCmds, left : 0 .. MaxBlocks]
  BY <1>1, <1>2
<1>6. /\ Storing' /\ InOrder' /\ UploadIntact' /\ Done' = Done /\ Busy' = Busy
      /\ Stray' = Stray /\ UNCHANGED <<srv, executed, lost, stored, complete>>
  BY <1>1, ServerKept
<1>7. TypeOK'
  BY <1>1, <1>2, <1>4, <1>5, <1>6 DEF TypeOK
<1>8. Fresh'
  BY <1>1, <1>6 DEF Link, Fresh, IsCommand
<1>9. Broken' /\ (Stray' \/ Talk')
  BY <1>1, <1>3, <1>4, <1>6 DEF Link, Talk, Broken
<1>10. ASSUME ~upset' PROVE Account'
  <2>1. Account /\ ~Stray
    BY <1>1, <1>10 DEF Link, Account, Stray
  <2>2. (Sending' <=> Sending) /\ Pending' = Pending
    <3>1. Sending' <=> Head(toCli) = "OK"
      BY <1>5, <1>4, <2>1 DEF Sending
    <3>2. Sending <=> Head(toCli) = "OK"
      BY <1>1, <1>2, <1>3, <2>1, OneResult DEF Sending
    <3>3. QED
      BY <1>5, <3>1, <3>2 DEF Pending
  <2>3. Arriving' = Arriving
    BY <1>6, <2>2 DEF Arriving
  <2>4. QED
    BY <1>1, <1>5, <1>6, <2>1, <2>2, <2>3 DEF Account
<1>11. QED
  BY <1>6, <1>7, <1>8, <1>9, <1>10 DEF Link

LEMMA SendBlockStep ==
  ASSUME Link, SendBlock
  PROVE  Link'
<1> DEFINE u == [kind |-> "data", id |-> cli.id, nr |-> cli.left]
<1>1. /\ cli.pc = "send" /\ cli.left > 0 /\ toSrv' = Append(toSrv, u)
      /\ cli' = [cli EXCEPT !.left = @ - 1]
      /\ UNCHANGED <<conn, toCli, next, srvVars, upset>>
  BY DEF SendBlock
<1>2. /\ TypeOK /\ toSrv \in Seq(Units)
      /\ cli \in [pc : {"idle", "wait", "send", "gone"}, id : 0 .. MaxCmds, left : 0 .. MaxBlocks]
  BY DEF Link, TypeOK
<1>3. /\ cli'.pc = "send" /\ cli'.id = cli.id /\ cli'.left = cli.left - 1
      /\ cli' \in [pc : {"idle", "wait", "send", "gone"}, id : 0 .. MaxCmds, left : 0 .. MaxBlocks]
  <2>1. cli.left - 1 \in 0 .. MaxBlocks
    BY <1>1, <1>2, ConstantsAssumption
  <2>2. QED
    BY <1>1, <1>2, <2>1
<1>4. u \in Units /\ u.kind = "data"
  BY <1>2 DEF Units, Ids
<1>5. u = [kind |-> "data", id |-> cli.id, nr |-> cli.left]
  OBVIOUS
<1> HIDE DEF u
<1>6. /\ toSrv' \in Seq(Units) /\ DOMAIN toSrv' = DOMAIN toSrv \cup {Len(toSrv) + 1}
      /\ \A i \in DOMAIN toSrv : toSrv'[i] = toSrv[i]
      /\ toSrv'[Len(toSrv) + 1] = u
  BY <1>1, <1>2, <1>4, AppendFacts
<1>7. /\ Storing' /\ InOrder' /\ UploadIntact' /\ Done' = Done /\ Busy' = Busy
      /\ Stray' = Stray /\ UNCHANGED <<srv, executed, lost, stored, complete>>
  BY <1>1, ServerKept
<1>8. TypeOK'
  BY <1>1, <1>2, <1>3, <1>6, <1>7 DEF TypeOK
<1>9. Fresh'
  BY <1>1, <1>2, <1>4, <1>7, FreshSent DEF Link
<1>10. Broken' /\ (Stray' \/ Talk')
  BY <1>1, <1>4, <1>6, <1>7 DEF Link, Talk, Broken
<1>11. ASSUME ~upset' PROVE Account'
  <2>1. Account /\ Sending /\ Sending'
    BY <1>1, <1>3, <1>11 DEF Link, Sending
  <2>2. Pending' = Pending - 1
    BY <1>3, <2>1 DEF Pending
  <2>3. cli.id = srv.id /\ UNCHANGED <<srv, executed, stored>>
    BY <1>1, <1>7, <2>1 DEF Account
  <2>4. QED
    BY <1>1, <1>2, <1>3, <1>4, <1>5, <2>1, <2>2, <2>3, AccountSent
<1>12. QED
  BY <1>7, <1>8, <1>9, <1>10, <1>11 DEF Link

LEMMA SendEndsStep ==
  ASSUME Link, SendEnds
  PROVE  Link'
<1>1. /\ cli.pc = "send" /\ cli.left = 0 /\ cli' = [cli EXCEPT !.pc = "idle"]
      /\ UNCHANGED <<conn, toSrv, toCli, next, srvVars, upset>>
  BY DEF SendEnds
<1>2. /\ TypeOK
      /\ cli \in [pc : {"idle", "wait", "send", "gone"}, id : 0 .. MaxCmds, left : 0 .. MaxBlocks]
  BY DEF Link, TypeOK
<1>3. /\ cli'.pc = "idle"
      /\ cli' \in [pc : {"idle", "wait", "send", "gone"}, id : 0 .. MaxCmds, left : 0 .. MaxBlocks]
  BY <1>1, <1>2
<1>4. /\ Storing' /\ InOrder' /\ UploadIntact' /\ Done' = Done /\ Busy' = Busy
      /\ Stray' = Stray /\ UNCHANGED <<srv, executed, lost, stored, complete>>
  BY <1>1, ServerKept
<1>5. TypeOK'
  BY <1>1, <1>2, <1>3, <1>4 DEF TypeOK
<1>6. Fresh'
  BY <1>1, <1>4 DEF Link, Fresh, IsCommand
<1>7. Broken' /\ (Stray' \/ Talk')
  BY <1>1, <1>4 DEF Link, Talk, Broken
<1>8. ASSUME ~upset' PROVE Account'
  <2>1. Account
    BY <1>1, <1>8 DEF Link
  <2>2. ~Sending' /\ Pending' = Pending
    BY <1>1, <1>3 DEF Sending, Pending
  <2>3. Arriving' = Arriving
    BY <1>4, <2>2 DEF Arriving
  <2>4. QED
    BY <1>1, <1>4, <2>1, <2>2, <2>3 DEF Account
<1>9. QED
  BY <1>4, <1>5, <1>6, <1>7, <1>8 DEF Link

LEMMA DisconnectStep ==
  ASSUME Link, Disconnect
  PROVE  Link'
<1>1. /\ upset' = TRUE /\ conn' \in {"closed", "reset"} /\ toSrv' \in {toSrv, <<>>}
      /\ toCli' = <<>> /\ cli' = [cli EXCEPT !.pc = "gone"] /\ UNCHANGED <<next, srvVars>>
  BY DEF Disconnect
<1>2. /\ TypeOK /\ toSrv \in Seq(Units)
      /\ cli \in [pc : {"idle", "wait", "send", "gone"}, id : 0 .. MaxCmds, left : 0 .. MaxBlocks]
  BY DEF Link, TypeOK
<1>3. cli' \in [pc : {"idle", "wait", "send", "gone"}, id : 0 .. MaxCmds, left : 0 .. MaxBlocks]
  BY <1>1, <1>2
<1>4. /\ Storing' /\ InOrder' /\ UploadIntact' /\ Done' = Done /\ Busy' = Busy
      /\ Stray' = Stray /\ UNCHANGED <<srv, executed, lost, stored, complete>>
  BY <1>1, ServerKept
<1>5. TypeOK'
  <2>1. toSrv' \in Seq(Units) /\ toCli' \in Seq({"OK", "NOK"})
    <3>1. <<>> \in Seq(Units) /\ <<>> \in Seq({"OK", "NOK"})
      OBVIOUS
    <3>2. QED
      BY <1>1, <1>2, <3>1
  <2>2. conn' \in {"up", "closed", "reset"} /\ upset' \in BOOLEAN
    BY <1>1
  <2>3. QED
    BY <1>1, <1>2, <1>3, <1>4, <2>1, <2>2 DEF TypeOK
<1>6. Fresh'
  BY <1>1, <1>4 DEF Link, Fresh, IsCommand
<1>7. Broken' /\ Talk'
  BY <1>1 DEF Talk, Broken
<1>8. QED
  BY <1>1, <1>4, <1>5, <1>6, <1>7 DEF Link

-------------------------------------------------------------------------------
(* The server receives.                                                    *)

\* A recv takes the oldest units; what was executed or lost before is older.
LEMMA ReadFacts ==
  ASSUME Link, NEW k \in 1 .. Len(toSrv), Read(k), UNCHANGED next, NEW e,
         executed' = executed \/ executed' = Append(executed, e),
         e = 0 \/ (IsCommand(1) /\ e = toSrv[1].id)
  PROVE  /\ toSrv' \in Seq(Units) /\ DOMAIN toSrv' = 1 .. Len(toSrv) - k
         /\ Len(toSrv') = Len(toSrv) - k /\ toSrv # <<>>
         /\ \A i \in DOMAIN toSrv' : k + i \in DOMAIN toSrv /\ toSrv'[i] = toSrv[k + i]
         /\ executed' \in Seq(0 .. MaxCmds) /\ lost' \subseteq Ids /\ e \in 0 .. MaxCmds
         /\ Fresh' /\ InOrder' /\ Done \subseteq Done' /\ srv.pc = "recv" /\ (Stray => Stray')
         /\ executed' = Append(executed, e) =>
              e \in Done' /\ executed' # <<>> /\ executed'[Len(executed')] = e
         /\ \A i \in DOMAIN executed' :
              executed'[i] = e \/ (i \in DOMAIN executed /\ executed'[i] = executed[i])
<1>1. /\ srv.pc = "recv" /\ toSrv' = From(toSrv, k)
      /\ lost' = lost \cup Commands(SubSeq(toSrv, 2, k))
  BY DEF Read
<1>2. /\ TypeOK /\ Fresh /\ InOrder /\ toSrv \in Seq(Units) /\ Len(toSrv) \in Nat
      /\ DOMAIN toSrv = 1 .. Len(toSrv) /\ executed \in Seq(0 .. MaxCmds) /\ lost \subseteq Ids
      /\ DOMAIN executed = 1 .. Len(executed) /\ Len(executed) \in Nat /\ Done \subseteq Nat
  BY Shapes DEF Link
<1>3. k \in Nat /\ k >= 1 /\ k <= Len(toSrv) /\ 1 \in DOMAIN toSrv /\ 1 \in 1 .. k
  BY <1>2
<1>4. /\ toSrv' \in Seq(Units) /\ DOMAIN toSrv' = 1 .. Len(toSrv) - k /\ toSrv # <<>>
      /\ Len(toSrv') = Len(toSrv) - k
      /\ \A i \in DOMAIN toSrv' : k + i \in DOMAIN toSrv /\ toSrv'[i] = toSrv[k + i]
  <2>1. /\ toSrv' \in Seq(Units) /\ DOMAIN toSrv' = 1 .. Len(toSrv) - k
        /\ Len(toSrv') = Len(toSrv) - k
        /\ \A i \in 1 .. Len(toSrv) - k : toSrv'[i] = toSrv[k + i]
    BY <1>1, <1>2, FromFacts
  <2>2. \A i \in 1 .. Len(toSrv) - k : k + i \in 1 .. Len(toSrv)
    BY <1>2, <1>3
  <2>3. toSrv # <<>>
    BY <1>3
  <2>4. QED
    BY <1>2, <2>1, <2>2, <2>3
<1>5. ASSUME NEW c \in lost' \ lost
      PROVE  \E i \in 2 .. k : i \in DOMAIN toSrv /\ IsCommand(i) /\ c = toSrv[i].id
  BY <1>1, <1>2, <1>5, Behind DEF IsCommand
<1>6. \A i \in 2 .. k : i \in 1 .. k /\ 1 < i
  BY <1>3
<1>7. lost' \subseteq Ids
  BY <1>2, <1>5 DEF Fresh
<1>8. e \in 0 .. MaxCmds
  <2>1. CASE e = 0
    BY <2>1, ConstantsAssumption
  <2>2. CASE IsCommand(1) /\ e = toSrv[1].id
    <3>1. e \in Ids
      BY <1>2, <1>3, <2>2 DEF Fresh
    <3>2. QED
      BY <3>1, ConstantsAssumption DEF Ids
  <2>3. QED
    BY <2>1, <2>2
<1>9. executed' \in Seq(0 .. MaxCmds)
  <2>1. Append(executed, e) \in Seq(0 .. MaxCmds)
    BY <1>2, <1>8, AppendFacts
  <2>2. QED
    BY <1>2, <2>1
<1>10. /\ \A i \in DOMAIN executed' : (i \in DOMAIN executed /\ executed'[i] = executed[i])
                                        \/ (i = Len(executed) + 1 /\ executed'[i] = e)
       /\ DOMAIN executed \subseteq DOMAIN executed'
       /\ \A i \in DOMAIN executed : executed'[i] = executed[i]
       /\ executed' = Append(executed, e) =>
            Len(executed) + 1 \in DOMAIN executed' /\ executed'[Len(executed) + 1] = e
       /\ DOMAIN executed' = 1 .. Len(executed')
  <2>1. CASE executed' = executed
    <3>1. executed' # Append(executed, e)
      <4>1. Len(Append(executed, e)) = Len(executed) + 1
        BY <1>2, <1>8, AppendFacts
      <4>2. Len(executed) \in Nat
        BY <1>2
      <4>3. QED
        BY <2>1, <4>1, <4>2
    <3>2. QED
      BY <1>2, <2>1, <3>1
  <2>2. CASE executed' = Append(executed, e)
    <3>1. /\ DOMAIN executed' = DOMAIN executed \cup {Len(executed) + 1}
          /\ \A i \in DOMAIN executed : executed'[i] = executed[i]
          /\ executed'[Len(executed) + 1] = e
          /\ Len(executed') = Len(executed) + 1 /\ DOMAIN executed' = 1 .. Len(executed) + 1
      BY <1>2, <1>8, <2>2, AppendFacts
    <3>2. QED
      BY <3>1
  <2>3. QED
    BY <2>1, <2>2
<1>11. Done \subseteq Done' /\ (executed' = Append(executed, e) => e \in Done')
  BY <1>1, <1>10 DEF Done
<1>12. Fresh'
  <2>1. ASSUME NEW d \in Done'
        PROVE  d \in Done \/ d = 0 \/ \E i \in 1 .. k : IsCommand(i) /\ d = toSrv[i].id
    <3>1. CASE d \in lost'
      BY <1>5, <1>6, <3>1 DEF Done
    <3>2. ASSUME NEW i \in DOMAIN executed', d = executed'[i]
          PROVE  d \in Done \/ d = 0 \/ \E j \in 1 .. k : IsCommand(j) /\ d = toSrv[j].id
      BY <1>3, <1>10, <3>2 DEF Done
    <3>3. QED
      BY <3>1, <3>2 DEF Done
  <2>2. QED
    BY <1>1, <1>2, <2>1, FreshTaken
<1>13. InOrder'
  <2>1. ASSUME NEW i \in 1 .. Len(executed'), NEW j \in 1 .. Len(executed'), i < j,
               executed'[i] # 0, executed'[j] # 0
        PROVE  executed'[i] < executed'[j]
    <3>1. i \in DOMAIN executed /\ executed'[i] = executed[i]
      <4>1. i \in Nat /\ j \in Nat /\ Len(executed) \in Nat
        <5>1. Len(executed') \in Nat
          BY <1>9, LenProperties
        <5>2. i \in Nat /\ j \in Nat
          BY <5>1
        <5>3. QED
          BY <1>2, <5>2
      <4>2. j <= Len(executed) + 1
        <5>1. j \in 1 .. Len(executed) \/ j = Len(executed) + 1
          BY <1>2, <1>10
        <5>2. QED
          BY <4>1, <5>1
      <4>3. i # Len(executed) + 1
        BY <2>1, <4>1, <4>2
      <4>4. QED
        BY <1>10, <2>1, <4>3
    <3>2. CASE j \in DOMAIN executed /\ executed'[j] = executed[j]
      BY <1>2, <2>1, <3>1, <3>2 DEF InOrder
    <3>3. CASE executed'[j] = e
      <4>1. executed[i] \in Done /\ IsCommand(1) /\ e = toSrv[1].id
        BY <2>1, <3>1, <3>3 DEF Done
      <4>2. QED
        BY <1>2, <1>3, <3>1, <3>3, <4>1 DEF Fresh
    <3>4. QED
      BY <1>10, <3>2, <3>3
  <2>2. ASSUME NEW i \in 1 .. Len(executed'), executed'[i] \in lost' PROVE FALSE
    <3>1. CASE i \in DOMAIN executed /\ executed'[i] = executed[i]
      <4>1. executed[i] \in Done /\ executed[i] \in Nat
        BY <1>2, <3>1 DEF Done
      <4>2. executed[i] \notin lost
        BY <1>2, <3>1 DEF InOrder
      <4>3. PICK j \in 2 .. k : j \in DOMAIN toSrv /\ IsCommand(j) /\ executed[i] = toSrv[j].id
        BY <1>5, <2>2, <3>1, <4>2
      <4>4. executed[i] < toSrv[j].id
        BY <1>2, <4>1, <4>3 DEF Fresh
      <4>5. QED
        BY <4>1, <4>3, <4>4
    <3>2. CASE executed'[i] = e
      <4>1. 0 \notin Ids
        BY DEF Ids
      <4>2. IsCommand(1) /\ e = toSrv[1].id /\ e \in Ids /\ e \in Nat
        BY <1>7, <1>8, <2>2, <3>2, <4>1
      <4>3. e \notin lost
        <5>1. ASSUME e \in lost PROVE e < e
          BY <1>2, <1>3, <4>2, <5>1 DEF Fresh, Done
        <5>2. QED
          BY <4>2, <5>1
      <4>4. PICK j \in 2 .. k : j \in DOMAIN toSrv /\ IsCommand(j) /\ e = toSrv[j].id
        BY <1>5, <2>2, <3>2, <4>3
      <4>5. toSrv[1].id < toSrv[j].id
        BY <1>2, <1>3, <1>6, <4>2, <4>4 DEF Fresh
      <4>6. QED
        BY <4>2, <4>4, <4>5
    <3>3. QED
      BY <1>10, <3>1, <3>2
  <2>3. QED
    BY <2>1, <2>2 DEF InOrder
<1>14. executed' = Append(executed, e) => executed' # <<>> /\ executed'[Len(executed')] = e
  BY <1>2, <1>8, AppendFacts
<1>15. Stray => Stray'
  BY <1>10 DEF Stray
<1>16. QED
  BY <1>1, <1>4, <1>7, <1>8, <1>9, <1>10, <1>11, <1>12, <1>13, <1>14, <1>15

\* A client that has an answer under way has nothing else; what remains of an upload's recv is
\* still behind everything else.
LEMMA LateUpload ==
  ASSUME Link, Talk, NEW k \in 1 .. Len(toSrv), UNCHANGED <<conn, toCli, cli, upset>>,
         toSrv # <<>>, DOMAIN toSrv' = 1 .. Len(toSrv) - k, Len(toSrv') = Len(toSrv) - k,
         \A i \in DOMAIN toSrv' : k + i \in DOMAIN toSrv /\ toSrv'[i] = toSrv[k + i]
  PROVE  Talk'
<1>1. toCli = <<>> /\ toCli' = <<>>
  BY DEF Talk
<1>2. Len(toSrv) \in Nat /\ k \in Nat
  BY Shapes DEF Link
<1>3. ASSUME conn' = "up", NEW i \in DOMAIN toSrv', toSrv'[i].kind = "upload"
      PROVE  /\ i = Len(toSrv') /\ cli'.pc = "wait" /\ cli'.id = toSrv'[i].id /\ toCli' = <<>>
             /\ ~upset' => toSrv'[i].nr = cli'.left
  <2>1. k + i \in DOMAIN toSrv /\ toSrv'[i] = toSrv[k + i] /\ toSrv[k + i].kind = "upload"
    BY <1>3
  <2>2. /\ k + i = Len(toSrv) /\ cli.pc = "wait" /\ cli.id = toSrv[k + i].id
        /\ ~upset => toSrv[k + i].nr = cli.left
    BY <1>3, <2>1 DEF Talk
  <2>3. i = Len(toSrv')
    <3>1. i \in 1 .. Len(toSrv) - k /\ Len(toSrv') = Len(toSrv) - k /\ k + i = Len(toSrv)
      BY <2>2
    <3>2. QED
      BY <1>2, <3>1
  <2>4. QED
    BY <1>1, <2>1, <2>2, <2>3
<1>4. QED
  BY <1>1, <1>3 DEF Talk

\* Between uploads, and as long as nothing went wrong, only commands are under way.
LEMMA Quiet ==
  ASSUME TypeOK, Storing, Account, ~Busy
  PROVE  /\ Pending = 0 /\ Arriving = 0 /\ \A i \in DOMAIN toSrv : toSrv[i].kind # "data"
         /\ Sending => Len(toSrv) = 0
<1>1. srv.left = 0 /\ cli.left \in Nat /\ Len(toSrv) \in Nat /\ DOMAIN toSrv = 1 .. Len(toSrv)
  BY Shapes DEF Storing
<1>2. Pending \in Nat /\ Arriving = srv.left - Pending
  BY <1>1 DEF Pending, Arriving
<1>3. Arriving \in 0 .. Len(toSrv)
  BY DEF Account
<1>4. Pending = 0 /\ Arriving = 0
  BY <1>1, <1>2, <1>3
<1>5. ASSUME NEW i \in DOMAIN toSrv PROVE toSrv[i].kind # "data"
  <2>1. ~(i <= Arriving)
    BY <1>1, <1>4
  <2>2. QED
    BY <2>1 DEF Account
<1>6. Sending => Len(toSrv) = 0
  BY <1>4 DEF Account
<1>7. QED
  BY <1>4, <1>5, <1>6

LEMMA ReceivePlainStep ==
  ASSUME Link, NEW k \in 1 .. Len(toSrv), ReceivePlain(k)
  PROVE  Link'
<1> DEFINE e == toSrv[1].id
<1>1. /\ Read(k) /\ toSrv[1].kind = "plain" /\ executed' = Append(executed, e)
      /\ UNCHANGED <<conn, toCli, cliVars, srv, stored, complete, upset>>
  BY DEF ReceivePlain
<1>2. UNCHANGED <<next, cli, conn, toCli, srv, stored, complete, upset>>
  BY <1>1 DEF cliVars
<1>3. /\ TypeOK /\ Len(toSrv) \in Nat /\ DOMAIN toSrv = 1 .. Len(toSrv)
  BY Shapes DEF Link
<1>4. 1 \in DOMAIN toSrv /\ IsCommand(1)
  BY <1>1, <1>3 DEF IsCommand
<1> HIDE DEF e
<1>5. e = toSrv[1].id /\ e # 0
  BY <1>4 DEF Link, Fresh, Ids, e
<1>6. /\ toSrv' \in Seq(Units) /\ DOMAIN toSrv' = 1 .. Len(toSrv) - k
      /\ Len(toSrv') = Len(toSrv) - k /\ toSrv # <<>>
      /\ \A i \in DOMAIN toSrv' : k + i \in DOMAIN toSrv /\ toSrv'[i] = toSrv[k + i]
      /\ executed' \in Seq(0 .. MaxCmds) /\ lost' \subseteq Ids
      /\ Fresh' /\ InOrder' /\ Done \subseteq Done' /\ srv.pc = "recv"
      /\ (Stray => Stray')
      /\ \A i \in DOMAIN executed' :
           executed'[i] = e \/ (i \in DOMAIN executed /\ executed'[i] = executed[i])
  BY <1>1, <1>2, <1>4, <1>5, ReadFacts
<1>7. TypeOK'
  BY <1>2, <1>3, <1>6 DEF TypeOK
<1>8. Storing'
  BY <1>2, <1>6 DEF Link, Storing, Busy
<1>9. Broken' /\ (Stray' \/ Talk')
  <2>1. Broken'
    BY <1>2 DEF Link, Broken
  <2>2. ASSUME Talk PROVE Talk'
    BY <1>2, <1>3, <1>6, <2>2, LateUpload
  <2>3. QED
    BY <1>6, <2>1, <2>2 DEF Link
<1>10. ASSUME ~upset' PROVE Account'
  <2>1. /\ Arriving = 0 /\ Pending = 0 /\ Len(toSrv) # 0 /\ ~Busy /\ Account
        /\ \A i \in DOMAIN toSrv : toSrv[i].kind # "data"
        /\ (Sending => Len(toSrv) = 0)
    BY <1>2, <1>3, <1>4, <1>6, <1>10, Quiet DEF Link, Busy
  <2>2. ~Sending' /\ Arriving' = 0 /\ ~Busy'
    BY <1>2, <2>1 DEF Sending, Pending, Arriving, Busy
  <2>3. \A i \in DOMAIN executed' : executed'[i] # 0
    BY <1>5, <1>6, <2>1 DEF Account
  <2>4. 0 \in 0 .. Len(toSrv') /\ \A i \in DOMAIN toSrv' : ~(i <= 0)
    BY <1>3, <1>6
  <2>5. QED
    BY <1>6, <2>1, <2>2, <2>3, <2>4 DEF Account
<1>11. UploadIntact'
  BY <1>2 DEF Link, UploadIntact, Sent
<1>12. QED
  BY <1>6, <1>7, <1>8, <1>9, <1>10, <1>11 DEF Link

\* File data at the parser: nothing was promised any more.
LEMMA ReceiveDataStep ==
  ASSUME Link, NEW k \in 1 .. Len(toSrv), ReceiveData(k)
  PROVE  Link'
<1>1. /\ Read(k) /\ toSrv[1].kind = "data"
      /\ \/ UNCHANGED <<executed, toCli, srv>>
         \/ executed' = Append(executed, 0) /\ UNCHANGED <<toCli, srv>>
         \/ \E size \in 0 .. MaxBlocks : Begin(0, size)
      /\ UNCHANGED <<conn, cliVars, stored, complete, upset>>
  BY DEF ReceiveData
<1>2. UNCHANGED <<next, cli, conn, stored, complete, upset>>
  BY <1>1 DEF cliVars
<1>3. /\ TypeOK /\ Len(toSrv) \in Nat /\ DOMAIN toSrv = 1 .. Len(toSrv)
  BY Shapes DEF Link
<1>4. 1 \in DOMAIN toSrv
  BY <1>3
<1>5. executed' = executed \/ executed' = Append(executed, 0)
  BY <1>1 DEF Begin
<1>6. /\ toSrv' \in Seq(Units) /\ DOMAIN toSrv' = 1 .. Len(toSrv) - k
      /\ Len(toSrv') = Len(toSrv) - k /\ toSrv # <<>>
      /\ \A i \in DOMAIN toSrv' : k + i \in DOMAIN toSrv /\ toSrv'[i] = toSrv[k + i]
      /\ executed' \in Seq(0 .. MaxCmds) /\ lost' \subseteq Ids
      /\ Fresh' /\ InOrder' /\ Done \subseteq Done' /\ srv.pc = "recv" /\ (Stray => Stray')
  BY <1>1, <1>2, <1>5, ReadFacts
<1>7. executed' = Append(executed, 0) => Stray'
  <2>1. executed \in Seq(0 .. MaxCmds) /\ 0 \in 0 .. MaxCmds
    BY <1>3, ConstantsAssumption DEF TypeOK
  <2>2. /\ Len(executed) + 1 \in DOMAIN Append(executed, 0)
        /\ Append(executed, 0)[Len(executed) + 1] = 0
    BY <2>1, AppendFacts
  <2>3. QED
    BY <2>2 DEF Stray
<1>8. upset
  <2>1. ~Busy /\ Storing
    BY <1>6 DEF Busy, Link
  <2>2. ~Account
    BY <1>1, <1>3, <1>4, <2>1, Quiet
  <2>3. QED
    BY <2>2 DEF Link
<1>9. UploadIntact' /\ upset'
  BY <1>2, <1>8 DEF UploadIntact
<1>10. CASE UNCHANGED <<toCli, srv>>
  <2>1. TypeOK'
    BY <1>2, <1>3, <1>6, <1>10 DEF TypeOK
  <2>2. Storing'
    BY <1>2, <1>6, <1>10 DEF Link, Storing, Busy
  <2>3. Broken'
    BY <1>2, <1>10 DEF Link, Broken
  <2>4. ASSUME Talk PROVE Talk'
    BY <1>2, <1>3, <1>6, <1>10, <2>4, LateUpload
  <2>5. QED
    BY <1>6, <1>9, <2>1, <2>2, <2>3, <2>4 DEF Link
<1>11. ASSUME NEW size \in 0 .. MaxBlocks, Begin(0, size) PROVE Link'
  <2> DEFINE taken == [pc |-> "alloc", id |-> 0, left |-> size]
  <2>1. /\ executed' = Append(executed, 0) /\ srv' \in {taken, srv}
        /\ toCli' \in {toCli, Append(toCli, "OK"), Append(toCli, "NOK")}
        /\ conn # "up" => toCli' = toCli
    BY <1>11 DEF Begin, Reply, Upload
  <2>2. /\ taken.pc = "alloc" /\ taken.id = 0
        /\ taken \in [pc : {"recv", "alloc", "file", "spin", "end"}, id : 0 .. MaxCmds,
                      left : 0 .. MaxBlocks]
    BY ConstantsAssumption
  <2> HIDE DEF taken
  <2>3. toCli' \in Seq({"OK", "NOK"})
    <3>1. toCli \in Seq({"OK", "NOK"})
      BY <1>3 DEF TypeOK
    <3>2. QED
      BY <2>1, <3>1, AppendFacts
  <2>4. srv' \in [pc : {"recv", "alloc", "file", "spin", "end"}, id : 0 .. MaxCmds,
                  left : 0 .. MaxBlocks]
    BY <1>3, <2>1, <2>2 DEF TypeOK
  <2>5. TypeOK'
    BY <1>2, <1>3, <1>6, <2>3, <2>4 DEF TypeOK
  <2>6. Storing'
    <3>1. /\ \A id \in Ids \ Done' : stored'[id] = <<>> /\ complete'[id] = -1
          /\ ~Busy /\ srv.id = 0 /\ srv.left = 0
      BY <1>2, <1>6 DEF Link, Storing, Busy
    <3>2. srv'.id = 0 /\ (~Busy' => srv'.left = 0)
      BY <2>1, <2>2, <3>1 DEF Busy
    <3>3. QED
      BY <1>9, <3>1, <3>2 DEF Storing
  <2>7. Broken' /\ Stray'
    BY <1>2, <1>7, <2>1 DEF Link, Broken
  <2>8. QED
    BY <1>6, <1>9, <2>5, <2>6, <2>7 DEF Link
<1>12. QED
  BY <1>1, <1>10, <1>11

\* put, load or reload begins: the client, still connected, waits for this very answer.
LEMMA ReceiveUploadStep ==
  ASSUME Link, NEW k \in 1 .. Len(toSrv), ReceiveUpload(k)
  PROVE  Link'
<1> DEFINE e == toSrv[1].id
           taken == [pc |-> "alloc", id |-> e, left |-> toSrv[1].nr]
<1>1. /\ Read(k) /\ toSrv[1].kind = "upload" /\ executed' = Append(executed, e)
      /\ UNCHANGED <<conn, cliVars, stored, complete, upset>>
      /\ \/ /\ toCli' = IF conn = "up" THEN Append(toCli, "OK") ELSE toCli
            /\ srv' = taken
         \/ /\ toCli' = IF conn = "up" THEN Append(toCli, "NOK") ELSE toCli
            /\ srv' = srv
  BY DEF ReceiveUpload, Begin, Reply, Upload
<1>2. UNCHANGED <<next, cli, conn, stored, complete, upset>>
  BY <1>1 DEF cliVars
<1>3. /\ TypeOK /\ Len(toSrv) \in Nat /\ DOMAIN toSrv = 1 .. Len(toSrv)
  BY Shapes DEF Link
<1>4. 1 \in DOMAIN toSrv /\ IsCommand(1)
  BY <1>1, <1>3 DEF IsCommand
<1>5. /\ e \in Ids /\ e # 0 /\ e \in 0 .. MaxCmds /\ e \notin Done
      /\ toSrv[1].nr \in 0 .. MaxBlocks /\ e \in Nat
  <2>1. e \in Ids /\ \A d \in Done : d < e
    BY <1>4 DEF Link, Fresh
  <2>2. e \in Nat
    BY <1>4, Shapes DEF Link
  <2>3. e \notin Done
    <3>1. ~(e < e)
      BY <2>2
    <3>2. QED
      BY <2>1, <3>1
  <2>4. e \in 0 .. MaxCmds /\ e # 0
    BY <2>1, ConstantsAssumption DEF Ids
  <2>5. QED
    BY <1>3, <1>4, <2>1, <2>2, <2>3, <2>4, Shapes
<1>6. /\ taken.pc = "alloc" /\ taken.id = e /\ taken.left = toSrv[1].nr
      /\ taken \in [pc : {"recv", "alloc", "file", "spin", "end"}, id : 0 .. MaxCmds,
                    left : 0 .. MaxBlocks]
  BY <1>5
<1> HIDE DEF taken
<1>7. e = toSrv[1].id
  OBVIOUS
<1> HIDE DEF e
<1>8. /\ toSrv' \in Seq(Units) /\ DOMAIN toSrv' = 1 .. Len(toSrv) - k
      /\ Len(toSrv') = Len(toSrv) - k /\ toSrv # <<>>
      /\ \A i \in DOMAIN toSrv' : k + i \in DOMAIN toSrv /\ toSrv'[i] = toSrv[k + i]
      /\ executed' \in Seq(0 .. MaxCmds) /\ lost' \subseteq Ids
      /\ Fresh' /\ InOrder' /\ Done \subseteq Done' /\ srv.pc = "recv"
      /\ (Stray => Stray')
      /\ e \in Done' /\ executed' # <<>> /\ executed'[Len(executed')] = e
      /\ \A i \in DOMAIN executed' :
           executed'[i] = e \/ (i \in DOMAIN executed /\ executed'[i] = executed[i])
  BY <1>1, <1>2, <1>4, <1>7, ReadFacts
<1>9. /\ ~Stray => Talk /\ toCli = <<>>
      /\ conn # "up" => upset /\ toCli' = <<>>
  BY <1>1, <1>8 DEF Link, Talk, Broken
<1>10. /\ toCli' \in {toCli, Append(toCli, "OK"), Append(toCli, "NOK")} /\ srv' \in {taken, srv}
       /\ ~Stray /\ conn = "up" => \/ toCli' = <<"OK">> /\ srv' = taken
                                   \/ toCli' = <<"NOK">> /\ srv' = srv
  <2>1. Append(<<>>, "OK") = <<"OK">> /\ Append(<<>>, "NOK") = <<"NOK">>
    OBVIOUS
  <2>2. CASE conn = "up"
    <3>1. \/ toCli' = Append(toCli, "OK") /\ srv' = taken
          \/ toCli' = Append(toCli, "NOK") /\ srv' = srv
      BY <1>1, <2>2
    <3>2. ~Stray => toCli = <<>>
      BY <1>9
    <3>3. QED
      BY <2>1, <3>1, <3>2, Zenon
  <2>3. CASE conn # "up"
    <3>1. toCli' = toCli /\ srv' \in {taken, srv}
      BY <1>1, <2>3
    <3>2. QED
      BY <2>3, <3>1
  <2>4. QED
    BY <2>2, <2>3
<1>11. ~Stray /\ conn = "up" => /\ cli.pc = "wait" /\ cli.id = e /\ Len(toSrv) = 1 /\ toSrv' = <<>>
                      /\ (~upset => toSrv[1].nr = cli.left)
  <2>1. ASSUME ~Stray, conn = "up"
        PROVE  /\ cli.pc = "wait" /\ cli.id = e /\ Len(toSrv) = 1 /\ toSrv' = <<>>
               /\ (~upset => toSrv[1].nr = cli.left)
    <3>1. /\ 1 = Len(toSrv) /\ cli.pc = "wait" /\ cli.id = toSrv[1].id
          /\ ~upset => toSrv[1].nr = cli.left
      BY <1>1, <1>4, <1>9, <2>1 DEF Talk
    <3>2. toSrv' = <<>>
      <4>1. Len(toSrv') = 0
        <5>1. Len(toSrv') = Len(toSrv) - k /\ Len(toSrv) = 1 /\ k \in 1 .. Len(toSrv)
          BY <1>8, <3>1
        <5>2. QED
          BY <5>1
      <4>2. QED
        BY <1>8, <4>1, EmptySeq
    <3>3. QED
      BY <1>7, <3>1, <3>2
  <2>2. QED
    BY <2>1
<1>12. TypeOK'
  <2>1. toCli' \in Seq({"OK", "NOK"})
    <3>1. toCli \in Seq({"OK", "NOK"})
      BY <1>3 DEF TypeOK
    <3>2. QED
      BY <1>10, <3>1, AppendFacts
  <2>2. srv' \in [pc : {"recv", "alloc", "file", "spin", "end"}, id : 0 .. MaxCmds,
                  left : 0 .. MaxBlocks]
    BY <1>3, <1>6, <1>10 DEF TypeOK
  <2>3. QED
    BY <1>2, <1>3, <1>8, <2>1, <2>2 DEF TypeOK
<1>13. Storing'
  <2>1. stored[e] = <<>> /\ complete[e] = -1
    BY <1>5 DEF Link, Storing
  <2>5. ~Busy /\ srv.id = 0 /\ srv.left = 0
    BY <1>8 DEF Link, Storing, Busy
  <2>2. CASE srv' = taken
    <3>1. Len(stored[e]) + taken.left <= MaxBlocks
      <4>1. Len(<<>>) = 0
        OBVIOUS
      <4>2. taken.left \in 0 .. MaxBlocks
        BY <1>5, <1>6
      <4>3. Len(<<>>) + taken.left <= MaxBlocks
        BY <4>1, <4>2, ConstantsAssumption
      <4>4. QED
        BY <2>1, <4>3
    <3>2. QED
      BY <1>2, <1>5, <1>6, <1>8, <2>1, <2>2, <3>1 DEF Link, Storing, Busy
  <2>3. CASE srv' = srv
    BY <1>2, <1>8, <2>3, <2>5 DEF Link, Storing, Busy
  <2>4. QED
    BY <1>10, <2>2, <2>3
<1>14. Broken' /\ (Stray' \/ Talk')
  <2>1. ASSUME ~Stray, conn = "up" PROVE Talk'
    <3>1. toSrv' = <<>> /\ cli'.pc = "wait" /\ cli'.id = e /\ DOMAIN toSrv' = {}
      BY <1>2, <1>11, <2>1
    <3>2. Len(toCli') = 1
      BY <1>10, <2>1
    <3>3. QED
      BY <1>2, <1>8, <2>1, <3>1, <3>2 DEF Talk
  <2>2. ASSUME conn # "up" PROVE Talk'
    BY <1>2, <1>9, <2>2 DEF Talk
  <2>3. Broken'
    BY <1>2, <1>9 DEF Link, Broken
  <2>4. QED
    BY <1>8, <2>1, <2>2, <2>3
<1>15. ASSUME ~upset' PROVE Account'
  <2>6. conn = "up" /\ Account /\ ~Stray
    BY <1>2, <1>9, <1>15 DEF Link, Account, Stray
  <2>1. conn = "up" /\ Account /\ toSrv' = <<>> /\ DOMAIN toSrv' = {} /\ Len(toSrv') = 0
    BY <1>11, <2>6
  <2>2. \A i \in DOMAIN executed' : executed'[i] # 0
    BY <1>5, <1>8, <2>1 DEF Account
  <2>3. CASE toCli' = <<"OK">> /\ srv' = taken
    <3>1. cli'.pc = "wait" /\ cli' = cli /\ cli.id = e /\ toSrv[1].nr = cli.left
      BY <1>2, <1>11, <1>15, <2>1, <2>6
    <3>2. Sending' /\ Pending' = cli.left
      BY <2>3, <3>1 DEF Sending, Pending
    <3>3. srv'.left = cli.left /\ srv'.id = e /\ cli.left \in Nat
      BY <1>3, <1>6, <2>3, <3>1, Shapes
    <3>4. Arriving' = 0
      BY <3>2, <3>3 DEF Arriving
    <3>5. stored'[srv'.id] = <<>>
      BY <1>2, <1>5, <3>3 DEF Link, Storing
    <3>6. 1 .. Len(stored'[srv'.id]) = {} /\ 0 \in 0 .. Len(toSrv')
      BY <2>1, <3>5
    <3>7. QED
      BY <1>2, <2>1, <2>2, <3>1, <3>2, <3>3, <3>4, <3>6 DEF Account
  <2>4. CASE toCli' = <<"NOK">> /\ srv' = srv
    <3>1. cli'.pc = "wait" /\ <<"NOK">> # <<"OK">>
      BY <1>2, <1>11, <2>6
    <3>2. ~Sending' /\ Pending' = 0
      BY <2>4, <3>1 DEF Sending, Pending
    <3>3. ~Busy' /\ srv'.left = 0
      BY <1>8, <2>4 DEF Busy, Link, Storing
    <3>4. Arriving' = 0 /\ 0 \in 0 .. Len(toSrv')
      BY <2>1, <3>2, <3>3 DEF Arriving
    <3>5. QED
      BY <2>1, <2>2, <3>2, <3>3, <3>4 DEF Account
  <2>5. QED
    BY <1>10, <2>3, <2>4, <2>6
<1>16. UploadIntact'
  BY <1>2 DEF Link, UploadIntact, Sent
<1>17. QED
  BY <1>8, <1>12, <1>13, <1>14, <1>15, <1>16 DEF Link

LEMMA ReceiveFailsStep ==
  ASSUME Link, ReceiveFails
  PROVE  Link'
<1>1. /\ srv.pc = "recv" /\ conn # "up" /\ srv' = [srv EXCEPT !.pc = "end"]
      /\ UNCHANGED <<conn, toSrv, toCli, cliVars, executed, lost, stored, complete, upset>>
  BY DEF ReceiveFails
<1>2. UNCHANGED <<conn, toSrv, toCli, cli, next, executed, lost, stored, complete, upset>>
  BY <1>1 DEF cliVars
<1>3. srv \in [pc : {"recv", "alloc", "file", "spin", "end"}, id : 0 .. MaxCmds,
               left : 0 .. MaxBlocks]
  BY DEF Link, TypeOK
<1>4. /\ srv' \in [pc : {"recv", "alloc", "file", "spin", "end"}, id : 0 .. MaxCmds,
                   left : 0 .. MaxBlocks]
      /\ srv'.pc = "end" /\ srv'.id = srv.id /\ srv'.left = srv.left
  BY <1>1, <1>3
<1>5. TypeOK'
  BY <1>2, <1>4 DEF Link, TypeOK
<1>6. Done' = Done /\ ~Busy /\ ~Busy' /\ Stray' = Stray
  BY <1>1, <1>2, <1>4 DEF Done, Busy, Stray
<1>7. Fresh' /\ Storing'
  <2>1. Fresh'
    BY <1>2, <1>6 DEF Link, Fresh, IsCommand
  <2>2. Storing'
    BY <1>2, <1>4, <1>6 DEF Link, Storing
  <2>3. QED
    BY <2>1, <2>2
<1>8. Broken' /\ (Stray' \/ Talk') /\ upset'
  BY <1>1, <1>2, <1>6 DEF Link, Talk, Broken
<1>9. InOrder' /\ UploadIntact'
  BY <1>2, <1>8 DEF Link, InOrder, UploadIntact
<1>10. QED
  BY <1>5, <1>7, <1>8, <1>9 DEF Link

-------------------------------------------------------------------------------
(* The server stores a file.                                               *)

LEMMA AllocStep ==
  ASSUME Link, Alloc
  PROVE  Link'
<1> DEFINE idle == [pc |-> "recv", id |-> 0, left |-> 0]
<1>1. /\ srv.pc = "alloc"
      /\ \/ srv' = [srv EXCEPT !.pc = "file"] /\ upset' = upset
         \/ srv' = idle /\ upset' = TRUE
      /\ UNCHANGED <<conn, toSrv, toCli, cliVars, executed, lost, stored, complete>>
  BY DEF Alloc
<1>2. UNCHANGED <<conn, toSrv, toCli, cli, next, executed, lost, stored, complete>>
  BY <1>1 DEF cliVars
<1>3. /\ srv \in [pc : {"recv", "alloc", "file", "spin", "end"}, id : 0 .. MaxCmds,
                  left : 0 .. MaxBlocks]
      /\ upset \in BOOLEAN
  BY DEF Link, TypeOK
<1>4. /\ idle \in [pc : {"recv", "alloc", "file", "spin", "end"}, id : 0 .. MaxCmds,
                   left : 0 .. MaxBlocks]
      /\ idle.pc = "recv" /\ idle.id = 0 /\ idle.left = 0
  BY ConstantsAssumption
<1> HIDE DEF idle
<1>5. Done' = Done /\ Busy /\ Stray' = Stray
  BY <1>1, <1>2 DEF Done, Busy, Stray
<1>6. (upset => upset') /\ upset' \in BOOLEAN
  BY <1>1, <1>3
<1>7. Fresh'
  BY <1>2, <1>5 DEF Link, Fresh, IsCommand
<1>8. Broken' /\ (Stray' \/ Talk')
  BY <1>2, <1>5, <1>6 DEF Link, Talk, Broken
<1>9. InOrder' /\ UploadIntact'
  <2>1. InOrder'
    BY <1>2 DEF Link, InOrder
  <2>2. UploadIntact'
    BY <1>2, <1>6 DEF Link, UploadIntact, Sent
  <2>3. QED
    BY <2>1, <2>2
<1>10. CASE srv' = [srv EXCEPT !.pc = "file"] /\ upset' = upset
  <2>1. /\ srv' \in [pc : {"recv", "alloc", "file", "spin", "end"}, id : 0 .. MaxCmds,
                     left : 0 .. MaxBlocks]
        /\ srv'.pc = "file" /\ srv'.id = srv.id /\ srv'.left = srv.left
    BY <1>3, <1>10
  <2>2. TypeOK'
    BY <1>2, <1>6, <2>1 DEF Link, TypeOK
  <2>3. Busy'
    BY <2>1 DEF Busy
  <2>4. Storing'
    BY <1>2, <1>5, <1>6, <2>1, <2>3 DEF Link, Storing
  <2>5. ASSUME ~upset' PROVE Account'
    <3>1. Account
      BY <1>10, <2>5 DEF Link
    <3>2. (Sending' <=> Sending) /\ Pending' = Pending
      BY <1>2 DEF Sending, Pending
    <3>3. Arriving' = Arriving
      BY <2>1, <3>2 DEF Arriving
    <3>4. QED
      BY <1>2, <1>5, <2>1, <3>1, <3>2, <3>3 DEF Account
  <2>6. QED
    BY <1>7, <1>8, <1>9, <2>2, <2>4, <2>5 DEF Link
<1>11. CASE srv' = idle /\ upset' = TRUE
  <2>1. TypeOK'
    BY <1>2, <1>4, <1>6, <1>11 DEF Link, TypeOK
  <2>2. ~Busy' /\ srv'.id = 0 /\ srv'.left = 0
    BY <1>4, <1>11 DEF Busy
  <2>3. Storing'
    BY <1>2, <1>5, <2>2 DEF Link, Storing
  <2>4. QED
    BY <1>7, <1>8, <1>9, <1>11, <2>1, <2>3 DEF Link
<1>12. QED
  BY <1>1, <1>10, <1>11

\* One more block in the file, one less to come.
LEMMA StoreFacts ==
  ASSUME Link, srv.pc = "file", srv.left > 0, NEW u \in Units, Store(u),
         UNCHANGED <<executed, complete, upset>>
  PROVE  /\ srv'.pc = "file" /\ srv'.id = srv.id /\ srv'.left = srv.left - 1
         /\ srv' \in [pc : {"recv", "alloc", "file", "spin", "end"}, id : 0 .. MaxCmds,
                      left : 0 .. MaxBlocks]
         /\ stored' \in [Ids -> Seq(Units)]
         /\ srv.id # 0 =>
              /\ srv.id \in Ids /\ stored[srv.id] \in Seq(Units)
              /\ stored'[srv.id] = Append(stored[srv.id], u)
              /\ Len(stored[srv.id]) \in Nat /\ Len(stored'[srv.id]) = Len(stored[srv.id]) + 1
         /\ \A id \in Ids : id # srv.id => stored'[id] = stored[id]
         /\ Done \subseteq Done' /\ (lost' \subseteq Ids => Storing')
         /\ lost' = lost \cup (IF u.kind = "data" THEN {} ELSE {u.id})
<1>1. /\ srv' = [srv EXCEPT !.left = @ - 1] /\ lost' = lost \cup Commands(<<u>>)
      /\ stored' = [id \in Ids |-> IF id = srv.id THEN Append(stored[id], u) ELSE stored[id]]
  BY DEF Store
<1>2. /\ srv \in [pc : {"recv", "alloc", "file", "spin", "end"}, id : 0 .. MaxCmds,
                  left : 0 .. MaxBlocks]
      /\ stored \in [Ids -> Seq(Units)]
  BY DEF Link, TypeOK
<1>3. srv.left - 1 \in 0 .. MaxBlocks /\ srv.left \in Nat
  BY <1>2, ConstantsAssumption
<1>4. /\ srv'.pc = "file" /\ srv'.id = srv.id /\ srv'.left = srv.left - 1
      /\ srv' \in [pc : {"recv", "alloc", "file", "spin", "end"}, id : 0 .. MaxCmds,
                   left : 0 .. MaxBlocks]
  BY <1>1, <1>2, <1>3
<1>5. Busy /\ Busy'
  BY <1>4 DEF Busy
<1>6. /\ stored' \in [Ids -> Seq(Units)]
      /\ \A id \in Ids : id # srv.id => stored'[id] = stored[id]
  <2>1. ASSUME NEW id \in Ids PROVE Append(stored[id], u) \in Seq(Units)
    <3>1. stored[id] \in Seq(Units)
      BY <1>2
    <3>2. QED
      BY <3>1, AppendFacts
  <2>2. QED
    BY <1>1, <1>2, <2>1
<1>7. ASSUME srv.id # 0
      PROVE  /\ srv.id \in Ids /\ stored[srv.id] \in Seq(Units) /\ srv.id \in Done
             /\ stored'[srv.id] = Append(stored[srv.id], u) /\ complete[srv.id] = -1
             /\ Len(stored[srv.id]) \in Nat /\ Len(stored'[srv.id]) = Len(stored[srv.id]) + 1
             /\ Len(stored'[srv.id]) + (srv.left - 1) <= MaxBlocks
  <2>1. /\ srv.id \in Ids /\ srv.id \in Done /\ complete[srv.id] = -1
        /\ Len(stored[srv.id]) + srv.left <= MaxBlocks
    BY <1>5, <1>7 DEF Link, Storing
  <2>2. stored[srv.id] \in Seq(Units) /\ stored'[srv.id] = Append(stored[srv.id], u)
    BY <1>1, <1>2, <2>1
  <2>3. Len(stored[srv.id]) \in Nat /\ Len(stored'[srv.id]) = Len(stored[srv.id]) + 1
    BY <2>2, AppendFacts
  <2>4. Len(stored'[srv.id]) + (srv.left - 1) <= MaxBlocks
    BY <1>3, <2>1, <2>3, ConstantsAssumption
  <2>5. QED
    BY <2>1, <2>2, <2>3, <2>4
<1>8. Commands(<<u>>) = IF u.kind = "data" THEN {} ELSE {u.id}
  <2>1. DOMAIN <<u>> = {1} /\ <<u>>[1] = u
    OBVIOUS
  <2>2. QED
    BY <2>1 DEF Commands
<1>9. Done \subseteq Done'
  BY <1>1 DEF Done
<1>10. Storing'
  <2>1. \A id \in Ids \ Done' : stored'[id] = <<>> /\ complete'[id] = -1
    <3>1. ASSUME NEW id \in Ids, id \notin Done' PROVE id # srv.id /\ id \notin Done
      BY <1>7, <1>9, <3>1 DEF Ids
    <3>2. QED
      BY <1>6, <3>1 DEF Link, Storing
  <2>2. srv'.id = 0 => upset'
    BY <1>4, <1>5 DEF Link, Storing
  <2>3. srv'.id # 0 =>
          /\ srv'.id \in Ids /\ srv'.id \in Done' /\ complete'[srv'.id] = -1
          /\ Len(stored'[srv'.id]) + srv'.left <= MaxBlocks
    BY <1>4, <1>7, <1>9
  <2>4. QED
    BY <1>5, <2>1, <2>2, <2>3 DEF Storing
<1>11. QED
  BY <1>1, <1>4, <1>6, <1>7, <1>8, <1>10, <1>9

\* As long as nothing went wrong, what the server takes is the block it waits for.
LEMMA AccountStored ==
  ASSUME Link, ~upset, srv.pc = "file", srv.left > 0, toSrv # <<>>, Store(toSrv[1]),
         toSrv' = From(toSrv, 1), UNCHANGED <<cli, toCli, executed, complete, upset>>
  PROVE  Account'
<1>0. Account /\ srv.id # 0
  BY DEF Link, Storing, Busy
<1>1. /\ TypeOK /\ toSrv \in Seq(Units) /\ Len(toSrv) \in Nat /\ DOMAIN toSrv = 1 .. Len(toSrv)
      /\ srv.left \in Nat /\ cli.left \in Nat /\ \A i \in DOMAIN toSrv : toSrv[i] \in Units
  BY Shapes DEF Link
<1>2. Len(toSrv) >= 1 /\ 1 \in DOMAIN toSrv /\ 1 \in 1 .. Len(toSrv)
  <2>1. Len(toSrv) # 0
    BY <1>1, EmptySeq
  <2>2. QED
    BY <1>1, <2>1
<1>3. /\ DOMAIN toSrv' = 1 .. Len(toSrv) - 1 /\ Len(toSrv') = Len(toSrv) - 1
      /\ \A i \in 1 .. Len(toSrv) - 1 : toSrv'[i] = toSrv[1 + i]
  <2>1. /\ DOMAIN From(toSrv, 1) = 1 .. Len(toSrv) - 1 /\ Len(From(toSrv, 1)) = Len(toSrv) - 1
        /\ \A i \in 1 .. Len(toSrv) - 1 : From(toSrv, 1)[i] = toSrv[1 + i]
    <3>1. toSrv \in Seq(Units) /\ 1 \in 1 .. Len(toSrv)
      BY <1>1, <1>2
    <3>2. QED
      BY <3>1, FromFacts
  <2>2. QED
    BY <2>1
<1>4. /\ srv'.pc = "file" /\ srv'.id = srv.id /\ srv'.left = srv.left - 1
      /\ stored[srv.id] \in Seq(Units) /\ stored'[srv.id] = Append(stored[srv.id], toSrv[1])
      /\ Len(stored[srv.id]) \in Nat /\ Len(stored'[srv.id]) = Len(stored[srv.id]) + 1
  BY <1>0, <1>1, <1>2, StoreFacts
<1>5. (Sending' <=> Sending) /\ Pending' = Pending /\ Pending \in Nat
  BY <1>1 DEF Sending, Pending
<1>6. Arriving = srv.left - Pending /\ Arriving' = Arriving - 1 /\ Arriving \in 1 .. Len(toSrv)
  <2>1. Arriving = srv.left - Pending /\ Arriving' = srv'.left - Pending
    BY <1>5 DEF Arriving
  <2>2. Arriving' = Arriving - 1
    BY <1>1, <1>4, <1>5, <2>1
  <2>3. Arriving \in 0 .. Len(toSrv) /\ (Sending => Len(toSrv) = Arriving)
    BY <1>0 DEF Account
  <2>4. ~Sending => Arriving = srv.left
    <3>1. ~Sending => Pending = 0
      BY DEF Pending
    <3>2. QED
      BY <1>1, <2>1, <3>1
  <2>5. Arriving # 0
    <3>1. CASE Sending
      <4>1. Len(toSrv) = Arriving /\ Len(toSrv) >= 1
        BY <1>2, <2>3, <3>1
      <4>2. QED
        BY <4>1
    <3>2. CASE ~Sending
      <4>1. Arriving = srv.left
        BY <2>4, <3>2
      <4>2. QED
        BY <4>1
    <3>3. QED
      BY <3>1, <3>2
  <2>6. QED
    BY <1>1, <2>1, <2>2, <2>3, <2>5
<1>7. toSrv[1] = [kind |-> "data", id |-> srv.id, nr |-> srv.left]
  <2>1. 1 <= Arriving /\ srv.left + 1 - 1 = srv.left
    BY <1>1, <1>6
  <2>2. toSrv[1] = [kind |-> "data", id |-> srv.id, nr |-> srv.left + 1 - 1]
    BY <1>0, <1>2, <2>1 DEF Account
  <2>3. QED
    BY <2>1, <2>2
<1>8. Arriving' \in 0 .. Len(toSrv') /\ (Sending' => Len(toSrv') = Arriving')
  <2>1. Sending => Len(toSrv) = Arriving
    BY <1>0 DEF Account
  <2>2. QED
    BY <1>1, <1>3, <1>5, <1>6, <2>1
<1>9. Sending' => cli'.id = srv'.id \/ cli'.left = 0
  BY <1>0, <1>4, <1>5 DEF Account
<1>10. ASSUME NEW i \in DOMAIN toSrv'
       PROVE  IF i <= Arriving'
              THEN toSrv'[i] = [kind |-> "data", id |-> srv'.id, nr |-> srv'.left + 1 - i]
              ELSE toSrv'[i].kind # "data"
  <2>1. /\ i \in 1 .. Len(toSrv) - 1 /\ 1 + i \in DOMAIN toSrv /\ toSrv'[i] = toSrv[1 + i]
        /\ i \in Nat
    BY <1>1, <1>3
  <2>2. i <= Arriving' <=> 1 + i <= Arriving
    <3>1. Arriving \in Nat /\ Arriving' = Arriving - 1 /\ i \in Nat
      BY <1>1, <1>6, <2>1
    <3>2. QED
      BY <3>1
  <2>3. srv'.left + 1 - i = srv.left + 1 - (1 + i)
    <3>1. srv.left \in Nat /\ srv'.left = srv.left - 1 /\ i \in Nat
      BY <1>1, <1>4, <2>1
    <3>2. QED
      BY <3>1
  <2>4. QED
    BY <1>0, <1>4, <2>1, <2>2, <2>3 DEF Account
<1>11. ASSUME NEW i \in 1 .. Len(stored'[srv.id])
       PROVE  stored'[srv.id][i] =
                [kind |-> "data", id |-> srv.id, nr |-> Len(stored'[srv.id]) + srv'.left + 1 - i]
  <2> DEFINE n == Len(stored[srv.id])
  <2>1. n \in Nat /\ i \in 1 .. n + 1 /\ Len(stored'[srv.id]) = n + 1
    BY <1>4
  <2>2. Len(stored'[srv.id]) + srv'.left + 1 - i = n + srv.left + 1 - i
    <3>1. srv.left \in Nat /\ srv'.left = srv.left - 1 /\ i \in Nat
      BY <1>1, <1>4, <2>1
    <3> HIDE DEF n
    <3>2. QED
      BY <2>1, <3>1
  <2>3. CASE i \in 1 .. n
    <3>1. stored'[srv.id][i] = stored[srv.id][i]
      BY <1>1, <1>2, <1>4, <2>3, AppendFacts
    <3>2. stored[srv.id][i] = [kind |-> "data", id |-> srv.id, nr |-> n + srv.left + 1 - i]
      BY <1>0, <2>3 DEF Account, Busy
    <3>3. QED
      BY <2>2, <3>1, <3>2
  <2>4. CASE i = n + 1
    <3>1. stored'[srv.id][i] = toSrv[1]
      BY <1>1, <1>2, <1>4, <2>4, AppendFacts
    <3>2. n + srv.left + 1 - i = srv.left
      BY <1>1, <2>1, <2>4
    <3>3. QED
      BY <1>7, <2>2, <3>1, <3>2
  <2>5. QED
    BY <2>1, <2>3, <2>4
<1>12. \A i \in DOMAIN executed' : executed'[i] # 0
  BY <1>0 DEF Account
<1>13. QED
  BY <1>0, <1>4, <1>8, <1>9, <1>10, <1>11, <1>12 DEF Account

LEMMA FileBlockStep ==
  ASSUME Link, FileBlock
  PROVE  Link'
<1>1. /\ srv.pc = "file" /\ srv.left > 0
      /\ \/ toSrv # <<>> /\ Store(Head(toSrv)) /\ toSrv' = Tail(toSrv)
         \/ conn = "reset" /\ Store(Garbage) /\ toSrv' = toSrv
      /\ UNCHANGED <<conn, toCli, cliVars, executed, complete, upset>>
  BY DEF FileBlock
<1>2. UNCHANGED <<conn, toCli, cli, next, executed, complete, upset>>
  BY <1>1 DEF cliVars
<1>3. /\ TypeOK /\ toSrv \in Seq(Units) /\ Len(toSrv) \in Nat /\ DOMAIN toSrv = 1 .. Len(toSrv)
      /\ \A i \in DOMAIN toSrv : toSrv[i] \in Units
  BY Shapes DEF Link
<1>4. ASSUME toSrv # <<>>, Store(Head(toSrv)), toSrv' = Tail(toSrv)
      PROVE  Link'
  <2>1. Len(toSrv) >= 1 /\ 1 \in DOMAIN toSrv /\ 1 \in 1 .. Len(toSrv)
    <3>1. Len(toSrv) # 0
      BY <1>3, <1>4, EmptySeq
    <3>2. QED
      BY <1>3, <3>1
  <2>2. Store(toSrv[1]) /\ toSrv[1] \in Units
    <3>1. Head(toSrv) = toSrv[1]
      BY <1>3, <1>4
    <3>2. QED
      BY <1>3, <1>4, <2>1, <3>1
  <2>3. toSrv' = From(toSrv, 1)
    <3>1. Tail(toSrv) = SubSeq(toSrv, 2, Len(toSrv))
      BY <1>3, <1>4, TailIsSubSeq
    <3>2. QED
      BY <1>4, <3>1 DEF From
  <2>4. /\ toSrv' \in Seq(Units) /\ DOMAIN toSrv' = 1 .. Len(toSrv) - 1
        /\ Len(toSrv') = Len(toSrv) - 1
        /\ \A i \in DOMAIN toSrv' : 1 + i \in DOMAIN toSrv /\ toSrv'[i] = toSrv[1 + i]
    <3>1. /\ toSrv' \in Seq(Units) /\ DOMAIN toSrv' = 1 .. Len(toSrv) - 1
          /\ Len(toSrv') = Len(toSrv) - 1
          /\ \A i \in 1 .. Len(toSrv) - 1 : toSrv'[i] = toSrv[1 + i]
      BY <1>3, <2>1, <2>3, FromFacts
    <3>2. \A i \in 1 .. Len(toSrv) - 1 : 1 + i \in 1 .. Len(toSrv)
      BY <1>3
    <3>3. QED
      BY <1>3, <3>1, <3>2
  <2>5. /\ srv' \in [pc : {"recv", "alloc", "file", "spin", "end"}, id : 0 .. MaxCmds,
                     left : 0 .. MaxBlocks]
        /\ stored' \in [Ids -> Seq(Units)]
        /\ \A id \in Ids : id # srv.id => stored'[id] = stored[id]
        /\ Done \subseteq Done' /\ (lost' \subseteq Ids => Storing')
        /\ lost' = lost \cup (IF toSrv[1].kind = "data" THEN {} ELSE {toSrv[1].id})
    BY <1>1, <1>2, <2>2, StoreFacts
  <2>6. lost' \subseteq Ids
    <3>1. toSrv[1].kind # "data" => toSrv[1].id \in Ids
      BY <2>1 DEF Link, Fresh, IsCommand
    <3>2. lost \subseteq Ids
      BY <1>3 DEF TypeOK
    <3>3. QED
      BY <2>5, <3>1, <3>2
  <2>7. TypeOK'
    BY <1>2, <1>3, <2>4, <2>5, <2>6 DEF TypeOK
  <2>8. Fresh'
    <3>1. ASSUME NEW e \in Done'
          PROVE  e \in Done \/ e = 0 \/ \E i \in 1 .. 1 : IsCommand(i) /\ e = toSrv[i].id
      <4>1. e \in Done \/ (toSrv[1].kind # "data" /\ e = toSrv[1].id)
        BY <1>2, <2>5, <3>1 DEF Done
      <4>2. QED
        BY <2>1, <4>1 DEF IsCommand
    <3>2. Fresh /\ 1 \in 1 .. Len(toSrv) /\ next' = next
      BY <1>2, <2>1 DEF Link
    <3>3. QED
      BY <1>3, <2>3, <3>1, <3>2, FreshTaken
  <2>9. Broken' /\ (Stray' \/ Talk')
    <3>1. Broken' /\ Stray' = Stray
      BY <1>2 DEF Link, Broken, Stray
    <3>2. ASSUME Talk PROVE Talk'
      BY <1>2, <1>4, <2>1, <2>4, <3>2, LateUpload
    <3>3. QED
      BY <3>1, <3>2 DEF Link
  <2>10. InOrder'
    <3>1. ASSUME NEW i \in 1 .. Len(executed), executed[i] \in lost' PROVE FALSE
      <4>1. executed[i] \in Done /\ executed[i] \notin lost /\ executed[i] \in Nat
        BY <3>1, Shapes DEF Done, Link, InOrder
      <4>2. toSrv[1].kind # "data" /\ executed[i] = toSrv[1].id
        BY <2>5, <3>1, <4>1
      <4>3. executed[i] < toSrv[1].id
        BY <2>1, <4>1, <4>2 DEF Link, Fresh, IsCommand
      <4>4. QED
        BY <4>1, <4>2, <4>3
    <3>2. QED
      BY <1>2, <3>1 DEF Link, InOrder
  <2>11. ASSUME ~upset' PROVE Account'
    BY <1>1, <1>2, <1>4, <2>2, <2>3, <2>11, AccountStored DEF Link
  <2>12. UploadIntact'
    <3>1. ASSUME NEW id \in Ids, ~upset', complete'[id] >= 0
          PROVE  stored'[id] = Sent(id, complete[id])'
      <4>1. id # srv.id
        BY <1>1, <1>2, <3>1 DEF Link, Storing, Busy, Ids
      <4>2. QED
        BY <1>2, <2>5, <3>1, <4>1 DEF Link, UploadIntact, Sent
    <3>2. QED
      BY <3>1 DEF UploadIntact
  <2>13. QED
    BY <2>5, <2>6, <2>7, <2>8, <2>9, <2>10, <2>11, <2>12 DEF Link
<1>5. ASSUME conn = "reset", Store(Garbage), toSrv' = toSrv
      PROVE  Link'
  <2>1. Garbage \in Units /\ Garbage.kind = "data"
    BY ConstantsAssumption DEF Garbage, Units
  <2>2. /\ srv' \in [pc : {"recv", "alloc", "file", "spin", "end"}, id : 0 .. MaxCmds,
                     left : 0 .. MaxBlocks]
        /\ stored' \in [Ids -> Seq(Units)] /\ (lost' \subseteq Ids => Storing') /\ lost' = lost
    BY <1>1, <1>2, <1>5, <2>1, StoreFacts
  <2>3. TypeOK' /\ Storing'
    BY <1>2, <1>3, <1>5, <2>2 DEF TypeOK
  <2>4. Done' = Done
    BY <1>2, <2>2 DEF Done
  <2>5. Fresh'
    BY <1>2, <1>5, <2>4 DEF Link, Fresh, IsCommand
  <2>6. Broken' /\ (Stray' \/ Talk') /\ upset'
    BY <1>2, <1>5 DEF Link, Talk, Broken, Stray
  <2>7. InOrder' /\ UploadIntact'
    BY <1>2, <2>2, <2>6 DEF Link, InOrder, UploadIntact
  <2>8. QED
    BY <2>3, <2>5, <2>6, <2>7 DEF Link
<1>6. QED
  BY <1>1, <1>4, <1>5

LEMMA FileEndsStep ==
  ASSUME Link, FileEnds
  PROVE  Link'
<1> DEFINE idle == [pc |-> "recv", id |-> 0, left |-> 0]
<1>1. /\ srv.pc = "file" /\ srv.left = 0 /\ srv' = idle
      /\ complete' = [id \in Ids |-> IF id = srv.id THEN Len(stored[id]) ELSE complete[id]]
      /\ UNCHANGED <<conn, toSrv, toCli, cliVars, executed, lost, stored, upset>>
  BY DEF FileEnds, Complete
<1>2. UNCHANGED <<conn, toSrv, toCli, cli, next, executed, lost, stored, upset>>
  BY <1>1 DEF cliVars
<1>3. /\ idle \in [pc : {"recv", "alloc", "file", "spin", "end"}, id : 0 .. MaxCmds,
                   left : 0 .. MaxBlocks]
      /\ idle.pc = "recv" /\ idle.id = 0 /\ idle.left = 0
  BY ConstantsAssumption
<1> HIDE DEF idle
<1>4. /\ TypeOK /\ Len(toSrv) \in Nat /\ DOMAIN toSrv = 1 .. Len(toSrv) /\ cli.left \in Nat
      /\ complete \in [Ids -> -1 .. MaxBlocks] /\ stored \in [Ids -> Seq(Units)]
  BY Shapes DEF Link, TypeOK
<1>5. Busy /\ ~Busy'
  BY <1>1, <1>3 DEF Busy
<1>6. ASSUME srv.id # 0
      PROVE  /\ srv.id \in Ids /\ srv.id \in Done
             /\ stored[srv.id] \in Seq(Units) /\ Len(stored[srv.id]) \in 0 .. MaxBlocks
             /\ complete'[srv.id] = Len(stored[srv.id])
  <2>1. srv.id \in Ids /\ srv.id \in Done /\ Len(stored[srv.id]) + srv.left <= MaxBlocks
    BY <1>5, <1>6 DEF Link, Storing
  <2>2. stored[srv.id] \in Seq(Units) /\ complete'[srv.id] = Len(stored[srv.id])
    BY <1>1, <1>4, <2>1
  <2>3. Len(stored[srv.id]) \in Nat
    BY <2>2, LenProperties
  <2>4. Len(stored[srv.id]) <= MaxBlocks
    BY <1>1, <2>1, <2>3
  <2>5. QED
    BY <2>1, <2>2, <2>3, <2>4, ConstantsAssumption
<1>7. /\ complete' \in [Ids -> -1 .. MaxBlocks]
      /\ \A id \in Ids : id # srv.id => complete'[id] = complete[id]
  <2>1. ASSUME NEW id \in Ids PROVE complete'[id] \in -1 .. MaxBlocks
    <3>1. CASE id = srv.id
      <4>1. Len(stored[id]) \in 0 .. MaxBlocks /\ complete'[id] = Len(stored[id])
        BY <1>6, <3>1 DEF Ids
      <4>2. QED
        BY <4>1
    <3>2. CASE id # srv.id
      BY <1>1, <1>4, <3>2
    <3>3. QED
      BY <3>1, <3>2
  <2>2. QED
    BY <1>1, <2>1
<1>8. TypeOK'
  BY <1>1, <1>2, <1>3, <1>4, <1>7 DEF TypeOK
<1>9. Done' = Done
  BY <1>2 DEF Done
<1>10. Fresh'
  BY <1>2, <1>9 DEF Link, Fresh, IsCommand
<1>11. Storing'
  <2>1. ASSUME NEW id \in Ids, id \notin Done PROVE id # srv.id
    BY <1>6, <2>1 DEF Ids
  <2>2. srv'.id = 0 /\ srv'.left = 0
    BY <1>1, <1>3
  <2>3. QED
    BY <1>2, <1>5, <1>7, <1>9, <2>1, <2>2 DEF Link, Storing
<1>12. Broken' /\ (Stray' \/ Talk')
  BY <1>2 DEF Link, Talk, Broken, Stray
<1>13. InOrder'
  BY <1>2 DEF Link, InOrder
<1>14. ASSUME ~upset' PROVE Account'
  <2>1. Account
    BY <1>2, <1>14 DEF Link
  <2>2. Pending \in Nat /\ Arriving = 0 - Pending /\ Arriving \in 0 .. Len(toSrv)
    BY <1>1, <1>4, <2>1 DEF Pending, Arriving, Account
  <2>3. Pending = 0 /\ Arriving = 0
    BY <2>2
  <2>4. (Sending' <=> Sending) /\ Pending' = 0 /\ srv'.left = 0
    BY <1>1, <1>2, <1>3, <2>3 DEF Sending, Pending
  <2>5. Arriving' = 0
    BY <2>4 DEF Arriving
  <2>6. Sending => cli.left = 0
    BY <2>3 DEF Pending
  <2>7. \A i \in DOMAIN toSrv : ~(i <= 0)
    BY <1>4
  <2>8. \A i \in DOMAIN toSrv : toSrv[i].kind # "data"
    BY <2>1, <2>3, <2>7 DEF Account
  <2>9. 0 \in 0 .. Len(toSrv) /\ (Sending => Len(toSrv) = 0)
    BY <2>1, <2>3 DEF Account
  <2>10. \A i \in DOMAIN executed' : executed'[i] # 0
    BY <1>2, <2>1 DEF Account
  <2>11. QED
    BY <1>2, <1>5, <2>4, <2>5, <2>6, <2>7, <2>8, <2>9, <2>10 DEF Account
<1>15. UploadIntact'
  <2>1. ASSUME NEW id \in Ids, ~upset', complete'[id] >= 0
        PROVE  stored'[id] = Sent(id, complete[id])'
    <3>1. CASE id # srv.id
      BY <1>2, <1>7, <2>1, <3>1 DEF Link, UploadIntact, Sent
    <3>2. CASE id = srv.id
      <4>4. srv.id # 0
        BY <3>2 DEF Ids
      <4> DEFINE n == Len(stored[srv.id])
                 unit(i) == [kind |-> "data", id |-> srv.id, nr |-> n + 1 - i]
      <4>1. ASSUME NEW i \in 1 .. n PROVE stored[srv.id][i] = unit(i)
        <5>1. stored[srv.id][i] = [kind |-> "data", id |-> srv.id, nr |-> n + srv.left + 1 - i]
          BY <1>2, <1>5, <2>1 DEF Link, Account
        <5>2. n + srv.left + 1 - i = n + 1 - i
          BY <1>1, <1>6, <4>4
        <5>3. QED
          BY <5>1, <5>2
      <4>2. stored[srv.id] = [i \in 1 .. n |-> unit(i)]
        <5>1. stored[srv.id] \in [1 .. n -> Units]
          BY <1>6, <4>4, LenProperties
        <5>2. QED
          BY <4>1, <5>1
      <4>3. QED
        BY <1>2, <1>6, <3>2, <4>2, <4>4 DEF Sent
    <3>3. QED
      BY <3>1, <3>2
  <2>2. QED
    BY <2>1 DEF UploadIntact
<1>16. QED
  BY <1>8, <1>10, <1>11, <1>12, <1>13, <1>14, <1>15 DEF Link

\* Without a connection the upload goes on for ever, and nothing else changes.
LEMMA FileSpinsStep ==
  ASSUME Link, FileSpins
  PROVE  Link'
<1>1. /\ srv.pc = "file" /\ conn # "up" /\ srv' = [srv EXCEPT !.pc = "spin"]
      /\ UNCHANGED <<conn, toSrv, toCli, cliVars, executed, lost, stored, complete, upset>>
  BY DEF FileSpins
<1>2. UNCHANGED <<conn, toSrv, toCli, cli, next, executed, lost, stored, complete, upset>>
  BY <1>1 DEF cliVars
<1>3. srv \in [pc : {"recv", "alloc", "file", "spin", "end"}, id : 0 .. MaxCmds,
               left : 0 .. MaxBlocks]
  BY DEF Link, TypeOK
<1>4. /\ srv' \in [pc : {"recv", "alloc", "file", "spin", "end"}, id : 0 .. MaxCmds,
                   left : 0 .. MaxBlocks]
      /\ srv'.pc = "spin" /\ srv'.id = srv.id /\ srv'.left = srv.left
  BY <1>1, <1>3
<1>5. TypeOK'
  BY <1>2, <1>4 DEF Link, TypeOK
<1>6. Done' = Done /\ Busy /\ Busy' /\ Stray' = Stray
  BY <1>1, <1>2, <1>4 DEF Done, Busy, Stray
<1>7. Fresh'
  BY <1>2, <1>6 DEF Link, Fresh, IsCommand
<1>8. Storing'
  BY <1>2, <1>4, <1>6 DEF Link, Storing
<1>9. Broken' /\ (Stray' \/ Talk') /\ upset'
  BY <1>1, <1>2, <1>6 DEF Link, Talk, Broken
<1>10. InOrder' /\ UploadIntact'
  BY <1>2, <1>9 DEF Link, InOrder, UploadIntact
<1>11. QED
  BY <1>5, <1>7, <1>8, <1>9, <1>10 DEF Link

-------------------------------------------------------------------------------
(* The theorems.                                                           *)

LEMMA InitLink == Init => Link
<1> SUFFICES ASSUME Init PROVE Link
  OBVIOUS
<1>1. /\ conn = "up" /\ toSrv = <<>> /\ toCli = <<>> /\ next = 1 /\ upset = FALSE
      /\ cli = [pc |-> "idle", id |-> 0, left |-> 0]
      /\ srv = [pc |-> "recv", id |-> 0, left |-> 0]
      /\ executed = <<>> /\ lost = {}
      /\ stored = [i \in Ids |-> <<>>] /\ complete = [i \in Ids |-> -1]
  BY DEF Init
<1>2. Done = {} /\ ~Busy /\ ~Sending /\ Pending = 0 /\ Arriving = 0
  <2>1. ~Sending /\ ~Busy /\ DOMAIN executed = {}
    BY <1>1 DEF Sending, Busy
  <2>2. Pending = 0
    BY <2>1 DEF Pending
  <2>3. QED
    BY <1>1, <2>1, <2>2 DEF Done, Arriving
<1>3. TypeOK
  <2>1. /\ <<>> \in Seq(Units) /\ <<>> \in Seq({"OK", "NOK"}) /\ <<>> \in Seq(0 .. MaxCmds)
    OBVIOUS
  <2>2. /\ cli \in [pc : {"idle", "wait", "send", "gone"}, id : 0 .. MaxCmds, left : 0 .. MaxBlocks]
        /\ srv \in [pc : {"recv", "alloc", "file", "spin", "end"}, id : 0 .. MaxCmds,
                    left : 0 .. MaxBlocks]
        /\ next \in 1 .. MaxCmds + 1
    BY <1>1, ConstantsAssumption
  <2>3. stored \in [Ids -> Seq(Units)] /\ complete \in [Ids -> -1 .. MaxBlocks]
    <3>1. -1 \in -1 .. MaxBlocks
      BY ConstantsAssumption
    <3>2. QED
      BY <1>1, <2>1, <3>1
  <2>4. conn \in {"up", "closed", "reset"} /\ upset \in BOOLEAN /\ lost \subseteq Ids
    BY <1>1
  <2>5. QED
    BY <1>1, <2>1, <2>2, <2>3, <2>4 DEF TypeOK
<1>4. Fresh /\ Storing
  BY <1>1, <1>2 DEF Fresh, Storing
<1>5. Broken /\ Talk /\ InOrder
  BY <1>1 DEF Broken, Talk, InOrder
<1>6. Account
  BY <1>1, <1>2 DEF Account
<1>7. UploadIntact
  BY <1>1 DEF UploadIntact
<1>8. QED
  BY <1>3, <1>4, <1>5, <1>6, <1>7 DEF Link

LEMMA StutterLink ==
  ASSUME Link, UNCHANGED vars
  PROVE  Link'
<1>1. UNCHANGED <<conn, toSrv, toCli, cli, next, srv, executed, lost, stored, complete, upset>>
  BY DEF vars
<1>2. /\ Done' = Done /\ (Busy' <=> Busy) /\ (Sending' <=> Sending) /\ Pending' = Pending
      /\ Arriving' = Arriving
  BY <1>1 DEF Done, Busy, Sending, Pending, Arriving
<1>3. TypeOK'
  BY <1>1 DEF Link, TypeOK
<1>4. Fresh' /\ Storing'
  BY <1>1, <1>2 DEF Link, Fresh, IsCommand, Storing
<1>5. Broken' /\ (Stray' \/ Talk') /\ InOrder'
  BY <1>1 DEF Link, Talk, Broken, Stray, InOrder
<1>6. ASSUME ~upset' PROVE Account'
  BY <1>1, <1>2, <1>6 DEF Link, Account
<1>7. UploadIntact'
  BY <1>1 DEF Link, UploadIntact, Sent
<1>8. QED
  BY <1>3, <1>4, <1>5, <1>6, <1>7 DEF Link

LEMMA LinkInvariant == Spec => []Link
<1>1. Link /\ [Next]_vars => Link'
  <2> SUFFICES ASSUME Link, [Next]_vars PROVE Link'
    OBVIOUS
  <2>1. CASE Entering
    BY <2>1, SendPlainStep, SendUploadStep DEF Entering
  <2>2. CASE Answering
    BY <2>2, GetResultStep, SendBlockStep, SendEndsStep DEF Answering
  <2>3. CASE Disconnect
    BY <2>3, DisconnectStep
  <2>4. CASE Server
    BY <2>4, ReceivePlainStep, ReceiveUploadStep, ReceiveDataStep, ReceiveFailsStep, AllocStep,
       FileBlockStep, FileSpinsStep, FileEndsStep DEF Server, Receive
  <2>5. CASE UNCHANGED vars
    BY <2>5, StutterLink
  <2>6. QED
    BY <2>1, <2>2, <2>3, <2>4, <2>5 DEF Next
<1>2. QED
  BY <1>1, InitLink, PTL DEF Spec

\* Between two uploads no block is under way, and none is still to be sent.
LEMMA LinkDataKept == Link => DataKept
<1> SUFFICES ASSUME Link PROVE DataKept
  OBVIOUS
<1>1. ASSUME ~upset, srv.pc = "recv"
      PROVE  /\ cli.pc = "send" => cli.left = 0
             /\ \A i \in 1 .. Len(toSrv) : toSrv[i].kind # "data"
             /\ \A i \in 1 .. Len(executed) : executed[i] # 0
  <2>1. TypeOK /\ Storing /\ Account /\ ~Busy
    BY <1>1 DEF Link, Busy
  <2>2. Pending = 0 /\ \A i \in DOMAIN toSrv : toSrv[i].kind # "data"
    BY <2>1, Quiet
  <2>3. cli.pc = "send" => cli.left = 0
    BY <2>2 DEF Pending, Sending
  <2>4. DOMAIN toSrv = 1 .. Len(toSrv) /\ DOMAIN executed = 1 .. Len(executed)
    BY <2>1, Shapes
  <2>5. QED
    BY <2>1, <2>2, <2>3, <2>4 DEF Account
<1>2. QED
  BY <1>1 DEF DataKept, NoDataParsed, Link

LEMMA LinkMatched == Link => Matched
BY DEF Link, Talk, Matched, ResultExpected

\* However many units a recv of p2s_cmd_receive or p2s_recv_file returns, and wherever the
\* connection breaks: file data is never taken for a command, and a file that is reported
\* complete holds the blocks that send_file sent, as long as the file did not change, a
\* buffer was there and the connection held.
THEOREM DataKeptCorrect == Spec => []DataKept
<1>1. QED
  BY LinkInvariant, LinkDataKept, PTL

\* Commands are executed in the order they were entered, none twice and none that was lost,
\* and p2s_cmd_wait_result never takes one upload's answer for another's, until file data that
\* reached p2s_cmd_parse has been carried out as a command.
THEOREM MatchedCorrect == Spec => []Matched
<1>1. QED
  BY LinkInvariant, LinkMatched, PTL
===============================================================================
