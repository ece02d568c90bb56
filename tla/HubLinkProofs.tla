---------------------------- MODULE HubLinkProofs ----------------------------
(***************************************************************************)
(* For whatever GARD sends, requests of every kind in any number, and any  *)
(* failures of the line: every variable of HubLink has its type and only   *)
(* whole payloads are delivered, in order; while nothing fails no frame is *)
(* lost. If HUB and GARD do not start to talk at the same time, a request  *)
(* that found the line quiet reads its own response.                       *)
(***************************************************************************)
EXTENDS HubLink, SequenceTheorems, TLAPS

\* Types, and: GARD asks to send only if it has something, what announces a
\* payload on the line is one of those that were sent, and none is empty.
Announced == \A i \in 1 .. Len(toHub) : toHub[i].kind = "send" => toHub[i].of \in 1 .. sent

Sized == pc \in {"peek", "payload"} => frame.size > 0

Types == TypeOK /\ (gard = "waiting" => sent < Len(Sends)) /\ Announced /\ Sized

LEMMA SendsType ==
  /\ Len(Sends) \in Nat
  /\ \A n \in 1 .. Len(Sends) : Sends[n] \in [size : Nat \ {0}, known : BOOLEAN, alike : BOOLEAN]
<1> DEFINE T == [size : Nat \ {0}, known : BOOLEAN, alike : BOOLEAN]
<1>1. Sends \in Seq(T)
  BY HubAssumption DEF HubAssumption
<1> HIDE DEF T
<1>2. Len(Sends) \in Nat /\ \A n \in 1 .. Len(Sends) : Sends[n] \in T
  BY <1>1, ElementOfSeq
<1> QED
  BY <1>2 DEF T

-----------------------------------------------------------------------------
(* What a read and a write do to a channel                                 *)

LEMMA Front ==
  ASSUME NEW S, NEW s \in Seq(S), NEW n \in 0 .. Len(s)
  PROVE  /\ SubSeq(s, 1, n) \in Seq(S) /\ Len(SubSeq(s, 1, n)) = n
         /\ \A i \in 1 .. n : SubSeq(s, 1, n)[i] = s[i]
<1>1. \A i \in 1 .. n : s[i] \in S
  BY ElementOfSeq
<1> QED
  BY <1>1, SubSeqProperties

LEMMA Back ==
  ASSUME NEW S, NEW s \in Seq(S), NEW n \in 0 .. Len(s)
  PROVE  /\ SubSeq(s, n + 1, Len(s)) \in Seq(S)
         /\ Len(SubSeq(s, n + 1, Len(s))) = Len(s) - n
         /\ \A i \in 1 .. Len(s) - n : SubSeq(s, n + 1, Len(s))[i] = s[n + i]
<1>1. Len(s) \in Nat
  OBVIOUS
<1>2. \A i \in n + 1 .. Len(s) : s[i] \in S
  BY ElementOfSeq, <1>1
<1> DEFINE r == SubSeq(s, n + 1, Len(s))
<1>3. /\ r \in Seq(S)
      /\ Len(r) = IF n + 1 <= Len(s) THEN Len(s) - (n + 1) + 1 ELSE 0
      /\ \A i \in 1 .. Len(s) - (n + 1) + 1 : r[i] = s[(n + 1) + i - 1]
  BY <1>1, <1>2, SubSeqProperties
<1> HIDE DEF r
<1>4. Len(r) = Len(s) - n
  BY <1>1, <1>3
<1>5. \A i \in 1 .. Len(s) - n : r[i] = s[n + i]
  BY <1>1, <1>3
<1> QED
  BY <1>3, <1>4, <1>5 DEF r

LEMMA Grown ==
  ASSUME NEW S, NEW s \in Seq(S), NEW x \in S
  PROVE  /\ Append(s, x) \in Seq(S) /\ Len(Append(s, x)) = Len(s) + 1
         /\ \A i \in 1 .. Len(s) : Append(s, x)[i] = s[i]
         /\ Append(s, x)[Len(s) + 1] = x
  OBVIOUS

LEMMA LastTaken ==
  ASSUME NEW S, NEW s \in Seq(S), Len(s) = 1
  PROVE  Tail(s) = << >>
<1>1. Tail(s) \in Seq(S) /\ Len(Tail(s)) = 0
  BY HeadTailProperties, EmptySeq
<1> QED
  BY <1>1, EmptySeq

LEMMA UnitType ==
  ASSUME NEW k \in UnitKinds, NEW n \in Nat
  PROVE  Unit(k, n) \in Units /\ Unit(k, n).kind = k /\ Unit(k, n).of = n
  BY DEF Unit, Units

\* What Payload(n) consists of
LEMMA PayloadType ==
  ASSUME NEW n \in 1 .. Len(Sends)
  PROVE  /\ Sends[n].size \in Nat \ {0}
         /\ Payload(n) \in Seq(Units) /\ Len(Payload(n)) = Sends[n].size
         /\ Payload(n)[1] = Unit("peek", n)
         /\ \A j \in 1 .. Sends[n].size : Payload(n)[j].kind # "send" /\ Payload(n)[j].of = n
<1>1. Sends[n] \in [size : Nat \ {0}, known : BOOLEAN, alike : BOOLEAN] /\ n \in Nat
  BY SendsType
<1> DEFINE k(i) == CASE i = 1 -> "peek"
                     [] i > 1 /\ ~Sends[n].alike -> "data"
                     [] i > 1 /\ Sends[n].alike -> IF i % 2 = 0 THEN "sync" ELSE "gardId"
<1>2. ASSUME NEW i \in 1 .. Sends[n].size
      PROVE  k(i) \in UnitKinds /\ k(i) # "send" /\ (i = 1 => k(i) = "peek")
  <2>1. CASE i = 1
    BY <2>1 DEF UnitKinds
  <2>2. CASE i > 1 /\ ~Sends[n].alike
    BY <2>2 DEF UnitKinds
  <2>3. CASE i > 1 /\ Sends[n].alike
    BY <2>3 DEF UnitKinds
  <2> QED
    BY <1>1, <2>1, <2>2, <2>3
<1> HIDE DEF k
<1>3. Payload(n) = [i \in 1 .. Sends[n].size |-> Unit(k(i), n)]
  BY DEF Payload, k
<1>4. \A i \in 1 .. Sends[n].size :
        /\ Unit(k(i), n) \in Units
        /\ Unit(k(i), n).kind = k(i) /\ Unit(k(i), n).of = n
  BY <1>1, <1>2, UnitType
<1>5. Payload(n) \in [1 .. Sends[n].size -> Units]
  BY <1>3, <1>4
<1>6. Payload(n) \in Seq(Units) /\ Len(Payload(n)) = Sends[n].size
  BY <1>1, <1>5
<1>7. \A j \in 1 .. Sends[n].size : Payload(n)[j] = Unit(k(j), n)
  BY <1>3
<1>8. Payload(n)[1] = Unit("peek", n)
  BY <1>1, <1>2, <1>7
<1> QED
  BY <1>1, <1>2, <1>4, <1>6, <1>7, <1>8

-----------------------------------------------------------------------------
(* How a step changes what is on its way to HUB: HUB takes the front of    *)
(* it, or GARD adds a word or a whole send.                                *)

Takes == \E n \in 0 .. Len(toHub) : Taken(n) /\ sent' = sent

Says ==
  \E b \in Seq(Units) :
    /\ toHub' = toHub \o b /\ sent' = sent
    /\ \A i \in 1 .. Len(b) : b[i].kind # "send"

SendsNext ==
  /\ sent < Len(Sends) /\ sent' = sent + 1
  /\ toHub' = Append(toHub, Unit("send", sent + 1)) \o Payload(sent + 1)

LEMMA NothingTaken ==
  ASSUME toHub \in Seq(Units), UNCHANGED <<toHub, sent>>
  PROVE  Takes
<1>1. SubSeq(toHub, 0 + 1, Len(toHub)) = toHub
  BY SubSeqFull
<1> QED
  BY <1>1 DEF Takes, Taken

LEMMA OkTakes ==
  ASSUME toHub \in Seq(Units), NEW n \in Nat, ReadOk(n), sent' = sent
  PROVE  Takes /\ n \in 0 .. Len(toHub)
  BY DEF ReadOk, Takes

LEMMA ShortTakes ==
  ASSUME toHub \in Seq(Units), NEW n \in Nat, ReadShort(n), sent' = sent
  PROVE  Takes
  BY DEF ReadShort, Takes

LEMMA AfterTaking ==
  ASSUME toHub \in Seq(Units), NEW n \in 0 .. Len(toHub), Taken(n)
  PROVE  /\ toHub' \in Seq(Units) /\ Len(toHub') = Len(toHub) - n
         /\ \A i \in 1 .. Len(toHub') : toHub'[i] = toHub[n + i] /\ n + i \in 1 .. Len(toHub)
<1>1. Len(toHub) \in Nat
  OBVIOUS
<1>2. /\ toHub' \in Seq(Units) /\ Len(toHub') = Len(toHub) - n
      /\ \A i \in 1 .. Len(toHub) - n : toHub'[i] = toHub[n + i]
  BY Back DEF Taken
<1> QED
  BY <1>1, <1>2

LEMMA AfterSaying ==
  ASSUME toHub \in Seq(Units), NEW b \in Seq(Units), toHub' = toHub \o b
  PROVE  /\ toHub' \in Seq(Units) /\ Len(toHub') = Len(toHub) + Len(b)
         /\ \A i \in 1 .. Len(toHub) : toHub'[i] = toHub[i]
         /\ \A i \in 1 .. Len(b) : toHub'[Len(toHub) + i] = b[i]
<1>1. Len(toHub) \in Nat /\ Len(b) \in Nat
  OBVIOUS
<1>2. /\ toHub' \in Seq(Units) /\ Len(toHub') = Len(toHub) + Len(b)
      /\ \A i \in 1 .. Len(toHub) + Len(b) :
           toHub'[i] = IF i <= Len(toHub) THEN toHub[i] ELSE b[i - Len(toHub)]
  BY ConcatProperties
<1>3. \A i \in 1 .. Len(toHub) : toHub'[i] = toHub[i]
  BY <1>1, <1>2
<1>4. ASSUME NEW i \in 1 .. Len(b)
      PROVE  toHub'[Len(toHub) + i] = b[i]
  <2>1. Len(toHub) + i \in 1 .. Len(toHub) + Len(b) /\ ~(Len(toHub) + i <= Len(toHub))
        /\ (Len(toHub) + i) - Len(toHub) = i
    BY <1>1
  <2> QED
    BY <1>2, <2>1
<1> QED
  BY <1>2, <1>3, <1>4

LEMMA AfterSend ==
  ASSUME toHub \in Seq(Units), sent \in Nat, SendsNext
  PROVE  LET n == sent + 1
         IN /\ n \in 1 .. Len(Sends)
            /\ toHub' \in Seq(Units) /\ Len(toHub') = Len(toHub) + 1 + Sends[n].size
            /\ \A i \in 1 .. Len(toHub) : toHub'[i] = toHub[i]
            /\ toHub'[Len(toHub) + 1] = Unit("send", n)
            /\ \A j \in 1 .. Sends[n].size : toHub'[Len(toHub) + 1 + j] = Payload(n)[j]
<1> DEFINE n == sent + 1
           a == Append(toHub, Unit("send", n))
<1>1. n \in 1 .. Len(Sends) /\ n \in Nat
  BY SendsType DEF SendsNext
<1>2. Sends[n].size \in Nat /\ Payload(n) \in Seq(Units) /\ Len(Payload(n)) = Sends[n].size
  BY <1>1, PayloadType
<1>3. Unit("send", n) \in Units
  BY <1>1, UnitType DEF UnitKinds
<1> HIDE DEF n
<1>4. /\ a \in Seq(Units) /\ Len(a) = Len(toHub) + 1
      /\ \A i \in 1 .. Len(toHub) : a[i] = toHub[i]
      /\ a[Len(toHub) + 1] = Unit("send", n)
  BY <1>3, Grown
<1>5. toHub' = a \o Payload(n)
  BY DEF SendsNext, n
<1> HIDE DEF a
<1>6. /\ toHub' \in Seq(Units) /\ Len(toHub') = Len(a) + Len(Payload(n))
      /\ \A i \in 1 .. Len(a) + Len(Payload(n)) :
           toHub'[i] = IF i <= Len(a) THEN a[i] ELSE Payload(n)[i - Len(a)]
  BY <1>2, <1>4, <1>5, ConcatProperties
<1>7. Len(toHub) \in Nat
  OBVIOUS
<1>8. \A i \in 1 .. Len(toHub) + 1 : toHub'[i] = a[i]
  BY <1>2, <1>4, <1>6, <1>7
<1>9. ASSUME NEW j \in 1 .. Sends[n].size
      PROVE  toHub'[Len(toHub) + 1 + j] = Payload(n)[j]
  <2>1. /\ Len(toHub) + 1 + j \in 1 .. Len(a) + Len(Payload(n))
        /\ ~(Len(toHub) + 1 + j <= Len(a)) /\ (Len(toHub) + 1 + j) - Len(a) = j
    BY <1>2, <1>4, <1>7
  <2> QED
    BY <1>6, <2>1
<1>10. toHub'[Len(toHub) + 1] = Unit("send", n)
  <2>1. Len(toHub) + 1 \in 1 .. Len(toHub) + 1
    BY <1>7
  <2> QED
    BY <1>4, <1>8, <2>1
<1>11. Len(toHub') = Len(toHub) + 1 + Sends[n].size
  BY <1>2, <1>4, <1>6, <1>7
<1>12. \A i \in 1 .. Len(toHub) : toHub'[i] = toHub[i]
  BY <1>4, <1>7, <1>8
<1> QED
  BY <1>1, <1>6, <1>9, <1>10, <1>11, <1>12 DEF n

-----------------------------------------------------------------------------
(* Types                                                                   *)

LEMMA InitTypes == Init => Types
<1> SUFFICES ASSUME Init PROVE Types
  OBVIOUS
<1>1. Len(Sends) \in Nat /\ MaxErrors \in Nat /\ MaxRequests \in Nat
  BY HubAssumption, SendsType DEF HubAssumption
<1>2. << >> \in Seq(Units) /\ << >> \in Seq(Seq(Units)) /\ Len(toHub) = 0
  BY DEF Init
<1>3. NoReq \in Request /\ NoFrame \in [size : Nat, got : Seq(Units)]
  BY <1>1, <1>2 DEF NoReq, NoFrame, Request
<1>4. /\ pc \in PCs /\ command_execution \in BOOLEAN /\ stop \in BOOLEAN
      /\ answers \in SUBSET Request /\ gard \in {"idle", "waiting"}
      /\ requests \in 0 .. MaxRequests /\ sent \in 0 .. Len(Sends) /\ errors \in 0 .. MaxErrors
  <2>1. pc \in PCs
    BY DEF Init, PCs
  <2>2. requests \in 0 .. MaxRequests /\ sent \in 0 .. Len(Sends) /\ errors \in 0 .. MaxErrors
    BY <1>1 DEF Init
  <2> QED
    BY <2>1, <2>2 DEF Init
<1>5. /\ req \in Request /\ frame \in [size : Nat, got : Seq(Units)]
      /\ delivered \in Seq(Seq(Units)) /\ toHub \in Seq(Units) /\ toGard \in Seq(Units)
  BY <1>2, <1>3 DEF Init
<1>6. TypeOK
  BY <1>4, <1>5 DEF TypeOK
<1> QED
  BY <1>2, <1>6 DEF Init, Types, Announced, Sized

LEMMA TakesTypes ==
  ASSUME Types, Takes
  PROVE  toHub' \in Seq(Units) /\ Announced'
<1>1. toHub \in Seq(Units)
  BY DEF Types, TypeOK
<1> PICK n \in 0 .. Len(toHub) : Taken(n) /\ sent' = sent
  BY DEF Takes
<1>2. /\ toHub' \in Seq(Units)
      /\ \A i \in 1 .. Len(toHub') : toHub'[i] = toHub[n + i] /\ n + i \in 1 .. Len(toHub)
  BY <1>1, AfterTaking
<1> QED
  BY <1>2 DEF Types, Announced

\* What a read leaves, and what it gives
LEMMA Reads ==
  ASSUME Types, NEW n \in Nat, ReadOk(n) \/ ReadShort(n), sent' = sent
  PROVE  /\ Takes /\ toHub' \in Seq(Units) /\ Announced'
         /\ toGard' = toGard /\ errors' \in 0 .. MaxErrors
<1>1. toHub \in Seq(Units) /\ errors \in 0 .. MaxErrors /\ MaxErrors \in Nat
  BY HubAssumption DEF HubAssumption, Types, TypeOK
<1>2. Takes
  BY <1>1, OkTakes, ShortTakes
<1> QED
  BY <1>1, <1>2, TakesTypes DEF ReadOk, ReadShort

LEMMA ReadUnits ==
  ASSUME Types, NEW n \in Nat, ReadOk(n)
  PROVE  /\ First(n) \in Seq(Units) /\ Len(First(n)) = n /\ n \in 0 .. Len(toHub)
         /\ \A i \in 1 .. n : First(n)[i] = toHub[i]
<1>1. toHub \in Seq(Units)
  BY DEF Types, TypeOK
<1>2. n \in 0 .. Len(toHub)
  BY <1>1 DEF ReadOk
<1> QED
  BY <1>1, <1>2, Front DEF First

LEMMA ReadOne ==
  ASSUME Types, ReadOk(1)
  PROVE  /\ 1 \in 1 .. Len(toHub) /\ Head(toHub) = toHub[1] /\ toHub[1] \in Units
         /\ First(1) = <<toHub[1]>> /\ First(1) \in Seq(Units)
<1>1. toHub \in Seq(Units)
  BY DEF Types, TypeOK
<1>2. 1 \in 1 .. Len(toHub)
  BY <1>1 DEF ReadOk
<1>3. First(1) \in Seq(Units) /\ Len(First(1)) = 1 /\ First(1)[1] = toHub[1]
  <2>1. 1 \in Nat /\ 1 \in 1 .. 1
    OBVIOUS
  <2> QED
    BY <2>1, ReadUnits
<1>4. First(1) = <<toHub[1]>>
  BY <1>3
<1> QED
  BY <1>1, <1>2, <1>3, <1>4

LEMMA Writes ==
  ASSUME Types, NEW u \in Units, WriteOk(u) \/ WriteFails, sent' = sent
  PROVE  /\ Takes /\ toHub' \in Seq(Units) /\ Announced'
         /\ toGard' \in Seq(Units) /\ errors' \in 0 .. MaxErrors
<1>1. /\ toHub \in Seq(Units) /\ toGard \in Seq(Units)
      /\ errors \in 0 .. MaxErrors /\ MaxErrors \in Nat
  BY HubAssumption DEF HubAssumption, Types, TypeOK
<1>2. Takes
  BY <1>1, NothingTaken DEF WriteOk, WriteFails
<1>3. toHub' \in Seq(Units) /\ Announced'
  BY <1>2, TakesTypes
<1>4. toGard' \in Seq(Units) /\ errors' \in 0 .. MaxErrors
  <2>1. CASE WriteOk(u)
    BY <1>1, <2>1, Grown DEF WriteOk
  <2>2. CASE WriteFails
    BY <1>1, <2>2 DEF WriteFails
  <2> QED
    BY <2>1, <2>2
<1> QED
  BY <1>2, <1>3, <1>4

LEMMA Silent ==
  ASSUME Types, UNCHANGED <<toHub, sent>>
  PROVE  Takes /\ toHub' \in Seq(Units) /\ Announced'
<1>1. toHub \in Seq(Units)
  BY DEF Types, TypeOK
<1>2. Takes
  BY <1>1, NothingTaken
<1> QED
  BY <1>2, TakesTypes

\* The types of what belongs to HUB alone
Own ==
  /\ pc \in PCs /\ command_execution \in BOOLEAN /\ stop \in BOOLEAN
  /\ req \in Request /\ requests \in 0 .. MaxRequests
  /\ answers \in SUBSET Request
  /\ frame \in [size : Nat, got : Seq(Units)] /\ delivered \in Seq(Seq(Units))
  /\ Sized

Channels ==
  /\ toHub \in Seq(Units) /\ toGard \in Seq(Units)
  /\ errors \in 0 .. MaxErrors /\ Announced

LEMMA TypesParts ==
  Types <=> /\ Own /\ Channels
            /\ gard \in {"idle", "waiting"} /\ sent \in 0 .. Len(Sends)
            /\ gard = "waiting" => sent < Len(Sends)
  BY DEF Types, TypeOK, Own, Channels

LEMMA ByHub ==
  ASSUME Types, Own', Channels', UNCHANGED <<gard, sent>>
  PROVE  Types'
  BY DEF Types, TypeOK, Own, Channels

LEMMA NoneTyped == NoReq \in Request /\ NoFrame \in [size : Nat, got : Seq(Units)]
<1>1. MaxRequests \in Nat /\ << >> \in Seq(Units)
  BY HubAssumption DEF HubAssumption
<1> QED
  BY <1>1 DEF NoReq, NoFrame, Request

\* What comes is appended to what a request has read
LEMMA GotTyped ==
  ASSUME req \in Request, NEW g \in Seq(Units)
  PROVE  /\ [req EXCEPT !.got = g] \in Request
         /\ [req EXCEPT !.got = @ \o g] \in Request
<1>1. req.got \in Seq(Units)
  BY DEF Request
<1>2. req.got \o g \in Seq(Units)
  BY <1>1, ConcatProperties
<1> QED
  BY <1>2 DEF Request

LEMMA ReceiveTypes ==
  ASSUME Types,
         \/ CommandInProgress \/ ReadCommandByte \/ ReadOriginator \/ WriteSyncResponse
         \/ ReadSendHeader \/ ReadPeek \/ ReadPayload
  PROVE  Types' /\ Takes
<1> USE DEF Goto
<1>1. Own /\ Channels /\ 1 \in Nat
  BY TypesParts
<1>2. CASE CommandInProgress
  <2>1. Takes /\ Channels'
    BY <1>1, <1>2, Silent DEF CommandInProgress, Channels
  <2>2. Own'
    BY <1>1, <1>2 DEF CommandInProgress, Own, PCs, Sized
  <2> QED
    BY <1>2, <2>1, <2>2, ByHub DEF CommandInProgress
<1>3. CASE ReadCommandByte
  <2>1. Takes /\ Channels'
    BY <1>1, <1>3, Reads DEF ReadCommandByte, Channels
  <2>2. Own'
    BY <1>1, <1>3 DEF ReadCommandByte, Own, PCs, Sized
  <2> QED
    BY <1>3, <2>1, <2>2, ByHub DEF ReadCommandByte
<1>4. CASE ReadOriginator
  <2>1. Takes /\ Channels'
    BY <1>1, <1>4, Reads DEF ReadOriginator, Channels
  <2>2. Own'
    BY <1>1, <1>4 DEF ReadOriginator, Own, PCs, Sized
  <2> QED
    BY <1>4, <2>1, <2>2, ByHub DEF ReadOriginator
<1>5. CASE WriteSyncResponse
  <2>1. Unit("syncResponse", 0) \in Units
    BY UnitType DEF UnitKinds
  <2>2. Takes /\ Channels'
    BY <1>1, <1>5, <2>1, Writes DEF WriteSyncResponse, Channels
  <2>3. Own'
    BY <1>1, <1>5 DEF WriteSyncResponse, Own, PCs, Sized
  <2> QED
    BY <1>5, <2>2, <2>3, ByHub DEF WriteSyncResponse
<1>6. CASE ReadSendHeader
  <2>1. Takes /\ Channels'
    BY <1>1, <1>6, Reads DEF ReadSendHeader, Channels
  <2>2. Own'
    <3>1. CASE EndSend
      BY <1>1, <1>6, <3>1, NoneTyped DEF ReadSendHeader, EndSend, Own, PCs, Sized
    <3>2. CASE /\ ReadOk(1) /\ Head(toHub).kind = "send" /\ Goto("peek")
               /\ frame' = [size |-> Sends[Head(toHub).of].size, got |-> << >>]
               /\ UNCHANGED command_execution
      <4>1. Head(toHub).of \in 1 .. sent /\ sent \in 0 .. Len(Sends)
        BY <3>2, ReadOne, TypesParts DEF Types, Announced
      <4>2. Sends[Head(toHub).of].size \in Nat \ {0}
        BY <4>1, SendsType, PayloadType
      <4>3. frame' \in [size : Nat, got : Seq(Units)] /\ frame'.size > 0
        BY <3>2, <4>2
      <4> QED
        BY <1>1, <1>6, <3>2, <4>3 DEF ReadSendHeader, Own, PCs, Sized
    <3> QED
      BY <1>6, <3>1, <3>2 DEF ReadSendHeader
  <2> QED
    BY <1>6, <2>1, <2>2, ByHub DEF ReadSendHeader
<1>7. CASE ReadPeek
  <2>1. Takes /\ Channels'
    BY <1>1, <1>7, Reads DEF ReadPeek, Channels
  <2>2. Own'
    <3>1. CASE EndSend
      BY <1>1, <1>7, <3>1, NoneTyped DEF ReadPeek, EndSend, Own, PCs, Sized
    <3>2. CASE /\ ReadOk(1) /\ frame' = [frame EXCEPT !.got = First(1)] /\ Goto("payload")
               /\ UNCHANGED command_execution
      <4>1. First(1) \in Seq(Units)
        BY <3>2, ReadOne
      <4>2. frame' \in [size : Nat, got : Seq(Units)] /\ frame'.size = frame.size
        BY <1>1, <3>2, <4>1 DEF Own
      <4> QED
        BY <1>1, <1>7, <3>2, <4>2 DEF ReadPeek, Own, PCs, Sized
    <3> QED
      BY <1>7, <3>1, <3>2 DEF ReadPeek
  <2> QED
    BY <1>7, <2>1, <2>2, ByHub DEF ReadPeek
<1>8. CASE ReadPayload
  <2> DEFINE n == frame.size - 1
  <2>1. n \in Nat /\ frame.got \in Seq(Units) /\ delivered \in Seq(Seq(Units))
    BY <1>1, <1>8 DEF ReadPayload, Own, Sized
  <2>2. /\ ReadOk(n) \/ ReadShort(n)
        /\ \/ ReadOk(n) /\ delivered' = Append(delivered, frame.got \o First(n))
           \/ UNCHANGED delivered
        /\ UNCHANGED <<sent, gard, stop, req, requests, answers>> /\ EndSend
    BY <1>8 DEF ReadPayload
  <2> HIDE DEF n
  <2>3. Takes /\ Channels'
    BY <1>1, <2>1, <2>2, Reads DEF Channels
  <2>4. delivered' \in Seq(Seq(Units))
    <3>1. CASE ReadOk(n) /\ delivered' = Append(delivered, frame.got \o First(n))
      <4>1. frame.got \o First(n) \in Seq(Units)
        BY <2>1, <3>1, ReadUnits, ConcatProperties
      <4> QED
        BY <2>1, <3>1, <4>1, Grown
    <3> QED
      BY <2>1, <2>2, <3>1
  <2>5. Own'
    BY <1>1, <2>2, <2>4, NoneTyped DEF EndSend, Own, PCs, Sized
  <2> QED
    BY <2>2, <2>3, <2>5, ByHub
<1> QED
  BY <1>2, <1>3, <1>4, <1>5, <1>6, <1>7, <1>8

LEMMA RequestTypes ==
  ASSUME Types,
         \/ SendAppRequest \/ RecvPartialResponse \/ RecvResponse
         \/ RecvAppResponse \/ SendData \/ CompleteRequest \/ IdleReturns
  PROVE  Types' /\ Takes
<1> USE DEF Goto
<1>1. Own /\ Channels /\ 1 \in Nat
  BY TypesParts
<1>2. req \in Request /\ req.id \in Nat
  BY <1>1 DEF Own, Request
<1>3. CASE SendAppRequest
  <2>1. Unit("appRequest", req.id) \in Units
    BY <1>2, UnitType DEF UnitKinds
  <2>2. Takes /\ Channels'
    BY <1>1, <1>3, <2>1, Writes DEF SendAppRequest, Channels
  <2>3. Own'
    BY <1>1, <1>3, NoneTyped DEF SendAppRequest, FailRequest, Own, PCs, Requesting, Sized
  <2> QED
    BY <1>3, <2>2, <2>3, ByHub DEF SendAppRequest
<1>4. CASE RecvPartialResponse \/ RecvResponse \/ RecvAppResponse
  <2>1. /\ ReadOk(1) \/ ReadShort(1)
        /\ UNCHANGED <<command_execution, stop, requests, answers, frame, delivered, gard, sent>>
    BY <1>4 DEF RecvPartialResponse, RecvResponse, RecvAppResponse
  <2>2. Takes /\ Channels'
    BY <1>1, <2>1, Reads DEF Channels
  <2>3. AfterResponse \in {"appResponse", "data", "complete"}
    BY DEF AfterResponse
  <2>4. req' \in Request /\ pc' \in Requesting \cup {"idle"}
    <3>1. CASE FailRequest
      BY <3>1, NoneTyped DEF FailRequest
    <3>2. CASE /\ ReadOk(1) /\ pc' \in {"rest", "complete", AfterResponse}
               /\ req' = [req EXCEPT !.got = First(1)] \/ req' = [req EXCEPT !.got = @ \o First(1)]
      <4>1. First(1) \in Seq(Units)
        BY <3>2, ReadOne
      <4>2. req' \in Request
        BY <1>2, <3>2, <4>1, GotTyped
      <4> QED
        BY <2>3, <3>2, <4>2 DEF Requesting
    <3> QED
      BY <1>4, <3>1, <3>2 DEF RecvPartialResponse, RecvResponse, RecvAppResponse
  <2>5. Own'
    BY <1>1, <2>1, <2>4 DEF Own, PCs, Requesting, Sized
  <2> QED
    BY <2>1, <2>2, <2>5, ByHub
<1>5. CASE SendData
  <2>1. Unit("payload", req.id) \in Units
    BY <1>2, UnitType DEF UnitKinds
  <2>2. Takes /\ Channels'
    BY <1>1, <1>5, <2>1, Writes, Silent DEF SendData, Channels
  <2>3. Own'
    BY <1>1, <1>2, <1>5, NoneTyped DEF SendData, FailRequest, Own, PCs, Requesting, Sized
  <2> QED
    BY <1>5, <2>2, <2>3, ByHub DEF SendData
<1>6. CASE CompleteRequest
  <2>1. Takes /\ Channels'
    BY <1>1, <1>6, Silent DEF CompleteRequest, Channels
  <2>2. Own'
    BY <1>1, <1>2, <1>6, NoneTyped DEF CompleteRequest, Own, PCs, Sized
  <2> QED
    BY <1>6, <2>1, <2>2, ByHub DEF CompleteRequest
<1>7. CASE IdleReturns
  <2>1. Takes /\ Channels'
    BY <1>1, <1>7, Silent DEF IdleReturns, Channels
  <2>2. Own'
    BY <1>1, <1>7 DEF IdleReturns, Own, PCs, Sized
  <2> QED
    BY <1>7, <2>1, <2>2, ByHub DEF IdleReturns
<1> QED
  BY <1>3, <1>4, <1>5, <1>6, <1>7

LEMMA DispatchTypes ==
  ASSUME Types, Dispatch
  PROVE  Types' /\ Takes
  BY ReceiveTypes, RequestTypes DEF Dispatch

LEMMA BeginTypes ==
  ASSUME Types, NEW kind \in Kinds, BeginRequest(kind)
  PROVE  Types' /\ Takes
<1> USE DEF Goto
<1>1. Own /\ Channels /\ MaxRequests \in Nat
  BY TypesParts, HubAssumption DEF HubAssumption
<1>2. requests + 1 \in 0 .. MaxRequests /\ requests + 1 \in Nat
  BY <1>1 DEF BeginRequest, Own
<1>3. Unit(kind, requests + 1) \in Units
  BY <1>2, HubAssumption, UnitType DEF HubAssumption, UnitKinds
<1>4. Takes /\ Channels'
  BY <1>1, <1>3, Writes DEF BeginRequest, Channels
<1>5. Own'
  <2>1. CASE WriteFails /\ UNCHANGED <<pc, command_execution, req>>
    BY <1>1, <1>2, <2>1 DEF BeginRequest, Own, Sized
  <2>2. CASE /\ req' = [id |-> requests + 1, kind |-> kind, got |-> << >>,
                         clean |-> toHub = << >> /\ toGard = << >>]
             /\ command_execution' = TRUE
             /\ pc' = IF kind = "app" THEN "sendApp" ELSE "partial"
    <3>1. (toHub = << >> /\ toGard = << >>) \in BOOLEAN /\ << >> \in Seq(Units)
      OBVIOUS
    <3>2. req' \in Request
      BY <1>2, <2>2, <3>1 DEF Request
    <3> QED
      BY <1>1, <1>2, <2>2, <3>2 DEF BeginRequest, Own, PCs, Requesting, Sized
  <2> QED
    BY <2>1, <2>2 DEF BeginRequest
<1> QED
  BY <1>4, <1>5, ByHub DEF BeginRequest

LEMMA StopTypes ==
  ASSUME Types, Kt_StopDispatcher
  PROVE  Types' /\ Takes
<1>1. Own /\ Channels
  BY TypesParts
<1>2. Takes /\ Channels'
  BY <1>1, Silent DEF Kt_StopDispatcher, Channels
<1>3. Own'
  BY <1>1 DEF Kt_StopDispatcher, Own, Sized
<1> QED
  BY <1>2, <1>3, ByHub DEF Kt_StopDispatcher

LEMMA SaysTypes ==
  ASSUME Types, Says
  PROVE  toHub' \in Seq(Units) /\ Announced'
<1>1. toHub \in Seq(Units) /\ Len(toHub) \in Nat
  BY DEF Types, TypeOK
<1> PICK b \in Seq(Units) : /\ toHub' = toHub \o b /\ sent' = sent
                            /\ \A i \in 1 .. Len(b) : b[i].kind # "send"
  BY DEF Says
<1>2. /\ toHub' \in Seq(Units) /\ Len(toHub') = Len(toHub) + Len(b)
      /\ \A i \in 1 .. Len(toHub) : toHub'[i] = toHub[i]
      /\ \A i \in 1 .. Len(b) : toHub'[Len(toHub) + i] = b[i]
  BY <1>1, AfterSaying
<1>3. ASSUME NEW i \in 1 .. Len(toHub'), toHub'[i].kind = "send"
      PROVE  toHub'[i].of \in 1 .. sent'
  <2>1. CASE i \in 1 .. Len(toHub)
    BY <1>2, <1>3, <2>1 DEF Types, Announced
  <2>2. CASE i \notin 1 .. Len(toHub)
    <3>1. i - Len(toHub) \in 1 .. Len(b) /\ Len(toHub) + (i - Len(toHub)) = i
      BY <1>1, <1>2, <2>2
    <3> QED
      BY <1>2, <1>3, <3>1
  <2> QED
    BY <2>1, <2>2
<1> QED
  BY <1>2, <1>3 DEF Announced

LEMMA SendsTypes ==
  ASSUME Types, SendsNext
  PROVE  toHub' \in Seq(Units) /\ Announced'
<1> DEFINE n == sent + 1
<1>1. toHub \in Seq(Units) /\ Len(toHub) \in Nat /\ sent \in Nat
  BY DEF Types, TypeOK
<1>2. /\ n \in 1 .. Len(Sends)
      /\ toHub' \in Seq(Units) /\ Len(toHub') = Len(toHub) + 1 + Sends[n].size
      /\ \A i \in 1 .. Len(toHub) : toHub'[i] = toHub[i]
      /\ toHub'[Len(toHub) + 1] = Unit("send", n)
      /\ \A j \in 1 .. Sends[n].size : toHub'[Len(toHub) + 1 + j] = Payload(n)[j]
  BY <1>1, AfterSend
<1>3. n \in 1 .. sent' /\ sent' = sent + 1
  BY <1>1 DEF SendsNext
<1> HIDE DEF n
<1>4. /\ Sends[n].size \in Nat \ {0}
      /\ \A j \in 1 .. Sends[n].size : Payload(n)[j].kind # "send" /\ Payload(n)[j].of = n
  BY <1>2, PayloadType
<1>5. ASSUME NEW i \in 1 .. Len(toHub'), toHub'[i].kind = "send"
      PROVE  toHub'[i].of \in 1 .. sent'
  <2>1. CASE i \in 1 .. Len(toHub)
    <3>1. toHub[i].of \in 1 .. sent
      BY <1>2, <1>5, <2>1 DEF Types, Announced
    <3> QED
      BY <1>1, <1>2, <1>3, <2>1, <3>1
  <2>2. CASE i = Len(toHub) + 1
    BY <1>2, <1>3, <2>2 DEF Unit
  <2>3. CASE i > Len(toHub) + 1
    <3>1. i - Len(toHub) - 1 \in 1 .. Sends[n].size /\ Len(toHub) + 1 + (i - Len(toHub) - 1) = i
      BY <1>1, <1>2, <1>4, <2>3
    <3> QED
      BY <1>2, <1>4, <1>5, <3>1
  <2> QED
    BY <1>1, <2>1, <2>2, <2>3
<1> QED
  BY <1>2, <1>5 DEF Announced

\* What GARD says when it asks to send and when it answers
LEMMA Words ==
  ASSUME NEW x \in Units, NEW y \in Units, NEW z \in Units
  PROVE  /\ <<x>> \in Seq(Units) /\ Len(<<x>>) = 1 /\ <<x>>[1] = x
         /\ <<x, y>> \in Seq(Units) /\ Len(<<x, y>>) = 2
         /\ <<x, y>>[1] = x /\ <<x, y>>[2] = y
         /\ LET xyz == Append(<<x, y>>, z)
            IN /\ xyz \in Seq(Units) /\ Len(xyz) = 3
               /\ xyz[1] = x /\ xyz[2] = y /\ xyz[3] = z
<1>1. <<x>> \in Seq(Units) /\ Len(<<x>>) = 1 /\ <<x>>[1] = x
  OBVIOUS
<1>2. <<x, y>> \in Seq(Units) /\ Len(<<x, y>>) = 2 /\ <<x, y>>[1] = x /\ <<x, y>>[2] = y
  OBVIOUS
<1> DEFINE xy  == <<x, y>>
           xyz == Append(xy, z)
<1> HIDE DEF xy
<1>3. /\ xyz \in Seq(Units) /\ Len(xyz) = Len(xy) + 1
      /\ \A i \in 1 .. Len(xy) : xyz[i] = xy[i]
      /\ xyz[Len(xy) + 1] = z
  BY <1>2, Grown DEF xy
<1> HIDE DEF xyz
<1>4. xyz \in Seq(Units) /\ Len(xyz) = 3 /\ xyz[1] = x /\ xyz[2] = y /\ xyz[3] = z
  <2>1. Len(xy) = 2 /\ xy[1] = x /\ xy[2] = y
    BY <1>2 DEF xy
  <2> QED
    BY <1>3, <2>1
<1> QED
  BY <1>1, <1>2, <1>4 DEF xyz, xy

LEMMA GardSyncTypes ==
  ASSUME Types, GardSync
  PROVE  Types' /\ Says
<1> DEFINE x == Unit("sync", sent + 1)
           y == Unit("gardId", sent + 1)
<1>1. Own /\ Channels /\ sent \in Nat
  BY TypesParts DEF Types, TypeOK
<1>2. x \in Units /\ y \in Units /\ x.kind = "sync" /\ y.kind = "gardId"
  BY <1>1, UnitType DEF UnitKinds
<1>3. toHub' = toHub \o <<x, y>>
  BY DEF GardSync
<1> HIDE DEF x, y
<1>4. <<x, y>> \in Seq(Units) /\ \A i \in 1 .. Len(<<x, y>>) : <<x, y>>[i].kind # "send"
  BY <1>2, Words
<1>5. Says
  BY <1>3, <1>4 DEF Says, GardSync
<1>6. Channels'
  BY <1>1, <1>5, SaysTypes DEF GardSync, Channels
<1>7. Own'
  BY <1>1 DEF GardSync, hub, Own, Sized
<1>8. /\ gard' \in {"idle", "waiting"} /\ sent' \in 0 .. Len(Sends) /\ sent' < Len(Sends)
  BY TypesParts DEF GardSync
<1> QED
  BY <1>5, <1>6, <1>7, <1>8 DEF Types, TypeOK, Own, Channels

LEMMA GardSendTypes ==
  ASSUME Types, GardSend
  PROVE  Types' /\ SendsNext
<1>1. Own /\ Channels /\ sent \in Nat /\ sent < Len(Sends)
  BY TypesParts DEF GardSend, Types, TypeOK
<1>2. SendsNext
  BY <1>1 DEF GardSend, SendsNext
<1>3. Channels'
  BY <1>1, <1>2, SendsTypes, HeadTailProperties DEF GardSend, Channels
<1>4. Own'
  BY <1>1 DEF GardSend, hub, Own, Sized
<1>5. gard' = "idle" /\ sent' \in 0 .. Len(Sends)
  BY <1>1, SendsType DEF GardSend
<1> QED
  BY <1>2, <1>3, <1>4, <1>5 DEF Types, TypeOK, Own, Channels

LEMMA GardAnswerTypes ==
  ASSUME Types, GardAnswer
  PROVE  Types' /\ Says
<1> DEFINE u == Head(toGard)
           r == Unit("response", u.of)
           s == Unit("rest", u.of)
           a == Unit("appResponse", u.of)
           k == Unit("ack", u.of)
<1>1. Own /\ Channels
  BY TypesParts
<1>2. u \in Units /\ toGard # << >> /\ Tail(toGard) \in Seq(Units)
  BY <1>1, HeadTailProperties DEF GardAnswer, Channels
<1>3. u.of \in Nat
  BY <1>2 DEF Units
<1>4. /\ r \in Units /\ s \in Units /\ a \in Units /\ k \in Units
      /\ r.kind = "response" /\ s.kind = "rest" /\ a.kind = "appResponse" /\ k.kind = "ack"
  BY <1>3, UnitType DEF UnitKinds
<1>5. \/ toHub' = toHub \o <<r, s>> /\ toGard' = Tail(toGard)
      \/ toHub' = toHub \o Append(<<r, s>>, a) /\ toGard' = Tail(Tail(toGard)) /\ Len(toGard) > 1
      \/ toHub' = Append(toHub, k) /\ toGard' = Tail(toGard)
  BY DEF GardAnswer
<1> HIDE DEF u, r, s, a, k
<1>6. toGard' \in Seq(Units)
  <2>1. CASE Len(toGard) > 1 /\ toGard' = Tail(Tail(toGard))
    <3>1. Len(Tail(toGard)) = Len(toGard) - 1
      BY <1>1, <1>2, HeadTailProperties DEF Channels
    <3>2. Tail(toGard) # << >>
      <4>1. Len(toGard) \in Nat
        BY <1>1 DEF Channels
      <4>2. Len(Tail(toGard)) > 0
        BY <2>1, <3>1, <4>1
      <4> QED
        BY <4>2, EmptySeq
    <3> QED
      BY <1>2, <2>1, <3>2, HeadTailProperties
  <2> QED
    BY <1>2, <1>5, <2>1
<1>7. Append(toHub, k) = toHub \o <<k>>
  BY <1>1, <1>4, AppendIsConcat DEF Channels
<1>8. /\ <<r, s>> \in Seq(Units) /\ \A i \in 1 .. Len(<<r, s>>) : <<r, s>>[i].kind # "send"
      /\ Append(<<r, s>>, a) \in Seq(Units)
      /\ \A i \in 1 .. Len(Append(<<r, s>>, a)) : Append(<<r, s>>, a)[i].kind # "send"
      /\ <<k>> \in Seq(Units) /\ \A i \in 1 .. Len(<<k>>) : <<k>>[i].kind # "send"
  BY <1>4, Words
<1>9. Says
  BY <1>5, <1>7, <1>8 DEF Says, GardAnswer
<1>10. Channels'
  BY <1>1, <1>6, <1>9, SaysTypes DEF GardAnswer, Channels
<1>11. Own'
  BY <1>1 DEF GardAnswer, hub, Own, Sized
<1> QED
  BY <1>9, <1>10, <1>11, ByHub DEF GardAnswer

LEMMA StepTypes ==
  ASSUME Types, [Next]_vars
  PROVE  Types' /\ (Takes \/ Says \/ SendsNext)
<1>1. CASE UNCHANGED vars
  <2>1. Own /\ Channels
    BY TypesParts
  <2>2. Takes /\ Channels'
    BY <1>1, <2>1, Silent DEF vars, Channels
  <2>3. Own'
    BY <1>1, <2>1 DEF vars, hub, Own, Sized
  <2> QED
    BY <1>1, <2>2, <2>3, ByHub DEF vars
<1> QED
  BY <1>1, DispatchTypes, BeginTypes, StopTypes, GardSyncTypes, GardSendTypes, GardAnswerTypes
     DEF Next, Gard

(* Every variable of the link has its type, whatever GARD sends, how many *)
(* requests there are and how many reads and writes fail.                  *)
THEOREM TypeCorrect == Spec => []TypeOK
<1>1. Init => Types
  BY InitTypes
<1>2. Types /\ [Next]_vars => Types'
  BY StepTypes
<1>3. Types => TypeOK
  BY DEF Types
<1> QED
  BY <1>1, <1>2, <1>3, PTL DEF Spec

-----------------------------------------------------------------------------
(* Responses                                                               *)

\* The response to the request id, and how long it is
Reply(i, id)   == Unit(CASE i = 1 -> "response" [] i = 2 -> "rest" [] OTHER -> "appResponse", id)
ReplyLen(kind) == IF kind = "app" THEN 3 ELSE 2

\* A sequence is the response from the k-th unit on.
IsReply(s, k, id, n) == Len(s) = n - k /\ \A i \in 1 .. n - k : s[i] = Reply(k + i, id)

HasRead(k) == IsReply(req.got, 0, req.id, k)
ToCome(k)  == toGard = << >> /\ IsReply(toHub, k, req.id, ReplyLen(req.kind))

\* The request is on its way, all of it or the first part.
FirstSent == toHub = << >> /\ Len(toGard) = 1 /\ toGard[1] = Unit(req.kind, req.id)
AllSent   == IF req.kind = "app"
             THEN toHub = << >> /\ Len(toGard) = 2 /\ toGard[1] = Unit(req.kind, req.id)
             ELSE FirstSent

\* A request that found the line quiet has it for itself: what it has read and
\* what is to come are the response to it.
Alone ==
  CASE pc = "sendApp"     -> req.kind = "app" /\ HasRead(0) /\ FirstSent
    [] pc = "partial"     -> HasRead(0) /\ (AllSent \/ ToCome(0))
    [] pc = "rest"        -> HasRead(1) /\ ToCome(1)
    [] pc = "appResponse" -> req.kind = "app" /\ HasRead(2) /\ ToCome(2)
    [] pc = "data"        -> req.kind = "data" /\ HasRead(2) /\ ToCome(2)
    [] pc = "complete"    -> HasRead(ReplyLen(req.kind))

Undisturbed ==
  pc \in Requesting => gard = "idle" /\ req.kind \in Kinds /\ (req.clean => Alone)

Answered(a) == a.clean => IsReply(a.got, 0, a.id, ReplyLen(a.kind))

RequestInv == Types /\ Undisturbed /\ \A a \in answers : Answered(a)

LEMMA AnsweredMatches ==
  ASSUME Types, \A a \in answers : Answered(a)
  PROVE  ResponseMatches
<1> SUFFICES ASSUME NEW a \in answers, a.clean
             PROVE  /\ \A i \in DOMAIN a.got : a.got[i].of = a.id
                    /\ [i \in DOMAIN a.got |-> a.got[i].kind] =
                         IF a.kind = "app" THEN <<"response", "rest", "appResponse">>
                                           ELSE <<"response", "rest">>
  BY DEF ResponseMatches
<1> DEFINE n == ReplyLen(a.kind)
<1>1. a.got \in Seq(Units) /\ n \in {2, 3}
  BY DEF Types, TypeOK, Request, ReplyLen
<1>2. Len(a.got) = n /\ \A i \in 1 .. n : a.got[i] = Reply(i, a.id)
  BY <1>1 DEF Answered, IsReply
<1>3. DOMAIN a.got = 1 .. n
  BY <1>1, <1>2
<1> DEFINE word(i) == CASE i = 1 -> "response" [] i = 2 -> "rest" [] OTHER -> "appResponse"
<1>4. \A i \in 1 .. n : a.got[i].of = a.id /\ a.got[i].kind = word(i)
  <2>1. \A i : Reply(i, a.id).of = a.id /\ Reply(i, a.id).kind = word(i)
    BY DEF Reply, Unit
  <2> HIDE DEF n, word
  <2> QED
    BY <1>2, <2>1
<1>5. [i \in 1 .. n |-> a.got[i].kind] =
        [i \in 1 .. n |-> word(i)]
  <2> HIDE DEF n, word
  <2> QED
    BY <1>4
<1>6. CASE a.kind = "app"
  <2>1. n = 3
    BY <1>6 DEF ReplyLen
  <2>2. [i \in 1 .. 3 |-> word(i)]
          = <<"response", "rest", "appResponse">>
    OBVIOUS
  <2> QED
    BY <1>3, <1>4, <1>5, <1>6, <2>1, <2>2
<1>7. CASE a.kind # "app"
  <2>1. n = 2
    BY <1>7 DEF ReplyLen
  <2>2. [i \in 1 .. 2 |-> word(i)]
          = <<"response", "rest">>
    OBVIOUS
  <2> QED
    BY <1>3, <1>4, <1>5, <1>7, <2>1, <2>2
<1> QED
  BY <1>6, <1>7

LEMMA InitRequest == Init => RequestInv
  BY InitTypes DEF Init, RequestInv, Undisturbed, Requesting

\* The next unit of a response is read,
LEMMA TakeReply ==
  ASSUME toHub \in Seq(Units), ReadOk(1),
         NEW id, NEW k \in Nat, NEW n \in Nat, IsReply(toHub, k, id, n)
  PROVE  toHub[1] = Reply(k + 1, id) /\ IsReply(toHub', k + 1, id, n)
<1>1. Len(toHub) = n - k /\ Len(toHub) >= 1 /\ Taken(1) /\ 1 \in 0 .. Len(toHub)
  BY DEF IsReply, ReadOk
<1>2. Len(toHub') = n - (k + 1) /\ \A i \in 1 .. Len(toHub') : toHub'[i] = toHub[1 + i]
  BY <1>1, AfterTaking
<1>3. \A i \in 1 .. n - (k + 1) :
        1 + i \in 1 .. n - k /\ k + (1 + i) = (k + 1) + i
  OBVIOUS
<1>4. \A i \in 1 .. n - (k + 1) : toHub'[i] = Reply((k + 1) + i, id)
  BY <1>2, <1>3 DEF IsReply
<1>5. 1 \in 1 .. n - k
  BY <1>1
<1> QED
  BY <1>2, <1>4, <1>5 DEF IsReply

\* and kept
LEMMA KeepReply ==
  ASSUME NEW g \in Seq(Units), NEW id, NEW k \in Nat, IsReply(g, 0, id, k),
         NEW x \in Units, x = Reply(k + 1, id)
  PROVE  IsReply(g \o <<x>>, 0, id, k + 1)
<1>1. g \o <<x>> = Append(g, x)
  BY AppendIsConcat
<1>2. Len(g) = k
  BY DEF IsReply
<1>3. /\ Len(Append(g, x)) = k + 1 /\ \A i \in 1 .. k : Append(g, x)[i] = g[i]
      /\ Append(g, x)[k + 1] = x
  BY <1>2, Grown
<1>4. ASSUME NEW i \in 1 .. (k + 1) - 0
      PROVE  Append(g, x)[i] = Reply(0 + i, id)
  <2>1. 0 + i = i /\ (i = k + 1 \/ i \in 1 .. k) /\ 1 .. k = 1 .. k - 0
    OBVIOUS
  <2>2. CASE i = k + 1
    BY <1>3, <2>1, <2>2
  <2>3. CASE i \in 1 .. k
    BY <1>3, <2>1, <2>3 DEF IsReply
  <2> QED
    BY <2>1, <2>2, <2>3
<1> QED
  BY <1>1, <1>3, <1>4 DEF IsReply

\* Outside of requests nothing is said of them.
LEMMA NotRequesting ==
  ASSUME RequestInv, Types', pc' \notin Requesting, UNCHANGED answers
  PROVE  RequestInv'
  BY DEF RequestInv, Undisturbed, Answered

LEMMA ReceiveRequest ==
  ASSUME RequestInv, Types',
         \/ CommandInProgress \/ ReadCommandByte \/ ReadOriginator \/ WriteSyncResponse
         \/ ReadSendHeader \/ ReadPeek \/ ReadPayload \/ IdleReturns \/ Kt_StopDispatcher
  PROVE  RequestInv'
<1>1. UNCHANGED answers
  BY DEF CommandInProgress, ReadCommandByte, ReadOriginator, WriteSyncResponse,
         ReadSendHeader, ReadPeek, ReadPayload, IdleReturns, Kt_StopDispatcher
<1>2. pc' \in {"check", "idle", "originator", "respond", "header", "peek", "payload", "stopped"}
  BY DEF CommandInProgress, ReadCommandByte, ReadOriginator, WriteSyncResponse,
         ReadSendHeader, ReadPeek, ReadPayload, IdleReturns, Kt_StopDispatcher, EndSend, Goto
<1>3. pc' \notin Requesting
  BY <1>2 DEF Requesting
<1> QED
  BY <1>1, <1>3, NotRequesting

LEMMA BeginAlone ==
  ASSUME RequestInv, Types', Crossing = FALSE, NEW kind \in Kinds, BeginRequest(kind)
  PROVE  RequestInv'
<1>1. CASE WriteFails /\ UNCHANGED <<pc, command_execution, req>>
  <2>1. pc' \notin Requesting /\ UNCHANGED answers
    BY <1>1 DEF BeginRequest, Requesting
  <2> QED
    BY <2>1, NotRequesting
<1>2. CASE /\ WriteOk(Unit(kind, requests + 1))
           /\ req' = [id |-> requests + 1, kind |-> kind, got |-> << >>,
                      clean |-> toHub = << >> /\ toGard = << >>]
           /\ pc' = IF kind = "app" THEN "sendApp" ELSE "partial"
  <2>1. gard = "idle" /\ gard' = "idle" /\ UNCHANGED answers
    BY DEF BeginRequest, HubMaySpeak
  <2>2. /\ req'.kind = kind /\ req'.id = requests + 1 /\ req'.got = << >>
        /\ req'.clean => toHub = << >> /\ toGard = << >>
    BY <1>2
  <2>3. ASSUME req'.clean
        PROVE  Alone'
    <3>1. /\ toHub' = << >> /\ Len(toGard') = 1 /\ toGard'[1] = Unit(kind, requests + 1)
      BY <1>2, <2>2, <2>3 DEF WriteOk
    <3>2. HasRead(0)'
      BY <2>2 DEF HasRead, IsReply
    <3>3. FirstSent'
      BY <2>2, <3>1 DEF FirstSent
    <3>4. CASE kind = "app"
      BY <1>2, <2>2, <3>2, <3>3, <3>4 DEF Alone
    <3>5. CASE kind # "app"
      BY <1>2, <2>2, <3>2, <3>3, <3>5 DEF Alone, AllSent
    <3> QED
      BY <3>4, <3>5
  <2> QED
    BY <2>1, <2>2, <2>3 DEF RequestInv, Undisturbed, Answered
<1> QED
  BY <1>1, <1>2 DEF BeginRequest, Goto

\* A request that fails
LEMMA FailsAlone ==
  ASSUME RequestInv, Types', FailRequest, UNCHANGED answers
  PROVE  RequestInv'
<1>1. pc' \notin Requesting
  BY DEF FailRequest, Goto, Requesting
<1> QED
  BY <1>1, NotRequesting

LEMMA SendAlone ==
  ASSUME RequestInv, Types', SendAppRequest
  PROVE  RequestInv'
<1>1. CASE FailRequest
  BY <1>1, FailsAlone DEF SendAppRequest
<1>2. CASE WriteOk(Unit("appRequest", req.id)) /\ Goto("partial") /\ UNCHANGED req
  <2>1. gard' = "idle" /\ req'.kind \in Kinds /\ UNCHANGED answers
    BY <1>2 DEF SendAppRequest, RequestInv, Undisturbed, Requesting
  <2>2. ASSUME req'.clean
        PROVE  Alone'
    <3>1. req.kind = "app" /\ HasRead(0) /\ FirstSent /\ UNCHANGED req
      BY <1>2, <2>2 DEF SendAppRequest, RequestInv, Undisturbed, Requesting, Alone
    <3>2. toGard \in Seq(Units) /\ req.id \in Nat
      BY DEF RequestInv, Types, TypeOK, Request
    <3>3. Unit("appRequest", req.id) \in Units
      BY <3>2, UnitType DEF UnitKinds
    <3>4. /\ toHub' = << >> /\ Len(toGard') = 2 /\ toGard'[1] = Unit(req.kind, req.id)
      <4>1. toHub' = toHub /\ toGard' = Append(toGard, Unit("appRequest", req.id))
        BY <1>2 DEF WriteOk
      <4>2. 1 \in 1 .. Len(toGard) /\ Len(toGard) + 1 = 2
        BY <3>1 DEF FirstSent
      <4> DEFINE u == Unit("appRequest", req.id)
      <4> HIDE DEF u
      <4>3. u \in Units
        BY <3>3 DEF u
      <4>4. /\ Len(Append(toGard, u)) = Len(toGard) + 1
            /\ \A i \in 1 .. Len(toGard) : Append(toGard, u)[i] = toGard[i]
        BY <3>2, <4>3, Grown
      <4> QED
        BY <3>1, <4>1, <4>2, <4>4 DEF FirstSent, u
    <3>5. AllSent' /\ HasRead(0)'
      BY <3>1, <3>4 DEF AllSent, HasRead
    <3> QED
      BY <1>2, <3>5 DEF Alone, Goto
  <2> QED
    BY <2>1, <2>2 DEF RequestInv, Undisturbed, Answered
<1> QED
  BY <1>1, <1>2 DEF SendAppRequest

LEMMA ReceiveAlone ==
  ASSUME RequestInv, Types', RecvPartialResponse \/ RecvResponse \/ RecvAppResponse
  PROVE  RequestInv'
<1>1. CASE FailRequest
  BY <1>1, FailsAlone DEF RecvPartialResponse, RecvResponse, RecvAppResponse
<1>2. CASE ReadOk(1)
  <2> DEFINE x == toHub[1]
  <2>1. /\ toHub \in Seq(Units) /\ req \in Request /\ req.got \in Seq(Units)
        /\ req.id \in Nat /\ req' \in Request
    BY DEF RequestInv, Types, TypeOK, Request
  <2>2. x \in Units /\ First(1) = <<x>> /\ toHub # << >>
    BY <1>2, ReadOne DEF RequestInv
  <2>3. pc \in {"partial", "rest", "appResponse"} /\ pc \in Requesting
    BY DEF RecvPartialResponse, RecvResponse, RecvAppResponse, Requesting
  <2> PICK k \in Nat : /\ pc = "partial" => k = 0
                       /\ pc = "rest" => k = 1
                       /\ pc = "appResponse" => k = 2
    <3>1. 0 \in Nat /\ 1 \in Nat /\ 2 \in Nat
      OBVIOUS
    <3> QED
      BY <2>3, <3>1
  <2>4. /\ gard = "idle" /\ req.kind \in Kinds
        /\ UNCHANGED <<answers, gard, toGard>>
    BY <1>2, <2>3 DEF RecvPartialResponse, RecvResponse, RecvAppResponse, RequestInv, Undisturbed,
                      ReadOk
  <2>5. CASE ~ (ReadShort(1) /\ FailRequest)
    <3>1. pc' = CASE pc = "partial" -> "rest" [] pc = "rest" -> AfterResponse
                  [] pc = "appResponse" -> "complete"
      BY <2>5 DEF RecvPartialResponse, RecvResponse, RecvAppResponse, Goto
    <3>2. req' = IF pc = "partial" THEN [req EXCEPT !.got = <<x>>]
                                   ELSE [req EXCEPT !.got = @ \o <<x>>]
      BY <2>2, <2>5 DEF RecvPartialResponse, RecvResponse, RecvAppResponse
    <3>3. /\ req'.id = req.id /\ req'.kind = req.kind /\ req'.clean = req.clean
          /\ req'.got = IF pc = "partial" THEN <<x>> ELSE req.got \o <<x>>
      BY <2>1, <3>2 DEF Request
    <3>4. ASSUME req.clean
          PROVE  Alone'
      <4>1. HasRead(k) /\ ToCome(k)
        BY <2>2, <2>3, <3>4 DEF RequestInv, Undisturbed, Alone, AllSent, FirstSent
      <4> DEFINE n == ReplyLen(req.kind)
      <4>2. n \in Nat
        BY DEF ReplyLen
      <4>3. x = Reply(k + 1, req.id) /\ IsReply(toHub', k + 1, req.id, n)
        <5> HIDE DEF n
        <5> QED
          BY <1>2, <2>1, <4>1, <4>2, TakeReply DEF ToCome, n
      <4>4. IsReply(req.got \o <<x>>, 0, req.id, k + 1)
        <5> HIDE DEF n, x
        <5> QED
          BY <2>1, <2>2, <4>1, <4>2, <4>3, KeepReply DEF HasRead, x
      <4>5. pc = "partial" => req.got \o <<x>> = <<x>>
        <5>1. ASSUME pc = "partial"
              PROVE  req.got = << >>
          <6>1. k = 0
            BY <5>1
          <6>2. Len(req.got) = 0 - 0
            BY <4>1, <6>1 DEF HasRead, IsReply
          <6> QED
            BY <2>1, <6>2, EmptySeq
        <5>2. << >> \o <<x>> = <<x>>
          BY <2>2, ConcatEmptySeq
        <5> QED
          BY <5>1, <5>2
      <4>6. HasRead(k + 1)' /\ ToCome(k + 1)'
        BY <2>4, <3>3, <4>1, <4>3, <4>4, <4>5 DEF HasRead, ToCome
      <4> HIDE DEF x, n
      <4>7. CASE pc = "partial"
        BY <3>1, <4>6, <4>7 DEF Alone
      <4>8. CASE pc = "rest"
        <5>1. HasRead(2)' /\ ToCome(2)' /\ pc' = AfterResponse
          BY <3>1, <4>6, <4>8
        <5>2. CASE req.kind = "app"
          BY <3>3, <5>1, <5>2 DEF Alone, AfterResponse
        <5>3. CASE req.kind = "data"
          BY <3>3, <5>1, <5>3 DEF Alone, AfterResponse
        <5>4. CASE req.kind \notin {"app", "data"}
          <6>1. pc' = "complete" /\ ReplyLen(req'.kind) = 2
            BY <3>3, <5>1, <5>4 DEF AfterResponse, ReplyLen
          <6> QED
            BY <5>1, <6>1 DEF Alone
        <5> QED
          BY <5>2, <5>3, <5>4
      <4>9. CASE pc = "appResponse"
        <5>1. req.kind = "app"
          BY <2>3, <3>4, <4>9 DEF RequestInv, Undisturbed, Alone
        <5> QED
          BY <3>1, <3>3, <4>6, <4>9, <5>1 DEF Alone, ReplyLen
      <4> QED
        BY <2>3, <4>7, <4>8, <4>9
    <3> QED
      BY <2>4, <3>3, <3>4 DEF RequestInv, Undisturbed, Answered
  <2>6. CASE ReadShort(1) /\ FailRequest
    BY <2>4, <2>6, FailsAlone
  <2> QED
    BY <2>5, <2>6
<1> QED
  BY <1>1, <1>2 DEF RecvPartialResponse, RecvResponse, RecvAppResponse

LEMMA FinishAlone ==
  ASSUME RequestInv, Types', SendData \/ CompleteRequest
  PROVE  RequestInv'
<1>1. CASE FailRequest /\ UNCHANGED answers
  BY <1>1, FailsAlone
<1>2. CASE /\ answers' = answers \cup {req} /\ req' = NoReq /\ pc' = "idle"
           /\ pc \in {"data", "complete"}
  <2>1. pc' \notin Requesting /\ pc \in Requesting
    BY <1>2 DEF Requesting
  <2>2. Answered(req)
    <3>1. ASSUME req.clean
          PROVE  HasRead(ReplyLen(req.kind))
      <4>1. Alone
        BY <2>1, <3>1 DEF RequestInv, Undisturbed
      <4>2. CASE pc = "data"
        <5>1. req.kind = "data" /\ HasRead(2)
          BY <4>1, <4>2 DEF Alone
        <5>2. ReplyLen(req.kind) = 2
          BY <5>1 DEF ReplyLen
        <5> QED
          BY <5>1, <5>2
      <4>3. CASE pc = "complete"
        BY <4>1, <4>3 DEF Alone
      <4> QED
        BY <1>2, <4>2, <4>3
    <3> QED
      BY <3>1 DEF Answered, HasRead
  <2>3. \A a \in answers' : Answered(a)
    BY <1>2, <2>2 DEF RequestInv
  <2> QED
    BY <2>1, <2>3 DEF RequestInv, Undisturbed, Answered
<1>3. CASE SendData /\ Goto("complete") /\ UNCHANGED <<req, answers, toHub, toGard, errors>>
  <2>1. /\ pc = "data" /\ pc \in Requesting /\ pc' = "complete"
        /\ UNCHANGED <<req, answers, gard>>
    BY <1>3 DEF SendData, Goto, Requesting
  <2>2. ASSUME req.clean
        PROVE  Alone'
    <3>1. req.kind = "data" /\ HasRead(2)
      BY <2>1, <2>2 DEF RequestInv, Undisturbed, Alone
    <3>2. ReplyLen(req'.kind) = 2 /\ HasRead(2)'
      BY <2>1, <3>1 DEF ReplyLen, HasRead
    <3> QED
      BY <2>1, <3>2 DEF Alone
  <2> QED
    BY <2>1, <2>2 DEF RequestInv, Undisturbed, Answered
<1> QED
  BY <1>1, <1>2, <1>3 DEF SendData, CompleteRequest, Goto

\* GARD does not begin while a request is under way,
LEMMA GardBegins ==
  ASSUME RequestInv, Types', Crossing = FALSE, GardSync \/ GardSend
  PROVE  RequestInv'
<1>1. pc \notin Requesting
  BY DEF GardSync, GardMaySpeak, GardSend, RequestInv, Undisturbed
<1> QED
  BY <1>1, NotRequesting DEF GardSync, GardSend, hub

\* and answers when it has all of it.
LEMMA GardAnswersAlone ==
  ASSUME RequestInv, Types', GardAnswer
  PROVE  RequestInv'
<1>1. UNCHANGED <<pc, req, answers, gard>>
  BY DEF GardAnswer, hub
<1>2. ASSUME pc \in Requesting, req.clean
      PROVE  Alone'
  <2> DEFINE u == Head(toGard)
             r == Unit("response", u.of)
             s == Unit("rest", u.of)
             a == Unit("appResponse", u.of)
  <2>1. /\ Alone /\ req.kind \in {"app", "reg", "data"} /\ toGard # << >>
        /\ toHub \in Seq(Units) /\ toGard \in Seq(Units) /\ req.id \in Nat
    <3>1. Alone /\ req.kind \in {"app", "reg", "data"}
      BY <1>2, HubAssumption DEF HubAssumption, RequestInv, Undisturbed
    <3>2. toHub \in Seq(Units) /\ toGard \in Seq(Units) /\ req.id \in Nat
      BY DEF RequestInv, Types, TypeOK, Request
    <3> QED
      BY <3>1, <3>2 DEF GardAnswer
  <2>2. CASE pc = "partial"
    <3>1. HasRead(0) /\ AllSent
      BY <1>2, <2>1, <2>2 DEF Alone, ToCome
    <3>2. toHub = << >> /\ u = Unit(req.kind, req.id) /\ u.kind = req.kind /\ u.of = req.id
      <4>1. toHub = << >> /\ toGard[1] = Unit(req.kind, req.id)
        BY <3>1 DEF AllSent, FirstSent
      <4> QED
        BY <2>1, <4>1 DEF Unit
    <3>3. r \in Units /\ s \in Units /\ a \in Units
      BY <2>1, <3>2, UnitType DEF UnitKinds
    <3>4. r = Reply(1, req.id) /\ s = Reply(2, req.id) /\ a = Reply(3, req.id)
      BY <3>2 DEF Reply
    <3> HIDE DEF r, s, a
    <3>5. CASE req.kind = "app"
      <4>1. Len(toGard) = 2 /\ toHub' = toHub \o Append(<<r, s>>, a) /\ toGard' = Tail(Tail(toGard))
        BY <3>1, <3>2, <3>5 DEF AllSent, GardAnswer, r, s, a
      <4>2. /\ Append(<<r, s>>, a) \in Seq(Units) /\ Len(Append(<<r, s>>, a)) = 3
            /\ Append(<<r, s>>, a)[1] = r /\ Append(<<r, s>>, a)[2] = s
            /\ Append(<<r, s>>, a)[3] = a
        BY <3>3, Words
      <4>3. toHub' = Append(<<r, s>>, a)
        BY <3>2, <4>1, <4>2, ConcatEmptySeq
      <4>4. toGard' = << >>
        <5>1. Tail(toGard) \in Seq(Units) /\ Len(Tail(toGard)) = 1
          BY <2>1, <4>1, HeadTailProperties
        <5> QED
          BY <4>1, <5>1, LastTaken
      <4>5. IsReply(toHub', 0, req.id, 3)
        BY <3>4, <4>2, <4>3 DEF IsReply
      <4>6. ToCome(0)' /\ HasRead(0)'
        BY <1>1, <3>1, <3>5, <4>4, <4>5 DEF ToCome, HasRead, ReplyLen
      <4> QED
        BY <1>1, <2>2, <4>6 DEF Alone
    <3>6. CASE req.kind # "app"
      <4>1. Len(toGard) = 1 /\ toHub' = toHub \o <<r, s>> /\ toGard' = Tail(toGard)
        BY <2>1, <3>1, <3>2, <3>6 DEF AllSent, FirstSent, GardAnswer, r, s
      <4>2. /\ <<r, s>> \in Seq(Units) /\ Len(<<r, s>>) = 2
            /\ <<r, s>>[1] = r /\ <<r, s>>[2] = s
        BY <3>3, Words
      <4>3. toHub' = <<r, s>>
        BY <3>2, <4>1, <4>2, ConcatEmptySeq
      <4>4. toGard' = << >>
        BY <2>1, <4>1, LastTaken
      <4>5. IsReply(toHub', 0, req.id, 2)
        BY <3>4, <4>2, <4>3 DEF IsReply
      <4>6. ToCome(0)' /\ HasRead(0)'
        BY <1>1, <3>1, <3>6, <4>4, <4>5 DEF ToCome, HasRead, ReplyLen
      <4> QED
        BY <1>1, <2>2, <4>6 DEF Alone
    <3> QED
      BY <3>5, <3>6
  <2>3. CASE pc = "sendApp"
    <3>1. req.kind = "app" /\ Len(toGard) = 1 /\ toGard[1] = Unit(req.kind, req.id)
      BY <2>1, <2>3 DEF Alone, FirstSent
    <3>2. u.kind = "app"
      BY <2>1, <3>1 DEF Unit
    <3> QED
      BY <3>1, <3>2 DEF GardAnswer
  <2>4. CASE pc \in {"rest", "appResponse", "data"}
    BY <2>1, <2>4 DEF Alone, ToCome
  <2>5. CASE pc = "complete"
    BY <1>1, <2>1, <2>5 DEF Alone, HasRead
  <2> QED
    BY <1>2, <2>2, <2>3, <2>4, <2>5 DEF Requesting
<1> QED
  BY <1>1, <1>2 DEF RequestInv, Undisturbed, Answered

LEMMA StepRequest ==
  ASSUME Crossing = FALSE, RequestInv, [Next]_vars
  PROVE  RequestInv'
<1>1. Types'
  BY StepTypes DEF RequestInv
<1>2. CASE UNCHANGED vars
  BY <1>1, <1>2 DEF vars, hub, RequestInv, Undisturbed, Alone, HasRead, ToCome, FirstSent,
                    AllSent, Answered
<1> QED
  BY <1>1, <1>2, ReceiveRequest, BeginAlone, SendAlone, ReceiveAlone, FinishAlone, GardBegins,
     GardAnswersAlone DEF Next, Dispatch, Gard

(* If HUB and GARD do not start to talk at the same time, a request that    *)
(* found the line quiet and returned true has read its own response, though *)
(* the code never looks at what it reads (hub_req_resp_sm.c:128).           *)
THEOREM Matched ==
  ASSUME Crossing = FALSE
  PROVE  Spec => []ResponseMatches
<1>1. Init => RequestInv
  BY InitRequest
<1>2. RequestInv /\ [Next]_vars => RequestInv'
  BY StepRequest
<1>3. RequestInv => ResponseMatches
  BY AnsweredMatches DEF RequestInv
<1> QED
  BY <1>1, <1>2, <1>3, PTL DEF Spec

-----------------------------------------------------------------------------
(* Payloads                                                                *)

\* The payload n is next on the line, but for its first k units.
Begun(n, k) ==
  /\ Sends[n].size - k <= Len(toHub)
  /\ \A j \in 1 .. Sends[n].size - k : toHub[j] = Payload(n)[k + j]

\* Nothing but the payload comes between an announcement and its end,
Blocks ==
  \A i \in 1 .. Len(toHub) : toHub[i].kind = "send" =>
    /\ i + Sends[toHub[i].of].size <= Len(toHub)
    /\ \A j \in 1 .. Sends[toHub[i].of].size : toHub[i + j] = Payload(toHub[i].of)[j]

\* and sends come in order,
InOrder ==
  \A i, j \in 1 .. Len(toHub) :
    i < j /\ toHub[i].kind = "send" /\ toHub[j].kind = "send" => toHub[i].of < toHub[j].of

After(n) == \A i \in 1 .. Len(toHub) : toHub[i].kind = "send" => n < toHub[i].of

\* the one that is being received before all that are on the line,
Receiving ==
  pc \in {"peek", "payload"} =>
    \E n \in 1 .. sent :
      /\ frame.size = Sends[n].size /\ After(n)
      /\ pc = "peek" => Begun(n, 0)
      /\ pc = "payload" => Begun(n, 1) /\ Accepted(n) /\ frame.got = <<Unit("peek", n)>>
      /\ \A i \in 1 .. Len(delivered) : delivered[i][1].of < n

\* and after those that were delivered.
Past == \A i \in 1 .. Len(delivered) : delivered[i][1].of \in 1 .. sent /\ After(delivered[i][1].of)

FrameInv == Types /\ Blocks /\ InOrder /\ Receiving /\ Past /\ FramesWhole

LEMMA InitFrames == Init => FrameInv
<1> SUFFICES ASSUME Init PROVE FrameInv
  OBVIOUS
<1>1. Len(toHub) = 0 /\ Len(delivered) = 0 /\ DOMAIN delivered = {} /\ pc = "check"
  BY DEF Init
<1> QED
  BY <1>1, InitTypes DEF FrameInv, Blocks, InOrder, Receiving, Past, FramesWhole

\* What HUB reads and what GARD says leaves the order of the rest.
LEMMA TakesLine ==
  ASSUME Types, Blocks, InOrder, Takes
  PROVE  Blocks' /\ InOrder' /\ \A n \in 1 .. sent : After(n) => After(n)'
<1>1. toHub \in Seq(Units) /\ Len(toHub) \in Nat
  BY DEF Types, TypeOK
<1> PICK m \in 0 .. Len(toHub) : Taken(m)
  BY DEF Takes
<1>2. /\ toHub' \in Seq(Units) /\ Len(toHub') = Len(toHub) - m
      /\ \A i \in 1 .. Len(toHub') : toHub'[i] = toHub[m + i] /\ m + i \in 1 .. Len(toHub)
  BY <1>1, AfterTaking
<1>3. Blocks'
  <2> SUFFICES ASSUME NEW i \in 1 .. Len(toHub'), toHub'[i].kind = "send"
               PROVE  /\ i + Sends[toHub'[i].of].size <= Len(toHub')
                      /\ \A j \in 1 .. Sends[toHub'[i].of].size :
                           toHub'[i + j] = Payload(toHub'[i].of)[j]
    BY DEF Blocks
  <2> DEFINE n == toHub'[i].of
  <2>1. toHub'[i] = toHub[m + i] /\ m + i \in 1 .. Len(toHub)
    BY <1>2
  <2>2. n \in 1 .. Len(Sends)
    <3>1. n \in 1 .. sent
      BY <2>1 DEF Types, Announced
    <3>2. sent \in 0 .. Len(Sends) /\ Len(Sends) \in Nat
      BY SendsType DEF Types, TypeOK
    <3> HIDE DEF n
    <3> QED
      BY <3>1, <3>2
  <2>3. Sends[n].size \in Nat
    BY <2>2, PayloadType
  <2>4. /\ m + i + Sends[n].size <= Len(toHub)
        /\ \A j \in 1 .. Sends[n].size : toHub[m + i + j] = Payload(n)[j]
    BY <2>1 DEF Blocks
  <2> HIDE DEF n
  <2>5. i + Sends[n].size <= Len(toHub')
    BY <1>1, <1>2, <2>3, <2>4
  <2>6. ASSUME NEW j \in 1 .. Sends[n].size
        PROVE  toHub'[i + j] = Payload(n)[j]
    <3>1. i + j \in 1 .. Len(toHub') /\ m + (i + j) = m + i + j
      BY <1>1, <1>2, <2>3, <2>5
    <3> QED
      BY <1>2, <2>4, <3>1
  <2> QED
    BY <2>5, <2>6 DEF n
<1>4. InOrder'
  <2> SUFFICES ASSUME NEW i \in 1 .. Len(toHub'), NEW j \in 1 .. Len(toHub'), i < j,
                      toHub'[i].kind = "send", toHub'[j].kind = "send"
               PROVE  toHub'[i].of < toHub'[j].of
    BY DEF InOrder
  <2>1. m + i < m + j
    BY <1>1, <1>2
  <2> QED
    BY <1>2, <2>1 DEF InOrder
<1>5. ASSUME NEW n \in 1 .. sent, After(n)
      PROVE  After(n)'
  BY <1>2, <1>5 DEF After
<1> QED
  BY <1>3, <1>4, <1>5

LEMMA SaysLine ==
  ASSUME Types, Blocks, InOrder, Says
  PROVE  Blocks' /\ InOrder' /\ \A n \in 1 .. sent : After(n) => After(n)'
<1>1. toHub \in Seq(Units) /\ Len(toHub) \in Nat
  BY DEF Types, TypeOK
<1> PICK b \in Seq(Units) : /\ toHub' = toHub \o b /\ sent' = sent
                            /\ \A i \in 1 .. Len(b) : b[i].kind # "send"
  BY DEF Says
<1>2. /\ toHub' \in Seq(Units) /\ Len(toHub') = Len(toHub) + Len(b) /\ Len(b) \in Nat
      /\ \A i \in 1 .. Len(toHub) : toHub'[i] = toHub[i]
      /\ \A i \in 1 .. Len(b) : toHub'[Len(toHub) + i] = b[i]
  BY <1>1, AfterSaying
<1>3. ASSUME NEW i \in 1 .. Len(toHub'), toHub'[i].kind = "send"
      PROVE  i \in 1 .. Len(toHub) /\ toHub'[i] = toHub[i]
  <2>1. CASE i \notin 1 .. Len(toHub)
    <3>1. i - Len(toHub) \in 1 .. Len(b) /\ Len(toHub) + (i - Len(toHub)) = i
      BY <1>1, <1>2, <2>1
    <3> QED
      BY <1>2, <1>3, <3>1
  <2> QED
    BY <1>2, <2>1
<1>4. Blocks'
  <2> SUFFICES ASSUME NEW i \in 1 .. Len(toHub'), toHub'[i].kind = "send"
               PROVE  /\ i + Sends[toHub'[i].of].size <= Len(toHub')
                      /\ \A j \in 1 .. Sends[toHub'[i].of].size :
                           toHub'[i + j] = Payload(toHub'[i].of)[j]
    BY DEF Blocks
  <2> DEFINE n == toHub'[i].of
  <2>1. i \in 1 .. Len(toHub) /\ toHub'[i] = toHub[i]
    BY <1>3
  <2>2. n \in 1 .. Len(Sends)
    <3>1. n \in 1 .. sent
      BY <2>1 DEF Types, Announced
    <3>2. sent \in 0 .. Len(Sends) /\ Len(Sends) \in Nat
      BY SendsType DEF Types, TypeOK
    <3> HIDE DEF n
    <3> QED
      BY <3>1, <3>2
  <2>3. Sends[n].size \in Nat
    BY <2>2, PayloadType
  <2>4. /\ i + Sends[n].size <= Len(toHub)
        /\ \A j \in 1 .. Sends[n].size : toHub[i + j] = Payload(n)[j]
    BY <2>1 DEF Blocks
  <2> HIDE DEF n
  <2>5. i + Sends[n].size <= Len(toHub')
    BY <1>1, <1>2, <2>3, <2>4
  <2>6. ASSUME NEW j \in 1 .. Sends[n].size
        PROVE  toHub'[i + j] = Payload(n)[j]
    <3>1. i + j \in 1 .. Len(toHub)
      BY <1>1, <2>1, <2>3, <2>4
    <3> QED
      BY <1>2, <2>4, <3>1
  <2> QED
    BY <2>5, <2>6 DEF n
<1>5. InOrder'
  BY <1>3 DEF InOrder
<1>6. ASSUME NEW n \in 1 .. sent, After(n)
      PROVE  After(n)'
  BY <1>3, <1>6 DEF After
<1> QED
  BY <1>4, <1>5, <1>6

LEMMA SendsLine ==
  ASSUME Types, Blocks, InOrder, SendsNext
  PROVE  Blocks' /\ InOrder' /\ \A n \in 1 .. sent : After(n) => After(n)'
<1> DEFINE l == Len(toHub)
           n == sent + 1
<1>1. toHub \in Seq(Units) /\ l \in Nat /\ sent \in Nat
  BY DEF Types, TypeOK
<1>2. /\ n \in 1 .. Len(Sends)
      /\ toHub' \in Seq(Units) /\ Len(toHub') = l + 1 + Sends[n].size
      /\ \A i \in 1 .. l : toHub'[i] = toHub[i]
      /\ toHub'[l + 1] = Unit("send", n)
      /\ \A j \in 1 .. Sends[n].size : toHub'[l + 1 + j] = Payload(n)[j]
  BY <1>1, AfterSend
<1>3. n > sent
  BY <1>1
<1>4. /\ Sends[n].size \in Nat \ {0}
      /\ \A j \in 1 .. Sends[n].size : Payload(n)[j].kind # "send"
  BY <1>2, PayloadType
<1> HIDE DEF n, l
<1>5. ASSUME NEW i \in 1 .. Len(toHub'), toHub'[i].kind = "send"
      PROVE  \/ i \in 1 .. l /\ toHub'[i] = toHub[i] /\ toHub[i].of \in 1 .. sent
             \/ i = l + 1 /\ toHub'[i].of = n
  <2>1. CASE i \in 1 .. l
    BY <1>2, <1>5, <2>1 DEF Types, Announced, l
  <2>2. CASE i > l + 1
    <3>1. i - l - 1 \in 1 .. Sends[n].size /\ l + 1 + (i - l - 1) = i
      BY <1>1, <1>2, <1>4, <2>2
    <3> QED
      BY <1>2, <1>4, <1>5, <3>1
  <2>3. CASE i = l + 1
    BY <1>2, <2>3 DEF Unit
  <2> QED
    BY <1>1, <2>1, <2>2, <2>3
<1>6. Blocks'
  <2> SUFFICES ASSUME NEW i \in 1 .. Len(toHub'), toHub'[i].kind = "send"
               PROVE  /\ i + Sends[toHub'[i].of].size <= Len(toHub')
                      /\ \A j \in 1 .. Sends[toHub'[i].of].size :
                           toHub'[i + j] = Payload(toHub'[i].of)[j]
    BY DEF Blocks
  <2>1. CASE i \in 1 .. l /\ toHub'[i] = toHub[i] /\ toHub[i].of \in 1 .. sent
    <3> DEFINE o == toHub[i].of
    <3>1. o \in 1 .. Len(Sends)
      BY <2>1, SendsType DEF Types, TypeOK
    <3>2. Sends[o].size \in Nat
      BY <3>1, PayloadType
    <3>3. /\ i + Sends[o].size <= l
          /\ \A j \in 1 .. Sends[o].size : toHub[i + j] = Payload(o)[j]
      BY <2>1 DEF Blocks, l
    <3> HIDE DEF o
    <3>4. i + Sends[o].size <= Len(toHub')
      BY <1>1, <1>2, <1>4, <3>2, <3>3
    <3>5. ASSUME NEW j \in 1 .. Sends[o].size
          PROVE  toHub'[i + j] = Payload(o)[j]
      <4>1. i + j \in 1 .. l
        BY <1>1, <2>1, <3>2, <3>3
      <4> QED
        BY <1>2, <3>3, <4>1
    <3> QED
      BY <2>1, <3>4, <3>5 DEF o
  <2>2. CASE i = l + 1 /\ toHub'[i].of = n
    BY <1>1, <1>2, <1>4, <2>2
  <2> QED
    BY <1>5, <2>1, <2>2
<1>7. InOrder'
  <2> SUFFICES ASSUME NEW i \in 1 .. Len(toHub'), NEW j \in 1 .. Len(toHub'), i < j,
                      toHub'[i].kind = "send", toHub'[j].kind = "send"
               PROVE  toHub'[i].of < toHub'[j].of
    BY DEF InOrder
  <2>1. i \in 1 .. l /\ toHub'[i] = toHub[i] /\ toHub[i].of \in 1 .. sent
    <3>1. j <= l + 1
      BY <1>1, <1>5
    <3>2. i # l + 1
      BY <1>1, <3>1
    <3> QED
      BY <1>5, <3>2
  <2>2. CASE j \in 1 .. l /\ toHub'[j] = toHub[j]
    BY <2>1, <2>2 DEF InOrder, l
  <2>3. CASE toHub'[j].of = n
    <3>1. toHub[i].of < n
      BY <1>1, <1>3, <2>1 DEF n
    <3> QED
      BY <2>1, <2>3, <3>1
  <2> QED
    BY <1>5, <2>2, <2>3
<1>8. ASSUME NEW m \in 1 .. sent, After(m)
      PROVE  After(m)'
  <2> SUFFICES ASSUME NEW i \in 1 .. Len(toHub'), toHub'[i].kind = "send"
               PROVE  m < toHub'[i].of
    BY DEF After
  <2>1. m < n
    BY <1>1 DEF n
  <2> QED
    BY <1>5, <1>8, <2>1 DEF After, l
<1> QED
  BY <1>6, <1>7, <1>8

LEMMA LineKept ==
  ASSUME FrameInv, Types', Takes \/ Says \/ SendsNext, UNCHANGED delivered
  PROVE  Blocks' /\ InOrder' /\ Past' /\ FramesWhole' /\ \A n \in 1 .. sent : After(n) => After(n)'
<1>1. Blocks' /\ InOrder' /\ \A n \in 1 .. sent : After(n) => After(n)'
  BY TakesLine, SaysLine, SendsLine DEF FrameInv
<1>2. sent \in Nat /\ sent' \in {sent, sent + 1}
  BY DEF FrameInv, Types, TypeOK, Takes, Says, SendsNext
<1>3. Past'
  BY <1>1, <1>2 DEF FrameInv, Past
<1>4. FramesWhole'
  BY DEF FrameInv, FramesWhole, Payload, Accepted
<1> QED
  BY <1>1, <1>3, <1>4

\* Steps outside of the reception of a payload
LEMMA Elsewhere ==
  ASSUME FrameInv, Types', Takes \/ Says \/ SendsNext, UNCHANGED delivered,
         pc' \notin {"peek", "payload"}
  PROVE  FrameInv'
  BY LineKept DEF FrameInv, Receiving

\* While a payload is received, more can come behind it.
LEMMA MoreComes ==
  ASSUME FrameInv, Types', GardSync \/ GardSend \/ GardAnswer, Says \/ SendsNext
  PROVE  FrameInv'
<1>1. UNCHANGED <<pc, frame, delivered>>
  BY DEF GardSync, GardSend, GardAnswer, hub
<1>2. CASE pc \notin {"peek", "payload"}
  BY <1>1, <1>2, Elsewhere
<1>3. CASE pc \in {"peek", "payload"}
  <2>1. toHub \in Seq(Units) /\ Len(toHub) \in Nat /\ sent \in Nat /\ sent' \in {sent, sent + 1}
    BY DEF FrameInv, Types, TypeOK, Says, SendsNext
  <2>2. Len(toHub') >= Len(toHub) /\ \A j \in 1 .. Len(toHub) : toHub'[j] = toHub[j]
    <3>1. CASE Says
      <4> PICK b \in Seq(Units) : toHub' = toHub \o b
        BY <3>1 DEF Says
      <4>1. Len(b) \in Nat
        OBVIOUS
      <4> QED
        BY <2>1, <4>1, AfterSaying
    <3>2. CASE SendsNext
      <4> DEFINE n == sent + 1
      <4>1. /\ n \in 1 .. Len(Sends) /\ Len(toHub') = Len(toHub) + 1 + Sends[n].size
            /\ \A i \in 1 .. Len(toHub) : toHub'[i] = toHub[i]
        BY <2>1, <3>2, AfterSend
      <4>2. Sends[n].size \in Nat
        BY <4>1, PayloadType
      <4> HIDE DEF n
      <4> QED
        BY <2>1, <4>1, <4>2
    <3> QED
      BY <3>1, <3>2
  <2> PICK n \in 1 .. sent :
        /\ frame.size = Sends[n].size /\ After(n)
        /\ pc = "peek" => Begun(n, 0)
        /\ pc = "payload" => Begun(n, 1) /\ Accepted(n) /\ frame.got = <<Unit("peek", n)>>
        /\ \A i \in 1 .. Len(delivered) : delivered[i][1].of < n
    BY <1>3 DEF FrameInv, Receiving
  <2>3. n \in 1 .. Len(Sends) /\ n \in 1 .. sent'
    <3>1. sent \in 0 .. Len(Sends) /\ Len(Sends) \in Nat
      BY SendsType DEF FrameInv, Types, TypeOK
    <3> QED
      BY <2>1, <3>1
  <2>4. Sends[n].size \in Nat \ {0}
    BY <2>3, PayloadType
  <2>5. ASSUME NEW k \in {0, 1}, Begun(n, k)
        PROVE  Begun(n, k)'
    <3>1. \A j \in 1 .. Sends[n].size - k : j \in 1 .. Len(toHub)
      BY <2>1, <2>4, <2>5 DEF Begun
    <3>2. Sends[n].size - k <= Len(toHub')
      BY <2>1, <2>2, <2>3, <2>4, <2>5 DEF Begun, Types, TypeOK
    <3> QED
      BY <2>2, <2>5, <3>1, <3>2 DEF Begun, Payload
  <2>6. After(n)' /\ Blocks' /\ InOrder' /\ Past' /\ FramesWhole'
    BY <1>1, LineKept
  <2>7. Receiving'
    BY <1>1, <2>3, <2>5, <2>6 DEF Receiving, Accepted
  <2> QED
    BY <2>6, <2>7 DEF FrameInv
<1> QED
  BY <1>2, <1>3

LEMMA HeaderFrames ==
  ASSUME FrameInv, Types', Takes, ReadSendHeader
  PROVE  FrameInv'
<1>1. UNCHANGED <<sent, delivered>>
  BY DEF ReadSendHeader
<1>2. CASE EndSend
  BY <1>1, <1>2, Elsewhere DEF EndSend, Goto
<1>3. CASE /\ ReadOk(1) /\ Head(toHub).kind = "send" /\ Goto("peek")
           /\ frame' = [size |-> Sends[Head(toHub).of].size, got |-> << >>]
  <2> DEFINE n == toHub[1].of
  <2>1. toHub \in Seq(Units) /\ Len(toHub) \in Nat /\ sent \in 0 .. Len(Sends) /\ Taken(1)
    BY <1>3 DEF FrameInv, Types, TypeOK, ReadOk
  <2>2. /\ 1 \in 1 .. Len(toHub) /\ toHub[1].kind = "send" /\ n \in 1 .. sent
        /\ frame'.size = Sends[n].size /\ pc' = "peek"
    BY <1>3, ReadOne DEF FrameInv, Types, Announced, Goto
  <2>3. n \in 1 .. Len(Sends)
    BY <2>1, <2>2, SendsType
  <2>4. Sends[n].size \in Nat
    BY <2>3, PayloadType
  <2>5. /\ Len(toHub') = Len(toHub) - 1
        /\ \A i \in 1 .. Len(toHub') : toHub'[i] = toHub[1 + i] /\ 1 + i \in 1 .. Len(toHub)
    <3>1. 1 \in 0 .. Len(toHub)
      BY <2>1, <2>2
    <3> QED
      BY <2>1, <3>1, AfterTaking
  <2>6. 1 + Sends[n].size <= Len(toHub) /\ \A j \in 1 .. Sends[n].size : toHub[1 + j] = Payload(n)[j]
    BY <2>2 DEF FrameInv, Blocks
  <2>7. After(n) => \A i \in 1 .. Len(toHub') : toHub'[i].kind = "send" => n < toHub'[i].of
    BY <2>5 DEF After
  <2>8. \A i \in 1 .. Len(toHub') : toHub'[i].kind = "send" => n < toHub'[i].of
    <3> SUFFICES ASSUME NEW i \in 1 .. Len(toHub'), toHub'[i].kind = "send"
                 PROVE  n < toHub'[i].of
      OBVIOUS
    <3>1. toHub'[i] = toHub[1 + i] /\ 1 + i \in 1 .. Len(toHub) /\ 1 < 1 + i
      BY <2>5
    <3> QED
      BY <2>2, <3>1 DEF FrameInv, InOrder
  <2>9. \A i \in 1 .. Len(delivered) : delivered[i][1].of < n
    BY <2>2 DEF FrameInv, Past, After
  <2>10. Sends[n].size <= Len(toHub') /\ \A j \in 1 .. Sends[n].size : toHub'[j] = Payload(n)[0 + j]
    <3> HIDE DEF n
    <3>1. Sends[n].size <= Len(toHub')
      BY <2>1, <2>4, <2>5, <2>6
    <3>2. \A j \in 1 .. Sends[n].size : j \in 1 .. Len(toHub') /\ 0 + j = j
      BY <2>1, <2>4, <2>5, <3>1
    <3> QED
      BY <2>5, <2>6, <3>1, <3>2
  <2>11. Receiving'
    <3> HIDE DEF n
    <3> PICK m \in 1 .. sent : m = n
      BY <2>2
    <3>1. Begun(m, 0)'
      <4>1. Sends[m].size - 0 = Sends[m].size
        BY <2>4
      <4>2. Sends[m].size <= Len(toHub') /\ \A j \in 1 .. Sends[m].size : toHub'[j] = Payload(m)[0 + j]
        BY <2>10
      <4> QED
        BY <4>1, <4>2, Zenon DEF Begun, Payload
    <3>2. After(m)'
      BY <2>8 DEF After
    <3>3. m \in 1 .. sent' /\ frame'.size = Sends[m].size
          /\ \A i \in 1 .. Len(delivered') : delivered'[i][1].of < m
      BY <1>1, <2>2, <2>9
    <3> QED
      BY <2>2, <3>1, <3>2, <3>3 DEF Receiving
  <2> QED
    BY <1>1, <2>11, LineKept DEF FrameInv
<1> QED
  BY <1>2, <1>3 DEF ReadSendHeader

LEMMA PeekFrames ==
  ASSUME FrameInv, Types', Takes, ReadPeek
  PROVE  FrameInv'
<1>1. UNCHANGED <<sent, delivered>> /\ pc = "peek"
  BY DEF ReadPeek
<1>2. CASE EndSend
  BY <1>1, <1>2, Elsewhere DEF EndSend, Goto
<1>3. CASE /\ ReadOk(1) /\ KnownPayload(Head(toHub)) /\ BufferSize >= frame.size
           /\ frame' = [frame EXCEPT !.got = First(1)] /\ Goto("payload")
  <2>1. /\ toHub \in Seq(Units) /\ Len(toHub) \in Nat /\ sent \in 0 .. Len(Sends) /\ Taken(1)
        /\ frame \in [size : Nat, got : Seq(Units)]
    BY <1>3 DEF FrameInv, Types, TypeOK, ReadOk
  <2>2. 1 \in 1 .. Len(toHub) /\ Head(toHub) = toHub[1] /\ First(1) = <<toHub[1]>>
    BY <1>3, ReadOne DEF FrameInv
  <2> PICK n \in 1 .. sent :
        /\ frame.size = Sends[n].size /\ After(n) /\ Begun(n, 0)
        /\ \A i \in 1 .. Len(delivered) : delivered[i][1].of < n
    BY <1>1 DEF FrameInv, Receiving
  <2>3. n \in 1 .. Len(Sends)
    BY <2>1, SendsType
  <2>4. Sends[n].size \in Nat \ {0} /\ Payload(n)[1] = Unit("peek", n)
    BY <2>3, PayloadType
  <2>5. Sends[n].size <= Len(toHub) /\ \A j \in 1 .. Sends[n].size : toHub[j] = Payload(n)[j]
    <3>1. Sends[n].size - 0 = Sends[n].size /\ \A j \in 1 .. Sends[n].size : 0 + j = j
      BY <2>4
    <3> QED
      BY <3>1 DEF Begun
  <2>6. /\ Len(toHub') = Len(toHub) - 1
        /\ \A i \in 1 .. Len(toHub') : toHub'[i] = toHub[1 + i] /\ 1 + i \in 1 .. Len(toHub)
    <3>1. 1 \in 0 .. Len(toHub)
      BY <2>1, <2>2
    <3> QED
      BY <2>1, <3>1, AfterTaking
  <2>7. toHub[1] = Unit("peek", n)
    <3>1. 1 \in 1 .. Sends[n].size
      BY <2>4
    <3> QED
      BY <2>4, <2>5, <3>1
  <2>8. Accepted(n)
    BY <1>3, <2>2, <2>7 DEF KnownPayload, Unit, Accepted
  <2>9. Sends[n].size - 1 <= Len(toHub')
        /\ \A j \in 1 .. Sends[n].size - 1 : toHub'[j] = Payload(n)[1 + j]
    <3>1. Sends[n].size - 1 <= Len(toHub')
      BY <2>1, <2>4, <2>5, <2>6
    <3>2. ASSUME NEW j \in 1 .. Sends[n].size - 1
          PROVE  toHub'[j] = Payload(n)[1 + j]
      <4>1. j \in 1 .. Len(toHub') /\ 1 + j \in 1 .. Sends[n].size
        BY <2>1, <2>4, <2>6, <3>1
      <4> QED
        BY <2>5, <2>6, <4>1
    <3> QED
      BY <3>1, <3>2
  <2>10. Begun(n, 1)'
    BY <2>9, Zenon DEF Begun, Payload
  <2>11. frame' = [size |-> Sends[n].size, got |-> <<Unit("peek", n)>>] /\ pc' = "payload"
    BY <1>3, <2>1, <2>2, <2>7 DEF Goto
  <2>12. Blocks' /\ InOrder' /\ Past' /\ FramesWhole' /\ After(n)'
    BY <1>1, LineKept
  <2>13. Receiving'
    <3>1. n \in 1 .. sent' /\ frame'.size = Sends[n].size /\ frame'.got = <<Unit("peek", n)>>
          /\ \A i \in 1 .. Len(delivered') : delivered'[i][1].of < n
      BY <1>1, <2>11
    <3> QED
      BY <2>8, <2>10, <2>11, <2>12, <3>1 DEF Receiving, Accepted
  <2> QED
    BY <2>12, <2>13 DEF FrameInv
<1> QED
  BY <1>2, <1>3 DEF ReadPeek

LEMMA PayloadFrames ==
  ASSUME FrameInv, Types', Takes, ReadPayload
  PROVE  FrameInv'
<1>1. UNCHANGED sent /\ pc = "payload" /\ pc' = "idle"
  BY DEF ReadPayload, EndSend, Goto
<1>2. CASE UNCHANGED delivered
  BY <1>1, <1>2, Elsewhere
<1>3. CASE /\ ReadOk(frame.size - 1)
           /\ delivered' = Append(delivered, frame.got \o First(frame.size - 1))
  <2>1. /\ toHub \in Seq(Units) /\ Len(toHub) \in Nat /\ sent \in 0 .. Len(Sends)
        /\ delivered \in Seq(Seq(Units)) /\ Len(delivered) \in Nat
    BY DEF FrameInv, Types, TypeOK
  <2> PICK n \in 1 .. sent :
        /\ frame.size = Sends[n].size /\ After(n) /\ Begun(n, 1) /\ Accepted(n)
        /\ frame.got = <<Unit("peek", n)>>
        /\ \A i \in 1 .. Len(delivered) : delivered[i][1].of < n
    BY <1>1 DEF FrameInv, Receiving
  <2> DEFINE k == Sends[n].size - 1
             p == Payload(n)
             one == <<Unit("peek", n)>>
  <2>2. n \in 1 .. Len(Sends) /\ n \in Nat
    BY <2>1, SendsType
  <2>3. /\ Sends[n].size = k + 1 /\ k \in Nat /\ p \in Seq(Units) /\ Len(p) = k + 1
        /\ p[1] = Unit("peek", n) /\ p[1].of = n
    <3>1. /\ Sends[n].size \in Nat \ {0} /\ p \in Seq(Units) /\ Len(p) = Sends[n].size
          /\ p[1] = Unit("peek", n) /\ \A j \in 1 .. Sends[n].size : p[j].of = n
      BY <2>2, PayloadType
    <3>2. 1 \in 1 .. Sends[n].size
      BY <3>1
    <3> QED
      BY <3>1, <3>2
  <2>4. one \in Seq(Units) /\ Len(one) = 1 /\ one[1] = Unit("peek", n)
    <3>1. Unit("peek", n) \in Units
      BY <2>2, UnitType DEF UnitKinds
    <3> QED
      BY <3>1
  <2>5. \A j \in 1 .. k : toHub[j] = p[1 + j]
    BY DEF Begun
  <2>6. delivered' = Append(delivered, one \o First(k)) /\ ReadOk(k)
    BY <1>3
  <2> HIDE DEF k, p, one
  <2>7. First(k) \in Seq(Units) /\ Len(First(k)) = k /\ \A j \in 1 .. k : First(k)[j] = toHub[j]
    BY <2>3, <2>6, ReadUnits DEF FrameInv
  <2>8. one \o First(k) = p
    <3> DEFINE w == one \o First(k)
    <3>1. /\ w \in Seq(Units) /\ Len(w) = 1 + k
          /\ \A i \in 1 .. 1 + k : w[i] = IF i <= 1 THEN one[i] ELSE First(k)[i - 1]
      <4>1. /\ w \in Seq(Units) /\ Len(w) = Len(one) + Len(First(k))
            /\ \A i \in 1 .. Len(one) + Len(First(k)) :
                 w[i] = IF i <= Len(one) THEN one[i] ELSE First(k)[i - Len(one)]
        BY <2>4, <2>7, ConcatProperties
      <4> HIDE DEF w
      <4> QED
        BY <2>4, <2>7, <4>1
    <3> HIDE DEF w
    <3>2. ASSUME NEW i \in 1 .. 1 + k
          PROVE  w[i] = p[i]
      <4>1. CASE i = 1
        BY <2>3, <2>4, <3>1, <4>1
      <4>2. CASE i # 1
        <5>1. i - 1 \in 1 .. k /\ 1 + (i - 1) = i /\ ~(i <= 1)
          BY <2>3, <4>2
        <5> QED
          BY <2>5, <2>7, <3>1, <5>1
      <4> QED
        BY <4>1, <4>2
    <3>3. Len(w) = Len(p) /\ \A i \in 1 .. Len(w) : w[i] = p[i]
      BY <2>3, <3>1, <3>2
    <3>4. w = p
      BY <2>3, <3>1, <3>3, SeqEqual
    <3> QED
      BY <3>4 DEF w
  <2> DEFINE l == Len(delivered)
  <2>9. /\ Len(delivered') = l + 1 /\ delivered'[l + 1] = p
        /\ \A i \in 1 .. l : delivered'[i] = delivered[i]
    BY <2>1, <2>3, <2>6, <2>8, Grown
  <2>10. delivered' \in Seq(Seq(Units)) /\ DOMAIN delivered' = 1 .. l + 1 /\ DOMAIN delivered = 1 .. l
    BY <2>1, <2>9 DEF FrameInv, Types, TypeOK
  <2> HIDE DEF l
  <2>11. l \in Nat
    BY <2>1 DEF l
  <2>12. \A i \in 1 .. l + 1 : i \in 1 .. l \/ i = l + 1
    BY <2>11
  <2>13. Blocks' /\ InOrder' /\ \A m \in 1 .. sent : After(m) => After(m)'
    BY TakesLine DEF FrameInv
  <2>14. Past'
    <3>1. ASSUME NEW i \in 1 .. l + 1
          PROVE  \E m \in 1 .. sent : delivered'[i][1].of = m /\ After(m)'
      <4>1. CASE i = l + 1
        BY <2>3, <2>9, <2>13, <4>1
      <4>2. CASE i \in 1 .. l
        <5>1. delivered'[i] = delivered[i] /\ delivered[i][1].of \in 1 .. sent /\ After(delivered[i][1].of)
          BY <2>9, <4>2 DEF FrameInv, Past, l
        <5> QED
          BY <2>13, <5>1
      <4> QED
        BY <2>12, <4>1, <4>2
    <3> QED
      BY <1>1, <2>9, <3>1 DEF Past, After
  <2>15. FramesWhole'
    <3> SUFFICES ASSUME NEW i \in 1 .. l + 1
                 PROVE  /\ delivered'[i] = Payload(delivered'[i][1].of)
                        /\ Accepted(delivered'[i][1].of)
                        /\ i > 1 => delivered'[i - 1][1].of < delivered'[i][1].of
      BY <2>10 DEF FramesWhole, Payload, Accepted
    <3>1. i > 1 => i - 1 \in 1 .. l
      BY <2>11
    <3>2. CASE i = l + 1
      <4>1. delivered'[i] = p /\ p[1].of = n
        BY <2>3, <2>9, <3>2
      <4>2. delivered'[i] = Payload(delivered'[i][1].of) /\ Accepted(delivered'[i][1].of)
        BY <4>1 DEF p
      <4>3. i > 1 => delivered'[i - 1][1].of < n
        BY <2>9, <3>1 DEF l
      <4> QED
        BY <4>1, <4>2, <4>3
    <3>3. CASE i \in 1 .. l
      <4>1. delivered'[i] = delivered[i] /\ i \in DOMAIN delivered
        BY <2>9, <2>10, <3>3
      <4>2. i > 1 => delivered'[i - 1] = delivered[i - 1]
        BY <2>9, <3>1
      <4>3. /\ delivered[i] = Payload(delivered[i][1].of) /\ Accepted(delivered[i][1].of)
            /\ i > 1 => delivered[i - 1][1].of < delivered[i][1].of
        BY <4>1 DEF FrameInv, FramesWhole
      <4> QED
        BY <4>1, <4>2, <4>3
    <3> QED
      BY <2>12, <3>2, <3>3
  <2> QED
    BY <1>1, <2>13, <2>14, <2>15 DEF FrameInv, Receiving
<1> QED
  BY <1>2, <1>3 DEF ReadPayload

LEMMA StepFrames ==
  ASSUME FrameInv, [Next]_vars
  PROVE  FrameInv'
<1>1. Types' /\ (Takes \/ Says \/ SendsNext)
  BY StepTypes DEF FrameInv
<1>2. CASE UNCHANGED vars
  <2>1. UNCHANGED <<pc, frame, delivered, toHub, sent>> /\ toHub \in Seq(Units)
    BY <1>2 DEF vars, hub, FrameInv, Types, TypeOK
  <2>2. Blocks' /\ InOrder' /\ Past' /\ FramesWhole'
    BY <1>1, <2>1, NothingTaken, LineKept
  <2>3. Receiving'
    <3>1. CASE pc \notin {"peek", "payload"}
      BY <2>1, <3>1 DEF Receiving
    <3>2. CASE pc \in {"peek", "payload"}
      <4> PICK n \in 1 .. sent :
            /\ frame.size = Sends[n].size /\ After(n)
            /\ pc = "peek" => Begun(n, 0)
            /\ pc = "payload" => Begun(n, 1) /\ Accepted(n) /\ frame.got = <<Unit("peek", n)>>
            /\ \A i \in 1 .. Len(delivered) : delivered[i][1].of < n
        BY <3>2 DEF FrameInv, Receiving
      <4>1. After(n)' /\ (pc = "payload" => Accepted(n))
        BY <2>1 DEF After
      <4>2. (pc = "peek" => Begun(n, 0)') /\ (pc = "payload" => Begun(n, 1)')
        BY <2>1 DEF Begun, Payload
      <4>3. n \in 1 .. sent' /\ frame'.size = Sends[n].size
            /\ pc = "payload" => frame'.got = <<Unit("peek", n)>>
            /\ \A i \in 1 .. Len(delivered') : delivered'[i][1].of < n
        BY <2>1
      <4> QED
        BY <2>1, <4>1, <4>2, <4>3 DEF Receiving, Accepted
    <3> QED
      BY <3>1, <3>2
  <2> QED
    BY <1>1, <2>2, <2>3 DEF FrameInv
<1>3. CASE Dispatch
  <2>1. Takes
    BY <1>3, DispatchTypes DEF FrameInv
  <2>2. CASE ReadSendHeader \/ ReadPeek \/ ReadPayload
    BY <1>1, <2>1, <2>2, HeaderFrames, PeekFrames, PayloadFrames
  <2>3. CASE \/ CommandInProgress \/ ReadCommandByte \/ ReadOriginator \/ WriteSyncResponse
             \/ SendAppRequest \/ RecvPartialResponse \/ RecvResponse \/ RecvAppResponse
             \/ SendData \/ CompleteRequest \/ IdleReturns
    <3>1. UNCHANGED delivered /\ pc' \notin {"peek", "payload"}
      BY <2>3 DEF CommandInProgress, ReadCommandByte, ReadOriginator, WriteSyncResponse,
                  SendAppRequest, RecvPartialResponse, RecvResponse, RecvAppResponse, SendData,
                  CompleteRequest, IdleReturns, FailRequest, AfterResponse, Goto
    <3> QED
      BY <1>1, <3>1, Elsewhere
  <2> QED
    BY <1>3, <2>2, <2>3 DEF Dispatch
<1>4. ASSUME NEW kind \in Kinds, BeginRequest(kind)
      PROVE  FrameInv'
  <2>1. UNCHANGED delivered /\ pc' \notin {"peek", "payload"}
    BY <1>4 DEF BeginRequest, Goto
  <2> QED
    BY <1>1, <2>1, Elsewhere
<1>5. CASE Kt_StopDispatcher
  <2>1. UNCHANGED delivered /\ pc' \notin {"peek", "payload"}
    BY <1>5 DEF Kt_StopDispatcher
  <2> QED
    BY <1>1, <2>1, Elsewhere
<1>6. CASE Gard
  <2>1. Says \/ SendsNext
    BY <1>6, GardSyncTypes, GardSendTypes, GardAnswerTypes DEF FrameInv, Gard
  <2> QED
    BY <1>1, <1>6, <2>1, MoreComes DEF Gard
<1> QED
  BY <1>2, <1>3, <1>4, <1>5, <1>6 DEF Next

(* handle_gard_send is given whole payloads only, of a kind and size that    *)
(* fit, each once and in the order of sending, whatever was refused or cut   *)
(* short before, and whoever begins to talk (hub_gard_cmds.c:173-262).       *)
THEOREM Whole == Spec => []FramesWhole
<1>1. Init => FrameInv
  BY InitFrames
<1>2. FrameInv /\ [Next]_vars => FrameInv'
  BY StepFrames
<1>3. FrameInv => FramesWhole
  BY DEF FrameInv
<1> QED
  BY <1>1, <1>2, <1>3, PTL DEF Spec
-----------------------------------------------------------------------------
(* Nothing is lost                                                         *)

\* Nothing failed, and no refused payload left something like a sync behind.
Undamaged == errors = 0 /\ \A n \in 1 .. sent : Accepted(n) \/ ~Sends[n].alike

\* Of the first m sends the ones that fit were delivered.
Handled(m) == {delivered[i][1].of : i \in DOMAIN delivered} = {n \in 1 .. m : Accepted(n)}

\* Where the thread is when it is not busy with a command of GARD
Places == {"check", "idle", "stopped"} \cup Requesting

\* GARD's wish to send, while HUB has read nothing of it
Wish == <<Unit("sync", sent + 1), Unit("gardId", sent + 1)>>
Ask  == IF gard = "waiting" /\ toGard = << >> /\ pc \notin {"originator", "respond"}
        THEN Wish ELSE << >>

Asked ==
  pc \in {"originator", "respond"} =>
     /\ gard = "waiting" /\ toGard = << >> /\ Handled(sent)
     /\ toHub = IF pc = "originator" THEN <<Unit("gardId", sent + 1)>> ELSE << >>

\* GARD has been let to send, or the rest of a send is next on the line.
Invited == /\ gard = "waiting" /\ toGard = <<Unit("syncResponse", 0)>>
           /\ toHub = << >> /\ Handled(sent)

Coming(line) == /\ sent > 0 /\ toGard = << >> /\ toHub = line \o Ask
                /\ Handled(sent - 1)

Incoming ==
  /\ pc = "header" => Invited \/ Coming(<<Unit("send", sent)>> \o Payload(sent))
  /\ pc = "peek" => Coming(Payload(sent)) /\ frame.size = Sends[sent].size
  /\ pc = "payload" => /\ Coming(Tail(Payload(sent))) /\ Accepted(sent)
                       /\ frame.size = Sends[sent].size
                       /\ frame.got = <<Unit("peek", sent)>>

\* Elsewhere only words that nobody takes for a sync are ahead of the next one.
Leftover(line) == \A i \in 1 .. Len(line) : line[i].kind # "sync"

\* GARD has not been let to send.
NoResponse(words) == \A i \in 1 .. Len(words) : words[i].kind # "syncResponse"

Between ==
  pc \in Places =>
     /\ Handled(sent)
     /\ gard = "waiting" => toGard = << >>
     /\ gard = "idle" => NoResponse(toGard)
     /\ \E line \in Seq(Units) : toHub = line \o Ask /\ Leftover(line)

Accounted == Asked /\ Incoming /\ Between

\* If both began to talk, GARD can wait for ever: a request has taken its wish
\* for a response, or is what GARD reads in place of the response to its sync.
Unheard ==
  /\ gard = "waiting"
  /\ IF toGard = << >> THEN pc \in Places /\ Leftover(toHub)
                       ELSE toGard[1].kind # "syncResponse"

NoLossInv == Types /\ (Undamaged => Accounted \/ Unheard)

\* HUB takes n units of what comes before t.
LEMMA TakeFrom ==
  ASSUME NEW s \in Seq(Units), NEW t \in Seq(Units), NEW n \in 0 .. Len(s),
         toHub = s \o t, Taken(n)
  PROVE  /\ toHub' = SubSeq(s, n + 1, Len(s)) \o t
         /\ First(n) = SubSeq(s, 1, n)
<1>1. /\ toHub \in Seq(Units) /\ Len(toHub) = Len(s) + Len(t)
      /\ \A i \in 1 .. Len(s) + Len(t) : toHub[i] = IF i <= Len(s) THEN s[i] ELSE t[i - Len(s)]
  BY ConcatProperties
<1>2. Len(s) \in Nat /\ Len(t) \in Nat /\ n \in Nat /\ n <= Len(s)
  OBVIOUS
<1>3. n \in 0 .. Len(toHub)
  BY <1>1, <1>2
<1>4. /\ toHub' \in Seq(Units) /\ Len(toHub') = Len(s) + Len(t) - n
      /\ \A i \in 1 .. Len(toHub') : toHub'[i] = toHub[n + i] /\ n + i \in 1 .. Len(toHub)
  BY <1>1, <1>3, AfterTaking
<1> DEFINE r == SubSeq(s, n + 1, Len(s))
           f == SubSeq(s, 1, n)
<1>5. r \in Seq(Units) /\ Len(r) = Len(s) - n /\ \A i \in 1 .. Len(s) - n : r[i] = s[n + i]
  BY Back
<1>6. f \in Seq(Units) /\ Len(f) = n /\ \A i \in 1 .. n : f[i] = s[i]
  BY Front
<1>7. First(n) \in Seq(Units) /\ Len(First(n)) = n /\ \A i \in 1 .. n : First(n)[i] = toHub[i]
  BY <1>1, <1>3, Front DEF First
<1> HIDE DEF r, f
<1>8. /\ r \o t \in Seq(Units) /\ Len(r \o t) = Len(r) + Len(t)
      /\ \A i \in 1 .. Len(r) + Len(t) : (r \o t)[i] = IF i <= Len(r) THEN r[i] ELSE t[i - Len(r)]
  BY <1>5, ConcatProperties
<1>9. toHub' = r \o t
  <2> DEFINE w == r \o t
             h == toHub'
  <2>1. Len(w) = Len(s) - n + Len(t) /\ Len(h) = Len(w)
    BY <1>2, <1>4, <1>5, <1>8
  <2> SUFFICES ASSUME NEW i \in 1 .. Len(h) PROVE h[i] = w[i]
    <3> HIDE DEF w, h
    <3>1. h \in Seq(Units) /\ w \in Seq(Units)
      BY <1>4, <1>8 DEF w, h
    <3>2. (\A i \in 1 .. Len(h) : h[i] = w[i]) => h = w
      BY <2>1, <3>1, SeqEqual
    <3> QED
      BY <3>2 DEF w, h
  <2>2. h[i] = toHub[n + i] /\ n + i \in 1 .. Len(s) + Len(t) /\ i \in 1 .. Len(r) + Len(t)
    BY <1>1, <1>4, <1>5, <2>1, <1>2
  <2>3. CASE i <= Len(r)
    <3>1. n + i <= Len(s) /\ i \in 1 .. Len(s) - n
      BY <1>2, <1>5, <2>2, <2>3
    <3> QED
      BY <1>1, <1>5, <1>8, <2>2, <2>3, <3>1
  <2>4. CASE ~(i <= Len(r))
    <3>1. ~(n + i <= Len(s)) /\ n + i - Len(s) = i - Len(r)
      BY <1>2, <1>5, <2>2, <2>4
    <3>2. h[i] = t[n + i - Len(s)]
      BY <1>1, <2>2, <3>1
    <3>3. w[i] = t[i - Len(r)]
      BY <1>8, <2>2, <2>4
    <3> QED
      BY <3>1, <3>2, <3>3
  <2> QED
    BY <2>3, <2>4
<1>10. First(n) = f
  <2>1. \A i \in 1 .. n : i <= Len(s) /\ i \in 1 .. Len(s) + Len(t)
    BY <1>2
  <2>2. \A i \in 1 .. n : First(n)[i] = f[i]
    BY <1>1, <1>6, <1>7, <2>1
  <2> QED
    BY <1>6, <1>7, <2>2, SeqEqual
<1> QED
  BY <1>9, <1>10 DEF r, f

\* One of them,
LEMMA TakeNext ==
  ASSUME NEW s \in Seq(Units), NEW t \in Seq(Units), s # << >>,
         toHub = s \o t, ReadOk(1)
  PROVE  /\ toHub' = Tail(s) \o t /\ toHub[1] = s[1]
         /\ Head(toHub) = s[1] /\ First(1) = <<s[1]>>
<1>1. Len(s) \in Nat /\ Len(s) > 0 /\ 1 \in 0 .. Len(s)
  <2>1. Len(s) \in Nat /\ (Len(s) = 0 => s = << >>)
    BY EmptySeq
  <2> QED
    BY <2>1
<1>2. Taken(1)
  BY DEF ReadOk
<1>3. toHub' = SubSeq(s, 1 + 1, Len(s)) \o t /\ First(1) = SubSeq(s, 1, 1)
  BY <1>1, <1>2, TakeFrom
<1>4. SubSeq(s, 1 + 1, Len(s)) = Tail(s)
  <2> DEFINE r == SubSeq(s, 1 + 1, Len(s))
  <2>1. r \in Seq(Units) /\ Len(r) = Len(s) - 1 /\ \A i \in 1 .. Len(s) - 1 : r[i] = s[1 + i]
    BY <1>1, Back
  <2>2. /\ Tail(s) \in Seq(Units) /\ Len(Tail(s)) = Len(s) - 1
        /\ \A i \in 1 .. Len(Tail(s)) : Tail(s)[i] = s[i + 1]
    BY HeadTailProperties
  <2> HIDE DEF r
  <2>3. \A i \in 1 .. Len(r) : r[i] = Tail(s)[i]
    BY <1>1, <2>1, <2>2
  <2>4. r = Tail(s)
    BY <2>1, <2>2, <2>3, SeqEqual
  <2> QED
    BY <2>4 DEF r
<1>5. SubSeq(s, 1, 1) = <<s[1]>> /\ s[1] \in Units
  <2> DEFINE f == SubSeq(s, 1, 1)
  <2>1. f \in Seq(Units) /\ Len(f) = 1 /\ f[1] = s[1]
    <3>1. f \in Seq(Units) /\ Len(f) = 1 /\ \A i \in 1 .. 1 : f[i] = s[i]
      BY <1>1, Front
    <3> HIDE DEF f
    <3>2. 1 \in 1 .. 1
      OBVIOUS
    <3> QED
      BY <3>1, <3>2
  <2>2. 1 \in 1 .. Len(s)
    BY <1>1
  <2>3. s[1] \in Units
    BY <2>2, ElementOfSeq
  <2> HIDE DEF f
  <2>4. f = <<s[1]>>
    BY <2>1
  <2> QED
    BY <2>3, <2>4 DEF f
<1>6. toHub \in Seq(Units) /\ Len(toHub) \in Nat /\ toHub[1] = s[1] /\ Len(toHub) >= 1
  <2>1. /\ toHub \in Seq(Units) /\ Len(toHub) = Len(s) + Len(t)
        /\ \A i \in 1 .. Len(s) + Len(t) : toHub[i] = IF i <= Len(s) THEN s[i] ELSE t[i - Len(s)]
    BY ConcatProperties
  <2>2. 1 \in 1 .. Len(s) + Len(t) /\ 1 <= Len(s) /\ Len(t) \in Nat
    BY <1>1
  <2> QED
    BY <1>1, <2>1, <2>2
<1>7. Head(toHub) = toHub[1]
  BY <1>6
<1> QED
  BY <1>3, <1>4, <1>5, <1>6, <1>7

\* or all
LEMMA TakeAll ==
  ASSUME NEW s \in Seq(Units), NEW t \in Seq(Units), toHub = s \o t, ReadOk(Len(s))
  PROVE  toHub' = t /\ First(Len(s)) = s
<1>1. Len(s) \in 0 .. Len(s) /\ Taken(Len(s)) /\ Len(s) \in Nat
  BY DEF ReadOk
<1>2. toHub' = SubSeq(s, Len(s) + 1, Len(s)) \o t /\ First(Len(s)) = SubSeq(s, 1, Len(s))
  BY <1>1, TakeFrom
<1>3. SubSeq(s, 1, Len(s)) = s
  BY SubSeqFull
<1> DEFINE r == SubSeq(s, Len(s) + 1, Len(s))
<1>4. r \in Seq(Units) /\ Len(r) = Len(s) - Len(s)
  BY <1>1, Back
<1>5. r = << >>
  <2> HIDE DEF r
  <2>1. Len(r) = 0
    BY <1>1, <1>4
  <2> QED
    BY <1>4, <2>1, EmptySeq
<1>6. << >> \o t = t
  BY ConcatEmptySeq
<1> QED
  BY <1>2, <1>3, <1>5, <1>6

\* Failures and sends are only counted up,
LEMMA Counts ==
  ASSUME Types, [Next]_vars
  PROVE  /\ errors' = errors \/ errors' = errors + 1
         /\ sent' = sent \/ sent' = sent + 1
<1>1. sent' = sent \/ sent' = sent + 1
  BY StepTypes DEF Takes, Says, SendsNext
<1>2. CASE Dispatch
  <2>1. CASE \/ CommandInProgress \/ ReadCommandByte \/ ReadOriginator
             \/ WriteSyncResponse \/ ReadSendHeader \/ ReadPeek \/ ReadPayload
    BY <2>1 DEF CommandInProgress, ReadCommandByte, ReadOriginator, WriteSyncResponse,
                ReadSendHeader, ReadPeek, ReadPayload, ReadOk, ReadShort, WriteOk, WriteFails
  <2>2. CASE \/ SendAppRequest \/ RecvPartialResponse \/ RecvResponse
             \/ RecvAppResponse \/ SendData \/ CompleteRequest \/ IdleReturns
    BY <2>2 DEF SendAppRequest, RecvPartialResponse, RecvResponse, RecvAppResponse, SendData,
                CompleteRequest, IdleReturns, ReadOk, ReadShort, WriteOk, WriteFails
  <2> QED
    BY <1>2, <2>1, <2>2 DEF Dispatch
<1>3. ASSUME NEW kind \in Kinds, BeginRequest(kind)
      PROVE  errors' = errors \/ errors' = errors + 1
  BY <1>3 DEF BeginRequest, WriteOk, WriteFails
<1>4. CASE Kt_StopDispatcher \/ Gard
  BY <1>4 DEF Kt_StopDispatcher, Gard, GardSync, GardSend, GardAnswer
<1>5. CASE UNCHANGED vars
  BY <1>5 DEF vars
<1> QED
  BY <1>1, <1>2, <1>3, <1>4, <1>5 DEF Next

\* so that what is undamaged was before,
LEMMA WasUndamaged ==
  ASSUME Types, [Next]_vars, Undamaged'
  PROVE  Undamaged
<1>1. errors \in Nat /\ sent \in Nat
  BY HubAssumption DEF HubAssumption, Types, TypeOK
<1>2. errors = 0
  BY <1>1, Counts DEF Undamaged
<1>3. \A n \in 1 .. sent : n \in 1 .. sent'
  BY <1>1, Counts
<1> QED
  BY <1>2, <1>3 DEF Undamaged, Accepted

\* and nothing failed on the way.
LEMMA NoFailure ==
  ASSUME Types, Undamaged', NEW n
  PROVE  ~ReadShort(n) /\ ~WriteFails
<1>1. errors \in Nat /\ errors' = 0
  BY HubAssumption DEF HubAssumption, Types, TypeOK, Undamaged
<1>2. errors' # errors + 1
  BY <1>1
<1> QED
  BY <1>2 DEF ReadShort, WriteFails

LEMMA Line ==
  ASSUME Types
  PROVE  /\ toHub \in Seq(Units) /\ toGard \in Seq(Units) /\ sent \in Nat
         /\ sent \in 0 .. Len(Sends) /\ gard \in {"idle", "waiting"}
         /\ Wish \in Seq(Units) /\ Ask \in Seq(Units)
         /\ Len(Wish) = 2 /\ Wish[1] = Unit("sync", sent + 1) /\ Wish[2] = Unit("gardId", sent + 1)
<1>1. /\ toHub \in Seq(Units) /\ toGard \in Seq(Units) /\ sent \in Nat
      /\ sent \in 0 .. Len(Sends) /\ gard \in {"idle", "waiting"}
  BY SendsType DEF Types, TypeOK
<1>2. Unit("sync", sent + 1) \in Units /\ Unit("gardId", sent + 1) \in Units
  BY <1>1, UnitType DEF UnitKinds
<1>3. /\ Wish \in Seq(Units) /\ Len(Wish) = 2
      /\ Wish[1] = Unit("sync", sent + 1) /\ Wish[2] = Unit("gardId", sent + 1)
  BY <1>2, Words DEF Wish
<1>4. Ask \in Seq(Units)
  BY <1>3 DEF Ask
<1> QED
  BY <1>1, <1>3, <1>4

LEMMA ToPlaces ==
  ASSUME pc' \in Places, Between'
  PROVE  Accounted'
<1>1. pc' \notin {"originator", "respond", "header", "peek", "payload"}
  BY DEF Places, Requesting
<1> QED
  BY <1>1 DEF Accounted, Asked, Incoming

LEMMA TailLeft ==
  ASSUME NEW line \in Seq(Units), line # << >>, Leftover(line)
  PROVE  Tail(line) \in Seq(Units) /\ Leftover(Tail(line))
<1>1. /\ Tail(line) \in Seq(Units) /\ Len(Tail(line)) = Len(line) - 1
      /\ \A i \in 1 .. Len(Tail(line)) : Tail(line)[i] = line[i + 1]
  BY HeadTailProperties
<1>2. Len(line) \in Nat
  OBVIOUS
<1>3. \A i \in 1 .. Len(Tail(line)) : i + 1 \in 1 .. Len(line)
  BY <1>1, <1>2
<1> QED
  BY <1>1, <1>3 DEF Leftover

\* Steps that read nothing
LEMMA Quiet ==
  ASSUME Accounted, pc \in Places, pc' \in Places,
         UNCHANGED <<toHub, toGard, gard, sent, delivered>>
  PROVE  Accounted'
<1>1. /\ Handled(sent) /\ (gard = "waiting" => toGard = << >>)
      /\ gard = "idle" => NoResponse(toGard)
      /\ \E line \in Seq(Units) : toHub = line \o Ask /\ Leftover(line)
  BY DEF Accounted, Between
<1>2. Ask' = Ask
  <2>1. pc \notin {"originator", "respond"} /\ pc' \notin {"originator", "respond"}
    BY DEF Places, Requesting
  <2> QED
    BY <2>1 DEF Ask, Wish
<1>3. Handled(sent)'
  BY <1>1 DEF Handled, Accepted
<1>4. \E line \in Seq(Units) : toHub' = line \o Ask' /\ Leftover(line)
  BY <1>1, <1>2
<1>5. Between'
  BY <1>1, <1>3, <1>4 DEF Between, Leftover, NoResponse
<1> QED
  BY <1>5, ToPlaces

\* Steps that write to a GARD that listens, or to one that waits
LEMMA Written ==
  ASSUME Types, Accounted, pc \in Places, pc' \in Places,
         NEW u \in Units, u.kind # "syncResponse", WriteOk(u), UNCHANGED <<gard, sent, delivered>>
  PROVE  Accounted' \/ Unheard'
<1>1. /\ Handled(sent) /\ (gard = "waiting" => toGard = << >>)
      /\ gard = "idle" => NoResponse(toGard)
      /\ \E line \in Seq(Units) : toHub = line \o Ask /\ Leftover(line)
  BY DEF Accounted, Between
<1>2. toHub' = toHub /\ toGard' = Append(toGard, u) /\ toGard \in Seq(Units)
  BY Line DEF WriteOk
<1>3. CASE gard = "waiting"
  <2>1. toGard' # << >> /\ toGard'[1] = u
    BY <1>1, <1>2, <1>3
  <2> QED
    BY <1>3, <2>1 DEF Unheard
<1>4. CASE gard = "idle"
  <2>1. Ask = << >> /\ Ask' = << >>
    BY <1>4 DEF Ask
  <2>2. Handled(sent)'
    BY <1>1 DEF Handled, Accepted
  <2>3. \E line \in Seq(Units) : toHub' = line \o Ask' /\ Leftover(line)
    BY <1>1, <1>2, <2>1
  <2>4. NoResponse(toGard')
    <3>1. /\ Len(toGard') = Len(toGard) + 1 /\ toGard'[Len(toGard) + 1] = u
          /\ \A i \in 1 .. Len(toGard) : toGard'[i] = toGard[i]
      BY <1>2, Grown
    <3>2. \A i \in 1 .. Len(toGard) + 1 : i \in 1 .. Len(toGard) \/ i = Len(toGard) + 1
      BY <1>2
    <3> QED
      BY <1>1, <1>4, <3>1, <3>2 DEF NoResponse
  <2>5. Between'
    BY <1>4, <2>2, <2>3, <2>4 DEF Between, Leftover, NoResponse
  <2> QED
    BY <2>5, ToPlaces
<1> QED
  BY <1>3, <1>4, Line

\* Steps that read a word left over
LEMMA ReadLeft ==
  ASSUME Types, Accounted, pc \in Places, pc' \in Places, ReadOk(1),
         UNCHANGED <<gard, sent, delivered>>, toHub[1].kind # "sync"
  PROVE  Accounted'
<1>1. /\ Handled(sent) /\ (gard = "waiting" => toGard = << >>)
      /\ gard = "idle" => NoResponse(toGard)
  BY DEF Accounted, Between
<1> PICK line \in Seq(Units) : toHub = line \o Ask /\ Leftover(line)
  BY DEF Accounted, Between
<1>2. Ask \in Seq(Units) /\ Wish[1] = Unit("sync", sent + 1) /\ toHub \in Seq(Units)
  BY Line
<1>3. line # << >>
  <2>1. ASSUME line = << >> PROVE FALSE
    <3>1. toHub = Ask
      BY <1>2, <2>1, ConcatEmptySeq
    <3>2. Ask # << >>
      BY <1>2, <3>1 DEF ReadOk
    <3>3. toHub[1] = Unit("sync", sent + 1)
      BY <1>2, <3>1, <3>2 DEF Ask
    <3> QED
      BY <3>3 DEF Unit
  <2> QED
    BY <2>1
<1>4. toHub' = Tail(line) \o Ask
  BY <1>2, <1>3, TakeNext
<1>5. Tail(line) \in Seq(Units) /\ Leftover(Tail(line))
  BY <1>3, TailLeft
<1>6. Ask' = Ask /\ toGard' = toGard
  <2>1. pc \notin {"originator", "respond"} /\ pc' \notin {"originator", "respond"}
    BY DEF Places, Requesting
  <2>2. toGard' = toGard
    BY DEF ReadOk
  <2> QED
    BY <2>1, <2>2 DEF Ask, Wish
<1>7. Handled(sent)'
  BY <1>1 DEF Handled, Accepted
<1>8. \E l \in Seq(Units) : toHub' = l \o Ask' /\ Leftover(l)
  BY <1>4, <1>5, <1>6
<1>9. Between'
  BY <1>1, <1>6, <1>7, <1>8 DEF Between, Leftover, NoResponse
<1> QED
  BY <1>9, ToPlaces

\* The first word of GARD's wish is read when nothing is left over.
LEMMA ReadWish ==
  ASSUME Types, Accounted, pc \in Places, ReadOk(1), toHub[1].kind = "sync"
  PROVE  /\ gard = "waiting" /\ toGard = << >>
         /\ toHub' = <<Unit("gardId", sent + 1)>> /\ Unit("gardId", sent + 1) \in Units
<1> PICK line \in Seq(Units) : toHub = line \o Ask /\ Leftover(line)
  BY DEF Accounted, Between
<1>1. /\ Ask \in Seq(Units) /\ Wish \in Seq(Units) /\ Len(Wish) = 2
      /\ Wish[2] = Unit("gardId", sent + 1)
  BY Line
<1>2. line = << >>
  <2>1. ASSUME line # << >> PROVE FALSE
    <3>1. toHub[1] = line[1]
      BY <1>1, <2>1, TakeNext
    <3>2. 1 \in 1 .. Len(line)
      <4>1. Len(line) \in Nat /\ Len(line) # 0
        BY <2>1, EmptySeq
      <4> QED
        BY <4>1
    <3> QED
      BY <3>1, <3>2 DEF Leftover
  <2> QED
    BY <2>1
<1>3. toHub = Ask
  BY <1>1, <1>2, ConcatEmptySeq
<1>4. Ask # << >>
  BY <1>3 DEF ReadOk
<1>5. gard = "waiting" /\ toGard = << >> /\ toHub = Wish
  BY <1>3, <1>4 DEF Ask
<1>6. toHub # << >> /\ toHub \o << >> = toHub /\ << >> \in Seq(Units)
  BY <1>1, <1>3, <1>4, ConcatEmptySeq
<1>7. toHub' = Tail(toHub) \o << >>
  BY <1>1, <1>3, <1>6, TakeNext
<1>8. /\ Tail(Wish) \in Seq(Units) /\ Len(Tail(Wish)) = 1
      /\ \A i \in 1 .. Len(Tail(Wish)) : Tail(Wish)[i] = Wish[i + 1]
  BY <1>1, <1>5, <1>6, HeadTailProperties
<1> DEFINE w == Tail(Wish)
           u == Unit("gardId", sent + 1)
<1>9. w \in Seq(Units) /\ Len(w) = 1 /\ w[1] = u
  <2>1. w \in Seq(Units) /\ Len(w) = 1 /\ \A i \in 1 .. Len(w) : w[i] = Wish[i + 1]
    BY <1>8
  <2>2. Wish[2] = u
    BY <1>1
  <2> HIDE DEF w, u
  <2>3. 1 \in 1 .. Len(w) /\ 1 + 1 = 2
    BY <2>1
  <2>4. w[1] = Wish[2]
    BY <2>1, <2>3
  <2> QED
    BY <2>1, <2>2, <2>4
<1>10. toHub' = w
  BY <1>5, <1>7, <1>8, ConcatEmptySeq
<1>11. u \in Units
  BY Line, UnitType DEF UnitKinds
<1> HIDE DEF w, u
<1>12. w = <<u>>
  BY <1>9
<1> QED
  BY <1>5, <1>10, <1>11, <1>12 DEF u

\* Looking for a command
LEMMA CommandKept ==
  ASSUME Types, Accounted, Undamaged', CommandInProgress \/ ReadCommandByte
  PROVE  Accounted'
<1> USE DEF Goto
<1>1. pc \in Places /\ "idle" \in Places
  BY DEF CommandInProgress, ReadCommandByte, Places
<1>2. CASE CommandInProgress
  BY <1>1, <1>2, Quiet DEF CommandInProgress
<1>3. CASE ReadCommandByte
  <2>1. /\ ReadOk(1) /\ UNCHANGED <<gard, sent, delivered>>
        /\ pc' = IF Head(toHub).kind = "sync" THEN "originator" ELSE "idle"
    BY <1>3, NoFailure DEF ReadCommandByte
  <2>2. Head(toHub) = toHub[1]
    BY <2>1, ReadOne
  <2>3. CASE toHub[1].kind # "sync"
    BY <1>1, <2>1, <2>2, <2>3, ReadLeft
  <2>4. CASE toHub[1].kind = "sync"
    <3>1. gard = "waiting" /\ toGard = << >> /\ toHub' = <<Unit("gardId", sent + 1)>>
      BY <1>1, <2>1, <2>4, ReadWish
    <3>2. pc' = "originator" /\ toGard' = toGard
      BY <2>1, <2>2, <2>4 DEF ReadOk
    <3>3. Handled(sent)'
      BY <1>1, <2>1 DEF Accounted, Between, Handled, Accepted
    <3>4. Asked'
      BY <2>1, <3>1, <3>2, <3>3 DEF Asked
    <3> QED
      BY <3>2, <3>4 DEF Accounted, Incoming, Between, Places, Requesting
  <2> QED
    BY <2>3, <2>4
<1> QED
  BY <1>2, <1>3

\* GARD is the one that asked,
LEMMA OriginatorKept ==
  ASSUME Types, Accounted, Undamaged', ReadOriginator
  PROVE  Accounted'
<1> DEFINE u == Unit("gardId", sent + 1)
<1>1. /\ gard = "waiting" /\ toGard = << >> /\ Handled(sent) /\ toHub = <<u>>
  BY DEF Accounted, Asked, ReadOriginator
<1>2. /\ ReadOk(1) /\ UNCHANGED <<gard, sent, delivered>> /\ pc' = IF Head(toHub).kind = "gardId" THEN "respond" ELSE "idle"
  BY NoFailure DEF ReadOriginator, Goto
<1>3. u \in Units /\ u.kind = "gardId"
  BY Line, UnitType DEF UnitKinds
<1> HIDE DEF u
<1>4. Head(toHub) = u /\ Len(toHub) = 1
  BY <1>1, <1>3
<1>5. pc' = "respond"
  BY <1>2, <1>3, <1>4
<1>6. toHub' = << >>
  <2>1. toHub' \in Seq(Units) /\ Len(toHub') = Len(toHub) - 1
    BY <1>2, <1>4, Line, AfterTaking DEF ReadOk
  <2>2. Len(toHub') = 0
    BY <1>4, <2>1
  <2> QED
    BY <2>1, <2>2, EmptySeq
<1>7. Handled(sent)'
  BY <1>1, <1>2 DEF Handled, Accepted
<1>8. Asked'
  BY <1>1, <1>2, <1>5, <1>6, <1>7 DEF Asked, ReadOk
<1> QED
  BY <1>5, <1>8 DEF Accounted, Incoming, Between, Places, Requesting

\* and is let to.
LEMMA ResponseKept ==
  ASSUME Types, Accounted, Undamaged', WriteSyncResponse
  PROVE  Accounted'
<1>1. gard = "waiting" /\ toGard = << >> /\ Handled(sent) /\ toHub = << >>
  BY DEF Accounted, Asked, WriteSyncResponse
<1>2. /\ WriteOk(Unit("syncResponse", 0)) /\ UNCHANGED <<gard, sent, delivered>> /\ pc' = "header"
  BY NoFailure DEF WriteSyncResponse, Goto
<1>3. toHub' = << >> /\ toGard' = <<Unit("syncResponse", 0)>>
  BY <1>1, <1>2 DEF WriteOk
<1>4. Handled(sent)'
  BY <1>1, <1>2 DEF Handled, Accepted
<1>5. Invited'
  BY <1>1, <1>2, <1>3, <1>4 DEF Invited
<1> QED
  BY <1>2, <1>5 DEF Accounted, Asked, Incoming, Between, Places, Requesting

\* What a payload that is announced consists of
LEMMA SendType ==
  ASSUME Types, sent > 0
  PROVE  /\ sent \in 1 .. Len(Sends) /\ Sends[sent].size \in Nat \ {0}
         /\ Payload(sent) \in Seq(Units) /\ Payload(sent) # << >>
         /\ Len(Payload(sent)) = Sends[sent].size
         /\ Payload(sent)[1] = Unit("peek", sent)
         /\ Unit("send", sent) \in Units /\ Unit("peek", sent) \in Units
<1>1. sent \in 1 .. Len(Sends) /\ sent \in Nat
  BY Line
<1>2. /\ Sends[sent].size \in Nat \ {0}
      /\ Payload(sent) \in Seq(Units) /\ Len(Payload(sent)) = Sends[sent].size
      /\ Payload(sent)[1] = Unit("peek", sent)
  BY <1>1, PayloadType
<1>3. Payload(sent) # << >>
  BY <1>2, EmptySeq
<1> QED
  BY <1>1, <1>2, <1>3, UnitType DEF UnitKinds

LEMMA AnnouncedSend ==
  ASSUME Types, sent > 0
  PROVE  /\ <<Unit("send", sent)>> \o Payload(sent) \in Seq(Units)
         /\ <<Unit("send", sent)>> \o Payload(sent) # << >>
         /\ (<<Unit("send", sent)>> \o Payload(sent))[1] = Unit("send", sent)
         /\ Tail(<<Unit("send", sent)>> \o Payload(sent)) = Payload(sent)
<1> DEFINE u == Unit("send", sent)
           p == Payload(sent)
<1>1. u \in Units /\ p \in Seq(Units)
  BY SendType
<1> HIDE DEF u, p
<1>2. <<u>> \in Seq(Units) /\ Len(<<u>>) = 1 /\ <<u>>[1] = u
  BY <1>1
<1> DEFINE w == <<u>> \o p
           o == <<u>>
<1>3. /\ w \in Seq(Units) /\ Len(w) = 1 + Len(p)
      /\ \A i \in 1 .. 1 + Len(p) : w[i] = IF i <= 1 THEN u ELSE p[i - 1]
  <2>1. o \in Seq(Units) /\ Len(o) = 1 /\ \A i \in 1 .. Len(o) : o[i] = u
    BY <1>2
  <2>2. /\ w \in Seq(Units) /\ Len(w) = Len(o) + Len(p)
        /\ \A i \in 1 .. Len(o) + Len(p) : w[i] = IF i <= Len(o) THEN o[i] ELSE p[i - Len(o)]
    BY <1>1, <2>1, ConcatProperties
  <2> HIDE DEF w, o
  <2> QED
    BY <2>1, <2>2
<1>4. Len(p) \in Nat
  BY <1>1
<1> HIDE DEF w, o
<1>5. w # << >> /\ w[1] = u
  <2>1. Len(w) # 0 /\ 1 \in 1 .. 1 + Len(p)
    BY <1>3, <1>4
  <2> QED
    BY <1>3, <2>1
<1>6. Tail(w) \in Seq(Units) /\ Len(Tail(w)) = Len(p) /\ \A i \in 1 .. Len(p) : Tail(w)[i] = p[i]
  <2>1. /\ Tail(w) \in Seq(Units) /\ Len(Tail(w)) = Len(w) - 1
        /\ \A i \in 1 .. Len(Tail(w)) : Tail(w)[i] = w[i + 1]
    BY <1>3, <1>5, HeadTailProperties
  <2>2. Len(Tail(w)) = Len(p)
    BY <1>3, <1>4, <2>1
  <2>3. \A i \in 1 .. Len(p) : i + 1 \in 1 .. 1 + Len(p) /\ ~(i + 1 <= 1) /\ (i + 1) - 1 = i
    BY <1>4
  <2> QED
    BY <1>3, <2>1, <2>2, <2>3
<1>7. Tail(w) = p
  BY <1>1, <1>6, SeqEqual
<1> QED
  BY <1>3, <1>5, <1>7 DEF w, u, p

\* A payload that is refused need not be delivered,
LEMMA Upto ==
  ASSUME NEW m \in Nat, m > 0
  PROVE  {n \in 1 .. m : Accepted(n)} =
           {n \in 1 .. m - 1 : Accepted(n)} \cup IF Accepted(m) THEN {m} ELSE {}
<1>1. \A n : n \in 1 .. m <=> n \in 1 .. m - 1 \/ n = m
  OBVIOUS
<1> QED
  BY <1>1

LEMMA RefusedOne ==
  ASSUME NEW m \in Nat, m > 0, Handled(m - 1), ~Accepted(m), delivered' = delivered
  PROVE  Handled(m)'
  BY Upto DEF Handled, Accepted

\* and one that fits is.
LEMMA DeliveredOne ==
  ASSUME NEW m \in Nat, m > 0, Handled(m - 1), delivered \in Seq(Seq(Units)),
         NEW f \in Seq(Units), f[1].of = m, Accepted(m), delivered' = Append(delivered, f)
  PROVE  Handled(m)'
<1> DEFINE l == Len(delivered)
<1>1. /\ Len(delivered') = l + 1 /\ delivered'[l + 1] = f
      /\ \A i \in 1 .. l : delivered'[i] = delivered[i]
  BY Grown
<1>2. l \in Nat /\ DOMAIN delivered = 1 .. l
  OBVIOUS
<1>3. delivered' \in Seq(Seq(Units))
  BY Grown
<1>4. DOMAIN delivered' = 1 .. l + 1
  <2>1. DOMAIN delivered' = 1 .. Len(delivered')
    BY <1>3
  <2> HIDE DEF l
  <2> QED
    BY <1>1, <2>1
<1> HIDE DEF l
<1>5. \A i : i \in 1 .. l + 1 <=> i \in 1 .. l \/ i = l + 1
  BY <1>2
<1>6. {delivered'[i][1].of : i \in 1 .. l + 1} = {delivered[i][1].of : i \in 1 .. l} \cup {m}
  <2>1. ASSUME NEW x \in {delivered'[i][1].of : i \in 1 .. l + 1}
        PROVE  x \in {delivered[i][1].of : i \in 1 .. l} \cup {m}
    <3> PICK i \in 1 .. l + 1 : x = delivered'[i][1].of
      BY <2>1
    <3> QED
      BY <1>1, <1>5
  <2>2. ASSUME NEW x \in {delivered[i][1].of : i \in 1 .. l}
        PROVE  x \in {delivered'[i][1].of : i \in 1 .. l + 1}
    <3> PICK i \in 1 .. l : x = delivered[i][1].of
      BY <2>2
    <3> QED
      BY <1>1, <1>5
  <2>3. m \in {delivered'[i][1].of : i \in 1 .. l + 1}
    <3>1. l + 1 \in 1 .. l + 1 /\ delivered'[l + 1][1].of = m
      BY <1>1, <1>5
    <3> QED
      BY <3>1
  <2> QED
    BY <2>1, <2>2, <2>3
<1>7. {delivered[i][1].of : i \in 1 .. l} = {n \in 1 .. m - 1 : Accepted(n)}
  BY <1>2 DEF Handled
<1>8. {delivered'[i][1].of : i \in DOMAIN delivered'} = {n \in 1 .. m : Accepted(n)}
  BY Upto, <1>4, <1>6, <1>7
<1> QED
  BY <1>8 DEF Handled, Accepted

\* What a refused payload leaves behind
LEMMA Plain ==
  ASSUME Types, sent > 0, ~Sends[sent].alike
  PROVE  Tail(Payload(sent)) \in Seq(Units) /\ Leftover(Tail(Payload(sent)))
<1> DEFINE p == Payload(sent)
<1>1. /\ p \in Seq(Units) /\ p # << >> /\ Len(p) = Sends[sent].size
      /\ Sends[sent].size \in Nat
  BY SendType
<1>2. /\ Tail(p) \in Seq(Units) /\ Len(Tail(p)) = Len(p) - 1
      /\ \A i \in 1 .. Len(Tail(p)) : Tail(p)[i] = p[i + 1]
  BY <1>1, HeadTailProperties
<1>3. ASSUME NEW i \in 1 .. Sends[sent].size, i > 1
      PROVE  p[i].kind # "sync"
  <2>1. p[i] = Unit("data", sent)
    BY <1>3 DEF Payload
  <2> QED
    BY <2>1 DEF Unit
<1> HIDE DEF p
<1>4. \A i \in 1 .. Len(Tail(p)) : i + 1 \in 1 .. Sends[sent].size /\ i + 1 > 1
  BY <1>1, <1>2
<1>5. Leftover(Tail(p))
  BY <1>2, <1>3, <1>4 DEF Leftover
<1> QED
  BY <1>2, <1>5 DEF p

\* Receiving what is announced
LEMMA HeaderKept ==
  ASSUME Types, Accounted, Undamaged', ReadSendHeader
  PROVE  Accounted'
<1> DEFINE s == <<Unit("send", sent)>> \o Payload(sent)
<1>1. pc = "header" /\ (Invited \/ Coming(s)) /\ Ask \in Seq(Units)
  BY Line DEF ReadSendHeader, Accounted, Incoming
<1>2. /\ ReadOk(1) /\ UNCHANGED <<gard, sent, delivered>>
      /\ LET size == IF Head(toHub).kind = "send" THEN Sends[Head(toHub).of].size ELSE 0
         IN IF size = 0 THEN EndSend
            ELSE frame' = [size |-> size, got |-> << >>] /\ pc' = "peek"
  BY NoFailure DEF ReadSendHeader, Goto
<1>3. Coming(s)
  <2>1. toHub # << >>
    BY <1>2 DEF ReadOk
  <2> QED
    BY <1>1, <2>1 DEF Invited
<1>4. sent > 0 /\ toGard = << >> /\ toHub = s \o Ask /\ Handled(sent - 1)
  BY <1>3 DEF Coming
<1>5. /\ s \in Seq(Units) /\ s # << >> /\ s[1] = Unit("send", sent) /\ Tail(s) = Payload(sent)
  BY <1>4, AnnouncedSend
<1> HIDE DEF s
<1>6. toHub' = Payload(sent) \o Ask /\ Head(toHub) = Unit("send", sent)
  BY <1>1, <1>2, <1>4, <1>5, TakeNext
<1>7. pc' = "peek" /\ frame'.size = Sends[sent].size
  <2>1. Head(toHub).kind = "send" /\ Head(toHub).of = sent
    BY <1>6 DEF Unit
  <2>2. Sends[sent].size # 0
    BY <1>4, SendType
  <2> QED
    BY <1>2, <2>1, <2>2
<1>8. toGard' = << >> /\ sent' = sent /\ gard' = gard
  BY <1>2, <1>4 DEF ReadOk
<1>9. Ask' = Ask
  BY <1>1, <1>4, <1>7, <1>8 DEF Ask, Wish
<1>10. Handled(sent - 1)'
  BY <1>2, <1>4 DEF Handled, Accepted
<1>11. Coming(Payload(sent))'
  <2>1. Payload(sent)' = Payload(sent)
    BY <1>8 DEF Payload
  <2> QED
    BY <1>4, <1>6, <1>8, <1>9, <1>10, <2>1 DEF Coming
<1> QED
  BY <1>7, <1>8, <1>11 DEF Accounted, Asked, Incoming, Between, Places, Requesting

LEMMA PeekKept ==
  ASSUME Types, Undamaged, Accounted, Undamaged', ReadPeek
  PROVE  Accounted'
<1> DEFINE p == Payload(sent)
<1>1. pc = "peek" /\ Coming(p) /\ frame.size = Sends[sent].size /\ Ask \in Seq(Units)
  BY Line DEF ReadPeek, Accounted, Incoming
<1>2. /\ ReadOk(1) /\ UNCHANGED <<gard, sent, delivered>>
      /\ IF KnownPayload(Head(toHub)) /\ BufferSize >= frame.size
         THEN frame' = [frame EXCEPT !.got = First(1)] /\ pc' = "payload"
         ELSE EndSend
  BY NoFailure DEF ReadPeek, Goto
<1>3. sent > 0 /\ toGard = << >> /\ toHub = p \o Ask /\ Handled(sent - 1)
  BY <1>1 DEF Coming
<1>4. /\ p \in Seq(Units) /\ p # << >> /\ p[1] = Unit("peek", sent)
      /\ sent \in 1 .. Len(Sends) /\ Sends[sent].size \in Nat /\ sent \in Nat
  BY <1>3, SendType, Line
<1>5. p' = p
  BY <1>2 DEF Payload
<1> HIDE DEF p
<1>6. /\ toHub' = Tail(p) \o Ask /\ Head(toHub) = Unit("peek", sent)
      /\ First(1) = <<Unit("peek", sent)>>
  BY <1>1, <1>2, <1>3, <1>4, TakeNext
<1>7. KnownPayload(Head(toHub)) /\ BufferSize >= frame.size <=> Accepted(sent)
  <2>1. Head(toHub).kind = "peek" /\ Head(toHub).of = sent
    BY <1>6 DEF Unit
  <2>2. BufferSize >= frame.size <=> Sends[sent].size <= BufferSize
    BY <1>1, <1>4, HubAssumption DEF HubAssumption
  <2> QED
    BY <2>1, <2>2 DEF KnownPayload, Accepted
<1>8. toGard' = << >> /\ sent' = sent /\ gard' = gard
  BY <1>2, <1>3 DEF ReadOk
<1>9. CASE Accepted(sent)
  <2>1. pc' = "payload" /\ frame' = [frame EXCEPT !.got = First(1)]
    BY <1>2, <1>7, <1>9
  <2>2. frame'.size = Sends[sent].size /\ frame'.got = <<Unit("peek", sent)>>
    BY <1>1, <1>6, <2>1 DEF Types, TypeOK
  <2>3. Ask' = Ask
    BY <1>1, <1>3, <1>8, <2>1 DEF Ask, Wish
  <2>4. Handled(sent - 1)'
    BY <1>2, <1>3 DEF Handled, Accepted
  <2>5. Coming(Tail(Payload(sent)))'
    BY <1>3, <1>5, <1>6, <1>8, <2>3, <2>4 DEF Coming, p
  <2>6. Accepted(sent)'
    BY <1>8, <1>9 DEF Accepted
  <2> QED
    BY <1>8, <2>1, <2>2, <2>5, <2>6 DEF Accounted, Asked, Incoming, Between, Places, Requesting
<1>10. CASE ~Accepted(sent)
  <2>1. pc' = "idle"
    BY <1>2, <1>7, <1>10 DEF EndSend, Goto
  <2>2. ~Sends[sent].alike
    <3>1. sent \in 1 .. sent
      BY <1>3, <1>4
    <3> QED
      BY <1>10, <3>1 DEF Undamaged
  <2>3. Tail(p) \in Seq(Units) /\ Leftover(Tail(p))
    BY <1>3, <2>2, Plain DEF p
  <2>4. Ask' = Ask
    BY <1>1, <1>3, <1>8, <2>1 DEF Ask, Wish
  <2>5. Handled(sent)'
    <3> PICK m \in Nat : m = sent
      BY <1>4
    <3>1. Handled(m)'
      BY <1>2, <1>3, <1>10, RefusedOne
    <3> QED
      BY <1>8, <3>1 DEF Handled, Accepted
  <2>6. \E l \in Seq(Units) : toHub' = l \o Ask' /\ Leftover(l)
    BY <1>6, <2>3, <2>4
  <2>7. pc' \in Places
    BY <2>1 DEF Places
  <2>8. NoResponse(toGard')
    BY <1>8 DEF NoResponse
  <2>9. Between'
    BY <1>8, <2>5, <2>6, <2>8 DEF Between, Leftover, NoResponse
  <2> QED
    BY <2>7, <2>9, ToPlaces
<1> QED
  BY <1>9, <1>10

LEMMA PayloadKept ==
  ASSUME Types, Accounted, Undamaged', ReadPayload
  PROVE  Accounted'
<1> DEFINE p == Payload(sent)
<1>1. /\ pc = "payload" /\ Coming(Tail(p)) /\ Accepted(sent) /\ frame.size = Sends[sent].size
      /\ frame.got = <<Unit("peek", sent)>> /\ Ask \in Seq(Units)
  BY Line DEF ReadPayload, Accounted, Incoming
<1>2. /\ ReadOk(frame.size - 1) /\ UNCHANGED <<gard, sent>> /\ pc' = "idle"
      /\ delivered' = Append(delivered, frame.got \o First(frame.size - 1))
  BY NoFailure DEF ReadPayload, EndSend, Goto
<1>3. sent > 0 /\ toGard = << >> /\ toHub = Tail(p) \o Ask /\ Handled(sent - 1)
  BY <1>1 DEF Coming
<1>4. /\ p \in Seq(Units) /\ p # << >> /\ Len(p) = Sends[sent].size
      /\ Sends[sent].size \in Nat /\ sent \in Nat /\ Unit("peek", sent) \in Units
  BY <1>3, SendType, Line
<1> HIDE DEF p
<1>5. Tail(p) \in Seq(Units) /\ Len(Tail(p)) = frame.size - 1
  BY <1>1, <1>4, HeadTailProperties
<1>6. toHub' = Ask /\ First(frame.size - 1) = Tail(p)
  <2>1. ReadOk(Len(Tail(p)))
    BY <1>2, <1>5
  <2> QED
    BY <1>1, <1>3, <1>5, <2>1, TakeAll
<1>7. toGard' = << >> /\ sent' = sent /\ gard' = gard
  BY <1>2, <1>3 DEF ReadOk
<1> DEFINE f == <<Unit("peek", sent)>> \o Tail(p)
<1>8. f \in Seq(Units) /\ f[1].of = sent
  <2> DEFINE u == Unit("peek", sent)
             o == <<u>>
             t == Tail(p)
  <2>1. u \in Units /\ u.of = sent
    BY <1>4 DEF Unit
  <2>2. o \in Seq(Units) /\ Len(o) = 1 /\ o[1] = u /\ t \in Seq(Units) /\ Len(t) \in Nat
    BY <1>5, <2>1
  <2> HIDE DEF u, o, t
  <2>3. /\ o \o t \in Seq(Units)
        /\ \A i \in 1 .. Len(o) + Len(t) : (o \o t)[i] = IF i <= Len(o) THEN o[i] ELSE t[i - Len(o)]
    BY <2>2, ConcatProperties
  <2>4. 1 \in 1 .. Len(o) + Len(t) /\ 1 <= Len(o)
    BY <2>2
  <2>5. (o \o t)[1] = u
    BY <2>2, <2>3, <2>4
  <2> QED
    BY <2>1, <2>3, <2>5 DEF u, o, t
<1>9. delivered' = Append(delivered, f) /\ delivered \in Seq(Seq(Units))
  BY <1>1, <1>2, <1>6 DEF Types, TypeOK
<1> HIDE DEF f
<1>10. Handled(sent)'
  <2> PICK m \in Nat : m = sent
    BY <1>4
  <2>1. Handled(m)'
    BY <1>1, <1>3, <1>8, <1>9, DeliveredOne
  <2> QED
    BY <1>7, <2>1 DEF Handled, Accepted
<1>11. Ask' = Ask
  BY <1>1, <1>2, <1>3, <1>7 DEF Ask, Wish
<1>12. \E l \in Seq(Units) : toHub' = l \o Ask' /\ Leftover(l)
  <2>1. << >> \in Seq(Units) /\ << >> \o Ask = Ask /\ Leftover(<< >>)
    BY <1>1, ConcatEmptySeq DEF Leftover
  <2> QED
    BY <1>6, <1>11, <2>1
<1>13. pc' \in Places
  BY <1>2 DEF Places
<1>14. NoResponse(toGard')
  BY <1>7 DEF NoResponse
<1>15. Between'
  BY <1>7, <1>10, <1>12, <1>14 DEF Between, Leftover, NoResponse
<1> QED
  BY <1>13, <1>15, ToPlaces

\* Requests read what is left over, or take GARD's wish for a response.
LEMMA RequestReads ==
  ASSUME Types, Accounted, pc \in Requesting, pc' \in Places, ReadOk(1),
         UNCHANGED <<gard, sent, delivered>>
  PROVE  Accounted' \/ Unheard'
<1>1. pc \in Places
  BY DEF Places
<1>2. CASE toHub[1].kind # "sync"
  BY <1>1, <1>2, ReadLeft
<1>3. CASE toHub[1].kind = "sync"
  <2> DEFINE u == Unit("gardId", sent + 1)
  <2>1. gard = "waiting" /\ toGard = << >> /\ toHub' = <<u>> /\ u \in Units
    BY <1>1, <1>3, ReadWish
  <2>2. u.kind # "sync"
    BY DEF Unit
  <2> HIDE DEF u
  <2>3. Leftover(toHub')
    BY <2>1, <2>2 DEF Leftover
  <2> QED
    BY <2>1, <2>3 DEF Unheard, Leftover, ReadOk
<1> QED
  BY <1>2, <1>3

LEMMA RequestKept ==
  ASSUME Types, Accounted, Undamaged',
         \/ SendAppRequest \/ RecvPartialResponse \/ RecvResponse \/ RecvAppResponse
         \/ SendData \/ CompleteRequest
  PROVE  Accounted' \/ Unheard'
<1> USE DEF Goto
<1>1. pc \in Requesting /\ pc \in Places
  BY DEF SendAppRequest, RecvPartialResponse, RecvResponse, RecvAppResponse, SendData,
         CompleteRequest, Requesting, Places
<1>2. UNCHANGED <<gard, sent, delivered>>
  BY DEF SendAppRequest, RecvPartialResponse, RecvResponse, RecvAppResponse, SendData,
         CompleteRequest
<1>3. pc' \in Places
  BY DEF SendAppRequest, RecvPartialResponse, RecvResponse, RecvAppResponse, SendData,
         CompleteRequest, FailRequest, AfterResponse, Requesting, Places
<1>4. CASE SendAppRequest \/ SendData \/ CompleteRequest
  <2> DEFINE a == Unit("appRequest", req.id)
             d == Unit("payload", req.id)
  <2>1. WriteOk(a) \/ WriteOk(d) \/ UNCHANGED <<toHub, toGard>>
    BY <1>4, NoFailure DEF SendAppRequest, SendData, CompleteRequest
  <2>2. /\ a \in Units /\ d \in Units
        /\ a.kind # "syncResponse" /\ d.kind # "syncResponse"
    <3>1. req.id \in Nat
      BY HubAssumption DEF HubAssumption, Types, TypeOK, Request
    <3> QED
      BY <3>1, UnitType DEF UnitKinds
  <2> HIDE DEF a, d
  <2> QED
    BY <1>1, <1>2, <1>3, <2>1, <2>2, Quiet, Written
<1>5. CASE RecvPartialResponse \/ RecvResponse \/ RecvAppResponse
  <2>1. ReadOk(1)
    BY <1>5, NoFailure DEF RecvPartialResponse, RecvResponse, RecvAppResponse
  <2> QED
    BY <1>1, <1>2, <1>3, <2>1, RequestReads
<1> QED
  BY <1>4, <1>5

LEMMA BeginKept ==
  ASSUME Types, Accounted, Undamaged', NEW kind \in Kinds, BeginRequest(kind)
  PROVE  Accounted' \/ Unheard'
<1> DEFINE u == Unit(kind, requests + 1)
<1>1. pc = "idle" /\ UNCHANGED <<gard, sent, delivered>> /\ WriteOk(u)
  BY NoFailure DEF BeginRequest
<1>2. pc' \in {"idle", "sendApp", "partial"}
  BY DEF BeginRequest, Goto
<1>3. pc \in Places /\ pc' \in Places
  BY <1>1, <1>2 DEF Places, Requesting
<1>4. u \in Units /\ u.kind # "syncResponse"
  <2>1. kind \in {"app", "reg", "data"} /\ requests + 1 \in Nat
    BY HubAssumption DEF HubAssumption, Types, TypeOK
  <2> QED
    BY <2>1, UnitType DEF UnitKinds
<1> HIDE DEF u
<1> QED
  BY <1>1, <1>3, <1>4, Written

LEMMA IdleKept ==
  ASSUME Types, Accounted, IdleReturns \/ Kt_StopDispatcher
  PROVE  Accounted'
<1>1. UNCHANGED <<toHub, toGard, gard, sent, delivered>>
  BY DEF IdleReturns, Kt_StopDispatcher
<1>2. pc = "idle" /\ pc' \in {"idle", "check", "stopped"}
  BY DEF IdleReturns, Kt_StopDispatcher, Goto
<1>3. pc \in Places /\ pc' \in Places
  BY <1>2 DEF Places
<1> QED
  BY <1>1, <1>3, Quiet

\* GARD asks behind whatever is on the line.
LEMMA SyncKept ==
  ASSUME Types, Accounted, toGard = << >>, GardSync
  PROVE  Accounted'
<1>1. /\ gard = "idle" /\ gard' = "waiting" /\ toGard = << >>
      /\ UNCHANGED <<pc, toGard, sent, frame, delivered>> /\ toHub' = toHub \o Wish
  BY DEF GardSync, hub, Wish
<1>2. pc \notin {"originator", "respond"}
  BY <1>1 DEF Accounted, Asked
<1>3. Ask = << >> /\ Ask' = Wish
  BY <1>1, <1>2 DEF Ask, Wish
<1>4. ASSUME NEW s \in Seq(Units), toHub = s \o Ask
      PROVE  toHub' = s \o Ask'
  <2>1. toHub = s
    BY <1>3, <1>4, ConcatEmptySeq
  <2> QED
    BY <1>1, <1>3, <2>1
<1>5. \A m : Handled(m) => Handled(m)'
  BY <1>1 DEF Handled, Accepted
<1>6. ASSUME NEW s \in Seq(Units), Coming(s)
      PROVE  /\ sent' > 0 /\ toGard' = << >> /\ toHub' = s \o Ask' /\ Handled(sent - 1)'
  <2> PICK m : m = sent - 1
    OBVIOUS
  <2>1. Handled(m)'
    BY <1>5, <1>6 DEF Coming
  <2>2. Handled(sent - 1)'
    BY <1>1, <2>1 DEF Handled, Accepted
  <2> QED
    BY <1>1, <1>4, <1>6, <2>2 DEF Coming
<1>7. CASE pc = "header"
  <2> DEFINE s == <<Unit("send", sent)>> \o Payload(sent)
  <2>1. Coming(s)
    BY <1>1, <1>7 DEF Accounted, Incoming, Invited
  <2>2. s \in Seq(Units)
    BY <2>1, AnnouncedSend DEF Coming
  <2>3. s' = s
    BY <1>1 DEF Payload
  <2> HIDE DEF s
  <2>4. Coming(s)'
    BY <1>6, <2>1, <2>2, <2>3 DEF Coming
  <2> QED
    BY <1>1, <1>7, <2>4 DEF Accounted, Asked, Incoming, Between, Places, Requesting, s
<1>8. CASE pc = "peek"
  <2> DEFINE s == Payload(sent)
  <2>1. Coming(s) /\ frame.size = Sends[sent].size
    BY <1>8 DEF Accounted, Incoming
  <2>2. s \in Seq(Units)
    BY <2>1, SendType DEF Coming
  <2>3. s' = s
    BY <1>1 DEF Payload
  <2> HIDE DEF s
  <2>4. Coming(s)'
    BY <1>6, <2>1, <2>2, <2>3 DEF Coming
  <2> QED
    BY <1>1, <1>8, <2>1, <2>4 DEF Accounted, Asked, Incoming, Between, Places, Requesting, s
<1>9. CASE pc = "payload"
  <2> DEFINE s == Tail(Payload(sent))
  <2>1. /\ Coming(s) /\ Accepted(sent) /\ frame.size = Sends[sent].size
        /\ frame.got = <<Unit("peek", sent)>>
    BY <1>9 DEF Accounted, Incoming
  <2>2. s \in Seq(Units)
    BY <2>1, SendType, HeadTailProperties DEF Coming
  <2>3. s' = s
    BY <1>1 DEF Payload
  <2> HIDE DEF s
  <2>4. Coming(s)' /\ Accepted(sent)'
    BY <1>1, <1>6, <2>1, <2>2, <2>3 DEF Coming, Accepted
  <2> QED
    BY <1>1, <1>9, <2>1, <2>4 DEF Accounted, Asked, Incoming, Between, Places, Requesting, s
<1>10. CASE pc \in Places
  <2>1. Handled(sent)'
    <3>1. Handled(sent)
      BY <1>10 DEF Accounted, Between
    <3> QED
      BY <1>1, <3>1 DEF Handled, Accepted
  <2>2. \E line \in Seq(Units) : toHub' = line \o Ask' /\ Leftover(line)
    BY <1>4, <1>10 DEF Accounted, Between
  <2>3. Between'
    BY <1>1, <2>1, <2>2 DEF Between, Leftover
  <2> QED
    BY <1>1, <1>10, <2>3, ToPlaces
<1>11. pc \in {"originator", "respond", "header", "peek", "payload"} \/ pc \in Places
  BY DEF Types, TypeOK, PCs, Places
<1> QED
  BY <1>2, <1>7, <1>8, <1>9, <1>10, <1>11

\* If a request is on its way to it, GARD waits for ever.
LEMMA SyncCrosses ==
  ASSUME Types, Accounted, toGard # << >>, GardSync
  PROVE  Unheard'
<1>1. gard = "idle" /\ gard' = "waiting" /\ UNCHANGED toGard
  BY DEF GardSync
<1>2. pc \in Places
  <2>1. pc \in {"originator", "respond", "header", "peek", "payload"} \/ pc \in Places
    BY DEF Types, TypeOK, PCs, Places
  <2> QED
    BY <1>1, <2>1 DEF Accounted, Asked, Incoming, Invited, Coming
<1>3. NoResponse(toGard)
  BY <1>1, <1>2 DEF Accounted, Between
<1>4. 1 \in 1 .. Len(toGard)
  <2>1. Len(toGard) \in Nat /\ Len(toGard) # 0
    BY Line, EmptySeq
  <2> QED
    BY <2>1
<1> QED
  BY <1>1, <1>3, <1>4 DEF Unheard, NoResponse

\* GARD sends when it is let to, and HUB then expects it.
LEMMA SendKept ==
  ASSUME Types, Types', Accounted, GardSend
  PROVE  Accounted'
<1>1. /\ gard = "waiting" /\ toGard # << >> /\ gard' = "idle" /\ sent' = sent + 1
      /\ toGard' = Tail(toGard) /\ UNCHANGED <<pc, delivered>>
      /\ toHub' = Append(toHub, Unit("send", sent + 1)) \o Payload(sent + 1)
  BY DEF GardSend, hub
<1>2. pc = "header" /\ Invited
  <2>1. pc \in {"originator", "respond", "header", "peek", "payload"} \/ pc \in Places
    BY DEF Types, TypeOK, PCs, Places
  <2> QED
    BY <1>1, <2>1 DEF Accounted, Asked, Incoming, Coming, Between
<1>3. toHub = << >> /\ toGard = <<Unit("syncResponse", 0)>> /\ Handled(sent) /\ sent \in Nat
  BY <1>2, Line DEF Invited
<1> DEFINE n == sent + 1
<1>4. toGard' = << >>
  BY <1>1, <1>3
<1>5. Ask' = << >>
  BY <1>1 DEF Ask
<1>6. Payload(sent') = Payload(n) /\ Payload(sent)' = Payload(n) /\ Unit("send", n) \in Units
  <2>1. Unit("send", n) \in Units
    BY <1>3, UnitType DEF UnitKinds
  <2> QED
    BY <1>1, <2>1 DEF Payload
<1>7. /\ <<Unit("send", n)>> \o Payload(n) \in Seq(Units)
      /\ toHub' = <<Unit("send", n)>> \o Payload(n)
  <2>1. Append(toHub, Unit("send", n)) = <<Unit("send", n)>>
    BY <1>3
  <2>2. toHub' \in Seq(Units)
    BY Line DEF Types, TypeOK
  <2> QED
    BY <1>1, <2>1, <2>2
<1>8. Handled(sent - 1)'
  <2>1. sent' - 1 = sent
    BY <1>1, <1>3
  <2> QED
    BY <1>1, <1>3, <2>1 DEF Handled, Accepted
<1>9. toHub' = (<<Unit("send", n)>> \o Payload(n)) \o Ask'
  BY <1>5, <1>7, ConcatEmptySeq
<1>10. Coming(<<Unit("send", sent)>> \o Payload(sent))'
  <2>1. sent' > 0
    BY <1>1, <1>3
  <2>2. <<Unit("send", n)>> = <<Unit("send", sent)>>'
    BY <1>1 DEF Unit
  <2> HIDE DEF n
  <2>3. toHub' = (<<Unit("send", sent)>> \o Payload(sent))' \o Ask'
    BY <1>6, <1>9, <2>2
  <2> QED
    BY <1>4, <1>8, <2>1, <2>3 DEF Coming
<1> QED
  BY <1>1, <1>2, <1>10 DEF Accounted, Asked, Incoming, Between, Places, Requesting

LEMMA ShorterWords ==
  ASSUME NEW words \in Seq(Units), words # << >>, NoResponse(words)
  PROVE  Tail(words) \in Seq(Units) /\ NoResponse(Tail(words))
<1>1. /\ Tail(words) \in Seq(Units) /\ Len(Tail(words)) = Len(words) - 1
      /\ \A i \in 1 .. Len(Tail(words)) : Tail(words)[i] = words[i + 1]
  BY HeadTailProperties
<1>2. Len(words) \in Nat
  OBVIOUS
<1>3. \A i \in 1 .. Len(Tail(words)) : i + 1 \in 1 .. Len(words)
  BY <1>1, <1>2
<1> QED
  BY <1>1, <1>3 DEF NoResponse

\* Answering takes words off the line to GARD.
LEMMA AnsweredTail ==
  ASSUME Types, NoResponse(toGard), GardAnswer
  PROVE  NoResponse(toGard')
<1>1. toGard # << >> /\ toGard \in Seq(Units)
  BY Line DEF GardAnswer
<1>2. Tail(toGard) \in Seq(Units) /\ NoResponse(Tail(toGard))
  BY <1>1, ShorterWords
<1>3. CASE toGard' = Tail(toGard)
  BY <1>2, <1>3
<1>4. CASE Len(toGard) > 1 /\ toGard' = Tail(Tail(toGard))
  <2>1. Len(Tail(toGard)) = Len(toGard) - 1 /\ Len(toGard) \in Nat
    BY <1>1, HeadTailProperties
  <2>2. Len(Tail(toGard)) > 0
    BY <1>4, <2>1
  <2>3. Tail(toGard) # << >>
    BY <2>2, EmptySeq
  <2> QED
    BY <1>2, <1>4, <2>3, ShorterWords
<1> QED
  BY <1>3, <1>4 DEF GardAnswer

\* It answers where nothing of a send is on the line.
LEMMA AnswerKept ==
  ASSUME Types, Accounted, GardAnswer
  PROVE  Accounted'
<1> DEFINE u == Head(toGard)
           r == Unit("response", u.of)
           s == Unit("rest", u.of)
           a == Unit("appResponse", u.of)
           k == Unit("ack", u.of)
<1>1. /\ gard = "idle" /\ toGard # << >> /\ UNCHANGED <<pc, gard, sent, delivered>>
  BY DEF GardAnswer, hub
<1>2. pc \in Places
  <2>1. pc \in {"originator", "respond", "header", "peek", "payload"} \/ pc \in Places
    BY DEF Types, TypeOK, PCs, Places
  <2> QED
    BY <1>1, <2>1 DEF Accounted, Asked, Incoming, Invited, Coming
<1>3. u.of \in Nat /\ toHub \in Seq(Units)
  <2>1. u \in Units
    BY <1>1, Line, HeadTailProperties
  <2> QED
    BY <2>1, Line DEF Units
<1>4. /\ r \in Units /\ s \in Units /\ a \in Units /\ k \in Units
      /\ r.kind # "sync" /\ s.kind # "sync" /\ a.kind # "sync" /\ k.kind # "sync"
  BY <1>3, UnitType DEF UnitKinds
<1>5. \/ toHub' = toHub \o <<r, s>>
      \/ toHub' = toHub \o Append(<<r, s>>, a)
      \/ toHub' = Append(toHub, k)
  BY DEF GardAnswer
<1> HIDE DEF u, r, s, a, k
<1>6. /\ <<r, s>> \in Seq(Units) /\ Leftover(<<r, s>>)
      /\ Append(<<r, s>>, a) \in Seq(Units) /\ Leftover(Append(<<r, s>>, a))
      /\ <<k>> \in Seq(Units) /\ Leftover(<<k>>)
  BY <1>4, Words DEF Leftover
<1>7. Append(toHub, k) = toHub \o <<k>>
  BY <1>3, <1>4, AppendIsConcat
<1> PICK b \in Seq(Units) : toHub' = toHub \o b /\ Leftover(b)
  BY <1>5, <1>6, <1>7
<1> PICK line \in Seq(Units) : toHub = line \o Ask /\ Leftover(line)
  BY <1>2 DEF Accounted, Between
<1>8. Ask = << >> /\ Ask' = << >> /\ toHub = line
  <2>1. Ask = << >> /\ Ask' = << >>
    BY <1>1 DEF Ask
  <2> QED
    BY <2>1, ConcatEmptySeq
<1>9. /\ line \o b \in Seq(Units) /\ Leftover(line \o b)
      /\ toHub' = (line \o b) \o Ask'
  <2> DEFINE w == line \o b
  <2>1. /\ w \in Seq(Units) /\ Len(w) = Len(line) + Len(b)
        /\ \A i \in 1 .. Len(line) + Len(b) :
             w[i] = IF i <= Len(line) THEN line[i] ELSE b[i - Len(line)]
    BY ConcatProperties
  <2>2. Len(line) \in Nat /\ Len(b) \in Nat
    OBVIOUS
  <2>3. toHub' = w \o Ask'
    BY <1>8, <2>1, ConcatEmptySeq
  <2> HIDE DEF w
  <2>4. ASSUME NEW i \in 1 .. Len(w)
        PROVE  w[i].kind # "sync"
    <3>1. CASE i <= Len(line)
      <4>1. i \in 1 .. Len(line)
        BY <3>1
      <4> QED
        BY <2>1, <2>2, <4>1 DEF Leftover
    <3>2. CASE ~(i <= Len(line))
      <4>1. i - Len(line) \in 1 .. Len(b)
        BY <2>1, <2>2, <3>2
      <4> QED
        BY <2>1, <3>2, <4>1 DEF Leftover
    <3> QED
      BY <3>1, <3>2
  <2> QED
    BY <2>1, <2>3, <2>4 DEF Leftover, w
<1>10. Handled(sent)'
  <2>1. Handled(sent)
    BY <1>2 DEF Accounted, Between
  <2> QED
    BY <1>1, <2>1 DEF Handled, Accepted
<1>11. NoResponse(toGard')
  BY <1>1, <1>2, AnsweredTail DEF Accounted, Between
<1>12. Between'
  <2>1. \E l \in Seq(Units) : toHub' = l \o Ask' /\ Leftover(l)
    BY <1>9
  <2> QED
    BY <1>1, <1>10, <1>11, <2>1 DEF Between, Leftover, NoResponse
<1> QED
  BY <1>1, <1>2, <1>12, ToPlaces

\* What the thread does to the two lines when nothing fails
LEMMA Moves ==
  ASSUME Types, Undamaged',
         Dispatch \/ (\E kind \in Kinds : BeginRequest(kind)) \/ Kt_StopDispatcher
  PROVE  /\ UNCHANGED gard
         /\ toGard' = toGard \/ \E u \in Units : toGard' = Append(toGard, u)
         /\ pc \in Places =>
              \/ /\ pc' \in Places /\ UNCHANGED toHub
                 /\ \/ UNCHANGED toGard
                    \/ \E u \in Units : u.kind # "syncResponse" /\ toGard' = Append(toGard, u)
              \/ /\ ReadOk(1)
                 /\ toHub[1].kind # "sync" => pc' \in Places
<1> USE DEF Goto
<1> DEFINE Goal ==
             /\ UNCHANGED gard
             /\ toGard' = toGard \/ \E u \in Units : toGard' = Append(toGard, u)
             /\ pc \in Places =>
                  \/ /\ pc' \in Places /\ UNCHANGED toHub
                     /\ \/ UNCHANGED toGard
                        \/ \E u \in Units : u.kind # "syncResponse" /\ toGard' = Append(toGard, u)
                  \/ /\ ReadOk(1)
                     /\ toHub[1].kind # "sync" => pc' \in Places
<1>1. \A id \in Nat : /\ Unit("appRequest", id) \in Units /\ Unit("payload", id) \in Units
                      /\ Unit("syncResponse", id) \in Units
                      /\ \A kind \in {"app", "reg", "data"} : Unit(kind, id) \in Units
  BY UnitType DEF UnitKinds
<1>2. \A kind, id : Unit(kind, id).kind = kind
  BY DEF Unit
<1>3. req.id \in Nat /\ requests + 1 \in Nat /\ 0 \in Nat
  BY HubAssumption DEF HubAssumption, Types, TypeOK, Request
<1>4. CASE CommandInProgress \/ CompleteRequest \/ IdleReturns \/ Kt_StopDispatcher
  BY <1>4 DEF CommandInProgress, CompleteRequest, IdleReturns, Kt_StopDispatcher, Places, Requesting
<1>5. CASE ReadCommandByte \/ RecvPartialResponse \/ RecvResponse \/ RecvAppResponse
  <2>1. ReadOk(1) /\ UNCHANGED gard /\ UNCHANGED toGard
    BY <1>5, NoFailure DEF ReadCommandByte, RecvPartialResponse, RecvResponse, RecvAppResponse, ReadOk
  <2>2. toHub[1].kind # "sync" => pc' \in Places
    <3>1. Head(toHub) = toHub[1]
      BY <2>1, ReadOne
    <3> QED
      BY <1>5, <3>1, NoFailure DEF ReadCommandByte, RecvPartialResponse, RecvResponse,
         RecvAppResponse, FailRequest, AfterResponse, Places, Requesting
  <2> QED
    BY <2>1, <2>2
<1>6. CASE SendAppRequest \/ SendData
  <2>1. UNCHANGED gard /\ pc' \in Places
    BY <1>6 DEF SendAppRequest, SendData, FailRequest, Places, Requesting
  <2>2. WriteOk(Unit("appRequest", req.id)) \/ WriteOk(Unit("payload", req.id)) \/ UNCHANGED <<toHub, toGard>>
    BY <1>6, NoFailure DEF SendAppRequest, SendData
  <2>3. /\ Unit("appRequest", req.id) \in Units /\ Unit("payload", req.id) \in Units
        /\ Unit("appRequest", req.id).kind # "syncResponse"
        /\ Unit("payload", req.id).kind # "syncResponse"
    BY <1>1, <1>2, <1>3
  <2> QED
    BY <2>1, <2>2, <2>3 DEF WriteOk
<1>7. CASE WriteSyncResponse
  <2>1. UNCHANGED gard /\ pc \notin Places /\ WriteOk(Unit("syncResponse", 0))
    BY <1>7, NoFailure DEF WriteSyncResponse, Places, Requesting
  <2> QED
    BY <1>1, <1>3, <2>1 DEF WriteOk
<1>8. CASE ReadOriginator \/ ReadSendHeader \/ ReadPeek \/ ReadPayload
  <2>1. pc \notin Places
    BY <1>8 DEF ReadOriginator, ReadSendHeader, ReadPeek, ReadPayload, Places, Requesting
  <2>2. UNCHANGED gard /\ UNCHANGED toGard
    BY <1>8, NoFailure DEF ReadOriginator, ReadSendHeader, ReadPeek, ReadPayload, ReadOk
  <2> QED
    BY <2>1, <2>2
<1>9. ASSUME NEW kind \in Kinds, BeginRequest(kind)
      PROVE  Goal
  <2>1. UNCHANGED gard /\ WriteOk(Unit(kind, requests + 1)) /\ pc' \in Places
    BY <1>9, NoFailure DEF BeginRequest, Places, Requesting
  <2>2. Unit(kind, requests + 1) \in Units /\ Unit(kind, requests + 1).kind # "syncResponse"
    <3>1. kind \in {"app", "reg", "data"}
      BY HubAssumption DEF HubAssumption
    <3> QED
      BY <1>1, <1>2, <1>3, <3>1
  <2> QED
    BY <2>1, <2>2 DEF WriteOk
<1> QED
  BY <1>4, <1>5, <1>6, <1>7, <1>8, <1>9 DEF Dispatch

\* A GARD that waits for ever does not stop to.
LEMMA UnheardStays ==
  ASSUME Types, Unheard, Undamaged', Next
  PROVE  Unheard'
<1>1. gard = "waiting" /\ toHub \in Seq(Units) /\ toGard \in Seq(Units)
  BY Line DEF Unheard
<1>2. ~Gard
  BY <1>1 DEF Gard, GardSync, GardSend, GardAnswer, Unheard
<1>3. /\ UNCHANGED gard
      /\ toGard' = toGard \/ \E u \in Units : toGard' = Append(toGard, u)
      /\ pc \in Places =>
           \/ /\ pc' \in Places /\ UNCHANGED toHub
              /\ \/ UNCHANGED toGard
                 \/ \E u \in Units : u.kind # "syncResponse" /\ toGard' = Append(toGard, u)
           \/ /\ ReadOk(1)
              /\ toHub[1].kind # "sync" => pc' \in Places
  BY <1>2, Moves DEF Next
<1>4. CASE toGard # << >>
  <2>1. toGard' # << >> /\ toGard'[1] = toGard[1]
    <3>1. CASE toGard' = toGard
      BY <1>4, <3>1
    <3>2. ASSUME NEW u \in Units, toGard' = Append(toGard, u)
          PROVE  toGard' # << >> /\ toGard'[1] = toGard[1]
      <4>1. Len(toGard) \in Nat /\ Len(toGard) # 0
        BY <1>1, <1>4, EmptySeq
      <4>2. 1 \in 1 .. Len(toGard)
        BY <4>1
      <4>3. toGard'[1] = toGard[1] /\ Len(toGard') = Len(toGard) + 1
        BY <1>1, <3>2, <4>2, Grown
      <4>4. Len(toGard') # 0
        BY <4>1, <4>3
      <4> QED
        BY <4>3, <4>4, EmptySeq
    <3> QED
      BY <1>3, <3>1, <3>2
  <2> QED
    BY <1>1, <1>3, <1>4, <2>1 DEF Unheard
<1>5. CASE toGard = << >>
  <2>1. pc \in Places /\ Leftover(toHub)
    BY <1>5 DEF Unheard
  <2>2. CASE pc' \in Places /\ UNCHANGED toHub /\ UNCHANGED toGard
    BY <1>1, <1>3, <1>5, <2>1, <2>2 DEF Unheard, Leftover
  <2>3. ASSUME NEW u \in Units, u.kind # "syncResponse", toGard' = Append(toGard, u)
        PROVE  Unheard'
    <3>1. toGard' # << >> /\ toGard'[1] = u
      BY <1>5, <2>3
    <3> QED
      BY <1>1, <1>3, <2>3, <3>1 DEF Unheard
  <2>4. CASE ReadOk(1) /\ (toHub[1].kind # "sync" => pc' \in Places)
    <3>1. 1 \in 1 .. Len(toHub) /\ 1 \in 0 .. Len(toHub) /\ Taken(1) /\ UNCHANGED toGard
      BY <1>1, <2>4, ReadOne DEF ReadOk
    <3>2. pc' \in Places
      BY <2>1, <2>4, <3>1 DEF Leftover
    <3>3. \A i \in 1 .. Len(toHub') : toHub'[i] = toHub[1 + i] /\ 1 + i \in 1 .. Len(toHub)
      BY <1>1, <3>1, AfterTaking
    <3>4. Leftover(toHub')
      BY <2>1, <3>3 DEF Leftover
    <3> QED
      BY <1>1, <1>3, <1>5, <3>1, <3>2, <3>4 DEF Unheard, Leftover
  <2> QED
    BY <1>3, <2>1, <2>2, <2>3, <2>4
<1> QED
  BY <1>4, <1>5

LEMMA NothingKept ==
  ASSUME Accounted \/ Unheard, UNCHANGED vars
  PROVE  Accounted' \/ Unheard'
<1>1. UNCHANGED <<pc, frame, delivered, toHub, toGard, gard, sent>>
  BY DEF vars, hub
<1>2. Ask' = Ask
  BY <1>1 DEF Ask, Wish
<1>3. CASE Accounted
  BY <1>1, <1>2, <1>3 DEF Accounted, Asked, Incoming, Invited, Coming, Between, Handled,
                          Leftover, NoResponse, Accepted, Payload, Unit
<1>4. CASE Unheard
  BY <1>1, <1>4 DEF Unheard, Leftover
<1> QED
  BY <1>3, <1>4

LEMMA GardKept ==
  ASSUME Types, Types', Accounted, Gard
  PROVE  Accounted' \/ Unheard'
<1>1. CASE GardSync
  BY <1>1, SyncKept, SyncCrosses
<1> QED
  BY <1>1, SendKept, AnswerKept DEF Gard

LEMMA StepNoLoss ==
  ASSUME NoLossInv, [Next]_vars
  PROVE  NoLossInv'
<1>1. Types /\ Types'
  BY StepTypes DEF NoLossInv
<1> SUFFICES ASSUME Undamaged' PROVE Accounted' \/ Unheard'
  BY <1>1 DEF NoLossInv
<1>2. Undamaged /\ (Accounted \/ Unheard)
  BY <1>1, WasUndamaged DEF NoLossInv
<1>3. CASE UNCHANGED vars
  BY <1>2, <1>3, NothingKept
<1>4. CASE Unheard /\ Next
  BY <1>1, <1>4, UnheardStays
<1>5. CASE Accounted /\ Dispatch
  BY <1>1, <1>2, <1>5, CommandKept, OriginatorKept, ResponseKept, HeaderKept, PeekKept,
     PayloadKept, RequestKept, IdleKept DEF Dispatch
<1>6. CASE Accounted /\ \E kind \in Kinds : BeginRequest(kind)
  BY <1>1, <1>6, BeginKept
<1>7. CASE Accounted /\ Kt_StopDispatcher
  BY <1>1, <1>7, IdleKept
<1>8. CASE Accounted /\ Gard
  BY <1>1, <1>8, GardKept
<1> QED
  BY <1>2, <1>3, <1>4, <1>5, <1>6, <1>7, <1>8 DEF Next

LEMMA InitNoLoss == Init => NoLossInv
<1> SUFFICES ASSUME Init PROVE NoLossInv
  OBVIOUS
<1>1. Types
  BY InitTypes
<1>2. pc = "check" /\ sent = 0 /\ toHub = << >> /\ toGard = << >> /\ gard = "idle" /\ delivered = << >>
  BY DEF Init
<1>3. Handled(sent)
  BY <1>2 DEF Handled
<1>4. << >> \in Seq(Units) /\ toHub = << >> \o Ask /\ Leftover(<< >>)
  BY <1>2, ConcatEmptySeq DEF Ask, Leftover
<1>5. NoResponse(toGard)
  BY <1>2 DEF NoResponse
<1>6. Between
  BY <1>2, <1>3, <1>4, <1>5 DEF Between
<1> QED
  BY <1>1, <1>2, <1>6 DEF NoLossInv, Accounted, Asked, Incoming

(* As long as nothing fails, every frame that fits and that HUB has read is  *)
(* delivered, whatever requests come in between, whatever was refused and    *)
(* whoever begins to talk, if no refused payload holds the bytes of a sync   *)
(* (hub_gard_cmds.c:137-264, 930-999).                                       *)
THEOREM NothingLost == Spec => []NoFrameLost
<1>1. Init => NoLossInv
  BY InitNoLoss
<1>2. NoLossInv /\ [Next]_vars => NoLossInv'
  BY StepNoLoss
<1>3. NoLossInv => NoFrameLost
  BY DEF NoLossInv, NoFrameLost, Undamaged, Accounted, Between, Handled, Places, Unheard
<1> QED
  BY <1>1, <1>2, <1>3, PTL DEF Spec

=============================================================================
