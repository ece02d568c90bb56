----------------------- MODULE MetadataBuffersProofs -----------------------
(***************************************************************************)
(* What MetadataBuffers guarantees for every pool size, buffer length and  *)
(* number of users, once both face callbacks are configured as kt_app does *)
(* (kt_app_main.c:148-149).                                                *)
(***************************************************************************)
EXTENDS MetadataBuffers, FiniteSetTheorems, TLAPS

AppCallbacks == HasIdentifiedCb = TRUE /\ HasUnidentifiedCb = TRUE

-----------------------------------------------------------------------------
(* The inductive invariant. The ring never moves a buffer to another slot: *)
(* the buffer put back is the one taken at the same index one lap before.  *)

RingInPlace ==
  /\ queue.slots = [i \in Buffers |-> i]
  /\ queue.head = queue.tail

\* The rest of the list as kt_app_main built it: every node still linked to
\* the next one, from node first to the last.
AsSupplied(first, f) ==
  /\ f.head = first
  /\ f.tail = PoolSize - 1
  /\ \A k \in first .. PoolSize - 2 : f.next[k] = k + 1
  /\ f.next[PoolSize - 1] = NoBuf

BootShape ==
  /\ queue.head = 0 /\ out = NoBuf
  /\ supplied < PoolSize
  /\ supplied = 0 => fifo.head = NoBuf
  /\ supplied > 0 =>
       /\ fifo.head = 0
       /\ fifo.tail = supplied - 1
       /\ \A k \in 0 .. supplied - 2 : fifo.next[k] = k + 1
       /\ fifo.next[supplied - 1] = NoBuf

\* KtLib holds one buffer, the one in the ring's head slot, or still the whole
\* pool before the first frame.
LinkedShape ==
  /\ out = NoBuf
  /\ fifo.head = queue.head
  /\ \/ fifo.tail = fifo.head /\ fifo.next[fifo.head] = NoBuf
     \/ queue.head = 0 /\ AsSupplied(0, fifo)

\* That buffer is being filled or read.
HeldShape ==
  /\ out = queue.head
  /\ \/ fifo.head = NoBuf /\ fifo.tail = NoBuf
     \/ queue.head = 0 /\ AsSupplied(1, fifo)

ReleaseShape ==
  /\ fifo.head \in Buffers \cup {NoBuf}
  /\ fifo.head \in Buffers =>
        \/ /\ fifo.next[fifo.head] = NoBuf /\ fifo.tail = fifo.head
           /\ fifo.head \notin freed
        \/ AsSupplied(fifo.head, fifo) /\ \A b \in freed : b < fifo.head

Shape ==
  /\ pc # "halted"
  /\ pc = "boot" => BootShape
  /\ pc = "idle" \/ (pc = "second" /\ out = NoBuf) => LinkedShape
  /\ pc \in {"identified", "notIdentified"} \/ (pc = "second" /\ out # NoBuf)
        => HeldShape
  /\ pc = "second" /\ out # NoBuf => NrUnidentified(frame) > 0
  /\ pc = "release" => ReleaseShape
  /\ pc = "done" => fifo.head = NoBuf
  /\ pc \notin {"release", "done"} => freed = {}

Inv == TypeOK /\ RingInPlace /\ Shape

-----------------------------------------------------------------------------
(* Lemmas on the ring and the frames.                                      *)

\* The slot after i is another slot of the ring.
LEMMA NextSlotInRing ==
  ASSUME NEW i \in Buffers
  PROVE  NextSlot(i) \in Buffers /\ NextSlot(i) # i
<1>1. PoolSize \in Nat /\ PoolSize >= 3
  BY MetadataAssumption
<1>2. CASE i = PoolSize - 1
  <2>1. (i + 1) % PoolSize = 0
    BY <1>1, <1>2, SMT
  <2> QED BY <1>1, <1>2, <2>1, SMT DEF NextSlot, Buffers
<1>3. CASE i # PoolSize - 1
  <2>1. i + 1 \in 0 .. PoolSize - 1
    BY <1>1, <1>3, SMT DEF Buffers
  <2>2. (i + 1) % PoolSize = i + 1
    BY <1>1, <2>1, SMT
  <2> QED BY <1>1, <2>1, <2>2, SMT DEF NextSlot, Buffers
<1> QED BY <1>2, <1>3

\* The first slots: 1 comes after 0.
LEMMA NextSlotOfZero == NextSlot(0) = 1
<1>1. PoolSize \in Nat /\ PoolSize >= 3
  BY MetadataAssumption
<1> QED BY <1>1, SMT DEF NextSlot

\* Adding a buffer to a list gives a list.
LEMMA AddIsBufFifo ==
  ASSUME NEW f \in BufFifo, NEW b \in Buffers, NEW n \in Nat
  PROVE  Kt_AddBufferToFifo(f, b, n) \in BufFifo
<1> DEFINE cleared == [f.next EXCEPT ![b] = NoBuf]
           linked == IF Kt_BufFifo_IsEmpty(f) THEN cleared
                     ELSE [cleared EXCEPT ![f.tail] = b]
<1>1. f.next \in [Buffers -> Links] /\ f.len \in [Buffers -> Nat]
      /\ f.head \in Links /\ b \in Links /\ NoBuf \in Links
  BY DEF BufFifo, Links
<1>2. cleared \in [Buffers -> Links]
  BY <1>1
<1>3. linked \in [Buffers -> Links]
  BY <1>1, <1>2
<1>4. [f.len EXCEPT ![b] = n] \in [Buffers -> Nat]
  BY <1>1
<1>5. Kt_AddBufferToFifo(f, b, n) =
        [head |-> IF Kt_BufFifo_IsEmpty(f) THEN b ELSE f.head,
         tail |-> b, next |-> linked, len |-> [f.len EXCEPT ![b] = n]]
  BY DEF Kt_AddBufferToFifo
<1> QED BY <1>1, <1>3, <1>4, <1>5 DEF BufFifo

\* Taking the head of a list and writing over it gives a list.
LEMMA TakeIsBufFifo ==
  ASSUME NEW f \in BufFifo, f.head \in Buffers
  PROVE  /\ Kt_GetBufferFromFifo(f) \in BufFifo
         /\ Overwrite(Kt_GetBufferFromFifo(f), f.head) \in BufFifo
<1>1. f.next \in [Buffers -> Links] /\ f.len \in [Buffers -> Nat]
      /\ f.tail \in Links /\ NoBuf \in Links /\ Clobbered \in Links
  BY DEF BufFifo, Links
<1>2. Kt_GetBufferFromFifo(f) =
        [head |-> f.next[f.head],
         tail |-> IF f.next[f.head] = NoBuf THEN NoBuf ELSE f.tail,
         next |-> [f.next EXCEPT ![f.head] = NoBuf], len |-> f.len]
  BY DEF Kt_GetBufferFromFifo
<1>3. Kt_GetBufferFromFifo(f) \in BufFifo
  BY <1>1, <1>2 DEF BufFifo
<1>4. \A g \in BufFifo, b \in Buffers : Overwrite(g, b) \in BufFifo
  BY <1>1 DEF Overwrite, BufFifo
<1> QED BY <1>3, <1>4

\* The users of a frame are finitely many.
LEMMA FiniteUsers ==
  ASSUME NEW fr \in Frames \cup {NoFrame}
  PROVE  IsFiniteSet(Identified(fr)) /\ IsFiniteSet(Unidentified(fr))
<1>1. IsFiniteSet(DOMAIN fr.users)
  <2>1. CASE fr \in Frames
    <3>1. PICK n \in 1 .. MaxUsers : fr.users \in [1 .. n -> FaceIds \cup {0}]
      BY <2>1 DEF Frames, UserLists
    <3>2. DOMAIN fr.users = 1 .. n
      BY <3>1
    <3>3. n \in Int
      BY <3>1
    <3> QED BY <3>2, <3>3, FS_Interval
  <2>2. CASE fr = NoFrame
    <3>1. DOMAIN fr.users = {}
      BY <2>2, SMT DEF NoFrame
    <3> QED BY <3>1, FS_EmptySet
  <2> QED BY <2>1, <2>2
<1>2. /\ Identified(fr) \in SUBSET (DOMAIN fr.users)
      /\ Unidentified(fr) \in SUBSET (DOMAIN fr.users)
  BY DEF Identified, Unidentified
<1> QED BY <1>1, <1>2, FS_Subset

\* The number of faces handed to a callback is a natural number.
LEMMA CountsAreNat ==
  ASSUME NEW fr \in Frames \cup {NoFrame}
  PROVE  NrIdentified(fr) \in Nat /\ NrUnidentified(fr) \in Nat
<1> QED BY FiniteUsers, FS_CardinalityType DEF NrIdentified, NrUnidentified

\* A frame has at least one user, identified or not.
LEMMA SomebodyInFrame ==
  ASSUME NEW fr \in Frames, ~(NrIdentified(fr) > 0)
  PROVE  NrUnidentified(fr) > 0
<1>1. fr \in Frames \cup {NoFrame}
  OBVIOUS
<1>2. PICK n \in 1 .. MaxUsers : fr.users \in [1 .. n -> FaceIds \cup {0}]
  BY DEF Frames, UserLists
<1>3. 1 \in DOMAIN fr.users
  BY <1>2, SMT
<1>4. NrIdentified(fr) = 0
  BY <1>1, CountsAreNat, SMT
<1>5. Identified(fr) = {}
  BY <1>1, <1>4, FiniteUsers, FS_EmptySet DEF NrIdentified
<1>6. Unidentified(fr) # {}
  BY <1>3, <1>5 DEF Identified, Unidentified
<1>7. NrUnidentified(fr) # 0
  BY <1>1, <1>6, FiniteUsers, FS_EmptySet DEF NrUnidentified
<1> QED BY <1>1, <1>7, CountsAreNat, SMT

-----------------------------------------------------------------------------
(* Lemmas on the list.                                                     *)

\* A set of natural numbers that is not empty has a least element: the sets
\* 1 .. n are well ordered by inclusion.
LEMMA Least ==
  ASSUME NEW T \in SUBSET Nat, T # {}
  PROVE  \E x \in T : \A y \in T : x <= y
<1> DEFINE F == {1 .. n : n \in T}
           R == StrictSubsetOrdering(Nat)
<1>1. F \subseteq FiniteSubsetsOf(Nat) /\ F # {}
  <2>1. \A n \in T : 1 .. n \in SUBSET Nat /\ IsFiniteSet(1 .. n)
    BY FS_Interval
  <2> QED BY <2>1 DEF FiniteSubsetsOf
<1>2. IsWellFoundedOn(R, FiniteSubsetsOf(Nat))
  BY FS_StrictSubsetOrderingWellFounded
<1> HIDE DEF F, R
<1>3. PICK s \in F : \A t \in F : ~ (<<t, s>> \in R)
  BY <1>1, <1>2, WFMin
<1>4. PICK x \in T : s = 1 .. x
  BY DEF F
<1>5. ASSUME NEW y \in T, y < x
      PROVE  FALSE
  <2>1. 1 .. y \in F
    BY DEF F
  <2>2. 1 .. y \in SUBSET Nat /\ 1 .. x \in SUBSET Nat /\ 1 .. y \subseteq 1 .. x
    BY <1>5
  <2>3. x \in 1 .. x /\ x \notin 1 .. y
    BY <1>5
  <2>4. <<1 .. y, 1 .. x>> \in R
    BY <2>2, <2>3 DEF R, StrictSubsetOrdering
  <2> QED BY <1>3, <1>4, <2>1, <2>4
<1> QED BY <1>5

\* The nodes first .. last, each linked to the next one.
Chain(first, last, f) ==
  /\ f.head = first /\ f.tail = last
  /\ \A k \in first .. last - 1 : f.next[k] = k + 1
  /\ f.next[last] = NoBuf

\* What ListIntact says of a list.
Sound(f) ==
  /\ \A b \in OnList(f) : f.next[b] # Clobbered
  /\ f.head # NoBuf => /\ f.head \in Buffers
                       /\ f.tail \in OnList(f)
                       /\ f.next[f.tail] = NoBuf

\* From the head of a chain one reaches its last node: the first node that
\* is not reached would follow one that is.
LEMMA ChainIsSound ==
  ASSUME NEW f, NEW first \in Buffers, NEW last \in Buffers, first <= last,
         Chain(first, last, f)
  PROVE  Sound(f)
<1>1. /\ PoolSize \in Nat /\ NoBuf \notin Buffers /\ NoBuf # Clobbered
      /\ Clobbered \notin Buffers
  BY MetadataAssumption
<1>2. \A k \in first .. last : k \in Buffers /\ k \in Nat
  BY <1>1 DEF Buffers
<1>3. \A b \in OnList(f) : f.next[b] # Clobbered
  <2>1. first .. last \in SUBSET Buffers
    BY <1>2
  <2>2. f.head \in first .. last
    BY <1>1, SMT DEF Chain, Buffers
  <2>3. \A b \in first .. last : f.next[b] = NoBuf \/ (f.next[b] = b + 1 /\ b < last)
    BY <1>1, SMT DEF Chain, Buffers
  <2>4. \A b \in first .. last :
           f.next[b] \in Buffers => f.next[b] \in first .. last
    <3> SUFFICES ASSUME NEW b \in first .. last, f.next[b] \in Buffers
                 PROVE  f.next[b] \in first .. last
      OBVIOUS
    <3>1. f.next[b] = b + 1 /\ b < last
      BY <1>1, <2>3
    <3> QED BY <1>1, <3>1, SMT DEF Buffers
  <2>5. Closed(first .. last, f)
    BY <2>2, <2>4 DEF Closed
  <2>6. \A b \in first .. last : f.next[b] # Clobbered
    <3> SUFFICES ASSUME NEW b \in first .. last PROVE f.next[b] # Clobbered
      OBVIOUS
    <3>1. CASE f.next[b] = NoBuf
      BY <1>1, <3>1
    <3>2. CASE f.next[b] = b + 1 /\ b < last
      <4>1. b + 1 \in Buffers
        BY <1>1, <3>2, SMT DEF Buffers
      <4> QED BY <1>1, <3>2, <4>1
    <3> QED BY <2>3, <3>1, <3>2
  <2> QED BY <2>1, <2>5, <2>6 DEF OnList
<1>4. last \in OnList(f)
  <2> SUFFICES ASSUME NEW S \in SUBSET Buffers, Closed(S, f), last \notin S
               PROVE  FALSE
    BY DEF OnList
  <2> DEFINE T == {k \in first .. last : k \notin S}
  <2>1. T \in SUBSET Nat /\ T # {}
    BY <1>1, <1>2, SMT DEF Buffers
  <2>2. PICK x \in T : \A y \in T : x <= y
    <3> HIDE DEF T
    <3> QED BY <2>1, Least
  <2>3. first \in S
    BY DEF Closed, Chain
  <2>4. x # first /\ x - 1 \in first .. last - 1 /\ x \in Nat
    BY <1>1, <2>3, SMT DEF Buffers
  <2>5. x - 1 \in S
    <3>1. x - 1 \in first .. last /\ ~ (x <= x - 1)
      BY <1>1, <2>4, SMT DEF Buffers
    <3> QED BY <2>2, <3>1
  <2>6. f.next[x - 1] = x
    <3>1. f.next[x - 1] = (x - 1) + 1
      BY <2>4 DEF Chain
    <3> QED BY <2>4, <3>1
  <2>7. x \in Buffers
    BY <1>2
  <2> QED BY <2>5, <2>6, <2>7 DEF Closed
<1>5. f.head = first /\ f.tail = last /\ f.next[last] = NoBuf
  BY DEF Chain
<1> QED BY <1>3, <1>4, <1>5 DEF Sound

\* Nothing can be wrong with an empty list.
LEMMA EmptyIsSound ==
  ASSUME NEW f, f.head = NoBuf
  PROVE  Sound(f)
<1>1. Closed({}, f) /\ {} \in SUBSET Buffers
  BY MetadataAssumption DEF Closed
<1> QED BY <1>1 DEF Sound, OnList

-----------------------------------------------------------------------------
(* Initiation and consecution, action by action.                           *)

\* kt_app_main starts with the full ring and an empty list.
LEMMA InitInv == Init => Inv
<1> SUFFICES ASSUME Init PROVE Inv
  OBVIOUS
<1>1. PoolSize \in Nat /\ PoolSize >= 3 /\ FullLen \in Nat \ {0}
  BY MetadataAssumption
<1>2. 0 \in Buffers
  BY <1>1, SMT DEF Buffers
<1>3. TypeOK
  <2>1. queue \in [slots : [Buffers -> Buffers], lens : [Buffers -> Nat],
                   head : Buffers, tail : Buffers]
    BY <1>1, <1>2, SMT DEF Init, kt_app_metadata_buffer_queue_init
  <2>2. fifo \in BufFifo
    BY <1>1, <1>2, SMT DEF Init, Kt_BufFifo_Init, BufFifo, Links
  <2>3. ids \in [Buffers -> [0 .. FullLen - 1 -> FaceIds \cup {0, Junk}]]
    BY DEF Init
  <2>4. /\ frame \in Frames \cup {NoFrame} /\ out \in Buffers \cup {NoBuf}
        /\ pc \in PCs /\ supplied \in 0 .. PoolSize /\ freed \subseteq Buffers
    BY <1>1, SMT DEF Init, PCs
  <2> QED BY <2>1, <2>2, <2>3, <2>4 DEF TypeOK
<1>4. RingInPlace
  BY DEF Init, RingInPlace, kt_app_metadata_buffer_queue_init
<1>5. Shape
  BY <1>1, SMT DEF Init, Shape, BootShape, kt_app_metadata_buffer_queue_init,
                   Kt_BufFifo_Init
<1> QED BY <1>3, <1>4, <1>5 DEF Inv

\* kt_app_main hands over one more buffer.
LEMMA SupplyInv ==
  ASSUME Inv, SupplyBuffer
  PROVE  Inv'
<1>1. PoolSize \in Nat /\ PoolSize >= 3 /\ FullLen \in Nat \ {0}
  BY MetadataAssumption
<1>2. pc = "boot" /\ BootShape /\ supplied \in Nat /\ supplied < PoolSize
  BY <1>1, SMT DEF Inv, Shape, SupplyBuffer, BootShape, TypeOK
<1>3. supplied \in Buffers /\ queue.slots[supplied] = supplied
  BY <1>1, <1>2, SMT DEF Inv, RingInPlace, Buffers
<1>4. fifo' = Kt_AddBufferToFifo(fifo, supplied, FullLen)
  BY <1>3 DEF SupplyBuffer
<1>5. NoBuf \notin Buffers
  BY MetadataAssumption
<1>6. supplied > 0 => fifo.head = 0 /\ 0 \in Buffers /\ fifo.tail = supplied - 1
  BY <1>1, <1>2, SMT DEF BootShape, Buffers
<1>7. /\ fifo'.head = 0
      /\ fifo'.tail = supplied
      /\ \A k \in 0 .. supplied - 1 : fifo'.next[k] = k + 1
      /\ fifo'.next[supplied] = NoBuf
  <2>1. CASE supplied = 0
    <3>1. fifo.head = NoBuf
      BY <1>2, <2>1 DEF BootShape
    <3> QED BY <1>1, <1>3, <1>4, <2>1, <3>1, SMT
            DEF Kt_AddBufferToFifo, Kt_BufFifo_IsEmpty, Inv, TypeOK, BufFifo
  <2>2. CASE supplied > 0
    <3>1. fifo' = [head |-> 0, tail |-> supplied,
                   next |-> [fifo.next EXCEPT ![supplied] = NoBuf,
                                              ![supplied - 1] = supplied],
                   len |-> [fifo.len EXCEPT ![supplied] = FullLen]]
      BY <1>4, <1>5, <1>6, <2>2, SMT DEF Kt_AddBufferToFifo, Kt_BufFifo_IsEmpty
    <3>2. \A k \in 0 .. supplied - 2 : fifo.next[k] = k + 1
      BY <1>2, <2>2 DEF BootShape
    <3>3. DOMAIN fifo.next = Buffers
      BY DEF Inv, TypeOK, BufFifo
    <3>4. \A k \in 0 .. supplied - 1 : k \in Buffers
      BY <1>1, <1>2, SMT DEF Buffers
    <3>5. fifo'.next = [fifo.next EXCEPT ![supplied] = NoBuf,
                                         ![supplied - 1] = supplied]
      BY <3>1
    <3>6. \A k \in 0 .. supplied - 1 : fifo'.next[k] = k + 1
      BY <1>1, <1>2, <1>3, <2>2, <3>2, <3>3, <3>4, <3>5, SMT
    <3>7. fifo'.next[supplied] = NoBuf
      BY <1>1, <1>2, <1>3, <2>2, <3>3, <3>5, SMT
    <3> QED BY <3>1, <3>6, <3>7
  <2> QED BY <1>2, <2>1, <2>2, SMT
<1>8. TypeOK'
  <2>1. fifo' \in BufFifo
    BY <1>1, <1>3, <1>4, AddIsBufFifo DEF Inv, TypeOK
  <2>2. supplied' \in 0 .. PoolSize /\ pc' \in PCs
    BY <1>1, <1>2, SMT DEF SupplyBuffer, PCs
  <2> QED BY <2>1, <2>2 DEF Inv, TypeOK, SupplyBuffer
<1>9. RingInPlace'
  BY DEF Inv, RingInPlace, SupplyBuffer
<1>10. Shape'
  <2>1. CASE supplied + 1 = PoolSize
    <3>1. pc' = "idle" /\ out' = NoBuf /\ queue'.head = 0 /\ freed' = {}
      BY <1>2, <2>1 DEF SupplyBuffer, BootShape, Inv, Shape
    <3>2. AsSupplied(0, fifo')
      BY <1>1, <1>2, <1>7, <2>1, SMT DEF AsSupplied
    <3>3. LinkedShape'
      BY <1>7, <3>1, <3>2 DEF LinkedShape
    <3> QED BY <3>1, <3>3 DEF Shape
  <2>2. CASE supplied + 1 # PoolSize
    <3>1. pc' = "boot" /\ out' = NoBuf /\ queue'.head = 0 /\ freed' = {}
          /\ supplied' = supplied + 1
      BY <1>2, <2>2 DEF SupplyBuffer, BootShape, Inv, Shape
    <3>2. BootShape'
      BY <1>1, <1>2, <1>7, <2>2, <3>1, SMT DEF BootShape
    <3> QED BY <3>1, <3>2 DEF Shape
  <2> QED BY <2>1, <2>2
<1> QED BY <1>8, <1>9, <1>10 DEF Inv

\* The swap of a callback: the ring gives the buffer of the next slot and takes
\* the handled one back in the slot its head has just left.
LEMMA RingSwap ==
  ASSUME TypeOK, RingInPlace, NEW n \in Nat
  PROVE  LET i   == NextSlot(queue.head)
             got == kt_app_metadata_buffer_queue_get(queue)
         IN /\ got.buf = i
            /\ got.len \in Nat
            /\ kt_app_metadata_buffer_queue_add(got.queue, queue.head, n) =
                 [slots |-> queue.slots,
                  lens  |-> [queue.lens EXCEPT ![queue.head] = n],
                  head  |-> i, tail |-> i]
<1> DEFINE i   == NextSlot(queue.head)
           got == kt_app_metadata_buffer_queue_get(queue)
<1>1. /\ queue.head \in Buffers /\ queue.tail = queue.head
      /\ queue.slots = [j \in Buffers |-> j]
      /\ queue.lens \in [Buffers -> Nat]
      /\ queue = [slots |-> queue.slots, lens |-> queue.lens,
                  head |-> queue.head, tail |-> queue.tail]
  BY DEF TypeOK, RingInPlace
<1>2. i \in Buffers /\ i # queue.head
  BY <1>1, NextSlotInRing
<1>3. got = [buf |-> i, len |-> queue.lens[i],
             queue |-> [queue EXCEPT !.head = i]]
  BY <1>1, <1>2 DEF kt_app_metadata_buffer_queue_get, QueueEmpty
<1>4. [queue EXCEPT !.head = i] =
        [slots |-> queue.slots, lens |-> queue.lens,
         head |-> i, tail |-> queue.head]
  BY <1>1
<1>5. got.queue = [slots |-> queue.slots, lens |-> queue.lens,
                   head |-> i, tail |-> queue.head]
  BY <1>3, <1>4
<1>6. ~QueueFull(got.queue)
  BY <1>2, <1>5 DEF QueueFull
<1>7. [queue.slots EXCEPT ![queue.head] = queue.head] = queue.slots
  BY <1>1
<1>8. kt_app_metadata_buffer_queue_add(got.queue, queue.head, n) =
        [slots |-> queue.slots, lens |-> [queue.lens EXCEPT ![queue.head] = n],
         head |-> i, tail |-> i]
  BY <1>5, <1>6, <1>7 DEF kt_app_metadata_buffer_queue_add
<1> QED BY <1>1, <1>2, <1>3, <1>8

\* Taking the one buffer of the list, or the first one of the initial list.
LEMMA TakeHead ==
  ASSUME TypeOK, RingInPlace, LinkedShape,
         NEW g, g = Overwrite(Kt_GetBufferFromFifo(fifo), fifo.head)
  PROVE  /\ fifo.head \in Buffers /\ fifo.head = queue.head
         /\ g \in BufFifo
         /\ \/ g.head = NoBuf /\ g.tail = NoBuf
            \/ queue.head = 0 /\ AsSupplied(1, g)
<1>1. PoolSize \in Nat /\ PoolSize >= 3 /\ NoBuf \notin Buffers
  BY MetadataAssumption
<1>2. /\ fifo.head \in Buffers /\ fifo.head = queue.head
      /\ fifo.next \in [Buffers -> Links] /\ fifo \in BufFifo
  BY DEF TypeOK, LinkedShape, BufFifo
<1>3. g \in BufFifo
  BY <1>2, TakeIsBufFifo
<1>4. /\ g.head = fifo.next[fifo.head]
      /\ g.tail = IF fifo.next[fifo.head] = NoBuf THEN NoBuf ELSE fifo.tail
      /\ \A b \in Buffers : b # fifo.head => g.next[b] = fifo.next[b]
  BY <1>2 DEF Overwrite, Kt_GetBufferFromFifo
<1>5. CASE fifo.next[fifo.head] = NoBuf
  BY <1>2, <1>3, <1>4, <1>5
<1>6. CASE queue.head = 0 /\ AsSupplied(0, fifo)
  <2>1. fifo.next[0] = 1 /\ 1 # NoBuf
    BY <1>1, <1>6, SMT DEF AsSupplied, Buffers
  <2>2. g.head = 1 /\ g.tail = PoolSize - 1
    BY <1>2, <1>4, <1>6, <2>1 DEF AsSupplied
  <2>3. \A b \in 1 .. PoolSize - 1 : g.next[b] = fifo.next[b]
    BY <1>1, <1>2, <1>4, <1>6, SMT DEF Buffers
  <2>4. AsSupplied(1, g)
    BY <1>1, <1>6, <2>2, <2>3, SMT DEF AsSupplied
  <2> QED BY <1>2, <1>3, <1>6, <2>4
<1> QED BY <1>5, <1>6 DEF LinkedShape

\* A callback gives the list the next buffer of the ring, and it becomes the
\* only node: what kt_app_main had linked behind it is dropped from the list.
LEMMA GiveNext ==
  ASSUME TypeOK, RingInPlace, HeldShape, NEW n \in Nat,
         NEW i, i = NextSlot(queue.head),
         NEW g, g = Kt_AddBufferToFifo(fifo, i, n)
  PROVE  g \in BufFifo /\ g.head = i /\ g.tail = i /\ g.next[i] = NoBuf
<1>1. PoolSize \in Nat /\ PoolSize >= 3 /\ NoBuf \notin Buffers
  BY MetadataAssumption
<1>2. /\ queue.head \in Buffers /\ i \in Buffers
      /\ fifo.next \in [Buffers -> Links] /\ fifo \in BufFifo
  BY NextSlotInRing DEF TypeOK, BufFifo
<1>3. g \in BufFifo
  BY <1>2, AddIsBufFifo
<1>4. CASE fifo.head = NoBuf
  BY <1>2, <1>3, <1>4 DEF Kt_AddBufferToFifo, Kt_BufFifo_IsEmpty
<1>5. CASE queue.head = 0 /\ AsSupplied(1, fifo)
  <2>1. i = 1 /\ fifo.head = 1 /\ fifo.tail = PoolSize - 1 /\ 1 # NoBuf
    BY <1>1, <1>2, <1>5, NextSlotOfZero DEF AsSupplied
  <2>2. g.next = [[fifo.next EXCEPT ![1] = NoBuf] EXCEPT ![PoolSize - 1] = 1]
        /\ g.head = 1 /\ g.tail = 1
    BY <2>1 DEF Kt_AddBufferToFifo, Kt_BufFifo_IsEmpty
  <2>3. 1 \in Buffers /\ PoolSize - 1 # 1
    BY <1>1, SMT DEF Buffers
  <2>4. g.next[1] = NoBuf
    BY <1>2, <2>2, <2>3
  <2> QED BY <1>3, <2>1, <2>2, <2>4
<1> QED BY <1>4, <1>5 DEF HeldShape

\* kt_app_face_identified_cb and kt_app_face_not_identified_cb.
LEMMA CallbackInv ==
  ASSUME Inv, FaceCallback
  PROVE  Inv'
<1> DEFINE i   == NextSlot(queue.head)
           got == kt_app_metadata_buffer_queue_get(queue)
           n   == FacesGiven
<1>1. TypeOK /\ RingInPlace /\ HeldShape /\ out = queue.head /\ freed = {}
  BY DEF Inv, Shape, FaceCallback, HeldShape
<1>2. n \in Nat
  BY <1>1, CountsAreNat DEF FacesGiven, TypeOK
<1>3. /\ got.buf = i /\ got.len \in Nat
      /\ kt_app_metadata_buffer_queue_add(got.queue, out, n) =
           [slots |-> queue.slots,
            lens  |-> [queue.lens EXCEPT ![queue.head] = n],
            head  |-> i, tail |-> i]
  BY <1>1, <1>2, RingSwap
<1>4. i \in Buffers /\ i # NoBuf
  BY <1>1, NextSlotInRing, MetadataAssumption DEF TypeOK
<1>5. /\ fifo' = Kt_AddBufferToFifo(fifo, i, got.len)
      /\ queue' = [slots |-> queue.slots,
                   lens  |-> [queue.lens EXCEPT ![queue.head] = n],
                   head  |-> i, tail |-> i]
  BY <1>3, <1>4 DEF FaceCallback
<1>6. fifo' \in BufFifo /\ fifo'.head = i /\ fifo'.tail = i
      /\ fifo'.next[i] = NoBuf
  BY <1>1, <1>3, <1>5, GiveNext
<1>7. /\ out' = NoBuf /\ freed' = {} /\ pc' \in {"second", "idle"}
      /\ frame' \in {frame, NoFrame}
      /\ UNCHANGED <<ids, supplied>>
  BY <1>1 DEF FaceCallback
<1>8. TypeOK'
  <2>1. queue' \in [slots : [Buffers -> Buffers], lens : [Buffers -> Nat],
                    head : Buffers, tail : Buffers]
    <3>1. queue.slots \in [Buffers -> Buffers] /\ queue.lens \in [Buffers -> Nat]
      BY <1>1 DEF TypeOK
    <3>2. [queue.lens EXCEPT ![queue.head] = n] \in [Buffers -> Nat]
      BY <1>2, <3>1
    <3> QED BY <1>4, <1>5, <3>1, <3>2
  <2>2. pc' \in PCs /\ out' \in Buffers \cup {NoBuf} /\ freed' \subseteq Buffers
    BY <1>7 DEF PCs
  <2> QED BY <1>1, <1>6, <1>7, <2>1, <2>2 DEF TypeOK
<1>9. RingInPlace'
  BY <1>1, <1>5 DEF RingInPlace
<1>10. Shape'
  <2>1. LinkedShape'
    BY <1>5, <1>6, <1>7 DEF LinkedShape
  <2> QED BY <1>7, <2>1 DEF Shape
<1> QED BY <1>8, <1>9, <1>10 DEF Inv

\* The faces copied for a frame have the type of face IDs.
LEMMA FilledIds ==
  ASSUME TypeOK, NEW b \in Buffers, NEW fr \in Frames \cup {NoFrame},
         NEW face \in {ids[b], ClearedIds(b)}
  PROVE  /\ [ids EXCEPT ![b] = FillUnidentified(face, fr)] \in
               [Buffers -> [0 .. FullLen - 1 -> FaceIds \cup {0, Junk}]]
         /\ fr \in Frames =>
              [ids EXCEPT ![b] = FillIdentified(face, fr)] \in
                 [Buffers -> [0 .. FullLen - 1 -> FaceIds \cup {0, Junk}]]
<1> DEFINE Faces == [0 .. FullLen - 1 -> FaceIds \cup {0, Junk}]
<1>1. ids \in [Buffers -> Faces]
  BY DEF TypeOK
<1>2. face \in Faces
  BY <1>1 DEF ClearedIds
<1>3. FillUnidentified(face, fr) \in Faces
  BY <1>2 DEF FillUnidentified
<1>4. ASSUME fr \in Frames PROVE FillIdentified(face, fr) \in Faces
  <2>1. PICK n \in 1 .. MaxUsers : fr.users \in [1 .. n -> FaceIds \cup {0}]
    BY <1>4 DEF Frames, UserLists
  <2>2. \A j \in Identified(fr) : fr.users[j] \in FaceIds \cup {0}
    BY <2>1 DEF Identified
  <2>3. \A S \in SUBSET Identified(fr) :
           S # {} => fr.users[CHOOSE j \in S : TRUE] \in FaceIds \cup {0}
    BY <2>2
  <2>4. DOMAIN face = 0 .. FullLen - 1
        /\ \A k \in DOMAIN face : face[k] \in FaceIds \cup {0, Junk}
    BY <1>2
  <2>5. \A k \in 0 .. FullLen - 1 :
          LET here == {j \in Identified(fr) : Before(j, Identified(fr)) = k}
          IN (IF here = {} THEN face[k] ELSE fr.users[CHOOSE j \in here : TRUE])
                \in FaceIds \cup {0, Junk}
    BY <2>3, <2>4
  <2> QED BY <2>4, <2>5 DEF FillIdentified
<1> QED BY <1>1, <1>3, <1>4

\* The pass over the identified users.
LEMMA IdentifiedInv ==
  ASSUME AppCallbacks, Inv, NEW fr \in Frames, HandleIdentified(fr)
  PROVE  Inv'
<1>1. TypeOK /\ RingInPlace /\ LinkedShape /\ freed = {}
  BY DEF Inv, Shape, HandleIdentified
<1>2. /\ fifo.head \in Buffers /\ fifo.head = queue.head /\ fifo.head # NoBuf
  BY <1>1, TakeHead, MetadataAssumption
<1>3. /\ out' = fifo.head
      /\ fifo' = Overwrite(Kt_GetBufferFromFifo(fifo), fifo.head)
      /\ ids' = [ids EXCEPT ![fifo.head] =
                   FillIdentified(ClearedIds(fifo.head), fr)]
      /\ frame' = fr /\ pc' \in {"identified", "second"}
      /\ UNCHANGED <<queue, supplied, freed>>
  BY <1>2 DEF HandleIdentified, Kt_BufFifo_IsEmpty
<1>4. /\ fifo' \in BufFifo
      /\ \/ fifo'.head = NoBuf /\ fifo'.tail = NoBuf
         \/ queue.head = 0 /\ AsSupplied(1, fifo')
  BY <1>1, <1>3, TakeHead
<1>5. ids' \in [Buffers -> [0 .. FullLen - 1 -> FaceIds \cup {0, Junk}]]
  BY <1>1, <1>2, <1>3, FilledIds
<1>6. TypeOK'
  BY <1>1, <1>2, <1>3, <1>4, <1>5 DEF TypeOK, PCs
<1>7. RingInPlace'
  BY <1>1, <1>3 DEF RingInPlace
<1>8. HeldShape'
  BY <1>2, <1>3, <1>4 DEF HeldShape
<1>9. pc' = "second" => NrUnidentified(frame') > 0
  <2>1. pc' = "second" => ~(NrIdentified(fr) > 0)
    BY <1>2 DEF HandleIdentified, Kt_BufFifo_IsEmpty, AppCallbacks
  <2> QED BY <1>3, <2>1, SomebodyInFrame
<1>10. Shape'
  BY <1>1, <1>2, <1>3, <1>8, <1>9 DEF Shape
<1> QED BY <1>6, <1>7, <1>10 DEF Inv

\* A frame without unidentified users: its buffer went to the application.
LEMMA NobodyInv ==
  ASSUME AppCallbacks, Inv, NobodyUnidentified
  PROVE  Inv'
<1>1. TypeOK /\ RingInPlace /\ LinkedShape /\ freed = {}
  <2>1. NrUnidentified(frame) \in Nat
    BY CountsAreNat DEF Inv, TypeOK
  <2>2. out = NoBuf
    BY <2>1, SMT DEF NobodyUnidentified, Inv, Shape
  <2> QED BY <2>2 DEF Inv, Shape, NobodyUnidentified
<1>2. /\ pc' = "idle" /\ out' = NoBuf /\ frame' = NoFrame
      /\ UNCHANGED <<queue, fifo, ids, supplied, freed>>
  BY DEF NobodyUnidentified
<1>3. TypeOK'
  BY <1>1, <1>2 DEF TypeOK, PCs
<1>4. RingInPlace'
  BY <1>1, <1>2 DEF RingInPlace
<1>5. LinkedShape'
  BY <1>1, <1>2 DEF LinkedShape
<1>6. Shape'
  BY <1>1, <1>2, <1>5 DEF Shape
<1> QED BY <1>3, <1>4, <1>6 DEF Inv

\* The pass over the unidentified users.
LEMMA UnidentifiedInv ==
  ASSUME AppCallbacks, Inv, HandleUnidentified
  PROVE  Inv'
<1> DEFINE b == IF out = NoBuf THEN fifo.head ELSE out
           cleared == IF out = NoBuf THEN ClearedIds(b) ELSE ids[b]
           popped  == IF out = NoBuf THEN Kt_GetBufferFromFifo(fifo) ELSE fifo
<1>1. /\ TypeOK /\ RingInPlace /\ freed = {} /\ NoBuf \notin Buffers
      /\ out = NoBuf => LinkedShape
      /\ out # NoBuf => HeldShape
      /\ PoolSize \in Nat /\ PoolSize >= 3
  BY MetadataAssumption DEF Inv, Shape, HandleUnidentified
<1>2. b \in Buffers /\ b = queue.head /\ b # NoBuf
  BY <1>1, TakeHead DEF HeldShape, TypeOK
<1>3. /\ fifo' = Overwrite(popped, b)
      /\ ids' = [ids EXCEPT ![b] = FillUnidentified(cleared, frame)]
      /\ pc' = "notIdentified" /\ out' = b
      /\ UNCHANGED <<frame, queue, supplied, freed>>
  BY <1>2 DEF HandleUnidentified, AppCallbacks
<1>4. /\ fifo' \in BufFifo
      /\ \/ fifo'.head = NoBuf /\ fifo'.tail = NoBuf
         \/ queue.head = 0 /\ AsSupplied(1, fifo')
  <2>1. CASE out = NoBuf
    <3>1. fifo' = Overwrite(Kt_GetBufferFromFifo(fifo), fifo.head)
      BY <1>3, <2>1
    <3> QED BY <1>1, <2>1, <3>1, TakeHead
  <2>2. CASE out # NoBuf
    <3>1. fifo' = [fifo EXCEPT !.next[queue.head] = Clobbered]
      BY <1>2, <1>3, <2>2 DEF Overwrite
    <3>2. fifo \in BufFifo /\ queue.head \in Buffers
      BY <1>1 DEF TypeOK
    <3>3. /\ fifo' \in BufFifo
          /\ fifo'.head = fifo.head /\ fifo'.tail = fifo.tail
          /\ \A k \in Buffers : k # queue.head => fifo'.next[k] = fifo.next[k]
      BY <3>1, <3>2 DEF BufFifo, Links
    <3>4. CASE fifo.head = NoBuf /\ fifo.tail = NoBuf
      BY <3>3, <3>4
    <3>5. CASE queue.head = 0 /\ AsSupplied(1, fifo)
      <4>1. \A k \in 1 .. PoolSize - 1 : fifo'.next[k] = fifo.next[k]
        BY <1>1, <3>3, <3>5, SMT DEF Buffers
      <4>2. AsSupplied(1, fifo')
        BY <1>1, <3>3, <3>5, <4>1, SMT DEF AsSupplied
      <4> QED BY <3>3, <3>5, <4>2
    <3> QED BY <1>1, <2>2, <3>4, <3>5 DEF HeldShape
  <2> QED BY <2>1, <2>2
<1>5. ids' \in [Buffers -> [0 .. FullLen - 1 -> FaceIds \cup {0, Junk}]]
  BY <1>1, <1>2, <1>3, FilledIds DEF TypeOK
<1>6. TypeOK'
  BY <1>1, <1>2, <1>3, <1>4, <1>5 DEF TypeOK, PCs
<1>7. RingInPlace'
  BY <1>1, <1>3 DEF RingInPlace
<1>8. HeldShape'
  BY <1>2, <1>3, <1>4 DEF HeldShape
<1>9. Shape'
  BY <1>1, <1>3, <1>8 DEF Shape
<1> QED BY <1>6, <1>7, <1>9 DEF Inv

\* Exit: every buffer of the list is released.
LEMMA ExitInv ==
  ASSUME Inv, ExitCommand
  PROVE  Inv'
<1>1. /\ TypeOK /\ RingInPlace /\ LinkedShape /\ freed = {}
      /\ pc' = "release"
      /\ UNCHANGED <<queue, fifo, ids, frame, out, supplied, freed>>
  BY DEF Inv, Shape, ExitCommand
<1>2. TypeOK' /\ RingInPlace'
  BY <1>1 DEF TypeOK, RingInPlace, PCs
<1>3. ReleaseShape'
  BY <1>1 DEF ReleaseShape, LinkedShape, TypeOK, AsSupplied
<1> QED BY <1>1, <1>2, <1>3 DEF Inv, Shape

\* Kt_ReleaseMetadataBuffers frees the head and follows its link.
LEMMA ReleaseInv ==
  ASSUME Inv, Kt_ReleaseMetadataBuffers
  PROVE  Inv'
<1>1. /\ TypeOK /\ RingInPlace /\ ReleaseShape /\ pc = "release"
      /\ UNCHANGED <<queue, ids, frame, out, supplied>>
      /\ PoolSize \in Nat /\ PoolSize >= 3 /\ NoBuf \notin Buffers
  BY MetadataAssumption DEF Inv, Shape, Kt_ReleaseMetadataBuffers
<1>2. RingInPlace'
  BY <1>1 DEF RingInPlace
<1>3. CASE fifo.head = NoBuf
  <2>1. pc' = "done" /\ UNCHANGED <<fifo, freed>>
    BY <1>3 DEF Kt_ReleaseMetadataBuffers, Kt_BufFifo_IsEmpty
  <2>2. TypeOK'
    BY <1>1, <2>1 DEF TypeOK, PCs
  <2>3. fifo'.head = NoBuf
    BY <1>3, <2>1
  <2> QED BY <1>2, <2>1, <2>2, <2>3 DEF Inv, Shape
<1>4. CASE fifo.head # NoBuf
  <2>1. /\ freed' = freed \cup {fifo.head} /\ fifo' = Kt_GetBufferFromFifo(fifo)
        /\ pc' = "release" /\ fifo.head \in Buffers /\ fifo \in BufFifo
    BY <1>1, <1>4 DEF Kt_ReleaseMetadataBuffers, Kt_BufFifo_IsEmpty,
                      ReleaseShape, TypeOK
  <2>2. fifo' \in BufFifo
    BY <2>1, TakeIsBufFifo
  <2>3. TypeOK'
    BY <1>1, <2>1, <2>2 DEF TypeOK
  <2>4. /\ fifo'.head = fifo.next[fifo.head]
        /\ fifo'.tail = IF fifo.next[fifo.head] = NoBuf THEN NoBuf ELSE fifo.tail
        /\ \A k \in Buffers : k # fifo.head => fifo'.next[k] = fifo.next[k]
    BY <2>1 DEF Kt_GetBufferFromFifo, BufFifo
  <2>5. ReleaseShape'
    <3>1. CASE fifo.next[fifo.head] = NoBuf
      BY <1>1, <2>4, <3>1 DEF ReleaseShape
    <3>2. CASE fifo.next[fifo.head] # NoBuf
      <4>1. /\ AsSupplied(fifo.head, fifo) /\ \A k \in freed : k < fifo.head
            /\ fifo.head # PoolSize - 1
        BY <1>1, <2>1, <3>2 DEF ReleaseShape, AsSupplied
      <4>2. fifo'.head = fifo.head + 1 /\ fifo'.tail = PoolSize - 1
            /\ fifo.head + 1 \in Buffers
        BY <1>1, <2>1, <2>4, <3>2, <4>1, SMT DEF AsSupplied, Buffers
      <4>3. \A k \in fifo.head + 1 .. PoolSize - 1 : fifo'.next[k] = fifo.next[k]
        BY <1>1, <2>1, <2>4, SMT DEF Buffers
      <4>4. AsSupplied(fifo'.head, fifo')
        BY <1>1, <2>1, <4>1, <4>2, <4>3, SMT DEF AsSupplied, Buffers
      <4>5. \A k \in freed' : k < fifo'.head
        <5>1. fifo.head \in Int /\ \A k \in freed : k \in Int
          BY <1>1, <2>1, SMT DEF Buffers, TypeOK
        <5> QED BY <2>1, <4>1, <4>2, <5>1, SMT
      <4> QED BY <4>2, <4>4, <4>5 DEF ReleaseShape
    <3> QED BY <3>1, <3>2
  <2> QED BY <1>2, <2>1, <2>3, <2>5 DEF Inv, Shape
<1> QED BY <1>3, <1>4

-----------------------------------------------------------------------------
(* The theorems.                                                           *)

\* Every step of the thread keeps the invariant.
LEMMA NextInv ==
  ASSUME AppCallbacks, Inv, [Next]_vars
  PROVE  Inv'
<1>1. CASE SupplyBuffer
  BY <1>1, SupplyInv
<1>2. CASE kt_app_metadata_buffer_queue_fini
  <2>1. /\ TypeOK /\ RingInPlace /\ pc' = "done" /\ freed' = Buffers
        /\ UNCHANGED <<queue, fifo, ids, frame, out, supplied>>
        /\ fifo.head = NoBuf
    BY <1>2 DEF kt_app_metadata_buffer_queue_fini, Inv, RingInPlace, Shape,
                BootShape
  <2>2. TypeOK' /\ RingInPlace'
    BY <2>1 DEF TypeOK, RingInPlace, PCs
  <2> QED BY <2>1, <2>2 DEF Inv, Shape
<1>3. ASSUME NEW fr \in Frames, HandleIdentified(fr) PROVE Inv'
  BY <1>3, IdentifiedInv
<1>4. CASE NobodyUnidentified
  BY <1>4, NobodyInv
<1>5. CASE HandleUnidentified
  BY <1>5, UnidentifiedInv
<1>6. CASE FaceCallback
  BY <1>6, CallbackInv
<1>7. CASE ExitCommand
  BY <1>7, ExitInv
<1>8. CASE Kt_ReleaseMetadataBuffers
  BY <1>8, ReleaseInv
<1>9. CASE UNCHANGED vars
  BY <1>9 DEF vars, Inv, TypeOK, RingInPlace, Shape, BootShape, LinkedShape,
              HeldShape, ReleaseShape, AsSupplied
<1> QED BY <1>1, <1>2, <1>3, <1>4, <1>5, <1>6, <1>7, <1>8, <1>9 DEF Next

\* The types hold, and with them the shape of the list and of the ring, for
\* every pool of at least three buffers.
THEOREM TypeCorrect == ASSUME AppCallbacks PROVE Spec => []TypeOK
<1>1. Init => Inv
  BY InitInv
<1>2. Inv /\ [Next]_vars => Inv'
  BY NextInv
<1>3. Inv => TypeOK
  BY DEF Inv
<1> QED BY <1>1, <1>2, <1>3, PTL DEF Spec

\* KtLib never runs out of buffers, whatever the frames: one buffer is enough
\* because the callback gives the next one before KtLib asks for it.
THEOREM Supplied == ASSUME AppCallbacks PROVE Spec => []NeverStarved
<1>1. Init => Inv
  BY InitInv
<1>2. Inv /\ [Next]_vars => Inv'
  BY NextInv
<1>3. Inv => NeverStarved
  BY DEF Inv, Shape, NeverStarved
<1> QED BY <1>1, <1>2, <1>3, PTL DEF Spec

\* The list is never damaged by the data written over its nodes, whatever the
\* frames and the size of the pool: at any time it is a chain of buffers whose
\* nodes are intact, from p_head to p_tail.
THEOREM Intact == ASSUME AppCallbacks PROVE Spec => []ListIntact
<1>1. Init => Inv
  BY InitInv
<1>2. Inv /\ [Next]_vars => Inv'
  BY NextInv
<1>3. Inv => ListIntact
  <2> SUFFICES ASSUME Inv PROVE Sound(fifo)
    BY DEF Sound, ListIntact
  <2>1. /\ Shape /\ TypeOK /\ queue.head \in Buffers /\ pc \in PCs
        /\ PoolSize \in Nat /\ PoolSize >= 3 /\ NoBuf \notin Buffers
        /\ supplied \in Nat
    BY MetadataAssumption, SMT DEF Inv, TypeOK
  <2>2. \A a \in Buffers : AsSupplied(a, fifo) => Chain(a, PoolSize - 1, fifo)
    BY <2>1, SMT DEF AsSupplied, Chain
  <2>3. \A a \in Buffers : AsSupplied(a, fifo) => Sound(fifo)
    <3> SUFFICES ASSUME NEW a \in Buffers, AsSupplied(a, fifo) PROVE Sound(fifo)
      OBVIOUS
    <3>1. PoolSize - 1 \in Buffers /\ a <= PoolSize - 1
      BY <2>1, SMT DEF Buffers
    <3> QED BY <2>2, <3>1, ChainIsSound
  <2>4. ASSUME fifo.head \in Buffers, fifo.tail = fifo.head,
               fifo.next[fifo.head] = NoBuf
        PROVE  Sound(fifo)
    <3>1. Chain(fifo.head, fifo.head, fifo) /\ fifo.head <= fifo.head
      BY <2>1, <2>4, SMT DEF Chain, Buffers
    <3> QED BY <2>4, <3>1, ChainIsSound
  <2>5. 0 \in Buffers /\ 1 \in Buffers
    BY <2>1, SMT DEF Buffers
  <2>6. CASE fifo.head = NoBuf
    BY <2>6, EmptyIsSound
  <2>7. CASE pc = "boot" /\ fifo.head # NoBuf
    <3>1. BootShape /\ supplied > 0
      BY <2>1, <2>7, SMT DEF Shape, BootShape
    <3>2. 0 \in Buffers /\ supplied - 1 \in Buffers /\ 0 <= supplied - 1
      BY <2>1, <3>1, SMT DEF BootShape, Buffers
    <3>3. Chain(0, supplied - 1, fifo)
      BY <2>1, <3>1, SMT DEF BootShape, Chain
    <3> QED BY <3>2, <3>3, ChainIsSound
  <2>8. CASE LinkedShape
    BY <2>1, <2>3, <2>4, <2>5, <2>8 DEF LinkedShape
  <2>9. CASE HeldShape
    BY <2>3, <2>5, <2>6, <2>9 DEF HeldShape
  <2>10. CASE pc = "release"
    BY <2>1, <2>3, <2>4, <2>6, <2>10 DEF Shape, ReleaseShape
  <2> QED BY <2>1, <2>6, <2>7, <2>8, <2>9, <2>10 DEF Shape, PCs
<1> QED BY <1>1, <1>2, <1>3, PTL DEF Spec

\* A buffer shown to the application is not on the list that KtLib fills
\* from, nor will the ring hand it out, for every size of the pool.
THEOREM Exclusive == ASSUME AppCallbacks PROVE Spec => []HandoffExclusive
<1>1. Init => Inv
  BY InitInv
<1>2. Inv /\ [Next]_vars => Inv'
  BY NextInv
<1>3. Inv => HandoffExclusive
  <2> SUFFICES ASSUME Inv, pc \in {"identified", "notIdentified"}
               PROVE  out \notin OnList(fifo) \cup Queued(queue)
    BY DEF HandoffExclusive
  <2>1. /\ HeldShape /\ RingInPlace /\ queue.head \in Buffers
        /\ PoolSize \in Nat /\ PoolSize >= 3 /\ NoBuf \notin Buffers
    BY MetadataAssumption DEF Inv, Shape, TypeOK
  <2>2. out \notin Queued(queue)
    BY <2>1, SMT DEF Queued, RingInPlace, HeldShape, Buffers
  <2>3. out \notin OnList(fifo)
    <3>1. CASE fifo.head = NoBuf
      <4>1. Closed({}, fifo) /\ {} \in SUBSET Buffers
        BY <2>1, <3>1 DEF Closed
      <4> QED BY <4>1 DEF OnList
    <3>2. CASE queue.head = 0 /\ AsSupplied(1, fifo)
      <4>1. 1 .. PoolSize - 1 \in SUBSET Buffers
        BY <2>1, SMT DEF Buffers
      <4>2. fifo.head \in 1 .. PoolSize - 1
        BY <2>1, <3>2, SMT DEF AsSupplied
      <4>3. \A b \in 1 .. PoolSize - 1 :
               fifo.next[b] \in Buffers => fifo.next[b] \in 1 .. PoolSize - 1
        BY <2>1, <3>2, SMT DEF AsSupplied, Buffers
      <4>4. Closed(1 .. PoolSize - 1, fifo)
        BY <4>2, <4>3 DEF Closed
      <4>5. out \notin 1 .. PoolSize - 1
        BY <2>1, <3>2, SMT DEF HeldShape
      <4> QED BY <4>1, <4>4, <4>5 DEF OnList
    <3> QED BY <2>1, <3>1, <3>2 DEF HeldShape
  <2> QED BY <2>2, <2>3
<1> QED BY <1>1, <1>2, <1>3, PTL DEF Spec

\* No buffer leaks: between two frames the list and the ring hold all of them.
THEOREM Complete == ASSUME AppCallbacks PROVE Spec => []NoBufferLost
<1>1. Init => Inv
  BY InitInv
<1>2. Inv /\ [Next]_vars => Inv'
  BY NextInv
<1>3. Inv => NoBufferLost
  <2> SUFFICES ASSUME Inv, pc = "idle"
               PROVE  OnList(fifo) \cup Queued(queue) = Buffers
    BY DEF NoBufferLost
  <2>1. /\ RingInPlace /\ queue.head \in Buffers /\ fifo.head = queue.head
        /\ PoolSize \in Nat
    BY MetadataAssumption DEF Inv, Shape, TypeOK, LinkedShape
  <2>2. fifo.head \in OnList(fifo)
    BY <2>1 DEF OnList, Closed
  <2>3. ASSUME NEW b \in Buffers, b # queue.head PROVE b \in Queued(queue)
    BY <2>1, <2>3, SMT DEF Queued, RingInPlace, Buffers
  <2>4. OnList(fifo) \subseteq Buffers /\ Queued(queue) \subseteq Buffers
    BY <2>1 DEF OnList, Queued, RingInPlace
  <2> QED BY <2>1, <2>2, <2>3, <2>4
<1> QED BY <1>1, <1>2, <1>3, PTL DEF Spec

\* Kt_ReleaseMetadataBuffers never frees a buffer twice and never follows the
\* link of a freed one, whether or not a frame came before the exit.
THEOREM FreedOnce == ASSUME AppCallbacks PROVE Spec => []NoDoubleFree
<1>1. Init => Inv
  BY InitInv
<1>2. Inv /\ [Next]_vars => Inv'
  BY NextInv
<1>3. Inv => NoDoubleFree
  <2> SUFFICES ASSUME Inv, pc = "release"
               PROVE  OnList(fifo) \cap freed = {}
    BY DEF NoDoubleFree
  <2>1. /\ ReleaseShape /\ freed \subseteq Buffers
        /\ PoolSize \in Nat /\ PoolSize >= 3 /\ NoBuf \notin Buffers
    BY MetadataAssumption DEF Inv, Shape, TypeOK
  <2>2. CASE fifo.head = NoBuf
    <3>1. Closed({}, fifo) /\ {} \in SUBSET Buffers
      BY <2>1, <2>2 DEF Closed
    <3> QED BY <3>1 DEF OnList
  <2>3. CASE /\ fifo.head \in Buffers /\ fifo.next[fifo.head] = NoBuf
             /\ fifo.head \notin freed
    <3>1. Closed({fifo.head}, fifo) /\ {fifo.head} \in SUBSET Buffers
      BY <2>1, <2>3 DEF Closed
    <3> QED BY <2>3, <3>1 DEF OnList
  <2>4. CASE /\ fifo.head \in Buffers /\ AsSupplied(fifo.head, fifo)
             /\ \A b \in freed : b < fifo.head
    <3> DEFINE Rest == fifo.head .. PoolSize - 1
    <3>1. Rest \in SUBSET Buffers /\ fifo.head \in Rest
      BY <2>1, <2>4, SMT DEF Buffers
    <3>2. \A b \in Rest : fifo.next[b] \in Buffers => fifo.next[b] \in Rest
      BY <2>1, <2>4, SMT DEF AsSupplied, Buffers
    <3>3. Closed(Rest, fifo)
      BY <3>1, <3>2 DEF Closed
    <3>4. \A b \in freed : b \notin Rest
      BY <2>1, <2>4, SMT DEF Buffers
    <3> QED BY <3>1, <3>3, <3>4 DEF OnList
  <2> QED BY <2>1, <2>2, <2>3, <2>4 DEF ReleaseShape
<1> QED BY <1>1, <1>2, <1>3, PTL DEF Spec

=============================================================================
