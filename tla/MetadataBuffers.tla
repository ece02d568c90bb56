-------------------------- MODULE MetadataBuffers --------------------------
(***************************************************************************)
(* The life of the PpeData metadata buffers.                               *)
(*                                                                         *)
(*  - kt_app keeps its pool in a ring queue (kt_app_buffers.c);            *)
(*  - KtLib keeps the buffers it was given in an intrusive linked list:    *)
(*    the list node is written INTO the first bytes of the buffer          *)
(*    (Kt_FifoMgmt.c);                                                     *)
(*  - for each frame Kt_HandleReceivedMetadata fills one buffer with the   *)
(*    identified users and one with the unidentified ones, and each        *)
(*    kt_app callback swaps the buffer it receives for a fresh one.        *)
(*                                                                         *)
(* All of it runs in the kt_app_main thread. kt_app hands ALL the buffers  *)
(* of the queue to KtLib without taking them out of the queue, so every    *)
(* buffer starts with two owners. Lengths are counted in faces.            *)
(***************************************************************************)
EXTENDS Integers, Sequences, FiniteSets

CONSTANTS
  PoolSize,       \* KT_APP_METADATA_BUFFER_POOL_SIZE
  FullLen,        \* faces that fit in a buffer as it was allocated
  MaxUsers,       \* users in a frame, at most
  FaceIds,        \* face IDs the firmware can report, 0 excluded
  HasIdentifiedCb, HasUnidentifiedCb,  \* is the callback set in KtConfig?
  NoBuf,          \* NULL
  Clobbered       \* a list node that PpeData has been written over

Buffers == 0 .. PoolSize - 1
Junk    == -1     \* what malloc() left in a face ID

ASSUME MetadataAssumption ==
  /\ PoolSize \in Nat /\ PoolSize >= 3
  /\ FullLen \in Nat \ {0}
  /\ MaxUsers \in 1 .. FullLen
  /\ FaceIds \subseteq Nat \ {0}
  /\ HasIdentifiedCb \in BOOLEAN /\ HasUnidentifiedCb \in BOOLEAN
  /\ NoBuf \notin Buffers /\ Clobbered \notin Buffers /\ NoBuf # Clobbered

\* The users of a frame, in the order GARD lists them; 0 is "not recognised".
UserLists == UNION {[1 .. n -> FaceIds \cup {0}] : n \in 1 .. MaxUsers}

\* A frame may also name one of its users as the ideal user (0: none).
Frames == {[users |-> u, ideal |-> i] : u \in UserLists, i \in 0 .. MaxUsers}
NoFrame == [users |-> << >>, ideal |-> 0]

VARIABLES
  queue,     \* metadata_buffer_queue_t: slots, lens, head, tail
  fifo,      \* struct BufFifo and the BufInfo of every buffer
  ids,       \* fd__face_id of every pd__faces[] entry of every buffer
  frame,     \* the frame being handled
  out,       \* p_out_data
  pc,        \* where the thread is
  supplied,  \* loop counter of the hand-over in kt_app_main
  freed      \* buffers given back to the heap

vars == <<queue, fifo, ids, frame, out, pc, supplied, freed>>

-----------------------------------------------------------------------------
(* The ring queue of kt_app.                                               *)

NextSlot(i) == (i + 1) % PoolSize

kt_app_metadata_buffer_queue_init ==
  [slots |-> [i \in Buffers |-> i], lens |-> [i \in Buffers |-> FullLen],
   head |-> 0, tail |-> 0]

\* Mutants: the two tests exchanged, as in a ring with the other convention.
QueueFull_exchanged(q)  == NextSlot(q.tail) = q.head
QueueEmpty_exchanged(q) == q.head = q.tail

QueueFull(q)  == q.tail = q.head
QueueEmpty(q) == NextSlot(q.head) = q.tail

\* Mutant: the tail does not wrap.
kt_app_metadata_buffer_queue_add_noWrap(q, b, n) ==
  IF QueueFull(q) THEN q
  ELSE [slots |-> [q.slots EXCEPT ![q.tail] = b],
        lens  |-> [q.lens EXCEPT ![q.tail] = n],
        head  |-> q.head, tail |-> q.tail + 1]

kt_app_metadata_buffer_queue_add(q, b, n) ==
  IF QueueFull(q) THEN q
  ELSE [slots |-> [q.slots EXCEPT ![q.tail] = b],
        lens  |-> [q.lens EXCEPT ![q.tail] = n],
        head  |-> q.head, tail |-> NextSlot(q.tail)]

\* Mutant: the head stays where it is.
kt_app_metadata_buffer_queue_get_stays(q) ==
  IF QueueEmpty(q) THEN [buf |-> NoBuf, len |-> 0, queue |-> q]
  ELSE [buf |-> q.slots[NextSlot(q.head)], len |-> q.lens[NextSlot(q.head)],
        queue |-> q]

kt_app_metadata_buffer_queue_get(q) ==
  IF QueueEmpty(q) THEN [buf |-> NoBuf, len |-> 0, queue |-> q]
  ELSE LET i == NextSlot(q.head)
       IN [buf |-> q.slots[i], len |-> q.lens[i],
           queue |-> [q EXCEPT !.head = i]]

-----------------------------------------------------------------------------
(* The linked list of KtLib.                                               *)

Links   == Buffers \cup {NoBuf, Clobbered}
BufFifo == [head : Links, tail : Links, next : [Buffers -> Links],
            len : [Buffers -> Nat]]

Kt_BufFifo_Init ==
  [head |-> NoBuf, tail |-> NoBuf, next |-> [b \in Buffers |-> Clobbered],
   len |-> [b \in Buffers |-> 0]]

Kt_BufFifo_IsEmpty(f) == f.head = NoBuf

\* Mutant: the node added keeps what its bytes held.
Kt_AddBufferToFifo_unterminated(f, b, n) ==
  [head |-> IF Kt_BufFifo_IsEmpty(f) THEN b ELSE f.head,
   tail |-> b,
   next |-> IF Kt_BufFifo_IsEmpty(f) THEN f.next
            ELSE [f.next EXCEPT ![f.tail] = b],
   len  |-> [f.len EXCEPT ![b] = n]]

Kt_AddBufferToFifo(f, b, n) ==
  LET cleared == [f.next EXCEPT ![b] = NoBuf]
  IN [head |-> IF Kt_BufFifo_IsEmpty(f) THEN b ELSE f.head,
      tail |-> b,
      next |-> IF Kt_BufFifo_IsEmpty(f) THEN cleared
               ELSE [cleared EXCEPT ![f.tail] = b],
      len  |-> [f.len EXCEPT ![b] = n]]

\* The list without its head; the caller keeps f.head.
Kt_GetBufferFromFifo(f) ==
  [head |-> f.next[f.head],
   tail |-> IF f.next[f.head] = NoBuf THEN NoBuf ELSE f.tail,
   next |-> [f.next EXCEPT ![f.head] = NoBuf],
   len  |-> f.len]

\* pd__face_count and pd__faces[0] share their bytes with the list node.
Overwrite(f, b) == [f EXCEPT !.next[b] = Clobbered]

\* Taking b off the list wrote NULL over the bytes of pd__faces[0].fd__face_id.
ClearedIds(b) == [ids[b] EXCEPT ![0] = 0]

-----------------------------------------------------------------------------
(* Kt_HandleReceivedMetadata.                                              *)

Identified(fr)   == {i \in DOMAIN fr.users : fr.users[i] # 0}
Unidentified(fr) == {i \in DOMAIN fr.users : fr.users[i] = 0}
NrIdentified(fr)   == Cardinality(Identified(fr))
NrUnidentified(fr) == Cardinality(Unidentified(fr))

\* How many of the users in S come before user i: the index i is copied to.
Before(i, S) == Cardinality({j \in S : j < i})

\* One entry per identified user, from index 0.
FillIdentified(face, fr) ==
  [k \in DOMAIN face |->
     LET here == {i \in Identified(fr) : Before(i, Identified(fr)) = k}
     IN IF here = {} THEN face[k] ELSE fr.users[CHOOSE i \in here : TRUE]]

\* The second pass copies the coordinates to the index of the unidentified
\* user, but every fd__face_id to the index count_of_identified_users; only
\* the ideal user's face ID is written at its own index as well.
FillUnidentified(face, fr) ==
  [k \in DOMAIN face |->
     IF \/ k = NrIdentified(fr)
        \/ fr.ideal \in Unidentified(fr) /\ k = Before(fr.ideal, Unidentified(fr))
     THEN 0 ELSE face[k]]

\* KT__ASSERT: kt_assert_failed() never returns.
AssertFailed == /\ pc' = "halted"
                /\ UNCHANGED <<queue, fifo, ids, frame, out, supplied, freed>>

\* A frame arrives: the pass over the identified users.
HandleIdentified(fr) ==
  /\ pc = "idle"
  /\ IF Kt_BufFifo_IsEmpty(fifo) THEN AssertFailed
     ELSE LET b == fifo.head
          IN /\ out'  = b
             /\ fifo' = Overwrite(Kt_GetBufferFromFifo(fifo), b)
             /\ ids'  = [ids EXCEPT ![b] = FillIdentified(ClearedIds(b), fr)]
             /\ frame' = fr
             /\ pc' = IF NrIdentified(fr) > 0 /\ HasIdentifiedCb
                      THEN "identified" ELSE "second"
             /\ UNCHANGED <<queue, supplied, freed>>

\* Every user of the frame was identified: there is no second pass.
NobodyUnidentified ==
  /\ pc = "second" /\ NrUnidentified(frame) = 0
  /\ pc' = "idle" /\ out' = NoBuf /\ frame' = NoFrame
  /\ UNCHANGED <<queue, fifo, ids, supplied, freed>>

\* The pass over the unidentified users, in a new buffer if the first one
\* went to the application.
HandleUnidentified ==
  /\ pc = "second" /\ NrUnidentified(frame) > 0
  /\ LET b == IF out = NoBuf THEN fifo.head ELSE out
         cleared == IF out = NoBuf THEN ClearedIds(b) ELSE ids[b]
         popped  == IF out = NoBuf THEN Kt_GetBufferFromFifo(fifo) ELSE fifo
     IN IF b = NoBuf THEN AssertFailed
        ELSE /\ fifo' = Overwrite(popped, b)
             /\ ids' = [ids EXCEPT ![b] = FillUnidentified(cleared, frame)]
             /\ IF HasUnidentifiedCb
                THEN pc' = "notIdentified" /\ out' = b /\ UNCHANGED frame
                ELSE pc' = "idle" /\ out' = NoBuf /\ frame' = NoFrame
             /\ UNCHANGED <<queue, supplied, freed>>

\* kt_app_face_identified_cb and kt_app_face_not_identified_cb, which differ
\* in their log text only. The length put back is that of the faces used.
FacesGiven == IF pc = "identified" THEN NrIdentified(frame)
                                   ELSE NrUnidentified(frame)

FaceCallback ==
  /\ pc \in {"identified", "notIdentified"}
  /\ LET got == kt_app_metadata_buffer_queue_get(queue)
     IN IF got.buf = NoBuf THEN UNCHANGED <<queue, fifo>>
        ELSE /\ fifo' = Kt_AddBufferToFifo(fifo, got.buf, got.len)
             /\ queue' = kt_app_metadata_buffer_queue_add(got.queue, out,
                                                          FacesGiven)
  /\ out' = NoBuf
  /\ IF pc = "identified" THEN pc' = "second" /\ UNCHANGED frame
                          ELSE pc' = "idle" /\ frame' = NoFrame
  /\ UNCHANGED <<ids, supplied, freed>>

-----------------------------------------------------------------------------
(* Start and stop.                                                         *)

\* kt_app_main gives KtLib every buffer, straight from the queue's slots.
SupplyBuffer ==
  /\ pc = "boot"
  /\ fifo' = Kt_AddBufferToFifo(fifo, queue.slots[supplied], FullLen)
  /\ supplied' = supplied + 1
  /\ pc' = IF supplied + 1 = PoolSize THEN "idle" ELSE "boot"
  /\ UNCHANGED <<queue, ids, frame, out, freed>>

\* Kt_Init failed: err_kt_app_main frees what the queue's slots point at.
kt_app_metadata_buffer_queue_fini ==
  /\ pc = "boot" /\ supplied = 0
  /\ freed' = {queue.slots[i] : i \in Buffers}
  /\ pc' = "done"
  /\ UNCHANGED <<queue, fifo, ids, frame, out, supplied>>

\* KT_APP_CMD_EXIT from the idle callback.
ExitCommand ==
  /\ pc = "idle"
  /\ pc' = "release"
  /\ UNCHANGED <<queue, fifo, ids, frame, out, supplied, freed>>

\* Mutant: the head is freed before it is taken off the list.
Kt_ReleaseMetadataBuffers_kept ==
  /\ pc = "release" /\ ~Kt_BufFifo_IsEmpty(fifo)
  /\ freed' = freed \cup {fifo.head}
  /\ UNCHANGED <<queue, fifo, ids, frame, out, pc, supplied>>

Kt_ReleaseMetadataBuffers ==
  /\ pc = "release"
  /\ \/ /\ Kt_BufFifo_IsEmpty(fifo)
        /\ pc' = "done"
        /\ UNCHANGED <<fifo, freed>>
     \/ /\ ~Kt_BufFifo_IsEmpty(fifo)
        /\ freed' = freed \cup {fifo.head}
        /\ fifo'  = Kt_GetBufferFromFifo(fifo)
        /\ UNCHANGED pc
  /\ UNCHANGED <<queue, ids, frame, out, supplied>>

Init ==
  /\ queue = kt_app_metadata_buffer_queue_init
  /\ fifo  = Kt_BufFifo_Init
  /\ ids   = [b \in Buffers |-> [k \in 0 .. FullLen - 1 |-> Junk]]
  /\ frame = NoFrame
  /\ out   = NoBuf
  /\ pc    = "boot"
  /\ supplied = 0
  /\ freed = {}

Next ==
  \/ SupplyBuffer
  \/ kt_app_metadata_buffer_queue_fini
  \/ \E fr \in Frames : HandleIdentified(fr)
  \/ NobodyUnidentified
  \/ HandleUnidentified
  \/ FaceCallback
  \/ ExitCommand
  \/ Kt_ReleaseMetadataBuffers

Spec == Init /\ [][Next]_vars

-----------------------------------------------------------------------------
(* Properties.                                                             *)

PCs == {"boot", "idle", "identified", "second", "notIdentified", "release",
        "done", "halted"}

\* Every variable has its type: indices stay in the ring, links in the pool.
TypeOK ==
  /\ queue \in [slots : [Buffers -> Buffers], lens : [Buffers -> Nat],
                head : Buffers, tail : Buffers]
  /\ fifo \in BufFifo
  /\ ids \in [Buffers -> [0 .. FullLen - 1 -> FaceIds \cup {0, Junk}]]
  /\ frame \in Frames \cup {NoFrame}
  /\ out \in Buffers \cup {NoBuf}
  /\ pc \in PCs
  /\ supplied \in 0 .. PoolSize
  /\ freed \subseteq Buffers

\* The nodes reachable from the head: in every set closed under bi__next.
Closed(S, f) == /\ f.head \in Buffers => f.head \in S
                /\ \A b \in S : f.next[b] \in Buffers => f.next[b] \in S

OnList(f) == {b \in Buffers : \A S \in SUBSET Buffers : Closed(S, f) => b \in S}

\* What the ring still has to hand out: the slots strictly between its indices.
Queued(q) ==
  {q.slots[i] : i \in {j \in Buffers : IF q.head < q.tail
                                       THEN q.head < j /\ j < q.tail
                                       ELSE j > q.head \/ j < q.tail}}

\* KtLib always finds a buffer: its "Failed to get metadata buffer" assertion,
\* an endless loop, is never reached (Kt_MetadataHandling.c:103, 215).
NeverStarved == pc # "halted"

\* The intrusive list is never damaged by the data written over its nodes: from
\* p_head one reaches p_tail and then NULL, although buffers are added while
\* they are still linked (Kt_FifoMgmt.c:99-108, kt_app_main.c:187).
ListIntact ==
  /\ \A b \in OnList(fifo) : fifo.next[b] # Clobbered
  /\ fifo.head # NoBuf => /\ fifo.head \in Buffers
                          /\ fifo.tail \in OnList(fifo)
                          /\ fifo.next[fifo.tail] = NoBuf

\* A buffer in the hands of the application (callback running) is neither on
\* KtLib's list nor waiting in the ring: nobody can write it meanwhile.
HandoffExclusive ==
  pc \in {"identified", "notIdentified"} =>
     out \notin OnList(fifo) \cup Queued(queue)

\* Between frames every buffer is on the list or in the ring: none is lost by
\* the swap, however the two initial owners are reconciled.
NoBufferLost == pc = "idle" => OnList(fifo) \cup Queued(queue) = Buffers

\* Releasing the list at exit frees no buffer twice, and follows no link of a
\* buffer that has been freed (Kt_FifoMgmt.c:176).
NoDoubleFree == pc = "release" => OnList(fifo) \cap freed = {}

\* Kt_Lib.h:102 "Face ID of the detected person. 0 if person is unidentified."
UnidentifiedHaveNoFaceId ==
  pc = "notIdentified" =>
     \A k \in 0 .. NrUnidentified(frame) - 1 : ids[out][k] \notin FaceIds
=============================================================================
