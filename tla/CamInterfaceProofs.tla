------------------------- MODULE CamInterfaceProofs -------------------------
(***************************************************************************)
(* The properties of CamInterface for every number of threads, generators  *)
(* and failures: types, what a camera that runs and a release promise, and *)
(* the refinement of CameraSwitch.                                         *)
(***************************************************************************)
EXTENDS CamInterface, FiniteSetTheorems, TLAPS

Opening  == {"reset", "open", "opening"}
Stopping == {"wait", "release"}
Reading  == {"look", "read", "yield"}

\* Unless a start overlapped, a stop that waits or releases has its flag up
FlagUp == ~crossed => \A t \in Threads : pc[t] \in Stopping => stop_flag

\* and no start is past the place where the flag is cleared
FlagDown == ~crossed /\ stop_flag => \A t \in Threads : pc[t] \notin Opening

\* and a camera that runs in spite of the flag is about to be released.
ToBeReleased ==
  ~crossed /\ stop_flag /\ camera_status = "Running" => \E t \in Threads : pc[t] \in Stopping

\* The count is never too high, and right unless it was reset.
Counted ==
  /\ active_generators <= Cardinality(Live)
  /\ ~recounted => active_generators = Cardinality(Live)

\* After the wait no generator gets past the flag.
NobodyReads ==
  ~crossed /\ ~recounted =>
    \A t \in Threads, g \in Generators : pc[t] = "release" => gpc[g] \notin Reading

\* Who opens the camera holds the lock, and there is no stream yet.
Locked == \A t \in Threads : pc[t] = "opening" => camera_lock = t /\ ~camera_stream

Flags == FlagUp /\ FlagDown /\ ToBeReleased

IInv == TypeOK /\ Flags /\ Counted /\ NobodyReads

-----------------------------------------------------------------------------
(* Types *)

LEMMA InitType == Init => TypeOK
<1> SUFFICES ASSUME Init PROVE TypeOK
  OBVIOUS
<1>1. camera_stream = (camera_status = "Running") /\ stop_flag \in BOOLEAN
  BY DEF Init
<1>2. crossed \in BOOLEAN /\ recounted \in BOOLEAN
  BY DEF Init
<1>3. held \in [Generators -> BOOLEAN]
  BY DEF Init
<1>4. failures \in [Generators -> 0 .. MaxFailures - 1]
  BY CamAssumption DEF Init
<1>5. /\ camera_status \in {"Stopped", "Running", "Error"}
      /\ active_generators \in Nat
      /\ camera_lock \in Threads \cup {NoThread}
  BY DEF Init
<1>6. pc \in [Threads -> {"idle", "done"} \cup InStart \cup InStop]
  BY DEF Init
<1>7. gpc \in [Generators -> {"none", "enter", "loop", "look", "read", "yield", "leave"}]
  BY DEF Init
<1> QED
  BY <1>1, <1>2, <1>3, <1>4, <1>5, <1>6, <1>7 DEF TypeOK

\* What a request does: each of its steps keeps the types.
LEMMA RequestType ==
  ASSUME TypeOK, NEW t \in Threads,
         \/ StartRequest(t) \/ start_camera(t)
         \/ StopRequest(t) \/ stop_camera(t) \/ AnswerRequest(t)
  PROVE  TypeOK'
<1> USE DEF TypeOK, InStart, InStop, Goto, gens, history, context
<1>1. CASE StartRequest(t) \/ StopRequest(t) \/ AnswerRequest(t)
  BY <1>1 DEF StartRequest, StopRequest, AnswerRequest
<1>2. CASE ClearFlag(t)
  BY <1>2 DEF ClearFlag, Overlaps
<1>3. CASE ResetCount(t)
  BY <1>3 DEF ResetCount, Live
<1>4. CASE OpenCamera(t)
  BY <1>4 DEF OpenCamera
<1>5. CASE CameraOpened(t)
  BY <1>5 DEF CameraOpened
<1>6. CASE SetFlag(t)
  BY <1>6 DEF SetFlag, Overlaps
<1>7. CASE GeneratorsFinished(t)
  BY <1>7 DEF GeneratorsFinished
<1>8. CASE WaitTimesOut(t)
  BY <1>8 DEF WaitTimesOut, Live
<1>9. CASE ReleaseCamera(t)
  BY <1>9 DEF ReleaseCamera
<1> QED
  BY <1>1, <1>2, <1>3, <1>4, <1>5, <1>6, <1>7, <1>8, <1>9 DEF start_camera, stop_camera

LEMMA GeneratorType ==
  ASSUME TypeOK, NEW g \in Generators, VideoFeed(g) \/ generate_raw_frames(g)
  PROVE  TypeOK'
<1> USE CamAssumption DEF TypeOK, GoGen, history, context
<1>1. CASE VideoFeed(g) \/ CheckFlag(g) \/ LookAtCamera(g) \/ NotOpened(g) \/ Yield(g)
  BY <1>1 DEF VideoFeed, CheckFlag, LookAtCamera, NotOpened, Yield
<1>2. CASE Enter(g) \/ ReadFrame(g)
  BY <1>2 DEF Enter, ReadFrame
<1>3. CASE ReadFails(g)
  BY <1>3 DEF ReadFails
<1>4. CASE Leave(g)
  BY <1>4 DEF Leave, LeaveWith, Live
<1> QED
  BY <1>1, <1>2, <1>3, <1>4 DEF generate_raw_frames

LEMMA StutterType == TypeOK /\ UNCHANGED vars => TypeOK'
  BY DEF TypeOK, vars, context, gens, history

LEMMA NextType == TypeOK /\ [Next]_vars => TypeOK'
  BY RequestType, GeneratorType, StutterType DEF Next

\* Types, and a stream just while the status says that the camera runs.
THEOREM TypeCorrect == Spec => []TypeOK
<1>1. Init => TypeOK
  BY InitType
<1>2. TypeOK /\ [Next]_vars => TypeOK'
  BY NextType
<1> QED
  BY <1>1, <1>2, PTL DEF Spec

-----------------------------------------------------------------------------
(* The flag *)

LEMMA InitFlags == Init => Flags
  BY DEF Init, Flags, FlagUp, FlagDown, ToBeReleased, Stopping

LEMMA GeneratorFrame ==
  ASSUME NEW g \in Generators, VideoFeed(g) \/ generate_raw_frames(g)
  PROVE  UNCHANGED <<camera_status, camera_stream, stop_flag, camera_lock, pc, crossed>>
  BY DEF generate_raw_frames, VideoFeed, Enter, CheckFlag, LookAtCamera, ReadFrame, ReadFails,
         NotOpened, Yield, Leave, LeaveWith, context, history

LEMMA RequestFlags ==
  ASSUME TypeOK, Flags, NEW t \in Threads,
         \/ StartRequest(t) \/ start_camera(t)
         \/ StopRequest(t) \/ stop_camera(t) \/ AnswerRequest(t)
  PROVE  Flags'
<1> USE DEF TypeOK, Flags, FlagUp, FlagDown, ToBeReleased, Goto, context, history,
            Opening, Stopping
<1>1. CASE StartRequest(t) \/ StopRequest(t) \/ AnswerRequest(t)
  BY <1>1 DEF StartRequest, StopRequest, AnswerRequest
<1>2. CASE ClearFlag(t)
  BY <1>2 DEF ClearFlag, Overlaps, InStop
<1>3. CASE ResetCount(t)
  BY <1>3 DEF ResetCount
<1>4. CASE OpenCamera(t)
  BY <1>4 DEF OpenCamera
<1>5. CASE CameraOpened(t)
  BY <1>5 DEF CameraOpened
<1>6. CASE SetFlag(t)
  BY <1>6 DEF SetFlag, Overlaps, InStart
<1>7. CASE GeneratorsFinished(t)
  BY <1>7 DEF GeneratorsFinished
<1>8. CASE WaitTimesOut(t)
  BY <1>8 DEF WaitTimesOut
<1>9. CASE ReleaseCamera(t)
  BY <1>9 DEF ReleaseCamera
<1> QED
  BY <1>1, <1>2, <1>3, <1>4, <1>5, <1>6, <1>7, <1>8, <1>9 DEF start_camera, stop_camera

LEMMA NextFlags == TypeOK /\ Flags /\ [Next]_vars => Flags'
<1> SUFFICES ASSUME TypeOK, Flags, [Next]_vars PROVE Flags'
  OBVIOUS
<1>1. ASSUME UNCHANGED <<camera_status, camera_stream, stop_flag, camera_lock, pc, crossed>>
      PROVE  Flags'
  BY <1>1 DEF Flags, FlagUp, FlagDown, ToBeReleased
<1>2. CASE UNCHANGED vars
  BY <1>1, <1>2 DEF vars, context, history
<1>3. ASSUME NEW g \in Generators, VideoFeed(g) \/ generate_raw_frames(g) PROVE Flags'
  BY <1>1, <1>3, GeneratorFrame
<1> QED
  BY <1>2, <1>3, RequestFlags DEF Next

\* A camera that is said to run sends frames: with no request under way its
\* stop flag is down, unless a start and a stop overlapped.
THEOREM Streaming == Spec => []RunningStreams
<1>1. Init => TypeOK /\ Flags
  BY InitType, InitFlags
<1>2. TypeOK /\ Flags /\ [Next]_vars => (TypeOK /\ Flags)'
  BY NextType, NextFlags
<1>3. TypeOK /\ Flags => RunningStreams
  <2> SUFFICES ASSUME TypeOK, Flags, camera_status = "Running", ~crossed, stop_flag,
                      \A t \in Threads : pc[t] = "idle"
               PROVE  FALSE
    BY DEF RunningStreams
  <2> QED
    BY DEF Flags, ToBeReleased, Stopping
<1> QED
  BY <1>1, <1>2, <1>3, PTL DEF Spec

-----------------------------------------------------------------------------
(* The count of the generators *)

LEMMA LiveIsFinite == IsFiniteSet(Live) /\ Cardinality(Live) \in Nat
<1>1. Live \subseteq Generators
  BY DEF Live
<1>2. IsFiniteSet(Live)
  BY <1>1, CamAssumption, FS_Subset
<1> QED
  BY <1>2, FS_CardinalityType

LEMMA InitCounted == Init => Counted /\ NobodyReads
<1> SUFFICES ASSUME Init PROVE Counted /\ NobodyReads
  OBVIOUS
<1>1. Live = {}
  BY DEF Init, Live
<1>2. Cardinality(Live) = 0
  BY <1>1, FS_EmptySet
<1>3. Counted
  BY <1>2 DEF Init, Counted
<1>4. NobodyReads
  BY DEF Init, NobodyReads
<1> QED
  BY <1>3, <1>4

\* A reset leaves the count right only if it was 0.
LEMMA ResetCounted ==
  ASSUME Counted, active_generators' = 0, recounted' = (recounted \/ Live # {}), UNCHANGED gpc
  PROVE  Counted'
<1>1. Live' = Live
  BY DEF Live
<1>2. Cardinality(Live) \in Nat
  BY LiveIsFinite
<1>3. ~recounted' => Cardinality(Live) = 0
  BY FS_EmptySet
<1> QED
  BY <1>1, <1>2, <1>3 DEF Counted

\* No step of a request but a reset touches the count.
LEMMA RequestFrame ==
  ASSUME NEW t \in Threads,
         \/ StartRequest(t) \/ start_camera(t)
         \/ StopRequest(t) \/ stop_camera(t) \/ AnswerRequest(t)
  PROVE  /\ UNCHANGED gpc
         /\ \/ UNCHANGED <<active_generators, recounted>>
            \/ /\ active_generators' = 0
               /\ recounted' = (recounted \/ Live # {})
  BY DEF StartRequest, start_camera, ClearFlag, ResetCount, OpenCamera, CameraOpened, StopRequest,
         stop_camera, SetFlag, GeneratorsFinished, WaitTimesOut, ReleaseCamera, AnswerRequest,
         context, gens, history

LEMMA GeneratorCounted ==
  ASSUME TypeOK, Counted, NEW g \in Generators, VideoFeed(g) \/ generate_raw_frames(g)
  PROVE  Counted'
<1> USE DEF GoGen
<1>1. CASE Enter(g)
  <2>1. g \notin Live /\ Live' = Live \cup {g}
    BY <1>1 DEF Enter, Live, TypeOK
  <2>2. Cardinality(Live') = Cardinality(Live) + 1
    BY <2>1, LiveIsFinite, FS_AddElement
  <2>3. active_generators' = active_generators + 1 /\ UNCHANGED recounted
    BY <1>1 DEF Enter, history
  <2> QED
    BY <2>2, <2>3, LiveIsFinite DEF Counted, TypeOK
<1>2. CASE Leave(g)
  <2>1. g \in Live /\ Live' = Live \ {g}
    BY <1>2 DEF Leave, LeaveWith, Live, TypeOK
  <2>2. Cardinality(Live') = Cardinality(Live) - 1
    BY <2>1, LiveIsFinite, FS_RemoveElement
  <2>3. /\ active_generators' = IF active_generators > 0 THEN active_generators - 1 ELSE 0
        /\ recounted' = (recounted /\ Live # {g})
    BY <1>2 DEF Leave, LeaveWith
  <2>4. Cardinality(Live) \in Nat /\ active_generators \in Nat
    BY LiveIsFinite DEF TypeOK
  <2>5. Cardinality(Live) > 0
    BY <2>1, LiveIsFinite, FS_EmptySet
  <2>6. Live = {g} => Cardinality(Live) = 1
    BY FS_Singleton
  <2>7. CASE recounted /\ Live # {g}
    <3>1. recounted'
      BY <2>3, <2>7
    <3>2. active_generators' <= Cardinality(Live')
      BY <2>2, <2>3, <2>4, <2>5 DEF Counted
    <3> QED
      BY <3>1, <3>2 DEF Counted
  <2>8. CASE recounted /\ Live = {g}
    BY <2>2, <2>3, <2>4, <2>6, <2>8 DEF Counted
  <2>9. CASE ~recounted
    BY <2>2, <2>3, <2>4, <2>5, <2>9 DEF Counted
  <2> QED
    BY <2>7, <2>8, <2>9
<1>3. CASE VideoFeed(g) \/ CheckFlag(g) \/ LookAtCamera(g) \/ ReadFrame(g) \/ ReadFails(g)
           \/ NotOpened(g) \/ Yield(g)
  <2>1. Live' = Live
    BY <1>3 DEF VideoFeed, CheckFlag, LookAtCamera, ReadFrame, ReadFails, NotOpened, Yield,
                Live, TypeOK
  <2>2. UNCHANGED <<active_generators, recounted>>
    BY <1>3 DEF VideoFeed, CheckFlag, LookAtCamera, ReadFrame, ReadFails, NotOpened, Yield,
                context, history
  <2> QED
    BY <2>1, <2>2 DEF Counted
<1> QED
  BY <1>1, <1>2, <1>3 DEF generate_raw_frames

LEMMA NextCounted == TypeOK /\ Counted /\ [Next]_vars => Counted'
<1> SUFFICES ASSUME TypeOK, Counted, [Next]_vars PROVE Counted'
  OBVIOUS
<1>1. ASSUME UNCHANGED <<gpc, active_generators, recounted>> PROVE Counted'
  <2>1. Live' = Live
    BY <1>1 DEF Live
  <2> QED
    BY <1>1, <2>1 DEF Counted
<1>2. CASE UNCHANGED vars
  BY <1>1, <1>2 DEF vars, context, gens, history
<1>3. ASSUME NEW t \in Threads,
             \/ StartRequest(t) \/ start_camera(t)
             \/ StopRequest(t) \/ stop_camera(t) \/ AnswerRequest(t)
      PROVE  Counted'
  BY <1>1, <1>3, RequestFrame, ResetCounted
<1> QED
  BY <1>2, <1>3, GeneratorCounted DEF Next

-----------------------------------------------------------------------------
(* The release *)

\* Before the wait ends no generator lives, or the count was not right.
LEMMA RequestReads ==
  ASSUME IInv, NEW t \in Threads,
         \/ StartRequest(t) \/ start_camera(t)
         \/ StopRequest(t) \/ stop_camera(t) \/ AnswerRequest(t)
  PROVE  NobodyReads'
<1> USE DEF Goto, context, gens, history
<1>1. ASSUME Live = {}, UNCHANGED gpc PROVE NobodyReads'
  BY <1>1 DEF NobodyReads, Live, Reading
<1>2. CASE StartRequest(t) \/ StopRequest(t) \/ AnswerRequest(t)
  BY <1>2 DEF StartRequest, StopRequest, AnswerRequest, NobodyReads, IInv, TypeOK
<1>3. CASE ClearFlag(t)
  BY <1>3 DEF ClearFlag, Overlaps, InStop, NobodyReads, IInv, TypeOK
<1>4. CASE ResetCount(t)
  BY <1>4 DEF ResetCount, NobodyReads, IInv, TypeOK
<1>5. CASE OpenCamera(t) \/ CameraOpened(t)
  BY <1>5 DEF OpenCamera, CameraOpened, NobodyReads, IInv, TypeOK
<1>6. CASE SetFlag(t)
  BY <1>6 DEF SetFlag, Overlaps, InStop, NobodyReads, IInv, TypeOK
<1>7. CASE GeneratorsFinished(t)
  <2>1. CASE recounted
    BY <1>7, <2>1 DEF GeneratorsFinished, NobodyReads
  <2>2. CASE ~recounted
    <3>1. Cardinality(Live) = 0
      BY <1>7, <2>2 DEF GeneratorsFinished, IInv, Counted
    <3>2. Live = {}
      BY <3>1, LiveIsFinite, FS_EmptySet
    <3> QED
      BY <1>1, <1>7, <3>2 DEF GeneratorsFinished
  <2> QED
    BY <2>1, <2>2
<1>8. CASE WaitTimesOut(t)
  <2>1. recounted' \/ Live = {}
    BY <1>8 DEF WaitTimesOut
  <2>2. UNCHANGED gpc
    BY <1>8 DEF WaitTimesOut
  <2> QED
    BY <1>1, <2>1, <2>2 DEF NobodyReads
<1>9. CASE ReleaseCamera(t)
  BY <1>9 DEF ReleaseCamera, NobodyReads, IInv, TypeOK
<1> QED
  BY <1>2, <1>3, <1>4, <1>5, <1>6, <1>7, <1>8, <1>9 DEF start_camera, stop_camera

LEMMA GeneratorReads ==
  ASSUME IInv, NEW g \in Generators, VideoFeed(g) \/ generate_raw_frames(g)
  PROVE  NobodyReads'
<1> USE DEF GoGen, NobodyReads, Reading, IInv, TypeOK, context, history
<1>1. UNCHANGED <<pc, crossed, stop_flag>>
  BY GeneratorFrame
<1>2. CASE VideoFeed(g) \/ Enter(g)
  BY <1>1, <1>2 DEF VideoFeed, Enter
<1>3. CASE CheckFlag(g)
  BY <1>1, <1>3 DEF CheckFlag, Flags, FlagUp, Stopping
<1>4. CASE LookAtCamera(g) \/ ReadFrame(g) \/ ReadFails(g) \/ NotOpened(g) \/ Yield(g)
  BY <1>1, <1>4 DEF LookAtCamera, ReadFrame, ReadFails, NotOpened, Yield
<1>5. CASE Leave(g)
  <2>1. CASE recounted /\ Live = {g}
    <3>1. \A h \in Generators \ {g} : gpc[h] \in {"none", "enter"}
      BY <2>1 DEF Live
    <3> QED
      BY <1>5, <3>1 DEF Leave, LeaveWith
  <2>2. CASE ~(recounted /\ Live = {g})
    BY <1>1, <1>5, <2>2 DEF Leave, LeaveWith
  <2> QED
    BY <2>1, <2>2
<1> QED
  BY <1>2, <1>3, <1>4, <1>5 DEF generate_raw_frames

LEMMA Inductive == IInv /\ [Next]_vars => IInv'
<1> SUFFICES ASSUME IInv, [Next]_vars PROVE IInv'
  OBVIOUS
<1>1. TypeOK' /\ Flags' /\ Counted'
  BY NextType, NextFlags, NextCounted DEF IInv
<1>2. NobodyReads'
  <2>1. CASE UNCHANGED vars
    BY <2>1 DEF IInv, NobodyReads, vars, context, gens, history
  <2> QED
    BY <2>1, RequestReads, GeneratorReads DEF Next
<1> QED
  BY <1>1, <1>2 DEF IInv

\* The device is not released under a generator that reads from it, unless the
\* count had been reset under live generators or a start overlapped the stop.
THEOREM SafeRelease == Spec => ReleasedIdle
<1>1. Init => IInv
  BY InitType, InitFlags, InitCounted DEF IInv
<1>2. Spec => []IInv
  BY <1>1, Inductive, PTL DEF Spec
<1>3. IInv /\ [Next]_vars =>
        [\A t \in Threads :
           camera_stream /\ ~camera_stream' /\ pc[t] = "release" /\ pc'[t] = "done"
             => \/ recounted \/ crossed
                \/ \A g \in Generators : gpc[g] # "read"]_vars
  BY DEF IInv, NobodyReads, Reading
<1> QED
  BY <1>2, <1>3, PTL DEF Spec, ReleasedIdle

-----------------------------------------------------------------------------
(* The refinement of CameraSwitch *)

LEMMA InitLocked == Init => Locked
  BY DEF Init, Locked

LEMMA NextLocked == TypeOK /\ Locked /\ [Next]_vars => Locked'
<1> SUFFICES ASSUME TypeOK, Locked, [Next]_vars PROVE Locked'
  OBVIOUS
<1> USE CamAssumption DEF Locked, TypeOK, context, gens, history, Goto
<1>1. CASE UNCHANGED vars
  BY <1>1 DEF vars
<1>2. ASSUME NEW g \in Generators, VideoFeed(g) \/ generate_raw_frames(g) PROVE Locked'
  BY <1>2, GeneratorFrame
<1>3. ASSUME NEW t \in Threads, StartRequest(t) \/ StopRequest(t) \/ AnswerRequest(t)
      PROVE  Locked'
  BY <1>3 DEF StartRequest, StopRequest, AnswerRequest
<1>4. ASSUME NEW t \in Threads, start_camera(t) PROVE Locked'
  <2>1. CASE ClearFlag(t) \/ ResetCount(t)
    BY <2>1 DEF ClearFlag, ResetCount
  <2>2. CASE OpenCamera(t)
    BY <2>2 DEF OpenCamera
  <2>3. CASE CameraOpened(t)
    BY <2>3 DEF CameraOpened
  <2> QED
    BY <1>4, <2>1, <2>2, <2>3 DEF start_camera
<1>5. ASSUME NEW t \in Threads, stop_camera(t) PROVE Locked'
  <2>1. CASE SetFlag(t) \/ GeneratorsFinished(t) \/ WaitTimesOut(t)
    BY <2>1 DEF SetFlag, GeneratorsFinished, WaitTimesOut
  <2>2. CASE ReleaseCamera(t)
    BY <2>2 DEF ReleaseCamera
  <2> QED
    BY <1>5, <2>1, <2>2 DEF stop_camera
<1> QED
  BY <1>1, <1>2, <1>3, <1>4, <1>5 DEF Next

Requests == [t \in Threads |-> Pending(t)]

\* A step of a request is a step of CameraSwitch or changes nothing of it.
LEMMA RequestSwitches ==
  ASSUME TypeOK, Locked, NEW t \in Threads,
         \/ StartRequest(t) \/ start_camera(t)
         \/ StopRequest(t) \/ stop_camera(t) \/ AnswerRequest(t)
  PROVE  Switch!Next \/ UNCHANGED <<camera_status, Requests>>
<1> DEFINE Moves(r) == Requests' = [Requests EXCEPT ![t] = r]
<1> USE DEF TypeOK, Requests, Pending, InStart, InStop, Goto, context, gens, history
<1>1. CASE StartRequest(t)
  <2>1. Requests[t] = "none" /\ Moves("start") /\ UNCHANGED camera_status
    BY <1>1 DEF StartRequest
  <2> QED
    BY <2>1 DEF Switch!Next, Switch!Ask, Switch!Kinds
<1>2. CASE StopRequest(t)
  <2>1. Requests[t] = "none" /\ Moves("stop") /\ UNCHANGED camera_status
    BY <1>2 DEF StopRequest
  <2> QED
    BY <2>1 DEF Switch!Next, Switch!Ask, Switch!Kinds
<1>3. CASE AnswerRequest(t)
  <2>1. Requests[t] = "done" /\ Moves("none") /\ UNCHANGED camera_status
    BY <1>3 DEF AnswerRequest
  <2> QED
    BY <2>1 DEF Switch!Next, Switch!Answer
<1>4. CASE ClearFlag(t) \/ ResetCount(t)
  BY <1>4 DEF ClearFlag, ResetCount
<1>5. CASE SetFlag(t) \/ GeneratorsFinished(t) \/ WaitTimesOut(t)
  BY <1>5 DEF SetFlag, GeneratorsFinished, WaitTimesOut
<1>6. CASE OpenCamera(t) /\ ~camera_stream
  BY <1>6 DEF OpenCamera
<1>7. CASE OpenCamera(t) /\ camera_stream
  <2>1. Requests[t] = "start" /\ Moves("done")
    BY <1>7 DEF OpenCamera
  <2>2. camera_status = "Running" /\ UNCHANGED camera_status
    BY <1>7 DEF OpenCamera
  <2> QED
    BY <2>1, <2>2 DEF Switch!Next, Switch!TakeEffect, Switch!Kinds, Switch!After
<1>8. CASE CameraOpened(t)
  <2>1. Requests[t] = "start" /\ Moves("done")
    BY <1>8 DEF CameraOpened
  <2>2. camera_status # "Running" /\ camera_status' \in {"Running", "Error"}
    BY <1>8 DEF CameraOpened, Locked
  <2> QED
    BY <2>1, <2>2 DEF Switch!Next, Switch!TakeEffect, Switch!Kinds, Switch!After
<1>9. CASE ReleaseCamera(t)
  <2>1. Requests[t] = "stop" /\ Moves("done")
    BY <1>9 DEF ReleaseCamera
  <2>2. camera_status' = IF camera_status = "Running" THEN "Stopped" ELSE camera_status
    BY <1>9 DEF ReleaseCamera
  <2> QED
    BY <2>1, <2>2 DEF Switch!Next, Switch!TakeEffect, Switch!Kinds, Switch!After
<1> QED
  BY <1>1, <1>2, <1>3, <1>4, <1>5, <1>6, <1>7, <1>8, <1>9 DEF start_camera, stop_camera

\* Seen from the routes, starts and stops are what CameraSwitch promises: each
\* takes effect once, at one moment between its arrival and its answer.
THEOREM ImplementsSwitch == Spec => IsSwitch
<1>1. Init => TypeOK /\ Locked /\ Switch!Init
  <2>1. Init => Switch!Init
    BY DEF Init, Switch!Init, Pending, InStart, InStop
  <2> QED
    BY <2>1, InitType, InitLocked
<1>2. TypeOK /\ Locked /\ [Next]_vars => (TypeOK /\ Locked)'
  BY NextType, NextLocked
<1>3. TypeOK /\ Locked /\ [Next]_vars => [Switch!Next]_<<camera_status, Requests>>
  <2> SUFFICES ASSUME TypeOK, Locked, [Next]_vars
               PROVE  Switch!Next \/ UNCHANGED <<camera_status, Requests>>
    OBVIOUS
  <2>1. CASE UNCHANGED vars
    BY <2>1 DEF vars, context, Requests, Pending
  <2>2. ASSUME NEW g \in Generators, VideoFeed(g) \/ generate_raw_frames(g)
        PROVE  UNCHANGED <<camera_status, Requests>>
    <3>1. UNCHANGED <<camera_status, pc>>
      BY <2>2, GeneratorFrame
    <3> QED
      BY <3>1 DEF Requests, Pending, InStart, InStop
  <2> QED
    BY <2>1, <2>2, RequestSwitches DEF Next
<1> QED
  BY <1>1, <1>2, <1>3, PTL DEF Spec, IsSwitch, Switch!Spec, Requests

=============================================================================
