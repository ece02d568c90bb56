---------------------------- MODULE CamInterface ----------------------------
(***************************************************************************)
(* One camera of kt_viz (camInterface.py) and the threads of the Flask     *)
(* server that use it. Each request for a start or a stop has a thread of  *)
(* its own, and so has each connection that is sent the video: its         *)
(* generator reads frames until the stop flag is set, the camera does not  *)
(* run, too many reads fail in a row, or the browser goes away.            *)
(*                                                                         *)
(* A stop sets the flag, waits until active_generators is 0, at most two   *)
(* seconds, and releases the device under camera_lock. Generators read     *)
(* outside the lock. A start clears the flag and the count before it takes *)
(* the lock, half a second later.                                          *)
(***************************************************************************)
EXTENDS Integers, FiniteSets

CONSTANTS
  Threads,        \* threads that serve a request for a start or a stop
  Generators,     \* connections that can be sent the video at a time
  MaxFailures,    \* max_consecutive_failures
  NoThread        \* nobody holds camera_lock

ASSUME CamAssumption ==
  /\ NoThread \notin Threads
  /\ MaxFailures \in Nat \ {0}
  /\ IsFiniteSet(Generators)

VARIABLES
  camera_status, camera_stream, stop_flag, active_generators,
                  \* the fields of camera_data_context; camera_stream tells
                  \* whether there is one
  camera_lock,    \* the thread that opens the camera under the lock
  pc,             \* [Threads -> place in start_camera or stop_camera]
  gpc,            \* [Generators -> place in generate_raw_frames]
  held,           \* [Generators -> is the stream it has the open one?]
  failures,       \* [Generators -> consecutive_failures]
  crossed,        \* history: did a start and a stop overlap since a request
                  \* last had the camera for itself?
  recounted       \* history: was the count reset under generators of which
                  \* some live?

context == <<camera_status, camera_stream, stop_flag, active_generators, camera_lock>>
gens    == <<gpc, held, failures>>
history == <<crossed, recounted>>
vars    == <<context, pc, gens, history>>

InStart == {"clear", "reset", "open", "opening"}
InStop  == {"set", "wait", "release"}
Live    == {g \in Generators : gpc[g] \notin {"none", "enter"}}

Goto(t, place) == pc' = [pc EXCEPT ![t] = place]

Overlaps(t, other) ==
  \/ \E u \in Threads : pc[u] \in other
  \/ crossed /\ \E u \in Threads \ {t} : pc[u] \in InStart \cup InStop

-----------------------------------------------------------------------------
(* start_camera *)

StartRequest(t) == pc[t] = "idle" /\ Goto(t, "clear") /\ UNCHANGED <<context, gens, history>>

\* the flag of an earlier stop stays set
ClearFlag_forgotten(t) ==
  /\ pc[t] = "clear"
  /\ crossed' = Overlaps(t, InStop)
  /\ Goto(t, "reset")
  /\ UNCHANGED <<context, gens, recounted>>

ClearFlag(t) ==
  /\ pc[t] = "clear"
  /\ stop_flag' = FALSE
  /\ crossed' = Overlaps(t, InStop)
  /\ Goto(t, "reset")
  /\ UNCHANGED <<camera_status, camera_stream, active_generators, camera_lock, gens,
                 recounted>>

ResetCount(t) ==
  /\ pc[t] = "reset"
  /\ active_generators' = 0
  /\ recounted' = (recounted \/ Live # {})
  /\ Goto(t, "open")
  /\ UNCHANGED <<camera_status, camera_stream, stop_flag, camera_lock, gens, crossed>>

\* A camera that has a stream is left alone
OpenCamera(t) ==
  /\ pc[t] = "open" /\ camera_lock = NoThread
  /\ IF camera_stream
     THEN Goto(t, "done") /\ UNCHANGED camera_lock
     ELSE Goto(t, "opening") /\ camera_lock' = t
  /\ UNCHANGED <<camera_status, camera_stream, stop_flag, active_generators, gens, history>>

\* VideoCapture() opens the device or does not, which is no error of the request
CameraOpened(t) ==
  /\ pc[t] = "opening"
  /\ \E opened \in BOOLEAN :
       /\ camera_stream' = opened
       /\ camera_status' = IF opened THEN "Running" ELSE "Error"
  /\ camera_lock' = NoThread
  /\ Goto(t, "done")
  /\ UNCHANGED <<stop_flag, active_generators, gens, history>>

-----------------------------------------------------------------------------
(* stop_camera *)

StopRequest(t) == pc[t] = "idle" /\ Goto(t, "set") /\ UNCHANGED <<context, gens, history>>

SetFlag(t) ==
  /\ pc[t] = "set"
  /\ stop_flag' = TRUE
  /\ crossed' = Overlaps(t, InStart)
  /\ Goto(t, "wait")
  /\ UNCHANGED <<camera_status, camera_stream, active_generators, camera_lock, gens, recounted>>

\* the generators are not waited for
GeneratorsFinished_unchecked(t) ==
  /\ pc[t] = "wait"
  /\ Goto(t, "release")
  /\ UNCHANGED <<context, gens, history>>

GeneratorsFinished(t) ==
  /\ pc[t] = "wait" /\ active_generators = 0
  /\ Goto(t, "release")
  /\ UNCHANGED <<context, gens, history>>

WaitTimesOut(t) ==
  /\ pc[t] = "wait" /\ active_generators > 0
  /\ active_generators' = 0
  /\ recounted' = (recounted \/ Live # {})
  /\ Goto(t, "release")
  /\ UNCHANGED <<camera_status, camera_stream, stop_flag, camera_lock, gens, crossed>>

\* the status is written whether there was a stream or not
ReleaseCamera_unconditional(t) ==
  /\ pc[t] = "release" /\ camera_lock = NoThread
  /\ camera_stream' = FALSE
  /\ camera_status' = "Stopped"
  /\ held' = [g \in Generators |-> FALSE]
  /\ Goto(t, "done")
  /\ UNCHANGED <<stop_flag, active_generators, camera_lock, gpc, failures, history>>

ReleaseCamera(t) ==
  /\ pc[t] = "release" /\ camera_lock = NoThread
  /\ IF camera_stream
     THEN /\ camera_stream' = FALSE
          /\ camera_status' = "Stopped"
          /\ held' = [g \in Generators |-> FALSE]
     ELSE UNCHANGED <<camera_stream, camera_status, held>>
  /\ Goto(t, "done")
  /\ UNCHANGED <<stop_flag, active_generators, camera_lock, gpc, failures, history>>

\* The route answers, whatever the result was
AnswerRequest(t) == pc[t] = "done" /\ Goto(t, "idle") /\ UNCHANGED <<context, gens, history>>

-----------------------------------------------------------------------------
(* generate_raw_frames, for a connection of video_feed_clnx *)

GoGen(g, place) == gpc' = [gpc EXCEPT ![g] = place]

\* The route looks at the status; the generator starts after it has returned
VideoFeed(g) ==
  /\ gpc[g] = "none" /\ camera_status = "Running"
  /\ GoGen(g, "enter")
  /\ UNCHANGED <<context, pc, held, failures, history>>

Enter(g) ==
  /\ gpc[g] = "enter"
  /\ active_generators' = active_generators + 1
  /\ failures' = [failures EXCEPT ![g] = 0]
  /\ GoGen(g, "loop")
  /\ UNCHANGED <<camera_status, camera_stream, stop_flag, camera_lock, pc, held, history>>

CheckFlag(g) ==
  /\ gpc[g] = "loop"
  /\ GoGen(g, IF stop_flag THEN "leave" ELSE "look")
  /\ UNCHANGED <<context, pc, held, failures, history>>

\* a camera that does not run is waited for
LookAtCamera_waits(g) ==
  /\ gpc[g] = "look" /\ camera_lock = NoThread
  /\ IF camera_status = "Running" /\ camera_stream
     THEN GoGen(g, "read") /\ held' = [held EXCEPT ![g] = TRUE]
     ELSE GoGen(g, "loop") /\ UNCHANGED held
  /\ UNCHANGED <<context, pc, failures, history>>

LookAtCamera(g) ==
  /\ gpc[g] = "look" /\ camera_lock = NoThread
  /\ IF camera_status = "Running" /\ camera_stream
     THEN GoGen(g, "read") /\ held' = [held EXCEPT ![g] = TRUE]
     ELSE GoGen(g, "leave") /\ UNCHANGED held
  /\ UNCHANGED <<context, pc, failures, history>>

ReadFrame(g) ==
  /\ gpc[g] = "read" /\ held[g]
  /\ failures' = [failures EXCEPT ![g] = 0]
  /\ GoGen(g, "yield")
  /\ UNCHANGED <<context, pc, held, history>>

\* The read fails, which a stream that was released does if it is not found
\* closed before
ReadFails(g) ==
  /\ gpc[g] = "read"
  /\ IF failures[g] + 1 >= MaxFailures
     THEN GoGen(g, "leave") /\ UNCHANGED failures
     ELSE GoGen(g, "loop") /\ failures' = [failures EXCEPT ![g] = @ + 1]
  /\ UNCHANGED <<context, pc, held, history>>

NotOpened(g) ==
  /\ gpc[g] = "read" /\ ~held[g]
  /\ GoGen(g, "leave")
  /\ UNCHANGED <<context, pc, held, failures, history>>

\* The frame is taken, or the browser has gone and the generator is closed
Yield(g) ==
  /\ gpc[g] = "yield"
  /\ GoGen(g, "loop") \/ GoGen(g, "leave")
  /\ UNCHANGED <<context, pc, held, failures, history>>

LeaveWith(g, count) ==
  /\ gpc[g] = "leave"
  /\ active_generators' = count
  /\ recounted' = (recounted /\ Live # {g})
  /\ held' = [held EXCEPT ![g] = FALSE]
  /\ GoGen(g, "none")
  /\ UNCHANGED <<camera_status, camera_stream, stop_flag, camera_lock, pc, failures, crossed>>

\* the count is not kept from going below 0
Leave_below(g) == LeaveWith(g, active_generators - 1)

Leave(g) == LeaveWith(g, IF active_generators > 0 THEN active_generators - 1 ELSE 0)

-----------------------------------------------------------------------------

Init ==
  /\ camera_status = "Stopped" /\ camera_stream = FALSE
  /\ stop_flag = FALSE /\ active_generators = 0
  /\ camera_lock = NoThread
  /\ pc = [t \in Threads |-> "idle"]
  /\ gpc = [g \in Generators |-> "none"]
  /\ held = [g \in Generators |-> FALSE]
  /\ failures = [g \in Generators |-> 0]
  /\ crossed = FALSE /\ recounted = FALSE

start_camera(t) == ClearFlag(t) \/ ResetCount(t) \/ OpenCamera(t) \/ CameraOpened(t)
stop_camera(t) ==
  SetFlag(t) \/ GeneratorsFinished(t) \/ WaitTimesOut(t) \/ ReleaseCamera(t)
generate_raw_frames(g) ==
  \/ Enter(g) \/ CheckFlag(g) \/ LookAtCamera(g)
  \/ ReadFrame(g) \/ ReadFails(g) \/ NotOpened(g) \/ Yield(g) \/ Leave(g)

Next ==
  \/ \E t \in Threads : \/ StartRequest(t) \/ start_camera(t)
                        \/ StopRequest(t) \/ stop_camera(t) \/ AnswerRequest(t)
  \/ \E g \in Generators : VideoFeed(g) \/ generate_raw_frames(g)

\* A generator's thread is scheduled, a read returns and the browser takes or
\* drops the connection. Nobody need ask for anything.
Fairness == \A g \in Generators : WF_vars(generate_raw_frames(g))

Spec == Init /\ [][Next]_vars /\ Fairness

-----------------------------------------------------------------------------
(* Properties *)

\* Types; there is a stream exactly while the status says so.
TypeOK ==
  /\ camera_status \in {"Stopped", "Running", "Error"}
  /\ camera_stream = (camera_status = "Running")
  /\ stop_flag \in BOOLEAN
  /\ active_generators \in Nat
  /\ camera_lock \in Threads \cup {NoThread}
  /\ pc \in [Threads -> {"idle", "done"} \cup InStart \cup InStop]
  /\ gpc \in [Generators -> {"none", "enter", "loop", "look", "read", "yield", "leave"}]
  /\ held \in [Generators -> BOOLEAN]
  /\ failures \in [Generators -> 0 .. MaxFailures - 1]
  /\ crossed \in BOOLEAN /\ recounted \in BOOLEAN

\* "Signals generators to exit, waits for completion, then releases camera
\* hardware" (camInterface.py:433): the device is not released under a
\* generator that reads from it, unless the count of live generators had been
\* reset, by a start or by a wait that timed out, or a start overlapped the stop.
ReleasedIdle ==
  [][\A t \in Threads :
       camera_stream /\ ~camera_stream' /\ pc[t] = "release" /\ pc'[t] = "done"
         => \/ recounted \/ crossed
            \/ \A g \in Generators : gpc[g] # "read"]_vars

\* A camera that is said to run sends frames: with no request under way its
\* stop flag is down, unless a start and a stop overlapped.
RunningStreams ==
  camera_status = "Running" /\ (\A t \in Threads : pc[t] = "idle") /\ ~crossed => ~stop_flag

\* Seen from the routes, starts and stops are what CameraSwitch promises.
Pending(t) ==
  CASE pc[t] = "idle"    -> "none"
    [] pc[t] = "done"    -> "done"
    [] pc[t] \in InStart -> "start"
    [] pc[t] \in InStop  -> "stop"

Switch == INSTANCE CameraSwitch WITH
  status <- camera_status, request <- [t \in Threads |-> Pending(t)]

IsSwitch == Switch!Spec

\* A camera that has stopped or failed leaves no generator behind, unless it
\* runs again or is being opened again.
GeneratorsEnd ==
  \A g \in Generators :
    (g \in Live /\ camera_status # "Running")
      ~> (g \notin Live \/ camera_status = "Running" \/ camera_lock # NoThread)

=============================================================================
