----------------------------- MODULE StreamPage -----------------------------
(***************************************************************************)
(* The live stream of the kt_viz page (script.js): the two buttons, the    *)
(* img that shows the video and the message in its place, and the requests *)
(* that keep them in line with the camera of the server.                   *)
(*                                                                         *)
(* A click starts a chain: the request for a start or a stop and, after a  *)
(* start, 300 ms and a request for the status. So does a page that is      *)
(* loaded, once it has asked for its configuration. Every chain has a      *)
(* thread of the server. Handlers of the page run to their end; between    *)
(* them answers come in any order, requests fail, and the page can be      *)
(* loaded again while the server is busy with the requests of the old one. *)
(***************************************************************************)
CONSTANT Threads        \* the server's threads, one for each chain of requests

VARIABLES
  \* the server
  status, request,      \* the camera, see CameraSwitch
  found,                \* USB_CAMERA_ID is one of available_cameras
  \* the page
  chain,                \* [Threads -> what a chain waits for]
  reply,                \* [Threads -> the answer on its way to it]
  running,              \* streamRunningState.clnx; Start is hidden iff it is
                        \* TRUE, Stop iff it is FALSE
  video, message,       \* are #clnx-video and .camera-stopped-msg displayed?
  feed,                 \* the connection of the img's src
  \* histories
  before,               \* [Threads -> the chains with an answer on its way that
                        \* the server gave before the one to this chain]
  lost,                 \* a request failed, or its page was left, since a
                        \* click on a page at rest
  overtaken             \* an answer came before one the server gave earlier,
                        \* since then

server  == <<status, request, found>>
view    == <<running, video, message, feed>>
history == <<lost, overtaken>>
vars    == <<server, chain, reply, before, view, history>>

Switch == INSTANCE CameraSwitch

AtRest == \A t \in Threads : chain[t] = "none" /\ request[t] = "none"
Free(t) == chain[t] = "none" /\ request[t] = "none"

-----------------------------------------------------------------------------
(* What handlers do with the elements of the page *)

showStream == video' = TRUE /\ message' = FALSE

\* the img keeps its src
showStoppedMsg_connected ==
  /\ feed' = feed /\ video' = FALSE
  /\ message' = TRUE

showStoppedMsg ==
  /\ feed' = "none" /\ video' = FALSE
  /\ message' = TRUE

showCameraError ==
  /\ video' = FALSE
  /\ message' = TRUE
  /\ UNCHANGED feed

setStreamButtonsState(isRunning) == running' = isRunning

-----------------------------------------------------------------------------
(* The server: camera_control, camera_status, video_feed_clnx *)

OnItsWay == {t \in Threads : reply[t] # "none"}

Give(t, answer) ==
  /\ reply' = [reply EXCEPT ![t] = answer]
  /\ before' = [before EXCEPT ![t] = OnItsWay]

\* The answer to t, if there is one, is on its way no more
Drop(t) ==
  /\ reply' = [reply EXCEPT ![t] = "none"]
  /\ before' = [u \in Threads |-> IF u = t THEN {} ELSE before[u] \ {t}]

NoAnswers ==
  /\ reply' = [t \in Threads |-> "none"]
  /\ before' = [t \in Threads |-> {}]

\* An answer for a page that is gone is not taken by anybody
GiveToPage(t, answer) ==
  IF chain[t] = "none" THEN UNCHANGED <<reply, before>> ELSE Give(t, answer)

\* camera_control does what it was asked for, whatever comes of it
camera_control(t) ==
  /\ found \/ request[t] = "stop"
  /\ Switch!TakeEffect(t)
  /\ GiveToPage(t, "success")
  /\ UNCHANGED <<found, chain, view, history>>

\* start_camera raises: it has no camera, or failed to open it
camera_control_raises(t) ==
  /\ request[t] = "start"
  /\ request' = [request EXCEPT ![t] = "done"]
  /\ GiveToPage(t, "error")
  /\ lost' = TRUE
  /\ UNCHANGED <<status, found, chain, view, overtaken>>

EndOrphan(t) ==
  /\ chain[t] = "none" /\ Switch!Answer(t)
  /\ UNCHANGED <<found, chain, reply, before, view, history>>

camera_status(t) ==
  /\ chain[t] = "status" /\ reply[t] = "none"
  /\ Give(t, IF found THEN status ELSE "No Camera Found")
  /\ UNCHANGED <<server, chain, view, history>>

\* A connection is sent the video if the camera runs, and otherwise nothing
video_feed_clnx ==
  /\ feed = "asked"
  /\ feed' = IF status = "Running" THEN "open" ELSE "ended"
  /\ UNCHANGED <<server, chain, reply, before, running, video, message, history>>

\* Its generator leaves, see CamInterface; the img keeps the last frame
GeneratorLeaves ==
  /\ feed = "open"
  /\ feed' = "ended"
  /\ UNCHANGED <<server, chain, reply, before, running, video, message, history>>

-----------------------------------------------------------------------------
(* Clicks *)

\* Whatever went wrong before, a click on a page at rest sets out anew
Begin(t, action) ==
  /\ chain' = [chain EXCEPT ![t] = action]
  /\ IF AtRest
     THEN lost' = FALSE /\ overtaken' = FALSE
     ELSE UNCHANGED history

controlCamera(t, action) ==
  /\ Free(t)
  /\ Switch!Ask(t, action)
  /\ Begin(t, action)
  /\ UNCHANGED <<found, reply, before, view>>

\* Before there is a configuration nobody listens to the buttons
Listening == \A t \in Threads : chain[t] # "config"

\* A button that is hidden cannot be clicked
ClickStart(t) == Listening /\ ~running /\ controlCamera(t, "start")
ClickStop(t)  == Listening /\ running /\ controlCamera(t, "stop")

\* The configuration has come, or will not and the defaults are used: the page
\* starts the camera, whatever the one before it was about
ConfigLoaded(t) ==
  /\ chain[t] = "config"
  /\ Switch!Ask(t, "start")
  /\ chain' = [chain EXCEPT ![t] = "start"]
  /\ UNCHANGED <<found, reply, before, view, history>>

-----------------------------------------------------------------------------
(* Answers *)

\* The answers that change the buttons
Telling(t) == chain[t] \in {"stop", "status"}

\* The answer to the chain t reaches the page
Take(t) ==
  /\ t \in OnItsWay
  /\ Drop(t)
  /\ overtaken' = (overtaken \/ (Telling(t) /\ \E u \in before[t] : Telling(u)))

GoOn(t, next) == chain' = [chain EXCEPT ![t] = next]

\* the buttons follow the start at once, whatever came of it
StartAnswered_trusting(t) ==
  /\ chain[t] = "start" /\ reply[t] = "success"
  /\ Take(t) /\ Switch!Answer(t)
  /\ GoOn(t, "none")
  /\ setStreamButtonsState(TRUE) /\ showStream /\ feed' = "asked"
  /\ UNCHANGED <<found, lost>>

\* The status is asked for 300 ms later
StartAnswered(t) ==
  /\ chain[t] = "start" /\ reply[t] = "success"
  /\ Take(t) /\ Switch!Answer(t)
  /\ GoOn(t, "timer")
  /\ UNCHANGED <<found, view, lost>>

StopAnswered(t) ==
  /\ chain[t] = "stop" /\ reply[t] = "success"
  /\ Take(t) /\ Switch!Answer(t)
  /\ GoOn(t, "none")
  /\ showStoppedMsg /\ setStreamButtonsState(FALSE)
  /\ UNCHANGED <<found, lost>>

ControlRefused(t) ==
  /\ chain[t] = "start" /\ reply[t] = "error"
  /\ Take(t) /\ Switch!Answer(t)
  /\ GoOn(t, "none")
  /\ showCameraError
  /\ UNCHANGED <<found, running, lost>>

TimerExpires(t) ==
  /\ chain[t] = "timer"
  /\ GoOn(t, "status")
  /\ UNCHANGED <<server, reply, before, view, history>>

updateCameraUI(t) ==
  /\ chain[t] = "status"
  /\ Take(t)
  /\ GoOn(t, "none")
  /\ CASE reply[t] = "No Camera Found" -> showCameraError
       [] reply[t] = "Running" -> feed' = "asked" /\ showStream
       [] OTHER -> showStoppedMsg
  /\ setStreamButtonsState(reply[t] = "Running")
  /\ UNCHANGED <<server, lost>>

\* the error is shown, and the answer that comes after all is taken, too
FetchFails_late(t) ==
  /\ chain[t] \in {"start", "stop", "status"}
  /\ GoOn(t, "none")
  /\ lost' = TRUE
  /\ showCameraError
  /\ UNCHANGED <<server, reply, before, running, overtaken>>

\* The network fails before or after the server has done what it was asked
\* for. A status that cannot be read is only logged.
FetchFails(t) ==
  /\ chain[t] \in {"start", "stop", "status"}
  /\ GoOn(t, "none")
  /\ Drop(t)
  /\ lost' = TRUE
  /\ IF chain[t] = "status"
     THEN UNCHANGED <<video, message, feed>>
     ELSE showCameraError
  /\ UNCHANGED <<server, running, overtaken>>

-----------------------------------------------------------------------------
(* The page is loaded, and the server is started again *)

\* The elements as index.html and style.css have them
FreshView ==
  /\ running' = FALSE /\ video' = FALSE /\ message' = FALSE
  /\ feed' = "none"

\* kt_viz ends and is started again, with the camera plugged in or not
Restart ==
  /\ status' = "Stopped" /\ found' \in BOOLEAN
  /\ request' = [t \in Threads |-> "none"]
  /\ NoAnswers
  /\ feed' = IF feed = "none" THEN "none" ELSE "ended"
  /\ lost' = TRUE
  /\ UNCHANGED <<chain, running, video, message, overtaken>>

\* Nobody takes the answers to the page that is left
Reload(t) ==
  /\ Free(t)
  /\ chain' = [u \in Threads |-> IF u = t THEN "config" ELSE "none"]
  /\ NoAnswers
  /\ lost' = ~AtRest /\ overtaken' = FALSE
  /\ FreshView
  /\ UNCHANGED server

Init ==
  /\ status = "Stopped" /\ found \in BOOLEAN
  /\ request = [t \in Threads |-> "none"]
  /\ \E t \in Threads : chain = [u \in Threads |-> IF u = t THEN "config" ELSE "none"]
  /\ reply = [t \in Threads |-> "none"]
  /\ before = [t \in Threads |-> {}]
  /\ running = FALSE /\ video = FALSE /\ message = FALSE
  /\ feed = "none"
  /\ lost = FALSE /\ overtaken = FALSE

Serve(t) ==
  camera_control(t) \/ camera_control_raises(t) \/ EndOrphan(t) \/ camera_status(t)

Handle(t) ==
  \/ ConfigLoaded(t) \/ StartAnswered(t) \/ StopAnswered(t) \/ ControlRefused(t)
  \/ TimerExpires(t) \/ updateCameraUI(t) \/ FetchFails(t)

Next ==
  \/ \E t \in Threads :
       Reload(t) \/ ClickStart(t) \/ ClickStop(t) \/ Serve(t) \/ Handle(t)
  \/ video_feed_clnx \/ GeneratorLeaves \/ Restart

Spec == Init /\ [][Next]_vars

-----------------------------------------------------------------------------
(* Properties *)

\* Types, no answer nobody waits for, and all that are on their way one before
\* the other.
TypeOK ==
  /\ Switch!TypeOK /\ found \in BOOLEAN
  /\ chain \in [Threads -> Switch!Kinds \cup {"none", "config", "timer", "status"}]
  /\ reply \in [Threads -> Switch!Statuses
                            \cup {"none", "success", "error", "No Camera Found"}]
  /\ before \in [Threads -> SUBSET OnItsWay]
  /\ \A t \in Threads \ OnItsWay : before[t] = {}
  /\ \A t, u \in OnItsWay : t # u => (t \in before[u] <=> u \notin before[t])
  /\ \A t \in Threads : t \notin before[t]
  /\ \A t \in Threads : reply[t] # "none" => chain[t] \in Switch!Kinds \cup {"status"}
  /\ {running, video, message, lost, overtaken} \subseteq BOOLEAN
  /\ feed \in {"none", "asked", "open", "ended"}

Settled == AtRest /\ ~lost /\ ~overtaken

\* The page does not poll the camera (checkCameraStatus is not called): what
\* the buttons say is what the last answer said. It is true of the server
\* whenever the page is at rest and, since a click at rest, no request failed
\* and no answer came late. Whatever else went wrong one more click corrects.
ButtonsTruthful == Settled => (running <=> status = "Running")

\* Then the panel agrees with the buttons, too: a video that was asked for
\* while the camera is said to run, or the message and no connection (the
\* comment at script.js:227).
PanelTruthful ==
  Settled =>
    /\ running <=> video
    /\ message <=> ~video
    /\ video <=> feed # "none"

=============================================================================
