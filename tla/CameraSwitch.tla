---------------------------- MODULE CameraSwitch ----------------------------
(***************************************************************************)
(* What the routes of kt_viz promise about a camera that requests start    *)
(* and stop: each request takes effect once, at one moment between its     *)
(* arrival and its answer, and in between the status stays what the last   *)
(* effect made it. CamInterface has the locks and threads that keep this   *)
(* promise, StreamPage is a page that relies on it.                        *)
(***************************************************************************)

CONSTANT Threads        \* the server's threads, each serves one request

VARIABLES
  status,               \* camera_status
  request               \* [Threads -> what the thread has still to do]

Statuses == {"Stopped", "Running", "Error"}
Kinds    == {"start", "stop"}

TypeOK ==
  /\ status \in Statuses
  /\ request \in [Threads -> Kinds \cup {"none", "done"}]

\* The statuses a request can lead to. A camera that runs is left running by
\* a start; one that cannot be opened is in error; a stop finds nothing to do
\* unless the camera runs.
After(kind, s) ==
  CASE kind = "start" /\ s # "Running" -> {"Running", "Error"}
    [] kind = "stop"  /\ s = "Running" -> {"Stopped"}
    [] OTHER                           -> {s}

Init ==
  /\ status = "Stopped"
  /\ request = [t \in Threads |-> "none"]

Ask(t, kind) ==
  /\ request[t] = "none"
  /\ request' = [request EXCEPT ![t] = kind]
  /\ UNCHANGED status

TakeEffect(t) ==
  /\ request[t] \in Kinds
  /\ status' \in After(request[t], status)
  /\ request' = [request EXCEPT ![t] = "done"]

Answer(t) ==
  /\ request[t] = "done"
  /\ request' = [request EXCEPT ![t] = "none"]
  /\ UNCHANGED status

Next == \E t \in Threads : (\E kind \in Kinds : Ask(t, kind)) \/ TakeEffect(t) \/ Answer(t)

Spec == Init /\ [][Next]_<<status, request>>

=============================================================================
