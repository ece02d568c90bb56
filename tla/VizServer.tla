----------------------------- MODULE VizServer ------------------------------
(***************************************************************************)
(* What the threads of the kt_viz server share besides the camera: the     *)
(* boxes that are drawn on the video, and face_ids.json, the copy of       *)
(* kt_app's profiles.                                                      *)
(*                                                                         *)
(* kt_app sends the faces of a camera frame in a message for those that it *)
(* identified and one for the others. The event thread looks each face up  *)
(* in the file and puts the faces of a message in the place of the boxes;  *)
(* another thread clears boxes that are old. Each request has a thread of  *)
(* its own that writes the file without a lock: open() empties it, and     *)
(* what was dumped gets there when it is closed. kt_app does not know the  *)
(* command of the route that deletes a profile, which changes nothing.     *)
(***************************************************************************)
EXTENDS Integers, Sequences, SequencesExt

CONSTANTS
  Threads,        \* the threads that serve requests
  Versions,       \* numbers of the tables of kt_app, from 0: each update and
                  \* each new face makes the next one
  Size(_),        \* the length of the file for a table
  Frames          \* camera frames, [known, unknown : sequences of faces]

ASSUME VizAssumption ==
  /\ 0 \in Versions /\ Versions \subseteq Nat
  /\ \A v \in Versions : Size(v) \in Nat \ {0}
  /\ Frames \subseteq [known : Seq(Nat), unknown : Seq(Nat)]

VARIABLES
  table,          \* the table of kt_app
  file,           \* face_ids.json: the table written last, and its length
  pc, copy,       \* [Threads -> place in a route, table it has got]
  since,          \* history: [Threads -> the table when the request began]
  sole,           \* history: the thread whose list has had the file for itself
                  \* so far, {} if none
  disturbed,      \* history: since such a list ended another came between, or
                  \* a table was not listed
  stream,         \* messages in the socket
  event,          \* place of the event thread in ipc_event_callback
  faces,          \* of the message that are still to come
  accumulator, boxes,   \* _bbox_accumulator, _bbox_state
  time,           \* _last_event_time: never, not a second ago, or older
  worker,         \* place of the thread that clears old boxes
  frame           \* history: the camera frame that is in the stream or was last,
                  \* NoFrame if its messages were lost with the connection

profiles == <<table, file, pc, copy, since, sole, disturbed>>
overlay  == <<stream, event, faces, accumulator, boxes, time, worker, frame>>
vars     == <<profiles, overlay>>

Goto(t, place) == pc' = [pc EXCEPT ![t] = place]

\* json.load() fails unless the file, size 0 if there is none, is just what one
\* dump wrote
Loads == file.size = Size(file.table)

-----------------------------------------------------------------------------
(* list_face_profiles, which get_face_profiles calls once and update_face_id *)
(* before and after the update. The places of a list are those of its call.  *)

Calls == {"get", "before", "after"}
Ask(call)   == <<call, "ask">>
Open(call)  == <<call, "open">>
Write(call) == <<call, "write">>
Idle        == <<"route", "idle">>
Ends        == <<"route", "ends">>
Read        == <<"get", "read">>
Update      == <<"kt_app", "update">>

\* The route that needs the file, from the answer of kt_app on
UsesFile(t) == pc[t] = Read \/ \E call \in Calls : pc[t] \in {Open(call), Write(call)}

AskTable(t, call) ==
  /\ pc[t] = Ask(call)
  /\ copy' = [copy EXCEPT ![t] = table]
  /\ sole' = {u \in {t} : \A v \in Threads \ {t} : ~UsesFile(v)}
  /\ disturbed' = (disturbed \/ sole' = {})
  /\ Goto(t, Open(call))
  /\ UNCHANGED <<table, file, since, overlay>>

Disturb == sole' = {} /\ disturbed' = TRUE

\* kt_app is away, or the answer is an error: the route ends, with an error
\* unless the update is done
ListFails(t, call) ==
  /\ pc[t] = Ask(call)
  /\ IF call = "after" THEN Disturb ELSE UNCHANGED <<sole, disturbed>>
  /\ Goto(t, Ends)
  /\ UNCHANGED <<table, file, copy, since, overlay>>

\* the file is opened with "r+"
OpenFile_keeps(t, call) ==
  /\ pc[t] = Open(call)
  /\ Goto(t, Write(call))
  /\ UNCHANGED <<table, file, copy, since, sole, disturbed, overlay>>

OpenFile(t, call) ==
  /\ pc[t] = Open(call)
  /\ file' = [table |-> 0, size |-> 0]
  /\ Goto(t, Write(call))
  /\ UNCHANGED <<table, copy, since, sole, disturbed, overlay>>

Following(call) == CASE call = "get" -> Read [] call = "before" -> Update [] OTHER -> Ends

\* What another wrote since the file was opened is written over, and its end
\* stays if it is longer
WriteFile(t, call) ==
  /\ pc[t] = Write(call)
  /\ file' = [table |-> copy[t],
              size  |-> IF file.size > Size(copy[t]) THEN file.size ELSE Size(copy[t])]
  /\ disturbed' = (disturbed /\ t \notin sole) /\ sole' = sole \ {t}
  /\ copy' = [copy EXCEPT ![t] = 0]
  /\ Goto(t, Following(call))
  /\ UNCHANGED <<table, since, overlay>>

List(t) == \E call \in Calls :
  AskTable(t, call) \/ ListFails(t, call) \/ OpenFile(t, call) \/ WriteFile(t, call)

-----------------------------------------------------------------------------
(* The routes *)

Begin(t, place) ==
  /\ pc[t] = Idle
  /\ Goto(t, place)
  /\ UNCHANGED <<table, file, copy, sole, disturbed, overlay>>

\* a file that loads is good enough
get_face_profiles_cached(t) ==
  /\ Begin(t, IF Loads THEN Read ELSE Ask("get"))
  /\ since' = [since EXCEPT ![t] = table]

get_face_profiles(t) == Begin(t, Ask("get")) /\ since' = [since EXCEPT ![t] = table]

update_face_id(t) == Begin(t, Ask("before")) /\ UNCHANGED since

\* The new face is not in the file before the next list. The answer may not
\* come in time, or say that there is none: then nobody sees a difference here.
generate_face_id(t) ==
  /\ pc[t] = Idle /\ table + 1 \in Versions
  /\ table' = table + 1
  /\ Disturb
  /\ Goto(t, Ends)
  /\ UNCHANGED <<file, copy, since, overlay>>

\* The answer is the table of the file, or an error if it cannot be loaded
AnswerProfiles(t) ==
  /\ pc[t] = Read
  /\ Goto(t, Ends)
  /\ UNCHANGED <<table, file, copy, since, sole, disturbed, overlay>>

\* update_face_profile: the file is written again
ChangeTable(t) ==
  /\ pc[t] = Update /\ table + 1 \in Versions
  /\ table' = table + 1
  /\ Goto(t, Ask("after"))
  /\ UNCHANGED <<file, copy, since, sole, disturbed, overlay>>

\* kt_app fails, or has changed the table but its answer does not come
ChangeFails(t) ==
  /\ pc[t] = Update
  /\ \/ UNCHANGED <<table, sole, disturbed>>
     \/ table + 1 \in Versions /\ table' = table + 1 /\ Disturb
  /\ Goto(t, Ends)
  /\ UNCHANGED <<file, copy, since, overlay>>

EndRoute(t) ==
  /\ pc[t] = Ends
  /\ Goto(t, Idle)
  /\ since' = [since EXCEPT ![t] = 0]
  /\ UNCHANGED <<table, file, copy, sole, disturbed, overlay>>

Route(t) ==
  \/ get_face_profiles(t) \/ update_face_id(t) \/ generate_face_id(t)
  \/ List(t) \/ AnswerProfiles(t) \/ ChangeTable(t) \/ ChangeFails(t) \/ EndRoute(t)

-----------------------------------------------------------------------------
(* kt_app and the event thread *)

\* A message for the known faces, then one for the others, each only if there
\* are any
NoFrame     == [known |-> <<>>, unknown |-> <<>>]
IfAny(msg)  == IF msg = <<>> THEN <<>> ELSE <<msg>>
Messages(f) == IfAny(f.known) \o IfAny(f.unknown)

SendFrame(f) ==
  /\ stream = <<>> /\ event = "recv"
  /\ stream' = Messages(f)
  /\ frame' = f
  /\ UNCHANGED <<profiles, event, faces, accumulator, boxes, time, worker>>

\* kt_app ends between two messages, or within one: nothing of it is used
Disconnect ==
  /\ stream # <<>> /\ event = "recv"
  /\ stream' = <<>>
  /\ frame' = NoFrame
  /\ UNCHANGED <<profiles, event, faces, accumulator, boxes, time, worker>>

RecvMessage ==
  /\ event = "recv" /\ stream # <<>>
  /\ faces' = Head(stream) /\ stream' = Tail(stream)
  /\ event' = "first"
  /\ UNCHANGED <<profiles, accumulator, boxes, time, worker, frame>>

\* "Unidentified Person" unless the file has a name. A face that was enrolled
\* since the file was written has none in it; that file counts as disturbed.
Entry(face) == [face |-> face, named |-> face > 0 /\ Loads]

Lookup == event \in {"first", "next"}

\* the accumulation goes on
LookUpFace_append ==
  /\ Lookup
  /\ accumulator' = Append(accumulator, Entry(Head(faces)))
  /\ faces' = Tail(faces)
  /\ event' = IF faces' = <<>> THEN "commit" ELSE "next"
  /\ UNCHANGED <<profiles, stream, boxes, time, worker, frame>>

\* the faces are counted from 0, so the last is not known
LookUpFace_fromZero ==
  /\ Lookup
  /\ accumulator' = Append(IF event = "first" THEN <<>> ELSE accumulator, Entry(Head(faces)))
  /\ faces' = Tail(faces)
  /\ event' = "next"
  /\ UNCHANGED <<profiles, stream, boxes, time, worker, frame>>

\* The first face of a message begins a new accumulation
LookUpFace ==
  /\ Lookup
  /\ accumulator' = Append(IF event = "first" THEN <<>> ELSE accumulator, Entry(Head(faces)))
  /\ faces' = Tail(faces)
  /\ event' = IF faces' = <<>> THEN "commit" ELSE "next"
  /\ UNCHANGED <<profiles, stream, boxes, time, worker, frame>>

CommitBoxes ==
  /\ event = "commit"
  /\ boxes' = accumulator
  /\ event' = "stamp"
  /\ UNCHANGED <<profiles, stream, faces, accumulator, time, worker, frame>>

StampEvent ==
  /\ event = "stamp"
  /\ time' = "recent"
  /\ event' = "recv"
  /\ UNCHANGED <<profiles, stream, faces, accumulator, boxes, worker, frame>>

-----------------------------------------------------------------------------
(* _bbox_generator_worker, which looks at the time once a second *)

TimePasses ==
  /\ time = "recent" /\ time' = "old"
  /\ UNCHANGED <<profiles, stream, event, faces, accumulator, boxes, worker, frame>>

LookAtTime ==
  /\ worker = "wait" /\ time = "old"
  /\ worker' = "clear"
  /\ UNCHANGED <<profiles, stream, event, faces, accumulator, boxes, time, frame>>

\* `_bbox_state = []`, which makes a variable of the function
ClearBoxes_local ==
  /\ worker = "clear" /\ worker' = "wait"
  /\ UNCHANGED <<profiles, stream, event, faces, accumulator, boxes, time, frame>>

\* The time is not looked at again
ClearBoxes ==
  /\ worker = "clear" /\ worker' = "wait"
  /\ boxes' = <<>>
  /\ UNCHANGED <<profiles, stream, event, faces, accumulator, time, frame>>

-----------------------------------------------------------------------------

\* The file is removed, then written by a list if kt_app answers
Init ==
  /\ table \in Versions
  /\ \/ file = [table |-> table, size |-> Size(table)] /\ disturbed = FALSE
     \/ file = [table |-> 0, size |-> 0] /\ disturbed = TRUE
  /\ pc = [t \in Threads |-> Idle]
  /\ copy = [t \in Threads |-> 0] /\ since = [t \in Threads |-> 0]
  /\ sole = {}
  /\ stream = <<>> /\ event = "recv" /\ faces = <<>>
  /\ accumulator = <<>> /\ boxes = <<>>
  /\ time = "never" /\ worker = "wait"
  /\ frame = NoFrame

Event  == RecvMessage \/ LookUpFace \/ CommitBoxes \/ StampEvent
Worker == LookAtTime \/ ClearBoxes

Next ==
  \/ \E t \in Threads : Route(t)
  \/ \E f \in Frames : SendFrame(f)
  \/ Disconnect \/ Event \/ TimePasses \/ Worker

\* The threads run and time passes; nobody has to ask, and no face has to come
Fairness == WF_vars(Event) /\ WF_vars(Worker) /\ WF_vars(TimePasses)

Spec == Init /\ [][Next]_vars /\ Fairness

-----------------------------------------------------------------------------
(* Properties *)

Faces(entries) == [i \in DOMAIN entries |-> entries[i].face]

Places ==
  {Idle, Ends, Read, Update}
    \cup {Ask(c) : c \in Calls} \cup {Open(c) : c \in Calls} \cup {Write(c) : c \in Calls}

\* Types; no face is looked up unless there is one.
TypeOK ==
  /\ table \in Versions /\ file.table \in Versions /\ file.size \in Nat
  /\ pc \in [Threads -> Places]
  /\ copy \in [Threads -> Versions] /\ since \in [Threads -> Versions]
  /\ sole \subseteq Threads /\ disturbed \in BOOLEAN
  /\ event \in {"recv", "first", "next", "commit", "stamp"}
  /\ Lookup <=> faces # <<>>
  /\ time \in {"never", "recent", "old"} /\ worker \in {"wait", "clear"}

\* When no route is under way the file is a whole copy of kt_app's table
\* ("keep JSON Database updated", ipc_client.py:449), and what a request for
\* the profiles reads from it (app.py:757-765) can be loaded and is of no table
\* that was replaced before the request: unless, since a list that had the file
\* for itself, two came between each other, for nobody locks it, or the table
\* changed and was not listed.
ProfilesCurrent ==
  ~disturbed =>
    /\ (\A t \in Threads : pc[t] = Idle) => Loads /\ file.table = table
    /\ \A t \in Threads : pc[t] = Read => Loads /\ file.table >= since[t]

\* While the file is undisturbed - a list that had it for itself was the last
\* one to end, and no enrolment, failed list or other list came since - a face
\* that kt_app knows is drawn without a name only if it is looked up between a
\* list's open() and close() of the file (app.py:274-288).
NamedIfKnown ==
  [][Lookup /\ accumulator' # accumulator /\ Head(faces) > 0 /\ ~disturbed
       /\ (\A t \in Threads, call \in Calls : pc[t] # Write(call))
     => Last(accumulator').named]_vars

\* The boxes are those of one message, never of two, and all of it: whoever
\* draws them sees no accumulation that is under way, and whatever is lost
\* with the connection is lost whole (app.py:310-319).
BoxesOfOneMessage ==
  boxes # <<>> =>
    \E f \in Frames : \E i \in DOMAIN Messages(f) : Messages(f)[i] = Faces(boxes)

\* When kt_app sends no more, the boxes go ("prevents the last detection being
\* drawn forever", app.py:328-331).
BoxesGo == <>[](stream = <<>> /\ event = "recv") => <>[](boxes = <<>>)

\* What app.py:245-247 says: when the messages of a frame were received and
\* handled, the boxes are the whole list of its faces. A frame that was cut off
\* by the end of the connection is not meant.
WholeFrame ==
  stream = <<>> /\ event = "recv" /\ frame # NoFrame /\ boxes # <<>> =>
    Faces(boxes) = frame.known \o frame.unknown

=============================================================================
