--------------------------- MODULE VizServerProofs ---------------------------
(***************************************************************************)
(* What the threads of the kt_viz server keep true of the boxes and of     *)
(* face_ids.json, for every number of requests, every sequence of tables   *)
(* and all frames.                                                         *)
(***************************************************************************)
EXTENDS VizServer, SequenceTheorems, TLAPS

-----------------------------------------------------------------------------
(* Places *)

HasFile(p) == \E call \in Calls : p \in {Open(call), Write(call)}
Writing(p) == \E call \in Calls : p = Write(call)

LEMMA Callers ==
  ASSUME NEW call \in Calls
  PROVE  /\ {Ask(call), Open(call), Write(call), Following(call)} \subseteq Places
         /\ ~HasFile(Ask(call)) /\ Ask(call) # Read /\ Ask(call) # Idle /\ Ask(call) # Update
         /\ HasFile(Open(call)) /\ ~Writing(Open(call)) /\ Open(call) # Read
         /\ HasFile(Write(call)) /\ Writing(Write(call)) /\ Write(call) # Read
         /\ ~HasFile(Following(call)) /\ Following(call) # Ask("after")
  BY DEF Calls, Places, Ask, Open, Write, Following, Idle, Ends, Read, Update, HasFile, Writing

LEMMA Between ==
  /\ {Idle, Ends, Read, Update} \subseteq Places
  /\ \A p \in {Idle, Ends, Read, Update} : ~HasFile(p) /\ p # Ask("after")
  /\ Idle # Read /\ Ends # Read /\ Update # Read
  /\ Ask("after") # Ask("get") /\ Ask("after") # Ask("before")
  BY DEF Calls, Places, Ask, Open, Write, Idle, Ends, Read, Update, HasFile

LEMMA WritingHas == \A p : Writing(p) => HasFile(p)
  BY DEF Writing, HasFile

LEMMA Uses == \A t \in Threads : UsesFile(t) <=> pc[t] = Read \/ HasFile(pc[t])
  BY DEF UsesFile, HasFile

-----------------------------------------------------------------------------
(* The profiles *)

ProfileTypes ==
  /\ table \in Versions /\ file \in [table : Versions, size : Nat]
  /\ pc \in [Threads -> Places]
  /\ copy \in [Threads -> Versions] /\ since \in [Threads -> Versions]
  /\ sole \subseteq Threads /\ disturbed \in BOOLEAN

\* A table was changed that is going to be listed.
Unlisted == \E t \in Threads : pc[t] = Ask("after")

\* Who has the file for itself will write all of it, and what kt_app has now
\* unless another list follows.
Sole ==
  \A t \in sole :
    /\ HasFile(pc[t])
    /\ \A u \in Threads \ {t} : pc[u] # Read /\ ~HasFile(pc[u])
    /\ Writing(pc[t]) => file.size = 0
    /\ Unlisted \/ copy[t] = table

\* No list brings a table older than the request it is for.
Copies ==
  \A t \in Threads : since[t] <= table /\ (HasFile(pc[t]) => since[t] <= copy[t])

Undisturbed ==
  ~disturbed =>
    /\ \A t \in Threads : HasFile(pc[t]) => t \in sole
    /\ (\A t \in Threads : ~Writing(pc[t])) => Loads
    /\ (\A t \in Threads : ~HasFile(pc[t])) /\ ~Unlisted => file.table = table
    /\ \A t \in Threads : pc[t] = Read => since[t] <= file.table

ProfileInv == ProfileTypes /\ Sole /\ Copies /\ Undisturbed

LEMMA InitProfiles == Init => ProfileInv
<1> SUFFICES ASSUME Init PROVE ProfileInv
  OBVIOUS
<1>1. ProfileTypes
  <2>1. table \in Versions /\ Size(table) \in Nat /\ 0 \in Versions
    BY VizAssumption DEF Init
  <2>2. file \in [table : Versions, size : Nat]
    BY <2>1 DEF Init
  <2> QED
    BY <2>1, <2>2, Between DEF Init, ProfileTypes
<1>2. \A t \in Threads : ~HasFile(pc[t]) /\ ~Writing(pc[t]) /\ pc[t] # Read
  BY Between, WritingHas DEF Init
<1>3. ~disturbed => Loads /\ file.table = table
  BY DEF Init, Loads
<1>4. Copies
  BY <1>2, VizAssumption DEF Init, Copies
<1>5. Sole
  BY DEF Init, Sole
<1> QED
  BY <1>1, <1>2, <1>3, <1>4, <1>5 DEF ProfileInv, Undisturbed

LEMMA OthersProfiles ==
  ASSUME ProfileInv, UNCHANGED profiles
  PROVE  ProfileInv'
  BY DEF ProfileInv, profiles, ProfileTypes, Sole, Copies, Undisturbed, Unlisted, Loads

\* Where a thread goes, the others do not.
LEMMA Moved ==
  ASSUME ProfileTypes, NEW t \in Threads, NEW p \in Places, Goto(t, p)
  PROVE  pc' \in [Threads -> Places] /\ pc'[t] = p /\ \A u \in Threads \ {t} : pc'[u] = pc[u]
  BY DEF ProfileTypes, Goto

LEMMA AskTableInv ==
  ASSUME ProfileInv, NEW t \in Threads, NEW call \in Calls, AskTable(t, call)
  PROVE  ProfileInv'
<1>1. /\ pc[t] = Ask(call) /\ copy' = [copy EXCEPT ![t] = table]
      /\ sole' = {u \in {t} : \A v \in Threads \ {t} : ~UsesFile(v)}
      /\ disturbed' = (disturbed \/ sole' = {})
      /\ UNCHANGED <<table, file, since>>
  BY DEF AskTable
<1>2. pc' \in [Threads -> Places] /\ pc'[t] = Open(call) /\ \A u \in Threads \ {t} : pc'[u] = pc[u]
  BY Moved, Callers DEF AskTable, ProfileInv
<1>3. ProfileTypes'
  BY <1>1, <1>2 DEF ProfileInv, ProfileTypes
<1>4. /\ ~HasFile(pc[t]) /\ ~Writing(pc[t]) /\ HasFile(pc'[t]) /\ ~Writing(pc'[t])
      /\ pc'[t] # Read
  BY <1>1, <1>2, Callers, WritingHas
<1>5. copy'[t] = table /\ \A u \in Threads \ {t} : copy'[u] = copy[u]
  BY <1>1 DEF ProfileInv, ProfileTypes
<1>6. sole' # {} => sole' = {t} /\ \A u \in Threads \ {t} : pc[u] # Read /\ ~HasFile(pc[u])
  BY <1>1, Uses
<1>7. Sole'
  BY <1>1, <1>2, <1>4, <1>5, <1>6 DEF Sole
<1>8. Copies'
  <2>1. since[t] <= table
    BY DEF ProfileInv, Copies
  <2> QED
    BY <1>1, <1>2, <1>4, <1>5, <2>1 DEF ProfileInv, Copies
<1>9. Undisturbed'
  <2> SUFFICES ASSUME ~disturbed' PROVE Undisturbed'
    BY DEF Undisturbed
  <2>1. ~disturbed /\ sole' = {t} /\ \A u \in Threads \ {t} : pc[u] # Read /\ ~HasFile(pc[u])
    BY <1>1, <1>6 DEF ProfileInv, ProfileTypes
  <2>2. Loads
    BY <2>1, <1>4, WritingHas DEF ProfileInv, Undisturbed
  <2> QED
    BY <1>1, <1>2, <1>4, <2>1, <2>2 DEF Undisturbed, Loads
<1> QED
  BY <1>3, <1>7, <1>8, <1>9 DEF ProfileInv

LEMMA ListFailsInv ==
  ASSUME ProfileInv, NEW t \in Threads, NEW call \in Calls, ListFails(t, call)
  PROVE  ProfileInv'
<1>1. /\ pc[t] = Ask(call) /\ UNCHANGED <<table, file, copy, since>>
      /\ IF call = "after" THEN Disturb ELSE UNCHANGED <<sole, disturbed>>
  BY DEF ListFails
<1>2. pc' \in [Threads -> Places] /\ pc'[t] = Ends /\ \A u \in Threads \ {t} : pc'[u] = pc[u]
  BY Moved, Between DEF ListFails, ProfileInv
<1>3. ProfileTypes'
  BY <1>1, <1>2 DEF ProfileInv, ProfileTypes, Disturb
<1>4. /\ ~HasFile(pc[t]) /\ ~Writing(pc[t]) /\ ~HasFile(pc'[t]) /\ ~Writing(pc'[t])
      /\ pc'[t] # Read
  BY <1>1, <1>2, Callers, Between, WritingHas
<1>5. Copies'
  BY <1>1, <1>2, <1>4 DEF ProfileInv, Copies
<1>6. CASE call = "after"
  BY <1>1, <1>3, <1>5, <1>6 DEF Disturb, ProfileInv, Sole, Undisturbed
<1>7. CASE call # "after"
  <2>1. Unlisted' <=> Unlisted
    <3>1. pc[t] # Ask("after") /\ pc'[t] # Ask("after")
      BY <1>1, <1>2, <1>7, Between DEF Calls
    <3> QED
      BY <1>2, <3>1 DEF Unlisted
  <2>2. Sole'
    BY <1>1, <1>2, <1>4, <1>7, <2>1 DEF ProfileInv, ProfileTypes, Sole
  <2>3. Undisturbed'
    BY <1>1, <1>2, <1>4, <1>7, <2>1 DEF ProfileInv, Undisturbed, Loads
  <2> QED
    BY <1>3, <1>5, <2>2, <2>3 DEF ProfileInv
<1> QED
  BY <1>6, <1>7

LEMMA OpenFileInv ==
  ASSUME ProfileInv, NEW t \in Threads, NEW call \in Calls, OpenFile(t, call)
  PROVE  ProfileInv'
<1>1. /\ pc[t] = Open(call) /\ file' = [table |-> 0, size |-> 0]
      /\ UNCHANGED <<table, copy, since, sole, disturbed>>
  BY DEF OpenFile
<1>2. pc' \in [Threads -> Places] /\ pc'[t] = Write(call) /\ \A u \in Threads \ {t} : pc'[u] = pc[u]
  BY Moved, Callers DEF OpenFile, ProfileInv
<1>3. ProfileTypes'
  <2>1. file' \in [table : Versions, size : Nat]
    BY <1>1, VizAssumption
  <2> QED
    BY <1>1, <1>2, <2>1 DEF ProfileInv, ProfileTypes
<1>4. /\ HasFile(pc[t]) /\ pc[t] # Ask("after") /\ pc[t] # Read
      /\ HasFile(pc'[t]) /\ Writing(pc'[t]) /\ pc'[t] # Ask("after") /\ pc'[t] # Read
  <2>1. "after" \in Calls
    BY DEF Calls
  <2> QED
    BY <1>1, <1>2, <2>1, Callers
<1>5. Unlisted' <=> Unlisted
  BY <1>2, <1>4 DEF Unlisted
<1>6. Sole'
  <2>1. \A u \in sole : u = t
    BY <1>4 DEF ProfileInv, ProfileTypes, Sole
  <2> QED
    BY <1>1, <1>2, <1>4, <1>5, <2>1 DEF ProfileInv, ProfileTypes, Sole
<1>7. Copies'
  BY <1>1, <1>2, <1>4 DEF ProfileInv, Copies
<1>8. Undisturbed'
  <2> SUFFICES ASSUME ~disturbed' PROVE Undisturbed'
    BY DEF Undisturbed
  <2>1. t \in sole
    BY <1>1, <1>4 DEF ProfileInv, Undisturbed
  <2>2. \A u \in Threads \ {t} : pc[u] # Read /\ ~HasFile(pc[u])
    BY <2>1 DEF ProfileInv, Sole
  <2> QED
    BY <1>1, <1>2, <1>4, <2>1, <2>2 DEF Undisturbed
<1> QED
  BY <1>3, <1>6, <1>7, <1>8 DEF ProfileInv

\* A list that has the file for itself leaves a whole copy of what it was told.
LEMMA WriteFileInv ==
  ASSUME ProfileInv, NEW t \in Threads, NEW call \in Calls, WriteFile(t, call)
  PROVE  ProfileInv'
<1> DEFINE length == IF file.size > Size(copy[t]) THEN file.size ELSE Size(copy[t])
<1>1. /\ pc[t] = Write(call) /\ file' = [table |-> copy[t], size  |-> length]
      /\ disturbed' = (disturbed /\ t \notin sole) /\ sole' = sole \ {t}
      /\ copy' = [copy EXCEPT ![t] = 0] /\ UNCHANGED <<table, since>>
  BY DEF WriteFile
<1>2. /\ pc' \in [Threads -> Places] /\ pc'[t] = Following(call)
      /\ \A u \in Threads \ {t} : pc'[u] = pc[u]
  BY Moved, Callers DEF WriteFile, ProfileInv
<1>3. copy[t] \in Versions /\ file.size \in Nat /\ Size(copy[t]) \in Nat \ {0}
  BY VizAssumption DEF ProfileInv, ProfileTypes
<1>4. ProfileTypes'
  <2>1. file' \in [table : Versions, size : Nat]
    BY <1>1, <1>3
  <2> QED
    BY <1>1, <1>2, <2>1, VizAssumption DEF ProfileInv, ProfileTypes
<1>5. /\ HasFile(pc[t]) /\ Writing(pc[t]) /\ pc[t] # Ask("after")
      /\ ~HasFile(pc'[t]) /\ ~Writing(pc'[t]) /\ pc'[t] # Ask("after")
  <2>1. "after" \in Calls
    BY DEF Calls
  <2> QED
    BY <1>1, <1>2, <2>1, Callers, WritingHas
<1>6. Unlisted' <=> Unlisted
  BY <1>2, <1>5 DEF Unlisted
<1>7. sole' = {}
  BY <1>1, <1>5 DEF ProfileInv, ProfileTypes, Sole
<1>8. Copies'
  BY <1>1, <1>2, <1>5 DEF ProfileInv, ProfileTypes, Copies
<1>9. Undisturbed'
  <2> SUFFICES ASSUME ~disturbed' PROVE Undisturbed'
    BY DEF Undisturbed
  <2>1. t \in sole
    BY <1>1, <1>5 DEF ProfileInv, Undisturbed
  <2>2. /\ \A u \in Threads \ {t} : pc[u] # Read /\ ~HasFile(pc[u])
        /\ file.size = 0
        /\ Unlisted \/ copy[t] = table
    BY <2>1, <1>5 DEF ProfileInv, Sole
  <2>3. \A u \in Threads : ~HasFile(pc'[u])
    BY <1>2, <1>5, <2>2
  <2>4. file'.table = copy[t] /\ file'.size = Size(copy[t])
    BY <1>1, <1>3, <2>2
  <2>5. Loads'
    BY <2>4 DEF Loads
  <2>6. ~Unlisted' => file'.table = table'
    BY <1>1, <1>6, <2>2, <2>4
  <2>7. \A u \in Threads : pc'[u] = Read => since'[u] <= file'.table
    BY <1>1, <1>2, <1>5, <2>2, <2>4 DEF ProfileInv, Copies
  <2> QED
    BY <2>3, <2>5, <2>6, <2>7 DEF Undisturbed
<1> QED
  BY <1>4, <1>7, <1>8, <1>9 DEF ProfileInv, Sole

-----------------------------------------------------------------------------
(* The other steps of a route move a thread between places without the file. *)

LEMMA Aside ==
  ASSUME ProfileInv, NEW t \in Threads, NEW p \in Places, Goto(t, p),
         ~HasFile(pc[t]), ~HasFile(p), p # Read
  PROVE  /\ pc' \in [Threads -> Places] /\ pc'[t] = p
         /\ \A u \in Threads \ {t} : pc'[u] = pc[u]
         /\ \A u \in Threads : /\ HasFile(pc'[u]) <=> HasFile(pc[u])
                               /\ Writing(pc'[u]) <=> Writing(pc[u])
                               /\ pc'[u] = Read => pc[u] = Read
<1>1. /\ pc' \in [Threads -> Places] /\ pc'[t] = p
      /\ \A u \in Threads \ {t} : pc'[u] = pc[u]
  BY Moved DEF ProfileInv
<1> QED
  BY <1>1, WritingHas

\* A route begins or ends, and nothing changes but since when it is.
LEMMA QuietInv ==
  ASSUME ProfileInv, NEW t \in Threads, NEW p \in Places, Goto(t, p),
         ~HasFile(pc[t]), ~HasFile(p), p # Read,
         pc[t] # Ask("after"), p # Ask("after"),
         UNCHANGED <<table, file, copy, sole, disturbed>>,
         NEW v \in {since[t], 0, table}, since' = [since EXCEPT ![t] = v]
  PROVE  ProfileInv'
<1>1. /\ pc' \in [Threads -> Places] /\ pc'[t] = p
      /\ \A u \in Threads \ {t} : pc'[u] = pc[u]
      /\ \A u \in Threads : /\ HasFile(pc'[u]) <=> HasFile(pc[u])
                            /\ Writing(pc'[u]) <=> Writing(pc[u])
                            /\ pc'[u] = Read => pc[u] = Read
  BY Aside
<1>2. v \in Versions /\ v <= table
  BY VizAssumption DEF ProfileInv, ProfileTypes, Copies
<1>3. since'[t] = v /\ \A u \in Threads \ {t} : since'[u] = since[u]
  BY DEF ProfileInv, ProfileTypes
<1>4. ProfileTypes'
  BY <1>1, <1>2 DEF ProfileInv, ProfileTypes
<1>5. Unlisted' <=> Unlisted
  BY <1>1 DEF Unlisted
<1>6. Sole'
  BY <1>1, <1>5 DEF ProfileInv, ProfileTypes, Sole
<1>7. Copies'
  BY <1>1, <1>2, <1>3 DEF ProfileInv, Copies
<1>8. Undisturbed'
  BY <1>1, <1>3, <1>5 DEF ProfileInv, Undisturbed, Loads
<1> QED
  BY <1>4, <1>6, <1>7, <1>8 DEF ProfileInv

\* The table of kt_app changes: a list is going to follow, or the histories
\* say that none will.
LEMMA NewTableInv ==
  ASSUME ProfileInv, NEW t \in Threads, NEW p \in Places, Goto(t, p),
         ~HasFile(pc[t]), ~HasFile(p), p # Read,
         table' \in Versions, table' >= table, UNCHANGED <<file, copy, since>>,
         (p = Ask("after") /\ UNCHANGED <<sole, disturbed>>) \/ Disturb
  PROVE  ProfileInv'
<1>1. /\ pc' \in [Threads -> Places] /\ pc'[t] = p
      /\ \A u \in Threads \ {t} : pc'[u] = pc[u]
      /\ \A u \in Threads : /\ HasFile(pc'[u]) <=> HasFile(pc[u])
                            /\ Writing(pc'[u]) <=> Writing(pc[u])
                            /\ pc'[u] = Read => pc[u] = Read
  BY Aside
<1>2. ProfileTypes'
  BY <1>1 DEF ProfileInv, ProfileTypes, Disturb
<1>3. Copies'
  <2>1. \A u \in Threads : since[u] \in Nat /\ table \in Nat /\ table' \in Nat
    BY VizAssumption DEF ProfileInv, ProfileTypes
  <2> QED
    BY <1>1, <2>1 DEF ProfileInv, Copies
<1>4. CASE Disturb
  BY <1>2, <1>3, <1>4 DEF Disturb, ProfileInv, Sole, Undisturbed
<1>5. CASE p = Ask("after") /\ UNCHANGED <<sole, disturbed>>
  <2>1. Unlisted'
    BY <1>1, <1>5 DEF Unlisted
  <2>2. Sole'
    BY <1>1, <1>5, <2>1 DEF ProfileInv, ProfileTypes, Sole
  <2>3. Undisturbed'
    BY <1>1, <1>5, <2>1 DEF ProfileInv, Undisturbed, Loads
  <2> QED
    BY <1>2, <1>3, <2>2, <2>3 DEF ProfileInv
<1> QED
  BY <1>4, <1>5

\* The list is read: the thread no longer uses the file.
LEMMA AnswerInv ==
  ASSUME ProfileInv, NEW t \in Threads, AnswerProfiles(t)
  PROVE  ProfileInv'
<1>1. pc[t] = Read /\ UNCHANGED <<table, file, copy, since, sole, disturbed>>
  BY DEF AnswerProfiles
<1>2. since' = [since EXCEPT ![t] = since[t]]
  BY <1>1 DEF ProfileInv, ProfileTypes
<1> QED
  BY <1>1, <1>2, QuietInv, Between DEF AnswerProfiles

LEMMA RouteInv ==
  ASSUME ProfileInv, NEW t \in Threads, Route(t)
  PROVE  ProfileInv'
<1> USE Between, Callers
<1>1. "get" \in Calls /\ "before" \in Calls /\ "after" \in Calls
  BY DEF Calls
<1>2. CASE get_face_profiles(t)
  <2>1. Goto(t, Ask("get")) /\ pc[t] = Idle /\ since' = [since EXCEPT ![t] = table]
    BY <1>2 DEF get_face_profiles, Begin
  <2> QED
    BY <1>1, <1>2, <2>1, QuietInv DEF get_face_profiles, Begin
<1>3. CASE update_face_id(t)
  <2>1. since' = [since EXCEPT ![t] = since[t]]
    BY <1>3 DEF update_face_id, ProfileInv, ProfileTypes
  <2> QED
    BY <1>1, <1>3, <2>1, QuietInv DEF update_face_id, Begin
<1>4. CASE generate_face_id(t)
  <2>1. table' \in Versions /\ table' >= table
    BY <1>4, VizAssumption DEF generate_face_id, ProfileInv, ProfileTypes
  <2> QED
    BY <1>4, <2>1, NewTableInv DEF generate_face_id
<1>5. CASE List(t)
  BY <1>5, AskTableInv, ListFailsInv, OpenFileInv, WriteFileInv DEF List
<1>6. CASE AnswerProfiles(t)
  BY <1>6, AnswerInv
<1>7. CASE ChangeTable(t)
  <2>1. table' \in Versions /\ table' >= table
    BY <1>7, VizAssumption DEF ChangeTable, ProfileInv, ProfileTypes
  <2> QED
    BY <1>1, <1>7, <2>1, NewTableInv DEF ChangeTable
<1>8. CASE ChangeFails(t)
  <2>1. pc[t] = Update /\ Goto(t, Ends) /\ UNCHANGED <<file, copy, since>>
    BY <1>8 DEF ChangeFails
  <2>2. CASE UNCHANGED <<table, sole, disturbed>>
    <3>1. since' = [since EXCEPT ![t] = since[t]]
      BY <2>1 DEF ProfileInv, ProfileTypes
    <3> QED
      BY <2>1, <2>2, <3>1, QuietInv
  <2>3. CASE table + 1 \in Versions /\ table' = table + 1 /\ Disturb
    <3>1. table' \in Versions /\ table' >= table
      BY <2>3, VizAssumption DEF ProfileInv, ProfileTypes
    <3> QED
      BY <2>1, <2>3, <3>1, NewTableInv
  <2> QED
    BY <1>8, <2>2, <2>3 DEF ChangeFails
<1>9. CASE EndRoute(t)
  BY <1>9, QuietInv DEF EndRoute
<1> QED
  BY <1>2, <1>3, <1>4, <1>5, <1>6, <1>7, <1>8, <1>9 DEF Route

-----------------------------------------------------------------------------
(* The boxes *)

Entries   == [face : Nat, named : BOOLEAN]
Message   == Seq(Nat) \ {<<>>}
IsSent(m) == \E f \in Frames : \E i \in DOMAIN Messages(f) : Messages(f)[i] = m

OverlayTypes ==
  /\ stream \in Seq(Message) /\ faces \in Seq(Nat)
  /\ accumulator \in Seq(Entries) /\ boxes \in Seq(Entries)
  /\ event \in {"recv", "first", "next", "commit", "stamp"}
  /\ time \in {"never", "recent", "old"} /\ worker \in {"wait", "clear"}

\* What is accumulated and what is to come are a message of kt_app.
OneSource ==
  /\ \A i \in DOMAIN stream : IsSent(stream[i])
  /\ Lookup <=> faces # <<>>
  /\ event = "first" => IsSent(faces)
  /\ event = "next" => IsSent(Faces(accumulator) \o faces)
  /\ event = "commit" => IsSent(Faces(accumulator))
  /\ boxes # <<>> => IsSent(Faces(boxes))

OverlayInv == OverlayTypes /\ OneSource

LEMMA InitOverlay == Init => OverlayInv
  BY DEF Init, OverlayInv, OverlayTypes, OneSource, Lookup

LEMMA OthersOverlay ==
  ASSUME OverlayInv, UNCHANGED overlay
  PROVE  OverlayInv'
  BY DEF OverlayInv, overlay, OverlayTypes, OneSource, Lookup

LEMMA MessagesType ==
  ASSUME NEW f \in Frames
  PROVE  Messages(f) \in Seq(Message)
<1>1. \A m \in Seq(Nat) : IfAny(m) \in Seq(Message)
  <2> SUFFICES ASSUME NEW m \in Seq(Nat) PROVE IfAny(m) \in Seq(Message)
    OBVIOUS
  <2>1. CASE m = <<>>
    BY <2>1, EmptySeq DEF IfAny
  <2>2. CASE m # <<>>
    <3>1. m \in Message
      BY <2>2 DEF Message
    <3>2. <<m>> \in Seq(Message)
      BY <3>1
    <3> QED
      BY <2>2, <3>2 DEF IfAny
  <2> QED
    BY <2>1, <2>2
<1>2. f.known \in Seq(Nat) /\ f.unknown \in Seq(Nat)
  BY VizAssumption
<1> QED
  BY <1>1, <1>2, ConcatProperties DEF Messages

LEMMA FacesType ==
  ASSUME NEW entries \in Seq(Entries)
  PROVE  /\ Faces(entries) \in Seq(Nat) /\ Len(Faces(entries)) = Len(entries)
         /\ \A i \in 1 .. Len(entries) : Faces(entries)[i] = entries[i].face
<1> DEFINE n == Len(entries)
           fs == [i \in 1 .. n |-> entries[i].face]
<1>1. n \in Nat /\ DOMAIN entries = 1 .. n
  BY LenProperties
<1>2. \A i \in 1 .. n : entries[i] \in Entries
  BY ElementOfSeq
<1>3. \A i \in 1 .. n : entries[i].face \in Nat
  BY <1>2 DEF Entries
<1>4. Faces(entries) = fs
  BY <1>1 DEF Faces
<1> HIDE DEF n
<1>5. fs \in Seq(Nat)
  <2>1. fs \in [1 .. n -> Nat]
    BY <1>3
  <2> QED
    BY <1>1, <2>1, SeqDef
<1>6. Len(fs) = n
  <2>1. DOMAIN fs = 1 .. n
    OBVIOUS
  <2>2. DOMAIN fs = 1 .. Len(fs) /\ Len(fs) \in Nat
    BY <1>5, LenProperties
  <2> QED
    BY <1>1, <2>1, <2>2
<1>7. \A i \in 1 .. n : fs[i] = entries[i].face
  OBVIOUS
<1> QED
  BY <1>4, <1>5, <1>6, <1>7 DEF n

\* A face goes from those that are to come to those that are accumulated.
LEMMA OneMore ==
  ASSUME NEW entries \in Seq(Entries), NEW rest \in Seq(Nat), rest # <<>>,
         NEW e \in Entries, e.face = Head(rest)
  PROVE  /\ Append(entries, e) \in Seq(Entries)
         /\ Faces(Append(entries, e)) \o Tail(rest) = Faces(entries) \o rest
<1> DEFINE more == Append(entries, e)
           l    == Faces(more) \o Tail(rest)
           r    == Faces(entries) \o rest
<1>1. /\ more \in Seq(Entries) /\ Len(more) = Len(entries) + 1
      /\ \A i \in 1 .. Len(entries) : more[i] = entries[i]
      /\ more[Len(entries) + 1] = e
  BY AppendProperties
<1>2. /\ Faces(more) \in Seq(Nat) /\ Len(Faces(more)) = Len(entries) + 1
      /\ \A i \in 1 .. Len(entries) + 1 : Faces(more)[i] = more[i].face
  BY <1>1, FacesType
<1>3. /\ Faces(entries) \in Seq(Nat) /\ Len(Faces(entries)) = Len(entries)
      /\ \A i \in 1 .. Len(entries) : Faces(entries)[i] = entries[i].face
  BY FacesType
<1>4. /\ Tail(rest) \in Seq(Nat) /\ Len(Tail(rest)) = Len(rest) - 1
      /\ \A i \in 1 .. Len(rest) - 1 : Tail(rest)[i] = rest[i + 1]
  BY HeadTailProperties
<1>5. Len(entries) \in Nat /\ Len(rest) \in Nat \ {0} /\ Head(rest) = rest[1]
  BY LenProperties, EmptySeq
<1>6. /\ l \in Seq(Nat) /\ Len(l) = Len(entries) + Len(rest)
      /\ \A i \in 1 .. Len(entries) + Len(rest) :
           l[i] = IF i <= Len(entries) + 1 THEN Faces(more)[i]
                                           ELSE Tail(rest)[i - (Len(entries) + 1)]
  <2> HIDE DEF more
  <2>1. /\ l \in Seq(Nat) /\ Len(l) = Len(Faces(more)) + Len(Tail(rest))
        /\ \A i \in 1 .. Len(Faces(more)) + Len(Tail(rest)) :
             l[i] = IF i <= Len(Faces(more)) THEN Faces(more)[i]
                                             ELSE Tail(rest)[i - Len(Faces(more))]
    BY <1>2, <1>4, ConcatProperties
  <2>2. Len(Faces(more)) + Len(Tail(rest)) = Len(entries) + Len(rest)
    BY <1>2, <1>4, <1>5
  <2> HIDE DEF l
  <2> QED
    BY <1>2, <2>1, <2>2
<1>7. /\ r \in Seq(Nat) /\ Len(r) = Len(entries) + Len(rest)
      /\ \A i \in 1 .. Len(entries) + Len(rest) :
           r[i] = IF i <= Len(entries) THEN Faces(entries)[i] ELSE rest[i - Len(entries)]
  <2>1. /\ r \in Seq(Nat) /\ Len(r) = Len(Faces(entries)) + Len(rest)
        /\ \A i \in 1 .. Len(Faces(entries)) + Len(rest) :
             r[i] = IF i <= Len(Faces(entries)) THEN Faces(entries)[i]
                                                ELSE rest[i - Len(Faces(entries))]
    BY <1>3, ConcatProperties
  <2> HIDE DEF r
  <2> QED
    BY <1>3, <2>1
<1> HIDE DEF more, l, r
<1>8. \A i \in 1 .. Len(entries) + Len(rest) : l[i] = r[i]
  <2> SUFFICES ASSUME NEW i \in 1 .. Len(entries) + Len(rest) PROVE l[i] = r[i]
    OBVIOUS
  <2>1. i \in Nat \ {0} /\ i <= Len(entries) + Len(rest)
    BY <1>5
  <2>2. l[i] = IF i <= Len(entries) + 1 THEN Faces(more)[i]
                                        ELSE Tail(rest)[i - (Len(entries) + 1)]
    BY <1>6
  <2>3. r[i] = IF i <= Len(entries) THEN Faces(entries)[i] ELSE rest[i - Len(entries)]
    BY <1>7
  <2>4. CASE i <= Len(entries)
    <3>1. i \in 1 .. Len(entries) /\ i \in 1 .. Len(entries) + 1 /\ i <= Len(entries) + 1
      BY <1>5, <2>1, <2>4
    <3> QED
      BY <1>1, <1>2, <1>3, <2>2, <2>3, <2>4, <3>1
  <2>5. CASE i = Len(entries) + 1
    <3>1. i \in 1 .. Len(entries) + 1 /\ ~(i <= Len(entries)) /\ i - Len(entries) = 1
      BY <1>5, <2>5
    <3> QED
      BY <1>1, <1>2, <1>5, <2>2, <2>3, <2>5, <3>1
  <2>6. CASE i > Len(entries) + 1
    <3>1. ~(i <= Len(entries)) /\ ~(i <= Len(entries) + 1)
      BY <1>5, <2>1, <2>6
    <3>2. i - (Len(entries) + 1) \in 1 .. Len(rest) - 1
      BY <1>5, <2>1, <2>6
    <3>3. Tail(rest)[i - (Len(entries) + 1)] = rest[(i - (Len(entries) + 1)) + 1]
      BY <1>4, <3>2
    <3>4. (i - (Len(entries) + 1)) + 1 = i - Len(entries)
      BY <1>5, <2>1
    <3> QED
      BY <2>2, <2>3, <3>1, <3>3, <3>4
  <2> QED
    BY <1>5, <2>1, <2>4, <2>5, <2>6
<1>9. l = r
  BY <1>6, <1>7, <1>8, SeqEqual
<1> QED
  BY <1>1, <1>9 DEF more, l, r

LEMMA SendFrameInv ==
  ASSUME OverlayInv, NEW f \in Frames, SendFrame(f)
  PROVE  OverlayInv'
<1>1. /\ stream' = Messages(f)
      /\ UNCHANGED <<event, faces, accumulator, boxes, time, worker>>
  BY DEF SendFrame
<1>2. stream' \in Seq(Message)
  BY <1>1, MessagesType
<1>3. \A i \in DOMAIN stream' : IsSent(stream'[i])
  BY <1>1 DEF IsSent
<1> QED
  BY <1>1, <1>2, <1>3 DEF OverlayInv, OverlayTypes, OneSource, Lookup

LEMMA RecvMessageInv ==
  ASSUME OverlayInv, RecvMessage
  PROVE  OverlayInv'
<1>1. /\ stream # <<>> /\ faces' = Head(stream) /\ stream' = Tail(stream)
      /\ event' = "first" /\ UNCHANGED <<accumulator, boxes, time, worker>>
  BY DEF RecvMessage
<1>2. stream \in Seq(Message) /\ \A i \in DOMAIN stream : IsSent(stream[i])
  BY DEF OverlayInv, OverlayTypes, OneSource
<1>3. /\ faces' \in Message /\ stream' \in Seq(Message) /\ Len(stream') = Len(stream) - 1
      /\ \A i \in 1 .. Len(stream') : stream'[i] = stream[i + 1]
  BY <1>1, <1>2, HeadTailProperties
<1>4. Len(stream) \in Nat \ {0} /\ DOMAIN stream = 1 .. Len(stream) /\ DOMAIN stream' = 1 .. Len(stream')
  BY <1>1, <1>2, <1>3, LenProperties, EmptySeq
<1>5. Head(stream) = stream[1] /\ 1 \in DOMAIN stream
  BY <1>2, <1>4
<1>6. \A i \in DOMAIN stream' : IsSent(stream'[i])
  <2>1. \A i \in 1 .. Len(stream') : i + 1 \in 1 .. Len(stream)
    BY <1>3, <1>4
  <2> QED
    BY <1>2, <1>3, <1>4, <2>1
<1>7. IsSent(faces') /\ faces' # <<>> /\ faces' \in Seq(Nat)
  BY <1>1, <1>2, <1>3, <1>5 DEF Message
<1> QED
  BY <1>1, <1>3, <1>6, <1>7 DEF OverlayInv, OverlayTypes, OneSource, Lookup

LEMMA LookUpFaceInv ==
  ASSUME OverlayInv, LookUpFace
  PROVE  OverlayInv'
<1> DEFINE before == IF event = "first" THEN <<>> ELSE accumulator
           e      == Entry(Head(faces))
<1>1. /\ Lookup /\ accumulator' = Append(before, e) /\ faces' = Tail(faces)
      /\ event' = IF faces' = <<>> THEN "commit" ELSE "next"
      /\ UNCHANGED <<stream, boxes, time, worker>>
  BY DEF LookUpFace
<1>2. before \in Seq(Entries) /\ faces \in Seq(Nat) /\ faces # <<>>
  BY <1>1, EmptySeq DEF OverlayInv, OverlayTypes, OneSource
<1>3. e \in Entries /\ e.face = Head(faces) /\ faces' \in Seq(Nat)
  BY <1>1, <1>2, HeadTailProperties DEF Entry, Entries, Loads
<1>4. IsSent(Faces(before) \o faces)
  <2>1. CASE event = "first"
    <3>1. Faces(<<>>) = <<>>
      BY DEF Faces
    <3> QED
      BY <1>2, <2>1, <3>1, ConcatEmptySeq DEF OverlayInv, OneSource
  <2>2. CASE event = "next"
    BY <2>2 DEF OverlayInv, OneSource
  <2> QED
    BY <1>1, <2>1, <2>2 DEF Lookup
<1> HIDE DEF before, e
<1>5. accumulator' \in Seq(Entries) /\ Faces(accumulator') \o faces' = Faces(before) \o faces
  BY <1>1, <1>2, <1>3, OneMore
<1>6. IsSent(Faces(accumulator') \o faces')
  BY <1>4, <1>5
<1>7. CASE faces' = <<>>
  <2>1. Faces(accumulator') \o faces' = Faces(accumulator')
    BY <1>5, <1>7, FacesType, ConcatEmptySeq
  <2> QED
    BY <1>1, <1>3, <1>5, <1>6, <1>7, <2>1 DEF OverlayInv, OverlayTypes, OneSource, Lookup
<1>8. CASE faces' # <<>>
  BY <1>1, <1>3, <1>5, <1>6, <1>8 DEF OverlayInv, OverlayTypes, OneSource, Lookup
<1> QED
  BY <1>7, <1>8

LEMMA NextInv ==
  ASSUME ProfileInv, OverlayInv, [Next]_vars
  PROVE  ProfileInv' /\ OverlayInv'
<1>1. CASE UNCHANGED vars
  BY <1>1, OthersProfiles, OthersOverlay DEF vars
<1>2. ASSUME NEW t \in Threads, Route(t) PROVE ProfileInv' /\ OverlayInv'
  <2>1. UNCHANGED overlay
    BY <1>2 DEF Route, get_face_profiles, update_face_id, Begin, generate_face_id, List, AskTable,
                ListFails, OpenFile, WriteFile, AnswerProfiles, ChangeTable, ChangeFails, EndRoute
  <2> QED
    BY <1>2, <2>1, RouteInv, OthersOverlay
<1>3. ASSUME NEW f \in Frames, SendFrame(f) PROVE ProfileInv' /\ OverlayInv'
  BY <1>3, SendFrameInv, OthersProfiles DEF SendFrame
<1>4. CASE Disconnect
  <2>1. OverlayInv'
    BY <1>4, EmptySeq DEF Disconnect, OverlayInv, OverlayTypes, OneSource, Lookup
  <2> QED
    BY <1>4, <2>1, OthersProfiles DEF Disconnect
<1>5. CASE Event
  <2>1. UNCHANGED profiles
    BY <1>5 DEF Event, RecvMessage, LookUpFace, CommitBoxes, StampEvent
  <2>2. ASSUME CommitBoxes \/ StampEvent PROVE OverlayInv'
    <3>1. /\ event' \in {"stamp", "recv"} /\ event \in {"commit", "stamp"}
          /\ UNCHANGED <<stream, faces, accumulator, worker>>
          /\ time' \in {time, "recent"}
      BY <2>2 DEF CommitBoxes, StampEvent
    <3>2. boxes' = boxes \/ (event = "commit" /\ boxes' = accumulator)
      BY <2>2 DEF CommitBoxes, StampEvent
    <3>3. boxes' # <<>> => IsSent(Faces(boxes'))
      BY <3>2 DEF OverlayInv, OneSource
    <3>4. OverlayTypes'
      BY <3>1, <3>2 DEF OverlayInv, OverlayTypes
    <3>5. ~Lookup /\ ~Lookup'
      BY <3>1 DEF Lookup
    <3> QED
      BY <3>1, <3>3, <3>4, <3>5 DEF OverlayInv, OneSource
  <2> QED
    BY <1>5, <2>1, <2>2, RecvMessageInv, LookUpFaceInv, OthersProfiles DEF Event
<1>6. CASE TimePasses \/ Worker
  <2>1. UNCHANGED profiles
    BY <1>6 DEF TimePasses, Worker, LookAtTime, ClearBoxes
  <2>2. OverlayInv'
    BY <1>6, EmptySeq
       DEF TimePasses, Worker, LookAtTime, ClearBoxes, OverlayInv, OverlayTypes, OneSource, Lookup
  <2> QED
    BY <2>1, <2>2, OthersProfiles
<1> QED
  BY <1>1, <1>2, <1>3, <1>4, <1>5, <1>6 DEF Next

-----------------------------------------------------------------------------
(* The theorems *)

\* Types, and a face is looked up only if there is one.
THEOREM TypeCorrect == Spec => []TypeOK
<1>1. ProfileInv /\ OverlayInv => TypeOK
  BY DEF ProfileInv, ProfileTypes, OverlayInv, OverlayTypes, OneSource, TypeOK
<1> QED
  BY <1>1, InitProfiles, InitOverlay, NextInv, PTL DEF Spec

\* With no route under way face_ids.json is a whole copy of kt_app's table, and
\* a request reads no table that was replaced before it came, unless two lists
\* came between each other or a change was not listed.
THEOREM FileCurrent == Spec => []ProfilesCurrent
<1>1. ProfileInv => ProfilesCurrent
  <2> SUFFICES ASSUME ProfileInv, ~disturbed PROVE
        /\ (\A t \in Threads : pc[t] = Idle) => Loads /\ file.table = table
        /\ \A t \in Threads : pc[t] = Read => Loads /\ file.table >= since[t]
    BY DEF ProfilesCurrent
  <2>1. ASSUME \A t \in Threads : pc[t] = Idle PROVE Loads /\ file.table = table
    <3>1. \A t \in Threads : ~HasFile(pc[t]) /\ ~Writing(pc[t]) /\ pc[t] # Ask("after")
      BY <2>1, Between, WritingHas
    <3> QED
      BY <3>1 DEF ProfileInv, Undisturbed, Unlisted
  <2>2. ASSUME NEW t \in Threads, pc[t] = Read PROVE Loads /\ file.table >= since[t]
    <3>1. since[t] <= file.table
      BY <2>2 DEF ProfileInv, Undisturbed
    <3>2. \A u \in Threads : ~HasFile(pc[u])
      BY <2>2, Between DEF ProfileInv, ProfileTypes, Undisturbed, Sole
    <3>3. Loads
      BY <3>2, WritingHas DEF ProfileInv, Undisturbed
    <3>4. since[t] \in Nat /\ file.table \in Nat
      BY VizAssumption DEF ProfileInv, ProfileTypes
    <3> QED
      BY <3>1, <3>3, <3>4
  <2> QED
    BY <2>1, <2>2
<1> QED
  BY <1>1, InitProfiles, InitOverlay, NextInv, PTL DEF Spec

\* The boxes are those of one message.
THEOREM OneMessage == Spec => []BoxesOfOneMessage
<1>1. OverlayInv => BoxesOfOneMessage
  BY DEF OverlayInv, OneSource, BoxesOfOneMessage, IsSent
<1> QED
  BY <1>1, InitProfiles, InitOverlay, NextInv, PTL DEF Spec

LEMMA StepNames ==
  ASSUME ProfileInv, OverlayInv, [Next]_vars,
         Lookup, accumulator' # accumulator, Head(faces) > 0, ~disturbed,
         \A t \in Threads, call \in Calls : pc[t] # Write(call)
  PROVE  Last(accumulator').named
<1>1. Loads
  BY DEF ProfileInv, Undisturbed, Writing
<1>2. LookUpFace
  <2>1. ASSUME NEW t \in Threads, Route(t) PROVE UNCHANGED accumulator
    BY <2>1 DEF Route, get_face_profiles, update_face_id, Begin, generate_face_id, List, AskTable,
                ListFails, OpenFile, WriteFile, AnswerProfiles, ChangeTable, ChangeFails,
                EndRoute, overlay
  <2>2. ~UNCHANGED vars /\ ~Disconnect /\ ~TimePasses /\ ~Worker
    BY DEF vars, overlay, Disconnect, TimePasses, Worker, LookAtTime, ClearBoxes
  <2>3. ~RecvMessage /\ ~CommitBoxes /\ ~StampEvent /\ \A f \in Frames : ~SendFrame(f)
    BY DEF RecvMessage, CommitBoxes, StampEvent, SendFrame
  <2> QED
    BY <2>1, <2>2, <2>3 DEF Next, Event
<1> DEFINE before == IF event = "first" THEN <<>> ELSE accumulator
           e      == Entry(Head(faces))
<1>3. accumulator' = Append(before, e)
  BY <1>2 DEF LookUpFace
<1>4. before \in Seq(Entries) /\ faces \in Seq(Nat) /\ faces # <<>>
  BY EmptySeq DEF OverlayInv, OverlayTypes, OneSource
<1>5. e \in Entries /\ e.named
  BY <1>1, <1>4, HeadTailProperties DEF Entry, Entries
<1> HIDE DEF before, e
<1>6. Last(Append(before, e)) = e
  BY <1>4, <1>5, AppendProperties DEF Last
<1> QED
  BY <1>3, <1>5, <1>6

\* While the file is undisturbed, a face that kt_app knows is drawn without a
\* name only if it is looked up between a list's open() and close() of the file.
\* Nothing is said of a file that lists left which came between each other, nor
\* of one that lacks an enrolment or whose list failed.
THEOREM KnownIsNamed == Spec => NamedIfKnown
<1>1. ProfileInv /\ OverlayInv /\ [Next]_vars =>
        [Lookup /\ accumulator' # accumulator /\ Head(faces) > 0 /\ ~disturbed
           /\ (\A t \in Threads, call \in Calls : pc[t] # Write(call))
         => Last(accumulator').named]_vars
  BY StepNames
<1> QED
  BY <1>1, InitProfiles, InitOverlay, NextInv, PTL DEF Spec, NamedIfKnown

=============================================================================
