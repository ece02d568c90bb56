-------------------------- MODULE StreamPageProofs --------------------------
(***************************************************************************)
(* One click on a page at rest makes its buttons and its panel true again, *)
(* whatever number of requests is under way.                               *)
(***************************************************************************)
EXTENDS StreamPage, TLAPS

Chains  == {"start", "stop", "none", "config", "timer", "status"}
Replies == {"Stopped", "Running", "Error", "none", "success", "error", "No Camera Found"}

Types ==
  /\ status \in {"Stopped", "Running", "Error"}
  /\ request \in [Threads -> {"start", "stop", "none", "done"}]
  /\ found \in BOOLEAN
  /\ chain \in [Threads -> Chains] /\ reply \in [Threads -> Replies]
  /\ {running, video, message, lost, overtaken} \subseteq BOOLEAN
  /\ feed \in {"none", "asked", "open", "ended"}

\* The answers on their way are ordered.
Order ==
  /\ before \in [Threads -> SUBSET OnItsWay]
  /\ \A t \in Threads \ OnItsWay : before[t] = {}
  /\ \A t, u \in OnItsWay : t # u => (t \in before[u] <=> u \notin before[t])
  /\ \A t \in Threads : t \notin before[t]

\* What a chain of the page waits for, and what the server does about it.
Linked(t) ==
  /\ request[t] \in {"start", "stop"} /\ chain[t] # "none" =>
       chain[t] = request[t] /\ reply[t] = "none"
  /\ chain[t] \in {"none", "config", "timer"} => reply[t] = "none"
  /\ chain[t] \in {"config", "timer", "status"} => request[t] = "none"
  /\ chain[t] = "stop" => reply[t] \in {"none", "success"}
  /\ chain[t] = "start" => reply[t] \in {"none", "success", "error"}
  /\ chain[t] = "status" => reply[t] \notin {"success", "error"}

\* As long as nothing is lost every request is one the page waits for, and a
\* server without a camera has said nothing else.
NotLost ==
  ~lost =>
    \A t \in Threads :
      /\ chain[t] = "none" => request[t] = "none"
      /\ reply[t] \notin {"error", "No Camera Found"}
      /\ ~found => chain[t] \notin {"timer", "status"} /\ (chain[t] = "start" => reply[t] = "none")

Camera == ~found => status # "Running"

\* A chain whose answer is still to be given
WillTell(t) ==
  \/ chain[t] \in {"config", "start", "timer"}
  \/ chain[t] \in {"stop", "status"} /\ reply[t] = "none"

Pending(t) == t \in OnItsWay /\ Telling(t)
Last(t)    == Pending(t) /\ \A u \in Threads : Pending(u) => t \notin before[u]

PanelAgrees ==
  /\ running <=> video
  /\ message <=> ~video
  /\ video <=> feed # "none"

\* When no answer is still to be given, the last of those that are on their way
\* is true, or what the page has been told is.
Informed ==
  ~lost /\ (\A t \in Threads : ~WillTell(t)) =>
    /\ ~overtaken =>
         /\ \A t \in Threads : Last(t) => (reply[t] = "Running" <=> status = "Running")
         /\ (\A t \in Threads : ~Pending(t)) => (running <=> status = "Running")
    /\ (\A t \in Threads : ~Pending(t)) => PanelAgrees

Base == Types /\ Order /\ (\A t \in Threads : Linked(t)) /\ NotLost /\ Camera
Inv  == Base /\ Informed

-----------------------------------------------------------------------------

\* What holds by the types and the order of answers
LEMMA InvType == Inv => TypeOK
  BY DEF Inv, Base, Types, Order, Linked, TypeOK, OnItsWay, Chains, Replies,
         Switch!TypeOK, Switch!Statuses, Switch!Kinds

LEMMA InvTruthful == Inv => ButtonsTruthful /\ PanelTruthful
<1> SUFFICES ASSUME Inv, Settled PROVE (running <=> status = "Running") /\ PanelAgrees
  BY DEF ButtonsTruthful, PanelTruthful, PanelAgrees
<1>1. \A t \in Threads : chain[t] = "none" /\ reply[t] = "none"
  BY DEF Settled, AtRest, Inv, Base, Linked
<1>2. \A t \in Threads : ~WillTell(t) /\ ~Pending(t)
  BY <1>1 DEF WillTell, Pending, OnItsWay
<1> QED
  BY <1>2 DEF Inv, Informed, Settled

LEMMA InitInv == Init => Inv
<1> SUFFICES ASSUME Init PROVE Inv
  OBVIOUS
<1>1. PICK t \in Threads : chain = [u \in Threads |-> IF u = t THEN "config" ELSE "none"]
  BY DEF Init
<1>2. Base
  BY <1>1 DEF Base, Init, Types, Order, OnItsWay, Linked, NotLost, Camera, Chains, Replies
<1>3. WillTell(t)
  BY <1>1 DEF WillTell
<1> QED
  BY <1>2, <1>3 DEF Inv, Informed

\* The page and the camera as they are, and what is shown of the video
LEMMA SameInv ==
  ASSUME Inv, UNCHANGED <<status, request, found, chain, reply, before, running, video, message,
                          lost, overtaken>>,
         feed' \in {"none", "asked", "open", "ended"}, feed' = "none" <=> feed = "none"
  PROVE  Inv'
<1>1. Base'
  BY DEF Inv, Base, Types, Order, OnItsWay, Linked, NotLost, Camera
<1>2. Informed'
  BY DEF Inv, Informed, WillTell, Pending, Last, OnItsWay, Telling, PanelAgrees
<1> QED
  BY <1>1, <1>2 DEF Inv

\* Somebody is going to tell, so there is nothing to say yet.
LEMMA Untold ==
  ASSUME Base', lost' \/ \E t \in Threads : WillTell(t)'
  PROVE  Inv'
  BY DEF Inv, Informed

-----------------------------------------------------------------------------
(* Answers begin and end to be on their way. *)

LEMMA GiveOrder ==
  ASSUME Types, Order, NEW t \in Threads, NEW answer \in Replies \ {"none"},
         reply[t] = "none", Give(t, answer)
  PROVE  /\ reply' \in [Threads -> Replies] /\ Order'
         /\ reply'[t] = answer /\ \A u \in Threads \ {t} : reply'[u] = reply[u]
         /\ OnItsWay' = OnItsWay \cup {t} /\ before'[t] = OnItsWay
<1>1. /\ reply' = [reply EXCEPT ![t] = answer]
      /\ before' = [before EXCEPT ![t] = OnItsWay]
  BY DEF Give
<1>2. /\ reply' \in [Threads -> Replies] /\ reply'[t] = answer
      /\ \A u \in Threads \ {t} : reply'[u] = reply[u]
  BY <1>1 DEF Types
<1>3. OnItsWay' = OnItsWay \cup {t}
  BY <1>2 DEF OnItsWay
<1>4. before'[t] = OnItsWay /\ \A u \in Threads \ {t} : before'[u] = before[u]
  BY <1>1 DEF Order
<1>5. t \notin OnItsWay /\ OnItsWay \subseteq Threads
  BY DEF OnItsWay
<1>6. Order'
  <2>1. before' \in [Threads -> SUBSET OnItsWay']
    BY <1>1, <1>3, <1>5 DEF Order
  <2> QED
    BY <1>3, <1>4, <1>5, <2>1 DEF Order
<1> QED
  BY <1>2, <1>3, <1>4, <1>6

LEMMA DropOrder ==
  ASSUME Types, Order, NEW t \in Threads, Drop(t)
  PROVE  /\ reply' \in [Threads -> Replies] /\ Order'
         /\ reply'[t] = "none" /\ \A u \in Threads \ {t} : reply'[u] = reply[u]
         /\ OnItsWay' = OnItsWay \ {t}
         /\ \A u \in Threads \ {t} : before'[u] = before[u] \ {t}
<1>1. /\ reply' = [reply EXCEPT ![t] = "none"]
      /\ before' = [u \in Threads |-> IF u = t THEN {} ELSE before[u] \ {t}]
  BY DEF Drop
<1>2. /\ reply' \in [Threads -> Replies] /\ reply'[t] = "none"
      /\ \A u \in Threads \ {t} : reply'[u] = reply[u]
  BY <1>1 DEF Types, Replies
<1>3. OnItsWay' = OnItsWay \ {t}
  BY <1>2 DEF OnItsWay
<1>4. before'[t] = {} /\ \A u \in Threads \ {t} : before'[u] = before[u] \ {t}
  BY <1>1
<1>5. Order'
  <2>1. \A u \in Threads : before'[u] \in SUBSET OnItsWay'
    BY <1>3, <1>4 DEF Order
  <2>2. before' \in [Threads -> SUBSET OnItsWay']
    BY <1>1, <2>1
  <2>3. OnItsWay \subseteq Threads
    BY DEF OnItsWay
  <2> QED
    BY <1>3, <1>4, <2>2, <2>3 DEF Order
<1> QED
  BY <1>2, <1>3, <1>4, <1>5

LEMMA NoneOrder ==
  ASSUME NoAnswers
  PROVE  reply' \in [Threads -> Replies] /\ Order' /\ \A t \in Threads : reply'[t] = "none"
<1>1. \A t \in Threads : reply'[t] = "none" /\ before'[t] = {}
  BY DEF NoAnswers
<1>2. OnItsWay' = {}
  BY <1>1 DEF OnItsWay
<1> QED
  BY <1>1, <1>2 DEF NoAnswers, Order, Replies

\* A chain goes on and the others do not.
LEMMA GoneOn ==
  ASSUME Types, NEW t \in Threads, NEW next \in Chains, chain' = [chain EXCEPT ![t] = next]
  PROVE  /\ chain' \in [Threads -> Chains] /\ chain'[t] = next
         /\ \A u \in Threads \ {t} : chain'[u] = chain[u]
  BY DEF Types

\* Nor does the server do anything but for the chain it serves.
LEMMA Served ==
  ASSUME Types, NEW t \in Threads, NEW r \in {"start", "stop", "none", "done"},
         request' = [request EXCEPT ![t] = r]
  PROVE  /\ request' \in [Threads -> {"start", "stop", "none", "done"}] /\ request'[t] = r
         /\ \A u \in Threads \ {t} : request'[u] = request[u]
  BY DEF Types

SameAnswers == UNCHANGED <<reply, before>>

LEMMA SameOrder ==
  ASSUME Order, SameAnswers
  PROVE  Order'
  BY DEF Order, SameAnswers, OnItsWay

-----------------------------------------------------------------------------
(* Requests *)

LEMMA ClickInv ==
  ASSUME Inv, NEW t \in Threads, NEW action \in {"start", "stop"}, controlCamera(t, action)
  PROVE  Inv'
<1>1. /\ chain[t] = "none" /\ request[t] = "none"
      /\ request' = [request EXCEPT ![t] = action] /\ chain' = [chain EXCEPT ![t] = action]
      /\ UNCHANGED <<status, found, running, video, message, feed>> /\ SameAnswers
      /\ IF AtRest THEN lost' = FALSE /\ overtaken' = FALSE ELSE UNCHANGED <<lost, overtaken>>
  BY DEF controlCamera, Free, Begin, Switch!Ask, view, history, SameAnswers
<1>2. /\ chain' \in [Threads -> Chains] /\ chain'[t] = action
      /\ \A u \in Threads \ {t} : chain'[u] = chain[u]
  BY <1>1, GoneOn DEF Inv, Base, Chains
<1>3. /\ request' \in [Threads -> {"start", "stop", "none", "done"}] /\ request'[t] = action
      /\ \A u \in Threads \ {t} : request'[u] = request[u]
  BY <1>1, Served DEF Inv, Base
<1>4. reply[t] = "none" /\ UNCHANGED reply
  BY <1>1 DEF Inv, Base, Linked, SameAnswers
<1>5. Types' /\ Order'
  BY <1>1, <1>2, <1>3, SameOrder DEF Inv, Base, Types, SameAnswers
<1>6. \A u \in Threads : Linked(u)'
  BY <1>1, <1>2, <1>3, <1>4 DEF Inv, Base, Linked
<1>7. NotLost'
  <2>1. CASE AtRest
    <3>1. \A u \in Threads : chain[u] = "none" /\ request[u] = "none" /\ reply[u] = "none"
      BY <2>1 DEF AtRest, Inv, Base, Linked
    <3> QED
      BY <1>2, <1>3, <1>4, <3>1 DEF NotLost
  <2>2. CASE ~AtRest
    BY <1>1, <1>2, <1>3, <1>4, <2>2 DEF Inv, Base, NotLost
  <2> QED
    BY <2>1, <2>2
<1>8. WillTell(t)'
  BY <1>2, <1>4 DEF WillTell
<1> QED
  BY <1>1, <1>5, <1>6, <1>7, <1>8, Untold DEF Inv, Base, Camera

LEMMA ConfigInv ==
  ASSUME Inv, NEW t \in Threads, ConfigLoaded(t)
  PROVE  Inv'
<1>1. /\ chain[t] = "config" /\ request[t] = "none"
      /\ request' = [request EXCEPT ![t] = "start"] /\ chain' = [chain EXCEPT ![t] = "start"]
      /\ UNCHANGED <<status, found, running, video, message, feed, lost, overtaken>> /\ SameAnswers
  BY DEF ConfigLoaded, Switch!Ask, view, history, SameAnswers
<1>2. /\ chain' \in [Threads -> Chains] /\ chain'[t] = "start"
      /\ \A u \in Threads \ {t} : chain'[u] = chain[u]
  BY <1>1, GoneOn DEF Inv, Base, Chains
<1>3. /\ request' \in [Threads -> {"start", "stop", "none", "done"}] /\ request'[t] = "start"
      /\ \A u \in Threads \ {t} : request'[u] = request[u]
  BY <1>1, Served DEF Inv, Base
<1>4. reply[t] = "none" /\ UNCHANGED reply
  BY <1>1 DEF Inv, Base, Linked, SameAnswers
<1>5. Types' /\ Order'
  BY <1>1, <1>2, <1>3, SameOrder DEF Inv, Base, Types, SameAnswers
<1>6. (\A u \in Threads : Linked(u)') /\ NotLost'
  BY <1>1, <1>2, <1>3, <1>4 DEF Inv, Base, Linked, NotLost
<1>7. WillTell(t)'
  BY <1>2 DEF WillTell
<1> QED
  BY <1>1, <1>5, <1>6, <1>7, Untold DEF Inv, Base, Camera

LEMMA ReloadInv ==
  ASSUME Inv, NEW t \in Threads, Reload(t)
  PROVE  Inv'
<1>1. /\ chain' = [u \in Threads |-> IF u = t THEN "config" ELSE "none"]
      /\ NoAnswers /\ lost' = ~AtRest /\ overtaken' = FALSE /\ FreshView
      /\ request[t] = "none" /\ UNCHANGED <<status, request, found>>
  BY DEF Reload, Free, server
<1>2. reply' \in [Threads -> Replies] /\ Order' /\ \A u \in Threads : reply'[u] = "none"
  BY <1>1, NoneOrder
<1>3. Types'
  BY <1>1, <1>2 DEF Inv, Base, Types, FreshView, Chains
<1>4. \A u \in Threads : Linked(u)'
  BY <1>1, <1>2 DEF Inv, Base, Linked
<1>5. NotLost'
  BY <1>1, <1>2 DEF AtRest, NotLost
<1>6. WillTell(t)'
  BY <1>1 DEF WillTell
<1> QED
  BY <1>1, <1>2, <1>3, <1>4, <1>5, <1>6, Untold DEF Inv, Base, Camera

LEMMA RestartInv ==
  ASSUME Inv, Restart
  PROVE  Inv'
<1>1. /\ status' = "Stopped" /\ found' \in BOOLEAN
      /\ request' = [t \in Threads |-> "none"] /\ NoAnswers
      /\ feed' \in {feed, "none", "ended"} /\ lost' = TRUE
      /\ UNCHANGED <<chain, running, video, message, overtaken>>
  BY DEF Restart
<1>2. reply' \in [Threads -> Replies] /\ Order' /\ \A u \in Threads : reply'[u] = "none"
  BY <1>1, NoneOrder
<1>3. Types' /\ NotLost' /\ Camera'
  BY <1>1, <1>2 DEF Inv, Base, Types, NotLost, Camera
<1>4. \A u \in Threads : Linked(u)'
  BY <1>1, <1>2 DEF Inv, Base, Linked
<1> QED
  BY <1>1, <1>2, <1>3, <1>4, Untold DEF Base

-----------------------------------------------------------------------------
(* The server *)

LEMMA TakeEffectInv ==
  ASSUME Inv, NEW t \in Threads, camera_control(t)
  PROVE  Inv'
<1>1. /\ request[t] \in {"start", "stop"} /\ request' = [request EXCEPT ![t] = "done"]
      /\ status' \in Switch!After(request[t], status)
      /\ found \/ request[t] = "stop"
      /\ GiveToPage(t, "success")
      /\ UNCHANGED <<found, chain, running, video, message, feed, lost, overtaken>>
  BY DEF camera_control, Switch!TakeEffect, Switch!Kinds, view, history
<1>2. /\ request' \in [Threads -> {"start", "stop", "none", "done"}] /\ request'[t] = "done"
      /\ \A u \in Threads \ {t} : request'[u] = request[u]
  BY <1>1, Served DEF Inv, Base
<1>3. /\ status' \in {"Stopped", "Running", "Error"}
      /\ request[t] = "stop" => status' # "Running"
  BY <1>1 DEF Switch!After, Inv, Base, Types
<1>4. Camera'
  BY <1>1, <1>3 DEF Camera
<1>5. CASE chain[t] = "none"
  <2>1. SameAnswers /\ lost'
    BY <1>1, <1>5 DEF GiveToPage, SameAnswers, Inv, Base, Types, NotLost
  <2>2. Types' /\ Order'
    BY <1>1, <1>2, <1>3, <2>1, SameOrder DEF Inv, Base, Types, SameAnswers
  <2>3. (\A u \in Threads : Linked(u)') /\ NotLost'
    BY <1>1, <1>2, <1>5, <2>1 DEF Inv, Base, Linked, NotLost, SameAnswers
  <2> QED
    BY <1>4, <2>1, <2>2, <2>3, Untold DEF Base
<1>6. CASE chain[t] # "none"
  <2>1. chain[t] = request[t] /\ reply[t] = "none" /\ Give(t, "success")
    BY <1>1, <1>6 DEF GiveToPage, Inv, Base, Linked
  <2>2. /\ reply' \in [Threads -> Replies] /\ Order'
        /\ reply'[t] = "success" /\ \A u \in Threads \ {t} : reply'[u] = reply[u]
        /\ OnItsWay' = OnItsWay \cup {t} /\ before'[t] = OnItsWay
    BY <2>1, GiveOrder DEF Inv, Base, Replies
  <2>3. Types'
    BY <1>1, <1>2, <1>3, <2>2 DEF Inv, Base, Types
  <2>4. (\A u \in Threads : Linked(u)') /\ NotLost'
    <3>1. \A u \in Threads : Linked(u)'
      BY <1>1, <1>2, <2>1, <2>2 DEF Inv, Base, Linked
    <3>2. ~found => chain[t] = "stop"
      BY <1>1, <2>1
    <3> QED
      BY <1>1, <1>2, <2>1, <2>2, <3>1, <3>2 DEF Inv, Base, NotLost
  <2>5. Base'
    BY <1>4, <2>2, <2>3, <2>4 DEF Base
  <2>6. CASE request[t] = "start"
    <3>1. WillTell(t)'
      BY <1>1, <2>1, <2>6 DEF WillTell
    <3> QED
      BY <2>5, <3>1, Untold
  <2>7. CASE request[t] = "stop"
    <3>1. Pending(t)'
      BY <1>1, <2>1, <2>2, <2>7 DEF Pending, Telling
    <3>2. ASSUME NEW u \in Threads, Last(u)' PROVE u = t
      BY <2>2, <3>1, <3>2 DEF Last, Pending
    <3>3. reply'[t] # "Running" /\ status' # "Running"
      BY <1>3, <2>2, <2>7
    <3> QED
      BY <2>5, <3>1, <3>2, <3>3 DEF Inv, Informed
  <2> QED
    BY <1>1, <2>6, <2>7
<1> QED
  BY <1>5, <1>6

LEMMA RaisesInv ==
  ASSUME Inv, NEW t \in Threads, camera_control_raises(t)
  PROVE  Inv'
<1>1. /\ request[t] = "start" /\ request' = [request EXCEPT ![t] = "done"]
      /\ GiveToPage(t, "error") /\ lost' = TRUE
      /\ UNCHANGED <<status, found, chain, running, video, message, feed, overtaken>>
  BY DEF camera_control_raises, view
<1>2. /\ request' \in [Threads -> {"start", "stop", "none", "done"}] /\ request'[t] = "done"
      /\ \A u \in Threads \ {t} : request'[u] = request[u]
  BY <1>1, Served DEF Inv, Base
<1>3. Order' /\ Types' /\ \A u \in Threads : Linked(u)'
  <2>1. CASE chain[t] = "none"
    <3>1. SameAnswers
      BY <1>1, <2>1 DEF GiveToPage, SameAnswers
    <3> QED
      BY <1>1, <1>2, <2>1, <3>1, SameOrder DEF Inv, Base, Types, Linked, SameAnswers
  <2>2. CASE chain[t] # "none"
    <3>1. chain[t] = "start" /\ reply[t] = "none" /\ Give(t, "error")
      BY <1>1, <2>2 DEF GiveToPage, Inv, Base, Linked
    <3>2. /\ reply' \in [Threads -> Replies] /\ Order'
          /\ reply'[t] = "error" /\ \A u \in Threads \ {t} : reply'[u] = reply[u]
      BY <3>1, GiveOrder DEF Inv, Base, Replies
    <3>3. Types'
      BY <1>1, <1>2, <3>2 DEF Inv, Base, Types
    <3> QED
      BY <1>1, <1>2, <3>1, <3>2, <3>3 DEF Inv, Base, Linked
  <2> QED
    BY <2>1, <2>2
<1> QED
  BY <1>1, <1>3, Untold DEF Inv, Base, NotLost, Camera

LEMMA OrphanInv ==
  ASSUME Inv, NEW t \in Threads, EndOrphan(t)
  PROVE  Inv'
<1>1. /\ chain[t] = "none" /\ request' = [request EXCEPT ![t] = "none"]
      /\ UNCHANGED <<status, found, chain, reply, before, running, video, message, feed,
                     lost, overtaken>>
  BY DEF EndOrphan, Switch!Answer, view, history
<1>2. /\ request' \in [Threads -> {"start", "stop", "none", "done"}] /\ request'[t] = "none"
      /\ \A u \in Threads \ {t} : request'[u] = request[u]
  BY <1>1, Served DEF Inv, Base
<1>3. Base'
  <2>1. Types' /\ Order' /\ Camera'
    BY <1>1, <1>2 DEF Inv, Base, Types, Order, OnItsWay, Camera
  <2>2. \A u \in Threads : Linked(u)'
    BY <1>1, <1>2 DEF Inv, Base, Linked
  <2>3. NotLost'
    BY <1>1, <1>2 DEF Inv, Base, NotLost
  <2> QED
    BY <2>1, <2>2, <2>3 DEF Base
<1>4. Informed'
  BY <1>1 DEF Inv, Informed, WillTell, Pending, Last, OnItsWay, Telling, PanelAgrees
<1> QED
  BY <1>3, <1>4 DEF Inv

LEMMA StatusInv ==
  ASSUME Inv, NEW t \in Threads, camera_status(t)
  PROVE  Inv'
<1> DEFINE answer == IF found THEN status ELSE "No Camera Found"
<1>1. /\ chain[t] = "status" /\ reply[t] = "none" /\ Give(t, answer)
      /\ UNCHANGED <<status, request, found, chain, running, video, message, feed, lost, overtaken>>
  BY DEF camera_status, server, view, history
<1>2. /\ answer \in Replies \ {"none", "success", "error"}
      /\ answer = "Running" <=> status = "Running"
      /\ answer = "No Camera Found" => ~found
  BY DEF Inv, Base, Types, Camera, Replies
<1> HIDE DEF answer
<1>3. /\ reply' \in [Threads -> Replies] /\ Order'
      /\ reply'[t] = answer /\ \A u \in Threads \ {t} : reply'[u] = reply[u]
      /\ OnItsWay' = OnItsWay \cup {t} /\ before'[t] = OnItsWay
  BY <1>1, <1>2, GiveOrder DEF Inv, Base
<1>4. Types'
  BY <1>1, <1>3 DEF Inv, Base, Types
<1>5. \A u \in Threads : Linked(u)'
  BY <1>1, <1>2, <1>3 DEF Inv, Base, Linked
<1>6. NotLost'
  BY <1>1, <1>2, <1>3 DEF Inv, Base, NotLost
<1>7. Pending(t)'
  BY <1>1, <1>3 DEF Pending, Telling
<1>8. ASSUME NEW u \in Threads, Last(u)' PROVE u = t
  BY <1>3, <1>7, <1>8 DEF Last, Pending
<1> QED
  BY <1>1, <1>2, <1>3, <1>4, <1>5, <1>6, <1>7, <1>8 DEF Inv, Base, Camera, Informed

-----------------------------------------------------------------------------
(* Answers *)

\* The answer taken was true if no other is to come: it was the last, unless it
\* came before one that the server had given earlier.
LEMMA ToldInv ==
  ASSUME Inv, NEW t \in Threads, Take(t), Telling(t), Base',
         chain' = [chain EXCEPT ![t] = "none"], UNCHANGED <<status, lost>>,
         running' = (reply[t] = "Running"), ~lost => PanelAgrees'
  PROVE  Inv'
<1>1. /\ t \in OnItsWay /\ Drop(t)
      /\ overtaken' = (overtaken \/ \E u \in before[t] : Telling(u))
  BY DEF Take
<1>2. /\ reply'[t] = "none" /\ \A u \in Threads \ {t} : reply'[u] = reply[u]
      /\ OnItsWay' = OnItsWay \ {t}
      /\ \A u \in Threads \ {t} : before'[u] = before[u] \ {t}
  BY <1>1, DropOrder DEF Inv, Base
<1>3. chain'[t] = "none" /\ \A u \in Threads \ {t} : chain'[u] = chain[u]
  BY GoneOn DEF Inv, Base, Chains
<1>4. Pending(t) /\ reply[t] # "none"
  BY <1>1 DEF Pending, OnItsWay
<1>5. \A u \in Threads \ {t} : (WillTell(u) <=> WillTell(u)') /\ (Pending(u) <=> Pending(u)')
  BY <1>2, <1>3 DEF WillTell, Pending, Telling
<1>6. ~WillTell(t)
  BY <1>4 DEF WillTell, Pending, Telling
<1>7. SUFFICES ASSUME ~lost, \A u \in Threads : ~WillTell(u)', ~overtaken'
               PROVE  /\ \A u \in Threads : Last(u)' => (reply'[u] = "Running" <=> status' = "Running")
                      /\ (\A u \in Threads : ~Pending(u)') => (running' <=> status' = "Running")
  BY DEF Inv, Informed
<1>8. /\ ~overtaken /\ \A u \in before[t] : ~Telling(u)
      /\ \A u \in Threads : ~WillTell(u)
  BY <1>1, <1>5, <1>6, <1>7 DEF Inv, Base, Types
<1>9. \A u \in Threads : Last(u) => (reply[u] = "Running" <=> status = "Running")
  BY <1>7, <1>8 DEF Inv, Informed
<1>10. ASSUME NEW u \in Threads, Last(u)' PROVE reply'[u] = "Running" <=> status' = "Running"
  <2>1. u # t /\ Pending(u)
    BY <1>2, <1>5, <1>10 DEF Last, Pending
  <2>2. ASSUME NEW w \in Threads, Pending(w) PROVE u \notin before[w]
    <3>1. CASE w = t
      BY <1>8, <2>1, <3>1 DEF Pending
    <3>2. CASE w # t
      BY <1>2, <1>5, <1>10, <2>1, <2>2, <3>2 DEF Last
    <3> QED
      BY <3>1, <3>2
  <2>3. Last(u)
    BY <2>1, <2>2 DEF Last
  <2> QED
    BY <1>2, <1>9, <2>1, <2>3
<1>11. ASSUME \A u \in Threads : ~Pending(u)' PROVE running' <=> status' = "Running"
  <2>1. \A u \in Threads : Pending(u) => u = t
    BY <1>5, <1>11
  <2>2. Last(t)
    BY <1>4, <2>1 DEF Last, Inv, Base, Order
  <2> QED
    BY <1>9, <2>2
<1> QED
  BY <1>10, <1>11

LEMMA StartedInv ==
  ASSUME Inv, NEW t \in Threads, StartAnswered(t)
  PROVE  Inv'
<1>1. /\ chain[t] = "start" /\ reply[t] = "success" /\ Drop(t) /\ overtaken' \in BOOLEAN
      /\ request' = [request EXCEPT ![t] = "none"] /\ chain' = [chain EXCEPT ![t] = "timer"]
      /\ UNCHANGED <<status, found, running, video, message, feed, lost>>
  BY DEF StartAnswered, Take, Switch!Answer, GoOn, view, Inv, Base, Types
<1>2. /\ reply' \in [Threads -> Replies] /\ Order'
      /\ reply'[t] = "none" /\ \A u \in Threads \ {t} : reply'[u] = reply[u]
  BY <1>1, DropOrder DEF Inv, Base
<1>3. /\ chain' \in [Threads -> Chains] /\ chain'[t] = "timer"
      /\ \A u \in Threads \ {t} : chain'[u] = chain[u]
  BY <1>1, GoneOn DEF Inv, Base, Chains
<1>4. /\ request' \in [Threads -> {"start", "stop", "none", "done"}] /\ request'[t] = "none"
      /\ \A u \in Threads \ {t} : request'[u] = request[u]
  BY <1>1, Served DEF Inv, Base
<1>5. Types' /\ Camera' /\ \A u \in Threads : Linked(u)'
  BY <1>1, <1>2, <1>3, <1>4 DEF Inv, Base, Types, Camera, Linked
<1>6. NotLost'
  <2>1. lost \/ found
    BY <1>1 DEF Inv, Base, NotLost
  <2> QED
    BY <1>1, <1>2, <1>3, <1>4, <2>1 DEF Inv, Base, NotLost
<1>7. WillTell(t)'
  BY <1>3 DEF WillTell
<1> QED
  BY <1>2, <1>5, <1>6, <1>7, Untold DEF Base

LEMMA TimerInv ==
  ASSUME Inv, NEW t \in Threads, TimerExpires(t)
  PROVE  Inv'
<1>1. /\ chain[t] = "timer" /\ chain' = [chain EXCEPT ![t] = "status"] /\ SameAnswers
      /\ UNCHANGED <<status, request, found, running, video, message, feed, lost, overtaken>>
  BY DEF TimerExpires, GoOn, server, view, history, SameAnswers
<1>2. /\ chain' \in [Threads -> Chains] /\ chain'[t] = "status"
      /\ \A u \in Threads \ {t} : chain'[u] = chain[u]
  BY <1>1, GoneOn DEF Inv, Base, Chains
<1>3. reply[t] = "none" /\ UNCHANGED reply
  BY <1>1 DEF Inv, Base, Linked, SameAnswers
<1>4. Types' /\ Order' /\ Camera'
  BY <1>1, <1>2, SameOrder DEF Inv, Base, Types, Camera, SameAnswers
<1>5. (\A u \in Threads : Linked(u)') /\ NotLost'
  BY <1>1, <1>2, <1>3 DEF Inv, Base, Linked, NotLost
<1>6. WillTell(t)'
  BY <1>2, <1>3 DEF WillTell
<1> QED
  BY <1>4, <1>5, <1>6, Untold DEF Base

LEMMA StoppedInv ==
  ASSUME Inv, NEW t \in Threads, StopAnswered(t)
  PROVE  Inv'
<1>1. /\ chain[t] = "stop" /\ reply[t] = "success" /\ Take(t)
      /\ request' = [request EXCEPT ![t] = "none"] /\ chain' = [chain EXCEPT ![t] = "none"]
      /\ running' = FALSE /\ video' = FALSE /\ message' = TRUE /\ feed' = "none"
      /\ UNCHANGED <<status, found, lost>>
  BY DEF StopAnswered, Switch!Answer, GoOn, showStoppedMsg, setStreamButtonsState
<1>2. /\ reply' \in [Threads -> Replies] /\ Order'
      /\ reply'[t] = "none" /\ \A u \in Threads \ {t} : reply'[u] = reply[u]
      /\ overtaken' \in BOOLEAN
  BY <1>1, DropOrder DEF Inv, Base, Types, Take
<1>3. /\ chain' \in [Threads -> Chains] /\ chain'[t] = "none"
      /\ \A u \in Threads \ {t} : chain'[u] = chain[u]
  BY <1>1, GoneOn DEF Inv, Base, Chains
<1>4. /\ request' \in [Threads -> {"start", "stop", "none", "done"}] /\ request'[t] = "none"
      /\ \A u \in Threads \ {t} : request'[u] = request[u]
  BY <1>1, Served DEF Inv, Base
<1>5. Types' /\ Camera' /\ \A u \in Threads : Linked(u)'
  <2>1. Types' /\ Camera'
    BY <1>1, <1>2, <1>3, <1>4 DEF Inv, Base, Types, Camera
  <2>2. Linked(t)'
    BY <1>2, <1>3, <1>4 DEF Linked
  <2>3. ASSUME NEW u \in Threads \ {t} PROVE Linked(u)'
    BY <1>2, <1>3, <1>4 DEF Inv, Base, Linked
  <2> QED
    BY <2>1, <2>2, <2>3
<1>6. NotLost'
  <2>1. UNCHANGED <<found, lost>>
    BY <1>1
  <2> QED
    BY <1>2, <1>3, <1>4, <2>1 DEF Inv, Base, NotLost
<1>7. PanelAgrees' /\ Telling(t) /\ running' = (reply[t] = "Running")
  BY <1>1 DEF PanelAgrees, Telling
<1> QED
  BY <1>1, <1>2, <1>5, <1>6, <1>7, ToldInv DEF Base

LEMMA RefusedInv ==
  ASSUME Inv, NEW t \in Threads, ControlRefused(t)
  PROVE  Inv'
<1>1. /\ reply[t] = "error" /\ Drop(t) /\ overtaken' \in BOOLEAN
      /\ request' = [request EXCEPT ![t] = "none"] /\ chain' = [chain EXCEPT ![t] = "none"]
      /\ video' = FALSE /\ message' = TRUE
      /\ UNCHANGED <<status, found, running, feed, lost>>
  BY DEF ControlRefused, Take, Switch!Answer, GoOn, showCameraError, Inv, Base, Types
<1>2. /\ reply' \in [Threads -> Replies] /\ Order'
      /\ reply'[t] = "none" /\ \A u \in Threads \ {t} : reply'[u] = reply[u]
  BY <1>1, DropOrder DEF Inv, Base
<1>3. /\ chain' \in [Threads -> Chains] /\ chain'[t] = "none"
      /\ \A u \in Threads \ {t} : chain'[u] = chain[u]
  BY <1>1, GoneOn DEF Inv, Base, Chains
<1>4. /\ request' \in [Threads -> {"start", "stop", "none", "done"}] /\ request'[t] = "none"
      /\ \A u \in Threads \ {t} : request'[u] = request[u]
  BY <1>1, Served DEF Inv, Base
<1>5. Types' /\ Camera' /\ \A u \in Threads : Linked(u)'
  <2>1. Types' /\ Camera'
    BY <1>1, <1>2, <1>3, <1>4 DEF Inv, Base, Types, Camera
  <2>2. Linked(t)'
    BY <1>2, <1>3, <1>4 DEF Linked
  <2>3. ASSUME NEW u \in Threads \ {t} PROVE Linked(u)'
    BY <1>2, <1>3, <1>4 DEF Inv, Base, Linked
  <2> QED
    BY <2>1, <2>2, <2>3
<1>6. lost'
  BY <1>1 DEF Inv, Base, Types, NotLost
<1> QED
  BY <1>2, <1>5, <1>6, Untold DEF Base, NotLost

LEMMA StatusTakenInv ==
  ASSUME Inv, NEW t \in Threads, updateCameraUI(t)
  PROVE  Inv'
<1>1. /\ chain[t] = "status" /\ Take(t) /\ chain' = [chain EXCEPT ![t] = "none"]
      /\ running' = (reply[t] = "Running")
      /\ UNCHANGED <<status, request, found, lost>>
  BY DEF updateCameraUI, GoOn, setStreamButtonsState, server
<1>2. /\ video' \in BOOLEAN /\ message' \in BOOLEAN /\ feed' \in {feed, "none", "asked"}
      /\ reply[t] # "No Camera Found" => PanelAgrees'
  BY DEF updateCameraUI, showCameraError, showStream, showStoppedMsg, setStreamButtonsState,
         PanelAgrees
<1>3. /\ reply' \in [Threads -> Replies] /\ Order'
      /\ reply'[t] = "none" /\ \A u \in Threads \ {t} : reply'[u] = reply[u]
      /\ overtaken' \in BOOLEAN
  BY <1>1, DropOrder DEF Inv, Base, Types, Take
<1>4. /\ chain' \in [Threads -> Chains] /\ chain'[t] = "none"
      /\ \A u \in Threads \ {t} : chain'[u] = chain[u]
  BY <1>1, GoneOn DEF Inv, Base, Chains
<1>5. Types' /\ Camera'
  BY <1>1, <1>2, <1>3, <1>4 DEF Inv, Base, Types, Camera
<1>6. (\A u \in Threads : Linked(u)') /\ NotLost'
  BY <1>1, <1>3, <1>4 DEF Inv, Base, Linked, NotLost
<1>7. Telling(t) /\ (~lost => PanelAgrees')
  BY <1>1, <1>2 DEF Telling, Inv, Base, NotLost
<1> QED
  BY <1>1, <1>3, <1>5, <1>6, <1>7, ToldInv DEF Base

LEMMA FailsInv ==
  ASSUME Inv, NEW t \in Threads, FetchFails(t)
  PROVE  Inv'
<1>1. /\ chain' = [chain EXCEPT ![t] = "none"] /\ Drop(t) /\ lost' = TRUE
      /\ UNCHANGED <<status, request, found, running, overtaken>>
      /\ video' \in {video, FALSE} /\ message' \in {message, TRUE} /\ feed' = feed
  BY DEF FetchFails, GoOn, showCameraError, server
<1>2. /\ reply' \in [Threads -> Replies] /\ Order'
      /\ reply'[t] = "none" /\ \A u \in Threads \ {t} : reply'[u] = reply[u]
  BY <1>1, DropOrder DEF Inv, Base
<1>3. /\ chain' \in [Threads -> Chains] /\ chain'[t] = "none"
      /\ \A u \in Threads \ {t} : chain'[u] = chain[u]
  BY <1>1, GoneOn DEF Inv, Base, Chains
<1>4. Types' /\ Camera'
  BY <1>1, <1>2, <1>3 DEF Inv, Base, Types, Camera
<1>5. \A u \in Threads : Linked(u)'
  BY <1>1, <1>2, <1>3 DEF Inv, Base, Linked
<1> QED
  BY <1>1, <1>2, <1>4, <1>5, Untold DEF Base, NotLost

-----------------------------------------------------------------------------
(* The theorems *)

LEMMA NextInv == Inv /\ [Next]_vars => Inv'
<1> SUFFICES ASSUME Inv, [Next]_vars PROVE Inv'
  OBVIOUS
<1>1. CASE UNCHANGED vars
  BY <1>1, SameInv DEF vars, server, view, history, Inv, Base, Types
<1>2. ASSUME NEW t \in Threads, ClickStart(t) \/ ClickStop(t) PROVE Inv'
  BY <1>2, ClickInv DEF ClickStart, ClickStop
<1>3. ASSUME NEW t \in Threads, Reload(t) PROVE Inv'
  BY <1>3, ReloadInv
<1>4. ASSUME NEW t \in Threads, Serve(t) PROVE Inv'
  BY <1>4, TakeEffectInv, RaisesInv, OrphanInv, StatusInv DEF Serve
<1>5. ASSUME NEW t \in Threads, Handle(t) PROVE Inv'
  BY <1>5, ConfigInv, StartedInv, StoppedInv, RefusedInv, TimerInv, StatusTakenInv, FailsInv
     DEF Handle
<1>6. CASE video_feed_clnx \/ GeneratorLeaves
  BY <1>6, SameInv DEF video_feed_clnx, GeneratorLeaves, server, history
<1>7. CASE Restart
  BY <1>7, RestartInv
<1> QED
  BY <1>1, <1>2, <1>3, <1>4, <1>5, <1>6, <1>7 DEF Next

\* Types, no answer that nobody waits for, and the answers on their way ordered.
THEOREM TypeCorrect == Spec => []TypeOK
  BY InitInv, NextInv, InvType, PTL DEF Spec

\* What the buttons say is true of the server whenever the page is at rest and
\* nothing was lost or overtaken since a click at rest.
THEOREM Buttons == Spec => []ButtonsTruthful
<1>1. Inv => ButtonsTruthful
  BY InvTruthful
<1> QED
  BY <1>1, InitInv, NextInv, PTL DEF Spec

\* And so is what the panel shows.
THEOREM Panel == Spec => []PanelTruthful
<1>1. Inv => PanelTruthful
  BY InvTruthful
<1> QED
  BY <1>1, InitInv, NextInv, PTL DEF Spec

=============================================================================
