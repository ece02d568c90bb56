------------------------------ MODULE HubLink ------------------------------
(***************************************************************************)
(* The serial link between HUB and a GARD, seen from the one thread that   *)
(* uses it: the KtLib dispatcher alternates between looking for a command  *)
(* of the GARD (hub_check_and_execute_gard_command) and the idle callback, *)
(* from which the application issues requests (hub_execute_hub_request).   *)
(*                                                                         *)
(* The bytes of one dal_read or dal_write are one unit of a channel; a     *)
(* payload after its peek is as many units as its size says. The GARD      *)
(* firmware is not part of the repository: it is the environment that the  *)
(* HUB code expects, one that answers the requests in order.               *)
(***************************************************************************)
EXTENDS Integers, Sequences, FiniteSets

CONSTANTS
  Sends,        \* what GARD sends, in order: the size of the payload, whether
                \* it is of a known kind, whether bytes of it look like a sync
  BufferSize,   \* the buffer KtLib offers for a payload, in units
  Kinds,        \* requests issued: "app", "reg" or "data"
  MaxRequests,  \* bound: requests in a behaviour
  MaxErrors,    \* bound: short reads and failed writes in a behaviour
  Crossing      \* may GARD and HUB both start talking at the same time?

ASSUME HubAssumption ==
  /\ Sends \in Seq([size : Nat \ {0}, known : BOOLEAN, alike : BOOLEAN])
  /\ BufferSize \in Nat /\ MaxRequests \in Nat /\ MaxErrors \in Nat
  /\ Kinds \subseteq {"app", "reg", "data"}
  /\ Crossing \in BOOLEAN

VARIABLES
  pc,                 \* where the dispatcher thread is
  command_execution,  \* the flag of struct hub_gard_info
  stop,               \* kc__stop_dispatcher_loop
  req,                \* the request being executed
  requests,           \* requests issued so far
  answers,            \* requests that returned true, with what they read
  frame,              \* the App Layer send being received
  delivered,          \* what handle_gard_send was called with
  toHub, toGard,      \* the two directions of the serial line
  gard,               \* is GARD idle or waiting for a sync response?
  sent,               \* App Layer sends completed by GARD
  errors              \* reads and writes that failed

hub == <<pc, command_execution, stop, req, requests, answers, frame, delivered>>
vars == <<hub, toHub, toGard, gard, sent, errors>>

Unit(kind, of) == [kind |-> kind, of |-> of]

\* The payload of the n-th send: the first bytes tell its kind.
Payload(n) ==
  [i \in 1 .. Sends[n].size |->
     Unit(CASE i = 1 -> "peek"
            [] i > 1 /\ ~Sends[n].alike -> "data"
            [] i > 1 /\ Sends[n].alike -> IF i % 2 = 0 THEN "sync" ELSE "gardId",
          n)]

NoReq   == [id |-> 0, kind |-> "none", clean |-> FALSE, got |-> << >>]
NoFrame == [size |-> 0, got |-> << >>]

-----------------------------------------------------------------------------
(* dal_uart_read and dal_uart_write. The select() timeout never ends a     *)
(* read: it goes on until count bytes have come or the device fails, when  *)
(* it returns what it has taken.                                           *)

First(n) == SubSeq(toHub, 1, n)
Taken(n) == toHub' = SubSeq(toHub, n + 1, Len(toHub))

ReadOk(n) == /\ Len(toHub) >= n
             /\ Taken(n)
             /\ UNCHANGED <<toGard, errors>>

ReadShort(n) == /\ errors < MaxErrors
                /\ \E k \in 0 .. n - 1 : k <= Len(toHub) /\ Taken(k)
                /\ errors' = errors + 1
                /\ UNCHANGED toGard

WriteOk(u) == /\ toGard' = Append(toGard, u)
              /\ UNCHANGED <<toHub, errors>>

WriteFails == /\ errors < MaxErrors
              /\ errors' = errors + 1
              /\ UNCHANGED <<toHub, toGard>>

Goto(l) == pc' = l

-----------------------------------------------------------------------------
(* hub_check_and_execute_gard_command.                                     *)

\* Nothing is read while a request is marked as executing.
CommandInProgress ==
  /\ pc = "check" /\ command_execution
  /\ Goto("idle")
  /\ UNCHANGED <<command_execution, stop, req, requests, answers, frame,
                 delivered, toHub, toGard, gard, sent, errors>>

\* One byte; anything but an Originator Sync is dropped.
ReadCommandByte ==
  /\ pc = "check" /\ ~command_execution
  /\ \/ /\ ReadOk(1)
        /\ Goto(IF Head(toHub).kind = "sync" THEN "originator" ELSE "idle")
     \/ ReadShort(1) /\ Goto("idle")
  /\ UNCHANGED <<command_execution, stop, req, requests, answers, frame,
                 delivered, gard, sent>>

ReadOriginator ==
  /\ pc = "originator"
  /\ \/ /\ ReadOk(1)
        /\ Goto(IF Head(toHub).kind = "gardId" THEN "respond" ELSE "idle")
     \/ ReadShort(1) /\ Goto("idle")
  /\ UNCHANGED <<command_execution, stop, req, requests, answers, frame,
                 delivered, gard, sent>>

WriteSyncResponse ==
  /\ pc = "respond"
  /\ \/ /\ WriteOk(Unit("syncResponse", 0))
        /\ command_execution' = TRUE
        /\ Goto("header")
     \/ /\ WriteFails
        /\ Goto("idle")
        /\ UNCHANGED command_execution
  /\ UNCHANGED <<stop, req, requests, answers, frame, delivered, gard, sent>>

\* Every way out of hub_handle_app_layer_send_data ends the command.
\* Mutant: the flag is not taken down.
EndSend_flagUp == Goto("idle") /\ frame' = NoFrame /\ UNCHANGED command_execution

EndSend == /\ command_execution' = FALSE
           /\ Goto("idle")
           /\ frame' = NoFrame

\* The command ID with the payload size.
ReadSendHeader ==
  /\ pc = "header"
  /\ \/ /\ ReadOk(1)
        /\ LET size == IF Head(toHub).kind = "send"
                       THEN Sends[Head(toHub).of].size ELSE 0
           IN IF size = 0 THEN EndSend
              ELSE /\ frame' = [size |-> size, got |-> << >>]
                   /\ Goto("peek")
                   /\ UNCHANGED command_execution
     \/ ReadShort(1) /\ EndSend
  /\ UNCHANGED <<stop, req, requests, answers, delivered, gard, sent>>

\* Kt_GetBufferForGardSendData knows two kinds of payload, by its first bytes.
KnownPayload(u) == u.kind = "peek" /\ Sends[u.of].known

\* Mutant: a payload has to be smaller than the buffer.
ReadPeek_smaller ==
  /\ pc = "peek"
  /\ \/ /\ ReadOk(1)
        /\ IF KnownPayload(Head(toHub)) /\ BufferSize > frame.size
           THEN /\ frame' = [frame EXCEPT !.got = First(1)]
                /\ Goto("payload")
                /\ UNCHANGED command_execution
           ELSE EndSend
     \/ ReadShort(1) /\ EndSend
  /\ UNCHANGED <<stop, req, requests, answers, delivered, gard, sent>>

\* The first bytes decide on the buffer. A payload that is refused stays on
\* the line.
ReadPeek ==
  /\ pc = "peek"
  /\ \/ /\ ReadOk(1)
        /\ IF KnownPayload(Head(toHub)) /\ BufferSize >= frame.size
           THEN /\ frame' = [frame EXCEPT !.got = First(1)]
                /\ Goto("payload")
                /\ UNCHANGED command_execution
           ELSE EndSend
     \/ ReadShort(1) /\ EndSend
  /\ UNCHANGED <<stop, req, requests, answers, delivered, gard, sent>>

\* Mutant: handle_gard_send is called whatever was read.
ReadPayload_unchecked ==
  /\ pc = "payload"
  /\ \/ /\ ReadOk(frame.size - 1)
        /\ delivered' = Append(delivered, frame.got \o First(frame.size - 1))
     \/ ReadShort(frame.size - 1) /\ delivered' = Append(delivered, frame.got)
  /\ EndSend
  /\ UNCHANGED <<stop, req, requests, answers, gard, sent>>

\* The rest, and handle_gard_send.
ReadPayload ==
  /\ pc = "payload"
  /\ \/ /\ ReadOk(frame.size - 1)
        /\ delivered' = Append(delivered, frame.got \o First(frame.size - 1))
     \/ ReadShort(frame.size - 1) /\ UNCHANGED delivered
  /\ EndSend
  /\ UNCHANGED <<stop, req, requests, answers, gard, sent>>

-----------------------------------------------------------------------------
(* The idle callback, and hub_execute_hub_request called from it.          *)

Requesting == {"sendApp", "partial", "rest", "appResponse", "data", "complete"}

\* Who may begin to talk, if the two sides take care not to cross.
HubMaySpeak  == Crossing \/ gard = "idle"
GardMaySpeak == Crossing \/ (pc \notin Requesting /\ toGard = << >>)

\* SM_START and SM_SEND_REQUEST. A request is clean if it finds the line quiet.
BeginRequest(kind) ==
  /\ pc = "idle" /\ requests < MaxRequests /\ HubMaySpeak
  /\ requests' = requests + 1
  /\ \/ /\ WriteOk(Unit(kind, requests + 1))
        /\ req' = [id |-> requests + 1, kind |-> kind, got |-> << >>,
                   clean |-> toHub = << >> /\ toGard = << >>]
        /\ command_execution' = TRUE
        /\ Goto(IF kind = "app" THEN "sendApp" ELSE "partial")
     \/ WriteFails /\ UNCHANGED <<pc, command_execution, req>>
  /\ UNCHANGED <<stop, answers, frame, delivered, gard, sent>>

\* "return false" from the state machine: the flag is left as it is.
FailRequest == Goto("idle") /\ req' = NoReq

\* Mutant: the application's part of the request is not sent.
SendAppRequest_unsent ==
  /\ pc = "sendApp" /\ Goto("partial")
  /\ UNCHANGED <<command_execution, stop, req, requests, answers, frame,
                 delivered, toHub, toGard, gard, sent, errors>>

SendAppRequest ==
  /\ pc = "sendApp"
  /\ \/ WriteOk(Unit("appRequest", req.id)) /\ Goto("partial") /\ UNCHANGED req
     \/ WriteFails /\ FailRequest
  /\ UNCHANGED <<command_execution, stop, requests, answers, frame, delivered,
                 gard, sent>>

\* SM_RECV_PARTIAL_RESPONSE and SM_VALIDATE_PARTIAL_RESPONSE. What is compared
\* is the request with p_validation_data, which every caller points at the
\* request: they are equal whatever was read, and SM_SERVICE_GARD_REQUEST is
\* never entered.
RecvPartialResponse ==
  /\ pc = "partial"
  /\ \/ /\ ReadOk(1)
        /\ req' = [req EXCEPT !.got = First(1)]
        /\ Goto("rest")
     \/ ReadShort(1) /\ FailRequest
  /\ UNCHANGED <<command_execution, stop, requests, answers, frame, delivered,
                 gard, sent>>

\* Mutants: the application's response is not awaited; a state without a case.
AfterResponse_early == IF req.kind = "data" THEN "data" ELSE "complete"
AfterResponse_noCase == IF req.kind = "data" THEN "data" ELSE "serviceGard"

AfterResponse == CASE req.kind = "app"  -> "appResponse"
                   [] req.kind = "data" -> "data"
                   [] OTHER             -> "complete"

RecvResponse ==
  /\ pc = "rest"
  /\ \/ /\ ReadOk(1)
        /\ req' = [req EXCEPT !.got = @ \o First(1)]
        /\ Goto(AfterResponse)
     \/ ReadShort(1) /\ FailRequest
  /\ UNCHANGED <<command_execution, stop, requests, answers, frame, delivered,
                 gard, sent>>

RecvAppResponse ==
  /\ pc = "appResponse"
  /\ \/ /\ ReadOk(1)
        /\ req' = [req EXCEPT !.got = @ \o First(1)]
        /\ Goto("complete")
     \/ ReadShort(1) /\ FailRequest
  /\ UNCHANGED <<command_execution, stop, requests, answers, frame, delivered,
                 gard, sent>>

\* SM_SEND_DATA: hub_validate_response_start_signal may refuse. The case that
\* follows, SM_RECV_OPTIONAL_ACK, is empty: the state machine returns true
\* with the flag set and the ACK unread.
SendData ==
  /\ pc = "data"
  /\ \/ /\ Goto("complete")
        /\ UNCHANGED <<req, answers, toHub, toGard, errors>>
     \/ /\ WriteOk(Unit("payload", req.id))
        /\ answers' = answers \cup {req}
        /\ Goto("idle") /\ req' = NoReq
     \/ WriteFails /\ FailRequest /\ UNCHANGED answers
  /\ UNCHANGED <<command_execution, stop, requests, frame, delivered, gard,
                 sent>>

CompleteRequest ==
  /\ pc = "complete"
  /\ command_execution' = FALSE
  /\ answers' = answers \cup {req}
  /\ Goto("idle") /\ req' = NoReq
  /\ UNCHANGED <<stop, requests, frame, delivered, toHub, toGard, gard, sent,
                 errors>>

Kt_StopDispatcher ==
  /\ pc = "idle" /\ ~stop
  /\ stop' = TRUE
  /\ UNCHANGED <<pc, command_execution, req, requests, answers, frame,
                 delivered, toHub, toGard, gard, sent, errors>>

\* Kt_RunDispatcher: the idle callback returns.
IdleReturns ==
  /\ pc = "idle"
  /\ Goto(IF stop THEN "stopped" ELSE "check")
  /\ UNCHANGED <<command_execution, stop, req, requests, answers, frame,
                 delivered, toHub, toGard, gard, sent, errors>>

-----------------------------------------------------------------------------
(* The GARD.                                                               *)

\* It has something for the application and asks to be the originator.
GardSync ==
  /\ gard = "idle" /\ sent < Len(Sends) /\ GardMaySpeak
  /\ toHub' = toHub \o <<Unit("sync", sent + 1), Unit("gardId", sent + 1)>>
  /\ gard' = "waiting"
  /\ UNCHANGED <<hub, toGard, sent, errors>>

GardSend ==
  /\ gard = "waiting" /\ toGard # << >> /\ Head(toGard).kind = "syncResponse"
  /\ LET n == sent + 1
     IN /\ toHub' = Append(toHub, Unit("send", n)) \o Payload(n)
        /\ sent' = n
  /\ toGard' = Tail(toGard)
  /\ gard' = "idle"
  /\ UNCHANGED <<hub, errors>>

GardAnswer ==
  /\ gard = "idle" /\ toGard # << >>
  /\ LET u == Head(toGard)
         reply == <<Unit("response", u.of), Unit("rest", u.of)>>
     IN \/ /\ u.kind \in {"reg", "data"}
           /\ toHub' = toHub \o reply
           /\ toGard' = Tail(toGard)
        \/ /\ u.kind = "app" /\ Len(toGard) > 1
           /\ toHub' = toHub \o Append(reply, Unit("appResponse", u.of))
           /\ toGard' = Tail(Tail(toGard))
        \/ /\ u.kind = "payload"
           /\ toHub' = Append(toHub, Unit("ack", u.of))
           /\ toGard' = Tail(toGard)
  /\ UNCHANGED <<hub, gard, sent, errors>>

-----------------------------------------------------------------------------
Init ==
  /\ pc = "check" /\ command_execution = FALSE /\ stop = FALSE
  /\ req = NoReq /\ requests = 0 /\ answers = {}
  /\ frame = NoFrame /\ delivered = << >>
  /\ toHub = << >> /\ toGard = << >>
  /\ gard = "idle" /\ sent = 0 /\ errors = 0

\* The dispatcher thread, but for its decisions to issue a request or to stop.
Dispatch ==
  \/ CommandInProgress \/ ReadCommandByte \/ ReadOriginator
  \/ WriteSyncResponse \/ ReadSendHeader \/ ReadPeek \/ ReadPayload
  \/ SendAppRequest \/ RecvPartialResponse \/ RecvResponse
  \/ RecvAppResponse \/ SendData \/ CompleteRequest \/ IdleReturns

Gard == GardSync \/ GardSend \/ GardAnswer

Next ==
  \/ Dispatch
  \/ \E kind \in Kinds : BeginRequest(kind)
  \/ Kt_StopDispatcher
  \/ Gard

\* The thread runs, the line need not fail, and GARD answers what it reads; it need not send anything.
Fairness == /\ WF_vars(Dispatch /\ UNCHANGED errors)
            /\ WF_vars(GardSend) /\ WF_vars(GardAnswer)

Spec == Init /\ [][Next]_vars /\ Fairness

-----------------------------------------------------------------------------
(* Properties.                                                             *)

PCs == {"check", "idle", "originator", "respond", "header", "peek", "payload",
        "stopped"} \cup Requesting
UnitKinds == {"sync", "gardId", "send", "peek", "data", "response", "rest",
              "appResponse", "ack", "syncResponse", "app", "reg", "payload",
              "appRequest"}
Units == [kind : UnitKinds, of : Nat]
Request == [id : 0 .. MaxRequests, kind : Kinds \cup {"none"}, clean : BOOLEAN,
            got : Seq(Units)]

\* Every variable has its type.
TypeOK ==
  /\ pc \in PCs /\ command_execution \in BOOLEAN /\ stop \in BOOLEAN
  /\ req \in Request /\ requests \in 0 .. MaxRequests
  /\ answers \in SUBSET Request
  /\ frame \in [size : Nat, got : Seq(Units)] /\ delivered \in Seq(Seq(Units))
  /\ toHub \in Seq(Units) /\ toGard \in Seq(Units)
  /\ gard \in {"idle", "waiting"} /\ sent \in 0 .. Len(Sends)
  /\ errors \in 0 .. MaxErrors

\* A request that found the line quiet and returned true has read the response
\* to itself, and nothing that GARD said for another reason
\* (hub_req_resp_sm.c:35-40, 47-53).
ResponseMatches ==
  \A a \in answers : a.clean =>
     /\ \A i \in DOMAIN a.got : a.got[i].of = a.id
     /\ [i \in DOMAIN a.got |-> a.got[i].kind] =
          IF a.kind = "app" THEN <<"response", "rest", "appResponse">>
                            ELSE <<"response", "rest">>

Accepted(n) == Sends[n].known /\ Sends[n].size <= BufferSize

\* handle_gard_send is only given whole payloads, of a kind and a size that fit,
\* each once and in the order of sending, whatever was refused or cut short
\* before (hub_gard_cmds.c:173-262).
FramesWhole ==
  \A i \in DOMAIN delivered :
     /\ delivered[i] = Payload(delivered[i][1].of)
     /\ Accepted(delivered[i][1].of)
     /\ i > 1 => delivered[i - 1][1].of < delivered[i][1].of

\* With no failure on the line, what GARD has sent and HUB has read to the end
\* was delivered: no refused payload and no request swallows a later frame,
\* provided no refused payload holds the bytes of a sync.
NoFrameLost ==
  /\ errors = 0 /\ toHub = << >> /\ gard = "idle" /\ pc \in {"check", "idle"}
  /\ \A n \in 1 .. sent : Accepted(n) \/ ~Sends[n].alike
  =>
     {delivered[i][1].of : i \in DOMAIN delivered} = {n \in 1 .. sent : Accepted(n)}

\* Did a request leave the state machine without SM_COMPLETE, and with
\* command_execution set? It fails, or it ends in SM_RECV_OPTIONAL_ACK.
LeftOpen == errors > 0 \/ \E a \in answers : a.kind = "data"

\* A GARD that asks to send is let to, unless the line failed, the flag stayed
\* up or the dispatcher was stopped (Kt_Dispatcher.c:53).
GardServed == gard = "waiting" ~> (gard = "idle" \/ LeftOpen \/ stop)

\* Every request comes back to the application (there is no timeout to end it),
\* if the line does not fail.
RequestReturns == pc \in Requesting ~> (pc = "idle" \/ errors > 0)
=============================================================================
