--------------------------- MODULE IpcServerProofs ---------------------------
(***************************************************************************)
(* For every number of clients, whatever they ask for and whenever they    *)
(* give up: every variable of IpcServer has its type, no request is        *)
(* executed twice, and one that is not for a face id and succeeds got its  *)
(* own response. As long as nobody asks for a face id, the sockets, the    *)
(* two threads and the mailbox of kt_app implement Rpc.                    *)
(***************************************************************************)
EXTENDS IpcServer, SequenceTheorems, TLAPS

\* TypeOK, the sequences apart from the rest
Threads ==
  /\ client \in [Clients -> {"new", "connected", "header", "pending", "payload"}
                            \cup Ended]
  /\ kind \in [Clients -> Kinds \cup {"none"}]
  /\ unread \subseteq Clients /\ shut \subseteq Clients
  /\ fd \in Clients \cup {NoClient}
  /\ ipc \in {"poll", "accept", "handle", "recv", "send", "acknowledge", "wait",
             "get", "header", "list"}
  /\ revents \in [new : BOOLEAN, in : BOOLEAN, hup : BOOLEAN]
  /\ ipcReq \in Clients \cup {NoClient} /\ ipcResp \in Responses
  /\ slot \in [request : Clients \cup {NoClient}, response : Responses,
               cmd_pending : BOOLEAN]
  /\ main \in {"idle", "execute", "generate", "doneHeader", "donePayload",
              "respond"}
  /\ mainReq \in Clients \cup {NoClient}
  /\ executed \in [Clients -> Nat]
  /\ ipc \in {"recv", "send", "acknowledge", "wait", "get", "header", "list"}
       => fd # NoClient
  /\ ipc \in {"header", "list"} => ipcResp.cmd # "none"
  /\ main # "idle" => mainReq # NoClient

Streams ==
  /\ stream \in [Clients -> Seq(Units)] /\ got \in [Clients -> Seq(Units)]
  /\ backlog \in Seq(Clients)

\* What poll() reported holds until it is used, or another connection is there.
Polled ==
  /\ ipc = "accept" /\ revents.new => backlog # << >>
  /\ ipc \in {"accept", "handle"} /\ (revents.in \/ revents.hup) => fd # NoClient

Known == \A c \in Clients : client[c] # "new" => kind[c] \in Kinds

\* A request that has not reached the shared memory
Waiting(c) ==
  client[c] \in {"new", "connected"} \/ c \in unread \/ (ipc = "send" /\ ipcReq = c)

\* It is in one place, and has not been there.
Fresh ==
  \A c \in Clients :
    /\ Waiting(c) => executed[c] = 0 /\ c # slot.request /\ c # mainReq
    /\ client[c] \in {"new", "connected"} => c \notin unread /\ c # ipcReq
    /\ c \in unread => ~(ipc = "send" /\ ipcReq = c)

\* What the main thread finds in the shared memory is new to it, and the IPC
\* thread waits for it unless it is a generation.
Mailbox ==
  /\ slot.cmd_pending => slot.request # NoClient
  /\ main = "idle" /\ slot.cmd_pending =>
       /\ executed[slot.request] = 0
       /\ kind[slot.request] # "generate" => ipc = "wait"
  /\ main = "execute" =>
       /\ executed[mainReq] = 0 /\ kind[mainReq] # "generate"
       /\ slot.request = mainReq /\ slot.cmd_pending /\ ipc = "wait"
  /\ main = "generate" => executed[mainReq] = 0
  /\ main \in {"generate", "doneHeader", "donePayload"} => kind[mainReq] = "generate"
  /\ main = "respond" /\ kind[mainReq] = "list" => slot.response.list = mainReq

\* A response is complete.
Whole(r) == (r.cmd # "none" => r.of # NoClient) /\ (r.cmd = "list" => r.list # NoClient)

Answers ==
  /\ Whole(slot.response) /\ Whole(ipcResp)
  /\ ipc = "get" \/ (ipc = "wait" /\ ~slot.cmd_pending) => slot.response.cmd # "none"
  /\ ipc = "list" => ipcResp.cmd = "list"
  /\ ipc \in {"send", "acknowledge", "wait", "get", "header", "list"} => ipcReq # NoClient
  /\ ipc = "acknowledge" => kind[ipcReq] = "generate"

Inv == Threads /\ Streams /\ Polled /\ Known /\ Fresh /\ Mailbox /\ Answers /\ AtMostOnce

\* Sequences of one and of two elements
LEMMA Short ==
  ASSUME NEW x, NEW y
  PROVE  /\ Append(<< >>, x) = <<x>> /\ Append(<<x>>, y) = <<x, y>>
         /\ Head(<<x>>) = x /\ Tail(<<x>>) = << >> /\ <<x>> # << >>
         /\ Head(<<x, y>>) = x /\ Tail(<<x, y>>) = <<y>> /\ <<x, y>> # << >>
<1>1. Append(<< >>, x) = <<x>>
  OBVIOUS
<1>2. Append(<<x>>, y) = <<x, y>>
  <2> DEFINE S == {x, y}
  <2>1. <<x>> \in Seq(S) /\ <<x, y>> \in Seq(S) /\ y \in S
    OBVIOUS
  <2>2. Append(<<x>>, y) \in Seq(S) /\ Len(Append(<<x>>, y)) = 2
        /\ Append(<<x>>, y)[1] = x /\ Append(<<x>>, y)[2] = y
    BY <2>1, AppendProperties
  <2>3. Len(<<x, y>>) = 2 /\ <<x, y>>[1] = x /\ <<x, y>>[2] = y
    OBVIOUS
  <2> HIDE DEF S
  <2>4. \A i \in 1 .. 2 : i = 1 \/ i = 2
    OBVIOUS
  <2> QED
    BY <2>1, <2>2, <2>3, <2>4, SeqEqual
<1>3. Head(<<x>>) = x /\ Head(<<x, y>>) = x
  OBVIOUS
<1>4. Tail(<<x>>) = << >>
  OBVIOUS
<1>5. Tail(<<x, y>>) = <<y>>
  OBVIOUS
<1>6. <<x>> # << >> /\ <<x, y>> # << >>
  OBVIOUS
<1> QED
  BY <1>1, <1>2, <1>3, <1>4, <1>5, <1>6

LEMMA InitInv == Init => Inv
<1> SUFFICES ASSUME Init PROVE Inv
  OBVIOUS
<1>1. Threads /\ Streams
  BY IpcAssumption DEF Init, Threads, Streams, Responses, NoResponse
<1>2. Polled /\ Known /\ Fresh /\ Mailbox /\ Answers /\ AtMostOnce
  BY IpcAssumption
     DEF Init, Polled, Known, Waiting, Fresh, Mailbox, Whole, Answers, AtMostOnce, NoResponse
<1> QED
  BY <1>1, <1>2 DEF Inv

LEMMA SameInv ==
  ASSUME Inv, UNCHANGED vars
  PROVE  Inv'
<1> USE DEF Inv, vars, clientVars, socketVars, ipcVars, mainVars
<1>1. Threads'
  BY DEF Threads
<1>2. Streams'
  BY DEF Streams
<1>3. Polled' /\ Known' /\ AtMostOnce'
  BY DEF Polled, Known, AtMostOnce
<1>4. Fresh'
  BY DEF Fresh, Waiting
<1>5. Mailbox' /\ Answers'
  BY DEF Mailbox, Whole, Answers
<1> QED
  BY <1>1, <1>2, <1>3, <1>4, <1>5

\* What a thread sends keeps the type of the streams.
LEMMA SendType ==
  ASSUME Streams, NEW c \in Clients \cup {NoClient}, NEW unit \in Units, SendTo(c, unit),
         UNCHANGED <<got, backlog>>
  PROVE  Streams'
<1>1. CASE stream' = stream
  BY <1>1 DEF Streams
<1>2. CASE c \in Clients /\ stream' = [stream EXCEPT ![c] = Append(@, unit)]
  <2>1. Append(stream[c], unit) \in Seq(Units)
    BY <1>2, AppendProperties DEF Streams
  <2> QED
    BY <1>2, <2>1 DEF Streams
<1> QED
  BY <1>1, <1>2 DEF SendTo

-----------------------------------------------------------------------------
(* Clients *)

LEMMA ConnectInv ==
  ASSUME Inv, NEW c \in Clients, NEW k \in Kinds, Connect(c, k)
  PROVE  Inv'
<1>1. /\ client[c] = "new" /\ client' = [client EXCEPT ![c] = "connected"]
      /\ kind' = [kind EXCEPT ![c] = k] /\ backlog' = Append(backlog, c)
      /\ UNCHANGED <<got, unread, stream, shut, fd, ipc, revents, ipcReq, ipcResp, slot, main,
                     mainReq, executed>>
  BY DEF Connect, ipcVars, mainVars
<1>2. backlog' \in Seq(Clients) /\ backlog' # << >>
  <2>1. backlog \in Seq(Clients)
    BY DEF Inv, Streams
  <2>2. Append(backlog, c) \in Seq(Clients) /\ Append(backlog, c) # << >>
    BY <2>1, AppendProperties
  <2> QED
    BY <1>1, <2>2
<1>3. Threads'
  BY <1>1 DEF Inv, Threads
<1>4. Streams'
  BY <1>1, <1>2 DEF Inv, Streams
<1>5. /\ client'[c] = "connected" /\ kind'[c] = k
      /\ \A d \in Clients \ {c} : client'[d] = client[d] /\ kind'[d] = kind[d]
  BY <1>1 DEF Inv, Threads
<1>6. c # slot.request /\ c # mainReq /\ c # ipcReq
  BY <1>1 DEF Inv, Fresh, Waiting
<1>7. Polled' /\ Known' /\ AtMostOnce'
  BY <1>1, <1>2, <1>5 DEF Inv, Polled, Known, AtMostOnce
<1>8. Fresh'
  BY <1>1, <1>5 DEF Inv, Fresh, Waiting
<1>9. Mailbox' /\ Answers'
  BY <1>1, <1>5, <1>6 DEF Inv, Threads, Mailbox, Answers, Whole
<1> QED
  BY <1>3, <1>4, <1>7, <1>8, <1>9 DEF Inv

LEMMA SendCommandInv ==
  ASSUME Inv, NEW c \in Clients, SendCommand(c)
  PROVE  Inv'
<1>1. /\ client[c] = "connected"
      /\ client' \in {[client EXCEPT ![c] = "failed"], [client EXCEPT ![c] = "header"]}
      /\ unread' \in {unread, unread \cup {c}}
      /\ UNCHANGED <<kind, got, stream, shut, backlog, fd, ipc, revents, ipcReq, ipcResp, slot,
                     main, mainReq, executed>>
  BY DEF SendCommand, ipcVars, mainVars
<1>2. Threads'
  BY <1>1 DEF Inv, Threads, Ended
<1>3. Streams'
  BY <1>1 DEF Inv, Streams
<1>4. /\ client'[c] \in {"failed", "header"} /\ \A d \in Clients \ {c} : client'[d] = client[d]
  BY <1>1 DEF Inv, Threads
<1>5. Fresh'
  BY <1>1, <1>4 DEF Inv, Fresh, Waiting
<1>6. Polled' /\ Known' /\ AtMostOnce' /\ Mailbox' /\ Answers'
  BY <1>1, <1>4 DEF Inv, Polled, Known, AtMostOnce, Mailbox, Answers, Whole
<1> QED
  BY <1>2, <1>3, <1>5, <1>6 DEF Inv

\* What a client reads, or that it does not, changes nothing for kt_app.
LEMMA ClientInv ==
  ASSUME Inv, NEW c \in Clients,
         Receive(c) \/ ReceiveNothing(c) \/ GiveUp(c)
  PROVE  Inv'
<1>1. /\ client[c] # "new"
      /\ UNCHANGED <<kind, unread, shut, backlog, fd, ipc, revents, ipcReq, ipcResp, slot,
                     main, mainReq, executed>>
  BY DEF Receive, ReceiveNothing, GiveUp, socketVars, ipcVars, mainVars
<1>2. client' \in [Clients -> {"new", "connected", "header", "pending", "payload"} \cup Ended]
      /\ client'[c] \notin {"new", "connected"} /\ \A d \in Clients \ {c} : client'[d] = client[d]
  BY DEF Receive, ReceiveNothing, GiveUp, AfterHeader, Ended, Inv, Threads
<1>3. Streams'
  <2>1. CASE Receive(c)
    <3>1. stream[c] \in Seq(Units) /\ got[c] \in Seq(Units) /\ stream[c] # << >>
      BY <2>1 DEF Receive, Inv, Streams
    <3>2. Tail(stream[c]) \in Seq(Units) /\ Append(got[c], Head(stream[c])) \in Seq(Units)
      BY <3>1, HeadTailProperties, AppendProperties
    <3> QED
      BY <1>1, <2>1, <3>2 DEF Receive, Inv, Streams
  <2>2. CASE ReceiveNothing(c) \/ GiveUp(c)
    BY <1>1, <2>2 DEF ReceiveNothing, GiveUp, socketVars, Inv, Streams
  <2> QED
    BY <2>1, <2>2
<1>4. Threads'
  BY <1>1, <1>2 DEF Inv, Threads
<1>5. Fresh'
  BY <1>1, <1>2 DEF Inv, Fresh, Waiting
<1>6. Polled' /\ Known' /\ AtMostOnce' /\ Mailbox' /\ Answers'
  BY <1>1, <1>2 DEF Inv, Polled, Known, AtMostOnce, Mailbox, Answers, Whole
<1> QED
  BY <1>3, <1>4, <1>5, <1>6 DEF Inv

-----------------------------------------------------------------------------
(* The IPC thread. Until it sends a request on it only moves sockets.      *)

LEMMA PollInv ==
  ASSUME Inv, Poll
  PROVE  Inv'
<1>1. /\ ipc = "poll" /\ ipc' = "accept"
      /\ UNCHANGED <<client, kind, got, unread, stream, shut, backlog, fd, ipcReq, ipcResp, slot,
                     main, mainReq, executed>>
  BY DEF Poll, clientVars, socketVars, mainVars
<1>2. revents' \in [new : BOOLEAN, in : BOOLEAN, hup : BOOLEAN]
      /\ (revents'.new => backlog # << >>) /\ (revents'.in \/ revents'.hup => fd # NoClient)
  BY DEF Poll
<1>3. Threads'
  BY <1>1, <1>2 DEF Inv, Threads
<1>4. Streams'
  BY <1>1 DEF Inv, Streams
<1>5. Polled' /\ Known' /\ AtMostOnce'
  BY <1>1, <1>2 DEF Inv, Polled, Known, AtMostOnce
<1>6. Fresh'
  BY <1>1 DEF Inv, Fresh, Waiting
<1>7. Mailbox' /\ Answers'
  BY <1>1 DEF Inv, Mailbox, Answers, Whole
<1> QED
  BY <1>3, <1>4, <1>5, <1>6, <1>7 DEF Inv

LEMMA AcceptInv ==
  ASSUME Inv, AcceptClient
  PROVE  Inv'
<1>1. /\ ipc = "accept" /\ ipc' = "handle"
      /\ UNCHANGED <<client, kind, got, unread, stream, revents, ipcReq, ipcResp, slot, main,
                     mainReq, executed>>
  BY DEF AcceptClient, clientVars, mainVars
<1>2. /\ backlog' \in Seq(Clients) /\ shut' \subseteq Clients
      /\ fd' \in Clients \cup {NoClient} /\ (fd # NoClient => fd' # NoClient)
  <2>1. CASE revents.new
    <3>1. backlog # << >> /\ backlog \in Seq(Clients)
      BY <1>1, <2>1 DEF Inv, Polled, Streams
    <3>2. Head(backlog) \in Clients /\ Tail(backlog) \in Seq(Clients)
      BY <3>1, HeadTailProperties
    <3>3. /\ fd' = Head(backlog) /\ backlog' = Tail(backlog)
          /\ shut' = shut \cup ({fd} \ {NoClient})
      BY <2>1 DEF AcceptClient
    <3>4. shut \subseteq Clients /\ fd \in Clients \cup {NoClient}
      BY DEF Inv, Threads
    <3>5. shut' \subseteq Clients
      BY <3>3, <3>4
    <3>6. fd' \in Clients /\ fd' # NoClient /\ backlog' \in Seq(Clients)
      BY <3>2, <3>3, IpcAssumption
    <3> QED
      BY <3>5, <3>6
  <2>2. CASE ~revents.new
    BY <2>2 DEF AcceptClient, Inv, Threads, Streams
  <2> QED
    BY <2>1, <2>2
<1>3. Threads'
  BY <1>1, <1>2 DEF Inv, Threads
<1>4. Streams'
  BY <1>1, <1>2 DEF Inv, Streams
<1>5. Polled' /\ Known' /\ AtMostOnce'
  BY <1>1, <1>2 DEF Inv, Polled, Known, AtMostOnce
<1>6. Fresh'
  BY <1>1 DEF Inv, Fresh, Waiting
<1>7. Mailbox' /\ Answers'
  BY <1>1 DEF Inv, Mailbox, Answers, Whole
<1> QED
  BY <1>3, <1>4, <1>5, <1>6, <1>7 DEF Inv

LEMMA HandleInv ==
  ASSUME Inv, HandleClient
  PROVE  Inv'
<1>1. /\ ipc = "handle" /\ ipc' \in {"poll", "recv"}
      /\ UNCHANGED <<client, kind, got, unread, stream, backlog, ipcReq, ipcResp, slot, main,
                     mainReq, executed>>
  BY DEF HandleClient, clientVars, mainVars
<1>2. revents' \in [new : BOOLEAN, in : BOOLEAN, hup : BOOLEAN]
  BY DEF HandleClient
<1>3. /\ shut' \subseteq Clients /\ fd' \in Clients \cup {NoClient}
      /\ ipc' = "recv" => fd' # NoClient
  BY <1>1 DEF HandleClient, Inv, Threads, Polled
<1>4. Threads'
  BY <1>1, <1>2, <1>3 DEF Inv, Threads
<1>5. Streams'
  BY <1>1 DEF Inv, Streams
<1>6. Polled' /\ Known' /\ AtMostOnce'
  BY <1>1 DEF Inv, Polled, Known, AtMostOnce
<1>7. Fresh'
  BY <1>1 DEF Inv, Fresh, Waiting
<1>8. Mailbox' /\ Answers'
  BY <1>1 DEF Inv, Mailbox, Answers, Whole
<1> QED
  BY <1>4, <1>5, <1>6, <1>7, <1>8 DEF Inv

\* The command leaves the socket for the IPC thread.
LEMMA RecvInv ==
  ASSUME Inv, RecvCommand
  PROVE  Inv'
<1>1. /\ ipc = "recv" /\ fd # NoClient /\ fd \in Clients
      /\ \/ fd \in unread /\ unread' = unread \ {fd} /\ ipcReq' = fd /\ ipc' = "send"
         \/ ipc' = "poll" /\ UNCHANGED <<unread, ipcReq>>
      /\ UNCHANGED <<client, kind, got, stream, shut, backlog, fd, revents, ipcResp, slot, main,
                     mainReq, executed>>
  BY DEF RecvCommand, clientVars, mainVars, Inv, Threads
<1>2. Threads'
  BY <1>1 DEF Inv, Threads
<1>3. Streams'
  BY <1>1 DEF Inv, Streams
<1>4. Polled' /\ Known' /\ AtMostOnce'
  BY <1>1 DEF Inv, Polled, Known, AtMostOnce
<1>5. Fresh'
  BY <1>1 DEF Inv, Fresh, Waiting
<1>6. Mailbox' /\ Answers'
  BY <1>1 DEF Inv, Mailbox, Answers, Whole
<1> QED
  BY <1>2, <1>3, <1>4, <1>5, <1>6 DEF Inv

\* It reaches the shared memory for the first time: the main thread, which
\* may still be generating a face id, executes it once.
LEMMA SendRequestInv ==
  ASSUME Inv, kt_app_send_request
  PROVE  Inv'
<1>1. /\ ipc = "send"
      /\ slot' = [slot EXCEPT !.request = ipcReq, !.cmd_pending = TRUE]
      /\ ipc' = IF kind[ipcReq] = "generate" THEN "acknowledge" ELSE "wait"
      /\ UNCHANGED <<client, kind, got, unread, stream, shut, backlog, fd, revents, ipcReq,
                     ipcResp, main, mainReq, executed>>
  BY DEF kt_app_send_request, clientVars, socketVars, mainVars
<1>2. /\ ipcReq \in Clients /\ executed[ipcReq] = 0 /\ ipcReq # mainReq
      /\ client[ipcReq] \notin {"new", "connected"} /\ ipcReq \notin unread
  BY <1>1 DEF Inv, Threads, Answers, Fresh, Waiting
<1>3. main # "execute"
  BY <1>1 DEF Inv, Mailbox
<1>4. /\ slot'.request = ipcReq /\ slot'.cmd_pending /\ slot'.response = slot.response
      /\ slot' \in [request : Clients \cup {NoClient}, response : Responses,
                    cmd_pending : BOOLEAN]
  BY <1>1 DEF Inv, Threads
<1>5. Threads'
  BY <1>1, <1>4 DEF Inv, Threads
<1>6. Streams'
  BY <1>1 DEF Inv, Streams
<1>7. Polled' /\ Known' /\ AtMostOnce'
  BY <1>1 DEF Inv, Polled, Known, AtMostOnce
<1>8. Fresh'
  BY <1>1, <1>2, <1>4 DEF Inv, Fresh, Waiting
<1>9. Mailbox' /\ Answers'
  BY <1>1, <1>2, <1>3, <1>4, IpcAssumption DEF Inv, Mailbox, Answers, Whole
<1> QED
  BY <1>5, <1>6, <1>7, <1>8, <1>9 DEF Inv

\* What the IPC thread sends is a unit of the protocol.
LEMMA AnswerInv ==
  ASSUME Inv, Acknowledge \/ send_header_only \/ send_list_profiles_payload
  PROVE  Inv'
<1>1. /\ ipc \in {"acknowledge", "header", "list"} /\ ipc' \in {"poll", "list"}
      /\ ipc' = "list" => ipc = "header" /\ ipcResp.cmd = "list" /\ UNCHANGED <<ipcReq, ipcResp>>
      /\ ipc' = "poll" => ipcReq' = NoClient /\ ipcResp' \in {NoResponse, ipcResp}
      /\ UNCHANGED <<client, kind, got, unread, shut, backlog, fd, revents, slot, main, mainReq,
                     executed>>
  BY DEF Acknowledge, send_header_only, send_list_profiles_payload, clientVars, mainVars
<1>2. fd \in Clients \cup {NoClient}
  BY DEF Inv, Threads
<1>3. Streams'
  <2>1. CASE Acknowledge
    <3>1. ipc = "acknowledge" /\ ipcReq \in Clients /\ kind[ipcReq] = "generate"
          /\ client[ipcReq] # "new"
      BY <2>1 DEF Acknowledge, Inv, Threads, Answers, Fresh, Waiting
    <3>2. Header("generate", "PENDING", ipcReq) \in Units
      BY <3>1 DEF Header, Units, Inv, Known
    <3> QED
      BY <1>1, <1>2, <2>1, <3>2, SendType DEF Acknowledge, Inv
  <2>2. CASE send_header_only
    <3>1. ipcResp.cmd \in Kinds /\ ipcResp.of \in Clients
      BY <2>2 DEF send_header_only, Inv, Threads, Responses, Answers, Whole
    <3>2. Header(ipcResp.cmd, "SUCCESS", ipcResp.of) \in Units
      BY <3>1 DEF Header, Units
    <3> QED
      BY <1>1, <1>2, <2>2, <3>2, SendType DEF send_header_only, Inv
  <2>3. CASE send_list_profiles_payload
    <3>1. "list" \in Kinds /\ ipcResp.list \in Clients
      BY <2>3 DEF send_list_profiles_payload, Inv, Threads, Responses, Answers, Whole
    <3>2. Payload("list", ipcResp.list) \in Units
      BY <3>1 DEF Payload, Units
    <3> QED
      BY <1>1, <1>2, <2>3, <3>2, SendType DEF send_list_profiles_payload, Inv
  <2> QED
    BY <2>1, <2>2, <2>3
<1>4. NoResponse \in Responses /\ Whole(NoResponse)
  BY DEF NoResponse, Responses, Whole
<1>5. Threads'
  BY <1>1, <1>4 DEF Inv, Threads
<1>6. Polled' /\ Known' /\ AtMostOnce'
  BY <1>1 DEF Inv, Polled, Known, AtMostOnce
<1>7. Fresh'
  BY <1>1, IpcAssumption DEF Inv, Fresh, Waiting
<1>8. Mailbox'
  BY <1>1 DEF Inv, Mailbox
<1>9. Answers'
  BY <1>1, <1>4 DEF Inv, Answers, Whole
<1> QED
  BY <1>3, <1>5, <1>6, <1>7, <1>8, <1>9 DEF Inv

LEMMA WaitInv ==
  ASSUME Inv, wait_for_response \/ kt_app_get_response
  PROVE  Inv'
<1>1. /\ \/ ipc = "wait" /\ ~slot.cmd_pending /\ ipc' = "get" /\ ipcResp' = ipcResp
         \/ ipc = "get" /\ ipc' = "header" /\ ipcResp' = slot.response
      /\ UNCHANGED <<client, kind, got, unread, stream, shut, backlog, fd, revents, ipcReq, slot,
                     main, mainReq, executed>>
  BY DEF wait_for_response, kt_app_get_response, clientVars, socketVars, mainVars
<1>2. Threads'
  BY <1>1 DEF Inv, Threads, Answers
<1>3. Streams'
  BY <1>1 DEF Inv, Streams
<1>4. Polled' /\ Known' /\ AtMostOnce'
  BY <1>1 DEF Inv, Polled, Known, AtMostOnce
<1>5. Fresh'
  BY <1>1 DEF Inv, Fresh, Waiting
<1>6. Mailbox' /\ Answers'
  BY <1>1 DEF Inv, Mailbox, Answers, Whole
<1> QED
  BY <1>2, <1>3, <1>4, <1>5, <1>6 DEF Inv

-----------------------------------------------------------------------------
(* The main thread. *)

LEMMA ReadCommandInv ==
  ASSUME Inv, ReadCommand
  PROVE  Inv'
<1>1. /\ main = "idle" /\ slot.cmd_pending /\ mainReq' = slot.request
      /\ main' = IF kind[slot.request] = "generate" THEN "generate" ELSE "execute"
      /\ UNCHANGED <<client, kind, got, unread, stream, shut, backlog, fd, ipc, revents, ipcReq,
                     ipcResp, slot, executed>>
  BY DEF ReadCommand, clientVars, socketVars, ipcVars
<1>2. slot.request \in Clients /\ executed[slot.request] = 0
  BY <1>1 DEF Inv, Threads, Mailbox
<1>3. Threads'
  BY <1>1, <1>2, IpcAssumption DEF Inv, Threads
<1>4. Streams'
  BY <1>1 DEF Inv, Streams
<1>5. Polled' /\ Known' /\ AtMostOnce'
  BY <1>1 DEF Inv, Polled, Known, AtMostOnce
<1>6. Fresh'
  BY <1>1 DEF Inv, Fresh, Waiting
<1>7. Mailbox' /\ Answers'
  BY <1>1, <1>2 DEF Inv, Mailbox, Answers, Whole
<1> QED
  BY <1>3, <1>4, <1>5, <1>6, <1>7 DEF Inv

\* What it executes was not executed before, and the IPC thread is past the
\* request it has in hand.
LEMMA ExecuteInv ==
  ASSUME Inv, ExecuteCommand
  PROVE  Inv'
<1>1. /\ main = "execute" /\ main' = "respond"
      /\ UNCHANGED <<client, kind, got, unread, stream, shut, backlog, fd, ipc, revents, ipcReq,
                     ipcResp, mainReq>>
  BY DEF ExecuteCommand, clientVars, socketVars, ipcVars
<1>2. /\ slot.request = mainReq /\ slot.cmd_pending /\ ipc = "wait"
      /\ mainReq \in Clients /\ executed[mainReq] = 0 /\ kind[mainReq] # "generate"
  BY <1>1 DEF Inv, Threads, Mailbox
<1>3. /\ executed' \in [Clients -> Nat] /\ executed'[mainReq] = 1
      /\ \A c \in Clients \ {mainReq} : executed'[c] = executed[c]
  BY <1>2 DEF ExecuteCommand, Perform, Inv, Threads
<1>4. /\ slot'.request = slot.request /\ slot'.cmd_pending = slot.cmd_pending
      /\ slot'.response.cmd = slot.response.cmd /\ slot'.response.of = slot.response.of
      /\ slot'.response.list \in {slot.response.list, mainReq}
      /\ kind[mainReq] = "list" => slot'.response.list = mainReq
      /\ slot' \in [request : Clients \cup {NoClient}, response : Responses,
                    cmd_pending : BOOLEAN]
  BY <1>2 DEF ExecuteCommand, Inv, Threads, Responses
<1>5. Threads'
  BY <1>1, <1>2, <1>3, <1>4 DEF Inv, Threads
<1>6. Streams'
  BY <1>1 DEF Inv, Streams
<1>7. Polled' /\ Known' /\ AtMostOnce'
  BY <1>1, <1>2, <1>3 DEF Inv, Polled, Known, AtMostOnce
<1>8. Fresh'
  BY <1>1, <1>2, <1>3, <1>4 DEF Inv, Fresh, Waiting
<1>9. Mailbox'
  BY <1>1, <1>2, <1>4 DEF Inv, Mailbox
<1>10. Answers'
  BY <1>1, <1>2, <1>4, IpcAssumption DEF Inv, Answers, Whole
<1> QED
  BY <1>5, <1>6, <1>7, <1>8, <1>9, <1>10 DEF Inv

\* A generation is not waited for: what another request has left in the
\* shared memory meanwhile is not the one that is executed.
LEMMA GenerateDoneInv ==
  ASSUME Inv, GenerateDone
  PROVE  Inv'
<1>1. /\ main = "generate" /\ main' \in {"doneHeader", "respond"}
      /\ slot' = [slot EXCEPT !.response = [cmd |-> "generate", of |-> mainReq, list |-> NoClient]]
      /\ executed' = [executed EXCEPT ![mainReq] = @ + 1]
      /\ UNCHANGED <<client, kind, got, unread, stream, shut, backlog, fd, ipc, revents, ipcReq,
                     ipcResp, mainReq>>
  BY DEF GenerateDone, Perform, clientVars, socketVars, ipcVars
<1>2. /\ mainReq \in Clients /\ mainReq # NoClient /\ executed[mainReq] = 0
      /\ kind[mainReq] = "generate" /\ client[mainReq] # "new"
  BY <1>1 DEF Inv, Threads, Mailbox, Fresh, Waiting
<1>3. /\ executed' \in [Clients -> Nat] /\ executed'[mainReq] = 1
      /\ \A c \in Clients \ {mainReq} : executed'[c] = executed[c]
  BY <1>1, <1>2 DEF Inv, Threads
<1>4. /\ slot'.request = slot.request /\ slot'.cmd_pending = slot.cmd_pending
      /\ slot'.response = [cmd |-> "generate", of |-> mainReq, list |-> NoClient]
      /\ slot' \in [request : Clients \cup {NoClient}, response : Responses,
                    cmd_pending : BOOLEAN]
  BY <1>1, <1>2 DEF Inv, Threads, Known, Responses
<1>5. Threads'
  BY <1>1, <1>2, <1>3, <1>4 DEF Inv, Threads
<1>6. Streams'
  BY <1>1 DEF Inv, Streams
<1>7. Polled' /\ Known' /\ AtMostOnce'
  BY <1>1, <1>2, <1>3 DEF Inv, Polled, Known, AtMostOnce
<1>8. Fresh'
  BY <1>1, <1>2, <1>3, <1>4 DEF Inv, Fresh, Waiting
<1>9. Mailbox' /\ Answers'
  BY <1>1, <1>2, <1>4 DEF Inv, Mailbox, Answers, Whole
<1> QED
  BY <1>5, <1>6, <1>7, <1>8, <1>9 DEF Inv

LEMMA CompletionInv ==
  ASSUME Inv, DoneHeader \/ DonePayload
  PROVE  Inv'
<1>1. /\ main \in {"doneHeader", "donePayload"} /\ main' \in {"donePayload", "respond"}
      /\ UNCHANGED <<client, kind, got, unread, shut, backlog, fd, ipc, revents, ipcReq, ipcResp,
                     slot, mainReq, executed>>
  BY DEF DoneHeader, DonePayload, clientVars, ipcVars
<1>2. /\ mainReq \in Clients /\ kind[mainReq] = "generate" /\ client[mainReq] # "new"
      /\ fd \in Clients \cup {NoClient}
  BY <1>1 DEF Inv, Threads, Mailbox, Fresh, Waiting
<1>3. Header("generate", "SUCCESS", mainReq) \in Units /\ Payload("generate", mainReq) \in Units
  BY <1>2 DEF Header, Payload, Units, Inv, Known
<1>4. Streams'
  BY <1>1, <1>2, <1>3, SendType DEF DoneHeader, DonePayload, Inv
<1>5. Threads'
  BY <1>1, <1>2, IpcAssumption DEF Inv, Threads
<1>6. Polled' /\ Known' /\ AtMostOnce'
  BY <1>1 DEF Inv, Polled, Known, AtMostOnce
<1>7. Fresh'
  BY <1>1 DEF Inv, Fresh, Waiting
<1>8. Mailbox' /\ Answers'
  BY <1>1, <1>2 DEF Inv, Mailbox, Answers, Whole
<1> QED
  BY <1>4, <1>5, <1>6, <1>7, <1>8 DEF Inv

LEMMA RespondInv ==
  ASSUME Inv, Respond
  PROVE  Inv'
<1>1. /\ main = "respond" /\ main' = "idle" /\ mainReq' = NoClient
      /\ slot' = [slot EXCEPT !.response.cmd = kind[mainReq],
                              !.response.of = mainReq, !.cmd_pending = FALSE]
      /\ UNCHANGED <<client, kind, got, unread, stream, shut, backlog, fd, ipc, revents, ipcReq,
                     ipcResp, executed>>
  BY DEF Respond, clientVars, socketVars, ipcVars
<1>2. mainReq \in Clients /\ mainReq # NoClient /\ client[mainReq] # "new"
  BY <1>1 DEF Inv, Threads, Fresh, Waiting
<1>3. kind[mainReq] \in Kinds /\ kind[mainReq] # "none"
  BY <1>2, IpcAssumption DEF Inv, Known
<1>4. /\ slot'.request = slot.request /\ ~slot'.cmd_pending
      /\ slot'.response.cmd = kind[mainReq] /\ slot'.response.of = mainReq
      /\ slot'.response.list = slot.response.list
      /\ slot' \in [request : Clients \cup {NoClient}, response : Responses,
                    cmd_pending : BOOLEAN]
  BY <1>1, <1>2, <1>3 DEF Inv, Threads, Responses
<1>5. Threads'
  BY <1>1, <1>4 DEF Inv, Threads
<1>6. Streams'
  BY <1>1 DEF Inv, Streams
<1>7. Polled' /\ Known' /\ AtMostOnce'
  BY <1>1 DEF Inv, Polled, Known, AtMostOnce
<1>8. Fresh'
  BY <1>1, <1>4, IpcAssumption DEF Inv, Fresh, Waiting
<1>9. Mailbox'
  BY <1>1, <1>4 DEF Inv, Mailbox
<1>10. Answers'
  BY <1>1, <1>2, <1>3, <1>4 DEF Inv, Mailbox, Answers, Whole
<1> QED
  BY <1>5, <1>6, <1>7, <1>8, <1>9, <1>10 DEF Inv

-----------------------------------------------------------------------------
LEMMA NextInv ==
  ASSUME Inv, [Next]_vars
  PROVE  Inv'
<1>1. ASSUME NEW c \in Clients, NEW k \in Kinds, Connect(c, k)
      PROVE  Inv'
  BY <1>1, ConnectInv
<1>2. ASSUME NEW c \in Clients, Proceed(c) \/ GiveUp(c)
      PROVE  Inv'
  BY <1>2, SendCommandInv, ClientInv DEF Proceed
<1>3. CASE IpcThread
  BY <1>3, PollInv, AcceptInv, HandleInv, RecvInv, SendRequestInv, AnswerInv, WaitInv
     DEF IpcThread
<1>4. CASE MainThread
  BY <1>4, ReadCommandInv, ExecuteInv, GenerateDoneInv, CompletionInv, RespondInv
     DEF MainThread
<1>5. CASE UNCHANGED vars
  BY <1>5, SameInv
<1> QED
  BY <1>1, <1>2, <1>3, <1>4, <1>5 DEF Next

LEMMA Invariance == Spec => []Inv
<1>1. Init => Inv
  BY InitInv
<1>2. Inv /\ [Next]_vars => Inv'
  BY NextInv
<1> QED
  BY <1>1, <1>2, PTL DEF Spec

\* Every variable has its type, whatever the clients do: in particular a
\* thread that answers has a request in hand and a response to send.
THEOREM TypeCorrect == Spec => []TypeOK
<1>1. Inv => TypeOK
  BY DEF Inv, Threads, Streams, TypeOK
<1> QED
  BY <1>1, Invariance, PTL

\* No request is executed twice, even when a generation under way makes the
\* main thread miss or take late what others ask for.
THEOREM ServedOnce == Spec => []AtMostOnce
<1>1. Inv => AtMostOnce
  BY DEF Inv
<1> QED
  BY <1>1, Invariance, PTL

-----------------------------------------------------------------------------
(* A success is one's own: the IPC thread keeps its connection while it    *)
(* waits, and what it may get instead of its response is that of a face id *)
(* generation, which no other client takes for an answer.                  *)

\* The threads alternate, except that a generation is not waited for.
Handed ==
  /\ main # "idle" => slot.cmd_pending
  /\ ipc \in {"get", "header", "list"} => ~slot.cmd_pending
  /\ ipc \in {"send", "acknowledge", "wait", "get", "header", "list"} => ipcReq = fd
  /\ ipc = "wait" => slot.request = ipcReq
  /\ main # "idle" /\ kind[mainReq] # "generate" => ipc = "wait" /\ mainReq = ipcReq

Matches(r) == /\ r.of = ipcReq \/ r.cmd = "generate"
              /\ r.cmd = "list" => r.list = ipcReq

\* The response taken is that of the request in hand or of a generation.
Matched ==
  /\ ipc = "get" \/ (ipc = "wait" /\ ~slot.cmd_pending) => Matches(slot.response)
  /\ ipc \in {"header", "list"} => Matches(ipcResp)

Own(c, u) == u.part = "header" /\ u.cmd # "generate" => u.of = c /\ u.rc = "SUCCESS"

ListNext(c) == ipc = "list" /\ fd = c

\* What was sent to a client: headers of its own or of generations, the one
\* of a list just before the list.
Orderly(c) ==
  /\ \A i \in 1 .. Len(stream[c]) : Own(c, stream[c][i])
  /\ \A i \in 1 .. Len(stream[c]) :
       stream[c][i].part = "header" /\ stream[c][i].cmd = "list" =>
         IF i = Len(stream[c]) THEN ListNext(c)
                               ELSE stream[c][i + 1] = Payload("list", c)
  /\ client[c] # "pending"
  /\ client[c] \in {"new", "connected", "header"} => got[c] = << >>
  /\ client[c] = "payload" =>
       /\ kind[c] = "list" /\ got[c] = <<Header("list", "SUCCESS", c)>>
       /\ IF stream[c] = << >> THEN ListNext(c)
                               ELSE stream[c][1] = Payload("list", c)

\* A client that may still succeed, and did not ask for a face id
Plain(c) == client[c] \notin Ended /\ (kind[c] # "generate" \/ client[c] = "new")

Ordered == \A c \in Clients : Plain(c) => Orderly(c)

OwnInv == Handed /\ Matched /\ Ordered /\ OwnAnswer

LEMMA InitOwn == Init => OwnInv
<1> SUFFICES ASSUME Init PROVE OwnInv
  OBVIOUS
<1>1. Handed /\ Matched
  BY DEF Init, Handed, Matched
<1>2. Ordered
  BY DEF Init, Ordered, Orderly
<1>3. OwnAnswer
  BY DEF Init, OwnAnswer
<1> QED
  BY <1>1, <1>2, <1>3 DEF OwnInv

-----------------------------------------------------------------------------
(* The two threads *)

\* A step of a client or of a socket changes nothing that is handed over.
LEMMA AsideHanded ==
  ASSUME Inv, Handed, Matched,
         UNCHANGED <<slot, main, mainReq, ipcReq, ipcResp>>,
         main # "idle" => kind'[mainReq] = kind[mainReq],
         \/ ipc' = ipc /\ fd' = fd
         \/ ipc \notin {"send", "acknowledge", "wait", "get", "header", "list"}
            /\ ipc' \in {"poll", "accept", "handle", "recv"}
  PROVE  Handed' /\ Matched'
<1>1. Handed'
  BY DEF Handed
<1>2. Matched'
  BY DEF Matched, Matches
<1> QED
  BY <1>1, <1>2

LEMMA ClientsHanded ==
  ASSUME Inv, Handed, Matched, NEW c \in Clients,
         (\E k \in Kinds : Connect(c, k)) \/ Proceed(c) \/ GiveUp(c)
  PROVE  Handed' /\ Matched'
<1>1. UNCHANGED <<slot, main, mainReq, ipcReq, ipcResp, ipc, fd>>
  BY DEF Connect, Proceed, SendCommand, Receive, ReceiveNothing, GiveUp, socketVars, ipcVars,
         mainVars
<1>2. main # "idle" => kind'[mainReq] = kind[mainReq]
  <2>1. CASE \E k \in Kinds : Connect(c, k)
    <3>1. PICK k \in Kinds : Connect(c, k)
      BY <2>1
    <3>2. c # mainReq /\ kind' = [kind EXCEPT ![c] = k]
      BY <3>1 DEF Connect, Inv, Fresh, Waiting
    <3> QED
      BY <3>2 DEF Inv, Threads
  <2>2. CASE Proceed(c) \/ GiveUp(c)
    BY <2>2 DEF Proceed, SendCommand, Receive, ReceiveNothing, GiveUp
  <2> QED
    BY <2>1, <2>2
<1> QED
  BY <1>1, <1>2, AsideHanded

LEMMA IpcHanded ==
  ASSUME Inv, Handed, Matched, IpcThread
  PROVE  Handed' /\ Matched'
<1>1. kind' = kind /\ main' = main /\ mainReq' = mainReq
  BY DEF IpcThread, Poll, AcceptClient, HandleClient, RecvCommand, kt_app_send_request,
         Acknowledge, wait_for_response, kt_app_get_response, send_header_only,
         send_list_profiles_payload, clientVars, mainVars
<1>2. CASE Poll \/ AcceptClient \/ HandleClient
  <2>1. /\ UNCHANGED <<slot, ipcReq, ipcResp>>
        /\ ipc \in {"poll", "accept", "handle"} /\ ipc' \in {"accept", "handle", "poll", "recv"}
    BY <1>2 DEF Poll, AcceptClient, HandleClient
  <2> QED
    BY <1>1, <2>1, AsideHanded
<1>3. CASE RecvCommand
  <2>1. /\ UNCHANGED <<slot, ipcResp, fd>> /\ ipc = "recv"
        /\ (ipc' = "send" /\ ipcReq' = fd) \/ (ipc' = "poll" /\ ipcReq' = ipcReq)
    BY <1>3 DEF RecvCommand
  <2>2. Handed' /\ Matched'
    BY <1>1, <2>1 DEF Handed, Matched
  <2> QED
    BY <2>2
<1>4. CASE kt_app_send_request
  <2>1. /\ ipc = "send" /\ UNCHANGED <<ipcReq, ipcResp, fd>>
        /\ slot' = [slot EXCEPT !.request = ipcReq, !.cmd_pending = TRUE]
        /\ ipc' = IF kind[ipcReq] = "generate" THEN "acknowledge" ELSE "wait"
    BY <1>4 DEF kt_app_send_request, socketVars
  <2>2. slot'.cmd_pending /\ slot'.request = ipcReq
    BY <2>1 DEF Inv, Threads
  <2>3. main # "idle" => kind[mainReq] = "generate"
    BY <2>1 DEF Handed
  <2>4. Handed' /\ Matched'
    BY <1>1, <2>1, <2>2, <2>3 DEF Handed, Matched
  <2> QED
    BY <2>4
<1>5. CASE Acknowledge \/ send_header_only \/ send_list_profiles_payload
  <2>1. /\ ipc \in {"acknowledge", "header", "list"} /\ UNCHANGED <<slot, fd>>
        /\ \/ ipc' = "poll"
           \/ ipc = "header" /\ ipc' = "list" /\ UNCHANGED <<ipcReq, ipcResp>>
    BY <1>5 DEF Acknowledge, send_header_only, send_list_profiles_payload
  <2>2. Handed'
    BY <1>1, <2>1 DEF Handed
  <2>3. Matched'
    BY <1>1, <2>1 DEF Matched, Matches
  <2> QED
    BY <2>2, <2>3
<1>6. CASE wait_for_response
  <2>1. /\ ipc = "wait" /\ ~slot.cmd_pending /\ ipc' = "get"
        /\ UNCHANGED <<slot, fd, ipcReq, ipcResp>>
    BY <1>6 DEF wait_for_response, socketVars
  <2>2. Handed'
    BY <1>1, <2>1 DEF Handed
  <2>3. Matched'
    BY <1>1, <2>1 DEF Matched, Matches
  <2> QED
    BY <2>2, <2>3
<1>7. CASE kt_app_get_response
  <2>1. /\ ipc = "get" /\ ipc' = "header" /\ ipcResp' = slot.response
        /\ UNCHANGED <<slot, fd, ipcReq>>
    BY <1>7 DEF kt_app_get_response, socketVars
  <2>2. Handed'
    BY <1>1, <2>1 DEF Handed
  <2>3. Matched'
    BY <1>1, <2>1 DEF Matched, Matches
  <2> QED
    BY <2>2, <2>3
<1> QED
  BY <1>2, <1>3, <1>4, <1>5, <1>6, <1>7 DEF IpcThread

LEMMA MainHanded ==
  ASSUME Inv, Handed, Matched, MainThread
  PROVE  Handed' /\ Matched'
<1>1. UNCHANGED <<kind, ipc, ipcReq, ipcResp, fd>>
  BY DEF MainThread, ReadCommand, ExecuteCommand, GenerateDone, DoneHeader, DonePayload, Respond,
         clientVars, socketVars, ipcVars
<1>2. CASE ReadCommand
  <2>1. /\ main = "idle" /\ slot.cmd_pending /\ mainReq' = slot.request /\ slot' = slot
    BY <1>2 DEF ReadCommand
  <2>2. kind[slot.request] # "generate" => ipc = "wait" /\ slot.request = ipcReq
    BY <2>1 DEF Inv, Mailbox, Handed
  <2>3. Handed'
    BY <1>1, <2>1, <2>2 DEF Handed
  <2>4. Matched'
    BY <1>1, <2>1 DEF Matched, Matches
  <2> QED
    BY <2>3, <2>4
<1>3. CASE ExecuteCommand \/ GenerateDone \/ DoneHeader \/ DonePayload
  <2>1. /\ main # "idle" /\ mainReq' = mainReq /\ slot.cmd_pending
        /\ slot'.cmd_pending /\ slot'.request = slot.request
    BY <1>3 DEF ExecuteCommand, GenerateDone, DoneHeader, DonePayload, Handed, Inv, Threads,
                Responses
  <2>2. ipc \notin {"get", "header", "list"}
    BY <2>1 DEF Handed
  <2>3. Handed'
    BY <1>1, <2>1 DEF Handed
  <2>4. Matched'
    BY <1>1, <2>1, <2>2 DEF Matched
  <2> QED
    BY <2>3, <2>4
<1>4. CASE Respond
  <2>1. /\ main = "respond" /\ main' = "idle" /\ slot.cmd_pending
        /\ slot'.request = slot.request /\ ~slot'.cmd_pending
        /\ slot'.response.cmd = kind[mainReq] /\ slot'.response.of = mainReq
        /\ slot'.response.list = slot.response.list
    BY <1>4 DEF Respond, Handed, Inv, Threads, Responses
  <2>2. ipc \notin {"get", "header", "list"}
    BY <2>1 DEF Handed
  <2>3. kind[mainReq] # "generate" => mainReq = ipcReq
    BY <2>1 DEF Handed
  <2>4. kind[mainReq] = "list" => slot.response.list = mainReq
    BY <2>1 DEF Inv, Mailbox
  <2>5. Handed'
    BY <1>1, <2>1, <2>2 DEF Handed
  <2>6. Matched'
    BY <1>1, <2>1, <2>2, <2>3, <2>4 DEF Matched, Matches
  <2> QED
    BY <2>5, <2>6
<1> QED
  BY <1>2, <1>3, <1>4 DEF MainThread

-----------------------------------------------------------------------------
(* The streams *)

\* A client that a step does not concern
Apart(c) ==
  /\ stream'[c] = stream[c] /\ got'[c] = got[c]
  /\ client'[c] = client[c] /\ kind'[c] = kind[c]

LEMMA ApartOrdered ==
  ASSUME NEW c \in Clients, Apart(c), Plain(c) => Orderly(c), ListNext(c) => ListNext(c)',
         Plain(c)'
  PROVE  Orderly(c)'
<1>1. Orderly(c)
  BY DEF Plain, Apart
<1>2. \A i \in 1 .. Len(stream'[c]) : Own(c, stream'[c][i])
  BY <1>1 DEF Apart, Orderly
<1>3. \A i \in 1 .. Len(stream'[c]) :
        stream'[c][i].part = "header" /\ stream'[c][i].cmd = "list" =>
          IF i = Len(stream'[c]) THEN ListNext(c)' ELSE stream'[c][i + 1] = Payload("list", c)
  BY <1>1 DEF Apart, Orderly
<1>4. client'[c] # "pending" /\ (client'[c] \in {"new", "connected", "header"} => got'[c] = << >>)
  BY <1>1 DEF Apart, Orderly
<1>5. client'[c] = "payload" =>
        /\ kind'[c] = "list" /\ got'[c] = <<Header("list", "SUCCESS", c)>>
        /\ IF stream'[c] = << >> THEN ListNext(c)' ELSE stream'[c][1] = Payload("list", c)
  BY <1>1 DEF Apart, Orderly
<1> QED
  BY <1>2, <1>3, <1>4, <1>5 DEF Orderly, Own, Payload, Header

\* What is sent to a client comes after the rest: it is the list if that is
\* due, and a header of its own or of a generation otherwise.
LEMMA SentOrdered ==
  ASSUME Inv, NEW c \in Clients, NEW u \in Units, Plain(c) => Orderly(c), Plain(c)',
         stream'[c] = Append(stream[c], u), got'[c] = got[c],
         client'[c] = client[c], kind'[c] = kind[c],
         Own(c, u), ListNext(c) => u = Payload("list", c),
         u.part = "header" /\ u.cmd = "list" => ListNext(c)'
  PROVE  Orderly(c)'
<1>1. Orderly(c)
  BY DEF Plain
<1>2. stream[c] \in Seq(Units)
  BY DEF Inv, Streams
<1> DEFINE s == stream[c]
           t == stream'[c]
<1>3. /\ Len(s) \in Nat /\ Len(t) = Len(s) + 1 /\ t[Len(s) + 1] = u
      /\ \A i \in 1 .. Len(s) : t[i] = s[i]
  BY <1>2, AppendProperties, LenProperties
<1>4. s = << >> => Len(s) = 0
  OBVIOUS
<1>5. s # << >> => 1 \in 1 .. Len(s)
  BY <1>2, EmptySeq, LenProperties
<1> HIDE DEF s, t
<1>6. \A i \in 1 .. Len(t) : Own(c, t[i])
  <2>1. \A i \in 1 .. Len(s) : Own(c, s[i])
    BY <1>1 DEF Orderly, s
  <2> SUFFICES ASSUME NEW i \in 1 .. Len(t) PROVE Own(c, t[i])
    OBVIOUS
  <2>2. CASE i = Len(s) + 1
    BY <1>3, <2>2
  <2>3. CASE i \in 1 .. Len(s)
    <3>1. t[i] = s[i] /\ Own(c, s[i])
      BY <1>3, <2>1, <2>3
    <3> QED
      BY <3>1
  <2> QED
    BY <1>3, <2>2, <2>3
<1>7. \A i \in 1 .. Len(t) : t[i].part = "header" /\ t[i].cmd = "list" =>
        IF i = Len(t) THEN ListNext(c)' ELSE t[i + 1] = Payload("list", c)
  <2>1. \A i \in 1 .. Len(s) : s[i].part = "header" /\ s[i].cmd = "list" =>
          IF i = Len(s) THEN ListNext(c) ELSE s[i + 1] = Payload("list", c)
    BY <1>1 DEF Orderly, s
  <2> SUFFICES ASSUME NEW i \in 1 .. Len(t), t[i].part = "header", t[i].cmd = "list"
               PROVE  IF i = Len(t) THEN ListNext(c)' ELSE t[i + 1] = Payload("list", c)
    OBVIOUS
  <2>2. CASE i = Len(s) + 1
    BY <1>3, <2>2
  <2>3. CASE i = Len(s)
    <3>1. ListNext(c)
      BY <1>3, <2>1, <2>3
    <3> QED
      BY <1>3, <2>3, <3>1
  <2>4. CASE i \in 1 .. Len(s) - 1
    <3>1. i \in 1 .. Len(s) /\ i + 1 \in 1 .. Len(s) /\ i # Len(s) /\ i # Len(t)
      BY <1>3, <2>4
    <3>2. t[i] = s[i] /\ t[i + 1] = s[i + 1]
      BY <1>3, <3>1
    <3>3. s[i + 1] = Payload("list", c)
      BY <2>1, <3>1, <3>2
    <3> QED
      BY <3>1, <3>2, <3>3
  <2> QED
    BY <1>3, <2>2, <2>3, <2>4
<1>8. client'[c] # "pending" /\ (client'[c] \in {"new", "connected", "header"} => got'[c] = << >>)
  BY <1>1 DEF Orderly
<1>9. client'[c] = "payload" =>
        /\ kind'[c] = "list" /\ got'[c] = <<Header("list", "SUCCESS", c)>>
        /\ t # << >> /\ t[1] = Payload("list", c)
  <2> SUFFICES ASSUME client'[c] = "payload"
               PROVE  /\ kind'[c] = "list" /\ got'[c] = <<Header("list", "SUCCESS", c)>>
                      /\ t # << >> /\ t[1] = Payload("list", c)
    OBVIOUS
  <2>1. /\ kind[c] = "list" /\ got[c] = <<Header("list", "SUCCESS", c)>>
        /\ IF s = << >> THEN ListNext(c) ELSE s[1] = Payload("list", c)
    BY <1>1 DEF Orderly, s
  <2>2. t # << >>
    <3>1. Len(t) # 0
      BY <1>3
    <3> QED
      BY <3>1, EmptySeq DEF t
  <2>3. t[1] = Payload("list", c)
    BY <1>3, <1>4, <1>5, <2>1
  <2> QED
    BY <2>1, <2>2, <2>3
<1> QED
  BY <1>6, <1>7, <1>8, <1>9 DEF Orderly, Own, Payload, Header, t

\* What a client has read is taken from the front of its stream.
LEMMA ReceiveOrdered ==
  ASSUME Inv, NEW c \in Clients, Orderly(c), Plain(c), client[c] # "new", Receive(c)
  PROVE  /\ Plain(c)' => Orderly(c)'
         /\ client'[c] = "ok" =>
              got'[c] = IF kind[c] = "list"
                        THEN <<Header("list", "SUCCESS", c), Payload("list", c)>>
                        ELSE <<Header(kind[c], "SUCCESS", c)>>
<1> DEFINE s == stream[c]
           t == stream'[c]
           u == Head(stream[c])
<1>1. /\ s \in Seq(Units) /\ s # << >> /\ t = Tail(s) /\ u = s[1]
      /\ client[c] \in {"header", "payload"} /\ got[c] \in Seq(Units)
      /\ got'[c] = Append(got[c], u) /\ kind' = kind /\ kind[c] # "generate"
      /\ client'[c] = IF client[c] = "payload" THEN "ok" ELSE AfterHeader(c, u)
      /\ UNCHANGED <<ipc, fd>>
  BY DEF Receive, Inv, Streams, Threads, Plain, Orderly, socketVars, ipcVars
<1>2. /\ Len(s) \in Nat /\ Len(s) >= 1 /\ u \in Units /\ Len(t) = Len(s) - 1
      /\ \A i \in 1 .. Len(t) : t[i] = s[i + 1]
      /\ t = << >> => Len(s) = 1
      /\ t # << >> => Len(s) >= 2
  <2>1. Len(s) \in Nat /\ Len(s) >= 1 /\ s[1] \in Units
    BY <1>1, EmptySeq, LenProperties, ElementOfSeq
  <2>2. /\ t \in Seq(Units) /\ Len(t) = Len(s) - 1
        /\ \A i \in 1 .. Len(t) : t[i] = s[i + 1]
    BY <1>1, HeadTailProperties
  <2>3. t # << >> => Len(t) # 0
    BY <2>2, EmptySeq
  <2>4. t = << >> => Len(t) = 0
    OBVIOUS
  <2> HIDE DEF s, t
  <2> QED
    BY <1>1, <2>1, <2>2, <2>3, <2>4
<1>3. /\ \A i \in 1 .. Len(s) : Own(c, s[i])
      /\ \A i \in 1 .. Len(s) :
           s[i].part = "header" /\ s[i].cmd = "list" =>
             IF i = Len(s) THEN ListNext(c) ELSE s[i + 1] = Payload("list", c)
      /\ client[c] = "header" => got[c] = << >>
      /\ client[c] = "payload" =>
           /\ kind[c] = "list" /\ got[c] = <<Header("list", "SUCCESS", c)>>
           /\ u = Payload("list", c)
  BY <1>1 DEF Orderly
<1> HIDE DEF s, t, u
<1>4. Own(c, u)
  <2>1. 1 \in 1 .. Len(s)
    BY <1>2
  <2> QED
    BY <1>1, <1>3, <2>1
<1>5. CASE client[c] = "payload"
  <2>1. client'[c] = "ok" /\ kind[c] = "list"
    BY <1>1, <1>3, <1>5
  <2>2. got'[c] = Append(<<Header("list", "SUCCESS", c)>>, Payload("list", c))
    BY <1>1, <1>3, <1>5
  <2>3. got'[c] = <<Header("list", "SUCCESS", c), Payload("list", c)>>
    BY <2>2, Short
  <2> QED
    BY <2>1, <2>3 DEF Plain, Ended
<1>6. CASE client[c] = "header"
  <2>1. got[c] = << >> /\ client'[c] = AfterHeader(c, u)
    BY <1>1, <1>3, <1>6
  <2>2. got'[c] = <<u>>
    BY <1>1, <2>1
  <2>3. CASE client'[c] = "failed"
    BY <2>3 DEF Plain, Ended
  <2>4. CASE client'[c] # "failed"
    <3>1. u.part = "header" /\ u.cmd = kind[c]
      BY <2>1, <2>4 DEF AfterHeader
    <3>2. u.of = c /\ u.rc = "SUCCESS"
      BY <1>1, <1>4, <3>1 DEF Own
    <3>3. u = Header(kind[c], "SUCCESS", c)
      BY <1>2, <3>1, <3>2 DEF Units, Header
    <3>4. client'[c] = IF kind[c] = "list" THEN "payload" ELSE "ok"
      BY <1>1, <2>1, <3>1, <3>2 DEF AfterHeader
    <3>5. CASE kind[c] # "list"
      BY <2>2, <3>3, <3>4, <3>5 DEF Plain, Ended
    <3>6. CASE kind[c] = "list"
      <4>1. IF Len(s) = 1 THEN ListNext(c) ELSE s[2] = Payload("list", c)
        <5>1. 1 \in 1 .. Len(s) /\ s[1].part = "header" /\ s[1].cmd = "list"
          BY <1>1, <1>2, <3>1, <3>6
        <5>2. IF 1 = Len(s) THEN ListNext(c) ELSE s[1 + 1] = Payload("list", c)
          BY <1>3, <5>1
        <5> QED
          BY <5>2
      <4>2. IF t = << >> THEN ListNext(c) ELSE t[1] = Payload("list", c)
        <5>1. t # << >> => 1 \in 1 .. Len(t) /\ t[1] = s[2]
          BY <1>2
        <5> QED
          BY <1>2, <4>1, <5>1
      <4>3. \A i \in 1 .. Len(t) : Own(c, t[i])
        <5> SUFFICES ASSUME NEW i \in 1 .. Len(t) PROVE Own(c, t[i])
          OBVIOUS
        <5>1. i + 1 \in 1 .. Len(s) /\ t[i] = s[i + 1]
          BY <1>2
        <5> QED
          BY <1>3, <5>1
      <4>4. \A i \in 1 .. Len(t) : t[i].part = "header" /\ t[i].cmd = "list" =>
              IF i = Len(t) THEN ListNext(c) ELSE t[i + 1] = Payload("list", c)
        <5> SUFFICES ASSUME NEW i \in 1 .. Len(t), t[i].part = "header", t[i].cmd = "list"
                     PROVE  IF i = Len(t) THEN ListNext(c) ELSE t[i + 1] = Payload("list", c)
          OBVIOUS
        <5>1. i + 1 \in 1 .. Len(s) /\ t[i] = s[i + 1]
          BY <1>2
        <5>2. IF i + 1 = Len(s) THEN ListNext(c) ELSE s[i + 1 + 1] = Payload("list", c)
          BY <1>3, <5>1
        <5>3. CASE i = Len(t)
          <6>1. i + 1 = Len(s)
            BY <1>2, <5>3
          <6> QED
            BY <5>2, <5>3, <6>1
        <5>4. CASE i # Len(t)
          <6>1. i + 1 \in 1 .. Len(t) /\ i + 1 # Len(s)
            BY <1>2, <5>4
          <6>2. t[i + 1] = s[i + 1 + 1]
            BY <1>2, <6>1
          <6> QED
            BY <5>2, <5>4, <6>1, <6>2
        <5> QED
          BY <5>3, <5>4
      <4>5. ListNext(c) => ListNext(c)'
        BY <1>1 DEF ListNext
      <4>6. client'[c] = "payload" /\ got'[c] = <<Header("list", "SUCCESS", c)>>
            /\ kind'[c] = "list"
        BY <1>1, <2>2, <3>3, <3>4, <3>6
      <4>7. \A i \in 1 .. Len(t) : t[i].part = "header" /\ t[i].cmd = "list" =>
              IF i = Len(t) THEN ListNext(c)' ELSE t[i + 1] = Payload("list", c)
        BY <4>4, <4>5
      <4>8. IF t = << >> THEN ListNext(c)' ELSE t[1] = Payload("list", c)
        BY <4>2, <4>5
      <4>9. Orderly(c)'
        BY <4>3, <4>6, <4>7, <4>8 DEF Orderly, Own, Payload, Header, t
      <4> QED
        BY <4>6, <4>9
    <3> QED
      BY <3>5, <3>6
  <2> QED
    BY <2>3, <2>4
<1> QED
  BY <1>1, <1>5, <1>6

LEMMA ClientsOrdered ==
  ASSUME Inv, OwnInv, NEW d \in Clients,
         (\E k \in Kinds : Connect(d, k)) \/ Proceed(d) \/ GiveUp(d)
  PROVE  Ordered' /\ OwnAnswer'
<1>1. UNCHANGED <<ipc, fd>>
  BY DEF Connect, Proceed, SendCommand, Receive, ReceiveNothing, GiveUp, socketVars, ipcVars
<1>2. \A c \in Clients \ {d} : Apart(c)
  BY DEF Connect, Proceed, SendCommand, Receive, ReceiveNothing, GiveUp, socketVars, Apart,
         Inv, Threads, Streams
<1>3. \A c \in Clients \ {d} : Plain(c)' => Orderly(c)'
  BY <1>1, <1>2, ApartOrdered DEF OwnInv, Ordered, ListNext
<1>4. \A c \in Clients \ {d} : client'[c] = "ok" /\ kind'[c] # "generate" =>
        got'[c] = IF kind'[c] = "list"
                  THEN <<Header("list", "SUCCESS", c), Payload("list", c)>>
                  ELSE <<Header(kind'[c], "SUCCESS", c)>>
  BY <1>2 DEF Apart, OwnInv, OwnAnswer
<1>5. /\ Plain(d)' => Orderly(d)'
      /\ client'[d] = "ok" /\ kind'[d] # "generate" =>
           got'[d] = IF kind'[d] = "list"
                     THEN <<Header("list", "SUCCESS", d), Payload("list", d)>>
                     ELSE <<Header(kind'[d], "SUCCESS", d)>>
  <2>1. CASE (\E k \in Kinds : Connect(d, k)) \/ SendCommand(d)
    <3>1. /\ client[d] \in {"new", "connected"} /\ client'[d] \in {"connected", "failed", "header"}
          /\ stream' = stream /\ got' = got
      BY <2>1 DEF Connect, SendCommand, Inv, Threads
    <3>2. client[d] = "new" \/ kind'[d] = kind[d]
      BY <2>1 DEF Connect, SendCommand
    <3>3. Plain(d)' => Orderly(d)
      BY <3>1, <3>2 DEF Plain, OwnInv, Ordered, Ended
    <3>4. Plain(d)' => Orderly(d)'
      <4> SUFFICES ASSUME Plain(d)' PROVE Orderly(d)'
        OBVIOUS
      <4>1. Orderly(d) /\ client'[d] \in {"connected", "header"}
        BY <3>1, <3>3 DEF Plain, Ended
      <4> QED
        BY <1>1, <3>1, <4>1 DEF Orderly, Own, ListNext, Payload, Header
    <3> QED
      BY <3>1, <3>4
  <2>2. CASE Receive(d)
    <3>1. client[d] \in {"header", "pending", "payload"} /\ kind' = kind
      BY <2>2 DEF Receive
    <3>2. CASE kind[d] = "generate"
      <4>1. client'[d] # "new" /\ kind'[d] = "generate"
        BY <2>2, <3>1, <3>2 DEF Receive, AfterHeader, Inv, Threads
      <4> QED
        BY <4>1 DEF Plain
    <3>3. CASE kind[d] # "generate"
      <4>1. Plain(d) /\ client[d] # "new"
        BY <3>1, <3>3 DEF Plain, Ended
      <4>2. Orderly(d)
        BY <4>1 DEF OwnInv, Ordered
      <4> QED
        BY <2>2, <3>1, <4>1, <4>2, ReceiveOrdered
    <3> QED
      BY <3>2, <3>3
  <2>3. CASE ReceiveNothing(d) \/ GiveUp(d)
    <3>1. client'[d] \in {"failed", "gaveUp"}
      BY <2>3 DEF ReceiveNothing, GiveUp, Inv, Threads
    <3> QED
      BY <3>1 DEF Plain, Ended
  <2> QED
    BY <2>1, <2>2, <2>3 DEF Proceed
<1>6. Ordered'
  BY <1>3, <1>5 DEF Ordered
<1>7. \A c \in Clients : client'[c] = "ok" /\ kind'[c] # "generate" =>
        got'[c] = IF kind'[c] = "list"
                  THEN <<Header("list", "SUCCESS", c), Payload("list", c)>>
                  ELSE <<Header(kind'[c], "SUCCESS", c)>>
  BY <1>4, <1>5
<1>8. OwnAnswer'
  BY <1>7 DEF OwnAnswer, Header, Payload
<1> QED
  BY <1>6, <1>8

\* A thread that sends nothing
LEMMA SilentOrdered ==
  ASSUME Inv, OwnInv, UNCHANGED <<client, kind, got, stream>>, ipc # "list" \/ UNCHANGED <<ipc, fd>>
  PROVE  Ordered'
<1>1. \A c \in Clients : Apart(c)
  BY DEF Apart
<1>2. \A c \in Clients : Plain(c)' => Orderly(c)'
  BY <1>1, ApartOrdered DEF OwnInv, Ordered, ListNext
<1> QED
  BY <1>2 DEF Ordered

\* A thread that sends u on the connection there is
LEMMA SendOrdered ==
  ASSUME Inv, OwnInv, UNCHANGED <<client, kind, got, fd>>, NEW u \in Units,
         SendTo(fd, u),
         fd # NoClient /\ Plain(fd) =>
           /\ Own(fd, u)
           /\ ipc = "list" => u = Payload("list", fd)
           /\ u.part = "header" /\ u.cmd = "list" => ipc' = "list"
  PROVE  Ordered'
<1>1. fd \in Clients \cup {NoClient}
  BY DEF Inv, Threads
<1>2. \A c \in Clients \ {fd} : Apart(c)
  BY <1>1 DEF SendTo, Apart, Inv, Streams
<1>3. \A c \in Clients \ {fd} : Plain(c)' => Orderly(c)'
  BY <1>2, ApartOrdered DEF OwnInv, Ordered, ListNext
<1>4. ASSUME fd # NoClient, Plain(fd)'
      PROVE  Orderly(fd)'
  <2>1. Plain(fd) /\ fd \in Clients /\ ~HungUp(fd)
    BY <1>1, <1>4 DEF Plain, HungUp
  <2>2. stream'[fd] = Append(stream[fd], u)
    BY <1>4, <2>1 DEF SendTo, Inv, Streams
  <2> DEFINE c == fd
  <2>3. /\ c \in Clients /\ Plain(c) /\ Orderly(c) /\ Own(c, u)
        /\ stream'[c] = Append(stream[c], u) /\ got'[c] = got[c]
        /\ client'[c] = client[c] /\ kind'[c] = kind[c]
        /\ ListNext(c) => u = Payload("list", c)
        /\ u.part = "header" /\ u.cmd = "list" => (ipc = "list" /\ fd = c)'
    BY <1>4, <2>1, <2>2 DEF OwnInv, Ordered, ListNext
  <2> QED
    BY <1>4, <2>3, SentOrdered DEF ListNext
<1>5. \A c \in Clients : Plain(c)' => Orderly(c)'
  BY <1>3, <1>4, IpcAssumption
<1> QED
  BY <1>5 DEF Ordered

LEMMA IpcOrdered ==
  ASSUME Inv, OwnInv, IpcThread
  PROVE  Ordered'
<1>1. /\ UNCHANGED <<client, kind, got>> /\ fd \in Clients \cup {NoClient}
      /\ ipc \in {"send", "acknowledge", "wait", "get", "header", "list"} => ipcReq = fd
  BY DEF IpcThread, Poll, AcceptClient, HandleClient, RecvCommand, kt_app_send_request,
         Acknowledge, wait_for_response, kt_app_get_response, send_header_only,
         send_list_profiles_payload, clientVars, Inv, Threads, OwnInv, Handed
<1>2. CASE Poll \/ AcceptClient \/ HandleClient \/ RecvCommand \/ kt_app_send_request
           \/ wait_for_response \/ kt_app_get_response
  <2>1. ipc # "list" /\ UNCHANGED stream
    BY <1>2 DEF Poll, AcceptClient, HandleClient, RecvCommand, kt_app_send_request,
                wait_for_response, kt_app_get_response, socketVars
  <2> QED
    BY <1>1, <2>1, SilentOrdered
<1>3. CASE Acknowledge
  <2>1. /\ ipc = "acknowledge" /\ ipcReq = fd /\ ipcReq \in Clients /\ kind[ipcReq] = "generate"
        /\ client[ipcReq] # "new" /\ fd' = fd
    BY <1>1, <1>3 DEF Acknowledge, Inv, Threads, Answers, Fresh, Waiting
  <2>2. Header("generate", "PENDING", ipcReq) \in Units
    BY <2>1 DEF Header, Units, Inv, Known
  <2>3. ~Plain(fd)
    BY <2>1 DEF Plain
  <2> QED
    BY <1>1, <1>3, <2>1, <2>2, <2>3, SendOrdered DEF Acknowledge
<1>4. CASE send_header_only
  <2> DEFINE u == Header(ipcResp.cmd, "SUCCESS", ipcResp.of)
  <2>1. /\ ipc = "header" /\ fd' = fd /\ SendTo(fd, u)
        /\ ipcResp.cmd = "list" /\ ~HungUp(fd) => ipc' = "list"
    BY <1>4 DEF send_header_only
  <2>2. ipcResp.cmd \in Kinds /\ ipcResp.of \in Clients
    BY <2>1 DEF Inv, Threads, Responses, Answers, Whole
  <2>3. u \in Units
    BY <2>2 DEF Header, Units
  <2>4. u.cmd = ipcResp.cmd /\ u.of = ipcResp.of /\ u.rc = "SUCCESS"
    BY DEF Header
  <2>5. Own(fd, u)
    BY <1>1, <2>1, <2>4 DEF Own, OwnInv, Matched, Matches
  <2>6. Plain(fd) => ~HungUp(fd)
    BY DEF Plain, HungUp
  <2> HIDE DEF u
  <2> QED
    BY <1>1, <2>1, <2>3, <2>4, <2>5, <2>6, SendOrdered
<1>5. CASE send_list_profiles_payload
  <2>1. /\ ipc = "list" /\ fd' = fd /\ ipcResp.list = fd
        /\ SendTo(fd, Payload("list", ipcResp.list))
    BY <1>1, <1>5 DEF send_list_profiles_payload, OwnInv, Matched, Matches, Inv, Answers
  <2>2. "list" \in Kinds /\ ipcResp.list \in Clients
    BY <2>1 DEF Inv, Threads, Responses, Answers, Whole
  <2>3. Payload("list", ipcResp.list) \in Units /\ Payload("list", ipcResp.list).part = "payload"
    BY <2>2 DEF Payload, Units
  <2> QED
    BY <1>1, <2>1, <2>3, SendOrdered DEF Own
<1> QED
  BY <1>2, <1>3, <1>4, <1>5 DEF IpcThread

LEMMA MainOrdered ==
  ASSUME Inv, OwnInv, MainThread
  PROVE  Ordered'
<1>1. UNCHANGED <<client, kind, got, ipc, fd>>
  BY DEF MainThread, ReadCommand, ExecuteCommand, GenerateDone, DoneHeader, DonePayload, Respond,
         clientVars, socketVars, ipcVars
<1>2. CASE ReadCommand \/ ExecuteCommand \/ GenerateDone \/ Respond
  <2>1. UNCHANGED stream
    BY <1>2 DEF ReadCommand, ExecuteCommand, GenerateDone, Respond, socketVars
  <2> QED
    BY <1>1, <2>1, SilentOrdered
<1>3. CASE DoneHeader \/ DonePayload
  <2>1. /\ main \in {"doneHeader", "donePayload"} /\ mainReq \in Clients
        /\ kind[mainReq] = "generate" /\ client[mainReq] # "new"
    BY <1>3 DEF DoneHeader, DonePayload, Inv, Threads, Mailbox, Fresh, Waiting
  <2>2. ipc # "list"
    BY <2>1 DEF OwnInv, Handed
  <2>3. /\ Header("generate", "SUCCESS", mainReq) \in Units
        /\ Payload("generate", mainReq) \in Units
        /\ Header("generate", "SUCCESS", mainReq).cmd = "generate"
        /\ Payload("generate", mainReq).part = "payload"
    BY <2>1 DEF Header, Payload, Units, Inv, Known
  <2>4. CASE DoneHeader
    BY <1>1, <2>2, <2>3, <2>4, SendOrdered DEF DoneHeader, Own
  <2>5. CASE DonePayload
    BY <1>1, <2>2, <2>3, <2>5, SendOrdered DEF DonePayload, Own
  <2> QED
    BY <1>3, <2>4, <2>5
<1> QED
  BY <1>2, <1>3 DEF MainThread

LEMMA NextOwn ==
  ASSUME Inv, OwnInv, [Next]_vars
  PROVE  OwnInv'
<1>1. ASSUME NEW c \in Clients, (\E k \in Kinds : Connect(c, k)) \/ Proceed(c) \/ GiveUp(c)
      PROVE  OwnInv'
  <2>1. Handed' /\ Matched'
    BY <1>1, ClientsHanded DEF OwnInv
  <2>2. Ordered' /\ OwnAnswer'
    BY <1>1, ClientsOrdered
  <2> QED
    BY <2>1, <2>2 DEF OwnInv
<1>2. CASE IpcThread
  <2>1. Handed' /\ Matched' /\ Ordered'
    BY <1>2, IpcHanded, IpcOrdered DEF OwnInv
  <2>2. UNCHANGED <<client, kind, got>>
    BY <1>2 DEF IpcThread, Poll, AcceptClient, HandleClient, RecvCommand, kt_app_send_request,
         Acknowledge, wait_for_response, kt_app_get_response, send_header_only,
         send_list_profiles_payload, clientVars
  <2> QED
    BY <2>1, <2>2 DEF OwnInv, OwnAnswer
<1>3. CASE MainThread
  <2>1. Handed' /\ Matched' /\ Ordered'
    BY <1>3, MainHanded, MainOrdered DEF OwnInv
  <2>2. UNCHANGED <<client, kind, got>>
    BY <1>3 DEF MainThread, ReadCommand, ExecuteCommand, GenerateDone, DoneHeader, DonePayload,
         Respond, clientVars
  <2> QED
    BY <2>1, <2>2 DEF OwnInv, OwnAnswer
<1>4. CASE UNCHANGED vars
  <2>1. UNCHANGED <<client, kind, got, stream, ipc, fd, ipcReq, ipcResp, slot, main, mainReq>>
    BY <1>4 DEF vars, clientVars, socketVars, ipcVars, mainVars
  <2>2. Handed' /\ Matched'
    BY <2>1, AsideHanded DEF OwnInv
  <2>3. Ordered'
    BY <2>1, SilentOrdered
  <2> QED
    BY <2>1, <2>2, <2>3 DEF OwnInv, OwnAnswer
<1> QED
  BY <1>1, <1>2, <1>3, <1>4 DEF Next

\* A request that is not for a face id is answered with its own response, or
\* not at all, whatever the generations under way leave in the shared memory
\* and send on its connection.
THEOREM OwnAnswers == Spec => []OwnAnswer
<1>1. Init => OwnInv
  BY InitOwn
<1>2. Inv /\ OwnInv /\ [Next]_vars => OwnInv'
  BY NextOwn
<1>3. OwnInv => OwnAnswer
  BY DEF OwnInv
<1> QED
  BY <1>1, <1>2, <1>3, Invariance, PTL DEF Spec

-----------------------------------------------------------------------------
(***************************************************************************)
(* The refinement. As long as nobody asks for a face id one thread waits   *)
(* for the other, and what is in the sockets and in the shared memory is   *)
(* the state of one request.                                               *)
(***************************************************************************)

NoGeneration == "generate" \notin Kinds

\* The connection in use, those to come and those closed are different ones.
Sockets ==
  /\ \A i, j \in 1 .. Len(backlog) : backlog[i] = backlog[j] => i = j
  /\ \A i \in 1 .. Len(backlog) :
       /\ backlog[i] # fd /\ backlog[i] \notin shut
       /\ client[backlog[i]] # "new"
  /\ fd # NoClient => fd \notin shut /\ client[fd] # "new"
  /\ \A c \in shut : client[c] # "new"

\* The IPC thread answers a request on the connection that it came from.
InHand(c) == ipc \in {"send", "wait", "get", "header", "list"} /\ ipcReq = c

Ready(r, c) == r.cmd = kind[c] /\ r.of = c /\ (kind[c] = "list" => r.list = c)

\* One thread waits for the other, so that the shared memory has one request.
Alternate ==
  /\ \A c \in Clients : InHand(c) => fd = c
  /\ main \in {"execute", "respond"} => ipc = "wait" /\ slot.cmd_pending /\ mainReq = slot.request
  /\ slot.cmd_pending => ipc = "wait"
  /\ ipc = "wait" => slot.request = ipcReq
  /\ main = "respond" => executed[mainReq] = 1
  /\ ipc = "get" \/ (ipc = "wait" /\ ~slot.cmd_pending) =>
       executed[ipcReq] = 1 /\ Ready(slot.response, ipcReq)
  /\ ipc \in {"header", "list"} => executed[ipcReq] = 1 /\ Ready(ipcResp, ipcReq)

H(c) == Header(kind[c], "SUCCESS", c)
P(c) == Payload("list", c)

\* What is on its way to a client is the rest of the answer to its request.
Told ==
  \A c \in Clients :
    /\ client[c] \in {"new", "connected"} => stream[c] = << >>
    /\ client[c] = "header" =>
         /\ c \in unread \/ (InHand(c) /\ ipc # "list") => stream[c] = << >>
         /\ InHand(c) /\ ipc = "list" => stream[c] = <<H(c)>>
         /\ c \notin unread /\ ~InHand(c) =>
              stream[c] = IF kind[c] = "list" THEN <<H(c), P(c)>> ELSE <<H(c)>>
    /\ client[c] = "payload" =>
         /\ kind[c] = "list" /\ c \notin unread
         /\ InHand(c) => ipc = "list" /\ stream[c] = << >>
         /\ ~InHand(c) => stream[c] = <<P(c)>>
    /\ client[c] # "pending"

\* A client that waits in vain has not been served, the others have.
Ends ==
  \A c \in Clients :
    /\ client[c] = "failed" => c \in shut /\ executed[c] = 0
    /\ client[c] = "ok" => c \notin unread /\ ~InHand(c)
    /\ /\ client[c] \in {"header", "payload", "ok"} /\ c \notin unread
       /\ ~(InHand(c) /\ ipc \in {"send", "wait"})
       => executed[c] = 1

SyncInv == Inv /\ NoGeneration /\ Sockets /\ Alternate /\ Told /\ Ends

-----------------------------------------------------------------------------
\* No client asks for a face id, so neither thread handles such a request.
LEMMA NoneGenerates ==
  ASSUME SyncInv
  PROVE  /\ \A c \in Clients : kind[c] # "generate"
         /\ ipc # "acknowledge" /\ main \in {"idle", "execute", "respond"}
<1>1. \A c \in Clients : kind[c] # "generate"
  BY IpcAssumption DEF SyncInv, NoGeneration, Inv, Threads
<1>2. ipc # "acknowledge"
  BY <1>1 DEF SyncInv, Inv, Threads, Answers
<1>3. main \in {"idle", "execute", "respond"}
  BY <1>1 DEF SyncInv, Inv, Threads, Mailbox
<1> QED
  BY <1>1, <1>2, <1>3

LEMMA InitSync ==
  ASSUME NoGeneration, Init
  PROVE  SyncInv
<1>1. Inv
  BY InitInv
<1>2. Sockets
  BY DEF Init, Sockets
<1>3. Alternate /\ Told /\ Ends
  BY IpcAssumption DEF Init, Alternate, Told, Ends, InHand
<1> QED
  BY <1>1, <1>2, <1>3 DEF SyncInv

LEMMA SameSync ==
  ASSUME SyncInv, UNCHANGED vars
  PROVE  Sockets' /\ Alternate' /\ Told' /\ Ends'
<1> USE DEF SyncInv, vars, clientVars, socketVars, ipcVars, mainVars
<1>1. Sockets'
  BY DEF Sockets
<1>2. Alternate'
  BY DEF Alternate, InHand, Ready
<1>3. Told'
  BY DEF Told, InHand, H, P
<1>4. Ends'
  BY DEF Ends, InHand
<1> QED
  BY <1>1, <1>2, <1>3, <1>4

\* The sockets of kt_app stay as they are, whatever their clients do.
LEMMA SameSockets ==
  ASSUME SyncInv, UNCHANGED <<shut, backlog, fd>>,
         \A d \in Clients : client'[d] = "new" => client[d] = "new"
  PROVE  Sockets'
<1>1. \A i \in 1 .. Len(backlog) : backlog[i] \in Clients
  <2>1. backlog \in Seq(Clients)
    BY DEF SyncInv, Inv, Streams
  <2> QED
    BY <2>1
<1>2. shut \subseteq Clients /\ fd \in Clients \cup {NoClient}
  BY DEF SyncInv, Inv, Threads
<1> QED
  BY <1>1, <1>2 DEF SyncInv, Sockets

-----------------------------------------------------------------------------
(* Clients *)

LEMMA ConnectSync ==
  ASSUME SyncInv, NEW c \in Clients, NEW k \in Kinds, Connect(c, k)
  PROVE  Sockets' /\ Alternate' /\ Told' /\ Ends'
<1>1. /\ client[c] = "new" /\ client' = [client EXCEPT ![c] = "connected"]
      /\ kind' = [kind EXCEPT ![c] = k] /\ backlog' = Append(backlog, c)
      /\ UNCHANGED <<got, unread, stream, shut, fd, ipc, revents, ipcReq, ipcResp, slot, main,
                     mainReq, executed>>
  BY DEF Connect, ipcVars, mainVars
<1>2. /\ client'[c] = "connected"
      /\ \A d \in Clients \ {c} : client'[d] = client[d] /\ kind'[d] = kind[d]
  BY <1>1 DEF SyncInv, Inv, Threads
<1>3. c # slot.request /\ c # mainReq /\ c # ipcReq /\ executed[c] = 0 /\ stream[c] = << >>
  BY <1>1 DEF SyncInv, Inv, Fresh, Waiting, Told
<1>4. Sockets'
  <2>1. backlog \in Seq(Clients)
    BY DEF SyncInv, Inv, Streams
  <2>2. /\ Len(backlog') = Len(backlog) + 1 /\ Len(backlog) \in Nat
        /\ backlog'[Len(backlog) + 1] = c
        /\ \A i \in 1 .. Len(backlog) : backlog'[i] = backlog[i] /\ backlog[i] \in Clients
    BY <1>1, <2>1
  <2>3. /\ c # fd /\ c \notin shut
        /\ \A i \in 1 .. Len(backlog) : backlog[i] # c
    BY <1>1, IpcAssumption DEF SyncInv, Sockets
  <2>4. \A i, j \in 1 .. Len(backlog') : backlog'[i] = backlog'[j] => i = j
    BY <2>2, <2>3 DEF SyncInv, Sockets
  <2>5. \A i \in 1 .. Len(backlog') :
          backlog'[i] # fd' /\ backlog'[i] \notin shut' /\ client'[backlog'[i]] # "new"
    BY <1>1, <1>2, <2>2, <2>3 DEF SyncInv, Sockets
  <2>6. fd' # NoClient => fd' \notin shut' /\ client'[fd'] # "new"
    BY <1>1, <1>2, <2>3 DEF SyncInv, Inv, Threads, Sockets
  <2>7. \A d \in shut' : client'[d] # "new"
    BY <1>1, <1>2, <2>3 DEF SyncInv, Inv, Threads, Sockets
  <2> QED
    BY <2>4, <2>5, <2>6, <2>7 DEF Sockets
<1>5. Alternate'
  BY <1>1, <1>2, <1>3 DEF SyncInv, Inv, Threads, Answers, Alternate, InHand, Ready
<1>6. Told'
  BY <1>1, <1>2, <1>3 DEF SyncInv, Told, InHand, H, P
<1>7. Ends'
  BY <1>1, <1>2, <1>3 DEF SyncInv, Ends, InHand
<1> QED
  BY <1>4, <1>5, <1>6, <1>7

LEMMA SendCommandSync ==
  ASSUME SyncInv, NEW c \in Clients, SendCommand(c)
  PROVE  Sockets' /\ Alternate' /\ Told' /\ Ends'
<1>1. /\ client[c] = "connected"
      /\ \/ c \in shut /\ client' = [client EXCEPT ![c] = "failed"] /\ unread' = unread
         \/ client' = [client EXCEPT ![c] = "header"] /\ unread' = unread \cup {c}
      /\ UNCHANGED <<kind, got, stream, shut, backlog, fd, ipc, revents, ipcReq, ipcResp, slot,
                     main, mainReq, executed>>
  BY DEF SendCommand, ipcVars, mainVars
<1>2. /\ \/ c \in shut /\ client'[c] = "failed" /\ unread' = unread
         \/ client'[c] = "header" /\ unread' = unread \cup {c}
      /\ \A d \in Clients \ {c} : client'[d] = client[d]
  BY <1>1 DEF SyncInv, Inv, Threads
<1>3. c \notin unread /\ c # ipcReq /\ executed[c] = 0 /\ stream[c] = << >>
  BY <1>1 DEF SyncInv, Inv, Fresh, Waiting, Told
<1>4. Sockets'
  BY <1>1, <1>2, SameSockets
<1>5. Alternate'
  BY <1>1 DEF SyncInv, Alternate, InHand, Ready
<1>6. Told'
  BY <1>1, <1>2, <1>3 DEF SyncInv, Told, InHand, H, P
<1>7. Ends'
  BY <1>1, <1>2, <1>3 DEF SyncInv, Ends, InHand
<1> QED
  BY <1>4, <1>5, <1>6, <1>7

\* What a client may read is what it expects.
LEMMA Reading ==
  ASSUME SyncInv, NEW c \in Clients, Receive(c)
  PROVE  /\ ~(c \in unread) /\ executed[c] = 1
         /\ \/ /\ client[c] = "header" /\ kind[c] = "list"
               /\ client' = [client EXCEPT ![c] = "payload"]
               /\ stream' = [stream EXCEPT ![c] = IF InHand(c) THEN << >> ELSE <<P(c)>>]
               /\ InHand(c) => ipc = "list"
            \/ /\ client[c] \in {"header", "payload"} /\ ~InHand(c)
               /\ client' = [client EXCEPT ![c] = "ok"]
<1>1. /\ client[c] \in {"header", "payload"} /\ stream[c] # << >>
      /\ client' = [client EXCEPT ![c] = IF client[c] = "payload" THEN "ok"
                                         ELSE AfterHeader(c, Head(stream[c]))]
      /\ stream' = [stream EXCEPT ![c] = Tail(stream[c])]
  BY DEF Receive, SyncInv, Told
<1>2. CASE client[c] = "payload"
  BY <1>1, <1>2 DEF SyncInv, Told, Ends, InHand
<1>3. CASE client[c] = "header"
  <2>1. c \notin unread /\ (InHand(c) => ipc = "list")
    BY <1>1, <1>3 DEF SyncInv, Told
  <2>2. executed[c] = 1
    BY <1>3, <2>1 DEF SyncInv, Ends
  <2>3. kind[c] \in Kinds /\ kind[c] # "generate"
    BY <1>3, NoneGenerates DEF SyncInv, Inv, Known
  <2>4. InHand(c) => kind[c] = "list"
    BY <2>1 DEF SyncInv, Alternate, Inv, Answers, InHand, Ready
  <2>5. stream[c] \in {<<H(c)>>, <<H(c), P(c)>>}
    BY <1>3, <2>1 DEF SyncInv, Told
  <2>6. AfterHeader(c, H(c)) = IF kind[c] = "list" THEN "payload" ELSE "ok"
    BY <2>3 DEF AfterHeader, H, Header
  <2>7. Head(stream[c]) = H(c)
    BY <2>5, Short
  <2>8. CASE kind[c] = "list"
    <3>1. Tail(stream[c]) = IF InHand(c) THEN << >> ELSE <<P(c)>>
      <4>1. CASE InHand(c)
        <5>1. stream[c] = <<H(c)>>
          BY <1>3, <2>1, <4>1 DEF SyncInv, Told
        <5> QED
          BY <4>1, <5>1, Short
      <4>2. CASE ~InHand(c)
        <5>1. stream[c] = <<H(c), P(c)>>
          BY <1>3, <2>1, <2>8, <4>2 DEF SyncInv, Told
        <5> QED
          BY <4>2, <5>1, Short
      <4> QED
        BY <4>1, <4>2
    <3> QED
      BY <1>1, <1>3, <2>1, <2>2, <2>6, <2>7, <2>8, <3>1
  <2>9. CASE kind[c] # "list"
    BY <1>1, <1>3, <2>1, <2>2, <2>4, <2>6, <2>7, <2>9
  <2> QED
    BY <2>8, <2>9
<1> QED
  BY <1>1, <1>2, <1>3

LEMMA ReceiveSync ==
  ASSUME SyncInv, NEW c \in Clients, Receive(c)
  PROVE  Sockets' /\ Alternate' /\ Told' /\ Ends'
<1>1. /\ UNCHANGED <<kind, unread, shut, backlog, fd, ipc, revents, ipcReq, ipcResp, slot, main,
                     mainReq, executed>>
      /\ stream' = [stream EXCEPT ![c] = Tail(stream[c])]
      /\ client[c] # "new"
  BY DEF Receive, ipcVars, mainVars
<1>2. /\ c \notin unread /\ executed[c] = 1
      /\ \/ /\ client[c] = "header" /\ kind[c] = "list" /\ client'[c] = "payload"
            /\ stream'[c] = IF InHand(c) THEN << >> ELSE <<P(c)>>
            /\ InHand(c) => ipc = "list"
         \/ client[c] \in {"header", "payload"} /\ ~InHand(c) /\ client'[c] = "ok"
      /\ \A d \in Clients \ {c} : client'[d] = client[d] /\ stream'[d] = stream[d]
  <2>1. /\ client \in [Clients -> {"new", "connected", "header", "pending", "payload"}
                                \cup Ended]
        /\ DOMAIN stream = Clients /\ stream = [d \in Clients |-> stream[d]]
    BY DEF SyncInv, Inv, Threads, Streams
  <2>2. \A d \in Clients \ {c} : client'[d] = client[d] /\ stream'[d] = stream[d]
    BY <1>1, <2>1 DEF Receive
  <2>3. CASE /\ client[c] = "header" /\ kind[c] = "list"
             /\ client' = [client EXCEPT ![c] = "payload"]
             /\ stream' = [stream EXCEPT ![c] = IF InHand(c) THEN << >> ELSE <<P(c)>>]
             /\ InHand(c) => ipc = "list"
    BY <2>1, <2>2, <2>3, Reading
  <2>4. CASE /\ client[c] \in {"header", "payload"} /\ ~InHand(c)
             /\ client' = [client EXCEPT ![c] = "ok"]
    BY <2>1, <2>2, <2>4, Reading
  <2> QED
    BY <2>3, <2>4, Reading
<1>3. Sockets'
  BY <1>1, <1>2, SameSockets
<1>4. Alternate'
  BY <1>1 DEF SyncInv, Alternate, InHand, Ready
<1>5. Told'
  BY <1>1, <1>2 DEF SyncInv, Told, InHand, H, P
<1>6. Ends'
  BY <1>1, <1>2 DEF SyncInv, Ends, InHand
<1> QED
  BY <1>3, <1>4, <1>5, <1>6

\* It waits in vain only if its command was not read.
LEMMA NothingComes ==
  ASSUME SyncInv, NEW c \in Clients, ReceiveNothing(c)
  PROVE  client[c] = "header" /\ c \in unread /\ c \in shut /\ executed[c] = 0
<1>1. client[c] \in {"header", "payload"} /\ stream[c] = << >> /\ c \in shut
  BY DEF ReceiveNothing, SyncInv, Told
<1>2. ~InHand(c)
  BY <1>1, IpcAssumption DEF SyncInv, Alternate, Sockets
<1>3. client[c] # "payload"
  BY <1>1, <1>2, Short DEF SyncInv, Told
<1>4. c \in unread
  BY <1>1, <1>2, <1>3, Short DEF SyncInv, Told
<1> QED
  BY <1>1, <1>3, <1>4 DEF SyncInv, Inv, Fresh, Waiting

LEMMA NothingSync ==
  ASSUME SyncInv, NEW c \in Clients, ReceiveNothing(c) \/ GiveUp(c)
  PROVE  Sockets' /\ Alternate' /\ Told' /\ Ends'
<1>1. /\ UNCHANGED <<kind, unread, stream, shut, backlog, fd, ipc, revents, ipcReq, ipcResp,
                     slot, main, mainReq, executed>>
      /\ client[c] # "new"
      /\ \/ client' = [client EXCEPT ![c] = "failed"] /\ ReceiveNothing(c)
         \/ client' = [client EXCEPT ![c] = "gaveUp"]
  BY DEF ReceiveNothing, GiveUp, socketVars, ipcVars, mainVars
<1>2. /\ \/ client'[c] = "failed" /\ c \in shut /\ executed[c] = 0
         \/ client'[c] = "gaveUp"
      /\ \A d \in Clients \ {c} : client'[d] = client[d]
  BY <1>1, NothingComes DEF SyncInv, Inv, Threads
<1>3. Sockets'
  BY <1>1, <1>2, SameSockets
<1>4. Alternate'
  BY <1>1 DEF SyncInv, Alternate, InHand, Ready
<1>5. Told'
  BY <1>1, <1>2 DEF SyncInv, Told, InHand, H, P
<1>6. Ends'
  BY <1>1, <1>2 DEF SyncInv, Ends, InHand
<1> QED
  BY <1>3, <1>4, <1>5, <1>6

-----------------------------------------------------------------------------
(* The IPC thread *)

LEMMA PollSync ==
  ASSUME SyncInv, Poll
  PROVE  Sockets' /\ Alternate' /\ Told' /\ Ends'
<1>1. /\ ipc = "poll" /\ ipc' = "accept"
      /\ UNCHANGED <<client, kind, got, unread, stream, shut, backlog, fd, ipcReq, ipcResp, slot,
                     main, mainReq, executed>>
  BY DEF Poll, clientVars, socketVars, mainVars
<1>2. Sockets'
  BY <1>1, SameSockets
<1>3. Alternate'
  BY <1>1 DEF SyncInv, Alternate, InHand, Ready
<1>4. Told'
  BY <1>1 DEF SyncInv, Told, InHand, H, P
<1>5. Ends'
  BY <1>1 DEF SyncInv, Ends, InHand
<1> QED
  BY <1>2, <1>3, <1>4, <1>5

LEMMA AcceptSync ==
  ASSUME SyncInv, AcceptClient
  PROVE  Sockets' /\ Alternate' /\ Told' /\ Ends'
<1>1. /\ ipc = "accept" /\ ipc' = "handle" /\ shut \subseteq shut'
      /\ UNCHANGED <<client, kind, got, unread, stream, revents, ipcReq, ipcResp, slot, main,
                     mainReq, executed>>
  BY DEF AcceptClient, clientVars, mainVars
<1>2. Sockets'
  <2>1. CASE revents.new
    <3>1. /\ fd' = Head(backlog) /\ backlog' = Tail(backlog)
          /\ shut' = shut \cup ({fd} \ {NoClient})
      BY <2>1 DEF AcceptClient
    <3>2. backlog # << >> /\ backlog \in Seq(Clients)
      BY <1>1, <2>1 DEF SyncInv, Inv, Polled, Streams
    <3>3. /\ Len(backlog) \in Nat /\ 1 \in 1 .. Len(backlog)
          /\ Len(backlog') = Len(backlog) - 1 /\ fd' = backlog[1]
          /\ \A i \in 1 .. Len(backlog') :
               i + 1 \in 1 .. Len(backlog) /\ backlog'[i] = backlog[i + 1]
      BY <3>1, <3>2, HeadTailProperties
    <3>4. /\ \A i, j \in 1 .. Len(backlog) : backlog[i] = backlog[j] => i = j
          /\ \A i \in 1 .. Len(backlog) :
               backlog[i] # fd /\ backlog[i] \notin shut /\ client[backlog[i]] # "new"
      BY DEF SyncInv, Sockets
    <3>5. \A i, j \in 1 .. Len(backlog') : backlog'[i] = backlog'[j] => i = j
      <4> SUFFICES ASSUME NEW i \in 1 .. Len(backlog'), NEW j \in 1 .. Len(backlog'),
                          backlog'[i] = backlog'[j]
                   PROVE  i = j
        OBVIOUS
      <4>1. i + 1 = j + 1
        BY <3>3, <3>4
      <4> QED
        BY <3>3, <4>1
    <3>6. \A i \in 1 .. Len(backlog') :
            backlog'[i] # fd' /\ backlog'[i] \notin shut' /\ client'[backlog'[i]] # "new"
      <4> SUFFICES ASSUME NEW i \in 1 .. Len(backlog')
                   PROVE  backlog'[i] # fd' /\ backlog'[i] \notin shut'
                          /\ client'[backlog'[i]] # "new"
        OBVIOUS
      <4>1. i + 1 \in 1 .. Len(backlog) /\ backlog'[i] = backlog[i + 1] /\ i + 1 # 1
        BY <3>3
      <4>2. backlog[i + 1] # backlog[1]
        BY <3>3, <3>4, <4>1
      <4> QED
        BY <1>1, <3>1, <3>3, <3>4, <4>1, <4>2
    <3>7. fd' \notin shut' /\ client'[fd'] # "new"
      BY <1>1, <3>1, <3>3, <3>4
    <3>8. \A c \in shut' : client'[c] # "new"
      BY <1>1, <3>1 DEF SyncInv, Sockets
    <3> QED
      BY <3>5, <3>6, <3>7, <3>8 DEF Sockets
  <2>2. CASE ~revents.new
    BY <1>1, <2>2, SameSockets DEF AcceptClient
  <2> QED
    BY <2>1, <2>2
<1>3. Alternate'
  BY <1>1 DEF SyncInv, Alternate, InHand, Ready
<1>4. Told'
  BY <1>1 DEF SyncInv, Told, InHand, H, P
<1>5. Ends'
  BY <1>1 DEF SyncInv, Ends, InHand
<1> QED
  BY <1>2, <1>3, <1>4, <1>5

LEMMA HandleSync ==
  ASSUME SyncInv, HandleClient
  PROVE  Sockets' /\ Alternate' /\ Told' /\ Ends'
<1>1. /\ ipc = "handle" /\ ipc' \in {"poll", "recv"} /\ shut \subseteq shut'
      /\ UNCHANGED <<client, kind, got, unread, stream, backlog, ipcReq, ipcResp, slot, main,
                     mainReq, executed>>
  BY DEF HandleClient, clientVars, mainVars
<1>2. Sockets'
  <2>1. CASE revents.hup
    <3>1. shut' = shut \cup {fd} /\ fd' = NoClient /\ fd # NoClient
      BY <1>1, <2>1 DEF HandleClient, SyncInv, Inv, Polled
    <3>2. \A i \in 1 .. Len(backlog) : backlog[i] \in Clients
      <4>1. backlog \in Seq(Clients)
        BY DEF SyncInv, Inv, Streams
      <4> QED
        BY <4>1
    <3> QED
      BY <1>1, <3>1, <3>2, IpcAssumption DEF SyncInv, Sockets
  <2>2. CASE ~revents.hup
    BY <1>1, <2>2, SameSockets DEF HandleClient
  <2> QED
    BY <2>1, <2>2
<1>3. Alternate'
  BY <1>1 DEF SyncInv, Alternate, InHand, Ready
<1>4. Told'
  BY <1>1 DEF SyncInv, Told, InHand, H, P
<1>5. Ends'
  BY <1>1 DEF SyncInv, Ends, InHand
<1> QED
  BY <1>2, <1>3, <1>4, <1>5

LEMMA RecvSync ==
  ASSUME SyncInv, RecvCommand
  PROVE  Sockets' /\ Alternate' /\ Told' /\ Ends'
<1>1. /\ ipc = "recv"
      /\ \/ fd \in unread /\ unread' = unread \ {fd} /\ ipcReq' = fd /\ ipc' = "send"
         \/ ipc' = "poll" /\ UNCHANGED <<unread, ipcReq>>
      /\ UNCHANGED <<client, kind, got, stream, shut, backlog, fd, revents, ipcResp, slot, main,
                     mainReq, executed>>
  BY DEF RecvCommand, clientVars, mainVars
<1>2. Sockets'
  BY <1>1, SameSockets
<1>3. Alternate'
  BY <1>1 DEF SyncInv, Alternate, InHand, Ready
<1>4. Told'
  BY <1>1 DEF SyncInv, Told, InHand, H, P
<1>5. Ends'
  BY <1>1 DEF SyncInv, Ends, InHand
<1> QED
  BY <1>2, <1>3, <1>4, <1>5

LEMMA SendRequestSync ==
  ASSUME SyncInv, kt_app_send_request
  PROVE  Sockets' /\ Alternate' /\ Told' /\ Ends'
<1>1. /\ ipc = "send"
      /\ slot' = [slot EXCEPT !.request = ipcReq, !.cmd_pending = TRUE]
      /\ ipc' = IF kind[ipcReq] = "generate" THEN "acknowledge" ELSE "wait"
      /\ UNCHANGED <<client, kind, got, unread, stream, shut, backlog, fd, revents, ipcReq,
                     ipcResp, main, mainReq, executed>>
  BY DEF kt_app_send_request, clientVars, socketVars, mainVars
<1>2. ipcReq \in Clients /\ kind[ipcReq] # "generate"
  BY <1>1, NoneGenerates DEF SyncInv, Inv, Threads, Answers
<1>3. /\ ipc' = "wait" /\ slot'.request = ipcReq /\ slot'.cmd_pending = TRUE
      /\ main \notin {"execute", "respond"}
  BY <1>1, <1>2 DEF SyncInv, Alternate, Inv, Threads
<1>4. Sockets'
  BY <1>1, SameSockets
<1>5. Alternate'
  BY <1>1, <1>3 DEF SyncInv, Alternate, InHand, Ready
<1>6. Told'
  BY <1>1, <1>3 DEF SyncInv, Told, InHand, H, P
<1>7. Ends'
  BY <1>1, <1>3 DEF SyncInv, Ends, InHand
<1> QED
  BY <1>4, <1>5, <1>6, <1>7

LEMMA WaitSync ==
  ASSUME SyncInv, wait_for_response \/ kt_app_get_response
  PROVE  Sockets' /\ Alternate' /\ Told' /\ Ends'
<1>1. /\ \/ ipc = "wait" /\ ~slot.cmd_pending /\ ipc' = "get" /\ ipcResp' = ipcResp
         \/ ipc = "get" /\ ipc' = "header" /\ ipcResp' = slot.response
      /\ UNCHANGED <<client, kind, got, unread, stream, shut, backlog, fd, revents, ipcReq, slot,
                     main, mainReq, executed>>
  BY DEF wait_for_response, kt_app_get_response, clientVars, socketVars, mainVars
<1>2. Sockets'
  BY <1>1, SameSockets
<1>3. Alternate'
  BY <1>1 DEF SyncInv, Alternate, InHand, Ready
<1>4. Told'
  BY <1>1 DEF SyncInv, Told, InHand, H, P
<1>5. Ends'
  BY <1>1 DEF SyncInv, Alternate, Ends, InHand
<1> QED
  BY <1>2, <1>3, <1>4, <1>5

\* The header, and the list that follows it, go to the client they are for.
LEMMA HeaderSync ==
  ASSUME SyncInv, send_header_only
  PROVE  Sockets' /\ Alternate' /\ Told' /\ Ends'
<1> PICK c \in Clients : c = ipcReq
  BY DEF SyncInv, Inv, Threads, Answers, send_header_only, send_list_profiles_payload
<1>1. /\ ipc = "header"
      /\ UNCHANGED <<client, kind, got, unread, shut, backlog, fd, revents, slot, main, mainReq,
                     executed>>
  BY DEF send_header_only, clientVars, mainVars
<1>2. /\ fd = c /\ executed[c] = 1 /\ Ready(ipcResp, c) /\ InHand(c)
      /\ client[c] \notin {"new", "connected", "payload", "ok", "pending"} /\ c \notin unread
  <2>1. InHand(c)
    BY <1>1 DEF InHand
  <2>2. fd = c /\ executed[c] = 1 /\ Ready(ipcResp, c)
    BY <1>1, <2>1 DEF SyncInv, Alternate
  <2>3. client[c] \notin {"new", "connected"} /\ c \notin unread
    BY <2>2 DEF SyncInv, Inv, Fresh, Waiting
  <2>4. client[c] \notin {"payload", "ok", "pending"}
    BY <1>1, <2>1 DEF SyncInv, Told, Ends
  <2> QED
    BY <2>1, <2>2, <2>3, <2>4
<1>3. /\ Header(ipcResp.cmd, "SUCCESS", ipcResp.of) = H(c)
      /\ ipcResp.cmd = "list" <=> kind[c] = "list"
  BY <1>2 DEF Ready, H
<1>4. IF kind[c] = "list" /\ ~HungUp(c)
      THEN ipc' = "list" /\ ipcReq' = ipcReq /\ ipcResp' = ipcResp
      ELSE ipc' = "poll" /\ ipcReq' = NoClient
  BY <1>2, <1>3 DEF send_header_only
<1>5. /\ HungUp(c) => stream' = stream
      /\ client[c] = "header" => stream'[c] = <<H(c)>>
      /\ \A d \in Clients \ {c} : stream'[d] = stream[d]
  <2>1. SendTo(c, H(c)) /\ stream \in [Clients -> Seq(Units)]
    BY <1>2, <1>3 DEF send_header_only, SyncInv, Inv, Streams
  <2>2. client[c] = "header" => stream[c] = << >>
    BY <1>1, <1>2 DEF SyncInv, Told
  <2>3. c # NoClient
    BY <1>2, IpcAssumption
  <2>4. CASE HungUp(c)
    BY <2>1, <2>4 DEF SendTo, HungUp, Ended
  <2>5. CASE ~HungUp(c)
    <3>1. stream' = [stream EXCEPT ![c] = Append(@, H(c))]
      BY <2>1, <2>3, <2>5 DEF SendTo
    <3>2. client[c] = "header" => stream'[c] = Append(<< >>, H(c))
      BY <1>2, <2>1, <2>2, <3>1
    <3>3. \A d \in Clients \ {c} : stream'[d] = stream[d]
      BY <2>1, <3>1
    <3> QED
      BY <2>5, <3>2, <3>3, Short
  <2> QED
    BY <2>4, <2>5
<1>6. Sockets'
  BY <1>1, SameSockets
<1>7. Alternate'
  <2>1. main = "idle" /\ ~slot.cmd_pending
    BY <1>1, NoneGenerates DEF SyncInv, Alternate
  <2> QED
    BY <1>1, <1>2, <1>4, <2>1, IpcAssumption DEF SyncInv, Alternate, InHand, Ready
<1>8. Told'
  <2> SUFFICES ASSUME NEW d \in Clients
               PROVE  /\ client[d] \in {"new", "connected"} => stream'[d] = << >>
                      /\ client[d] = "header" =>
                           /\ d \in unread \/ (InHand(d)' /\ ipc' # "list") => stream'[d] = << >>
                           /\ InHand(d)' /\ ipc' = "list" => stream'[d] = <<H(d)>>
                           /\ d \notin unread /\ ~InHand(d)' =>
                                stream'[d] = IF kind[d] = "list" THEN <<H(d), P(d)>>
                                                                ELSE <<H(d)>>
                      /\ client[d] = "payload" =>
                           /\ kind[d] = "list" /\ d \notin unread
                           /\ InHand(d)' => ipc' = "list" /\ stream'[d] = << >>
                           /\ ~InHand(d)' => stream'[d] = <<P(d)>>
                      /\ client[d] # "pending"
    BY <1>1 DEF Told, H, P
  <2>1. CASE d # c
    <3>1. stream'[d] = stream[d] /\ ~InHand(d) /\ ~InHand(d)'
      BY <1>4, <1>5, <2>1, IpcAssumption DEF InHand
    <3> QED
      BY <3>1 DEF SyncInv, Told
  <2>2. CASE d = c /\ client[c] = "header"
    <3>1. /\ kind[c] = "list" => InHand(c)' /\ ipc' = "list"
          /\ kind[c] # "list" => ~InHand(c)'
      BY <1>2, <1>4, <2>2, IpcAssumption DEF InHand, HungUp, Ended
    <3> QED
      BY <1>2, <1>5, <2>2, <3>1
  <2>3. CASE d = c /\ client[c] # "header"
    BY <1>2, <2>3
  <2> QED
    BY <2>1, <2>2, <2>3
<1>9. Ends'
  <2>1. \A d \in Clients \ {c} : ~InHand(d) /\ ~InHand(d)'
    BY <1>4, IpcAssumption DEF InHand
  <2>2. client'[c] # "ok" /\ executed'[c] = 1 /\ client[c] # "failed"
    BY <1>1, <1>2 DEF SyncInv, Ends
  <2> QED
    BY <1>1, <2>1, <2>2 DEF SyncInv, Ends
<1> QED
  BY <1>6, <1>7, <1>8, <1>9

LEMMA PayloadSync ==
  ASSUME SyncInv, send_list_profiles_payload
  PROVE  Sockets' /\ Alternate' /\ Told' /\ Ends'
<1> PICK c \in Clients : c = ipcReq
  BY DEF SyncInv, Inv, Threads, Answers, send_header_only, send_list_profiles_payload
<1>1. /\ ipc = "list" /\ ipc' = "poll" /\ ipcReq' = NoClient
      /\ UNCHANGED <<client, kind, got, unread, shut, backlog, fd, revents, slot, main, mainReq,
                     executed>>
  BY DEF send_list_profiles_payload, clientVars, mainVars
<1>2. /\ fd = c /\ executed[c] = 1 /\ Ready(ipcResp, c) /\ InHand(c)
      /\ client[c] \notin {"new", "connected", "ok", "pending"} /\ c \notin unread
  <2>1. InHand(c)
    BY <1>1 DEF InHand
  <2>2. fd = c /\ executed[c] = 1 /\ Ready(ipcResp, c)
    BY <1>1, <2>1 DEF SyncInv, Alternate
  <2>3. client[c] \notin {"new", "connected"} /\ c \notin unread
    BY <2>2 DEF SyncInv, Inv, Fresh, Waiting
  <2>4. client[c] \notin {"ok", "pending"}
    BY <1>1, <2>1 DEF SyncInv, Told, Ends
  <2> QED
    BY <2>1, <2>2, <2>3, <2>4
<1>3. kind[c] = "list" /\ Payload("list", ipcResp.list) = P(c)
  BY <1>1, <1>2 DEF SyncInv, Inv, Answers, Ready, P
<1>4. /\ client[c] = "header" => stream'[c] = <<H(c), P(c)>>
      /\ client[c] = "payload" => stream'[c] = <<P(c)>>
      /\ \A d \in Clients \ {c} : stream'[d] = stream[d]
  <2>1. SendTo(c, P(c)) /\ stream \in [Clients -> Seq(Units)]
    BY <1>2, <1>3 DEF send_list_profiles_payload, SyncInv, Inv, Streams
  <2>2. /\ client[c] = "header" => stream[c] = <<H(c)>>
        /\ client[c] = "payload" => stream[c] = << >>
    BY <1>1, <1>2 DEF SyncInv, Told
  <2>3. c # NoClient
    BY <1>2, IpcAssumption
  <2>4. CASE HungUp(c)
    BY <2>1, <2>4 DEF SendTo, HungUp, Ended
  <2>5. CASE ~HungUp(c)
    <3>1. stream' = [stream EXCEPT ![c] = Append(@, P(c))]
      BY <2>1, <2>3, <2>5 DEF SendTo
    <3>2. stream'[c] = Append(stream[c], P(c))
      BY <1>2, <2>1, <3>1
    <3>3. \A d \in Clients \ {c} : stream'[d] = stream[d]
      BY <2>1, <3>1
    <3> QED
      BY <2>2, <3>2, <3>3, Short
  <2> QED
    BY <2>4, <2>5
<1>5. Sockets'
  BY <1>1, SameSockets
<1>6. Alternate'
  <2>1. main = "idle" /\ ~slot.cmd_pending
    BY <1>1, NoneGenerates DEF SyncInv, Alternate
  <2> QED
    BY <1>1, <2>1 DEF SyncInv, Alternate, InHand, Ready
<1>7. \A d \in Clients : ~InHand(d)' /\ (d # c => ~InHand(d))
  BY <1>1 DEF InHand
<1>8. Told'
  <2> SUFFICES ASSUME NEW d \in Clients
               PROVE  /\ client[d] \in {"new", "connected"} => stream'[d] = << >>
                      /\ client[d] = "header" =>
                           /\ d \in unread => stream'[d] = << >>
                           /\ d \notin unread =>
                                stream'[d] = IF kind[d] = "list" THEN <<H(d), P(d)>>
                                                                ELSE <<H(d)>>
                      /\ client[d] = "payload" =>
                           kind[d] = "list" /\ d \notin unread /\ stream'[d] = <<P(d)>>
                      /\ client[d] # "pending"
    BY <1>1, <1>7 DEF Told, H, P
  <2>1. CASE d # c
    BY <1>4, <1>7, <2>1 DEF SyncInv, Told
  <2>2. CASE d = c
    BY <1>2, <1>3, <1>4, <2>2
  <2> QED
    BY <2>1, <2>2
<1>9. Ends'
  <2>1. executed'[c] = 1 /\ client'[c] # "failed" /\ c \notin unread'
    BY <1>1, <1>2 DEF SyncInv, Ends
  <2> QED
    BY <1>1, <1>7, <2>1 DEF SyncInv, Ends
<1> QED
  BY <1>5, <1>6, <1>8, <1>9

-----------------------------------------------------------------------------
(* The main thread *)

LEMMA ReadCommandSync ==
  ASSUME SyncInv, ReadCommand
  PROVE  Sockets' /\ Alternate' /\ Told' /\ Ends'
<1>1. /\ main = "idle" /\ slot.cmd_pending /\ mainReq' = slot.request
      /\ main' = IF kind[slot.request] = "generate" THEN "generate" ELSE "execute"
      /\ UNCHANGED <<client, kind, got, unread, stream, shut, backlog, fd, ipc, revents, ipcReq,
                     ipcResp, slot, executed>>
  BY DEF ReadCommand, clientVars, socketVars, ipcVars
<1>2. Sockets'
  BY <1>1, SameSockets
<1>3. Alternate'
  BY <1>1 DEF SyncInv, Alternate, InHand, Ready
<1>4. Told'
  BY <1>1 DEF SyncInv, Told, InHand, H, P
<1>5. Ends'
  BY <1>1 DEF SyncInv, Ends, InHand
<1> QED
  BY <1>2, <1>3, <1>4, <1>5

\* What is executed is the request in hand, of a client that may get its answer.
LEMMA Executing ==
  ASSUME SyncInv, ExecuteCommand
  PROVE  /\ main = "execute" /\ main' = "respond" /\ ipc = "wait" /\ slot.cmd_pending
         /\ mainReq \in Clients /\ mainReq = slot.request /\ mainReq = ipcReq
         /\ executed[mainReq] = 0 /\ client[mainReq] \notin {"new", "connected", "failed"}
         /\ executed' = [executed EXCEPT ![mainReq] = 1]
         /\ slot'.request = slot.request /\ slot'.cmd_pending
         /\ UNCHANGED <<client, kind, got, unread, stream, shut, backlog, fd, ipc, revents,
                        ipcReq, ipcResp, mainReq>>
<1>1. /\ main = "execute" /\ main' = "respond"
      /\ UNCHANGED <<client, kind, got, unread, stream, shut, backlog, fd, ipc, revents,
                     ipcReq, ipcResp, mainReq>>
  BY DEF ExecuteCommand, clientVars, socketVars, ipcVars
<1>2. /\ ipc = "wait" /\ slot.cmd_pending /\ mainReq = slot.request /\ mainReq = ipcReq
      /\ mainReq \in Clients /\ executed[mainReq] = 0
  BY <1>1 DEF SyncInv, Alternate, Inv, Threads, Mailbox
<1>3. fd = mainReq /\ mainReq \notin shut
  BY <1>2, IpcAssumption DEF SyncInv, Alternate, InHand, Sockets
<1>4. client[mainReq] \notin {"new", "connected", "failed"}
  BY <1>2, <1>3 DEF SyncInv, Ends, Inv, Fresh, Waiting
<1>5. executed' = [executed EXCEPT ![mainReq] = 1]
  BY <1>2 DEF ExecuteCommand, Perform, SyncInv, Inv, Threads
<1>6. slot'.request = slot.request /\ slot'.cmd_pending
  BY <1>2 DEF ExecuteCommand, SyncInv, Inv, Threads
<1> QED
  BY <1>1, <1>2, <1>4, <1>5, <1>6

LEMMA ExecuteSync ==
  ASSUME SyncInv, ExecuteCommand
  PROVE  Sockets' /\ Alternate' /\ Told' /\ Ends'
<1>1. /\ main = "execute" /\ main' = "respond" /\ ipc = "wait" /\ slot.cmd_pending
      /\ mainReq \in Clients /\ mainReq = slot.request /\ mainReq = ipcReq
      /\ client[mainReq] \notin {"new", "connected", "failed"}
      /\ slot'.request = slot.request /\ slot'.cmd_pending
      /\ UNCHANGED <<client, kind, got, unread, stream, shut, backlog, fd, ipc, revents,
                     ipcReq, ipcResp, mainReq>>
  BY Executing
<1>2. executed'[mainReq] = 1 /\ \A c \in Clients \ {mainReq} : executed'[c] = executed[c]
  BY Executing DEF SyncInv, Inv, Threads
<1>3. Sockets'
  BY <1>1, SameSockets
<1>4. Alternate'
  BY <1>1, <1>2 DEF SyncInv, Alternate, InHand, Ready
<1>5. Told'
  BY <1>1 DEF SyncInv, Told, InHand, H, P
<1>6. Ends'
  BY <1>1, <1>2 DEF SyncInv, Ends, InHand
<1> QED
  BY <1>3, <1>4, <1>5, <1>6

LEMMA RespondSync ==
  ASSUME SyncInv, Respond
  PROVE  Sockets' /\ Alternate' /\ Told' /\ Ends'
<1>1. /\ main = "respond" /\ main' = "idle" /\ mainReq' = NoClient
      /\ slot' = [slot EXCEPT !.response.cmd = kind[mainReq],
                              !.response.of = mainReq, !.cmd_pending = FALSE]
      /\ UNCHANGED <<client, kind, got, unread, stream, shut, backlog, fd, ipc, revents, ipcReq,
                     ipcResp, executed>>
  BY DEF Respond, clientVars, socketVars, ipcVars
<1>2. /\ ipc = "wait" /\ mainReq = ipcReq /\ mainReq \in Clients /\ executed[mainReq] = 1
      /\ kind[mainReq] = "list" => slot.response.list = mainReq
  BY <1>1 DEF SyncInv, Alternate, Inv, Threads, Mailbox
<1>3. /\ slot'.request = slot.request /\ ~slot'.cmd_pending
      /\ slot'.response.cmd = kind[mainReq] /\ slot'.response.of = mainReq
      /\ slot'.response.list = slot.response.list
  BY <1>1 DEF SyncInv, Inv, Threads, Responses
<1>4. Sockets'
  BY <1>1, SameSockets
<1>5. Alternate'
  BY <1>1, <1>2, <1>3 DEF SyncInv, Alternate, InHand, Ready
<1>6. Told'
  BY <1>1 DEF SyncInv, Told, InHand, H, P
<1>7. Ends'
  BY <1>1 DEF SyncInv, Ends, InHand
<1> QED
  BY <1>4, <1>5, <1>6, <1>7

-----------------------------------------------------------------------------
LEMMA NextSync ==
  ASSUME SyncInv, [Next]_vars
  PROVE  SyncInv'
<1>1. Sockets' /\ Alternate' /\ Told' /\ Ends'
  <2>1. ASSUME NEW c \in Clients, NEW k \in Kinds, Connect(c, k)
        PROVE  Sockets' /\ Alternate' /\ Told' /\ Ends'
    BY <2>1, ConnectSync
  <2>2. ASSUME NEW c \in Clients, Proceed(c) \/ GiveUp(c)
        PROVE  Sockets' /\ Alternate' /\ Told' /\ Ends'
    BY <2>2, SendCommandSync, ReceiveSync, NothingSync DEF Proceed
  <2>3. CASE IpcThread
    <3>1. ~Acknowledge
      BY NoneGenerates DEF Acknowledge
    <3> QED
      BY <2>3, <3>1, PollSync, AcceptSync, HandleSync, RecvSync, SendRequestSync, WaitSync,
         HeaderSync, PayloadSync
         DEF IpcThread
  <2>4. CASE MainThread
    <3>1. ~GenerateDone /\ ~DoneHeader /\ ~DonePayload
      BY NoneGenerates DEF GenerateDone, DoneHeader, DonePayload
    <3> QED
      BY <2>4, <3>1, ReadCommandSync, ExecuteSync, RespondSync DEF MainThread
  <2>5. CASE UNCHANGED vars
    BY <2>5, SameSync
  <2> QED
    BY <2>1, <2>2, <2>3, <2>4, <2>5 DEF Next
<1>2. Inv'
  BY NextInv DEF SyncInv
<1> QED
  BY <1>1, <1>2 DEF SyncInv, NoGeneration

(* Every step is one of Rpc, or none that it sees. *)

Seen == [c \in Clients |-> Outcome(c)]

\* Nothing that Rpc speaks of has changed.
LEMMA Stutter ==
  ASSUME UNCHANGED executed, \A c \in Clients : client'[c] = "new" <=> client[c] = "new",
         \A c \in Clients : client'[c] = client[c] \/ (client[c] \notin Ended /\ client'[c] \notin Ended)
  PROVE  UNCHANGED R!vars
<1>1. Asked' = Asked
  BY DEF Asked
<1>2. \A c \in Clients : Outcome(c)' = Outcome(c)
  BY DEF Outcome
<1>3. Seen' = Seen
  BY <1>2 DEF Seen
<1> QED
  BY <1>1, <1>3 DEF R!vars, Seen

\* A client comes to an end.
LEMMA ClientEnds ==
  ASSUME SyncInv, NEW c \in Clients, NEW e \in Ended, client[c] \notin Ended \cup {"new"},
         client' = [client EXCEPT ![c] = e], UNCHANGED executed
  PROVE  R!End(c, e)
<1>1. /\ client'[c] = e /\ \A d \in Clients \ {c} : client'[d] = client[d]
      /\ e # "new"
  BY DEF SyncInv, Inv, Threads, Ended
<1>2. Asked' = Asked
  BY <1>1 DEF Asked
<1>3. Outcome(c) = "none" /\ Outcome(c)' = e
  BY <1>1 DEF Outcome
<1>4. \A d \in Clients \ {c} : Outcome(d)' = Outcome(d)
  BY <1>1 DEF Outcome
<1>5. Seen' = [Seen EXCEPT ![c] = e] /\ Seen[c] = "none"
  BY <1>3, <1>4 DEF Seen
<1> QED
  BY <1>2, <1>5 DEF R!End, Seen

LEMMA NextImplements ==
  ASSUME SyncInv, [Next]_vars
  PROVE  [R!Next]_R!vars
<1>1. ASSUME NEW c \in Clients, NEW k \in Kinds, Connect(c, k)
      PROVE  R!Ask(c)
  <2>1. /\ client[c] = "new" /\ client'[c] = "connected" /\ UNCHANGED executed
        /\ \A d \in Clients \ {c} : client'[d] = client[d]
    BY <1>1 DEF Connect, mainVars, SyncInv, Inv, Threads
  <2>2. c \notin Asked /\ Asked' = Asked \cup {c}
    BY <2>1 DEF Asked
  <2>3. \A d \in Clients : Outcome(d)' = Outcome(d)
    BY <2>1 DEF Outcome, Ended
  <2>4. Outcome(c) = "none"
    BY <2>1 DEF Outcome, Ended
  <2>5. Seen' = Seen /\ Seen[c] = "none"
    BY <2>3, <2>4 DEF Seen
  <2> QED
    BY <2>1, <2>2, <2>5 DEF R!Ask, Seen
<1>2. ASSUME NEW c \in Clients, SendCommand(c)
      PROVE  R!Fail(c) \/ UNCHANGED R!vars
  <2>1. client[c] = "connected" /\ executed[c] = 0 /\ UNCHANGED executed
    BY <1>2 DEF SendCommand, mainVars, SyncInv, Inv, Fresh, Waiting
  <2>2. CASE client' = [client EXCEPT ![c] = "failed"]
    BY <2>1, <2>2, ClientEnds DEF R!Fail, Ended
  <2>3. CASE client' = [client EXCEPT ![c] = "header"]
    <3>1. client'[c] = "header" /\ \A d \in Clients \ {c} : client'[d] = client[d]
      BY <2>3 DEF SyncInv, Inv, Threads
    <3> QED
      BY <2>1, <3>1, Stutter DEF Ended
  <2> QED
    BY <1>2, <2>2, <2>3 DEF SendCommand
<1>3. ASSUME NEW c \in Clients, Receive(c)
      PROVE  R!Answer(c) \/ UNCHANGED R!vars
  <2>1. executed[c] = 1 /\ UNCHANGED executed
    BY <1>3, Reading DEF Receive, mainVars
  <2>2. CASE client[c] \in {"header", "payload"} /\ client' = [client EXCEPT ![c] = "ok"]
    BY <2>1, <2>2, ClientEnds DEF R!Answer, Ended
  <2>3. CASE client[c] = "header" /\ client' = [client EXCEPT ![c] = "payload"]
    <3>1. client'[c] = "payload" /\ \A d \in Clients \ {c} : client'[d] = client[d]
      BY <2>3 DEF SyncInv, Inv, Threads
    <3> QED
      BY <2>1, <2>3, <3>1, Stutter DEF Ended
  <2> QED
    BY <1>3, <2>2, <2>3, Reading
<1>4. ASSUME NEW c \in Clients, ReceiveNothing(c)
      PROVE  R!Fail(c)
  <2>1. /\ client[c] = "header" /\ executed[c] = 0 /\ UNCHANGED executed
        /\ client' = [client EXCEPT ![c] = "failed"]
    BY <1>4, NothingComes DEF ReceiveNothing, mainVars
  <2> QED
    BY <2>1, ClientEnds DEF R!Fail, Ended
<1>5. ASSUME NEW c \in Clients, GiveUp(c)
      PROVE  R!GiveUp(c)
  BY <1>5, ClientEnds DEF GiveUp, mainVars, R!GiveUp, Ended
<1>6. CASE IpcThread
  <2>1. UNCHANGED <<client, executed>>
    BY <1>6 DEF IpcThread, Poll, AcceptClient, HandleClient, RecvCommand, kt_app_send_request,
       Acknowledge, wait_for_response, kt_app_get_response, send_header_only,
       send_list_profiles_payload, clientVars, mainVars
  <2> QED
    BY <2>1, Stutter
<1>7. CASE MainThread
  <2>1. CASE ExecuteCommand
    <3>1. /\ mainReq \in Clients /\ executed[mainReq] = 0 /\ client' = client
          /\ client[mainReq] \notin {"new", "failed"}
          /\ executed' = [executed EXCEPT ![mainReq] = 1]
      BY <2>1, Executing
    <3>2. Asked' = Asked /\ mainReq \in Asked /\ Outcome(mainReq) # "failed"
      BY <3>1 DEF Asked, Outcome
    <3>3. \A d \in Clients : Outcome(d)' = Outcome(d)
      BY <3>1 DEF Outcome
    <3>4. Seen' = Seen /\ Seen[mainReq] # "failed"
      BY <3>1, <3>2, <3>3 DEF Seen
    <3>5. R!Execute(mainReq)
      BY <3>1, <3>2, <3>4 DEF R!Execute, Seen
    <3> QED
      BY <3>1, <3>5 DEF R!Next
  <2>2. CASE ReadCommand \/ Respond
    <3>1. UNCHANGED <<client, executed>>
      BY <2>2 DEF ReadCommand, Respond, clientVars
    <3> QED
      BY <3>1, Stutter
  <2>3. ~GenerateDone /\ ~DoneHeader /\ ~DonePayload
    BY NoneGenerates DEF GenerateDone, DoneHeader, DonePayload
  <2> QED
    BY <1>7, <2>1, <2>2, <2>3 DEF MainThread
<1>8. CASE UNCHANGED vars
  BY <1>8, Stutter DEF vars, clientVars, mainVars
<1> QED
  BY <1>1, <1>2, <1>3, <1>4, <1>5, <1>6, <1>7, <1>8 DEF Next, Proceed, R!Next

\* As long as nobody asks for a face id, whoever connects, hangs up or is
\* replaced by another connection, kt_app keeps what Rpc promises: an answer
\* means that the request was executed, a failure that it never will be.
THEOREM ImplementsRpc ==
  ASSUME "generate" \notin Kinds
  PROVE  Spec => ServesRequests
<1>1. Init => SyncInv
  BY InitSync DEF NoGeneration
<1>2. SyncInv /\ [Next]_vars => SyncInv'
  BY NextSync
<1>3. Init => R!Init
  BY DEF Init, R!Init, Asked, Outcome, Ended
<1>4. SyncInv /\ [Next]_vars => [R!Next]_R!vars
  BY NextImplements
<1> QED
  BY <1>1, <1>2, <1>3, <1>4, PTL DEF Spec, ServesRequests, R!Spec

=============================================================================
