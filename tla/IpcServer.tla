----------------------------- MODULE IpcServer -----------------------------
(***************************************************************************)
(* Requests to kt_app over the request/response socket.                    *)
(*                                                                         *)
(*  - a Python client connects, sends one command, reads the answer and    *)
(*    closes (ipc_client.py);                                              *)
(*  - the IPC thread serves one connection at a time: it polls, accepts,   *)
(*    reads a command, puts it in the shared memory and waits for the      *)
(*    main thread to take it (ipc_thr_func.c);                             *)
(*  - the main thread executes it in its idle callback                     *)
(*    (kt_app_idle_cb.c). For GENERATE_FACE_ID_ASYNC the IPC thread only   *)
(*    acknowledges, and the main thread itself writes the completion to    *)
(*    the connection (kt_app_faceid_cb.c).                                 *)
(*                                                                         *)
(* A connection is named by its client. What a response is about (of) is   *)
(* carried along; the program only has the command. Stopping the program   *)
(* and the stream socket are left out.                                     *)
(***************************************************************************)
EXTENDS Integers, Sequences

CONSTANTS
  Clients,
  Kinds,     \* commands used: "start", "list", "update", "generate"
  NoClient   \* a socket descriptor of -1, or no request

ASSUME IpcAssumption ==
  /\ Kinds \subseteq {"start", "list", "update", "generate"}
  /\ NoClient \notin Clients

VARIABLES
  client,    \* where send_request of each client is
  kind,      \* the command of each client
  unread,    \* clients whose command is in the socket, unread
  stream,    \* what was sent to each client and not yet read
  got,       \* what each client has read
  shut,      \* connections closed by the IPC thread
  backlog,   \* connections not accepted yet
  fd,        \* req_resp_client_sockfd
  ipc,       \* where the IPC thread is
  revents,   \* what poll() returned
  ipcReq,    \* the request it is handling
  ipcResp,   \* its copy of the response
  slot,      \* struct kt_app_shmem: request, response, cmd_pending
  main,      \* where the main thread is
  mainReq,   \* the request it is executing
  executed   \* how many times each request took effect

clientVars == <<client, kind, got>>
socketVars == <<unread, stream, shut, backlog, fd>>
ipcVars    == <<ipc, revents, ipcReq, ipcResp>>
mainVars   == <<main, mainReq, executed>>
vars == <<clientVars, socketVars, ipcVars, slot, mainVars>>

Header(cmd, rc, of) == [part |-> "header", cmd |-> cmd, rc |-> rc, of |-> of]
Payload(cmd, of)    == [part |-> "payload", cmd |-> cmd, rc |-> "none", of |-> of]

\* struct kt_app_response: the command answered, and the union of payloads.
NoResponse == [cmd |-> "none", of |-> NoClient, list |-> NoClient]

Ended == {"ok", "failed", "gaveUp"}
HungUp(c) == client[c] \in Ended

\* send_all: to a connection that the other side has closed it fails.
SendTo(c, unit) ==
  IF c = NoClient \/ HungUp(c) THEN UNCHANGED stream
  ELSE stream' = [stream EXCEPT ![c] = Append(@, unit)]

-----------------------------------------------------------------------------
(* AppIPCManager.send_request.                                             *)

Connect(c, k) ==
  /\ client[c] = "new"
  /\ client' = [client EXCEPT ![c] = "connected"]
  /\ kind' = [kind EXCEPT ![c] = k]
  /\ backlog' = Append(backlog, c)
  /\ UNCHANGED <<got, unread, stream, shut, fd, ipcVars, slot, mainVars>>

SendCommand(c) ==
  /\ client[c] = "connected"
  /\ IF c \in shut THEN /\ client' = [client EXCEPT ![c] = "failed"]
                        /\ UNCHANGED unread
     ELSE /\ client' = [client EXCEPT ![c] = "header"]
          /\ unread' = unread \cup {c}
  /\ UNCHANGED <<kind, got, stream, shut, backlog, fd, ipcVars, slot, mainVars>>

\* What the client does next, having read 8 bytes as a header.
AfterHeader(c, u) ==
  IF u.part # "header" \/ u.cmd # kind[c] THEN "failed"
  ELSE IF u.rc = "PENDING" THEN IF client[c] = "header" THEN "pending" ELSE "failed"
  ELSE IF u.cmd \in {"generate", "list"} THEN "payload" ELSE "ok"

Receive(c) ==
  /\ client[c] \in {"header", "pending", "payload"} /\ stream[c] # << >>
  /\ client' = [client EXCEPT ![c] = IF @ = "payload" THEN "ok"
                                     ELSE AfterHeader(c, Head(stream[c]))]
  /\ got' = [got EXCEPT ![c] = Append(@, Head(stream[c]))]
  /\ stream' = [stream EXCEPT ![c] = Tail(@)]
  /\ UNCHANGED <<kind, unread, shut, backlog, fd, ipcVars, slot, mainVars>>

\* recv_exact returns None, or fails.
ReceiveNothing(c) ==
  /\ client[c] \in {"header", "pending", "payload"}
  /\ stream[c] = << >> /\ c \in shut
  /\ client' = [client EXCEPT ![c] = "failed"]
  /\ UNCHANGED <<kind, got, socketVars, ipcVars, slot, mainVars>>

\* settimeout(), or the end of the Python process, wherever it is.
GiveUp(c) ==
  /\ client[c] \in {"connected", "header", "pending", "payload"}
  /\ client' = [client EXCEPT ![c] = "gaveUp"]
  /\ UNCHANGED <<kind, got, socketVars, ipcVars, slot, mainVars>>

-----------------------------------------------------------------------------
(* kt_app_ipc and handle_req_resp_command.                                 *)

\* poll() reports on the connection as it is at that moment, if there is one.
Poll ==
  /\ ipc = "poll"
  /\ LET new == backlog # << >>
         in  == fd # NoClient /\ fd \in unread
         hup == fd # NoClient /\ HungUp(fd)
     IN /\ new \/ in \/ hup
        /\ revents' = [new |-> new, in |-> in, hup |-> hup]
  /\ ipc' = "accept"
  /\ UNCHANGED <<clientVars, socketVars, ipcReq, ipcResp, slot, mainVars>>

\* Mutant: the old connection is not closed.
AcceptClient_leak ==
  /\ ipc = "accept"
  /\ IF revents.new THEN fd' = Head(backlog) /\ backlog' = Tail(backlog)
                    ELSE UNCHANGED <<fd, backlog>>
  /\ ipc' = "handle"
  /\ UNCHANGED <<clientVars, unread, stream, shut, revents, ipcReq, ipcResp,
                 slot, mainVars>>

\* A new connection takes the place of the one there was.
AcceptClient ==
  /\ ipc = "accept"
  /\ IF revents.new
     THEN /\ fd' = Head(backlog)
          /\ backlog' = Tail(backlog)
          /\ shut' = shut \cup ({fd} \ {NoClient})
     ELSE UNCHANGED <<fd, backlog, shut>>
  /\ ipc' = "handle"
  /\ UNCHANGED <<clientVars, unread, stream, revents, ipcReq, ipcResp, slot,
                 mainVars>>

\* Mutant: no "continue" after the disconnection.
HandleClient_noContinue ==
  /\ ipc = "handle"
  /\ IF revents.hup THEN shut' = shut \cup {fd} /\ fd' = NoClient
                    ELSE UNCHANGED <<shut, fd>>
  /\ ipc' = IF revents.in THEN "recv" ELSE "poll"
  /\ revents' = [new |-> FALSE, in |-> FALSE, hup |-> FALSE]
  /\ UNCHANGED <<clientVars, unread, stream, backlog, ipcReq, ipcResp, slot,
                 mainVars>>

\* The events polled for, applied to the connection there is now.
HandleClient ==
  /\ ipc = "handle"
  /\ IF revents.hup
     THEN shut' = shut \cup {fd} /\ fd' = NoClient /\ ipc' = "poll"
     ELSE /\ ipc' = IF revents.in THEN "recv" ELSE "poll"
          /\ UNCHANGED <<shut, fd>>
  /\ revents' = [new |-> FALSE, in |-> FALSE, hup |-> FALSE]
  /\ UNCHANGED <<clientVars, unread, stream, backlog, ipcReq, ipcResp, slot,
                 mainVars>>

\* Mutant: recv_all goes on at the end of the stream.
RecvCommand_ignoresEof ==
  /\ ipc = "recv" /\ fd \in unread
  /\ unread' = unread \ {fd}
  /\ ipcReq' = fd /\ ipc' = "send"
  /\ UNCHANGED <<clientVars, stream, shut, backlog, fd, revents, ipcResp, slot,
                 mainVars>>

RecvCommand ==
  /\ ipc = "recv"
  /\ \/ /\ fd \in unread
        /\ unread' = unread \ {fd}
        /\ ipcReq' = fd /\ ipc' = "send"
     \/ /\ fd \notin unread /\ HungUp(fd)
        /\ ipc' = "poll"
        /\ UNCHANGED <<unread, ipcReq>>
  /\ UNCHANGED <<clientVars, stream, shut, backlog, fd, revents, ipcResp, slot,
                 mainVars>>

kt_app_send_request ==
  /\ ipc = "send"
  /\ slot' = [slot EXCEPT !.request = ipcReq, !.cmd_pending = TRUE]
  /\ ipc' = IF kind[ipcReq] = "generate" THEN "acknowledge" ELSE "wait"
  /\ UNCHANGED <<clientVars, socketVars, revents, ipcReq, ipcResp, mainVars>>

Acknowledge ==
  /\ ipc = "acknowledge"
  /\ SendTo(fd, Header("generate", "PENDING", ipcReq))
  /\ ipc' = "poll" /\ ipcReq' = NoClient
  /\ UNCHANGED <<clientVars, unread, shut, backlog, fd, revents, ipcResp, slot,
                 mainVars>>

\* Mutant: the response is taken whether it is there or not.
wait_for_response_noWait ==
  /\ ipc = "wait" /\ ipc' = "get"
  /\ UNCHANGED <<clientVars, socketVars, revents, ipcReq, ipcResp, slot, mainVars>>

wait_for_response ==
  /\ ipc = "wait" /\ ~slot.cmd_pending
  /\ ipc' = "get"
  /\ UNCHANGED <<clientVars, socketVars, revents, ipcReq, ipcResp, slot, mainVars>>

kt_app_get_response ==
  /\ ipc = "get"
  /\ ipcResp' = slot.response
  /\ ipc' = "header"
  /\ UNCHANGED <<clientVars, socketVars, revents, ipcReq, slot, mainVars>>

send_header_only ==
  /\ ipc = "header"
  /\ SendTo(fd, Header(ipcResp.cmd, "SUCCESS", ipcResp.of))
  /\ IF ipcResp.cmd = "list" /\ ~HungUp(fd)
     THEN ipc' = "list" /\ UNCHANGED <<ipcReq, ipcResp>>
     ELSE ipc' = "poll" /\ ipcReq' = NoClient /\ ipcResp' = NoResponse
  /\ UNCHANGED <<clientVars, unread, shut, backlog, fd, revents, slot, mainVars>>

send_list_profiles_payload ==
  /\ ipc = "list"
  /\ SendTo(fd, Payload("list", ipcResp.list))
  /\ ipc' = "poll" /\ ipcReq' = NoClient /\ ipcResp' = NoResponse
  /\ UNCHANGED <<clientVars, unread, shut, backlog, fd, revents, slot, mainVars>>

-----------------------------------------------------------------------------
(* kt_app_execute_cmd and kt_app_generate_face_id_done_cb.                 *)

ReadCommand ==
  /\ main = "idle" /\ slot.cmd_pending
  /\ mainReq' = slot.request
  /\ main' = IF kind[slot.request] = "generate" THEN "generate" ELSE "execute"
  /\ UNCHANGED <<clientVars, socketVars, ipcVars, slot, executed>>

Perform(c) == executed' = [executed EXCEPT ![c] = @ + 1]

\* An update takes its data from the shared memory, as it is by then.
ExecuteCommand ==
  /\ main = "execute"
  /\ Perform(IF kind[mainReq] = "update" THEN slot.request ELSE mainReq)
  /\ slot' = IF kind[mainReq] = "list"
             THEN [slot EXCEPT !.response.list = mainReq] ELSE slot
  /\ main' = "respond"
  /\ UNCHANGED <<clientVars, socketVars, ipcVars, mainReq>>

\* The GARD has answered; the payload shares its place with the list.
GenerateDone ==
  /\ main = "generate"
  /\ Perform(mainReq)
  /\ slot' = [slot EXCEPT !.response = [cmd |-> "generate", of |-> mainReq,
                                        list |-> NoClient]]
  /\ main' = IF fd # NoClient THEN "doneHeader" ELSE "respond"
  /\ UNCHANGED <<clientVars, socketVars, ipcVars, mainReq>>

DoneHeader ==
  /\ main = "doneHeader"
  /\ SendTo(fd, Header("generate", "SUCCESS", mainReq))
  /\ main' = "donePayload"
  /\ UNCHANGED <<clientVars, unread, shut, backlog, fd, ipcVars, slot, mainReq,
                 executed>>

DonePayload ==
  /\ main = "donePayload"
  /\ SendTo(fd, Payload("generate", mainReq))
  /\ main' = "respond"
  /\ UNCHANGED <<clientVars, unread, shut, backlog, fd, ipcVars, slot, mainReq,
                 executed>>

\* Mutant: cmd_pending stays.
Respond_stillPending ==
  /\ main = "respond"
  /\ slot' = [slot EXCEPT !.response.cmd = kind[mainReq],
                          !.response.of = mainReq]
  /\ main' = "idle" /\ mainReq' = NoClient
  /\ UNCHANGED <<clientVars, socketVars, ipcVars, executed>>

Respond ==
  /\ main = "respond"
  /\ slot' = [slot EXCEPT !.response.cmd = kind[mainReq],
                          !.response.of = mainReq, !.cmd_pending = FALSE]
  /\ main' = "idle" /\ mainReq' = NoClient
  /\ UNCHANGED <<clientVars, socketVars, ipcVars, executed>>

-----------------------------------------------------------------------------
Init ==
  /\ client = [c \in Clients |-> "new"]
  /\ kind = [c \in Clients |-> "none"]
  /\ unread = {} /\ shut = {} /\ backlog = << >>
  /\ stream = [c \in Clients |-> << >>]
  /\ got = [c \in Clients |-> << >>]
  /\ fd = NoClient
  /\ ipc = "poll" /\ ipcReq = NoClient /\ ipcResp = NoResponse
  /\ revents = [new |-> FALSE, in |-> FALSE, hup |-> FALSE]
  /\ slot = [request |-> NoClient, response |-> NoResponse,
             cmd_pending |-> FALSE]
  /\ main = "idle" /\ mainReq = NoClient
  /\ executed = [c \in Clients |-> 0]

Proceed(c) == SendCommand(c) \/ Receive(c) \/ ReceiveNothing(c)

IpcThread ==
  \/ Poll \/ AcceptClient \/ HandleClient \/ RecvCommand
  \/ kt_app_send_request \/ Acknowledge \/ wait_for_response
  \/ kt_app_get_response \/ send_header_only \/ send_list_profiles_payload

MainThread ==
  \/ ReadCommand \/ ExecuteCommand \/ GenerateDone \/ DoneHeader \/ DonePayload
  \/ Respond

Next ==
  \/ \E c \in Clients : \/ \E k \in Kinds : Connect(c, k)
                        \/ Proceed(c)
                        \/ GiveUp(c)
  \/ IpcThread
  \/ MainThread

\* Threads and clients run; nobody is bound to connect, or to give up.
Fairness == /\ WF_vars(IpcThread) /\ WF_vars(MainThread)
            /\ \A c \in Clients : WF_vars(Proceed(c))

Spec == Init /\ [][Next]_vars /\ Fairness

-----------------------------------------------------------------------------
Units == [part : {"header", "payload"}, cmd : Kinds,
          rc : {"none", "PENDING", "SUCCESS"}, of : Clients]
Responses == [cmd : Kinds \cup {"none"}, of : Clients \cup {NoClient},
              list : Clients \cup {NoClient}]

(* Every variable has its type, a thread that handles a request has one,   *)
(* and only one that waits for an answer has left one unanswered.          *)
TypeOK ==
  /\ client \in [Clients -> {"new", "connected", "header", "pending", "payload"}
                            \cup Ended]
  /\ kind \in [Clients -> Kinds \cup {"none"}]
  /\ unread \subseteq Clients /\ shut \subseteq Clients
  /\ backlog \in Seq(Clients)
  /\ stream \in [Clients -> Seq(Units)] /\ got \in [Clients -> Seq(Units)]
  /\ fd \in Clients \cup {NoClient}
  /\ ipc \in {"poll", "accept", "handle", "recv", "send", "acknowledge", "wait",
             "get", "header", "list"}
  /\ revents \in [new : BOOLEAN, in : BOOLEAN, hup : BOOLEAN]
  /\ ipcReq \in Clients \cup {NoClient} /\ ipcResp \in Responses
  /\ slot \in [request : Clients \cup {NoClient}, response : Responses,
               cmd_pending : BOOLEAN]
  /\ main \in {"idle", "execute", "generate", "doneHeader", "donePayload",
              "respond"}
  /\ mainReq \in Clients \cup {NoClient}
  /\ executed \in [Clients -> Nat]
  /\ ipc \in {"recv", "send", "acknowledge", "wait", "get", "header", "list"}
       => fd # NoClient
  /\ ipc \in {"header", "list"} => ipcResp.cmd # "none"
  /\ main # "idle" => mainReq # NoClient

(* What a client has seen of its request, in the words of Rpc.             *)
Outcome(c) == IF client[c] \in Ended THEN client[c] ELSE "none"
Asked == {c \in Clients : client[c] # "new"}

R == INSTANCE Rpc WITH asked <- Asked, outcome <- [c \in Clients |-> Outcome(c)]

(* As long as nobody asks for a face id, kt_app serves requests as Rpc     *)
(* promises, over connections that it closes at will: an answer is given   *)
(* to a request that was executed, a client that fails was not and will    *)
(* not be served, and no request is executed twice.                        *)
ServesRequests == R!Spec

(* A request that is not for a face id and that succeeds was answered with *)
(* its own response: a header for it, and if it lists the profiles the     *)
(* list that was made for it, whoever else uses the shared memory.         *)
OwnAnswer ==
  \A c \in Clients : client[c] = "ok" /\ kind[c] # "generate" =>
    got[c] = IF kind[c] = "list"
             THEN <<Header("list", "SUCCESS", c), Payload("list", c)>>
             ELSE <<Header(kind[c], "SUCCESS", c)>>

(* A face id generation, whose client is acknowledged before it is done,   *)
(* may lose the requests of others, but no request is executed twice.      *)
AtMostOnce == \A c \in Clients : executed[c] <= 1

(* A client that connects is answered or told that it will not be, and     *)
(* need not time out.                                                      *)
ClientsEnd == \A c \in Clients : client[c] = "connected" ~> client[c] \in Ended

(* The IPC thread does not wait for ever for a client to speak or for the  *)
(* main thread to answer: it goes back to poll the sockets.                *)
PollsAgain == ipc # "poll" ~> ipc = "poll"

=============================================================================
