# HUB and Katana: a verification development

TLA+ modules of the host side of the Katana (Kt) system: the HUB, which talks
to a GARD camera board over a serial line, KtLib on top of it, the `kt_app`
daemon that uses KtLib, and the `kt_viz` web server that asks `kt_app` for
things over a Unix socket. TLC checks the modules on small instances, TLAPS
proves theorems about them for every value of the constants. Source paths
below are relative to `src/src`.

## 1. The system

    page in the browser                  apps/kt_viz/static/script.js
       |  fetch, img with the video      routes of apps/kt_viz/app.py
       v
    kt_viz (Flask, Python): a thread per request, the event thread, the
       |    worker that clears boxes;    camera: apps/kt_viz/camInterface.py
       |  one connection per request     apps/kt_viz/ipc_client.py
       |  and one for the faces (back)
       v
    IPC thread of kt_app                 apps/kt_app/kt_ipc/ipc_thr_func.c
       |  mailbox: one request, one      apps/kt_app/kt_common/kt_app_req_resp.c
       |  response, cmd_pending
       v
    main thread of kt_app                apps/kt_app/kt_common/kt_app_idle_cb.c
       |  KtLib dispatcher, idle         KtLib/Kt_Dispatcher.c
       |  callback, face callbacks
       v
    HUB                                  hub/hub_gard_cmds.c, hub_req_resp_sm.c
       |  dal_read / dal_write           apps/os/dal_uart_ops.c
       v
    GARD firmware (not in the repository)

### Inventory

| Component | State | Operations | What is hard | What makes it correct |
|---|---|---|---|---|
| Metadata buffers (`Kt_FifoMgmt.c`, `Kt_MetadataHandling.c`, `kt_app_buffers.c`, `kt_app_faceid_cb.c`) | an intrusive list whose nodes lie in the buffers, a ring of slots | hand-over, take, fill, callback swap, release | two owners from the start, nodes overwritten by data, a list that must never be empty | list intact, one owner at a callback, none lost, none freed twice |
| HUB request state machine and App Layer sends (`hub_req_resp_sm.c`, `hub_gard_cmds.c`) | `command_execution`, state of a request, bytes on the line | requests, the poll for GARD's commands, send with peek and payload | both sides talk at once, short reads, payloads refused halfway | responses and frames are not mixed up or lost, nobody waits for ever |
| KtLib dispatcher (`Kt_Dispatcher.c`) | stop flag | loop, choice of a payload's buffer | shares its thread with the application | GARD served, application served |
| Request/response IPC (`ipc_thr_func.c`, `kt_app_req_resp.c`, `kt_app_idle_cb.c`, `ipc_client.py`) | connections, mailbox | connect, poll, accept, execute, answer, acknowledge | two threads and many clients, timeouts, hang-ups, one mailbox | at most once, own answer, every client comes to an end |
| Face profiles (`kt_app_face_db.c`) | table in memory, file | load, add, update, flush | a crash during a flush, two threads without a lock, table full | file is a state the table had, names survive |
| Interactive thread (`interactive_thr_func.c`) | its request | menu, send, wait 2.5 s | gives up while the command is pending | the answer it shows is its own |
| Start and stop (`kt_app_main.c`, `ipc_main.c`, `interactive_main.c`) | `should_exit` | spawn, join, Ctrl-C, `EXIT` | order of release, a join that waits for the dispatcher | every thread ends, nothing used after its release |
| KtLib life cycle (`Kt_Init.c`, `Kt_Face_Ops.c`, `Kt_PipelineMgmt.c`, `Kt_QRCode_Ops.c`) | context, monitoring flags | init, start, stop, fini | a request's failure is not looked at | flags agree with GARD |
| HUB start up (`hub_preinit.c`, `hub_init.c`, `hub_discover_gards`) | list of GARDs and their busses | discover, activate | several busses per GARD, busses without one | each bus filed under its GARD |
| kt_viz server (`app.py`, `ipc_client.py`) | boxes to draw, `face_ids.json` | event callback, clearing of old boxes, list / update / generate routes | threads that share a file without a lock, one camera frame in two messages | boxes of one message, a file that is `kt_app`'s table |
| kt_viz camera (`camInterface.py`) | status, stop flag, count of generators, stream, lock | start, stop, `generate_raw_frames` | a stop that waits, a start that sleeps, generators outside the lock | each request takes effect once, no release under a reader, a running camera streams |
| kt_viz page, stream (`script.js`) | buttons, video, message | start, stop, load | answers out of order, failing requests, a page loaded again | buttons and panel true of the camera |
| kt_viz page, faces (`script.js`) | button, dialog, dropdown, cards | register, save, poll, list | timers not tied to answers, two requests at a time | one generation at a time, what was saved is shown |
| DAL and OS layer, logger, wire formats, simulator build | | | | |

Everything hard to test that was met, with its line, is listed under `hazards`
in `PROJECT.json`; the properties are chosen for that list.

## 2. The modules

### MetadataBuffers

One thread (`kt_app_main`) does everything, so the difficulty is not
interleaving but the length of the history. `kt_app` gives KtLib *all* buffers
of its ring without taking them out of the ring (`kt_app_main.c:187`). KtLib
links the buffers through their own first bytes. For each frame KtLib takes a
buffer for the identified users and hands it to a callback; the callback takes
the *next* buffer of the ring, gives it to KtLib - which usually still has it
on its list - and puts the handled one in the ring; then the same for the
unidentified users.

| TLA+ | code |
|---|---|
| `queue` | `metadata_buffer_queue_t`: `buffers[].p_buffer`, `buffers[].buff_len`, `head`, `tail` |
| `fifo` | `struct BufFifo` and the `struct BufInfo` in every buffer; `Clobbered` is a node that `PpeData` was written over |
| `ids` | `pd__faces[k].fd__face_id` of every buffer; taking a buffer off the list writes NULL there |
| `frame`, `out`, `pc` | the HMI metadata, `p_out_data` and the place in `Kt_HandleReceivedMetadata` or a callback |
| `SupplyBuffer` | loop of `kt_app_main.c:187-191` |
| `HandleIdentified`, `NobodyUnidentified`, `HandleUnidentified` | the two passes of `Kt_HandleReceivedMetadata` |
| `FaceCallback` | `kt_app_face_identified_cb`, `kt_app_face_not_identified_cb` |
| `ExitCommand`, `Kt_ReleaseMetadataBuffers` | `KT_APP_CMD_EXIT` |
| `kt_app_metadata_buffer_queue_fini` | `err_kt_app_main` after a failed `Kt_Init` |

Only face IDs are kept of a face; coordinates and the stream to kt_viz are left
out, and so is a `malloc` of the pool that fails, which `kt_app_main` does not
notice (`kt_app_buffers.c:27-30`). Frames have one to `MaxUsers` users, as many as the buffers hold at most.

### HubLink, MCHubLink

`toHub` and `toGard` are the two directions of the serial line. One element is
what one `dal_read` or `dal_write` transfers, and carries the number of the
request or of the send it belongs to, which the program does not see. Every
read can wait, succeed or come back short, every write succeed or fail
(`MaxErrors` in a behaviour). `pc` is the place in
`hub_check_and_execute_gard_command`, `hub_handle_app_layer_send_data` or
`hub_execute_hub_request`; the actions are the reads and writes in between.
GARD is the environment the code expects: it answers in order, waits for the
response to its Originator Sync before it sends, and, unless `Crossing` is set,
does not begin to talk while a request is under way. It is marked `external`.
HUB itself never looks whether GARD talks: `HubMaySpeak` is true with
`Crossing`, which is the code. A write that fails leaves nothing on the line,
although `dal_uart_write` can have written a part. `MCHubLink` gives what GARD
sends: a frame that fits; one of a kind KtLib does not know, and right behind it
a short one that fits; one that is too large, and a short one behind that.
Payload bytes may look like the start of a command, as those of the one too
large do.

Register access and data transfer (`"reg"`, `"data"`) are HUB's own interface;
KtLib uses App Layer requests only (`"app"`).

### Rpc, IpcServer

`Rpc` is what a client may rely on: a request is executed at most once; an
answer means it was executed; a failure means that it was not and will not be;
a client that gives up does not know.

`IpcServer` has the three parties that bring a request from a Python client to
the main thread and back:

| TLA+ | code |
|---|---|
| `client`, `kind`, `got`; `Connect`, `SendCommand`, `Receive`, `ReceiveNothing`, `GiveUp` | `AppIPCManager.send_request`; `GiveUp` is the socket timeout or the end of the process |
| `unread`, `stream`, `shut`, `backlog` | the sockets; a connection is named by its client |
| `fd`, `ipc`, `revents`, `ipcReq`, `ipcResp`; `Poll`, `AcceptClient`, `HandleClient`, `RecvCommand`, ... | `req_resp_client_sockfd` and the locals of `kt_app_ipc`, `handle_req_resp_command` |
| `slot` | `struct kt_app_shmem`; each critical section of its mutex is one action |
| `main`, `mainReq`; `ReadCommand`, `ExecuteCommand`, `Respond` | `kt_app_execute_cmd` |
| `GenerateDone`, `DoneHeader`, `DonePayload` | `kt_app_generate_face_id_done_cb`, which `Kt_GenerateFaceId_async` calls before it returns |
| `executed` | history: how often each request took effect |

`of` and the name of the request in `slot` are history too: the program has the
command and its data only, so no guard looks at them. `kind[c]` is the command
sent. Return codes other than PENDING are all "SUCCESS": the code takes the
same path whatever a start or an update returned. `AcceptClient` is one step,
although the main thread could send between the `close` of the old connection
and the assignment of the new descriptor; such a send fails.

### FaceDb, MCFaceDb

| TLA+ | code |
|---|---|
| `table` | `face_profiles[0 .. face_profile_count - 1]` |
| `opened`, `pos`, `buf` | `face_db_file`: open or not, the offset and the content of its stdio buffer |
| `disk` | the file as the kernel has it, the one thing a restart finds |
| `Load` | the `fscanf` loop of `kt_app_face_db_init` |
| `Rewind`, `Fprintf`, `Fflush`, `Ftell`, `Ftruncate` | `kt_app_face_db_flush_to_disk`, a call of stdio at a time, because a kill or the other thread can come between any two |
| `UpdateProfile`, `AnswerUpdate`, `GenerateDone`, `ExitCommand` | what the `kt_app_main` thread does with profiles |
| `Quit`, `CtrlC`, `FinalFlush`, `EndProcess` | the initial thread, `main` of `ipc_main.c` |
| `Crash`, `Start` | the process is killed, and started again |
| `promised`, `unsaved`, `overlap`, `torn` | history, which no guard reads; `overlap` is `"mixed"` from when a flush begins during another, `"mending"` while the next one that does not is under way, `"none"` after it |

A file is a sequence of cells: an id with its colon is one, a character of a
name, a newline and a NUL are one each. `Load` reads them as
`%u:%255[^\n]` does: newlines before the id are skipped, a line without an id
or without a name ends the loop. It is stated by counting, so that it can be
reasoned about: the profile `n` is on the accepted line with `n - 1` accepted
ones before it (`LineNumber`). `FaceDbAssumption` tells ids, characters and
newlines apart and has no empty name, because kt_viz replaces such a name by
one of its own before it asks for an update. stdio is modelled by what it does with its
buffer: `fprintf` writes out full buffers, `rewind` and `fflush` the rest,
`exit` and `fclose` too, a kill none of it.

A flush may begin in the middle of another: the initial thread's during the main
thread's and the other way round, and that of the handler of Ctrl-C during the
one its own thread is in. No lock forbids it, and the model does not either.
A client's update of an id that the
table does not have changes nothing and is left out. A replaced name is one
step: that a concurrent `fprintf` could print half of it is left out. A disk
that is full or fails is not modelled; ends of the program that skip the last
flush are covered by `Crash`, which is possible everywhere.

### CameraSwitch, CamInterface

`CameraSwitch` is what the routes of kt_viz promise about a camera: a request
for a start or a stop takes effect once, between its arrival and its answer,
and nothing but such a request changes the status. `CamInterface` is how the code does it.

| TLA+ | code |
|---|---|
| `camera_status`, `camera_stream`, `stop_flag`, `active_generators`, `camera_lock` | the fields of `camera_data_context` (`camInterface.py:289`); of the stream only whether there is one |
| `pc`; `ClearFlag`, `ResetCount`, `OpenCamera`, `CameraOpened` | the statements of `start_camera` that other threads can come between |
| `SetFlag`, `GeneratorsFinished`, `WaitTimesOut`, `ReleaseCamera` | those of `stop_camera`: flag, wait for at most two seconds, release under the lock |
| `gpc`, `held`, `failures`; `Enter`, `CheckFlag`, `LookAtCamera`, `ReadFrame`, ... | `generate_raw_frames` of one connection; `held` tells whether the stream it took is the open one |
| `crossed`, `recounted` | history: a start and a stop overlapped; the count was reset under generators of which some live |

A wait of two seconds that is over before the generators are, and a sleep that
is longer or shorter than something else, are just an order of steps. A read
can succeed or fail, a device can open or not; `MaxFailures` is
`max_consecutive_failures`.

### StreamPage

The stream of the page on top of an instance of `CameraSwitch`: the page's
requests are `CameraSwitch`'s, so what is shown for it holds for
`CamInterface`, too.

| TLA+ | code |
|---|---|
| `chain`, `reply` | a `controlCamera` under way: its `fetch`, the 300 ms timer, the `fetch` of the status; and the answer on its way |
| `running`, `video`, `message`, `feed` | `streamRunningState`, the displayed elements of `#clnx-camera-panel`, the connection of the `img` |
| `ClickStart`, `ClickStop`, `StartAnswered`, `StopAnswered`, `ControlRefused`, `TimerExpires`, `updateCameraUI`, `FetchFails` | the handlers of `script.js`; each runs to its end |
| `camera_control`, `camera_status`, `video_feed_clnx`, `GeneratorLeaves` | the routes it calls |
| `Restart`, `Reload`, `ConfigLoaded` | the server starts anew, the page is loaded again and starts the stream itself |
| `before`, `lost`, `overtaken` | history: order of answers, a request that failed, an answer that came late |

### FacePage, MCFacePage

| TLA+ | code |
|---|---|
| `disabled`, `busy`, `gen` | the Register button (`script.js:596`) and its requests |
| `polling`, `active`; `Poll`, `updateDashboard` | `startDataUpdates` once a second, `_activeFaceIds` |
| `dialog`, `save`; `ClickOk`, `SaveAnswered`, `SaveFails`, `RefreshTimer` | the dialog, the request of a click on OK and the 1.5 s timer of its second listener |
| `open`, `listing`, `panel`, `cards`, `count`; `ClickToggle`, `fetchProfiles`, `ShowProfiles`, ... | `initProfilesDropdown` |
| `table`; `generate_face_id`, `update_face_id`, `get_face_profiles` | `kt_app`'s profiles, as the routes reach them |
| `saved`, `missed`, `crossed` | history: names saved; a save the refresh meant for it came too early for; a save under way when a dialog was opened |

`gen`, `save` and `listing` hold requests under way; they are served and answered in any
order. The slots in `Gens` and `Saves` are interchangeable, and `MCFacePage`
gives that symmetry and the tables a page can find. `Cards` keeps the first profile
of each id, as `raw.filter` does, and finds the card at a place by counting
those kept before it (`Place`). A request that fails before the server served it
is gone; that the server could still serve it later is left out.

### VizServer, MCVizServer

| TLA+ | code |
|---|---|
| `file`; `AskTable`, `OpenFile`, `WriteFile` | `face_ids.json` and `list_face_profiles`: `open(..., "w")` empties the file, the dump gets there when it is closed; every writer begins at offset 0, so a shorter one leaves the end of a longer one |
| `pc`, `copy`; `get_face_profiles`, `update_face_id`, `generate_face_id` | the routes, a thread each |
| `ChangeTable`, `ChangeFails`, `ListFails` | `kt_app` does what it is asked, or the request fails (see `Rpc`) |
| `stream`, `event`, `faces`, `accumulator`, `boxes`; `RecvMessage`, `LookUpFace`, `CommitBoxes`, `StampEvent` | `listener_worker` and `ipc_event_callback` |
| `time`, `worker`; `TimePasses`, `LookAtTime`, `ClearBoxes` | `_bbox_generator_worker`: a second without an event clears the boxes |
| `SendFrame`, `Disconnect` | `kt_app` sends a camera frame in up to two messages, the connection ends |
| `since`, `sole`, `disturbed`, `frame` | history |

`table` is a version number: each update and each new face makes the next one.
`Size` is the length of its file. Routes share with the overlay nothing but the
file. A box keeps its face and whether it got a name; coordinates and
colours are left out, and so is a message without faces, which `kt_app` does not
send. `Disconnect` makes `frame` forget a frame that was cut off.

### Order of the modules

`MetadataBuffers` <- `MetadataBuffersProofs`; `HubLink` <- `MCHubLink`,
`HubLinkProofs`; `Rpc` <- `IpcServer` (instance, refinement) <-
`IpcServerProofs`; `FaceDb` <- `MCFaceDb`, `FaceDbProofs`; `CameraSwitch` <-
`CamInterface` (refinement) <- `CamInterfaceProofs`; `CameraSwitch` <-
`StreamPage` (as a part) <- `StreamPageProofs`; `FacePage` <- `MCFacePage`,
`FacePageProofs`; `VizServer` <- `MCVizServer`, `VizServerProofs`.

Components meet in these places. `HubLink`'s `delivered` is the input that
`MetadataBuffers` enumerates with `\E fr \in Frames`. `IpcServer`'s main thread
is the idle callback of `HubLink`'s dispatcher, and the update and the exit
commands it executes are `FaceDb`'s `UpdateProfile` and `ExitCommand`. The two
passes of `MetadataBuffers` are the two messages of `VizServer`. `VizServer`
and `FacePage` take a request to `kt_app` as `Rpc` gives it: done, or failed
and not done. `StreamPage` knows the camera through `CameraSwitch`
only, which `CamInterface` implements. That a list of profiles is the table of
some moment is `VizServer`'s `ProfilesCurrent`, and `FacePage` builds on it.

## 3. The runs

| Run | Module, cfg | Result |
|---|---|---|
| `metadata` | `MetadataBuffers`, `MetadataBuffers.cfg` | 6 invariants hold, 242 276 states |
| `metadata_unidentified` | `MetadataUnidentified.cfg` | violated: see findings |
| `hub` | `MCHubLink`, `HubLink.cfg` | 4 invariants and 2 liveness properties hold, 113 925 states |
| `hub_crossing` | `HubCrossing.cfg` | violated: see findings |
| `ipc_sync` | `IpcServer`, `IpcSync.cfg` | refinement of `Rpc` and a liveness property hold, 94 575 states |
| `ipc_async` | `IpcServer`, `IpcAsync.cfg` | 3 invariants and a liveness property hold, 138 751 states |
| `face_db` | `MCFaceDb`, `FaceDb.cfg` | 4 invariants hold, 3 326 079 states (ids symmetric, files bounded) |
| `camera` | `CamInterface`, `CamInterface.cfg` | 2 invariants, an action property, the refinement of `CameraSwitch` and a liveness property hold, 280 885 states |
| `stream_page` | `StreamPage`, `StreamPage.cfg` | 3 invariants hold, 164 540 states |
| `face_page` | `MCFacePage`, `FacePage.cfg` | 4 invariants and an action property hold, 848 824 states (slots symmetric) |
| `viz_server` | `MCVizServer`, `VizServer.cfg` | 3 invariants, an action property and a liveness property hold, 1 411 742 states |
| `viz_frame` | `MCVizServer`, `VizFrame.cfg` | violated: see findings |

### What they show

*metadata.* `ListIntact` says that from the head one reaches the tail and then
NULL over nodes that hold no face data, although nodes are overwritten and
added while still linked. `NeverStarved`: KtLib's endless assertion on an empty
list is not reached. `HandoffExclusive`: while a callback looks at a buffer it
is neither on the list nor in the ring. `NoBufferLost`: between frames the two
hold all of them. `NoDoubleFree`: the release at exit.
`PoolSize = 3` is the smallest pool for which the ring wraps with the first and
the last slot distinct; `PoolSize = 4` (6.4 million states) was checked too and
holds, `PoolSize = 2` violates `ListIntact`, hence the assumption; `kt_app`
uses 10, which the theorems cover. Two faces per frame give frames with nobody,
some and all identified. With only one of the two callbacks configured
`HandoffExclusive` and `NoBufferLost` fail; `kt_app` sets both.

*hub.* `ResponseMatches`: what a request read is the response to it, if the
line was quiet when it began. `FramesWhole`: the application only gets whole
payloads, in order, each once, whatever was refused or cut short before.
`NoFrameLost`: no refused payload and no request swallows a later frame, unless
a refused payload holds the bytes of an Originator Sync, when the next frames
can get lost - a real limit of the byte-wise search, visible when that
condition is dropped. `GardServed` and `RequestReturns`: neither side waits for
ever. Two requests, one failure and five sends are enough for a request before,
between and after the frames and for a failure in each place; the dispatcher
keeps no other state between two commands. The third send fits and comes right
behind the second, which is refused: `NoFrameLost` demands that it is delivered.
From the fourth on, which is refused and looks like a sync, it demands nothing.
`GardServed` does not speak of what follows a failure or a data transfer.

*ipc_sync.* As long as no face id is generated, socket, IPC thread, mailbox and
main thread implement `Rpc` (`ServesRequests`). It rests on the IPC thread
waiting for the main thread. `ClientsEnd`: a client that connects comes to an
end without a timeout. Three clients are needed for one that is served, one
that has replaced it and one that waits. `list` is the longest command, with a
header and a payload; the other kinds are in `ipc_async`, and the proof has all.

*ipc_async.* A generation is acknowledged before it is done, so the mailbox is
overwritten and requests get lost: `Rpc` does not hold. What is left is
`AtMostOnce`, `OwnAnswer` for the clients of the other commands, and
`PollsAgain`: the IPC thread is never stuck with a client or with the main
thread. Two clients are the two requests that can meet in the mailbox.

*face_db.* Flushes of both threads and of the handler at any moment, kills
between any two calls. `Durable`: a name that a client was told is saved is found
by the next start, whenever the process is killed, because the file is written
over in place and a profile never changes its line. `FileMatchesTable`: between
flushes a start would load just the table, so a file that gets shorter is cut
where it should be. `UniqueProfiles`: no id has two profiles, unless the process
once ended in the middle of a flush: then the rest of the old file can be read as
more profiles, some of them twice. Two things the code does not handle are
excepted. A flush that begins during another voids what was promised and what is
said of the file, until the next flush that has the stream for itself has ended;
what is promised after that one holds again. And a kill with part of a text
written that is larger than the stream's buffer (`InPieces`) voids what was
promised. The bounds: a table of two and three ids
reach the limit, a table where a profile is refused, and duplicates that fill it.
The two names, one of them the default, have lines whose lengths differ by a
line, so that the rest of a longer file begins where a line begins; the ids are
interchangeable. `BufSize = 8` is more than one line and less than the longest
table of two, so that texts that fit and texts in pieces both come. Overlapping
flushes can make files and lines without end: TLC follows the states with a file
of at most `MaxFile` cells, two more than the longest table has, and without a
profile whose name holds a second line (`Bounds`). The theorems have no such
bound.

*camera.* `IsSwitch`: whatever starts, stops and generators do at once, each
request takes effect once and no status is written for nothing.
`RunningStreams`: a camera that is left running has its stop flag down, unless
a start and a stop overlapped. `ReleasedIdle`: the device is not released under
a generator that reads, unless the count was reset under living generators or a
start overlapped. `GeneratorsEnd`: a camera that has stopped leaves no
generator behind. Two requests are the start and the stop that overlap, two
generators make a count that is reset under one and counted down by the other,
and two failures in a row are one that is forgiven and one that is not.

*stream_page.* `ButtonsTruthful`, `PanelTruthful`: the page does not poll the
camera, so what it shows is what the last answer said. It is right at rest
unless, since the last click at rest, a request failed or an answer was
overtaken; one click corrects it. Three chains are the old page's, the one
started on loading and a click.

*face_page.* `OneGeneration`: the button guards generations although each poll
sets it. `CardsAgree`: one card per profile, marked as the last poll said, in
whatever order lists and polls come. `SavedIsShown`: what was saved is on a card of the
open dropdown, except after a save slower than the refresh meant for it.
`ClosedByOwnSave`: a dialog closes only for its own save, except one opened
under another's. Two generations and two saves are what can be under way at
once before either is answered; id 0 is the one `script.js` takes for none; the initial tables are an empty one and one with a profile twice.

*viz_server.* `ProfilesCurrent`: with no route under way the file is `kt_app`'s
table, and a request that reads it finds one that is no older than the request,
unless two lists came between each other. `NamedIfKnown`: while the file is
undisturbed a known face is drawn without a name only if it is looked up between
a list's `open()` and `close()`. After two lists that came between each other, an
enrolment that is not listed yet, or a list that failed, the file is disturbed
until a list has it for itself, and known faces can be drawn without a name with
nobody writing (`app.py:274-288`). `BoxesOfOneMessage`,
`BoxesGo`: boxes are never mixed, and when nothing comes any more they are
cleared. Two threads are a writer and another; three tables make a file
longer and then shorter; the frames have known and unknown faces, or only
unknown ones.

### Findings

1. `UnidentifiedHaveNoFaceId` (`metadata_unidentified`): the entry of an
   unidentified face can keep the face ID of an earlier person
   (`Kt_MetadataHandling.c:233`, against `Kt_Lib.h:102`).
2. `ResponseMatches` with `Crossing` (`hub_crossing`): the validation of the
   partial response compares the request with itself (`hub_req_resp_sm.c:128`),
   so a command of GARD is returned as the response.
3. `WholeFrame` (`viz_frame`): a camera frame with known and unknown people
   comes in two messages and the boxes of the second replace those of the first
   (`app.py:319`), against the "atomic per-frame snapshot" of `app.py:28` and
   `app.py:245`. The run's behaviour ends with both messages handled and the boxes
   of the second; frames cut off by the end of the connection do not count.

Limits of the code that the models show when a constant or a condition of a
property is changed, without a run of their own:

- Without `overlap = "none"`, `FileMatchesTable` fails (`kt_app_face_db.c:169`,
  `ipc_main.c:34`): the flush of 'q' is about to cut the file to the length of the
  empty table it wrote, the main thread adds a profile, renames and writes it, and
  then the file is cut: it is empty with a profile in the table and no flush under
  way, until the next one.
- Without `~InPieces` in `Durable` or in `Crash`, a table larger than the buffer
  of stdio and a kill between two pieces lose a promised name
  (`kt_app_face_db.c:161`).
- A data transfer returns with `command_execution` set and its ACK unread
  (`hub_req_resp_sm.c:227`): GARD is not listened to until another request
  completes. `dal_uart_read` does not time out (`dal_uart_ops.c:202`): a silent
  GARD keeps the idle callback, and with it every command, from running.
- `poll()`'s events for the old connection are applied to the one accepted
  since (`ipc_thr_func.c:352`): the request of the new client is lost, and by
  `ServesRequests` it is told so. The completion of a generation can overtake
  its acknowledgement (`ipc_thr_func.c:205`), which `OwnAnswer` therefore excludes.
- Without `~crossed` or `~recounted`, `RunningStreams` and `ReleasedIdle` fail
  (`camInterface.py:336`, `:338`); without `~missed`, `SavedIsShown`
  (`script.js:832`); without `crossed`, `ClosedByOwnSave` (`script.js:581`);
  without `~disturbed`, `ProfilesCurrent` (`ipc_client.py:473`).

Seen on the way: the comments at `script.js:541-542`, `script.js:561-562` and
`app.py:710` say that a face id of 0 is valid, but a click on OK in a dialog for
it saves nothing (`script.js:564`) and the server refuses it (`app.py:714`); with
the table full an existing profile is not overwritten (`kt_app_face_db.c:117`),
against the comment at lines 102-103; an error of the list is shown as "No profiles"; `kt_app` has no
command for the deletion `app.py` sends; `showStoppedMsg` leaves an earlier error
text in place.

### Histories

`crossed`, `recounted`, `lost`, `overtaken`, `before`, `missed`, `saved`,
`disturbed`, `sole`, `since`, `frame`, `promised`, `unsaved`, `overlap`, `torn` and `executed` record what happened. No
guard reads them to decide about the code's next step; the properties do, to
say after which events a promise does not hold. Each such event is one the code
can produce and does not handle, and it is forgotten as soon as the code is
right again: `crossed` with the next request that has the camera for itself,
`lost` and `overtaken` with a click on a page at rest, `missed` with a refresh,
`disturbed` with a list that nobody interferes with, `overlap` with a flush that
has the stream for itself, `frame` with the end of the connection.

### Fairness

- `HubLink`: weak fairness of the dispatcher thread's own steps that do not
  fail (`Dispatch /\ UNCHANGED errors`): the thread is scheduled and a failure
  is never owed. GARD answers what it was sent (weak fairness of `GardSend`,
  `GardAnswer`) but need not send anything. No fairness on issuing a request or
  on stopping.
- `IpcServer`: weak fairness of the two threads and of each client's process
  once it is connected; none on connecting or on giving up. That the main
  thread runs its idle callback again and again assumes that GARD keeps
  sending, which a camera that streams metadata for each frame does.
- `CamInterface`: weak fairness of each generator: its thread is scheduled, a
  read returns, the browser takes the frame or closes the connection. Requests
  need not come and need not get on.
- `VizServer`: weak fairness of the event thread, of the worker and of time.
  `TimePasses` is the clock; the two threads are daemons that run until the
  process ends. No route need ever be called.
- `MetadataBuffers`, `FaceDb`, `StreamPage` and `FacePage` have no liveness
  property and no fairness.

`CHECK_DEADLOCK FALSE` is set for `MetadataBuffers`, `HubLink` and `IpcServer`
only, because there the programs stop: after the exit command and in an
assertion, with the dispatcher stopped or with nothing left for GARD to say,
and when every client has ended.

### Mutants

An operator named `<definition>_<what is wrong>` next to a definition is a
plausible bug in that definition; with it in place TLC finds the property named
in `PROJECT.json` violated. The specifications do not use them.

## 4. The proofs

All theorems are for every value of the constants that satisfies the named
assumption of the module, and all rest on an inductive invariant that is
stronger than the property. `PROJECT.json` lists them with the property each
states: every invariant, every action property and every refinement that a
passing run checks has its theorem. Some have a hypothesis on a constant, which
the run's configuration satisfies:

| Hypothesis | of | Why |
|---|---|---|
| `AppCallbacks` | all of `MetadataBuffersProofs` | `kt_app_main.c` sets both callbacks; with one alone two of the properties fail |
| `Crossing = FALSE` | `Matched` | two sides that begin to talk at once are `hub_crossing`'s finding |
| `"generate" \notin Kinds` | `ImplementsRpc` | a generation is acknowledged before it is done, see `ipc_async` |

*`MetadataBuffersProofs`*, for every `PoolSize >= 3`, every buffer length,
number of users and set of face IDs, and under the assumption `AppCallbacks`
that both callbacks are configured: `TypeCorrect`, `Supplied` (`NeverStarved`),
`Exclusive` (`HandoffExclusive`), `Complete` (`NoBufferLost`), `FreedOnce`
(`NoDoubleFree`) and `Intact` (`ListIntact`). `Inv` adds two things. `RingInPlace`: the ring never
moves a buffer to another slot, because the one put back is the one taken at
the same index a lap before, so slot `i` holds buffer `i` for ever and the two
indices are equal between two operations. And the shape of the list by phase: while `kt_app` supplies
it, a list of consecutive buffers (`BootShape`); before the first callback, the
supplied buffers with or without the first (`AsSupplied`); from then on exactly
one node before a frame is handled and none while its buffer is out
(`LinkedShape`, `HeldShape`); at exit what is left of it (`ReleaseShape`).
`OnList`, the nodes reachable from the head, is defined by closed sets instead
of recursion, so that the theorems about it follow from one closed set given
explicitly. That the supplied list reaches its tail needs an induction along
it: were the tail not in a closed set that has the first node, there would be
a least node after the first that is not in the set, and its predecessor is.

*`HubLinkProofs`*, for whatever GARD sends, requests of every kind in any number,
and any number of short reads and failed writes: `TypeCorrect`, `Whole`
(`FramesWhole`), `NothingLost` (`NoFrameLost`), and under the assumption
`Crossing = FALSE` that the two sides do not begin to talk at the same time
`Matched` (`ResponseMatches`), which the run `hub_crossing` shows to need it.
A step changes the bytes on their way
to HUB in one of three ways, which most lemmas are about: HUB takes the front of
them (`Takes`), GARD adds a word (`Says`) or a whole send (`SendsNext`).
`RequestInv` says that a request that found the line quiet has it for itself:
what it has read followed by what is to come is its response (`Alone`), and GARD
stays idle until it has ended (`Undisturbed`). `FrameInv` says that nothing comes between the announcement of
a payload and its end (`Blocks`), that sends come in order (`InOrder`), that
what is being received is ahead of all that is on the line (`Receiving`), and what
was delivered too (`Past`). It rests on what the model says of payloads: bytes
that a short read or a refusal leaves behind can look like a sync, but not like
the announcement of a payload. `NoLossInv` accounts for all that GARD has sent,
as long as nothing failed and no refused payload looks like a sync: by the place
of the thread, the line holds what is left of one send and then GARD's next wish
to send, or words that are dropped one by one and then that wish (`Incoming`,
`Between`), and the sends before are delivered if they fit (`Handled`). Requests
can be out of step with their responses in this, after a data transfer that left
its ACK unread, and still take nothing of a send. If both sides begin to talk at
once, a request can take GARD's wish to send for its response, or GARD reads a
request in place of the response to its sync: `Unheard` says that GARD then
waits for ever, so that it sends nothing more that could be lost. This is why
`NothingLost` holds with `Crossing`, which the passing runs leave out.

*`IpcServerProofs`*, for every set of clients and of commands, generations
included: `TypeCorrect` and `ServedOnce` (`AtMostOnce`). That no request is
executed twice is not inductive; `Fresh` says why it holds: a request that is
not yet in the shared memory has not been executed and is in one place only, on
its connection or in the IPC thread's hands. The rest types the places of the
two threads (`Threads`, `Answers`), the connections (`Streams`, `Polled`,
`Known`) and the mailbox, whose request is fresh while it is pending (`Mailbox`).

`OwnAnswers` (`OwnAnswer`) is proved with generations included, which lose and
overtake requests. `OwnInv` says that the IPC thread keeps its connection while
it waits (`Handed`); that what it takes from the mailbox is the response to the
request in its hands or that of a generation (`Matched`); and that what is on
its way to a client are headers of its own or of generations, a list directly
after its header (`Orderly`). A client that did not ask for a face id takes no
header of a generation for its own.

`ImplementsRpc` is `Spec => ServesRequests` if `"generate" \notin Kinds`. Each step of `IpcServer` is a step of `Rpc` or leaves
it alone. `SyncInv` adds to `Inv`: a connection is accepted, waiting in the
backlog or shut down, one of the three (`Sockets`); one thread waits for the
other, so that the mailbox holds one request (`Alternate`); what is on its way
to a client is just the part of its answer it has not read (`Told`); and a
client that was told of a failure was closed before its request was executed,
one that is being answered has been served (`Ends`). That `poll()`'s events are
used for another connection does no harm beyond the failure `Rpc` allows.

*`FaceDbProofs`*, for every set of ids and of names, every limit of the table
and every size of the stream's buffer, with flushes of both threads at any moment
and kills between any two calls: `FaceDbTypes` (`TypeOK`), `FileIsTable`
(`FileMatchesTable`), `NoTwins` (`UniqueProfiles`) and `UpdatesSurvive`
(`Durable`), without a hypothesis. The first half is about `Load`: of a file that
begins with the lines of a table it reads that table and then whatever follows
(`TextLoad`), and if the file ends with them it reads nothing else. `Ctl` says who
uses the stream: as long as no flush overlaps, or one is mending what others did,
it is one thread. `FileInv` says, by the place of that thread, how much of which
table is in the file and in the buffer (`PrintedBy`, `CutTo`), and that between
flushes the file is the text of a table without duplicates unless one was cut off
(`Flushed`). `DurInv` adds that a kill at any point at which not a part of the
text alone is in the file leaves one that loads every acknowledged name (`Good`):
before the first `write()` it is the old file, after the last the new lines with
the end of the old file, and names never change their line. A flush that mends
has no promise to keep before it ends, for those made before it are void.

*`CamInterfaceProofs`*, for any number of threads and generators:
`TypeCorrect`, `Streaming` (`RunningStreams`), `SafeRelease` (`ReleasedIdle`)
and `ImplementsSwitch` (`IsSwitch`). The invariants say where the flag must be
up and where down by the place of each request, as long as nothing crossed
(`FlagUp`, `FlagDown`); that the count is the number of living generators
unless it was reset (`Counted`), with the theorems on cardinality; hence nobody
reads when a stop that saw 0 releases (`NobodyReads`, `ToBeReleased`); and that
the lock has one holder (`Locked`).

*`StreamPageProofs`*, for any number of chains: `TypeCorrect`, `Buttons`
(`ButtonsTruthful`) and `Panel` (`PanelTruthful`). `Informed` is the argument:
when no answer is still to be given, the last of those on their way is true of
the camera, or what the page has been told is. It rests on the answers being
ordered (`Order`) and on a click at rest beginning with nothing on its way (`Base`).

*`FacePageProofs`*, for any number of requests under way and all ids, names
and tables: `FacePageTypes` (`TypeOK`), `GeneratesOnce` (`OneGeneration`),
`ClosesOwn` (`ClosedByOwnSave`), `CardsAlwaysAgree` (`CardsAgree`) and
`SavesAreShown` (`SavedIsShown`). `GenInv` says that a busy button is disabled
and that the one generation under way is what it is busy with; `DialogInv` that
a save under way is for the open dialog unless one was opened meanwhile. There
is at most one card for an id, and it is marked just if the last poll has the
id, whichever of list and poll came last (`Agree`). That a save is shown rests on
every id the page works with being in the table (`KnownInv`), and on a list
under way or displayed not being older than the last save unless a refresh is
due or was missed (`ListInv`).

*`VizServerProofs`*, for any number of threads, tables and sizes of the file,
and all frames: `TypeCorrect`, `FileCurrent` (`ProfilesCurrent`), `OneMessage`
(`BoxesOfOneMessage`) and `KnownIsNamed` (`NamedIfKnown`). `ProfileInv` says who
has the file while nobody was disturbed (`Sole`), that no copy or file is older
than it may be (`Copies`) and what the file then is (`Undisturbed`);
`OverlayInv` that boxes, accumulator and the faces still to come are together
a message that was sent (`OneSource`).

Model-checked only: all liveness (`ClientsEnd`, `PollsAgain`, `GardServed`,
`RequestReturns`, `GeneratorsEnd`, `BoxesGo`), because the provers know nothing
of fairness and ENABLED. Of the three properties that a run
refutes, `ResponseMatches` has a theorem for `Crossing = FALSE` and the others have none.

The theorems of the library for induction take an operator as a parameter and
cannot be used here. Where an argument goes by induction over cells, lines,
profiles or nodes, it is made with one formula about sets of natural numbers
instead, which has no such parameter: a set that is not empty has a least
element (`Least`, from the well-founded ordering of finite sets by inclusion), and one
that has 0 and each successor has all (`Ind`). For that, functions like `Load` and `Cards` are stated by counting and
not by recursion or by folds. No module uses a RECURSIVE operator.

## 5. Not modelled, and the plan

Each component with what is left out of it is listed in `PROJECT.json`. In
order of what matters:

1. `Interactive`: the interactive thread as a second requester of
   `IpcServer`'s mailbox, which gives up while its command is pending, and as
   a third writer of `FaceDb`'s file.
2. `AppShutdown`: `should_exit`, joins, `Kt_Fini` before `Kt_StopDispatcher`.
3. `HubDiscover`: grouping of busses, against a definition by sets.
4. `KtLife`: `Kt_Init`, `Kt_Fini`, the monitoring flags against GARD's state.
5. `FixedPoint`: `Kt_Utils.c` against its reference definition.

Of what is there, worth stating and proving next: that a page's list is the
table of some moment, as one refinement of `VizServer`'s file and `FacePage`'s
table by a common register; an abstract specification of the face profiles
that `FaceDb` implements (a map from ids to names of which a restart gives back
all that was acknowledged); and the safety halves of `GardServed` and
`ClientsEnd`, what is enabled while somebody waits.

A property or a component that comes next takes the place of one of the twelve
runs, which is why some limits of section 3 have none.

Of kt_viz, not modelled: what the template has no element for and cannot be
reached (the dialog that deletes profiles, the buttons of the pipeline and of
face ID); functions nobody calls (`checkCameraStatus`, `stopDataUpdates`,
`showToast`); the dialogs of configuration, information and circuit and the
notifications, which keep no state the rest reads; colours of the boxes; a
second page in another browser, whose requests are to the server what those of
a loaded page are; the detection of cameras, the Pi camera,
`capture_image_from_gard` and `cleanup_resources` at the end of the process.
`plotly.js` is vendored.

Left out for good: logging, the layout of messages in bytes, and the simulator
build.
