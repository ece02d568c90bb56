------------------------------- MODULE FaceDb -------------------------------
(***************************************************************************)
(* The face profiles of kt_app in its IPC mode (kt_app_face_db.c):         *)
(*                                                                         *)
(*  - a table in memory, loaded when the program starts;                   *)
(*  - a text file with one line "<id>:<name>" for each profile, written    *)
(*    over in place through a stdio stream and cut to length afterwards.   *)
(*                                                                         *)
(* The kt_app_main thread renames profiles and flushes them when a client  *)
(* asks for it, and adds a profile for each face id GARD generates. The    *)
(* initial thread, main() of ipc_main.c, flushes them too: when the user   *)
(* types 'q', in the handler of Ctrl-C, and at the end. Nothing locks the  *)
(* table or the stream. The process can be killed at any step.             *)
(*                                                                         *)
(* A file is a sequence of cells: an id with its colon, a character of a   *)
(* name, a newline, or a NUL that a gap in the file is read as. A call of  *)
(* stdio, which locks its stream, is one step.                             *)
(***************************************************************************)
EXTENDS Integers, Sequences, FiniteSets, FiniteSetsExt

CONSTANTS
  Ids,            \* face ids GARD gives, as the cells they are written as
  Names,          \* names a client can give, sequences of characters
  NoId,           \* no update is being worked on
  Default,        \* "Default", the name of a profile that was added
  MaxProfiles,    \* KT_APP_MAX_FACE_PROFILES_ON_DISK
  BufSize         \* cells the stream holds before it writes them

NL  == "\n"
Nul == "NUL"
AllNames == Names \cup {Default}

\* What a file is made of, and the loops that read it, need ids, characters
\* and newlines to be told apart. No name is empty: kt_viz replaces such a
\* name before it asks for an update.
ASSUME FaceDbAssumption ==
  /\ MaxProfiles \in Nat \ {0}
  /\ BufSize \in Nat \ {0}
  /\ NoId \notin Ids /\ NL \notin Ids /\ Nul \notin Ids
  /\ \A n \in AllNames :
       /\ n \in Seq({n[k] : k \in DOMAIN n}) /\ Len(n) > 0
       /\ \A k \in DOMAIN n : n[k] \notin Ids \cup {NL, Nul}

Threads == {"main", "initial"}

VARIABLES
  disk,           \* the file, as the kernel has it
  up,             \* is the process running?
  opened,         \* face_db_file # NULL
  table,          \* face_profiles[0 .. face_profile_count - 1]
  pos, buf,       \* the stream: offset and content of its buffer
  pc,             \* [Threads -> place in the program]
  line,           \* [Threads -> i, in the loop of a flush]
  flen,           \* [Threads -> flen, in a flush]
  after,          \* what the initial thread does after its flush
  asked,          \* the update the main thread is working on
  promised,       \* history: the names a profile's file line may show, {} if
                  \* no client was told that it was updated
  unsaved,        \* history: was a profile added since the last flush began?
  overlap,        \* history: "mixed" if a flush began during another one,
                  \* "mending" while the next whole one is under way, "none"
  torn            \* history: did the process end without a whole flush at last?

stream == <<pos, buf>>
history == <<promised, unsaved, overlap, torn>>
vars == <<disk, up, opened, table, stream, pc, line, flen, after, asked, history>>

IdleThreads == [t \in Threads |-> IF t = "main" THEN "idle" ELSE "poll"]
NoUpdate    == [id |-> NoId, name |-> Default]

Has(t, id)    == \E k \in DOMAIN t : t[k].id = id
First(t, id)  == CHOOSE k \in DOMAIN t : t[k].id = id /\ \A j \in 1 .. k - 1 : t[j].id # id
NameOf(t, id) == t[First(t, id)].name

-----------------------------------------------------------------------------
(* The file *)

\* What fprintf("%u:%s\n") produces
LineOf(profile) == <<profile.id>> \o profile.name \o <<NL>>

LineStarts(f) == {k \in DOMAIN f : f[k] # NL /\ (k = 1 \/ f[k - 1] = NL)}
LineFrom(f, k) ==
  SubSeq(f, k, Max({j \in k .. Len(f) : \A i \in k .. j : f[i] # NL}))

\* fscanf("%u:%255[^\n]") = 2: newlines before the id are white space to it
Parses(l) == l[1] \in Ids /\ Len(l) > 1

\* Which of the lines that start at starts is the one at k
LineNumber(starts, k) == Cardinality({j \in starts : j <= k})

\* The loop of kt_app_face_db_init: lines until one that does not parse, or
\* until the table is full
Accepted(f, starts) ==
  LET bad == {k \in starts : ~Parses(LineFrom(f, k))}
  IN {k \in starts : (\A j \in bad : k < j) /\ LineNumber(starts, k) <= MaxProfiles}

Load(f) ==
  LET starts   == LineStarts(f)
      accepted == Accepted(f, starts)
      Nth(n)   == LineFrom(f, CHOOSE k \in accepted : LineNumber(starts, k) = n)
      profile(l) == [id |-> l[1], name |-> Tail(l)]
  IN [n \in 1 .. Cardinality(accepted) |-> profile(Nth(n))]

\* write() of cells s at offset p
Written(f, p, s) ==
  IF s = <<>> THEN f
  ELSE [k \in 1 .. Max({Len(f), p + Len(s)}) |->
          CASE k \in p + 1 .. p + Len(s) -> s[k - p]
            [] k \in 1 .. p /\ k > Len(f) -> Nul
            [] OTHER -> f[k]]

\* nothing is cut: the rest of a longer file stays
Resized_longer_stays(f, n) ==
  [k \in 1 .. Max({n, Len(f)}) |-> IF k <= Len(f) THEN f[k] ELSE Nul]

\* ftruncate()
Resized(f, n) == [k \in 1 .. n |-> IF k <= Len(f) THEN f[k] ELSE Nul]

-----------------------------------------------------------------------------
(* The table *)

kt_app_face_db_update_face_profile(t, id, name) ==
  [t EXCEPT ![First(t, id)].name = name]

\* no check of the limit
kt_app_face_db_add_face_profile_unbounded(t, id, name) ==
  IF Has(t, id) THEN kt_app_face_db_update_face_profile(t, id, name)
  ELSE Append(t, [id |-> id, name |-> name])

\* no search for a profile with the same id
kt_app_face_db_add_face_profile_blind(t, id, name) ==
  IF Len(t) >= MaxProfiles THEN t ELSE Append(t, [id |-> id, name |-> name])

\* A full table refuses every profile, the ones it has included
kt_app_face_db_add_face_profile(t, id, name) ==
  IF Len(t) >= MaxProfiles THEN t
  ELSE IF Has(t, id) THEN kt_app_face_db_update_face_profile(t, id, name)
  ELSE Append(t, [id |-> id, name |-> name])

-----------------------------------------------------------------------------
(* kt_app_face_db_flush_to_disk *)

Flushing(t) == pc[t] \in {"rewind", "print", "tell", "truncate"}

\* Part of the text is in the file, and the rest is not
InPieces == pos > 0 /\ \E t \in Threads : pc[t] = "print"

\* Nobody else uses the stream: no flush is under way, its own thread's
\* included, which the handler of Ctrl-C can interrupt, nor does exit() run
Alone    == pc["initial"] # "exit" /\ \A t \in Threads : ~Flushing(t)
Overlaps == opened /\ ~Alone

\* What a flush that begins does to the histories: one that overlaps another
\* makes good for nothing that was promised
NoteFlush ==
  overlap' = IF Overlaps THEN "mixed"
             ELSE IF opened /\ overlap = "mixed" THEN "mending" ELSE overlap
Nothing == [id \in Ids |-> {}]

Goto(t, place) == pc' = [pc EXCEPT ![t] = place]

RewindWith(t, content) ==
  /\ pc[t] = "rewind"
  /\ disk' = content
  /\ pos' = 0
  /\ buf' = <<>>
  /\ line' = [line EXCEPT ![t] = 1]
  /\ unsaved' = FALSE
  /\ Goto(t, "print")
  /\ UNCHANGED <<up, opened, table, flen, after, asked, promised, overlap, torn>>

\* the file is emptied first, as one that is opened to be written would be
Rewind_empties(t) == RewindWith(t, <<>>)

\* rewind() writes what is left in the stream's buffer
Rewind(t) == RewindWith(t, Written(disk, pos, buf))

\* fprintf() of one profile: full buffers of the stream are written
Fprintf(t) ==
  /\ pc[t] = "print"
  /\ line[t] <= Len(table)
  /\ LET cells == buf \o LineOf(table[line[t]])
         full  == BufSize * (Len(cells) \div BufSize)
     IN /\ disk' = Written(disk, pos, SubSeq(cells, 1, full))
        /\ pos' = pos + full
        /\ buf' = SubSeq(cells, full + 1, Len(cells))
  /\ line' = [line EXCEPT ![t] = @ + 1]
  /\ UNCHANGED <<up, opened, table, pc, flen, after, asked, history>>

\* The loop ends, fflush()
Fflush(t) ==
  /\ pc[t] = "print"
  /\ line[t] > Len(table)
  /\ disk' = Written(disk, pos, buf)
  /\ pos' = pos + Len(buf)
  /\ buf' = <<>>
  /\ Goto(t, "tell")
  /\ UNCHANGED <<up, opened, table, line, flen, after, asked, history>>

Ftell(t) ==
  /\ pc[t] = "tell"
  /\ flen' = [flen EXCEPT ![t] = pos + Len(buf)]
  /\ Goto(t, "truncate")
  /\ UNCHANGED <<disk, up, opened, table, stream, line, after, asked, history>>

\* The main thread goes on to answer, the initial thread to what it was doing
Ftruncate(t) ==
  /\ pc[t] = "truncate"
  /\ disk' = Resized(disk, flen[t])
  /\ flen' = [flen EXCEPT ![t] = 0]
  /\ line' = [line EXCEPT ![t] = 1]
  /\ Goto(t, IF t = "main" THEN "answer" ELSE after)
  /\ overlap' = IF overlap = "mending" THEN "none" ELSE overlap
  /\ UNCHANGED <<up, opened, table, stream, after, asked, promised, unsaved, torn>>

Flush(t) == up /\ (Rewind(t) \/ Fprintf(t) \/ Fflush(t) \/ Ftell(t) \/ Ftruncate(t))

-----------------------------------------------------------------------------
(* The kt_app_main thread *)

\* A profile that is promised may show the new name from here on
MayShow(id, name) ==
  promised' = [promised EXCEPT ![id] = IF @ = {} THEN {} ELSE @ \cup {name}]

\* KT_APP_CMD_UPDATE_FACE_PROFILE; of an unknown id nothing changes. Without a
\* file the flush returns at once.
UpdateProfile(id, name) ==
  /\ up /\ pc["main"] = "idle"
  /\ Has(table, id)
  /\ table' = kt_app_face_db_update_face_profile(table, id, name)
  /\ asked' = [id |-> id, name |-> name]
  /\ IF Overlaps THEN promised' = Nothing ELSE MayShow(id, name)
  /\ NoteFlush
  /\ Goto("main", IF opened THEN "rewind" ELSE "answer")
  /\ UNCHANGED <<disk, up, opened, stream, line, flen, after, unsaved, torn>>

\* The client is told of its success, which is a promise if there is a file
\* and no other flush came between
AnswerUpdate ==
  /\ up /\ pc["main"] = "answer"
  /\ promised' = IF opened /\ overlap = "none"
                 THEN [promised EXCEPT ![asked.id] = {asked.name}] ELSE promised
  /\ asked' = NoUpdate
  /\ Goto("main", "idle")
  /\ UNCHANGED <<disk, up, opened, table, stream, line, flen, after, unsaved, overlap, torn>>

\* kt_app_generate_face_id_done_cb with a face id. The initial thread can be
\* in a flush; that it could print half of a name replaced here is left out.
GenerateDone(id) ==
  /\ up /\ pc["main"] = "idle"
  /\ table' = kt_app_face_db_add_face_profile(table, id, Default)
  /\ unsaved' = TRUE
  /\ MayShow(id, Default)
  /\ UNCHANGED <<disk, up, opened, stream, pc, line, flen, after, asked, overlap, torn>>

\* KT_APP_CMD_EXIT: the dispatcher stops and the thread returns
ExitCommand ==
  /\ up /\ pc["main"] = "idle"
  /\ Goto("main", "ended")
  /\ UNCHANGED <<disk, up, opened, table, stream, line, flen, after, asked, history>>

-----------------------------------------------------------------------------
(* The initial thread *)

\* A flush by the initial thread, which then goes on at next
BeginFlush(next) ==
  /\ after' = next
  /\ Goto("initial", IF opened THEN "rewind" ELSE next)
  /\ promised' = IF Overlaps THEN Nothing ELSE promised
  /\ NoteFlush
  /\ UNCHANGED <<disk, up, opened, table, stream, line, flen, asked, unsaved, torn>>

\* 'q': flush, then wait for the threads. The IPC thread may still hand over
\* a request it has, so the main thread goes on until it has stopped.
Quit == up /\ pc["initial"] = "poll" /\ BeginFlush("join")

\* The handler of SIGINT runs wherever the thread is, its own flush included,
\* and does not return there
CtrlC == up /\ after # "exit" /\ BeginFlush("exit")

\* Both threads are joined: the last flush
FinalFlush ==
  /\ up /\ pc["main"] = "ended"
  /\ pc["initial"] \in {"poll", "join"}
  /\ BeginFlush("close")

\* The memory of a process, before it loads the file: what a killed one had
\* is gone, and so is the buffer of the stream
Forget ==
  /\ up' = FALSE /\ opened' = FALSE
  /\ table' = <<>>
  /\ pos' = 0 /\ buf' = <<>>
  /\ pc' = IdleThreads
  /\ line' = [t \in Threads |-> 1] /\ flen' = [t \in Threads |-> 0]
  /\ after' = "join"
  /\ asked' = NoUpdate
  /\ unsaved' = FALSE
  /\ overlap' = "none"
  /\ torn' = (torn \/ overlap # "none" \/ \E t \in Threads : Flushing(t))

\* exit(0), or fclose() and the end of main(): the stream is written out
EndProcess ==
  /\ up /\ pc["initial"] \in {"exit", "close"}
  /\ disk' = Written(disk, pos, buf)
  /\ Forget
  /\ UNCHANGED promised

\* The process is killed. What a flush has written of a table that is larger
\* than the stream's buffer, with the lines of the old file behind it, makes
\* good for nothing.
Crash ==
  /\ up
  /\ Forget
  /\ promised' = IF InPieces THEN Nothing ELSE promised
  /\ UNCHANGED disk

\* The program is started again: kt_app_face_db_init, which may fail to open
\* the file and then leaves the table empty
Start ==
  /\ ~up
  /\ up' = TRUE
  /\ opened' \in BOOLEAN
  /\ table' = IF opened' THEN Load(disk) ELSE <<>>
  /\ UNCHANGED <<disk, stream, pc, line, flen, after, asked, history>>

-----------------------------------------------------------------------------

Init ==
  /\ disk = <<>> /\ up = FALSE /\ opened = FALSE
  /\ table = <<>>
  /\ pos = 0 /\ buf = <<>>
  /\ pc = IdleThreads
  /\ line = [t \in Threads |-> 1] /\ flen = [t \in Threads |-> 0]
  /\ after = "join"
  /\ asked = NoUpdate
  /\ promised = Nothing
  /\ unsaved = FALSE /\ overlap = "none" /\ torn = FALSE

Next ==
  \/ \E t \in Threads : Flush(t)
  \/ \E id \in Ids, name \in Names : UpdateProfile(id, name)
  \/ AnswerUpdate
  \/ \E id \in Ids : GenerateDone(id)
  \/ ExitCommand \/ Quit \/ CtrlC \/ FinalFlush \/ EndProcess \/ Crash \/ Start

Spec == Init /\ [][Next]_vars

-----------------------------------------------------------------------------
(* Properties *)

\* Types, and the table is within its bound.
TypeOK ==
  /\ disk \in Seq(Ids \cup {NL, Nul} \cup UNION {{n[k] : k \in DOMAIN n} : n \in AllNames})
  /\ up \in BOOLEAN /\ opened \in BOOLEAN /\ unsaved \in BOOLEAN /\ torn \in BOOLEAN
  /\ Len(table) <= MaxProfiles
  /\ \A k \in DOMAIN table : table[k].id \in Ids
  /\ pos \in Nat /\ line \in [Threads -> Nat] /\ flen \in [Threads -> Nat]
  /\ pc["main"] \in {"idle", "rewind", "print", "tell", "truncate", "answer", "ended"}
  /\ pc["initial"] \in {"poll", "rewind", "print", "tell", "truncate",
                        "join", "exit", "close"}
  /\ after \in {"join", "exit", "close"}
  /\ promised \in [Ids -> SUBSET AllNames] /\ overlap \in {"none", "mixed", "mending"}

\* Once a client was told that a profile was updated, the file shows it under
\* the name it was given, or a name given to it since: whenever the process is
\* killed, in the middle of a flush too, the next start finds it. This is what
\* writing in place and cutting afterwards (kt_app_face_db.c:159-172) is for.
\* It is void from a moment on when a flush begins during another one, for
\* nothing locks the stream, or the process is killed with part of a text
\* written that is larger than the buffer of the stream.
Durable ==
  LET found == Load(disk)
  IN ~InPieces => \A id \in Ids : promised[id] # {} =>
                    Has(found, id) /\ NameOf(found, id) \in promised[id]

\* Between flushes the file is the table, but for profiles added since: a
\* start would load exactly it (kt_app_face_db.c:42-55, 151-176). Flushes that
\* overlapped are excepted until the next one that does not.
FileMatchesTable ==
  (up /\ opened /\ ~unsaved /\ overlap = "none" /\ \A t \in Threads : ~Flushing(t))
    => Load(disk) = table

\* No id has two profiles, of which only the first is ever renamed, unless the
\* process once ended in the middle of a flush, or with flushes that had
\* overlapped, and what they left was read as more profiles.
UniqueProfiles ==
  ~torn => \A j, k \in DOMAIN table : table[j].id = table[k].id => j = k

=============================================================================
