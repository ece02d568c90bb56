------------------------------ MODULE FacePage ------------------------------
(***************************************************************************)
(* The faces on the kt_viz page (script.js): the Register button with its  *)
(* dialog, the poll of the live detection once a second, and the dropdown  *)
(* of the registered profiles. Handlers run to their end, one at a time;   *)
(* between two of them requests are served, answers come in any order and  *)
(* timers expire.                                                          *)
(*                                                                         *)
(* Of the server there is the table of profiles that kt_app keeps. That a  *)
(* list of profiles is a table of some moment, or an error, is what        *)
(* VizServer is about. alert() stops the page until it is dismissed, which *)
(* the order of the steps, being free, allows for.                         *)
(***************************************************************************)
EXTENDS Integers, Sequences, FiniteSets

CONSTANTS
  Ids,            \* face ids the server can generate; 0 is one like others
  Names, Default, \* names that are typed, and the one a new profile has
  Tables,         \* profiles registered when the page is loaded
  Gens, Saves,    \* slots for generations and for clicks on OK
  NoDialog        \* the dialog is closed

VARIABLES
  \* the server
  table,          \* sequence of profiles [face_id, name], oldest first
  \* the page
  polling,        \* dataUpdateInterval is set
  disabled, busy, \* of the Register button
  gen,            \* [Gens -> a request for a generation, or its answer]
  dialog,         \* the face id that the dialog is open for
  save,           \* [Saves -> a click on OK: its request and its 1.5 s timer]
  open, loaded,   \* the dropdown
  listing,        \* the request for the profiles, _fetchInFlight
  panel,          \* which of loader, empty and list is displayed
  cards, count,   \* the cards, and the number on the badge
  active,         \* _activeFaceIds
  \* histories
  saved,          \* ids with a name that was saved since they were enrolled
  missed,         \* a name was saved after the last refresh meant for it, or
                  \* there was none that succeeded
  crossed         \* a save was under way when the dialog was opened

button   == <<disabled, busy>>
dropdown == <<open, loaded>>
cardView == <<panel, cards, count>>
history  == <<saved, missed, crossed>>
vars     == <<table, polling, button, gen, dialog, save, dropdown, listing, cardView,
              active, history>>

Profile == [face_id : Ids, name : Names \cup {Default}]
NoSave  == [stage |-> "none", face_id |-> NoDialog, name |-> Default, timer |-> FALSE]

NoGen   == [stage |-> "none", face_id |-> 0]
NoList  == [stage |-> "none", profiles |-> <<>>]
Asked   == [stage |-> "asked", profiles |-> <<>>]

UnderWay(s) == save[s].stage # "none"

ASSUME FacePageAssumption == Tables \subseteq Seq(Profile)

-----------------------------------------------------------------------------
(* The table of kt_app *)

Entries(t, id) == {i \in DOMAIN t : t[i].face_id = id}
First(t, id)   == CHOOSE i \in Entries(t, id) : \A j \in Entries(t, id) : i <= j
IsIn(t, id)    == Entries(t, id) # {}

Renamed(t, id, name) == IF IsIn(t, id) THEN [t EXCEPT ![First(t, id)].name = name] ELSE t

\* A face that has a profile gets a new one in its place
Enrolled(t, id) ==
  IF IsIn(t, id) THEN Renamed(t, id, Default) ELSE Append(t, [face_id |-> id, name |-> Default])

-----------------------------------------------------------------------------
(* Cards *)

Seen(profiles, i) == \E j \in 1 .. i - 1 : profiles[j].face_id = profiles[i].face_id

Card(p) == [face_id |-> p.face_id, name |-> p.name, active |-> p.face_id \in active]

Mark(cs, ids) == [i \in DOMAIN cs |-> [cs[i] EXCEPT !.active = cs[i].face_id \in ids]]

\* every profile gets a card
Cards_repeated(profiles) == [i \in DOMAIN profiles |-> Card(profiles[i])]

\* Which of the kept profiles the one at i is
Place(kept, i) == Cardinality({j \in kept : j <= i})

\* The first profile of each id
Cards(profiles) ==
  LET kept == {i \in DOMAIN profiles : ~Seen(profiles, i)}
  IN  [k \in 1 .. Cardinality(kept) |->
         Card(profiles[CHOOSE i \in kept : Place(kept, i) = k])]

-----------------------------------------------------------------------------
(* Polls *)

\* After 1.5 s the loading overlay goes away and the polls begin
switchToLiveStreaming ==
  /\ ~polling /\ polling' = TRUE
  /\ UNCHANGED <<table, button, gen, dialog, save, dropdown, listing, cardView, active, history>>

\* the button is set whatever it is busy with
updateDashboard_busyToo(id, canRegister) ==
  /\ polling
  /\ disabled' = ~canRegister
  /\ active' = {id} \ {0}
  /\ cards' = Mark(cards, active')
  /\ UNCHANGED <<table, polling, busy, gen, dialog, save, dropdown, listing, panel, count,
                 history>>

\* The answer is what the camera sees, whenever it was asked for
updateDashboard(id, canRegister) ==
  /\ polling
  /\ disabled' = IF busy THEN disabled ELSE ~canRegister
  /\ active' = {id} \ {0}
  /\ cards' = Mark(cards, active')
  /\ UNCHANGED <<table, polling, busy, gen, dialog, save, dropdown, listing, panel, count,
                 history>>

\* live_detection: somebody can register who is not known and stands well
Poll == \E id \in Ids \cup {0} : \E canRegister \in {id = 0, FALSE} :
          updateDashboard(id, canRegister)

-----------------------------------------------------------------------------
(* The Register button *)

ClickRegister(g) ==
  /\ gen[g] = NoGen /\ ~disabled
  /\ busy' = TRUE /\ disabled' = TRUE
  /\ gen' = [gen EXCEPT ![g].stage = "asked"]
  /\ UNCHANGED <<table, polling, dialog, save, dropdown, listing, cardView, active, history>>

generate_face_id(g) ==
  /\ gen[g].stage = "asked"
  /\ \E id \in Ids :
       /\ table' = Enrolled(table, id)
       /\ saved' = saved \ {id}
       /\ gen' = [gen EXCEPT ![g] = [stage |-> "done", face_id |-> id]]
  /\ UNCHANGED <<polling, button, dialog, save, dropdown, listing, cardView, active, missed,
                 crossed>>

\* Whatever the answer, the button can be clicked until a poll disables it
EndGeneration(g) ==
  /\ gen' = [gen EXCEPT ![g] = NoGen]
  /\ busy' = FALSE /\ disabled' = FALSE
  /\ UNCHANGED <<table, polling, save, dropdown, listing, cardView, active, saved, missed>>

GenerateAnswered(g) ==
  /\ gen[g].stage = "done"
  /\ EndGeneration(g)
  /\ dialog' = gen[g].face_id
  /\ crossed' = \E s \in Saves : UnderWay(s)

\* The server reports an error or the network fails, before a face was
\* enrolled or after
GenerateFails(g) ==
  /\ gen[g] # NoGen
  /\ EndGeneration(g)
  /\ UNCHANGED <<dialog, crossed>>

-----------------------------------------------------------------------------
(* The dialog *)

\* Cancel, Escape, or a click beside the dialog
closeModal ==
  /\ dialog # NoDialog /\ dialog' = NoDialog
  /\ UNCHANGED <<table, polling, button, gen, save, dropdown, listing, cardView, active, history>>

\* OK has two listeners: one saves, unless the id is 0, and the other starts
\* a timer
ClickOk(s, name) ==
  /\ dialog # NoDialog /\ save[s] = NoSave
  /\ IF dialog = 0
     THEN /\ dialog' = NoDialog
          /\ save' = [save EXCEPT ![s].timer = TRUE]
     ELSE /\ save' = [save EXCEPT ![s] =
                        [stage |-> "asked", face_id |-> dialog, name |-> name, timer |-> TRUE]]
          /\ UNCHANGED dialog
  /\ UNCHANGED <<table, polling, button, gen, dropdown, listing, cardView, active, history>>

\* The request is over; its timer may be still to come
ForgetSave(s) == save' = [save EXCEPT ![s] = [NoSave EXCEPT !.timer = save[s].timer]]

update_face_id(s) ==
  /\ save[s].stage = "asked"
  /\ save' = [save EXCEPT ![s].stage = "done"]
  /\ table' = Renamed(table, save[s].face_id, save[s].name)
  /\ saved' = saved \cup {save[s].face_id}
  /\ missed' = (missed \/ ~save[s].timer)
  /\ UNCHANGED <<polling, button, gen, dialog, dropdown, listing, cardView, active, crossed>>

SaveAnswered(s) ==
  /\ save[s].stage = "done"
  /\ ForgetSave(s)
  /\ dialog' = NoDialog
  /\ UNCHANGED <<table, polling, button, gen, dropdown, listing, cardView, active, history>>

\* the dialog is closed before it is known whether the name was saved
SaveFails_closes(s) ==
  /\ UnderWay(s)
  /\ ForgetSave(s)
  /\ dialog' = NoDialog
  /\ UNCHANGED <<table, polling, button, gen, dropdown, listing, cardView, active, history>>

\* Before the name was saved or after; the dialog stays, for another try
SaveFails(s) ==
  /\ UnderWay(s)
  /\ ForgetSave(s)
  /\ UNCHANGED <<table, polling, button, gen, dialog, dropdown, listing, cardView, active, history>>

-----------------------------------------------------------------------------
(* The dropdown *)

\* While a request is under way there is no other. What it brings can be too
\* old for the one who wanted a refresh, if the server has answered it.
fetchProfiles ==
  IF listing = NoList
  THEN /\ listing' = Asked
       /\ panel' = "loader" /\ cards' = <<>>
       /\ UNCHANGED <<count, missed>>
  ELSE /\ missed' = (missed \/ listing # Asked)
       /\ UNCHANGED <<listing, cardView>>

\* get_face_profiles, see VizServer
get_face_profiles ==
  /\ listing = Asked
  /\ listing' = [stage |-> "done", profiles |-> table]
  /\ missed' = FALSE
  /\ UNCHANGED <<table, polling, button, gen, dialog, save, dropdown, cardView, active, saved,
                 crossed>>

\* the list is displayed in any case
ShowProfiles_noReturn(cs) ==
  /\ cards' = cs /\ count' = Len(cs)
  /\ panel' = "list"

ShowProfiles(cs) ==
  /\ cards' = cs /\ count' = Len(cs)
  /\ panel' = IF cs = <<>> THEN "empty" ELSE "list"

ProfilesAnswered ==
  /\ listing.stage = "done"
  /\ ShowProfiles(Cards(listing.profiles))
  /\ listing' = NoList
  /\ UNCHANGED <<table, polling, button, gen, dialog, save, dropdown, active, history>>

\* An error of the server has no profiles and is taken for a table without
\* any; an answer that is none does not reach the badge
ProfilesFail ==
  /\ listing # NoList
  /\ \/ ShowProfiles(<<>>)
     \/ panel' = "empty" /\ UNCHANGED <<cards, count>>
  /\ listing' = NoList
  /\ missed' = TRUE
  /\ UNCHANGED <<table, polling, button, gen, dialog, save, dropdown, active, saved, crossed>>

ClickToggle ==
  /\ open' = ~open
  /\ IF open' /\ ~loaded
     THEN loaded' = TRUE /\ fetchProfiles
     ELSE UNCHANGED <<loaded, listing, cardView, missed>>
  /\ UNCHANGED <<table, polling, button, gen, dialog, save, active, saved, crossed>>

\* a closed dropdown is not told
RefreshTimer_openOnly(s) ==
  /\ save[s].timer
  /\ save' = [save EXCEPT ![s].timer = FALSE]
  /\ IF open THEN fetchProfiles ELSE UNCHANGED <<listing, cardView, missed>>
  /\ UNCHANGED <<table, polling, button, gen, dialog, dropdown, active, saved, crossed>>

\* 1.5 s after a click on OK, whatever has become of the save
RefreshTimer(s) ==
  /\ save[s].timer
  /\ save' = [save EXCEPT ![s].timer = FALSE]
  /\ IF open
     THEN fetchProfiles /\ UNCHANGED loaded
     ELSE loaded' = FALSE /\ UNCHANGED <<listing, cardView, missed>>
  /\ UNCHANGED <<table, polling, button, gen, dialog, open, active, saved, crossed>>

-----------------------------------------------------------------------------

Init ==
  /\ table \in Tables
  /\ polling = FALSE /\ disabled = TRUE /\ busy = FALSE
  /\ gen = [g \in Gens |-> NoGen]
  /\ dialog = NoDialog
  /\ save = [s \in Saves |-> NoSave]
  /\ open = FALSE /\ loaded = FALSE
  /\ listing = NoList
  /\ panel = "loader" /\ cards = <<>> /\ count = 0
  /\ active = {}
  /\ saved = {} /\ missed = FALSE /\ crossed = FALSE

Click ==
  \/ \E g \in Gens : ClickRegister(g)
  \/ \E s \in Saves, name \in Names : ClickOk(s, name)
  \/ closeModal \/ ClickToggle

Generation(g) == generate_face_id(g) \/ GenerateAnswered(g) \/ GenerateFails(g)
Saving(s)     == update_face_id(s) \/ SaveAnswered(s) \/ SaveFails(s)
Listing       == get_face_profiles \/ ProfilesAnswered \/ ProfilesFail

Next ==
  \/ Click \/ switchToLiveStreaming \/ Poll
  \/ \E g \in Gens : Generation(g)
  \/ \E s \in Saves : Saving(s) \/ RefreshTimer(s)
  \/ Listing

Spec == Init /\ [][Next]_vars

-----------------------------------------------------------------------------
(* Properties *)

\* Types; the list is displayed only with cards.
TypeOK ==
  /\ table \in Seq(Profile)
  /\ {polling, disabled, busy, open, loaded, missed, crossed} \subseteq BOOLEAN
  /\ gen \in [Gens -> [stage : {"none", "asked", "done"}, face_id : Ids \cup {0}]]
  /\ dialog \in Ids \cup {NoDialog}
  /\ \A s \in Saves :
       /\ save[s].stage \in {"none", "asked", "done"} /\ save[s].timer \in BOOLEAN
       /\ UnderWay(s) => save[s].face_id \in Ids /\ save[s].name \in Names
  /\ listing.stage \in {"none", "asked", "done"} /\ listing.profiles \in Seq(Profile)
  /\ panel \in {"loader", "empty", "list"}
  /\ panel = "list" <=> cards # <<>>
  /\ count \in Nat /\ active \subseteq Ids /\ saved \subseteq Ids

\* There is one generation at a time, although every poll sets the button, too
\* (script.js:164-166): a second one would overwrite the first in kt_app's
\* mailbox, see IpcServer. And however it ends, the button is free again.
OneGeneration == Cardinality({g \in Gens : gen[g] # NoGen}) = IF busy THEN 1 ELSE 0

\* A list and a poll may be answered in either order: each profile has one
\* card, and the marked ones are those of the last poll. An open dropdown says
\* that it is loading just while it is, and the badge counts the cards unless
\* the last refresh has failed.
CardsAgree ==
  /\ \A i, j \in DOMAIN cards : cards[i].face_id = cards[j].face_id => i = j
  /\ \A i \in DOMAIN cards : cards[i].active <=> cards[i].face_id \in active
  /\ open => (panel = "loader" <=> listing # NoList)
  /\ listing = NoList /\ ~missed /\ panel # "loader" => count = Len(cards)

\* What was saved is on its card when the dropdown is open and no refresh is
\* due: the refresh is timed, and not tied to the answer of the save
\* (script.js:825-833), so a save that takes longer is missed, as is one whose
\* refresh failed.
SavedIsShown ==
  open /\ listing = NoList /\ ~missed /\ (\A s \in Saves : ~save[s].timer) =>
    \A id \in saved : \E i \in DOMAIN cards :
      cards[i].face_id = id /\ cards[i].name = table[First(table, id)].name

\* The dialog closes by itself only when the name for the id it shows was
\* saved. A save that was under way when the dialog was opened closes it, too
\* (script.js:581).
ClosedByOwnSave ==
  [][\A s \in Saves :
       dialog # NoDialog /\ dialog' = NoDialog /\ UnderWay(s) /\ save'[s].stage = "none"
         => crossed \/ (save[s].stage = "done" /\ save[s].face_id = dialog)]_vars

=============================================================================
