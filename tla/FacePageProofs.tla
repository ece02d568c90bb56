--------------------------- MODULE FacePageProofs ---------------------------
(***************************************************************************)
(* For every number of requests that could be under way, and whatever ids, *)
(* names and tables there are: the types, one generation at a time, a      *)
(* dialog that is only closed by its own save, cards that agree with each  *)
(* other and with the poll, and saves that are shown.                      *)
(*                                                                         *)
(* The last one rests on two facts that no property states: the ids that   *)
(* the page works with are in the table (KnownInv), and a list that is     *)
(* loaded is not older than the last save unless a refresh is due, be it   *)
(* displayed or still under way (ListInv).                                 *)
(***************************************************************************)
EXTENDS FacePage, FiniteSetTheorems, SequenceTheorems, TLAPS

Generating == {g \in Gens : gen[g] # NoGen}

GenType ==
  /\ gen \in [Gens -> [stage : {"none", "asked", "done"}, face_id : Ids \cup {0}]]
  /\ disabled \in BOOLEAN /\ busy \in BOOLEAN

\* Who is busy cannot be clicked, which a poll must not change.
Alone ==
  /\ busy => disabled /\ \E g \in Gens : Generating = {g}
  /\ ~busy => Generating = {}

GenInv == GenType /\ Alone

LEMMA InitGen == Init => GenInv
<1> SUFFICES ASSUME Init PROVE GenInv
  OBVIOUS
<1>1. gen = [g \in Gens |-> NoGen] /\ disabled = TRUE /\ busy = FALSE
  BY DEF Init
<1>2. Generating = {}
  BY <1>1 DEF Generating
<1>3. NoGen \in [stage : {"none", "asked", "done"}, face_id : Ids \cup {0}]
  BY DEF NoGen
<1>4. GenType
  BY <1>1, <1>3 DEF GenType
<1> QED
  BY <1>1, <1>2, <1>4 DEF GenInv, Alone

\* What has nothing to do with a generation
LEMMA OthersGen ==
  ASSUME GenInv, UNCHANGED <<gen, busy, disabled>>
  PROVE  GenInv'
  BY DEF GenInv, GenType, Alone, Generating

\* A poll sets the button unless it is busy.
LEMMA PollGen ==
  ASSUME GenInv, Poll
  PROVE  GenInv'
<1>1. PICK id \in Ids \cup {0} : \E canRegister \in {id = 0, FALSE} :
             updateDashboard(id, canRegister)
  BY DEF Poll
<1>2. PICK canRegister \in {id = 0, FALSE} : updateDashboard(id, canRegister)
  BY <1>1
<1>3. UNCHANGED <<gen, busy>> /\ disabled' = IF busy THEN disabled ELSE ~canRegister
  BY <1>2 DEF updateDashboard
<1>4. disabled' \in BOOLEAN
  BY <1>3 DEF GenInv, GenType
<1> QED
  BY <1>3, <1>4 DEF GenInv, GenType, Alone, Generating

LEMMA ClickGen ==
  ASSUME GenInv, NEW g \in Gens, ClickRegister(g)
  PROVE  GenInv'
<1>1. /\ ~disabled /\ busy' = TRUE /\ disabled' = TRUE
      /\ gen' = [gen EXCEPT ![g].stage = "asked"]
  BY DEF ClickRegister
<1>2. Generating = {}
  BY <1>1 DEF GenInv, Alone
<1>3. GenType'
  BY <1>1 DEF GenInv, GenType
<1>4. Generating' = {g}
  BY <1>1, <1>2 DEF Generating, GenInv, GenType, NoGen
<1> QED
  BY <1>1, <1>3, <1>4 DEF GenInv, Alone

LEMMA ServeGen ==
  ASSUME GenInv, NEW g \in Gens, generate_face_id(g)
  PROVE  GenInv'
<1>1. PICK id \in Ids : gen' = [gen EXCEPT ![g] = [stage |-> "done", face_id |-> id]]
  BY DEF generate_face_id
<1>2. gen[g].stage = "asked" /\ UNCHANGED <<busy, disabled>>
  BY DEF generate_face_id, button
<1>3. GenType'
  BY <1>1, <1>2 DEF GenInv, GenType
<1>4. Generating' = Generating
  BY <1>1, <1>2 DEF Generating, GenInv, GenType, NoGen
<1> QED
  BY <1>2, <1>3, <1>4 DEF GenInv, Alone

\* However a generation ends, there is none left.
LEMMA EndGen ==
  ASSUME GenInv, NEW g \in Gens, gen[g] # NoGen, EndGeneration(g)
  PROVE  GenInv'
<1>1. gen' = [gen EXCEPT ![g] = NoGen] /\ busy' = FALSE /\ disabled' = FALSE
  BY DEF EndGeneration
<1>2. Generating = {g}
  BY DEF GenInv, Alone, Generating
<1>3. GenType'
  BY <1>1 DEF GenInv, GenType, NoGen
<1>4. Generating' = {}
  BY <1>1, <1>2 DEF Generating, GenInv, GenType
<1> QED
  BY <1>1, <1>3, <1>4 DEF GenInv, Alone

LEMMA NextGen == GenInv /\ [Next]_vars => GenInv'
<1> SUFFICES ASSUME GenInv, [Next]_vars PROVE GenInv'
  OBVIOUS
<1>1. CASE UNCHANGED vars
  BY <1>1, OthersGen DEF vars, button
<1>2. ASSUME NEW g \in Gens, ClickRegister(g) PROVE GenInv'
  BY <1>2, ClickGen
<1>3. ASSUME NEW s \in Saves, NEW name \in Names, ClickOk(s, name) PROVE GenInv'
  BY <1>3, OthersGen DEF ClickOk, button
<1>4. CASE closeModal \/ ClickToggle \/ switchToLiveStreaming
  BY <1>4, OthersGen DEF closeModal, ClickToggle, switchToLiveStreaming, button
<1>5. CASE Poll
  BY <1>5, PollGen
<1>6. ASSUME NEW g \in Gens, Generation(g) PROVE GenInv'
  <2>1. CASE generate_face_id(g)
    BY <2>1, ServeGen
  <2>2. CASE GenerateAnswered(g)
    BY <2>2, EndGen DEF GenerateAnswered, NoGen
  <2>3. CASE GenerateFails(g)
    BY <2>3, EndGen DEF GenerateFails
  <2> QED
    BY <1>6, <2>1, <2>2, <2>3 DEF Generation
<1>7. ASSUME NEW s \in Saves, Saving(s) \/ RefreshTimer(s) PROVE GenInv'
  BY <1>7, OthersGen DEF Saving, update_face_id, SaveAnswered, SaveFails, RefreshTimer, button
<1>8. CASE Listing
  BY <1>8, OthersGen DEF Listing, get_face_profiles, ProfilesAnswered, ProfilesFail, button
<1> QED
  BY <1>1, <1>2, <1>3, <1>4, <1>5, <1>6, <1>7, <1>8 DEF Next, Click

\* There is one generation at a time, although every poll sets the button, too,
\* and however it ends the button is free again.
THEOREM GeneratesOnce == Spec => []OneGeneration
<1>1. GenInv => OneGeneration
  <2> SUFFICES ASSUME GenInv PROVE OneGeneration
    OBVIOUS
  <2>1. CASE busy
    <3>1. PICK g \in Gens : Generating = {g}
      BY <2>1 DEF GenInv, Alone
    <3>2. Cardinality(Generating) = 1
      BY <3>1, FS_Singleton
    <3> QED
      BY <2>1, <3>2 DEF OneGeneration, Generating
  <2>2. CASE ~busy
    <3>1. Cardinality(Generating) = 0
      BY <2>2, FS_EmptySet DEF GenInv, Alone
    <3> QED
      BY <2>2, <3>1 DEF OneGeneration, Generating
  <2> QED
    BY <2>1, <2>2
<1> QED
  BY <1>1, InitGen, NextGen, PTL DEF Spec

-----------------------------------------------------------------------------
(* The dialog and the saves *)

SaveType ==
  save \in [Saves -> [stage : {"none", "asked", "done"}, face_id : Ids \cup {0, NoDialog},
                      name : Names \cup {Default}, timer : BOOLEAN]]

\* A save that is under way is for the dialog that is open, unless another was
\* opened meanwhile.
Own == \A s \in Saves : UnderWay(s) /\ dialog # NoDialog => crossed \/ save[s].face_id = dialog

DialogInv == SaveType /\ dialog \in Ids \cup {0, NoDialog} /\ Own

\* What DialogInv speaks of
dialogVars == <<dialog, save, crossed>>

\* A save that is over keeps its timer, and the others are what they were.
LEMMA ForgetType ==
  ASSUME DialogInv, NEW s \in Saves, ForgetSave(s)
  PROVE  SaveType' /\ save'[s].stage = "none" /\ \A u \in Saves \ {s} : save'[u] = save[u]
<1>1. [NoSave EXCEPT !.timer = save[s].timer]
        = [stage |-> "none", face_id |-> NoDialog, name |-> Default, timer |-> save[s].timer]
  BY DEF NoSave
<1>2. save' = [save EXCEPT ![s] = [stage |-> "none", face_id |-> NoDialog, name |-> Default,
                                   timer |-> save[s].timer]]
  BY <1>1 DEF ForgetSave
<1>3. save[s].timer \in BOOLEAN
  BY DEF DialogInv, SaveType
<1>4. SaveType'
  BY <1>2, <1>3 DEF DialogInv, SaveType
<1> QED
  BY <1>2, <1>4 DEF DialogInv, SaveType

\* What has nothing to do with the dialog
LEMMA OthersDialog ==
  ASSUME DialogInv, UNCHANGED dialogVars
  PROVE  DialogInv'
  BY DEF DialogInv, dialogVars, SaveType, Own, UnderWay

\* A dialog that closes has no save to be for.
LEMMA ClosedDialog ==
  ASSUME DialogInv, SaveType', dialog' = NoDialog
  PROVE  DialogInv'
  BY DEF DialogInv, Own

LEMMA ClickOkDialog ==
  ASSUME DialogInv, NEW s \in Saves, NEW name \in Names, ClickOk(s, name)
  PROVE  DialogInv'
<1>1. CASE dialog = 0
  <2>1. save' = [save EXCEPT ![s].timer = TRUE] /\ dialog' = NoDialog
    BY <1>1 DEF ClickOk
  <2>2. SaveType'
    BY <2>1 DEF DialogInv, SaveType
  <2> QED
    BY <2>1, <2>2, ClosedDialog
<1>2. CASE dialog # 0
  <2> DEFINE asked == [stage |-> "asked", face_id |-> dialog, name |-> name, timer |-> TRUE]
  <2>1. save' = [save EXCEPT ![s] = asked] /\ UNCHANGED <<dialog, crossed>>
    BY <1>2 DEF ClickOk, history
  <2>2. asked \in [stage : {"none", "asked", "done"}, face_id : Ids \cup {0, NoDialog},
                   name : Names \cup {Default}, timer : BOOLEAN]
    BY DEF DialogInv
  <2>3. SaveType'
    BY <2>1, <2>2 DEF DialogInv, SaveType
  <2>4. save'[s].face_id = dialog /\ \A u \in Saves \ {s} : save'[u] = save[u]
    BY <2>1, <2>2 DEF DialogInv, SaveType
  <2> QED
    BY <2>1, <2>3, <2>4 DEF DialogInv, Own, UnderWay
<1> QED
  BY <1>1, <1>2

\* The dialog of a new face is open together with saves only if crossed says so.
LEMMA AnsweredDialog ==
  ASSUME DialogInv, GenType, NEW g \in Gens, GenerateAnswered(g)
  PROVE  DialogInv'
<1>1. /\ dialog' = gen[g].face_id /\ crossed' = (\E s \in Saves : UnderWay(s))
      /\ UNCHANGED save
  BY DEF GenerateAnswered, EndGeneration
<1>2. dialog' \in Ids \cup {0}
  BY <1>1 DEF GenType
<1>3. SaveType' /\ Own'
  BY <1>1 DEF DialogInv, SaveType, Own, UnderWay
<1> QED
  BY <1>2, <1>3 DEF DialogInv

LEMMA ServedDialog ==
  ASSUME DialogInv, NEW s \in Saves, update_face_id(s)
  PROVE  DialogInv'
<1>1. /\ save[s].stage = "asked" /\ save' = [save EXCEPT ![s].stage = "done"]
      /\ UNCHANGED <<dialog, crossed>>
  BY DEF update_face_id
<1>2. SaveType'
  BY <1>1 DEF DialogInv, SaveType
<1>3. \A u \in Saves : save'[u].face_id = save[u].face_id /\ (UnderWay(u)' => UnderWay(u))
  BY <1>1 DEF DialogInv, SaveType, UnderWay
<1> QED
  BY <1>1, <1>2, <1>3 DEF DialogInv, Own

LEMMA FailedDialog ==
  ASSUME DialogInv, NEW s \in Saves, SaveFails(s)
  PROVE  DialogInv'
<1>1. ForgetSave(s) /\ UNCHANGED <<dialog, crossed>>
  BY DEF SaveFails, history
<1> QED
  BY <1>1, ForgetType DEF DialogInv, Own, UnderWay

LEMMA TimerDialog ==
  ASSUME DialogInv, NEW s \in Saves, RefreshTimer(s)
  PROVE  DialogInv'
<1>1. save' = [save EXCEPT ![s].timer = FALSE] /\ UNCHANGED <<dialog, crossed>>
  BY DEF RefreshTimer
<1>2. SaveType'
  BY <1>1 DEF DialogInv, SaveType
<1>3. \A u \in Saves : save'[u].face_id = save[u].face_id /\ save'[u].stage = save[u].stage
  BY <1>1 DEF DialogInv, SaveType
<1> QED
  BY <1>1, <1>2, <1>3 DEF DialogInv, Own, UnderWay

\* The steps that change neither the dialog nor a save
Aside ==
  \/ \E g \in Gens : ClickRegister(g) \/ generate_face_id(g) \/ GenerateFails(g)
  \/ ClickToggle \/ switchToLiveStreaming \/ Poll \/ Listing

LEMMA AsideDialog == Aside => UNCHANGED dialogVars
  BY DEF Aside, ClickRegister, generate_face_id, GenerateFails, EndGeneration, ClickToggle,
         switchToLiveStreaming, Poll, updateDashboard, Listing, get_face_profiles,
         ProfilesAnswered, ProfilesFail, history, dialogVars

LEMMA NextDialog == GenInv /\ DialogInv /\ [Next]_vars => DialogInv'
<1> SUFFICES ASSUME GenInv, DialogInv, [Next]_vars PROVE DialogInv'
  OBVIOUS
<1>1. CASE UNCHANGED vars \/ Aside
  BY <1>1, AsideDialog, OthersDialog DEF vars, history, dialogVars
<1>2. ASSUME NEW s \in Saves, NEW name \in Names, ClickOk(s, name) PROVE DialogInv'
  BY <1>2, ClickOkDialog
<1>3. CASE closeModal
  BY <1>3, ClosedDialog DEF closeModal, DialogInv, SaveType
<1>4. ASSUME NEW g \in Gens, GenerateAnswered(g) PROVE DialogInv'
  BY <1>4, AnsweredDialog DEF GenInv
<1>5. ASSUME NEW s \in Saves, Saving(s) \/ RefreshTimer(s) PROVE DialogInv'
  <2>1. CASE SaveAnswered(s)
    BY <2>1, ForgetType, ClosedDialog DEF SaveAnswered
  <2> QED
    BY <1>5, <2>1, ServedDialog, FailedDialog, TimerDialog DEF Saving
<1> QED
  BY <1>1, <1>2, <1>3, <1>4, <1>5 DEF Next, Click, Generation, Aside

\* Only the answer to a save closes the dialog and ends a save in one step.
LEMMA StepCloses ==
  ASSUME GenInv, DialogInv, [Next]_vars, NEW s \in Saves,
         dialog # NoDialog, dialog' = NoDialog, UnderWay(s), save'[s].stage = "none"
  PROVE  crossed \/ (save[s].stage = "done" /\ save[s].face_id = dialog)
<1>1. PICK u \in Saves : SaveAnswered(u)
  <2>1. ~(UNCHANGED vars \/ Aside)
    BY AsideDialog DEF vars, history, dialogVars
  <2>2. ~closeModal
    BY DEF closeModal, UnderWay
  <2>3. ASSUME NEW u \in Saves, NEW name \in Names, ClickOk(u, name) PROVE FALSE
    <3>1. dialog = 0 /\ save' = [save EXCEPT ![u].timer = TRUE]
      BY <2>3 DEF ClickOk
    <3>2. save'[s].stage = save[s].stage
      BY <3>1 DEF DialogInv, SaveType
    <3> QED
      BY <3>2 DEF UnderWay
  <2>4. ASSUME NEW g \in Gens, GenerateAnswered(g) PROVE FALSE
    BY <2>4 DEF GenerateAnswered, EndGeneration, UnderWay
  <2>5. ASSUME NEW u \in Saves, update_face_id(u) \/ SaveFails(u) \/ RefreshTimer(u)
        PROVE  FALSE
    BY <2>5 DEF update_face_id, SaveFails, RefreshTimer
  <2> QED
    BY <2>1, <2>2, <2>3, <2>4, <2>5 DEF Next, Click, Generation, Saving, Aside
<1>2. u = s
  BY <1>1, ForgetType DEF SaveAnswered, UnderWay
<1> QED
  BY <1>1, <1>2 DEF SaveAnswered, DialogInv, Own

\* The dialog closes by itself only when the name for the id it shows was
\* saved, unless it was opened while a save was under way.
THEOREM ClosesOwn == Spec => ClosedByOwnSave
<1>1. Init => DialogInv
  BY DEF Init, DialogInv, SaveType, Own, UnderWay, NoSave
<1>2. GenInv /\ DialogInv /\ [Next]_vars =>
        [\A s \in Saves :
           dialog # NoDialog /\ dialog' = NoDialog /\ UnderWay(s) /\ save'[s].stage = "none"
             => crossed \/ (save[s].stage = "done" /\ save[s].face_id = dialog)]_vars
  BY StepCloses
<1> QED
  BY <1>1, <1>2, InitGen, NextGen, NextDialog, PTL DEF Spec, ClosedByOwnSave

-----------------------------------------------------------------------------
(* Numbers and sequences *)

\* A set of natural numbers that is not empty has a least element.
LEMMA Least ==
  ASSUME NEW T \in SUBSET Nat, T # {}
  PROVE  \E x \in T : \A y \in T : x <= y
<1> DEFINE F == {1 .. n : n \in T}
           R == StrictSubsetOrdering(Nat)
<1>1. F \subseteq FiniteSubsetsOf(Nat) /\ F # {}
  <2>1. \A n \in T : 1 .. n \in SUBSET Nat /\ IsFiniteSet(1 .. n)
    BY FS_Interval
  <2> QED
    BY <2>1 DEF FiniteSubsetsOf
<1>2. IsWellFoundedOn(R, FiniteSubsetsOf(Nat))
  BY FS_StrictSubsetOrderingWellFounded
<1> HIDE DEF F, R
<1>3. PICK s \in F : \A t \in F : ~ (<<t, s>> \in R)
  BY <1>1, <1>2, WFMin
<1>4. PICK x \in T : s = 1 .. x
  BY DEF F
<1>5. ASSUME NEW y \in T, y < x
      PROVE  FALSE
  <2>1. 1 .. y \in F
    BY DEF F
  <2>2. 1 .. y \in SUBSET Nat /\ 1 .. x \in SUBSET Nat /\ 1 .. y \subseteq 1 .. x
    BY <1>5
  <2>3. x \in 1 .. x /\ x \notin 1 .. y
    BY <1>5
  <2>4. <<1 .. y, 1 .. x>> \in R
    BY <2>2, <2>3 DEF R, StrictSubsetOrdering
  <2> QED
    BY <1>3, <1>4, <2>1, <2>4
<1> QED
  BY <1>5

\* A function on 1 .. n is a sequence.
LEMMA FunSeq ==
  ASSUME NEW T, NEW n \in Nat, NEW g \in [1 .. n -> T]
  PROVE  g \in Seq(T) /\ Len(g) = n
<1>1. g \in Seq(T)
  BY SeqDef
<1>2. DOMAIN g = 1 .. n /\ DOMAIN g = 1 .. Len(g) /\ Len(g) \in Nat
  BY <1>1, LenProperties
<1> QED
  BY <1>1, <1>2

-----------------------------------------------------------------------------
(* The cards *)

\* A later profile has a later place.
LEMMA Counted ==
  ASSUME NEW S \in SUBSET Nat, IsFiniteSet(S)
  PROVE  /\ Cardinality(S) \in Nat
         /\ \A k \in Nat : Place(S, k) \in Nat /\ Place(S, k) <= Cardinality(S)
         /\ \A j, k \in Nat : j < k /\ k \in S => Place(S, j) < Place(S, k)
         /\ \A k \in S : Place(S, k) >= 1
<1> DEFINE U(k) == {j \in S : j <= k}
<1>1. ASSUME NEW k \in Nat
      PROVE  IsFiniteSet(U(k)) /\ Cardinality(U(k)) \in Nat /\ Cardinality(U(k)) <= Cardinality(S)
  <2>1. U(k) \in SUBSET S
    OBVIOUS
  <2> HIDE DEF U
  <2> QED
    BY <2>1, FS_Subset, FS_CardinalityType
<1>2. ASSUME NEW j \in Nat, NEW k \in Nat, j < k, k \in S
      PROVE  Cardinality(U(j)) < Cardinality(U(k))
  <2>1. U(j) \in SUBSET U(k)
    <3> SUFFICES ASSUME NEW i \in S, i <= j PROVE i <= k
      OBVIOUS
    <3>1. i \in Nat
      OBVIOUS
    <3> QED
      BY <1>2, <3>1
  <2>2. k \in U(k) /\ k \notin U(j)
    BY <1>2
  <2> HIDE DEF U
  <2>3. Cardinality(U(j)) <= Cardinality(U(k)) /\ Cardinality(U(j)) # Cardinality(U(k))
    BY <1>1, <2>1, <2>2, FS_Subset
  <2> QED
    BY <1>1, <2>3
<1>3. ASSUME NEW k \in S
      PROVE  Cardinality(U(k)) >= 1
  <2>1. U(k) # {} /\ k \in Nat
    OBVIOUS
  <2> HIDE DEF U
  <2>2. Cardinality(U(k)) # 0
    BY <1>1, <2>1, FS_EmptySet
  <2> QED
    BY <1>1, <2>1, <2>2
<1> QED
  BY <1>1, <1>2, <1>3, FS_CardinalityType DEF Place

\* Every place up to the number of kept profiles is that of one.
LEMMA Numbered ==
  ASSUME NEW S \in SUBSET Nat, IsFiniteSet(S)
  PROVE  \A n \in 1 .. Cardinality(S) : \E k \in S : Place(S, k) = n
<1> DEFINE c == Cardinality(S)
           N == [k \in S |-> Place(S, k)]
<1>1. c \in Nat /\ \A k \in S : Place(S, k) \in 1 .. c
  BY Counted
<1>2. \A j, k \in S : Place(S, j) = Place(S, k) => j = k
  <2> SUFFICES ASSUME NEW j \in S, NEW k \in S, Place(S, j) = Place(S, k), j # k
               PROVE  FALSE
    OBVIOUS
  <2>1. j \in Nat /\ k \in Nat /\ (j < k \/ k < j)
    OBVIOUS
  <2>2. /\ Place(S, j) \in Nat /\ Place(S, k) \in Nat
        /\ (j < k => Place(S, j) < Place(S, k))
        /\ (k < j => Place(S, k) < Place(S, j))
    BY <2>1, Counted
  <2> QED
    BY <2>1, <2>2
<1> HIDE DEF c
<1>3. N \in Injection(S, 1 .. c)
  BY <1>1, <1>2 DEF Injection, IsInjective
<1>4. IsFiniteSet(1 .. c) /\ Cardinality(1 .. c) = c
  BY <1>1, FS_Interval
<1>5. N \in Surjection(S, 1 .. c)
  <2> HIDE DEF N
  <2> QED
    BY <1>3, <1>4, FS_Injection DEF c
<1> QED
  BY <1>5 DEF Surjection, c

CardSet == [face_id : Ids, name : Names \cup {Default}, active : BOOLEAN]

\* What the cards may be: one for each id, marked as the last poll said
Agree(cs) ==
  /\ cs \in Seq(CardSet)
  /\ \A i, j \in DOMAIN cs : cs[i].face_id = cs[j].face_id => i = j
  /\ \A i \in DOMAIN cs : cs[i].active <=> cs[i].face_id \in active

NameIn(t, id) == t[First(t, id)].name

\* The cards say of id what table t does.
Shows(cs, t, id) == \E i \in DOMAIN cs : cs[i].face_id = id /\ cs[i].name = NameIn(t, id)

LEMMA ProfileType ==
  ASSUME NEW t \in Seq(Profile)
  PROVE  /\ Len(t) \in Nat /\ DOMAIN t = 1 .. Len(t)
         /\ \A k \in 1 .. Len(t) : t[k] \in Profile
BY LenProperties, ElementOfSeq

LEMMA FirstIs ==
  ASSUME NEW t \in Seq(Profile), NEW id, IsIn(t, id)
  PROVE  /\ First(t, id) \in 1 .. Len(t) /\ t[First(t, id)].face_id = id
         /\ \A j \in 1 .. Len(t) : t[j].face_id = id => First(t, id) <= j
<1> DEFINE T == Entries(t, id)
<1>1. T = {i \in 1 .. Len(t) : t[i].face_id = id} /\ Len(t) \in Nat
  BY ProfileType DEF Entries
<1>2. T \in SUBSET Nat /\ T # {}
  BY <1>1 DEF IsIn
<1> HIDE DEF T
<1>3. \E x \in T : \A y \in T : x <= y
  BY <1>2, Least
<1>4. First(t, id) \in T /\ \A y \in T : First(t, id) <= y
  BY <1>3 DEF First, T
<1> QED
  BY <1>1, <1>4

\* The only first entry
LEMMA FirstOnly ==
  ASSUME NEW t \in Seq(Profile), NEW id, NEW x \in 1 .. Len(t), t[x].face_id = id,
         \A j \in 1 .. Len(t) : t[j].face_id = id => x <= j
  PROVE  IsIn(t, id) /\ First(t, id) = x
<1>1. DOMAIN t = 1 .. Len(t) /\ Len(t) \in Nat
  BY ProfileType
<1>2. IsIn(t, id)
  BY <1>1 DEF IsIn, Entries
<1>3. /\ First(t, id) \in 1 .. Len(t) /\ t[First(t, id)].face_id = id
      /\ \A j \in 1 .. Len(t) : t[j].face_id = id => First(t, id) <= j
  BY <1>2, FirstIs
<1>4. x <= First(t, id) /\ First(t, id) <= x
  BY <1>3
<1> QED
  BY <1>1, <1>2, <1>3, <1>4

\* Of the profiles of an id the first has a card, and the cards agree.
LEMMA CardsAre ==
  ASSUME NEW t \in Seq(Profile)
  PROVE  /\ Agree(Cards(t))
         /\ \A id : IsIn(t, id) => Shows(Cards(t), t, id)
<1> DEFINE K == {i \in DOMAIN t : ~Seen(t, i)}
           n == Cardinality(K)
           at(k) == CHOOSE i \in K : Place(K, i) = k
           cs == Cards(t)
<1>1. Len(t) \in Nat /\ DOMAIN t = 1 .. Len(t) /\ \A k \in 1 .. Len(t) : t[k] \in Profile
  BY ProfileType
<1>2. K \in SUBSET Nat /\ IsFiniteSet(K) /\ K \in SUBSET (1 .. Len(t))
  <2>1. K \in SUBSET (1 .. Len(t)) /\ IsFiniteSet(1 .. Len(t))
    BY <1>1, FS_Interval
  <2> HIDE DEF K
  <2>2. IsFiniteSet(K)
    BY <2>1, FS_Subset
  <2> QED
    BY <2>1, <2>2
<1>3. cs = [k \in 1 .. n |-> Card(t[at(k)])]
  BY DEF Cards
<1>4. ASSUME NEW i \in K, NEW j \in K, t[i].face_id = t[j].face_id
      PROVE  i = j
  <2>1. i \in 1 .. Len(t) /\ j \in 1 .. Len(t) /\ ~Seen(t, i) /\ ~Seen(t, j)
    BY <1>1
  <2>2. ~(i \in 1 .. j - 1) /\ ~(j \in 1 .. i - 1)
    BY <1>4, <2>1 DEF Seen
  <2> QED
    BY <1>1, <2>1, <2>2
<1>5. ASSUME NEW id, IsIn(t, id)
      PROVE  First(t, id) \in K
  <2>1. /\ First(t, id) \in 1 .. Len(t) /\ t[First(t, id)].face_id = id
        /\ \A j \in 1 .. Len(t) : t[j].face_id = id => First(t, id) <= j
    BY <1>5, FirstIs
  <2>2. ~Seen(t, First(t, id))
    <3> SUFFICES ASSUME NEW j \in 1 .. First(t, id) - 1, t[j].face_id = id PROVE FALSE
      BY <2>1 DEF Seen
    <3>1. j \in 1 .. Len(t) /\ ~(First(t, id) <= j)
      BY <1>1, <2>1
    <3> QED
      BY <2>1, <3>1
  <2> QED
    BY <1>1, <2>1, <2>2
<1> HIDE DEF K
<1>6. n \in Nat /\ \A i \in K : Place(K, i) \in 1 .. n
  BY <1>2, Counted
<1>7. \A k \in 1 .. n : at(k) \in K /\ Place(K, at(k)) = k
  <2>1. \A k \in 1 .. n : \E i \in K : Place(K, i) = k
    BY <1>2, Numbered
  <2> QED
    BY <2>1
<1>8. \A i \in K : at(Place(K, i)) = i
  <2> SUFFICES ASSUME NEW i \in K, at(Place(K, i)) # i PROVE FALSE
    OBVIOUS
  <2> DEFINE j == at(Place(K, i))
  <2>1. j \in K /\ Place(K, j) = Place(K, i) /\ j # i
    BY <1>6, <1>7
  <2> HIDE DEF j
  <2>2. i \in Nat /\ j \in Nat /\ (i < j \/ j < i)
    BY <1>2, <2>1
  <2>3. /\ Place(K, i) \in Nat
        /\ i < j => Place(K, i) < Place(K, j)
        /\ j < i => Place(K, j) < Place(K, i)
    BY <1>2, <2>1, <2>2, Counted
  <2> QED
    BY <2>1, <2>2, <2>3
<1> HIDE DEF n, at, cs
<1>9. \A k \in 1 .. n : at(k) \in K /\ t[at(k)] \in Profile
  BY <1>1, <1>2, <1>7
<1>10. \A k \in 1 .. n : Card(t[at(k)]) \in CardSet
  BY <1>9 DEF Card, CardSet, Profile
<1>11. cs \in Seq(CardSet) /\ Len(cs) = n /\ DOMAIN cs = 1 .. n
  <2>1. cs \in [1 .. n -> CardSet]
    BY <1>3, <1>10
  <2>2. n \in Nat
    BY <1>6
  <2> QED
    BY <2>1, <2>2, FunSeq
<1>12. \A k \in 1 .. n : /\ cs[k].face_id = t[at(k)].face_id
                         /\ cs[k].name = t[at(k)].name
                         /\ cs[k].active = (t[at(k)].face_id \in active)
  BY <1>3 DEF Card
<1>13. \A i, j \in 1 .. n : cs[i].face_id = cs[j].face_id => i = j
  <2> SUFFICES ASSUME NEW i \in 1 .. n, NEW j \in 1 .. n, cs[i].face_id = cs[j].face_id
               PROVE  i = j
    OBVIOUS
  <2>1. at(i) = at(j)
    BY <1>4, <1>9, <1>12
  <2> QED
    BY <1>7, <2>1
<1>14. Agree(cs)
  BY <1>11, <1>12, <1>13 DEF Agree
<1>15. ASSUME NEW id, IsIn(t, id)
       PROVE  Shows(cs, t, id)
  <2> DEFINE x == First(t, id)
             k == Place(K, x)
  <2>1. x \in K /\ t[x].face_id = id
    BY <1>5, <1>15, FirstIs
  <2> HIDE DEF x
  <2>2. k \in 1 .. n /\ at(k) = x
    BY <1>6, <1>8, <2>1
  <2> HIDE DEF k
  <2>3. cs[k].face_id = id /\ cs[k].name = t[x].name
    BY <1>12, <2>1, <2>2
  <2> QED
    BY <1>11, <2>2, <2>3 DEF Shows, NameIn, x
<1> QED
  BY <1>14, <1>15 DEF cs

\* A poll marks the cards anew.
LEMMA Marked ==
  ASSUME NEW ids, active' = ids, NEW cs, Agree(cs), NEW ms, ms = Mark(cs, ids)
  PROVE  /\ Agree(ms)' /\ Len(ms) = Len(cs)
         /\ ms = << >> <=> cs = << >>
         /\ \A t, id : Shows(cs, t, id) => Shows(ms, t, id)
<1>1. cs \in Seq(CardSet) /\ Len(cs) \in Nat /\ DOMAIN cs = 1 .. Len(cs)
      /\ \A k \in 1 .. Len(cs) : cs[k] \in CardSet
  BY LenProperties, ElementOfSeq DEF Agree
<1>2. ms = [i \in 1 .. Len(cs) |-> [cs[i] EXCEPT !.active = cs[i].face_id \in ids]]
  BY <1>1 DEF Mark
<1>3. \A i \in 1 .. Len(cs) : /\ ms[i] \in CardSet
                              /\ ms[i].face_id = cs[i].face_id /\ ms[i].name = cs[i].name
                              /\ ms[i].active = (cs[i].face_id \in ids)
  <2> SUFFICES ASSUME NEW i \in 1 .. Len(cs)
               PROVE  /\ ms[i] \in CardSet
                      /\ ms[i].face_id = cs[i].face_id /\ ms[i].name = cs[i].name
                      /\ ms[i].active = (cs[i].face_id \in ids)
    OBVIOUS
  <2>1. PICK b \in BOOLEAN : b = (cs[i].face_id \in ids)
    <3>1. CASE cs[i].face_id \in ids
      <4>1. TRUE = (cs[i].face_id \in ids)
        BY <3>1
      <4> QED
        BY <4>1
    <3>2. CASE cs[i].face_id \notin ids
      <4>1. FALSE = (cs[i].face_id \in ids)
        BY <3>2
      <4> QED
        BY <4>1
    <3> QED
      BY <3>1, <3>2
  <2>2. cs[i] \in CardSet
    BY <1>1
  <2>3. ms[i] = [cs[i] EXCEPT !.active = b]
    BY <1>2, <2>1
  <2>4. ms[i] \in CardSet
    BY <2>2, <2>3 DEF CardSet
  <2>5. ms[i].face_id = cs[i].face_id /\ ms[i].name = cs[i].name /\ ms[i].active = b
    BY <2>2, <2>3 DEF CardSet
  <2> QED
    BY <2>1, <2>4, <2>5
<1>4. ms \in Seq(CardSet) /\ Len(ms) = Len(cs) /\ DOMAIN ms = 1 .. Len(cs)
  <2>1. ms \in [1 .. Len(cs) -> CardSet]
    BY <1>2, <1>3
  <2> QED
    BY <1>1, <2>1, FunSeq
<1>5. Agree(ms)'
  <2>1. \A i \in DOMAIN ms : ms[i].active <=> ms[i].face_id \in active'
    BY <1>3, <1>4
  <2>2. \A i, j \in 1 .. Len(cs) : cs[i].face_id = cs[j].face_id => i = j
    BY <1>1 DEF Agree
  <2>3. \A i, j \in DOMAIN ms : ms[i].face_id = ms[j].face_id => i = j
    BY <1>3, <1>4, <2>2
  <2> QED
    BY <1>4, <2>1, <2>3 DEF Agree
<1>6. ms = << >> <=> cs = << >>
  BY <1>1, <1>4, EmptySeq
<1>7. \A t, id : Shows(cs, t, id) => Shows(ms, t, id)
  BY <1>1, <1>3, <1>4 DEF Shows
<1> QED
  BY <1>4, <1>5, <1>6, <1>7

LEMMA NoCards == Agree(<< >>) /\ Len(<< >>) = 0
<1>1. << >> \in Seq(CardSet) /\ Len(<< >>) = 0 /\ DOMAIN << >> = 1 .. 0
  BY EmptySeq, LenProperties
<1> QED
  BY <1>1 DEF Agree

-----------------------------------------------------------------------------
(* The table *)

AnyName == Names \cup {Default}

\* Renaming changes the name of one id.
LEMMA RenamedTable ==
  ASSUME NEW t \in Seq(Profile), NEW id, NEW n \in AnyName, NEW r, r = Renamed(t, id, n)
  PROVE  /\ r \in Seq(Profile)
         /\ \A i : IsIn(t, i) => IsIn(r, i) /\ (i # id => NameIn(r, i) = NameIn(t, i))
<1>1. CASE ~IsIn(t, id)
  BY <1>1 DEF Renamed
<1>2. CASE IsIn(t, id)
  <2> DEFINE x == First(t, id)
             q == [t[x] EXCEPT !.name = n]
  <2>1. /\ Len(t) \in Nat /\ DOMAIN t = 1 .. Len(t)
        /\ \A k \in 1 .. Len(t) : t[k] \in Profile
    BY ProfileType
  <2>2. x \in 1 .. Len(t) /\ t[x].face_id = id
    BY <1>2, FirstIs
  <2>3. r = [t EXCEPT ![x] = q]
    BY <1>2 DEF Renamed
  <2> HIDE DEF x
  <2>4. q \in Profile /\ q.face_id = id
    BY <2>1, <2>2 DEF Profile, AnyName
  <2> HIDE DEF q
  <2>5. /\ r \in Seq(Profile) /\ Len(r) = Len(t)
        /\ \A k \in 1 .. Len(t) : r[k] = IF k = x THEN q ELSE t[k]
    BY <2>2, <2>3, <2>4, ExceptSeq
  <2>6. \A k \in 1 .. Len(t) : r[k].face_id = t[k].face_id
    BY <2>2, <2>4, <2>5
  <2>7. ASSUME NEW i, IsIn(t, i)
        PROVE  IsIn(r, i) /\ (i # id => NameIn(r, i) = NameIn(t, i))
    <3> DEFINE y == First(t, i)
    <3>1. /\ y \in 1 .. Len(t) /\ t[y].face_id = i
          /\ \A j \in 1 .. Len(t) : t[j].face_id = i => y <= j
      BY <2>7, FirstIs
    <3> HIDE DEF y
    <3>2. /\ y \in 1 .. Len(r) /\ r[y].face_id = i
          /\ \A j \in 1 .. Len(r) : r[j].face_id = i => y <= j
      BY <2>5, <2>6, <3>1
    <3>3. IsIn(r, i) /\ First(r, i) = y
      BY <2>5, <3>2, FirstOnly
    <3>4. i # id => r[y] = t[y]
      BY <2>2, <2>5, <3>1
    <3> QED
      BY <3>3, <3>4 DEF NameIn, y
  <2> QED
    BY <2>5, <2>7
<1> QED
  BY <1>1, <1>2

\* Enrolling changes the name of one id, which is there afterwards.
LEMMA EnrolledTable ==
  ASSUME NEW t \in Seq(Profile), NEW id \in Ids, NEW r, r = Enrolled(t, id)
  PROVE  /\ r \in Seq(Profile) /\ IsIn(r, id)
         /\ \A i : IsIn(t, i) => IsIn(r, i) /\ (i # id => NameIn(r, i) = NameIn(t, i))
<1>1. CASE IsIn(t, id)
  <2>1. r = Renamed(t, id, Default) /\ Default \in AnyName
    BY <1>1 DEF Enrolled, AnyName
  <2> QED
    BY <1>1, <2>1, RenamedTable
<1>2. CASE ~IsIn(t, id)
  <2> DEFINE q == [face_id |-> id, name |-> Default]
  <2>1. r = Append(t, q) /\ q \in Profile /\ q.face_id = id
    BY <1>2 DEF Enrolled, Profile
  <2> HIDE DEF q
  <2>2. /\ r \in Seq(Profile) /\ Len(r) = Len(t) + 1 /\ r[Len(t) + 1] = q
        /\ \A k \in 1 .. Len(t) : r[k] = t[k]
    BY <2>1, AppendProperties
  <2>3. Len(t) \in Nat /\ DOMAIN r = 1 .. Len(t) + 1
    BY <2>2, LenProperties
  <2>4. IsIn(r, id)
    BY <2>1, <2>2, <2>3 DEF IsIn, Entries
  <2>5. ASSUME NEW i, IsIn(t, i)
        PROVE  IsIn(r, i) /\ NameIn(r, i) = NameIn(t, i)
    <3> DEFINE y == First(t, i)
    <3>1. /\ y \in 1 .. Len(t) /\ t[y].face_id = i
          /\ \A j \in 1 .. Len(t) : t[j].face_id = i => y <= j
      BY <2>5, FirstIs
    <3> HIDE DEF y
    <3>2. /\ y \in 1 .. Len(r) /\ r[y].face_id = i /\ r[y] = t[y]
          /\ \A j \in 1 .. Len(r) : r[j].face_id = i => y <= j
      BY <2>2, <2>3, <3>1
    <3>3. IsIn(r, i) /\ First(r, i) = y
      BY <2>2, <3>2, FirstOnly
    <3> QED
      BY <3>2, <3>3 DEF NameIn, y
  <2> QED
    BY <2>2, <2>4, <2>5
<1> QED
  BY <1>1, <1>2

\* Every face id that the page works with is in the table.
KnownInv ==
  /\ table \in Seq(Profile)
  /\ dialog \in Ids \cup {NoDialog} /\ saved \subseteq Ids
  /\ \A g \in Gens : gen[g].stage = "done" => gen[g].face_id \in Ids /\ IsIn(table, gen[g].face_id)
  /\ dialog # NoDialog => IsIn(table, dialog)
  /\ \A s \in Saves : UnderWay(s) =>
       /\ save[s].face_id \in Ids \ {0} /\ save[s].name \in Names
       /\ IsIn(table, save[s].face_id)
  /\ \A id \in saved : IsIn(table, id)

LEMMA KnownStep ==
  ASSUME GenInv, DialogInv, KnownInv, [Next]_vars
  PROVE  KnownInv'
<1> USE DEF history, button, dropdown, cardView
<1>1. ASSUME NEW g \in Gens, ClickRegister(g) PROVE KnownInv'
  <2>1. gen' = [gen EXCEPT ![g].stage = "asked"] /\ UNCHANGED <<table, dialog, save, saved>>
    BY <1>1 DEF ClickRegister
  <2>2. \A h \in Gens : gen'[h].stage = "done" => gen'[h] = gen[h]
    BY <2>1 DEF GenInv, GenType
  <2> QED
    BY <2>1, <2>2 DEF KnownInv, UnderWay
<1>2. ASSUME NEW g \in Gens, EndGeneration(g),
             UNCHANGED dialog \/ (gen[g].stage = "done" /\ dialog' = gen[g].face_id)
      PROVE  KnownInv'
  <2>1. gen' = [gen EXCEPT ![g] = NoGen] /\ UNCHANGED <<table, save, saved>>
    BY <1>2 DEF EndGeneration
  <2>2. \A h \in Gens : gen'[h].stage = "done" => gen'[h] = gen[h]
    BY <2>1 DEF GenInv, GenType, NoGen
  <2> QED
    BY <1>2, <2>1, <2>2 DEF KnownInv, UnderWay
<1>3. ASSUME NEW g \in Gens, generate_face_id(g) PROVE KnownInv'
  <2>1. PICK id \in Ids :
          /\ table' = Enrolled(table, id) /\ saved' = saved \ {id}
          /\ gen' = [gen EXCEPT ![g] = [stage |-> "done", face_id |-> id]]
          /\ UNCHANGED <<dialog, save>>
    BY <1>3 DEF generate_face_id
  <2>2. /\ table' \in Seq(Profile) /\ IsIn(table', id)
        /\ \A i : IsIn(table, i) => IsIn(table', i)
    BY <2>1, EnrolledTable DEF KnownInv
  <2>3. \A h \in Gens : gen'[h].stage = "done" =>
          (h = g /\ gen'[h].face_id = id) \/ gen'[h] = gen[h]
    BY <2>1 DEF GenInv, GenType
  <2> QED
    BY <2>1, <2>2, <2>3 DEF KnownInv, UnderWay
<1>4. ASSUME NEW s \in Saves, NEW name \in Names, ClickOk(s, name) PROVE KnownInv'
  <2>1. dialog # NoDialog /\ UNCHANGED <<table, gen, saved>>
    BY <1>4 DEF ClickOk
  <2>2. CASE dialog = 0
    <3>1. dialog' = NoDialog /\ save' = [save EXCEPT ![s].timer = TRUE]
      BY <1>4, <2>2 DEF ClickOk
    <3>2. \A u \in Saves : /\ save'[u].stage = save[u].stage /\ save'[u].face_id = save[u].face_id
                           /\ save'[u].name = save[u].name
      BY <3>1 DEF DialogInv, SaveType
    <3> QED
      BY <2>1, <3>1, <3>2 DEF KnownInv, UnderWay
  <2>3. CASE dialog # 0
    <3>1. /\ save' = [save EXCEPT ![s] = [stage |-> "asked", face_id |-> dialog,
                                          name |-> name, timer |-> TRUE]]
          /\ UNCHANGED dialog
      BY <1>4, <2>3 DEF ClickOk
    <3>2. \A u \in Saves : save'[u] = save[u] \/ (save'[u].face_id = dialog /\ save'[u].name = name)
      BY <3>1 DEF DialogInv, SaveType
    <3> QED
      BY <2>1, <2>3, <3>1, <3>2 DEF KnownInv, UnderWay
  <2> QED
    BY <2>2, <2>3
<1>5. CASE closeModal
  BY <1>5 DEF closeModal, KnownInv, UnderWay
<1>6. ASSUME NEW s \in Saves, ForgetSave(s), dialog' \in {dialog, NoDialog},
             UNCHANGED <<table, gen, saved>>
      PROVE  KnownInv'
  <2>1. save'[s].stage = "none" /\ \A u \in Saves \ {s} : save'[u] = save[u]
    BY <1>6, ForgetType
  <2> QED
    BY <1>6, <2>1 DEF KnownInv, UnderWay
<1>7. ASSUME NEW s \in Saves, update_face_id(s) PROVE KnownInv'
  <2>1. /\ save[s].stage = "asked" /\ save' = [save EXCEPT ![s].stage = "done"]
        /\ table' = Renamed(table, save[s].face_id, save[s].name)
        /\ saved' = saved \cup {save[s].face_id} /\ UNCHANGED <<gen, dialog>>
    BY <1>7 DEF update_face_id
  <2>2. /\ save[s].face_id \in Ids \ {0} /\ save[s].name \in Names
        /\ IsIn(table, save[s].face_id)
    BY <2>1 DEF KnownInv, UnderWay
  <2>3. table' \in Seq(Profile) /\ \A i : IsIn(table, i) => IsIn(table', i)
    BY <2>1, <2>2, RenamedTable DEF KnownInv, AnyName
  <2>4. \A u \in Saves : /\ save'[u].face_id = save[u].face_id /\ save'[u].name = save[u].name
                         /\ (UnderWay(u)' => UnderWay(u))
    BY <2>1 DEF DialogInv, SaveType, UnderWay
  <2> QED
    BY <2>1, <2>2, <2>3, <2>4 DEF KnownInv
<1>8. ASSUME NEW s \in Saves, RefreshTimer(s) PROVE KnownInv'
  <2>1. save' = [save EXCEPT ![s].timer = FALSE] /\ UNCHANGED <<table, gen, dialog, saved>>
    BY <1>8 DEF RefreshTimer
  <2>2. \A u \in Saves : /\ save'[u].stage = save[u].stage /\ save'[u].face_id = save[u].face_id
                         /\ save'[u].name = save[u].name
    BY <2>1 DEF DialogInv, SaveType
  <2> QED
    BY <2>1, <2>2 DEF KnownInv, UnderWay
<1>9. CASE UNCHANGED vars \/ ClickToggle \/ switchToLiveStreaming \/ Poll \/ Listing
  <2>1. UNCHANGED <<table, gen, dialog, save, saved>>
    BY <1>9 DEF vars, ClickToggle, switchToLiveStreaming, Poll, updateDashboard, Listing,
                get_face_profiles, ProfilesAnswered, ProfilesFail
  <2> QED
    BY <2>1 DEF KnownInv, UnderWay
<1>10. ASSUME NEW g \in Gens, Generation(g) PROVE KnownInv'
  <2>1. CASE GenerateAnswered(g)
    BY <1>2, <2>1 DEF GenerateAnswered
  <2>2. CASE GenerateFails(g)
    BY <1>2, <2>2 DEF GenerateFails
  <2> QED
    BY <1>3, <1>10, <2>1, <2>2 DEF Generation
<1>11. ASSUME NEW s \in Saves, Saving(s) PROVE KnownInv'
  <2>1. CASE SaveAnswered(s)
    BY <1>6, <2>1 DEF SaveAnswered
  <2>2. CASE SaveFails(s)
    BY <1>6, <2>2 DEF SaveFails
  <2> QED
    BY <1>7, <1>11, <2>1, <2>2 DEF Saving
<1> QED
  BY <1>1, <1>4, <1>5, <1>8, <1>9, <1>10, <1>11 DEF Next, Click

-----------------------------------------------------------------------------
(* What is displayed *)

\* A refresh is due, or failed.
Due == missed \/ \E s \in Saves : save[s].timer

\* Table t has the names that were saved.
UpToDate(t) == \A id \in saved : IsIn(t, id) /\ NameIn(t, id) = NameIn(table, id)

\* The loader is displayed while there is a request, and a list that is
\* loaded without a refresh being due is not older than the last save.
ListInv ==
  /\ polling \in BOOLEAN /\ open \in BOOLEAN /\ loaded \in BOOLEAN
  /\ missed \in BOOLEAN /\ crossed \in BOOLEAN
  /\ active \subseteq Ids /\ count \in Nat /\ panel \in {"loader", "empty", "list"}
  /\ listing \in {NoList, Asked} \/ (listing.stage = "done" /\ listing.profiles \in Seq(Profile))
  /\ open => loaded
  /\ listing # NoList => panel = "loader"
  /\ loaded /\ panel = "loader" => listing # NoList
  /\ panel = "list" <=> cards # << >>
  /\ listing = NoList /\ ~missed => count = Len(cards)
  /\ loaded /\ ~Due /\ listing.stage = "done" => UpToDate(listing.profiles)
  /\ loaded /\ ~Due /\ listing = NoList => \A id \in saved : Shows(cards, table, id)

ViewInv == ListInv /\ Agree(cards)

\* Steps that concern neither the list nor what it shows
LEMMA ViewQuiet ==
  ASSUME ViewInv, UNCHANGED <<table, saved, missed, open, loaded, listing, panel, cards, count, active>>,
         polling' \in BOOLEAN, crossed' \in BOOLEAN,
         \A s \in Saves : save[s].timer => save'[s].timer
  PROVE  ViewInv'
<1>1. Due => Due'
  BY DEF Due
<1>2. Agree(cards)'
  BY DEF ViewInv, Agree
<1>3. UpToDate(listing.profiles) => UpToDate(listing.profiles)'
  BY DEF UpToDate
<1> QED
  BY <1>1, <1>2, <1>3 DEF ViewInv, ListInv

\* A step of another component, while a refresh stays due or is due then
LEMMA ViewDue ==
  ASSUME ViewInv, UNCHANGED <<missed, open, loaded, listing, panel, cards, count, active, polling, crossed>>,
         Due'
  PROVE  ViewInv'
<1>1. Agree(cards)'
  BY DEF ViewInv, Agree
<1> QED
  BY <1>1 DEF ViewInv, ListInv

\* A list is asked for, or the one that comes is taken.
LEMMA Fetched ==
  ASSUME ListInv, Agree(cards), fetchProfiles, active' = active
  PROVE  /\ listing' # NoList /\ panel' = "loader" /\ cards' = << >> /\ count' \in Nat
         /\ missed' \in BOOLEAN /\ Agree(cards)'
         /\ \/ listing' = Asked
            \/ listing' = listing /\ listing.stage = "done" /\ missed'
<1>1. CASE listing = NoList
  <2>1. listing' = Asked /\ panel' = "loader" /\ cards' = << >> /\ UNCHANGED <<count, missed>>
    BY <1>1 DEF fetchProfiles
  <2>2. Agree(<< >>)'
    BY NoCards DEF Agree
  <2>3. Asked # NoList
    BY DEF Asked, NoList
  <2> QED
    BY <2>1, <2>2, <2>3 DEF ListInv
<1>2. CASE listing # NoList
  <2>1. UNCHANGED <<listing, panel, cards, count>> /\ missed' = (missed \/ listing # Asked)
    BY <1>2 DEF fetchProfiles, cardView
  <2>2. panel = "loader" /\ cards = << >>
    BY <1>2 DEF ListInv
  <2>3. missed' \in BOOLEAN
    BY <2>1
  <2>4. Agree(cards)'
    BY <2>1 DEF Agree
  <2>5. listing # Asked => missed'
    BY <2>1
  <2> QED
    BY <1>2, <2>1, <2>2, <2>3, <2>4, <2>5 DEF ListInv
<1> QED
  BY <1>1, <1>2

\* Then nothing is displayed that could be too old.
LEMMA FetchedView ==
  ASSUME ViewInv, fetchProfiles, open' \in BOOLEAN, loaded', loaded' \in BOOLEAN,
         UNCHANGED <<polling, active, crossed>>
  PROVE  ViewInv'
<1>1. /\ listing' # NoList /\ panel' = "loader" /\ cards' = << >> /\ count' \in Nat
      /\ missed' \in BOOLEAN /\ Agree(cards)'
      /\ \/ listing' = Asked
         \/ listing' = listing /\ listing.stage = "done" /\ missed'
  BY Fetched DEF ViewInv
<1>2. Asked.stage # "done"
  BY DEF Asked
<1>3. listing'.stage = "done" => Due'
  BY <1>1, <1>2 DEF Due
<1> QED
  BY <1>1, <1>3 DEF ViewInv, ListInv

LEMMA ViewToggle ==
  ASSUME ViewInv, ClickToggle
  PROVE  ViewInv'
<1>1. /\ open' = ~open
      /\ IF open' /\ ~loaded
         THEN loaded' = TRUE /\ fetchProfiles
         ELSE UNCHANGED <<loaded, listing, panel, cards, count, missed>>
      /\ UNCHANGED <<table, polling, save, active, saved, crossed>>
  BY DEF ClickToggle, cardView
<1>2. open' \in BOOLEAN
  BY <1>1
<1>3. CASE open' /\ ~loaded
  BY <1>1, <1>2, <1>3, FetchedView
<1>4. CASE ~(open' /\ ~loaded)
  <2>1. UNCHANGED <<table, polling, save, active, saved, crossed, loaded, listing, panel, cards, count, missed>>
    BY <1>1, <1>4
  <2>2. Due' = Due /\ Agree(cards)'
    BY <2>1 DEF Due, ViewInv, Agree
  <2>3. UpToDate(listing.profiles) => UpToDate(listing.profiles)'
    BY <2>1 DEF UpToDate
  <2> QED
    BY <1>2, <1>4, <2>1, <2>2, <2>3 DEF ViewInv, ListInv
<1> QED
  BY <1>3, <1>4

LEMMA ViewPoll ==
  ASSUME ViewInv, Poll
  PROVE  ViewInv'
<1>1. PICK id \in Ids \cup {0} : \E canRegister \in {id = 0, FALSE} :
             updateDashboard(id, canRegister)
  BY DEF Poll
<1>2. PICK canRegister \in {id = 0, FALSE} : updateDashboard(id, canRegister)
  BY <1>1
<1>3. /\ active' = {id} \ {0} /\ cards' = Mark(cards, active')
      /\ UNCHANGED <<table, polling, open, loaded, save, listing, panel, count, saved, missed, crossed>>
  BY <1>2 DEF updateDashboard, dropdown, history
<1>4. PICK ids : ids = active'
  OBVIOUS
<1>5. /\ Agree(cards)' /\ Len(cards') = Len(cards) /\ (cards' = << >> <=> cards = << >>)
      /\ \A t, i : Shows(cards, t, i) => Shows(cards', t, i)
  <2>1. PICK ms : ms = cards'
    OBVIOUS
  <2>2. Agree(cards) /\ active' = ids /\ ms = Mark(cards, ids)
    BY <1>3, <1>4, <2>1 DEF ViewInv
  <2>3. /\ Agree(ms)' /\ Len(ms) = Len(cards) /\ (ms = << >> <=> cards = << >>)
        /\ \A t, i : Shows(cards, t, i) => Shows(ms, t, i)
    BY <2>2, Marked
  <2> QED
    BY <2>1, <2>3
<1>6. active' \subseteq Ids
  BY <1>3
<1>7. Due' = Due
  BY <1>3 DEF Due
<1>8. UpToDate(listing.profiles) => UpToDate(listing.profiles)'
  BY <1>3 DEF UpToDate
<1>9. \A id1 \in saved : Shows(cards, table, id1) => Shows(cards', table', id1)
  BY <1>3, <1>5
<1> QED
  BY <1>3, <1>5, <1>6, <1>7, <1>8, <1>9 DEF ViewInv, ListInv

\* A face that is enrolled anew has no name that was saved.
LEMMA ViewServe ==
  ASSUME ViewInv, KnownInv, NEW g \in Gens, generate_face_id(g)
  PROVE  ViewInv'
<1>1. PICK id \in Ids : table' = Enrolled(table, id) /\ saved' = saved \ {id}
  BY DEF generate_face_id
<1>2. UNCHANGED <<polling, open, loaded, save, listing, panel, cards, count, active, missed, crossed>>
  BY DEF generate_face_id, dropdown, cardView
<1>3. \A i \in saved' : NameIn(table', i) = NameIn(table, i)
  <2>1. \A i : IsIn(table, i) /\ i # id => NameIn(table', i) = NameIn(table, i)
    BY <1>1, EnrolledTable DEF KnownInv
  <2> QED
    BY <1>1, <2>1 DEF KnownInv
<1>4. Due' = Due /\ Agree(cards)'
  BY <1>2 DEF Due, ViewInv, Agree
<1>5. UpToDate(listing.profiles) => UpToDate(listing.profiles)'
  BY <1>1, <1>2, <1>3 DEF UpToDate
<1>6. (\A i \in saved : Shows(cards, table, i)) => \A i \in saved' : Shows(cards', table', i)
  BY <1>1, <1>2, <1>3 DEF Shows
<1> QED
  BY <1>2, <1>4, <1>5, <1>6 DEF ViewInv, ListInv

\* A save is noticed by its timer, or is missed.
LEMMA ViewSave ==
  ASSUME ViewInv, SaveType, NEW s \in Saves, update_face_id(s)
  PROVE  ViewInv'
<1>1. /\ save' = [save EXCEPT ![s].stage = "done"]
      /\ missed' = (missed \/ ~save[s].timer)
      /\ UNCHANGED <<polling, open, loaded, listing, panel, cards, count, active, crossed>>
  BY DEF update_face_id, dropdown, cardView
<1>2. save'[s].timer = save[s].timer /\ save[s].timer \in BOOLEAN
  BY <1>1 DEF SaveType
<1>3. Due'
  BY <1>1, <1>2 DEF Due
<1>4. missed' \in BOOLEAN /\ (~missed' => ~missed) /\ Agree(cards)'
  BY <1>1 DEF ViewInv, Agree
<1> QED
  BY <1>1, <1>3, <1>4 DEF ViewInv, ListInv

LEMMA ViewTimer ==
  ASSUME ViewInv, SaveType, NEW s \in Saves, RefreshTimer(s)
  PROVE  ViewInv'
<1>1. /\ IF open
         THEN fetchProfiles /\ UNCHANGED loaded
         ELSE loaded' = FALSE /\ UNCHANGED <<listing, panel, cards, count, missed>>
      /\ UNCHANGED <<polling, open, active, crossed>>
  BY DEF RefreshTimer, cardView
<1>2. CASE open
  <2>1. fetchProfiles /\ loaded' = loaded
    BY <1>1, <1>2
  <2>2. loaded' /\ loaded' \in BOOLEAN /\ open' \in BOOLEAN
    BY <1>1, <1>2, <2>1 DEF ViewInv, ListInv
  <2> QED
    BY <1>1, <2>1, <2>2, FetchedView
<1>3. CASE ~open
  <2>1. ~loaded' /\ loaded' \in BOOLEAN
        /\ UNCHANGED <<open, listing, panel, cards, count, missed, polling, active, crossed>>
    BY <1>1, <1>3
  <2>2. Agree(cards)'
    BY <2>1 DEF ViewInv, Agree
  <2> QED
    BY <1>3, <2>1, <2>2 DEF ViewInv, ListInv
<1> QED
  BY <1>2, <1>3

\* The answer, an error or a list
LEMMA ViewListing ==
  ASSUME ViewInv, KnownInv, Listing
  PROVE  ViewInv'
<1>0. Asked.stage # "done" /\ NoList.stage # "done" /\ NoList # Asked
  BY DEF Asked, NoList
<1>1. CASE get_face_profiles
  <2>1. /\ listing = Asked /\ listing' = [stage |-> "done", profiles |-> table]
        /\ missed' = FALSE
        /\ UNCHANGED <<table, polling, open, loaded, panel, cards, count, active, saved, crossed>>
    BY <1>1 DEF get_face_profiles, dropdown, cardView
  <2>2. listing'.stage = "done" /\ listing'.profiles = table /\ listing' # NoList
    BY <2>1, <1>0
  <2>3. UpToDate(listing.profiles)'
    BY <2>1, <2>2 DEF UpToDate, KnownInv
  <2>4. Agree(cards)' /\ table \in Seq(Profile)
    BY <2>1 DEF ViewInv, Agree, KnownInv
  <2>5. listing # NoList
    BY <1>0, <2>1
  <2> QED
    BY <2>1, <2>2, <2>3, <2>4, <2>5 DEF ViewInv, ListInv
<1>2. CASE ProfilesAnswered
  <2> DEFINE cs == Cards(listing.profiles)
  <2>1. /\ listing.stage = "done" /\ listing' = NoList
        /\ cards' = cs /\ count' = Len(cs) /\ panel' = IF cs = << >> THEN "empty" ELSE "list"
        /\ UNCHANGED <<table, polling, save, open, loaded, active, saved, missed, crossed>>
    BY <1>2 DEF ProfilesAnswered, ShowProfiles, dropdown, history
  <2>2. listing.profiles \in Seq(Profile)
    BY <1>0, <2>1 DEF ViewInv, ListInv
  <2>3. Agree(cs) /\ \A id : IsIn(listing.profiles, id) => Shows(cs, listing.profiles, id)
    BY <2>2, CardsAre
  <2> HIDE DEF cs
  <2>4. Agree(cards)' /\ count' \in Nat
    BY <2>1, <2>3, LenProperties DEF Agree
  <2>5. Due' = Due
    BY <2>1 DEF Due
  <2>6. UpToDate(listing.profiles) => \A id \in saved' : Shows(cards', table', id)
    BY <2>1, <2>3 DEF UpToDate, Shows
  <2> QED
    BY <1>0, <2>1, <2>4, <2>5, <2>6 DEF ViewInv, ListInv
<1>3. CASE ProfilesFail
  <2>1. /\ listing # NoList /\ listing' = NoList /\ missed' = TRUE
        /\ \/ ShowProfiles(<< >>)
           \/ panel' = "empty" /\ UNCHANGED <<cards, count>>
        /\ UNCHANGED <<polling, open, loaded, active, crossed>>
    BY <1>3 DEF ProfilesFail, dropdown
  <2>2. cards = << >>
    BY <2>1 DEF ViewInv, ListInv
  <2>3. cards' = << >> /\ panel' = "empty" /\ count' \in Nat
    BY <2>1, <2>2, NoCards DEF ShowProfiles, ViewInv, ListInv
  <2>4. Agree(cards)'
    BY <2>1, <2>3, NoCards DEF Agree
  <2>5. Due'
    BY <2>1 DEF Due
  <2> QED
    BY <1>0, <2>1, <2>3, <2>4, <2>5 DEF ViewInv, ListInv
<1> QED
  BY <1>1, <1>2, <1>3 DEF Listing

LEMMA ViewStep ==
  ASSUME DialogInv, KnownInv, ViewInv, [Next]_vars
  PROVE  ViewInv'
<1> USE DEF history, button, dropdown, cardView
<1>0. polling \in BOOLEAN /\ crossed \in BOOLEAN /\ SaveType
  BY DEF ViewInv, ListInv, DialogInv
<1>1. CASE UNCHANGED vars
  BY <1>0, <1>1, ViewQuiet DEF vars
<1>2. ASSUME NEW g \in Gens, ClickRegister(g) PROVE ViewInv'
  BY <1>0, <1>2, ViewQuiet DEF ClickRegister
<1>3. ASSUME NEW s \in Saves, NEW name \in Names, ClickOk(s, name) PROVE ViewInv'
  <2>1. UNCHANGED <<missed, open, loaded, listing, panel, cards, count, active, polling, crossed>>
    BY <1>3 DEF ClickOk
  <2>2. save'[s].timer
    BY <1>0, <1>3 DEF ClickOk, SaveType
  <2> QED
    BY <2>1, <2>2, ViewDue DEF Due
<1>4. CASE closeModal
  BY <1>0, <1>4, ViewQuiet DEF closeModal
<1>5. CASE switchToLiveStreaming
  BY <1>0, <1>5, ViewQuiet DEF switchToLiveStreaming
<1>6. ASSUME NEW g \in Gens, GenerateAnswered(g) PROVE ViewInv'
  <2>1. crossed' \in BOOLEAN
    BY <1>6 DEF GenerateAnswered
  <2> QED
    BY <1>0, <1>6, <2>1, ViewQuiet DEF GenerateAnswered, EndGeneration
<1>7. ASSUME NEW g \in Gens, GenerateFails(g) PROVE ViewInv'
  BY <1>0, <1>7, ViewQuiet DEF GenerateFails, EndGeneration
<1>8. ASSUME NEW s \in Saves, ForgetSave(s),
             UNCHANGED <<table, saved, missed, open, loaded, listing, panel, cards, count, active,
                         polling, crossed>>
      PROVE  ViewInv'
  <2>1. [NoSave EXCEPT !.timer = save[s].timer].timer = save[s].timer
    BY DEF NoSave
  <2>2. \A u \in Saves : save'[u].timer = save[u].timer
    BY <1>0, <1>8, <2>1 DEF ForgetSave, SaveType
  <2> QED
    BY <1>0, <1>8, <2>2, ViewQuiet
<1>9. ASSUME NEW s \in Saves, Saving(s) PROVE ViewInv'
  <2>1. CASE SaveAnswered(s)
    BY <1>8, <2>1 DEF SaveAnswered
  <2>2. CASE SaveFails(s)
    BY <1>8, <2>2 DEF SaveFails
  <2> QED
    BY <1>0, <1>9, <2>1, <2>2, ViewSave DEF Saving
<1> QED
  BY <1>0, <1>1, <1>2, <1>3, <1>4, <1>5, <1>6, <1>7, <1>9, ViewToggle, ViewPoll, ViewServe,
     ViewTimer, ViewListing
  DEF Next, Click, Generation

PageInv == GenInv /\ DialogInv /\ KnownInv /\ ViewInv

LEMMA PageInit == Init => PageInv
<1> SUFFICES ASSUME Init PROVE PageInv
  OBVIOUS
<1>1. GenInv
  BY InitGen
<1>2. /\ table \in Tables /\ dialog = NoDialog /\ save = [s \in Saves |-> NoSave]
      /\ gen = [g \in Gens |-> NoGen] /\ listing = NoList /\ cards = << >> /\ saved = {}
      /\ open = FALSE /\ loaded = FALSE /\ polling = FALSE /\ missed = FALSE /\ crossed = FALSE
      /\ panel = "loader" /\ count = 0 /\ active = {}
  BY DEF Init
<1>3. DialogInv
  BY <1>2 DEF DialogInv, SaveType, Own, UnderWay, NoSave
<1>4. KnownInv
  <2>1. table \in Seq(Profile)
    BY <1>2, FacePageAssumption
  <2>2. \A g \in Gens : gen[g].stage # "done"
    BY <1>2 DEF NoGen
  <2>3. \A s \in Saves : ~UnderWay(s)
    BY <1>2 DEF NoSave, UnderWay
  <2> QED
    BY <1>2, <2>1, <2>2, <2>3 DEF KnownInv
<1>5. ListInv
  <2>1. count = Len(cards) /\ count \in Nat
    BY <1>2, NoCards
  <2> QED
    BY <1>2, <2>1 DEF ListInv, NoList
<1>6. Agree(cards)
  BY <1>2, NoCards
<1> QED
  BY <1>1, <1>3, <1>4, <1>5, <1>6 DEF PageInv, ViewInv

LEMMA PageStep == PageInv /\ [Next]_vars => PageInv'
BY NextGen, NextDialog, KnownStep, ViewStep DEF PageInv

\* The types; the list is displayed only with cards.
THEOREM FacePageTypes == Spec => []TypeOK
<1>1. PageInv => TypeOK
  <2> SUFFICES ASSUME PageInv PROVE TypeOK
    OBVIOUS
  <2>1. /\ table \in Seq(Profile) /\ dialog \in Ids \cup {NoDialog} /\ saved \subseteq Ids
        /\ \A s \in Saves : UnderWay(s) => save[s].face_id \in Ids /\ save[s].name \in Names
    BY DEF PageInv, KnownInv
  <2>2. {polling, disabled, busy, open, loaded, missed, crossed} \subseteq BOOLEAN
    BY DEF PageInv, GenInv, GenType, ViewInv, ListInv
  <2>3. gen \in [Gens -> [stage : {"none", "asked", "done"}, face_id : Ids \cup {0}]]
    BY DEF PageInv, GenInv, GenType
  <2>4. \A s \in Saves : save[s].stage \in {"none", "asked", "done"} /\ save[s].timer \in BOOLEAN
    BY DEF PageInv, DialogInv, SaveType
  <2>5. listing.stage \in {"none", "asked", "done"} /\ listing.profiles \in Seq(Profile)
    <3>1. << >> \in Seq(Profile)
      BY EmptySeq
    <3>2. /\ NoList.stage = "none" /\ NoList.profiles = << >>
          /\ Asked.stage = "asked" /\ Asked.profiles = << >>
      BY DEF NoList, Asked
    <3>3. \/ listing = NoList \/ listing = Asked
          \/ listing.stage = "done" /\ listing.profiles \in Seq(Profile)
      BY DEF PageInv, ViewInv, ListInv
    <3> QED
      BY <3>1, <3>2, <3>3
  <2>6. /\ panel \in {"loader", "empty", "list"} /\ (panel = "list" <=> cards # << >>)
        /\ count \in Nat /\ active \subseteq Ids
    BY DEF PageInv, ViewInv, ListInv
  <2> QED
    BY <2>1, <2>2, <2>3, <2>4, <2>5, <2>6 DEF TypeOK
<1> QED
  BY <1>1, PageInit, PageStep, PTL DEF Spec

\* In whatever order a list and a poll are answered, each profile has one card
\* and the marked ones are those of the last poll; an open dropdown says that
\* it is loading just while it is, and the badge counts the cards unless the
\* last refresh has failed (fetchProfiles, _refreshProfileCards).
THEOREM CardsAlwaysAgree == Spec => []CardsAgree
<1>1. PageInv => CardsAgree
  BY DEF PageInv, ViewInv, ListInv, Agree, CardsAgree
<1> QED
  BY <1>1, PageInit, PageStep, PTL DEF Spec

\* What was saved is on its card when the dropdown is open and no refresh is
\* due or has failed, although the refresh is timed and not tied to the answer
\* of the save (script.js:825-833).
THEOREM SavesAreShown == Spec => []SavedIsShown
<1>1. PageInv => SavedIsShown
  BY DEF PageInv, ViewInv, ListInv, Due, Shows, NameIn, SavedIsShown
<1> QED
  BY <1>1, PageInit, PageStep, PTL DEF Spec

=============================================================================
