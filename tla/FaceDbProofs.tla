---------------------------- MODULE FaceDbProofs ----------------------------
(***************************************************************************)
(* What is proved of the face profiles, for every set of ids and of names, *)
(* every limit of the table and every size of the stream's buffer, and     *)
(* with flushes that overlap in any way:                                   *)
(*                                                                         *)
(*  - FaceDbTypes: the types;                                              *)
(*  - FileIsTable, NoTwins: between flushes the file is the table, and no  *)
(*    id has two profiles;                                                 *)
(*  - UpdatesSurvive: what a client was told is in the file wherever the   *)
(*    process is killed.                                                   *)
(*                                                                         *)
(* They rest on what the loop of kt_app_face_db_init reads of a file that  *)
(* begins with the lines of a table (TextLoad). Where an argument goes by  *)
(* induction over the cells, the lines or the profiles, it takes the least *)
(* number that makes it fail (Least, Ind).                                 *)
(***************************************************************************)
EXTENDS FaceDb, FiniteSetTheorems, SequenceTheorems, TLAPS

-----------------------------------------------------------------------------
(* Natural numbers *)

\* A set of natural numbers that is not empty has a least element: the sets
\* 1 .. n are well ordered by inclusion.
LEMMA Least ==
  ASSUME NEW T \in SUBSET Nat, T # {}
  PROVE  \E x \in T : \A y \in T : x <= y
<1> DEFINE F == {1 .. n : n \in T}
           R == StrictSubsetOrdering(Nat)
<1>1. F \subseteq FiniteSubsetsOf(Nat) /\ F # {}
  <2>1. \A n \in T : 1 .. n \in SUBSET Nat /\ IsFiniteSet(1 .. n)
    BY FS_Interval
  <2> QED
    BY <2>1 DEF FiniteSubsetsOf
<1>2. IsWellFoundedOn(R, FiniteSubsetsOf(Nat))
  BY FS_StrictSubsetOrderingWellFounded
<1> HIDE DEF F, R
<1>3. PICK s \in F : \A t \in F : ~ (<<t, s>> \in R)
  BY <1>1, <1>2, WFMin
<1>4. PICK x \in T : s = 1 .. x
  BY DEF F
<1>5. ASSUME NEW y \in T, y < x
      PROVE  FALSE
  <2>1. 1 .. y \in F
    BY DEF F
  <2>2. 1 .. y \in SUBSET Nat /\ 1 .. x \in SUBSET Nat /\ 1 .. y \subseteq 1 .. x
    BY <1>5
  <2>3. x \in 1 .. x /\ x \notin 1 .. y
    BY <1>5
  <2>4. <<1 .. y, 1 .. x>> \in R
    BY <2>2, <2>3 DEF R, StrictSubsetOrdering
  <2> QED
    BY <1>3, <1>4, <2>1, <2>4
<1> QED
  BY <1>5

\* Induction, for a set that is given
LEMMA Ind ==
  ASSUME NEW S \in SUBSET Nat, 0 \in S, \A n \in S : n + 1 \in S
  PROVE  S = Nat
<1> SUFFICES ASSUME S # Nat PROVE FALSE
  OBVIOUS
<1> DEFINE T == Nat \ S
<1>1. T \in SUBSET Nat /\ T # {}
  OBVIOUS
<1> HIDE DEF T
<1>2. PICK x \in T : \A y \in T : x <= y
  BY <1>1, Least
<1>3. x # 0 /\ x \in Nat
  BY DEF T
<1>4. x - 1 \in Nat /\ x - 1 \notin T
  BY <1>2, <1>3, <1>1
<1> QED
  BY <1>3, <1>4 DEF T

\* A set of natural numbers that is bounded has a greatest element.
LEMMA Greatest ==
  ASSUME NEW T \in SUBSET Nat, T # {}, NEW b \in Nat, \A x \in T : x <= b
  PROVE  Max(T) \in T /\ \A y \in T : y <= Max(T)
<1> DEFINE D == {b - x : x \in T}
<1>1. D \in SUBSET Nat /\ D # {}
  <2>1. \A x \in T : b - x \in Nat
    OBVIOUS
  <2>2. PICK x \in T : TRUE
    OBVIOUS
  <2>3. b - x \in D
    BY <2>2
  <2> QED
    BY <2>1, <2>3
<1>2. PICK d \in D : \A y \in D : d <= y
  <2> HIDE DEF D
  <2> QED
    BY <1>1, Least
<1>3. PICK x \in T : d = b - x
  OBVIOUS
<1>4. \A y \in T : y <= x
  <2> SUFFICES ASSUME NEW y \in T PROVE y <= x
    OBVIOUS
  <2>1. b - y \in D
    OBVIOUS
  <2>2. d <= b - y
    BY <1>2, <2>1
  <2> QED
    BY <1>3, <2>2
<1>5. \E z \in T : \A y \in T : z >= y
  BY <1>4
<1> QED
  BY <1>5 DEF Max

LEMMA MaxOfTwo ==
  ASSUME NEW a \in Int, NEW b \in Int
  PROVE  Max({a, b}) = IF a >= b THEN a ELSE b
<1>1. \E x \in {a, b} : \A y \in {a, b} : x >= y
  OBVIOUS
<1>2. Max({a, b}) \in {a, b} /\ \A y \in {a, b} : Max({a, b}) >= y
  BY <1>1 DEF Max
<1> QED
  BY <1>2

-----------------------------------------------------------------------------
(* The text of a table *)

Cells    == Ids \cup {NL, Nul} \cup UNION {{n[k] : k \in DOMAIN n} : n \in AllNames}
Letters  == Cells \ {NL}
Profiles == [id : Ids, name : {n \in Seq(Letters) : Len(n) > 0}]

\* The k-th line of f ends at e[k] and shows the k-th profile of p.
Spells(f, p, e) ==
  /\ e \in [0 .. Len(p) -> 0 .. Len(f)] /\ e[0] = 0
  /\ \A k \in 1 .. Len(p) :
       /\ e[k] = e[k - 1] + Len(p[k].name) + 2
       /\ f[e[k - 1] + 1] = p[k].id
       /\ \A i \in 1 .. Len(p[k].name) : f[e[k - 1] + 1 + i] = p[k].name[i]
       /\ f[e[k]] = NL

\* The first n cells of f are what a flush of p prints.
Text(f, p, n) == \E e : Spells(f, p, e) /\ e[Len(p)] = n

LEMMA LineType ==
  ASSUME NEW q \in Profiles
  PROVE  /\ q.id \in Ids /\ q.id # NL /\ q.name \in Seq(Letters)
         /\ Len(q.name) \in Nat /\ Len(q.name) >= 1
         /\ \A i \in 1 .. Len(q.name) : q.name[i] \in Letters /\ q.name[i] # NL
<1>1. q.id \in Ids /\ q.name \in Seq(Letters) /\ Len(q.name) > 0
  BY DEF Profiles
<1>2. Len(q.name) \in Nat /\ \A i \in 1 .. Len(q.name) : q.name[i] \in Letters
  BY <1>1, LenProperties, ElementOfSeq
<1> QED
  BY <1>1, <1>2, FaceDbAssumption DEF Letters

\* Lines end one after the other.
LEMMA EndsGrow ==
  ASSUME NEW f, Len(f) \in Nat, NEW p \in Seq(Profiles), NEW e, Spells(f, p, e)
  PROVE  /\ Len(p) \in Nat
         /\ \A k \in 0 .. Len(p) : e[k] \in Nat /\ e[k] <= Len(f)
         /\ \A k \in 1 .. Len(p) : e[k - 1] + 3 <= e[k]
         /\ \A j, k \in 0 .. Len(p) : j < k => e[j] < e[k]
<1>1. Len(p) \in Nat /\ \A k \in 1 .. Len(p) : p[k] \in Profiles
  BY LenProperties, ElementOfSeq
<1>2. \A k \in 0 .. Len(p) : e[k] \in Nat /\ e[k] <= Len(f)
  <2>1. e \in [0 .. Len(p) -> 0 .. Len(f)]
    BY DEF Spells
  <2>2. \A k \in 0 .. Len(p) : e[k] \in 0 .. Len(f)
    BY <2>1
  <2> QED
    BY <2>2
<1>3. \A k \in 1 .. Len(p) : e[k - 1] + 3 <= e[k]
  <2> SUFFICES ASSUME NEW k \in 1 .. Len(p) PROVE e[k - 1] + 3 <= e[k]
    OBVIOUS
  <2>1. e[k] = e[k - 1] + Len(p[k].name) + 2 /\ k - 1 \in 0 .. Len(p)
    BY <1>1 DEF Spells
  <2>2. Len(p[k].name) \in Nat /\ Len(p[k].name) >= 1
    BY <1>1, LineType
  <2> QED
    BY <1>2, <2>1, <2>2
<1> DEFINE S == {d \in Nat : \A j \in 0 .. Len(p) :
                               d > 0 /\ j + d \in 0 .. Len(p) => e[j] < e[j + d]}
<1>4. S = Nat
  <2>1. 0 \in S
    OBVIOUS
  <2>2. ASSUME NEW d \in S
        PROVE  d + 1 \in S
    <3> SUFFICES ASSUME NEW j \in 0 .. Len(p), j + (d + 1) \in 0 .. Len(p)
                 PROVE  e[j] < e[j + (d + 1)]
      OBVIOUS
    <3>1. j + d \in 0 .. Len(p) /\ j + (d + 1) \in 1 .. Len(p) /\ j + (d + 1) - 1 = j + d
      BY <1>1
    <3>2. e[j + d] < e[j + (d + 1)]
      <4>1. e[j + (d + 1) - 1] + 3 <= e[j + (d + 1)]
        BY <1>3, <3>1
      <4> QED
        BY <1>2, <3>1, <4>1
    <3>3. d = 0 \/ e[j] < e[j + d]
      BY <3>1
    <3> QED
      BY <1>1, <1>2, <3>1, <3>2, <3>3
  <2> HIDE DEF S
  <2> QED
    BY <2>1, <2>2, Ind DEF S
<1>5. ASSUME NEW j \in 0 .. Len(p), NEW k \in 0 .. Len(p), j < k
      PROVE  e[j] < e[k]
  <2>1. k - j \in Nat /\ k - j > 0 /\ j + (k - j) = k
    BY <1>1, <1>5
  <2>2. k - j \in S
    BY <1>4, <2>1
  <2> QED
    BY <2>1, <2>2
<1> QED
  BY <1>1, <1>2, <1>3, <1>5

\* A cell of the text belongs to one of the lines.
LEMMA Located ==
  ASSUME NEW f, Len(f) \in Nat, NEW p \in Seq(Profiles), NEW e, Spells(f, p, e),
         NEW i \in 1 .. e[Len(p)]
  PROVE  \E k \in 1 .. Len(p) : e[k - 1] < i /\ i <= e[k]
<1>1. Len(p) \in Nat /\ e[0] = 0 /\ \A k \in 0 .. Len(p) : e[k] \in Nat
  <2>1. e[0] = 0
    BY DEF Spells
  <2> QED
    BY <2>1, EndsGrow
<1> DEFINE T == {k \in 0 .. Len(p) : i <= e[k]}
<1>2. T \in SUBSET Nat /\ T # {}
  <2>1. Len(p) \in T
    BY <1>1
  <2> QED
    BY <1>1, <2>1
<1>3. PICK k \in T : \A j \in T : k <= j
  <2> HIDE DEF T
  <2> QED
    BY <1>2, Least
<1>4. k # 0 /\ k \in 1 .. Len(p)
  BY <1>1
<1>5. k - 1 \notin T /\ k - 1 \in 0 .. Len(p)
  <2>1. ~(k <= k - 1) /\ k - 1 \in 0 .. Len(p)
    BY <1>1, <1>4
  <2> QED
    BY <1>3, <2>1
<1> QED
  BY <1>1, <1>4, <1>5

\* Lines start where the text says.
LEMMA TextStarts ==
  ASSUME NEW f \in Seq(Cells), NEW p \in Seq(Profiles), NEW e, Spells(f, p, e)
  PROVE  \A i \in 1 .. e[Len(p)] :
           i \in LineStarts(f) <=> \E k \in 1 .. Len(p) : i = e[k - 1] + 1
<1>1. /\ Len(f) \in Nat /\ DOMAIN f = 1 .. Len(f) /\ Len(p) \in Nat /\ e[0] = 0
      /\ \A k \in 0 .. Len(p) : e[k] \in Nat /\ e[k] <= Len(f)
      /\ \A k \in 1 .. Len(p) : e[k - 1] + 3 <= e[k]
      /\ \A j, k \in 0 .. Len(p) : j < k => e[j] < e[k]
      /\ \A k \in 1 .. Len(p) : p[k] \in Profiles
  <2>1. Len(f) \in Nat /\ DOMAIN f = 1 .. Len(f)
    BY LenProperties
  <2>2. e[0] = 0
    BY DEF Spells
  <2>3. \A k \in 1 .. Len(p) : p[k] \in Profiles
    BY ElementOfSeq
  <2> QED
    BY <2>1, <2>2, <2>3, EndsGrow
<1> SUFFICES ASSUME NEW i \in 1 .. e[Len(p)]
             PROVE  i \in LineStarts(f) <=> \E k \in 1 .. Len(p) : i = e[k - 1] + 1
  OBVIOUS
<1>2. PICK k \in 1 .. Len(p) : e[k - 1] < i /\ i <= e[k]
  BY <1>1, Located
<1>3. /\ e[k] = e[k - 1] + Len(p[k].name) + 2
      /\ f[e[k - 1] + 1] = p[k].id /\ f[e[k]] = NL
      /\ \A j \in 1 .. Len(p[k].name) : f[e[k - 1] + 1 + j] = p[k].name[j]
  BY DEF Spells
<1>4. /\ p[k].id # NL /\ Len(p[k].name) \in Nat
      /\ \A j \in 1 .. Len(p[k].name) : p[k].name[j] # NL
  BY <1>1, LineType
<1>5. e[k] \in Nat /\ e[k - 1] \in Nat /\ e[k] <= Len(f) /\ k - 1 \in 0 .. Len(p)
      /\ i \in Nat /\ i \in DOMAIN f
  <2>1. k \in 0 .. Len(p) /\ k - 1 \in 0 .. Len(p) /\ Len(p) \in 0 .. Len(p)
    BY <1>1
  <2> QED
    BY <1>1, <1>2, <2>1
<1>6. \A m \in 1 .. Len(p) : i = e[m - 1] + 1 => m = k
  <2> SUFFICES ASSUME NEW m \in 1 .. Len(p), i = e[m - 1] + 1, m # k
               PROVE  FALSE
    OBVIOUS
  <2>1. /\ m \in Nat /\ k \in Nat /\ m - 1 \in 0 .. Len(p) /\ k \in 0 .. Len(p)
        /\ e[m - 1] \in Nat
    BY <1>1
  <2>2. CASE m < k
    <3>1. m - 1 < k - 1
      BY <2>1, <2>2
    <3>2. e[m - 1] < e[k - 1]
      BY <1>1, <1>5, <2>1, <3>1
    <3> QED
      BY <1>2, <1>5, <2>1, <3>2
  <2>3. CASE m > k
    <3>1. k < m - 1 \/ k = m - 1
      BY <2>1, <2>3
    <3>2. \A j, n \in 0 .. Len(p) : j < n => e[j] < e[n]
      BY <1>1
    <3>3. k < m - 1 => e[k] < e[m - 1]
      BY <2>1, <3>2
    <3>4. e[k] \in Nat /\ (e[k] < e[m - 1] \/ e[k] = e[m - 1])
      BY <1>5, <3>1, <3>3
    <3> QED
      BY <1>2, <1>5, <2>1, <3>4
  <2> QED
    BY <2>1, <2>2, <2>3
<1>7. CASE i = e[k - 1] + 1
  <2>1. f[i] # NL
    BY <1>3, <1>4, <1>7
  <2>2. i = 1 \/ f[i - 1] = NL
    <3>1. CASE k = 1
      BY <1>1, <1>7, <3>1
    <3>2. CASE k # 1
      <4>1. k - 1 \in 1 .. Len(p)
        BY <1>1, <3>2
      <4>2. f[e[k - 1]] = NL
        BY <4>1 DEF Spells
      <4>3. i - 1 = e[k - 1]
        BY <1>5, <1>7
      <4> QED
        BY <4>2, <4>3
    <3> QED
      BY <3>1, <3>2
  <2> QED
    BY <1>5, <1>7, <2>1, <2>2 DEF LineStarts
<1>8. CASE i # e[k - 1] + 1
  <2>1. CASE i = e[k]
    BY <1>3, <1>6, <1>8, <2>1 DEF LineStarts
  <2>2. CASE i < e[k]
    <3>1. i # 1 /\ i - 1 \in e[k - 1] + 1 .. e[k] - 2
      BY <1>2, <1>5, <1>8, <2>2
    <3>2. f[i - 1] # NL
      <4>1. CASE i - 1 = e[k - 1] + 1
        BY <1>3, <1>4, <4>1
      <4>2. CASE i - 1 # e[k - 1] + 1
        <5> DEFINE j == i - 1 - (e[k - 1] + 1)
        <5>1. j \in 1 .. Len(p[k].name) /\ e[k - 1] + 1 + j = i - 1
          <6>1. e[k] = e[k - 1] + Len(p[k].name) + 2
            BY <1>3
          <6>2. e[k - 1] \in Nat /\ i \in Nat /\ Len(p[k].name) \in Nat
            BY <1>4, <1>5
          <6>3. i - 1 >= e[k - 1] + 1 /\ i - 1 <= e[k] - 2
            BY <3>1, <6>2
          <6>4. j \in Int /\ j >= 1
            BY <4>2, <6>2, <6>3
          <6>5. j <= Len(p[k].name)
            BY <6>1, <6>2, <6>3
          <6>6. e[k - 1] + 1 + j = i - 1
            BY <6>2
          <6> QED
            BY <6>2, <6>4, <6>5, <6>6
        <5>2. f[e[k - 1] + 1 + j] = p[k].name[j]
          BY <1>3, <5>1
        <5> HIDE DEF j
        <5> QED
          BY <1>4, <5>1, <5>2
      <4> QED
        BY <4>1, <4>2
    <3> QED
      BY <1>6, <1>8, <3>1, <3>2 DEF LineStarts
  <2> QED
    BY <1>2, <1>5, <2>1, <2>2
<1> QED
  BY <1>7, <1>8

-----------------------------------------------------------------------------
(* What is read of a file *)

\* A line goes on to the next newline, or to the end of the file.
LEMMA LineEnds ==
  ASSUME NEW f \in Seq(Cells), NEW k \in 1 .. Len(f), NEW m \in k .. Len(f),
         \A i \in k .. m : f[i] # NL, m = Len(f) \/ f[m + 1] = NL
  PROVE  LineFrom(f, k) = SubSeq(f, k, m)
<1> DEFINE S == {j \in k .. Len(f) : \A i \in k .. j : f[i] # NL}
<1>1. Len(f) \in Nat
  BY LenProperties
<1>2. m \in S
  OBVIOUS
<1>3. \A y \in S : y <= m
  <2> SUFFICES ASSUME NEW y \in S, y > m PROVE FALSE
    BY <1>1
  <2>1. m + 1 \in k .. y /\ m # Len(f)
    BY <1>1
  <2> QED
    BY <2>1
<1> HIDE DEF S
<1>4. \A x, y \in S : x \in Int /\ y \in Int
  BY <1>1 DEF S
<1>5. \E x \in S : \A y \in S : x >= y
  BY <1>2, <1>3, <1>4
<1>6. Max(S) \in S /\ \A y \in S : Max(S) >= y
  BY <1>5 DEF Max
<1>7. Max(S) = m
  <2>1. Max(S) <= m /\ Max(S) >= m
    BY <1>2, <1>3, <1>6
  <2>2. Max(S) \in Int /\ m \in Int
    BY <1>2, <1>4, <1>6
  <2> QED
    BY <2>1, <2>2
<1> QED
  BY <1>7 DEF LineFrom, S

LEMMA LineExists ==
  ASSUME NEW f \in Seq(Cells), NEW k \in LineStarts(f)
  PROVE  /\ k \in 1 .. Len(f)
         /\ \E m \in k .. Len(f) : (\A i \in k .. m : f[i] # NL) /\ LineFrom(f, k) = SubSeq(f, k, m)
<1> DEFINE S == {j \in k .. Len(f) : \A i \in k .. j : f[i] # NL}
<1>1. Len(f) \in Nat /\ k \in 1 .. Len(f) /\ f[k] # NL
  BY LenProperties DEF LineStarts
<1>2. k \in S
  <2>1. \A i \in k .. k : i = k
    BY <1>1
  <2> QED
    BY <1>1, <2>1
<1>3. S \in SUBSET Nat /\ \A x \in S : x <= Len(f)
  BY <1>1
<1> HIDE DEF S
<1>4. Max(S) \in S
  BY <1>1, <1>2, <1>3, Greatest
<1> QED
  BY <1>1, <1>4 DEF S, LineFrom

\* The cells of such a line
LEMMA LineCells ==
  ASSUME NEW f \in Seq(Cells), NEW k \in 1 .. Len(f), NEW m \in k .. Len(f),
         \A i \in k .. m : f[i] # NL
  PROVE  LET l == SubSeq(f, k, m)
         IN /\ l \in Seq(Letters) /\ Len(l) = m - k + 1
            /\ \A i \in 1 .. m - k + 1 : l[i] = f[k + i - 1]
<1>1. Len(f) \in Nat /\ k \in Int /\ m \in Int /\ k <= m
  BY LenProperties
<1>2. \A i \in k .. m : f[i] \in Letters
  <2> SUFFICES ASSUME NEW i \in k .. m PROVE f[i] \in Letters
    OBVIOUS
  <2>1. i \in 1 .. Len(f)
    BY <1>1
  <2>2. f[i] \in Cells
    BY <2>1, ElementOfSeq
  <2> QED
    BY <2>2 DEF Letters
<1> HIDE DEF Letters
<1> QED
  BY <1>1, <1>2, SubSeqProperties

\* A line of the text is read as the profile it shows.
LEMMA TextLine ==
  ASSUME NEW f \in Seq(Cells), NEW p \in Seq(Profiles), NEW e, Spells(f, p, e),
         NEW k \in 1 .. Len(p)
  PROVE  LET l == LineFrom(f, e[k - 1] + 1)
         IN Parses(l) /\ l[1] = p[k].id /\ Tail(l) = p[k].name
<1>1. p[k] \in Profiles
  BY ElementOfSeq
<1>2. /\ p[k].id \in Ids /\ p[k].id # NL /\ p[k].name \in Seq(Letters)
      /\ Len(p[k].name) \in Nat /\ Len(p[k].name) >= 1
      /\ \A i \in 1 .. Len(p[k].name) : p[k].name[i] # NL
  BY <1>1, LineType
<1>3. /\ e[k] = e[k - 1] + Len(p[k].name) + 2
      /\ f[e[k - 1] + 1] = p[k].id /\ f[e[k]] = NL
      /\ \A j \in 1 .. Len(p[k].name) : f[e[k - 1] + 1 + j] = p[k].name[j]
  BY DEF Spells
<1>4. Len(f) \in Nat /\ Len(p) \in Nat /\ e[k - 1] \in Nat /\ e[k] \in Nat /\ e[k] <= Len(f)
  <2>1. Len(f) \in Nat
    BY LenProperties
  <2>2. Len(p) \in Nat /\ \A j \in 0 .. Len(p) : e[j] \in Nat /\ e[j] <= Len(f)
    BY <2>1, EndsGrow
  <2>3. k - 1 \in 0 .. Len(p) /\ k \in 0 .. Len(p)
    BY <2>2
  <2> QED
    BY <2>1, <2>2, <2>3
<1> DEFINE s == e[k - 1] + 1
           m == e[k] - 1
           n == Len(p[k].name)
           l == SubSeq(f, s, m)
<1>5. s \in 1 .. Len(f) /\ m \in s .. Len(f) /\ m + 1 = e[k] /\ m - s + 1 = n + 1 /\ n \in Nat
      /\ n >= 1 /\ s \in Nat
  <2>1. e[k] = e[k - 1] + n + 2
    BY <1>3
  <2>2. e[k - 1] \in Nat /\ e[k] \in Nat /\ e[k] <= Len(f) /\ Len(f) \in Nat
    BY <1>4
  <2>3. n \in Nat /\ n >= 1
    BY <1>2
  <2> DEFINE a == e[k - 1]
             b == e[k]
             c == Len(f)
  <2>4. b = a + n + 2 /\ a \in Nat /\ b \in Nat /\ b <= c /\ c \in Nat
    BY <2>1, <2>2
  <2> HIDE DEF a, b, c, n
  <2>5. /\ a + 1 \in 1 .. c /\ b - 1 \in a + 1 .. c /\ b - 1 + 1 = b
        /\ b - 1 - (a + 1) + 1 = n + 1 /\ a + 1 \in Nat
    BY <2>3, <2>4
  <2> QED
    BY <2>3, <2>5 DEF a, b, c
<1>6. \A i \in s .. m : f[i] # NL
  <2> SUFFICES ASSUME NEW i \in s .. m PROVE f[i] # NL
    OBVIOUS
  <2>1. CASE i = s
    BY <1>2, <1>3, <2>1
  <2>2. CASE i # s
    <3>1. i - s \in 1 .. n /\ s + (i - s) = i
      <4> HIDE DEF s, m, n
      <4> QED
        BY <1>5, <2>2
    <3>2. f[s + (i - s)] = p[k].name[i - s]
      BY <1>3, <3>1
    <3> QED
      BY <1>2, <3>1, <3>2
  <2> QED
    BY <2>1, <2>2
<1>7. LineFrom(f, s) = l
  BY <1>3, <1>5, <1>6, LineEnds
<1>8. /\ l \in Seq(Letters) /\ Len(l) = n + 1 /\ l[1] = p[k].id
      /\ \A i \in 1 .. n : l[i + 1] = p[k].name[i]
  <2>1. /\ l \in Seq(Letters) /\ Len(l) = m - s + 1
        /\ \A i \in 1 .. m - s + 1 : l[i] = f[s + i - 1]
    BY <1>5, <1>6, LineCells
  <2>2. Len(l) = n + 1
    BY <1>5, <2>1
  <2>3. l[1] = p[k].id
    <3>1. 1 \in 1 .. m - s + 1 /\ s + 1 - 1 = s
      BY <1>5
    <3> QED
      BY <1>3, <2>1, <3>1
  <2>4. ASSUME NEW i \in 1 .. n
        PROVE  l[i + 1] = p[k].name[i]
    <3>1. i + 1 \in 1 .. m - s + 1 /\ s + (i + 1) - 1 = s + i
      <4> HIDE DEF s, m, n
      <4> QED
        BY <1>5
    <3>2. l[i + 1] = f[s + i]
      BY <2>1, <3>1
    <3> QED
      BY <1>3, <3>2
  <2> QED
    BY <2>1, <2>2, <2>3, <2>4
<1> HIDE DEF l, s, m
<1>9. l # << >> /\ Len(l) > 1
  BY <1>5, <1>8, EmptySeq
<1>10. Tail(l) = p[k].name
  <2>1. /\ Tail(l) \in Seq(Letters) /\ Len(Tail(l)) = n
        /\ \A i \in 1 .. n : Tail(l)[i] = l[i + 1]
    <3>1. /\ Tail(l) \in Seq(Letters) /\ Len(Tail(l)) = Len(l) - 1
          /\ \A i \in 1 .. Len(Tail(l)) : Tail(l)[i] = l[i + 1]
      BY <1>8, <1>9, HeadTailProperties
    <3>2. Len(l) - 1 = n
      BY <1>5, <1>8
    <3> QED
      BY <3>1, <3>2
  <2>2. \A i \in 1 .. Len(Tail(l)) : Tail(l)[i] = p[k].name[i]
    BY <1>8, <2>1
  <2> QED
    BY <1>2, <2>1, <2>2, SeqEqual
<1> QED
  BY <1>2, <1>7, <1>8, <1>9, <1>10 DEF Parses, s

-----------------------------------------------------------------------------
(* The numbers of lines *)

\* A later line has a larger number.
LEMMA Counted ==
  ASSUME NEW S \in SUBSET Nat, IsFiniteSet(S)
  PROVE  /\ Cardinality(S) \in Nat
         /\ \A k \in Nat : LineNumber(S, k) \in Nat /\ LineNumber(S, k) <= Cardinality(S)
         /\ \A j, k \in Nat : j < k /\ k \in S => LineNumber(S, j) < LineNumber(S, k)
         /\ \A k \in S : LineNumber(S, k) >= 1
<1> DEFINE U(k) == {j \in S : j <= k}
<1>1. ASSUME NEW k \in Nat
      PROVE  IsFiniteSet(U(k)) /\ Cardinality(U(k)) \in Nat /\ Cardinality(U(k)) <= Cardinality(S)
  <2>1. U(k) \in SUBSET S
    OBVIOUS
  <2> HIDE DEF U
  <2> QED
    BY <2>1, FS_Subset, FS_CardinalityType
<1>2. ASSUME NEW j \in Nat, NEW k \in Nat, j < k, k \in S
      PROVE  Cardinality(U(j)) < Cardinality(U(k))
  <2>1. U(j) \in SUBSET U(k)
    <3> SUFFICES ASSUME NEW i \in S, i <= j PROVE i <= k
      OBVIOUS
    <3>1. i \in Nat
      OBVIOUS
    <3> QED
      BY <1>2, <3>1
  <2>2. k \in U(k) /\ k \notin U(j)
    BY <1>2
  <2> HIDE DEF U
  <2>3. Cardinality(U(j)) <= Cardinality(U(k)) /\ Cardinality(U(j)) # Cardinality(U(k))
    BY <1>1, <2>1, <2>2, FS_Subset
  <2> QED
    BY <1>1, <2>3
<1>3. ASSUME NEW k \in S
      PROVE  Cardinality(U(k)) >= 1
  <2>1. U(k) # {} /\ k \in Nat
    OBVIOUS
  <2> HIDE DEF U
  <2>2. Cardinality(U(k)) # 0
    BY <1>1, <2>1, FS_EmptySet
  <2> QED
    BY <1>1, <2>1, <2>2
<1> QED
  BY <1>1, <1>2, <1>3, FS_CardinalityType DEF LineNumber

\* Every number up to the number of lines is that of a line.
LEMMA Numbered ==
  ASSUME NEW S \in SUBSET Nat, IsFiniteSet(S)
  PROVE  \A n \in 1 .. Cardinality(S) : \E k \in S : LineNumber(S, k) = n
<1> DEFINE c == Cardinality(S)
           N == [k \in S |-> LineNumber(S, k)]
<1>1. c \in Nat /\ \A k \in S : LineNumber(S, k) \in 1 .. c
  BY Counted
<1>2. \A j, k \in S : LineNumber(S, j) = LineNumber(S, k) => j = k
  <2> SUFFICES ASSUME NEW j \in S, NEW k \in S, LineNumber(S, j) = LineNumber(S, k), j # k
               PROVE  FALSE
    OBVIOUS
  <2>1. j \in Nat /\ k \in Nat /\ (j < k \/ k < j)
    OBVIOUS
  <2>2. /\ LineNumber(S, j) \in Nat /\ LineNumber(S, k) \in Nat
        /\ (j < k => LineNumber(S, j) < LineNumber(S, k))
        /\ (k < j => LineNumber(S, k) < LineNumber(S, j))
    BY <2>1, Counted
  <2> QED
    BY <2>1, <2>2
<1> HIDE DEF c
<1>3. N \in Injection(S, 1 .. c)
  BY <1>1, <1>2 DEF Injection, IsInjective
<1>4. IsFiniteSet(1 .. c) /\ Cardinality(1 .. c) = c
  BY <1>1, FS_Interval
<1>5. N \in Surjection(S, 1 .. c)
  <2> HIDE DEF N
  <2> QED
    BY <1>3, <1>4, FS_Injection DEF c
<1> QED
  BY <1>5 DEF Surjection, c

\* The first lines keep their numbers among themselves.
LEMMA NumbersOfFirst ==
  ASSUME NEW S \in SUBSET Nat, NEW A \in SUBSET S,
         \A j \in S, k \in A : j <= k => j \in A
  PROVE  \A k \in A : LineNumber(A, k) = LineNumber(S, k)
<1> SUFFICES ASSUME NEW k \in A PROVE LineNumber(A, k) = LineNumber(S, k)
  OBVIOUS
<1>1. {j \in A : j <= k} = {j \in S : j <= k}
  OBVIOUS
<1> QED
  BY <1>1 DEF LineNumber

LEMMA StartsType ==
  ASSUME NEW f \in Seq(Cells)
  PROVE  /\ Len(f) \in Nat /\ LineStarts(f) \in SUBSET (1 .. Len(f))
         /\ LineStarts(f) \in SUBSET Nat /\ IsFiniteSet(LineStarts(f))
<1>1. Len(f) \in Nat /\ LineStarts(f) \in SUBSET (1 .. Len(f))
  BY LenProperties DEF LineStarts
<1>2. IsFiniteSet(1 .. Len(f))
  BY <1>1, FS_Interval
<1> HIDE DEF LineStarts
<1> QED
  BY <1>1, <1>2, FS_Subset

\* The lines that are read, by their numbers
LEMMA AcceptedLines ==
  ASSUME NEW f \in Seq(Cells)
  PROVE  LET S == LineStarts(f)
             A == Accepted(f, S)
         IN /\ A \in SUBSET S /\ IsFiniteSet(A) /\ Cardinality(A) \in Nat
            /\ Cardinality(A) <= MaxProfiles
            /\ \A k \in A : Parses(LineFrom(f, k)) /\ LineNumber(S, k) \in 1 .. Cardinality(A)
            /\ \A n \in 1 .. Cardinality(A) : \E k \in A : LineNumber(S, k) = n
            /\ \A j, k \in A : LineNumber(S, j) = LineNumber(S, k) => j = k
<1> DEFINE S == LineStarts(f)
           A == Accepted(f, S)
<1>1. S \in SUBSET Nat /\ IsFiniteSet(S)
  BY StartsType
<1> HIDE DEF S
<1>2. /\ A \in SUBSET S
      /\ \A k \in A : LineNumber(S, k) <= MaxProfiles
      /\ \A k \in A : Parses(LineFrom(f, k))
  <2>1. A \in SUBSET S /\ \A k \in A : LineNumber(S, k) <= MaxProfiles
    BY DEF Accepted
  <2>2. ASSUME NEW k \in A, ~Parses(LineFrom(f, k))
        PROVE  FALSE
    <3>1. k \in {j \in S : ~Parses(LineFrom(f, j))}
      BY <2>1, <2>2
    <3>2. k < k
      BY <3>1 DEF Accepted
    <3>3. k \in Nat
      BY <1>1, <2>1
    <3> HIDE DEF A
    <3> QED
      BY <3>2, <3>3
  <2> QED
    BY <2>1, <2>2
<1>3. \A j \in S, k \in A : j <= k => j \in A
  <2> SUFFICES ASSUME NEW j \in S, NEW k \in A, j <= k PROVE j \in A
    OBVIOUS
  <2>1. j \in Nat /\ k \in Nat /\ k \in S
    BY <1>1, <1>2
  <2>2. LineNumber(S, j) <= MaxProfiles
    <3>1. /\ LineNumber(S, j) \in Nat /\ LineNumber(S, k) \in Nat
          /\ (j < k => LineNumber(S, j) < LineNumber(S, k))
      BY <1>1, <2>1, Counted
    <3>2. LineNumber(S, k) <= MaxProfiles /\ MaxProfiles \in Nat
      BY <1>2, FaceDbAssumption
    <3>3. CASE j = k
      BY <3>2, <3>3
    <3>4. CASE j # k
      BY <2>1, <3>1, <3>2, <3>4
    <3> QED
      BY <3>3, <3>4
  <2>3. \A b \in {i \in S : ~Parses(LineFrom(f, i))} : j < b
    <3> SUFFICES ASSUME NEW b \in {i \in S : ~Parses(LineFrom(f, i))} PROVE j < b
      OBVIOUS
    <3>1. k < b /\ b \in Nat
      BY <1>1 DEF Accepted
    <3> QED
      BY <2>1, <3>1
  <2> QED
    BY <2>2, <2>3 DEF Accepted
<1> HIDE DEF A
<1>4. \A k \in A : LineNumber(A, k) = LineNumber(S, k)
  BY <1>1, <1>2, <1>3, NumbersOfFirst
<1>5. IsFiniteSet(A) /\ A \in SUBSET Nat
  BY <1>1, <1>2, FS_Subset
<1>6. /\ Cardinality(A) \in Nat /\ \A k \in A : LineNumber(A, k) \in 1 .. Cardinality(A)
      /\ \A n \in 1 .. Cardinality(A) : \E k \in A : LineNumber(A, k) = n
  <2>1. /\ Cardinality(A) \in Nat
        /\ \A k \in Nat : LineNumber(A, k) \in Nat /\ LineNumber(A, k) <= Cardinality(A)
        /\ \A k \in A : LineNumber(A, k) >= 1
    BY <1>5, Counted
  <2>2. \A k \in A : k \in Nat
    BY <1>5
  <2>3. \A n \in 1 .. Cardinality(A) : \E k \in A : LineNumber(A, k) = n
    BY <1>5, Numbered
  <2> QED
    BY <2>1, <2>2, <2>3
<1>7. \A j, k \in A : LineNumber(S, j) = LineNumber(S, k) => j = k
  <2> SUFFICES ASSUME NEW j \in A, NEW k \in A, LineNumber(S, j) = LineNumber(S, k), j # k
               PROVE  FALSE
    OBVIOUS
  <2>1. j \in Nat /\ k \in Nat /\ j \in S /\ k \in S /\ (j < k \/ k < j)
    BY <1>2, <1>5
  <2>2. /\ LineNumber(S, j) \in Nat /\ LineNumber(S, k) \in Nat
        /\ (j < k => LineNumber(S, j) < LineNumber(S, k))
        /\ (k < j => LineNumber(S, k) < LineNumber(S, j))
    BY <1>1, <2>1, Counted
  <2> QED
    BY <2>1, <2>2
<1>8. Cardinality(A) <= MaxProfiles
  <2>1. CASE Cardinality(A) = 0
    BY <2>1, FaceDbAssumption
  <2>2. CASE Cardinality(A) # 0
    <3>1. Cardinality(A) \in 1 .. Cardinality(A)
      BY <1>6, <2>2
    <3>2. PICK k \in A : LineNumber(A, k) = Cardinality(A)
      BY <1>6, <3>1
    <3> QED
      BY <1>2, <1>4, <3>2
  <2> QED
    BY <2>1, <2>2
<1> QED
  BY <1>2, <1>4, <1>5, <1>6, <1>7, <1>8 DEF S, A

\* The k-th line of the text has the number k.
LEMMA TextNumber ==
  ASSUME NEW f \in Seq(Cells), NEW p \in Seq(Profiles), NEW e, Spells(f, p, e),
         NEW n \in 1 .. Len(p)
  PROVE  e[n - 1] + 1 \in LineStarts(f) /\ LineNumber(LineStarts(f), e[n - 1] + 1) = n
<1> DEFINE s(i) == e[i - 1] + 1
           S == LineStarts(f)
           U == {j \in S : j <= s(n)}
           B == [i \in 1 .. n |-> s(i)]
<1>1. /\ Len(f) \in Nat /\ Len(p) \in Nat
      /\ \A k \in 0 .. Len(p) : e[k] \in Nat /\ e[k] <= Len(f)
      /\ \A k \in 1 .. Len(p) : e[k - 1] + 3 <= e[k]
      /\ \A j, k \in 0 .. Len(p) : j < k => e[j] < e[k]
  BY LenProperties, EndsGrow
<1>2. \A i \in 1 .. Len(p) : s(i) \in Nat /\ s(i) \in 1 .. e[Len(p)]
  <2> SUFFICES ASSUME NEW i \in 1 .. Len(p) PROVE s(i) \in Nat /\ s(i) \in 1 .. e[Len(p)]
    OBVIOUS
  <2>1. i \in Nat /\ i - 1 \in 0 .. Len(p) /\ Len(p) \in 0 .. Len(p) /\ i - 1 < Len(p)
    BY <1>1
  <2>2. e[i - 1] \in Nat /\ e[Len(p)] \in Nat /\ e[i - 1] < e[Len(p)]
    BY <1>1, <2>1
  <2> QED
    BY <2>2
<1>3. \A i \in 1 .. Len(p) : s(i) \in S
  BY <1>2, TextStarts
<1>4. \A i, j \in 1 .. Len(p) : i < j => s(i) < s(j)
  <2> SUFFICES ASSUME NEW i \in 1 .. Len(p), NEW j \in 1 .. Len(p), i < j
               PROVE  s(i) < s(j)
    OBVIOUS
  <2>1. i - 1 \in 0 .. Len(p) /\ j - 1 \in 0 .. Len(p) /\ i - 1 < j - 1
    BY <1>1
  <2>2. e[i - 1] \in Nat /\ e[j - 1] \in Nat /\ e[i - 1] < e[j - 1]
    BY <1>1, <2>1
  <2> QED
    BY <2>2
<1>5. \A j \in U : \E i \in 1 .. n : j = s(i)
  <2> SUFFICES ASSUME NEW j \in S, j <= s(n)
               PROVE  \E i \in 1 .. n : j = s(i)
    OBVIOUS
  <2>1. j \in Nat /\ j >= 1 /\ s(n) \in 1 .. e[Len(p)] /\ s(n) \in Nat
    BY <1>2, StartsType
  <2>2. j \in 1 .. e[Len(p)]
    <3>1. e[Len(p)] \in Nat
      <4>1. Len(p) \in 0 .. Len(p)
        BY <1>1
      <4> QED
        BY <1>1, <4>1
    <3> HIDE DEF s
    <3> QED
      BY <2>1, <3>1
  <2>3. PICK i \in 1 .. Len(p) : j = s(i)
    BY <2>2, TextStarts
  <2>4. i <= n
    <3>1. i \in Nat /\ n \in Nat /\ (n < i => s(n) < s(i)) /\ s(i) \in Nat
      BY <1>1, <1>2, <1>4
    <3> HIDE DEF s
    <3> QED
      BY <2>1, <2>3, <3>1
  <2> QED
    BY <1>1, <2>3, <2>4
<1>6. \A i \in 1 .. n : s(i) \in U
  <2> SUFFICES ASSUME NEW i \in 1 .. n PROVE s(i) \in U
    OBVIOUS
  <2>1. i \in 1 .. Len(p) /\ i <= n /\ i \in Nat /\ n \in Nat
    BY <1>1
  <2>2. s(i) \in Nat /\ s(n) \in Nat /\ (i < n => s(i) < s(n))
    BY <1>2, <1>4, <2>1
  <2>3. s(i) <= s(n)
    <3>1. CASE i = n
      BY <3>1, <2>2
    <3>2. CASE i # n
      <4> HIDE DEF s
      <4> QED
        BY <2>1, <2>2, <3>2
    <3> QED
      BY <3>1, <3>2
  <2> QED
    BY <1>3, <2>1, <2>3
<1>7. \A i, j \in 1 .. n : s(i) = s(j) => i = j
  <2> SUFFICES ASSUME NEW i \in 1 .. n, NEW j \in 1 .. n, s(i) = s(j), i # j
               PROVE  FALSE
    OBVIOUS
  <2>1. i \in 1 .. Len(p) /\ j \in 1 .. Len(p) /\ (i < j \/ j < i)
    BY <1>1
  <2>2. s(i) \in Nat /\ (i < j => s(i) < s(j)) /\ (j < i => s(j) < s(i))
    BY <1>2, <1>4, <2>1
  <2> HIDE DEF s
  <2> QED
    BY <2>1, <2>2
<1> HIDE DEF s, U
<1>8. B \in Bijection(1 .. n, U)
  <2>1. B \in [1 .. n -> U]
    BY <1>6
  <2>2. B \in Injection(1 .. n, U)
    BY <1>7, <2>1 DEF Injection, IsInjective
  <2>3. B \in Surjection(1 .. n, U)
    BY <1>5, <2>1 DEF Surjection
  <2> QED
    BY <2>2, <2>3 DEF Bijection
<1>9. Cardinality(U) = n
  <2>1. n \in Nat /\ n >= 1
    BY <1>1
  <2>2. IsFiniteSet(1 .. n) /\ Cardinality(1 .. n) = n
    BY <2>1, FS_Interval
  <2>3. ExistsBijection(1 .. n, U)
    BY <1>8 DEF ExistsBijection
  <2> QED
    BY <2>2, <2>3, FS_Bijection
<1> QED
  BY <1>3, <1>9 DEF U, s, LineNumber

\* A function on 1 .. n is a sequence.
LEMMA FunSeq ==
  ASSUME NEW T, NEW n \in Nat, NEW g \in [1 .. n -> T]
  PROVE  g \in Seq(T) /\ Len(g) = n
<1>1. g \in Seq(T)
  BY SeqDef
<1>2. DOMAIN g = 1 .. n /\ DOMAIN g = 1 .. Len(g) /\ Len(g) \in Nat
  BY <1>1, LenProperties
<1> QED
  BY <1>1, <1>2

\* What is read of any file is a table.
LEMMA LoadType ==
  ASSUME NEW f \in Seq(Cells)
  PROVE  /\ Load(f) \in Seq(Profiles) /\ Len(Load(f)) <= MaxProfiles
         /\ Len(Load(f)) = Cardinality(Accepted(f, LineStarts(f)))
         /\ \A n \in 1 .. Len(Load(f)) : \E k \in Accepted(f, LineStarts(f)) :
              /\ LineNumber(LineStarts(f), k) = n
              /\ Load(f)[n] = [id |-> LineFrom(f, k)[1], name |-> Tail(LineFrom(f, k))]
<1> DEFINE S == LineStarts(f)
           A == Accepted(f, S)
           c == Cardinality(A)
           At(n) == CHOOSE k \in A : LineNumber(S, k) = n
           profile(l) == [id |-> l[1], name |-> Tail(l)]
           g == [n \in 1 .. c |-> profile(LineFrom(f, At(n)))]
<1>1. /\ A \in SUBSET S /\ c \in Nat /\ c <= MaxProfiles
      /\ \A k \in A : Parses(LineFrom(f, k))
      /\ \A n \in 1 .. c : \E k \in A : LineNumber(S, k) = n
  BY AcceptedLines
<1>2. Load(f) = g
  BY DEF Load
<1> HIDE DEF A, S
<1>3. \A n \in 1 .. c : At(n) \in A /\ LineNumber(S, At(n)) = n
  BY <1>1
<1>4. ASSUME NEW k \in A
      PROVE  profile(LineFrom(f, k)) \in Profiles
  <2>1. k \in LineStarts(f) /\ Parses(LineFrom(f, k))
    BY <1>1 DEF S
  <2>2. k \in 1 .. Len(f)
    BY <2>1, LineExists
  <2>3. PICK m \in k .. Len(f) : (\A i \in k .. m : f[i] # NL) /\ LineFrom(f, k) = SubSeq(f, k, m)
    BY <2>1, LineExists
  <2>4. LineFrom(f, k) \in Seq(Letters)
    BY <2>2, <2>3, LineCells
  <2> DEFINE l == LineFrom(f, k)
  <2>5. l[1] \in Ids /\ Len(l) > 1
    BY <2>1 DEF Parses
  <2> HIDE DEF l
  <2>6. l \in Seq(Letters) /\ l # << >> /\ Len(l) \in Nat
    <3>1. l \in Seq(Letters)
      BY <2>4 DEF l
    <3>2. Len(l) \in Nat
      BY <3>1, LenProperties
    <3>3. l # << >>
      BY <2>5, <3>2, EmptySeq
    <3> QED
      BY <3>1, <3>2, <3>3
  <2>7. Tail(l) \in Seq(Letters) /\ Len(Tail(l)) = Len(l) - 1
    BY <2>6, HeadTailProperties
  <2>8. Len(Tail(l)) > 0
    BY <2>5, <2>6, <2>7
  <2> QED
    BY <2>5, <2>7, <2>8 DEF Profiles, l
<1> HIDE DEF At, profile, c
<1>5. g \in [1 .. c -> Profiles]
  BY <1>3, <1>4
<1>6. g \in Seq(Profiles) /\ Len(g) = c
  <2> HIDE DEF g
  <2> QED
    BY <1>1, <1>5, FunSeq
<1>7. \A n \in 1 .. c : g[n] = profile(LineFrom(f, At(n)))
  OBVIOUS
<1>8. \A n \in 1 .. c : \E k \in A : LineNumber(S, k) = n /\ g[n] = profile(LineFrom(f, k))
  <2> HIDE DEF g
  <2> QED
    BY <1>3, <1>7
<1> HIDE DEF g
<1> QED
  BY <1>1, <1>2, <1>6, <1>8 DEF c, A, S, profile

\* Whatever follows it, a text is read as the table it was printed from.
LEMMA TextLoad ==
  ASSUME NEW f \in Seq(Cells), NEW p \in Seq(Profiles), NEW n, Text(f, p, n),
         Len(p) <= MaxProfiles
  PROVE  /\ Len(p) <= Len(Load(f))
         /\ \A k \in 1 .. Len(p) : Load(f)[k] = p[k]
         /\ n = Len(f) => Load(f) = p
<1> DEFINE S == LineStarts(f)
           A == Accepted(f, S)
           t == Load(f)
<1>1. PICK e : Spells(f, p, e) /\ e[Len(p)] = n
  BY DEF Text
<1>2. Len(p) \in Nat /\ MaxProfiles \in Nat /\ \A k \in 1 .. Len(p) : p[k] \in Profiles
  BY LenProperties, ElementOfSeq, FaceDbAssumption
<1>3. \A k \in 1 .. Len(p) : e[k - 1] + 1 \in S /\ LineNumber(S, e[k - 1] + 1) = k
  BY <1>1, TextNumber
<1>4. S \in SUBSET Nat /\ S \in SUBSET (1 .. Len(f)) /\ IsFiniteSet(S)
  BY StartsType
<1>5. \A k \in 1 .. Len(p) : LET l == LineFrom(f, e[k - 1] + 1)
                             IN Parses(l) /\ l[1] = p[k].id /\ Tail(l) = p[k].name
  BY <1>1, TextLine
<1>6. /\ t \in Seq(Profiles) /\ Len(t) = Cardinality(A)
      /\ \A k \in 1 .. Len(t) : \E j \in A :
           /\ LineNumber(S, j) = k
           /\ t[k] = [id |-> LineFrom(f, j)[1], name |-> Tail(LineFrom(f, j))]
  BY LoadType
<1>7. /\ A \in SUBSET S /\ \A k \in A : LineNumber(S, k) \in 1 .. Cardinality(A)
      /\ \A j, k \in A : LineNumber(S, j) = LineNumber(S, k) => j = k
  BY AcceptedLines
<1> HIDE DEF S, t
<1>8. ASSUME NEW k \in 1 .. Len(p)
      PROVE  e[k - 1] + 1 \in A
  <2>1. LineNumber(S, e[k - 1] + 1) <= MaxProfiles
    BY <1>2, <1>3
  <2>2. ASSUME NEW b \in S, ~Parses(LineFrom(f, b)), ~(e[k - 1] + 1 < b)
        PROVE  FALSE
    <3>1. e[k - 1] \in Nat /\ \A j, m \in 0 .. Len(p) : j < m => e[j] < e[m]
      <4>1. Len(f) \in Nat
        BY LenProperties
      <4>2. /\ \A j \in 0 .. Len(p) : e[j] \in Nat
            /\ \A j, m \in 0 .. Len(p) : j < m => e[j] < e[m]
        BY <1>1, <4>1, EndsGrow
      <4>3. k - 1 \in 0 .. Len(p)
        BY <1>2
      <4> QED
        BY <4>2, <4>3
    <3>2. b \in Nat /\ b >= 1 /\ b <= e[k - 1] + 1
      <4>1. b \in Nat /\ b \in 1 .. Len(f)
        BY <1>4
      <4> QED
        BY <2>2, <3>1, <4>1
    <3>3. e[k - 1] + 1 <= e[Len(p)] /\ e[Len(p)] \in Nat
      <4>1. k - 1 \in 0 .. Len(p) /\ Len(p) \in 0 .. Len(p) /\ k - 1 < Len(p)
        BY <1>2
      <4>2. e[k - 1] < e[Len(p)]
        BY <3>1, <4>1
      <4>3. e[Len(p)] \in Nat
        BY <1>1, <4>1 DEF Spells
      <4> QED
        BY <3>1, <4>2, <4>3
    <3>4. b \in 1 .. e[Len(p)]
      BY <3>1, <3>2, <3>3
    <3>5. PICK i \in 1 .. Len(p) : b = e[i - 1] + 1
      BY <1>1, <3>4, TextStarts DEF S
    <3> QED
      BY <1>5, <2>2, <3>5
  <2> QED
    BY <1>3, <2>1, <2>2 DEF Accepted
<1> HIDE DEF A
<1>9. Len(p) <= Len(t)
  <2>1. CASE Len(p) = 0
    BY <1>6, <2>1, LenProperties
  <2>2. CASE Len(p) # 0
    <3>1. Len(p) \in 1 .. Len(p)
      BY <1>2, <2>2
    <3>2. Len(p) \in 1 .. Cardinality(A)
      BY <1>3, <1>7, <1>8, <3>1
    <3> QED
      BY <1>6, <3>2
  <2> QED
    BY <2>1, <2>2
<1>10. ASSUME NEW k \in 1 .. Len(p)
       PROVE  t[k] = p[k]
  <2>1. k \in 1 .. Len(t) /\ t[k] \in Profiles
    <3>1. Len(t) \in Nat
      BY <1>6, LenProperties
    <3>2. k \in 1 .. Len(t)
      BY <1>2, <1>9, <3>1
    <3> QED
      BY <1>6, <3>2, ElementOfSeq
  <2>2. PICK j \in A : /\ LineNumber(S, j) = k
                       /\ t[k] = [id |-> LineFrom(f, j)[1], name |-> Tail(LineFrom(f, j))]
    BY <1>6, <2>1
  <2>3. j = e[k - 1] + 1
    BY <1>3, <1>7, <1>8, <2>2
  <2>4. t[k] = [id |-> p[k].id, name |-> p[k].name]
    BY <1>5, <2>2, <2>3
  <2>5. p[k] = [id |-> p[k].id, name |-> p[k].name]
    BY <1>2 DEF Profiles
  <2> QED
    BY <2>4, <2>5
<1>11. ASSUME n = Len(f)
       PROVE  t = p
  <2>1. Len(t) \in Nat
    BY <1>6, LenProperties
  <2>2. ASSUME Len(t) > Len(p)
        PROVE  FALSE
    <3>1. Len(p) + 1 \in 1 .. Len(t)
      BY <1>2, <2>1, <2>2
    <3>2. PICK j \in A : LineNumber(S, j) = Len(p) + 1
      BY <1>6, <3>1
    <3>3. j \in S /\ j \in 1 .. Len(f)
      BY <1>4, <1>7
    <3>4. j \in 1 .. e[Len(p)]
      BY <1>1, <1>11, <3>3
    <3>5. PICK i \in 1 .. Len(p) : j = e[i - 1] + 1
      BY <1>1, <3>3, <3>4, TextStarts DEF S
    <3>6. i = Len(p) + 1
      BY <1>3, <3>2, <3>5
    <3> QED
      BY <1>2, <3>6
  <2>3. Len(t) = Len(p)
    BY <1>2, <1>9, <2>1, <2>2
  <2> QED
    BY <1>6, <1>10, <2>3, SeqEqual
<1> QED
  BY <1>9, <1>10, <1>11 DEF t

-----------------------------------------------------------------------------
(* How a text grows *)

LEMMA TextEmpty ==
  ASSUME NEW f, Len(f) \in Nat
  PROVE  << >> \in Seq(Profiles) /\ Text(f, << >>, 0)
<1> DEFINE e == [i \in 0 .. 0 |-> 0]
<1>1. << >> \in Seq(Profiles) /\ Len(<< >>) = 0
  BY EmptySeq
<1>2. e \in [0 .. 0 -> 0 .. Len(f)] /\ e[0] = 0
  OBVIOUS
<1> HIDE DEF e
<1>3. Spells(f, << >>, e)
  <2>1. 1 .. 0 = {}
    OBVIOUS
  <2> QED
    BY <1>1, <1>2, <2>1 DEF Spells
<1> QED
  BY <1>1, <1>2, <1>3 DEF Text

\* A text depends only on its own cells.
LEMMA TextSame ==
  ASSUME NEW f, NEW g, NEW p \in Seq(Profiles), NEW n, Text(f, p, n),
         Len(f) \in Nat, Len(g) \in Nat, n <= Len(g), \A i \in 1 .. n : g[i] = f[i]
  PROVE  Text(g, p, n)
<1>1. PICK e : Spells(f, p, e) /\ e[Len(p)] = n
  BY DEF Text
<1>2. /\ Len(p) \in Nat
      /\ \A k \in 0 .. Len(p) : e[k] \in Nat
      /\ \A k \in 1 .. Len(p) : e[k - 1] + 3 <= e[k]
      /\ \A j, k \in 0 .. Len(p) : j < k => e[j] < e[k]
      /\ \A k \in 1 .. Len(p) : p[k] \in Profiles
  BY <1>1, EndsGrow, ElementOfSeq
<1>3. n \in Nat /\ \A k \in 0 .. Len(p) : e[k] <= n
  <2>1. Len(p) \in 0 .. Len(p) /\ n \in Nat
    BY <1>1, <1>2
  <2>2. ASSUME NEW k \in 0 .. Len(p)
        PROVE  e[k] <= n
    <3>1. k = Len(p) \/ k < Len(p)
      BY <1>2
    <3>2. k < Len(p) => e[k] < e[Len(p)]
      BY <1>2, <2>1
    <3>3. e[k] \in Nat /\ e[Len(p)] = n
      BY <1>1, <1>2
    <3>4. CASE k = Len(p)
      BY <1>1, <2>1, <3>4
    <3>5. CASE k < Len(p)
      BY <2>1, <3>2, <3>3, <3>5
    <3> QED
      BY <3>1, <3>4, <3>5
  <2> QED
    BY <2>1, <2>2
<1>4. e \in [0 .. Len(p) -> 0 .. Len(g)] /\ e[0] = 0
  <2>1. e \in [0 .. Len(p) -> 0 .. Len(f)] /\ e[0] = 0
    BY <1>1 DEF Spells
  <2>2. \A k \in 0 .. Len(p) : e[k] \in 0 .. Len(g)
    BY <1>2, <1>3
  <2> QED
    BY <2>1, <2>2
<1>5. ASSUME NEW k \in 1 .. Len(p)
      PROVE  /\ e[k] = e[k - 1] + Len(p[k].name) + 2
             /\ g[e[k - 1] + 1] = p[k].id
             /\ \A i \in 1 .. Len(p[k].name) : g[e[k - 1] + 1 + i] = p[k].name[i]
             /\ g[e[k]] = NL
  <2> DEFINE a == e[k - 1]
             b == e[k]
             c == Len(p[k].name)
  <2>1. /\ b = a + c + 2 /\ f[a + 1] = p[k].id /\ f[b] = NL
        /\ \A i \in 1 .. c : f[a + 1 + i] = p[k].name[i]
    BY <1>1 DEF Spells
  <2>2. a \in Nat /\ b \in Nat /\ b <= n /\ c \in Nat
    <3>1. k - 1 \in 0 .. Len(p) /\ k \in 0 .. Len(p)
      BY <1>2
    <3> QED
      BY <1>2, <1>3, <3>1, LineType
  <2> HIDE DEF a, b, c
  <2>3. a + 1 \in 1 .. n /\ b \in 1 .. n /\ \A i \in 1 .. c : a + 1 + i \in 1 .. n
    BY <1>3, <2>1, <2>2
  <2>4. g[a + 1] = f[a + 1] /\ g[b] = f[b] /\ \A i \in 1 .. c : g[a + 1 + i] = f[a + 1 + i]
    BY <2>3
  <2>5. g[a + 1] = p[k].id /\ g[b] = NL /\ \A i \in 1 .. c : g[a + 1 + i] = p[k].name[i]
    BY <2>1, <2>4
  <2> QED
    BY <2>1, <2>5 DEF a, b, c
<1> QED
  BY <1>1, <1>4, <1>5 DEF Text, Spells

LEMMA LineOfCells ==
  ASSUME NEW q \in Profiles
  PROVE  /\ LineOf(q) \in Seq(Cells) /\ Len(LineOf(q)) = Len(q.name) + 2
         /\ Len(q.name) \in Nat
         /\ LineOf(q)[1] = q.id /\ LineOf(q)[Len(q.name) + 2] = NL
         /\ \A i \in 1 .. Len(q.name) : LineOf(q)[1 + i] = q.name[i]
<1> DEFINE n == Len(q.name)
           h == <<q.id>>
           a == h \o q.name
           z == <<NL>>
<1>1. q.id \in Ids /\ q.name \in Seq(Letters) /\ n \in Nat
  BY LineType
<1>2. Letters \subseteq Cells /\ NL \in Cells /\ Ids \subseteq Cells
  BY DEF Letters, Cells
<1>3. q.name \in Seq(Cells)
  BY <1>1, <1>2, SeqMonotonic
<1>4. h \in Seq(Cells) /\ Len(h) = 1 /\ h[1] = q.id
  BY <1>1, <1>2
<1>5. z \in Seq(Cells) /\ Len(z) = 1 /\ z[1] = NL
  BY <1>2
<1> HIDE DEF h, z
<1>6. /\ a \in Seq(Cells) /\ Len(a) = 1 + n
      /\ \A i \in 1 .. 1 + n : a[i] = IF i <= 1 THEN h[i] ELSE q.name[i - 1]
  <2>1. /\ a \in Seq(Cells) /\ Len(a) = Len(h) + Len(q.name)
        /\ \A i \in 1 .. Len(h) + Len(q.name) :
             a[i] = IF i <= Len(h) THEN h[i] ELSE q.name[i - Len(h)]
    BY <1>3, <1>4, ConcatProperties
  <2> QED
    BY <1>4, <2>1
<1> HIDE DEF a, n
<1>7. /\ a \o z \in Seq(Cells) /\ Len(a \o z) = n + 2
      /\ \A i \in 1 .. n + 2 : (a \o z)[i] = IF i <= 1 + n THEN a[i] ELSE z[i - (1 + n)]
  <2>1. /\ a \o z \in Seq(Cells) /\ Len(a \o z) = Len(a) + Len(z)
        /\ \A i \in 1 .. Len(a) + Len(z) :
             (a \o z)[i] = IF i <= Len(a) THEN a[i] ELSE z[i - Len(a)]
    BY <1>5, <1>6, ConcatProperties
  <2>2. Len(a) = 1 + n /\ Len(z) = 1 /\ 1 + n + 1 = n + 2
    BY <1>1, <1>5, <1>6
  <2>3. Len(a) + Len(z) = n + 2
    BY <2>2
  <2> QED
    BY <2>1, <2>2, <2>3
<1> DEFINE l == a \o z
<1>8. LineOf(q) = l
  BY DEF LineOf, a, h, z
<1>9. l[1] = q.id
  <2>1. l[1] = a[1] /\ a[1] = h[1]
    BY <1>1, <1>6, <1>7
  <2> QED
    BY <1>4, <2>1
<1>10. l[n + 2] = NL
  <2>1. n + 2 \in 1 .. n + 2 /\ ~(n + 2 <= 1 + n) /\ n + 2 - (1 + n) = 1
    BY <1>1
  <2> DEFINE j == n + 2
  <2>2. j \in 1 .. n + 2 /\ ~(j <= 1 + n) /\ j - (1 + n) = 1
    BY <1>1
  <2> HIDE DEF j
  <2>3. l[j] = z[j - (1 + n)]
    BY <1>7, <2>2
  <2>4. l[j] = NL
    BY <1>5, <2>2, <2>3
  <2> QED
    BY <2>4 DEF j
<1>11. \A i \in 1 .. n : l[1 + i] = q.name[i]
  <2> SUFFICES ASSUME NEW i \in 1 .. n PROVE l[1 + i] = q.name[i]
    OBVIOUS
  <2>1. 1 + i \in 1 .. n + 2 /\ 1 + i \in 1 .. 1 + n /\ 1 + i <= 1 + n /\ ~(1 + i <= 1) /\ 1 + i - 1 = i
    BY <1>1
  <2>2. l[1 + i] = a[1 + i]
    BY <1>7, <2>1
  <2>3. a[1 + i] = q.name[1 + i - 1]
    BY <1>6, <2>1
  <2> QED
    BY <2>1, <2>2, <2>3
<1> HIDE DEF l
<1> QED
  BY <1>1, <1>7, <1>8, <1>9, <1>10, <1>11 DEF l, n

\* A line printed behind a text shows one more profile.
LEMMA TextMore ==
  ASSUME NEW f, NEW g, NEW p \in Seq(Profiles), NEW n, Text(f, p, n), NEW q \in Profiles,
         Len(f) \in Nat, Len(g) \in Nat, n \in Nat, n + Len(LineOf(q)) <= Len(g),
         \A i \in 1 .. n : g[i] = f[i],
         \A i \in 1 .. Len(LineOf(q)) : g[n + i] = LineOf(q)[i]
  PROVE  Text(g, Append(p, q), n + Len(LineOf(q)))
<1> DEFINE w == Len(q.name)
           N == Len(p)
           r == Append(p, q)
<1>1. /\ w \in Nat /\ Len(LineOf(q)) = w + 2
      /\ LineOf(q)[1] = q.id /\ LineOf(q)[w + 2] = NL
      /\ \A i \in 1 .. w : LineOf(q)[1 + i] = q.name[i]
  BY LineOfCells
<1> HIDE DEF w
<1>2. n <= Len(g) /\ n + w + 2 <= Len(g)
  BY <1>1
<1>3. PICK e : Spells(g, p, e) /\ e[N] = n
  <2>1. Text(g, p, n)
    BY <1>2, TextSame
  <2> QED
    BY <2>1 DEF Text
<1>4. N \in Nat /\ \A k \in 0 .. N : e[k] \in Nat /\ e[k] <= Len(g)
  BY <1>3, EndsGrow
<1>5. /\ Len(r) = N + 1 /\ r[N + 1] = q /\ \A k \in 1 .. N : r[k] = p[k]
  BY AppendProperties
<1> HIDE DEF r
<1> DEFINE h == [k \in 0 .. N + 1 |-> IF k <= N THEN e[k] ELSE n + w + 2]
<1>6. /\ h \in [0 .. N + 1 -> 0 .. Len(g)] /\ h[0] = 0
      /\ h[N + 1] = n + w + 2 /\ \A k \in 0 .. N : h[k] = e[k]
  <2>1. \A k \in 0 .. N + 1 : (IF k <= N THEN e[k] ELSE n + w + 2) \in 0 .. Len(g)
    <3> SUFFICES ASSUME NEW k \in 0 .. N + 1
                 PROVE  (IF k <= N THEN e[k] ELSE n + w + 2) \in 0 .. Len(g)
      OBVIOUS
    <3>1. CASE k <= N
      <4>1. k \in 0 .. N
        BY <1>4, <3>1
      <4>2. e[k] \in 0 .. Len(g)
        BY <1>4, <4>1
      <4> QED
        BY <3>1, <4>2
    <3>2. CASE ~(k <= N)
      BY <1>1, <1>2, <3>2
    <3> QED
      BY <3>1, <3>2
  <2>2. h \in [0 .. N + 1 -> 0 .. Len(g)]
    BY <2>1
  <2>3. 0 \in 0 .. N + 1 /\ N + 1 \in 0 .. N + 1 /\ 0 <= N /\ ~(N + 1 <= N)
    BY <1>4
  <2>4. \A k \in 0 .. N : h[k] = e[k]
    BY <1>4
  <2>5. e[0] = 0
    BY <1>3 DEF Spells
  <2> QED
    BY <2>2, <2>3, <2>4, <2>5
<1> HIDE DEF h
<1>7. ASSUME NEW k \in 1 .. N + 1
      PROVE  /\ h[k] = h[k - 1] + Len(r[k].name) + 2
             /\ g[h[k - 1] + 1] = r[k].id
             /\ \A i \in 1 .. Len(r[k].name) : g[h[k - 1] + 1 + i] = r[k].name[i]
             /\ g[h[k]] = NL
  <2>1. CASE k \in 1 .. N
    <3>1. k \in 0 .. N /\ k - 1 \in 0 .. N
      BY <1>4, <2>1
    <3>2. h[k] = e[k] /\ h[k - 1] = e[k - 1] /\ r[k] = p[k]
      BY <1>5, <1>6, <2>1, <3>1
    <3>3. /\ e[k] = e[k - 1] + Len(p[k].name) + 2
          /\ g[e[k - 1] + 1] = p[k].id
          /\ \A i \in 1 .. Len(p[k].name) : g[e[k - 1] + 1 + i] = p[k].name[i]
          /\ g[e[k]] = NL
      BY <1>3, <2>1 DEF Spells
    <3> QED
      BY <3>2, <3>3
  <2>2. CASE k = N + 1
    <3>1. k - 1 = N /\ N \in 0 .. N
      BY <1>4, <2>2
    <3>2. h[k] = n + w + 2 /\ h[k - 1] = n /\ r[k] = q
      BY <1>3, <1>5, <1>6, <2>2, <3>1
    <3>3. g[n + 1] = q.id /\ g[n + w + 2] = NL
      <4>1. 1 \in 1 .. Len(LineOf(q)) /\ w + 2 \in 1 .. Len(LineOf(q)) /\ n + (w + 2) = n + w + 2
        BY <1>1
      <4>2. g[n + 1] = LineOf(q)[1] /\ g[n + (w + 2)] = LineOf(q)[w + 2]
        BY <4>1
      <4> QED
        BY <1>1, <4>1, <4>2
    <3>4. \A i \in 1 .. w : g[n + 1 + i] = q.name[i]
      <4> SUFFICES ASSUME NEW i \in 1 .. w PROVE g[n + 1 + i] = q.name[i]
        OBVIOUS
      <4>1. 1 + i \in 1 .. Len(LineOf(q)) /\ n + (1 + i) = n + 1 + i
        BY <1>1
      <4>2. g[n + (1 + i)] = LineOf(q)[1 + i]
        BY <4>1
      <4> QED
        BY <1>1, <4>1, <4>2
    <3> QED
      BY <3>2, <3>3, <3>4 DEF w
  <2> QED
    BY <1>4, <2>1, <2>2
<1>8. Spells(g, r, h)
  BY <1>5, <1>6, <1>7 DEF Spells
<1>9. h[Len(r)] = n + Len(LineOf(q))
  <2>1. n + w + 2 = n + (w + 2)
    BY <1>1
  <2> QED
    BY <1>1, <1>5, <1>6, <2>1
<1> QED
  BY <1>8, <1>9 DEF Text, r

-----------------------------------------------------------------------------
(* What is written *)

LEMMA WrittenCells ==
  ASSUME NEW f \in Seq(Cells), NEW o \in Nat, NEW s \in Seq(Cells)
  PROVE  LET g == Written(f, o, s)
         IN /\ g \in Seq(Cells) /\ Len(g) \in Nat /\ Len(s) \in Nat /\ Len(f) \in Nat
            /\ s = << >> => g = f
            /\ o <= Len(f) =>
                 /\ Len(g) >= Len(f) /\ Len(g) >= o + Len(s)
                 /\ Len(g) = Len(f) \/ Len(g) = o + Len(s)
                 /\ \A i \in 1 .. o : g[i] = f[i]
                 /\ \A i \in 1 .. Len(s) : g[o + i] = s[i]
                 /\ \A i \in o + Len(s) + 1 .. Len(f) : g[i] = f[i]
<1> DEFINE a == Len(f)
           b == Len(s)
           c == Max({a, o + b})
           x(k) == CASE k \in o + 1 .. o + b -> s[k - o]
                     [] k \in 1 .. o /\ k > a -> Nul
                     [] OTHER -> f[k]
           g == [k \in 1 .. c |-> x(k)]
<1>1. a \in Nat /\ b \in Nat /\ (\A k \in 1 .. a : f[k] \in Cells) /\ \A k \in 1 .. b : s[k] \in Cells
  BY LenProperties, ElementOfSeq
<1>2. s # << >> => Written(f, o, s) = g
  BY DEF Written
<1>3. s = << >> => Written(f, o, s) = f /\ b = 0
  BY EmptySeq DEF Written
<1>4. c \in Nat /\ c >= a /\ c >= o + b /\ (c = a \/ c = o + b)
  <2>1. a \in Int /\ o + b \in Int
    BY <1>1
  <2> HIDE DEF a, b
  <2> QED
    BY <1>1, <2>1, MaxOfTwo
<1> HIDE DEF a, b, c
<1>5. \A k \in 1 .. c : x(k) \in Cells
  <2> SUFFICES ASSUME NEW k \in 1 .. c PROVE x(k) \in Cells
    OBVIOUS
  <2>1. CASE k \in o + 1 .. o + b
    <3>1. k - o \in 1 .. b
      BY <1>1, <2>1
    <3> QED
      BY <1>1, <2>1, <3>1
  <2>2. CASE k \notin o + 1 .. o + b /\ k \in 1 .. o /\ k > a
    BY <2>2 DEF Cells
  <2>3. CASE k \notin o + 1 .. o + b /\ ~(k \in 1 .. o /\ k > a)
    <3>1. k \in 1 .. a
      BY <1>1, <1>4, <2>3
    <3> QED
      BY <1>1, <2>3, <3>1
  <2> QED
    BY <2>1, <2>2, <2>3
<1>6. g \in Seq(Cells) /\ Len(g) = c
  <2>1. g \in [1 .. c -> Cells]
    BY <1>5
  <2> HIDE DEF g
  <2> QED
    BY <1>4, <2>1, FunSeq
<1>7. ASSUME o <= a
      PROVE  /\ \A i \in 1 .. o : g[i] = f[i]
             /\ \A i \in 1 .. b : g[o + i] = s[i]
             /\ \A i \in o + b + 1 .. a : g[i] = f[i]
  <2>1. ASSUME NEW i \in 1 .. o PROVE g[i] = f[i]
    <3>1. i \in 1 .. c /\ i \notin o + 1 .. o + b /\ ~(i > a)
      BY <1>1, <1>4, <1>7
    <3> QED
      BY <3>1
  <2>2. ASSUME NEW i \in 1 .. b PROVE g[o + i] = s[i]
    <3>1. o + i \in 1 .. c /\ o + i \in o + 1 .. o + b /\ o + i - o = i
      BY <1>1, <1>4, <1>7
    <3>2. x(o + i) = s[o + i - o]
      BY <3>1
    <3>3. g[o + i] = x(o + i)
      BY <3>1
    <3> QED
      BY <3>1, <3>2, <3>3
  <2>3. ASSUME NEW i \in o + b + 1 .. a PROVE g[i] = f[i]
    <3>1. i \in 1 .. c /\ i \notin o + 1 .. o + b /\ i \notin 1 .. o
      BY <1>1, <1>4, <1>7
    <3> QED
      BY <3>1
  <2> QED
    BY <2>1, <2>2, <2>3
<1> HIDE DEF g
<1>8. CASE s # << >>
  BY <1>1, <1>2, <1>4, <1>6, <1>7, <1>8 DEF a, b
<1>9. CASE s = << >>
  <2>1. \A i \in 1 .. b : FALSE
    BY <1>3, <1>9
  <2>2. o <= a => o + b = o /\ a >= o + b
    BY <1>1, <1>3, <1>9
  <2> QED
    BY <1>1, <1>3, <1>9, <2>1, <2>2 DEF a, b
<1> QED
  BY <1>8, <1>9

LEMMA ResizedCells ==
  ASSUME NEW f \in Seq(Cells), NEW n \in Nat
  PROVE  /\ Resized(f, n) \in Seq(Cells) /\ Len(Resized(f, n)) = n
         /\ n <= Len(f) => \A i \in 1 .. n : Resized(f, n)[i] = f[i]
<1> DEFINE g == [k \in 1 .. n |-> IF k <= Len(f) THEN f[k] ELSE Nul]
<1>1. Len(f) \in Nat /\ \A k \in 1 .. Len(f) : f[k] \in Cells
  BY LenProperties, ElementOfSeq
<1>2. \A k \in 1 .. n : (IF k <= Len(f) THEN f[k] ELSE Nul) \in Cells
  BY <1>1 DEF Cells
<1>3. g \in [1 .. n -> Cells]
  BY <1>2
<1>4. n <= Len(f) => \A i \in 1 .. n : g[i] = f[i]
  BY <1>1
<1> HIDE DEF g
<1>5. g \in Seq(Cells) /\ Len(g) = n
  BY <1>3, FunSeq
<1>6. Resized(f, n) = g
  BY DEF Resized, g
<1> QED
  BY <1>4, <1>5, <1>6

\* The full buffers of n cells
LEMMA FullBuffers ==
  ASSUME NEW n \in Nat
  PROVE  /\ BufSize * (n \div BufSize) \in 0 .. n
         /\ n < BufSize => BufSize * (n \div BufSize) = 0
<1>1. BufSize \in Nat \ {0}
  BY FaceDbAssumption
<1>2. BufSize * (n \div BufSize) \in 0 .. n
  BY <1>1, Z3
<1>3. n < BufSize => n \div BufSize = 0
  BY <1>1
<1>4. BufSize * 0 = 0
  BY <1>1
<1> HIDE DEF FaceDbAssumption
<1> QED
  BY <1>2, <1>3, <1>4

LEMMA PrintType ==
  ASSUME NEW b \in Seq(Cells), NEW l \in Seq(Cells), NEW n \in 0 .. Len(b \o l)
  PROVE  LET cells == b \o l
             s     == SubSeq(cells, 1, n)
             r     == SubSeq(cells, n + 1, Len(cells))
         IN /\ s \in Seq(Cells) /\ r \in Seq(Cells)
            /\ cells \in Seq(Cells) /\ Len(cells) = Len(b) + Len(l)
            /\ Len(b) \in Nat /\ Len(l) \in Nat
            /\ Len(s) = n /\ Len(r) = Len(b) + Len(l) - n
            /\ \A i \in 1 .. n : s[i] = cells[i]
            /\ \A i \in 1 .. Len(r) : r[i] = cells[n + i]
            /\ \A i \in 1 .. Len(b) : cells[i] = b[i]
            /\ \A i \in 1 .. Len(l) : cells[Len(b) + i] = l[i]
<1> DEFINE cells == b \o l
           c == Len(cells)
           s == SubSeq(cells, 1, n)
           r == SubSeq(cells, n + 1, c)
           x == Len(b)
           y == Len(l)
<1>1. /\ cells \in Seq(Cells) /\ c = x + y /\ x \in Nat /\ y \in Nat
      /\ \A i \in 1 .. x + y : cells[i] = IF i <= x THEN b[i] ELSE l[i - x]
  BY ConcatProperties, LenProperties
<1>2. \A i \in 1 .. c : cells[i] \in Cells
  BY <1>1, ElementOfSeq
<1> HIDE DEF cells, c, x, y
<1>3. c \in Nat /\ n \in Nat /\ n <= c
  BY <1>1 DEF c, cells
<1>4. s \in Seq(Cells) /\ Len(s) = n /\ \A i \in 1 .. n : s[i] = cells[i]
  <2>1. 1 \in Int /\ n \in Int /\ \A i \in 1 .. n : cells[i] \in Cells
    BY <1>2, <1>3
  <2>2. /\ s \in Seq(Cells) /\ Len(s) = IF 1 <= n THEN n - 1 + 1 ELSE 0
        /\ \A i \in 1 .. n - 1 + 1 : s[i] = cells[1 + i - 1]
    BY <2>1, SubSeqProperties
  <2>3. n - 1 + 1 = n /\ \A i \in 1 .. n : 1 + i - 1 = i
    BY <1>3
  <2> HIDE DEF s
  <2> QED
    BY <1>3, <2>2, <2>3
<1>5. r \in Seq(Cells) /\ Len(r) = c - n /\ \A i \in 1 .. c - n : r[i] = cells[n + i]
  <2>1. n + 1 \in Int /\ c \in Int /\ \A i \in n + 1 .. c : cells[i] \in Cells
    BY <1>2, <1>3
  <2>2. /\ r \in Seq(Cells) /\ Len(r) = IF n + 1 <= c THEN c - (n + 1) + 1 ELSE 0
        /\ \A i \in 1 .. c - (n + 1) + 1 : r[i] = cells[n + 1 + i - 1]
    BY <2>1, SubSeqProperties
  <2>3. c - (n + 1) + 1 = c - n /\ \A i \in 1 .. c - n : n + 1 + i - 1 = n + i
    BY <1>3
  <2> HIDE DEF r
  <2> QED
    BY <1>3, <2>2, <2>3
<1>6. \A i \in 1 .. x : cells[i] = b[i]
  BY <1>1
<1>7. \A i \in 1 .. y : cells[x + i] = l[i]
  <2> SUFFICES ASSUME NEW i \in 1 .. y PROVE cells[x + i] = l[i]
    OBVIOUS
  <2>1. x + i \in 1 .. x + y /\ ~(x + i <= x) /\ x + i - x = i
    BY <1>1
  <2>2. cells[x + i] = l[x + i - x]
    BY <1>1, <2>1
  <2> QED
    BY <2>1, <2>2
<1> HIDE DEF s, r
<1> QED
  BY <1>1, <1>4, <1>5, <1>6, <1>7 DEF s, r, c, x, y, cells

\* However much of it is written already, the file will get what was printed:
\* b is in the buffer of the stream, l is printed, n cells are written.
Printing(d, o, b, l, n) ==
  LET cells == b \o l
      d1 == Written(d, o, SubSeq(cells, 1, n))
      b1 == SubSeq(cells, n + 1, Len(cells))
      w  == Written(d, o, b)
      w1 == Written(d1, o + n, b1)
  IN /\ o + n <= Len(d1) /\ Len(d1) \in Nat
     /\ o + n + Len(b1) = o + Len(b) + Len(l)
     /\ Len(w) \in Nat /\ Len(w1) \in Nat /\ o + Len(b) + Len(l) <= Len(w1)
     /\ \A i \in 1 .. o + Len(b) : w1[i] = w[i]
     /\ \A i \in 1 .. Len(l) : w1[o + Len(b) + i] = l[i]

LEMMA PrintStep ==
  ASSUME NEW d \in Seq(Cells), NEW o \in Nat, o <= Len(d),
         NEW b \in Seq(Cells), NEW l \in Seq(Cells), NEW n \in 0 .. Len(b \o l)
  PROVE  Printing(d, o, b, l, n)
<1> DEFINE cells == b \o l
           s  == SubSeq(cells, 1, n)
           d1 == Written(d, o, s)
           b1 == SubSeq(cells, n + 1, Len(cells))
           w  == Written(d, o, b)
           w1 == Written(d1, o + n, b1)
           x  == Len(b)
           y  == Len(l)
<1>1. /\ s \in Seq(Cells) /\ b1 \in Seq(Cells)
      /\ x \in Nat /\ y \in Nat /\ Len(cells) = x + y
      /\ Len(s) = n /\ Len(b1) = x + y - n
      /\ \A i \in 1 .. n : s[i] = cells[i]
      /\ \A i \in 1 .. Len(b1) : b1[i] = cells[n + i]
      /\ \A i \in 1 .. x : cells[i] = b[i]
      /\ \A i \in 1 .. y : cells[x + i] = l[i]
  BY PrintType
<1>2. n \in Nat /\ n <= x + y
  BY <1>1
<1> HIDE DEF cells, s, b1, x, y
<1>3. /\ d1 \in Seq(Cells) /\ Len(d1) \in Nat /\ Len(d1) >= o + n
      /\ \A i \in 1 .. o : d1[i] = d[i]
      /\ \A i \in 1 .. n : d1[o + i] = s[i]
  <2>1. s \in Seq(Cells) /\ Len(s) = n
    BY <1>1
  <2>2. /\ d1 \in Seq(Cells) /\ Len(d1) \in Nat /\ Len(d1) >= o + Len(s)
        /\ \A i \in 1 .. o : d1[i] = d[i]
        /\ \A i \in 1 .. Len(s) : d1[o + i] = s[i]
    BY <2>1, WrittenCells
  <2> HIDE DEF d1
  <2> QED
    BY <2>1, <2>2
<1>4. /\ w \in Seq(Cells) /\ Len(w) \in Nat
      /\ \A i \in 1 .. o : w[i] = d[i]
      /\ \A i \in 1 .. x : w[o + i] = b[i]
  BY WrittenCells DEF x
<1> HIDE DEF d1, w
<1>5. o + n \in Nat /\ o + n <= Len(d1)
  BY <1>2, <1>3
<1>6. /\ w1 \in Seq(Cells) /\ Len(w1) \in Nat /\ Len(w1) >= o + n + Len(b1)
      /\ \A i \in 1 .. o + n : w1[i] = d1[i]
      /\ \A i \in 1 .. Len(b1) : w1[o + n + i] = b1[i]
  BY <1>1, <1>3, <1>5, WrittenCells
<1> HIDE DEF w1
<1>7. ASSUME NEW j \in 1 .. x + y
      PROVE  w1[o + j] = cells[j]
  <2>1. CASE j <= n
    <3>1. j \in 1 .. n /\ o + j \in 1 .. o + n
      BY <1>1, <1>2, <2>1
    <3> QED
      BY <1>1, <1>3, <1>6, <3>1
  <2>2. CASE j > n
    <3> DEFINE i == j - n
    <3>1. i \in 1 .. Len(b1) /\ o + n + i = o + j /\ n + i = j
      BY <1>1, <1>2, <2>2
    <3> HIDE DEF i
    <3>2. w1[o + n + i] = b1[i] /\ b1[i] = cells[n + i]
      BY <1>1, <1>6, <3>1
    <3> QED
      BY <3>1, <3>2
  <2> QED
    BY <1>1, <1>2, <2>1, <2>2
<1>8. ASSUME NEW i \in 1 .. o + x
      PROVE  w1[i] = w[i]
  <2>1. CASE i <= o
    <3>1. i \in 1 .. o /\ i \in 1 .. o + n
      BY <1>2, <2>1
    <3> QED
      BY <1>3, <1>4, <1>6, <3>1
  <2>2. CASE i > o
    <3> DEFINE j == i - o
    <3>1. j \in 1 .. x /\ j \in 1 .. x + y /\ o + j = i
      BY <1>1, <2>2
    <3> HIDE DEF j
    <3>2. w1[o + j] = cells[j] /\ cells[j] = b[j] /\ w[o + j] = b[j]
      BY <1>1, <1>4, <1>7, <3>1
    <3> QED
      BY <3>1, <3>2
  <2> QED
    BY <1>1, <2>1, <2>2
<1>9. ASSUME NEW i \in 1 .. y
      PROVE  w1[o + x + i] = l[i]
  <2>1. x + i \in 1 .. x + y /\ o + (x + i) = o + x + i
    BY <1>1
  <2>2. w1[o + (x + i)] = cells[x + i]
    BY <1>7, <2>1
  <2> QED
    BY <1>1, <2>1, <2>2
<1>10. o + n + Len(b1) = o + x + y
  BY <1>1, <1>2
<1> QED
  BY <1>3, <1>4, <1>5, <1>6, <1>8, <1>9, <1>10 DEF Printing, w1, d1, w, b1, s, cells, x, y

-----------------------------------------------------------------------------
(* The table *)

Distinct(t) == \A j, k \in DOMAIN t : t[j].id = t[k].id => j = k

LEMMA NameType ==
  ASSUME NEW id \in Ids, NEW n \in AllNames
  PROVE  [id |-> id, name |-> n] \in Profiles
<1> DEFINE C == {n[k] : k \in DOMAIN n}
<1>1. n \in Seq(C) /\ Len(n) > 0 /\ \A k \in DOMAIN n : n[k] # NL
  BY FaceDbAssumption
<1>2. C \subseteq Letters
  <2> SUFFICES ASSUME NEW k \in DOMAIN n PROVE n[k] \in Letters
    OBVIOUS
  <2>1. n[k] \in C /\ n[k] # NL
    BY <1>1
  <2>2. n[k] \in Cells
    BY <2>1 DEF Cells
  <2> QED
    BY <2>1, <2>2 DEF Letters
<1> HIDE DEF C
<1>3. n \in Seq(Letters)
  BY <1>1, <1>2, SeqMonotonic
<1> QED
  BY <1>1, <1>3 DEF Profiles

\* The profile that is found is the first one with the id.
LEMMA FirstIs ==
  ASSUME NEW t, Len(t) \in Nat, DOMAIN t = 1 .. Len(t), NEW id, NEW k \in 1 .. Len(t), t[k].id = id
  PROVE  /\ First(t, id) \in 1 .. Len(t) /\ First(t, id) <= k
         /\ t[First(t, id)].id = id
         /\ \A j \in 1 .. First(t, id) - 1 : t[j].id # id
         /\ (\A j \in 1 .. k - 1 : t[j].id # id) => First(t, id) = k
<1> DEFINE T == {j \in 1 .. Len(t) : t[j].id = id}
           x == First(t, id)
<1>1. T \in SUBSET Nat /\ T # {}
  OBVIOUS
<1>2. PICK m \in T : \A y \in T : m <= y
  <2> HIDE DEF T
  <2> QED
    BY <1>1, Least
<1>3. \A j \in 1 .. m - 1 : t[j].id # id
  <2> SUFFICES ASSUME NEW j \in 1 .. m - 1, t[j].id = id PROVE FALSE
    OBVIOUS
  <2>1. m \in Nat /\ m <= Len(t)
    BY DEF T
  <2>2. j \in T /\ ~(m <= j)
    BY <2>1
  <2> QED
    BY <1>2, <2>2
<1>4. m \in DOMAIN t /\ t[m].id = id
  OBVIOUS
<1>5. x \in DOMAIN t /\ t[x].id = id /\ \A j \in 1 .. x - 1 : t[j].id # id
  BY <1>3, <1>4 DEF First
<1> HIDE DEF x
<1>6. \A j \in 1 .. Len(t) : t[j].id = id => x <= j
  <2> SUFFICES ASSUME NEW j \in 1 .. Len(t), t[j].id = id, ~(x <= j) PROVE FALSE
    OBVIOUS
  <2>1. j \in 1 .. x - 1
    BY <1>5
  <2> QED
    BY <1>5, <2>1
<1>7. ASSUME \A j \in 1 .. k - 1 : t[j].id # id
      PROVE  x = k
  <2>1. ~(x \in 1 .. k - 1) /\ x <= k /\ x \in Nat /\ x >= 1
    BY <1>5, <1>6, <1>7
  <2> QED
    BY <2>1
<1> QED
  BY <1>5, <1>6, <1>7 DEF x

LEMMA HasIs ==
  ASSUME NEW t \in Seq(Profiles), NEW id, Has(t, id)
  PROVE  /\ First(t, id) \in 1 .. Len(t) /\ t[First(t, id)].id = id
         /\ \A j \in 1 .. First(t, id) - 1 : t[j].id # id
<1>1. Len(t) \in Nat /\ DOMAIN t = 1 .. Len(t)
  BY LenProperties
<1>2. PICK k \in 1 .. Len(t) : t[k].id = id
  BY <1>1 DEF Has
<1> QED
  BY <1>1, <1>2, FirstIs

LEMMA Updated ==
  ASSUME NEW t \in Seq(Profiles), NEW id \in Ids, Has(t, id), NEW n \in AllNames
  PROVE  LET r == kt_app_face_db_update_face_profile(t, id, n)
         IN /\ r \in Seq(Profiles) /\ Len(r) = Len(t) /\ Len(t) \in Nat
            /\ \A k \in 1 .. Len(t) : /\ r[k].id = t[k].id
                                      /\ r[k].name = IF k = First(t, id) THEN n ELSE t[k].name
            /\ Distinct(t) => Distinct(r)
<1> DEFINE r == kt_app_face_db_update_face_profile(t, id, n)
           x == First(t, id)
           q == [t[x] EXCEPT !.name = n]
<1>1. Len(t) \in Nat /\ DOMAIN t = 1 .. Len(t) /\ \A k \in 1 .. Len(t) : t[k] \in Profiles
  BY LenProperties, ElementOfSeq
<1>2. x \in 1 .. Len(t) /\ t[x].id = id
  BY HasIs
<1>3. [id |-> id, name |-> n] \in Profiles
  BY NameType
<1> HIDE DEF x
<1>4. t[x] = [id |-> t[x].id, name |-> t[x].name]
  BY <1>1, <1>2 DEF Profiles
<1>5. q = [id |-> id, name |-> n]
  BY <1>2, <1>4
<1>6. r = [t EXCEPT ![x] = q]
  BY DEF kt_app_face_db_update_face_profile, x
<1> HIDE DEF q, r
<1>7. /\ r \in Seq(Profiles) /\ Len(r) = Len(t)
      /\ \A k \in 1 .. Len(t) : r[k] = IF k = x THEN q ELSE t[k]
  BY <1>2, <1>3, <1>5, <1>6, ExceptSeq
<1>8. \A k \in 1 .. Len(t) : r[k].id = t[k].id /\ r[k].name = IF k = x THEN n ELSE t[k].name
  BY <1>2, <1>5, <1>7
<1>9. DOMAIN r = 1 .. Len(t)
  BY <1>7, LenProperties
<1>10. Distinct(t) => Distinct(r)
  BY <1>1, <1>8, <1>9 DEF Distinct
<1> QED
  BY <1>1, <1>7, <1>8, <1>10 DEF r, x

LEMMA Added ==
  ASSUME NEW t \in Seq(Profiles), Len(t) <= MaxProfiles, NEW id \in Ids, NEW n \in AllNames
  PROVE  LET r == kt_app_face_db_add_face_profile(t, id, n)
         IN /\ r \in Seq(Profiles) /\ Len(r) <= MaxProfiles
            /\ Len(t) \in Nat /\ Len(r) \in Nat /\ Len(t) <= Len(r)
            /\ \A k \in 1 .. Len(t) : r[k].id = t[k].id
            /\ Distinct(t) => Distinct(r)
<1> DEFINE r == kt_app_face_db_add_face_profile(t, id, n)
           q == [id |-> id, name |-> n]
<1>1. Len(t) \in Nat /\ DOMAIN t = 1 .. Len(t) /\ MaxProfiles \in Nat
  BY LenProperties, FaceDbAssumption
<1>2. CASE Len(t) >= MaxProfiles
  <2>1. r = t
    BY <1>2 DEF kt_app_face_db_add_face_profile
  <2> QED
    BY <1>1, <2>1
<1>3. CASE ~(Len(t) >= MaxProfiles) /\ Has(t, id)
  <2>1. r = kt_app_face_db_update_face_profile(t, id, n)
    BY <1>3 DEF kt_app_face_db_add_face_profile
  <2> HIDE DEF r
  <2>2. /\ r \in Seq(Profiles) /\ Len(r) = Len(t)
        /\ \A k \in 1 .. Len(t) : r[k].id = t[k].id
        /\ Distinct(t) => Distinct(r)
    BY <1>3, <2>1, Updated
  <2> QED
    BY <1>1, <2>2 DEF r
<1>4. CASE ~(Len(t) >= MaxProfiles) /\ ~Has(t, id)
  <2>1. q \in Profiles
    BY NameType
  <2>2. r = Append(t, q)
    BY <1>4 DEF kt_app_face_db_add_face_profile
  <2> HIDE DEF r, q
  <2>3. /\ r \in Seq(Profiles) /\ Len(r) = Len(t) + 1
        /\ \A k \in 1 .. Len(t) : r[k] = t[k]
        /\ r[Len(t) + 1] = q
    BY <2>1, <2>2, AppendProperties
  <2>4. Len(r) <= MaxProfiles /\ Len(r) \in Nat /\ Len(t) <= Len(r) /\ DOMAIN r = 1 .. Len(t) + 1
    BY <1>1, <1>4, <2>3, LenProperties
  <2>5. \A k \in 1 .. Len(t) : t[k].id # id
    BY <1>1, <1>4 DEF Has
  <2>6. q.id = id
    BY DEF q
  <2>7. ASSUME Distinct(t), NEW j \in DOMAIN r, NEW k \in DOMAIN r, r[j].id = r[k].id
        PROVE  j = k
    <3>1. (j \in 1 .. Len(t) \/ j = Len(t) + 1) /\ (k \in 1 .. Len(t) \/ k = Len(t) + 1)
      BY <1>1, <2>4
    <3>2. CASE j \in 1 .. Len(t) /\ k \in 1 .. Len(t)
      BY <1>1, <2>3, <2>7, <3>2 DEF Distinct
    <3>3. CASE j \in 1 .. Len(t) /\ k = Len(t) + 1
      BY <2>3, <2>5, <2>6, <2>7, <3>3
    <3>4. CASE j = Len(t) + 1 /\ k \in 1 .. Len(t)
      BY <2>3, <2>5, <2>6, <2>7, <3>4
    <3> QED
      BY <3>1, <3>2, <3>3, <3>4
  <2>8. Distinct(t) => Distinct(r)
    BY <2>7 DEF Distinct
  <2> QED
    BY <1>1, <2>3, <2>4, <2>8 DEF r
<1> QED
  BY <1>2, <1>3, <1>4

-----------------------------------------------------------------------------
(* Types *)

Steps == {"rewind", "print", "tell", "truncate"}

PcOK ==
  /\ pc \in [Threads -> Steps \cup {"idle", "answer", "ended", "poll", "join", "exit", "close"}]
  /\ pc["main"] \in Steps \cup {"idle", "answer", "ended"}
  /\ pc["initial"] \in Steps \cup {"poll", "join", "exit", "close"}

TypeInv ==
  /\ disk \in Seq(Cells) /\ pos \in Nat /\ buf \in Seq(Cells)
  /\ up \in BOOLEAN /\ opened \in BOOLEAN /\ unsaved \in BOOLEAN /\ torn \in BOOLEAN
  /\ table \in Seq(Profiles) /\ Len(table) <= MaxProfiles
  /\ PcOK
  /\ line \in [Threads -> Nat \ {0}] /\ flen \in [Threads -> Nat]
  /\ after \in {"join", "exit", "close"}
  /\ asked \in [id : Ids \cup {NoId}, name : AllNames]
  /\ promised \in [Ids -> SUBSET AllNames] /\ overlap \in {"none", "mixed", "mending"}

\* A thread goes on at a place of its own.
LEMMA GotoType ==
  ASSUME TypeInv, NEW t \in Threads, NEW place, Goto(t, place),
         t = "main" => place \in Steps \cup {"idle", "answer", "ended"},
         t = "initial" => place \in Steps \cup {"poll", "join", "exit", "close"}
  PROVE  /\ PcOK'
         /\ pc'[t] = place /\ \A u \in Threads : u # t => pc'[u] = pc[u]
BY DEF TypeInv, PcOK, Goto, Threads, Steps

LEMMA EmptyBuffer == << >> \in Seq(Cells) /\ Len(<< >>) = 0 /\ << >> \in Seq(Profiles)
BY EmptySeq

LEMMA ForgetType ==
  ASSUME Forget
  PROVE  /\ up' = FALSE /\ opened' = FALSE /\ unsaved' = FALSE
         /\ table' = << >> /\ table' \in Seq(Profiles) /\ Len(table') = 0
         /\ pos' = 0 /\ buf' = << >> /\ buf' \in Seq(Cells)
         /\ PcOK' /\ pc'["main"] = "idle" /\ pc'["initial"] = "poll"
         /\ line' \in [Threads -> Nat \ {0}] /\ flen' \in [Threads -> Nat]
         /\ after' = "join"
         /\ asked' \in [id : Ids \cup {NoId}, name : AllNames]
         /\ overlap' = "none" /\ torn' \in BOOLEAN
         /\ torn' = (torn \/ overlap # "none" \/ \E t \in Threads : Flushing(t))
BY EmptyBuffer DEF Forget, PcOK, IdleThreads, NoUpdate, Threads, AllNames

LEMMA InitType == Init => TypeInv
<1> SUFFICES ASSUME Init PROVE TypeInv
  OBVIOUS
<1>1. MaxProfiles \in Nat
  BY FaceDbAssumption
<1>2. Len(table) <= MaxProfiles /\ table \in Seq(Profiles)
  BY <1>1, EmptyBuffer DEF Init
<1>3. asked \in [id : Ids \cup {NoId}, name : AllNames]
  BY DEF Init, NoUpdate, AllNames
<1>4. promised \in [Ids -> SUBSET AllNames]
  BY DEF Init, Nothing
<1>5. pc = IdleThreads /\ line = [t \in Threads |-> 1] /\ flen = [t \in Threads |-> 0]
  BY DEF Init
<1>6. /\ PcOK
      /\ line \in [Threads -> Nat \ {0}] /\ flen \in [Threads -> Nat]
  BY <1>5 DEF PcOK, IdleThreads, Threads
<1> QED
  BY <1>2, <1>3, <1>4, <1>6, EmptyBuffer DEF Init, TypeInv

LEMMA TypeStep == TypeInv /\ [Next]_vars => TypeInv'
<1> SUFFICES ASSUME TypeInv, [Next]_vars PROVE TypeInv'
  OBVIOUS
<1> USE DEF history, stream
<1>1. ASSUME NEW t \in Threads, Rewind(t)
      PROVE  TypeInv'
  <2>1. /\ disk' = Written(disk, pos, buf) /\ pos' = 0 /\ buf' = << >>
        /\ line' = [line EXCEPT ![t] = 1] /\ unsaved' = FALSE /\ Goto(t, "print")
        /\ UNCHANGED <<up, opened, table, flen, after, asked, promised, overlap, torn>>
    BY <1>1 DEF Rewind, RewindWith
  <2>2. disk' \in Seq(Cells)
    BY <2>1, WrittenCells DEF TypeInv
  <2>3. PcOK'
    BY <2>1, GotoType DEF Steps
  <2>4. line' \in [Threads -> Nat \ {0}]
    BY <2>1 DEF TypeInv
  <2> QED
    BY <2>1, <2>2, <2>3, <2>4, EmptyBuffer DEF TypeInv
<1>2. ASSUME NEW t \in Threads, Fprintf(t)
      PROVE  TypeInv'
  <2> DEFINE l == LineOf(table[line[t]])
             n == BufSize * (Len(buf \o l) \div BufSize)
  <2>1. /\ line[t] <= Len(table)
        /\ disk' = Written(disk, pos, SubSeq(buf \o l, 1, n)) /\ pos' = pos + n
        /\ buf' = SubSeq(buf \o l, n + 1, Len(buf \o l))
        /\ line' = [line EXCEPT ![t] = @ + 1]
        /\ UNCHANGED <<up, opened, table, pc, flen, after, asked, promised, unsaved, overlap, torn>>
    BY <1>2 DEF Fprintf
  <2>2. l \in Seq(Cells)
    <3>1. line[t] \in 1 .. Len(table)
      BY <2>1, LenProperties DEF TypeInv
    <3>2. table[line[t]] \in Profiles
      BY <3>1, ElementOfSeq DEF TypeInv
    <3> QED
      BY <3>2, LineOfCells
  <2> HIDE DEF l
  <2>3. n \in 0 .. Len(buf \o l) /\ n \in Nat
    <3>1. Len(buf \o l) \in Nat
      BY <2>2, ConcatProperties, LenProperties DEF TypeInv
    <3>2. n \in 0 .. Len(buf \o l)
      BY <3>1, FullBuffers
    <3> HIDE DEF n
    <3> QED
      BY <3>1, <3>2
  <2> HIDE DEF n
  <2>4. /\ SubSeq(buf \o l, 1, n) \in Seq(Cells)
        /\ SubSeq(buf \o l, n + 1, Len(buf \o l)) \in Seq(Cells)
    BY <2>2, <2>3, PrintType DEF TypeInv
  <2>5. disk' \in Seq(Cells)
    BY <2>1, <2>4, WrittenCells DEF TypeInv
  <2>6. pos' \in Nat
    BY <2>1, <2>3 DEF TypeInv
  <2>7. line' \in [Threads -> Nat \ {0}]
    BY <2>1 DEF TypeInv
  <2>8. PcOK'
    BY <2>1 DEF TypeInv, PcOK
  <2> QED
    BY <2>1, <2>4, <2>5, <2>6, <2>7, <2>8 DEF TypeInv
<1>3. ASSUME NEW t \in Threads, Fflush(t)
      PROVE  TypeInv'
  <2>1. /\ disk' = Written(disk, pos, buf) /\ pos' = pos + Len(buf) /\ buf' = << >>
        /\ Goto(t, "tell")
        /\ UNCHANGED <<up, opened, table, line, flen, after, asked, promised, unsaved, overlap, torn>>
    BY <1>3 DEF Fflush
  <2>2. disk' \in Seq(Cells) /\ pos' \in Nat
    BY <2>1, WrittenCells DEF TypeInv
  <2>3. PcOK'
    BY <2>1, GotoType DEF Steps
  <2> QED
    BY <2>1, <2>2, <2>3, EmptyBuffer DEF TypeInv
<1>4. ASSUME NEW t \in Threads, Ftell(t)
      PROVE  TypeInv'
  <2>1. /\ flen' = [flen EXCEPT ![t] = pos + Len(buf)] /\ Goto(t, "truncate")
        /\ UNCHANGED <<disk, up, opened, table, pos, buf, line, after, asked, promised, unsaved, overlap, torn>>
    BY <1>4 DEF Ftell
  <2>2. pos + Len(buf) \in Nat
    BY LenProperties DEF TypeInv
  <2>3. PcOK'
    BY <2>1, GotoType DEF Steps
  <2>4. flen' \in [Threads -> Nat]
    BY <2>1, <2>2 DEF TypeInv
  <2> QED
    BY <2>1, <2>3, <2>4 DEF TypeInv
<1>5. ASSUME NEW t \in Threads, Ftruncate(t)
      PROVE  TypeInv'
  <2>1. /\ disk' = Resized(disk, flen[t])
        /\ flen' = [flen EXCEPT ![t] = 0] /\ line' = [line EXCEPT ![t] = 1]
        /\ Goto(t, IF t = "main" THEN "answer" ELSE after)
        /\ overlap' = IF overlap = "mending" THEN "none" ELSE overlap
        /\ UNCHANGED <<up, opened, table, pos, buf, after, asked, promised, unsaved, torn>>
    BY <1>5 DEF Ftruncate
  <2>2. flen[t] \in Nat
    BY DEF TypeInv
  <2>3. disk' \in Seq(Cells)
    BY <2>1, <2>2, ResizedCells DEF TypeInv
  <2>4. after \in {"join", "exit", "close"}
    BY DEF TypeInv
  <2>5. PcOK'
    BY <2>1, <2>4, GotoType DEF Threads
  <2>6. flen' \in [Threads -> Nat] /\ line' \in [Threads -> Nat \ {0}]
    BY <2>1 DEF TypeInv
  <2> QED
    BY <2>1, <2>3, <2>5, <2>6 DEF TypeInv
<1>6. ASSUME NEW id \in Ids, NEW name \in Names, UpdateProfile(id, name)
      PROVE  TypeInv'
  <2>1. /\ Has(table, id)
        /\ table' = kt_app_face_db_update_face_profile(table, id, name)
        /\ asked' = [id |-> id, name |-> name]
        /\ IF Overlaps THEN promised' = Nothing ELSE MayShow(id, name)
        /\ NoteFlush
        /\ Goto("main", IF opened THEN "rewind" ELSE "answer")
        /\ UNCHANGED <<disk, up, opened, pos, buf, line, flen, after, unsaved, torn>>
    BY <1>6 DEF UpdateProfile
  <2>2. name \in AllNames
    BY DEF AllNames
  <2>3. table' \in Seq(Profiles) /\ Len(table') = Len(table)
    BY <2>1, <2>2, Updated DEF TypeInv
  <2>4. promised' \in [Ids -> SUBSET AllNames]
    <3>1. CASE Overlaps
      BY <2>1, <3>1 DEF Nothing
    <3>2. CASE ~Overlaps
      <4>1. promised' = [promised EXCEPT ![id] = IF @ = {} THEN {} ELSE @ \cup {name}]
        BY <2>1, <3>2 DEF MayShow
      <4> QED
        BY <2>2, <4>1 DEF TypeInv
    <3> QED
      BY <3>1, <3>2
  <2>5. PcOK'
    BY <2>1, GotoType DEF Threads, Steps
  <2>6. overlap' \in {"none", "mixed", "mending"}
    BY <2>1 DEF NoteFlush, TypeInv
  <2> QED
    BY <2>1, <2>2, <2>3, <2>4, <2>5, <2>6 DEF TypeInv
<1>7. CASE AnswerUpdate
  <2>1. /\ promised' = IF opened /\ overlap = "none"
                        THEN [promised EXCEPT ![asked.id] = {asked.name}] ELSE promised
        /\ asked' = NoUpdate /\ Goto("main", "idle")
        /\ UNCHANGED <<disk, up, opened, table, pos, buf, line, flen, after, unsaved, overlap, torn>>
    BY <1>7 DEF AnswerUpdate
  <2>2. promised' \in [Ids -> SUBSET AllNames] /\ asked' \in [id : Ids \cup {NoId}, name : AllNames]
    BY <2>1 DEF TypeInv, NoUpdate, AllNames
  <2>3. PcOK'
    BY <2>1, GotoType DEF Threads, Steps
  <2> QED
    BY <2>1, <2>2, <2>3 DEF TypeInv
<1>8. ASSUME NEW id \in Ids, GenerateDone(id)
      PROVE  TypeInv'
  <2>1. /\ table' = kt_app_face_db_add_face_profile(table, id, Default)
        /\ unsaved' = TRUE
        /\ promised' = [promised EXCEPT ![id] = IF @ = {} THEN {} ELSE @ \cup {Default}]
        /\ UNCHANGED <<disk, up, opened, pos, buf, pc, line, flen, after, asked, overlap, torn>>
    BY <1>8 DEF GenerateDone, MayShow
  <2>2. Default \in AllNames
    BY DEF AllNames
  <2>3. table' \in Seq(Profiles) /\ Len(table') <= MaxProfiles
    BY <2>1, <2>2, Added DEF TypeInv
  <2>4. promised' \in [Ids -> SUBSET AllNames]
    BY <2>1, <2>2 DEF TypeInv
  <2> QED
    BY <2>1, <2>3, <2>4 DEF TypeInv, PcOK
<1>9. CASE ExitCommand
  <2>1. /\ Goto("main", "ended")
        /\ UNCHANGED <<disk, up, opened, table, pos, buf, line, flen, after, asked, promised, unsaved, overlap, torn>>
    BY <1>9 DEF ExitCommand
  <2>2. PcOK'
    BY <2>1, GotoType DEF Threads, Steps
  <2> QED
    BY <2>1, <2>2 DEF TypeInv
<1>10. ASSUME NEW next \in {"join", "exit", "close"}, BeginFlush(next)
       PROVE  TypeInv'
  <2>1. /\ after' = next /\ Goto("initial", IF opened THEN "rewind" ELSE next)
        /\ promised' = IF Overlaps THEN Nothing ELSE promised
        /\ NoteFlush
        /\ UNCHANGED <<disk, up, opened, table, pos, buf, line, flen, asked, unsaved, torn>>
    BY <1>10 DEF BeginFlush
  <2>2. PcOK'
    BY <2>1, GotoType DEF Threads, Steps
  <2>3. promised' \in [Ids -> SUBSET AllNames]
    BY <2>1 DEF TypeInv, Nothing
  <2>4. overlap' \in {"none", "mixed", "mending"}
    BY <2>1 DEF NoteFlush, TypeInv
  <2> QED
    BY <2>1, <2>2, <2>3, <2>4 DEF TypeInv
<1>11. CASE EndProcess
  <2>1. disk' = Written(disk, pos, buf) /\ Forget /\ UNCHANGED promised
    BY <1>11 DEF EndProcess
  <2>2. disk' \in Seq(Cells)
    BY <2>1, WrittenCells DEF TypeInv
  <2>3. MaxProfiles \in Nat
    BY FaceDbAssumption
  <2> QED
    BY <2>1, <2>2, <2>3, ForgetType DEF TypeInv
<1>12. CASE Crash
  <2>1. Forget /\ UNCHANGED disk /\ promised' \in [Ids -> SUBSET AllNames]
    BY <1>12 DEF Crash, TypeInv, Nothing
  <2>2. MaxProfiles \in Nat
    BY FaceDbAssumption
  <2> QED
    BY <2>1, <2>2, ForgetType DEF TypeInv
<1>13. CASE Start
  <2>1. /\ up' = TRUE /\ opened' \in BOOLEAN /\ table' = IF opened' THEN Load(disk) ELSE << >>
        /\ UNCHANGED <<disk, pos, buf, pc, line, flen, after, asked, promised, unsaved, overlap, torn>>
    BY <1>13 DEF Start
  <2>2. table' \in Seq(Profiles) /\ Len(table') <= MaxProfiles
    <3>1. Load(disk) \in Seq(Profiles) /\ Len(Load(disk)) <= MaxProfiles
      BY LoadType DEF TypeInv
    <3>2. MaxProfiles \in Nat
      BY FaceDbAssumption
    <3> QED
      BY <2>1, <3>1, <3>2, EmptyBuffer
  <2> QED
    BY <2>1, <2>2 DEF TypeInv, PcOK
<1>14. CASE UNCHANGED vars
  BY <1>14 DEF vars, TypeInv, PcOK
<1>15. CASE \E t \in Threads : Flush(t)
  BY <1>1, <1>2, <1>3, <1>4, <1>5, <1>15 DEF Flush
<1> QED
  BY <1>6, <1>7, <1>8, <1>9, <1>10, <1>11, <1>12, <1>13, <1>14, <1>15
  DEF Next, Quit, CtrlC, FinalFlush

\* The table stays within its bound, and table and file are well formed, for
\* all ids, names, limits and sizes of the buffer, however flushes overlap
\* (kt_app_face_db.c).
THEOREM FaceDbTypes == Spec => []TypeOK
<1>1. TypeInv => TypeOK
  <2> SUFFICES ASSUME TypeInv PROVE TypeOK
    OBVIOUS
  <2>1. \A k \in DOMAIN table : table[k].id \in Ids
    <3>1. DOMAIN table = 1 .. Len(table)
      BY LenProperties DEF TypeInv
    <3> SUFFICES ASSUME NEW k \in 1 .. Len(table) PROVE table[k].id \in Ids
      BY <3>1
    <3>2. table[k] \in Profiles
      BY ElementOfSeq DEF TypeInv
    <3> QED
      BY <3>2 DEF Profiles
  <2>2. line \in [Threads -> Nat]
    BY DEF TypeInv
  <2> QED
    BY <2>1, <2>2 DEF TypeInv, PcOK, TypeOK, Cells, Steps
<1>2. Spec => []TypeInv
  BY InitType, TypeStep, PTL DEF Spec
<1> QED
  BY <1>1, <1>2, PTL

-----------------------------------------------------------------------------
(* Who uses the stream *)

\* A flush that did not begin during another one, and that no other one began
\* during, has the stream for itself. In the buffer is what is printed.
Ctl ==
  /\ \A t \in Threads : Flushing(t) => up /\ opened
  /\ after = "close" \/ pc["initial"] = "close" => pc["main"] = "ended"
  /\ ~up => pc["main"] = "idle" /\ overlap = "none"
  /\ (\A t \in Threads : pc[t] \notin {"rewind", "print"}) => buf = << >>
  /\ overlap # "mixed" =>
       /\ ~(Flushing("main") /\ Flushing("initial"))
       /\ pc["initial"] = "exit" => ~Flushing("main")
       /\ (\A t \in Threads : pc[t] # "print") => buf = << >>
  /\ overlap = "mending" => \E t \in Threads : Flushing(t)

\* A thread begins a flush, or has none to do.
LEMMA CtlBegin ==
  ASSUME TypeInv, Ctl, NEW t \in Threads, NEW next, NoteFlush, up, UNCHANGED <<up, opened, buf>>,
         t = "main" => next = "answer" /\ pc["main"] = "idle" /\ after' = after,
         t = "initial" => next \in {"join", "exit", "close"} /\ after' = next,
         after' = "close" => pc["main"] = "ended",
         Goto(t, IF opened THEN "rewind" ELSE next)
  PROVE  Ctl'
<1>1. /\ pc'[t] = (IF opened THEN "rewind" ELSE next)
      /\ \A u \in Threads : u # t => pc'[u] = pc[u]
  BY GotoType DEF Threads, Steps
<1>2. pc'["main"] = "ended" <=> pc["main"] = "ended"
  BY <1>1 DEF Threads
<1>3. CASE ~opened
  <2>1. overlap' = overlap /\ \A u \in Threads : ~Flushing(u)
    BY <1>3 DEF NoteFlush, Overlaps, Ctl
  <2>2. \A u \in Threads : ~Flushing(u)' /\ pc'[u] \notin {"rewind", "print"}
    BY <1>1, <1>3, <2>1 DEF Flushing, Threads
  <2>3. buf' = << >>
    BY <2>1 DEF Ctl, Flushing
  <2>4. overlap # "mending"
    BY <2>1 DEF Ctl
  <2>5. after' = "close" \/ pc'["initial"] = "close" => pc'["main"] = "ended"
    BY <1>1, <1>2, <1>3 DEF Ctl, Threads
  <2> QED
    BY <1>3, <2>1, <2>2, <2>3, <2>4, <2>5 DEF Ctl, Threads
<1>4. CASE opened /\ ~Alone
  <2>1. overlap' = "mixed"
    BY <1>4 DEF NoteFlush, Overlaps
  <2>2. pc'[t] = "rewind"
    BY <1>1, <1>4
  <2>3. pc'["initial"] = "close" => pc'["main"] = "ended"
    BY <1>1, <1>2, <1>4 DEF Ctl, Threads
  <2> QED
    BY <1>2, <1>4, <2>1, <2>2, <2>3 DEF Ctl
<1>5. CASE opened /\ Alone
  <2>1. overlap' = IF overlap = "mixed" THEN "mending" ELSE overlap
    BY <1>5 DEF NoteFlush, Overlaps
  <2>2. pc["initial"] # "exit" /\ \A u \in Threads : ~Flushing(u)
    BY <1>5 DEF Alone
  <2>3. pc'[t] = "rewind" /\ pc'["initial"] # "exit" /\ \A u \in Threads : u # t => ~Flushing(u)'
    BY <1>1, <1>5, <2>2 DEF Flushing, Threads
  <2>4. buf' = << >>
    BY <2>2 DEF Ctl, Flushing
  <2>5. Flushing(t)' /\ ~(Flushing("main")' /\ Flushing("initial")')
    BY <2>3 DEF Flushing, Threads
  <2>6. pc'["initial"] = "close" => pc'["main"] = "ended"
    BY <1>1, <1>2, <1>5 DEF Ctl, Threads
  <2> QED
    BY <1>2, <1>5, <2>1, <2>3, <2>4, <2>5, <2>6 DEF Ctl
<1> QED
  BY <1>3, <1>4, <1>5

LEMMA CtlStep ==
  ASSUME TypeInv, Ctl, [Next]_vars
  PROVE  Ctl'
<1> USE DEF history, stream
<1>1. ASSUME NEW t \in Threads, Flush(t)
      PROVE  Ctl'
  <2>1. CASE Rewind(t)
    <3>1. /\ buf' = << >> /\ pc[t] = "rewind" /\ Goto(t, "print") /\ up
          /\ UNCHANGED <<up, opened, after, overlap>>
      BY <1>1, <2>1 DEF Rewind, RewindWith, Flush
    <3> QED
      BY <3>1 DEF Ctl, Goto, Flushing, Threads, TypeInv, PcOK
  <2>2. CASE Fprintf(t)
    <3>1. pc[t] = "print" /\ up /\ UNCHANGED <<up, opened, after, pc, overlap>>
      BY <1>1, <2>2 DEF Fprintf, Flush
    <3> QED
      BY <3>1 DEF Ctl, Flushing
  <2>3. CASE Fflush(t)
    <3>1. /\ buf' = << >> /\ pc[t] = "print" /\ Goto(t, "tell") /\ up
          /\ UNCHANGED <<up, opened, after, overlap>>
      BY <1>1, <2>3 DEF Fflush, Flush
    <3> QED
      BY <3>1 DEF Ctl, Goto, Flushing, Threads, TypeInv, PcOK
  <2>4. CASE Ftell(t)
    <3>1. /\ pc[t] = "tell" /\ Goto(t, "truncate") /\ up
          /\ UNCHANGED <<up, opened, after, buf, overlap>>
      BY <1>1, <2>4 DEF Ftell, Flush
    <3> QED
      BY <3>1 DEF Ctl, Goto, Flushing, Threads, TypeInv, PcOK
  <2>5. CASE Ftruncate(t)
    <3>1. /\ pc[t] = "truncate" /\ Goto(t, IF t = "main" THEN "answer" ELSE after)
          /\ overlap' = IF overlap = "mending" THEN "none" ELSE overlap
          /\ up /\ UNCHANGED <<up, opened, after, buf>>
      BY <1>1, <2>5 DEF Ftruncate, Flush
    <3> QED
      BY <3>1 DEF Ctl, Goto, Flushing, Threads, TypeInv, PcOK
  <2> QED
    BY <1>1, <2>1, <2>2, <2>3, <2>4, <2>5 DEF Flush
<1>2. ASSUME NEW id \in Ids, NEW name \in Names, UpdateProfile(id, name)
      PROVE  Ctl'
  <2>1. /\ up /\ pc["main"] = "idle" /\ NoteFlush
        /\ Goto("main", IF opened THEN "rewind" ELSE "answer")
        /\ UNCHANGED <<up, opened, after, buf>>
    BY <1>2 DEF UpdateProfile
  <2>2. after # "close"
    BY <2>1 DEF Ctl
  <2> QED
    BY <2>1, <2>2, CtlBegin DEF Threads
<1>3. CASE AnswerUpdate
  <2>1. /\ up /\ pc["main"] = "answer" /\ Goto("main", "idle")
        /\ UNCHANGED <<up, opened, after, buf, overlap>>
    BY <1>3 DEF AnswerUpdate
  <2> QED
    BY <2>1 DEF Ctl, Goto, Flushing, Threads, TypeInv, PcOK
<1>4. ASSUME NEW id \in Ids, GenerateDone(id)
      PROVE  Ctl'
  <2>1. UNCHANGED <<up, opened, after, buf, pc, overlap>>
    BY <1>4 DEF GenerateDone
  <2> QED
    BY <2>1 DEF Ctl, Flushing
<1>5. CASE ExitCommand
  <2>1. /\ up /\ pc["main"] = "idle" /\ Goto("main", "ended")
        /\ UNCHANGED <<up, opened, after, buf, overlap>>
    BY <1>5 DEF ExitCommand
  <2> QED
    BY <2>1 DEF Ctl, Goto, Flushing, Threads, TypeInv, PcOK
<1>6. ASSUME NEW next \in {"join", "exit", "close"}, BeginFlush(next), up,
             next = "close" => pc["main"] = "ended"
      PROVE  Ctl'
  <2>1. /\ after' = next /\ Goto("initial", IF opened THEN "rewind" ELSE next) /\ NoteFlush
        /\ UNCHANGED <<up, opened, buf>>
    BY <1>6 DEF BeginFlush
  <2> QED
    BY <1>6, <2>1, CtlBegin DEF Threads
<1>7. CASE Forget
  <2>1. /\ up' = FALSE /\ buf' = << >> /\ after' = "join" /\ overlap' = "none"
        /\ pc'["main"] = "idle" /\ pc'["initial"] = "poll"
    BY <1>7 DEF Forget, IdleThreads, Threads
  <2> QED
    BY <2>1 DEF Ctl, Flushing, Threads
<1>8. CASE Start
  <2>1. ~up /\ up' = TRUE /\ UNCHANGED <<buf, pc, after, overlap>>
    BY <1>8 DEF Start
  <2> QED
    BY <2>1 DEF Ctl, Flushing
<1>9. CASE UNCHANGED vars
  <2>1. UNCHANGED <<up, opened, after, buf, pc, overlap>>
    BY <1>9 DEF vars
  <2> QED
    BY <2>1 DEF Ctl, Flushing
<1>10. CASE Quit
  BY <1>6, <1>10 DEF Quit
<1>11. CASE CtrlC
  BY <1>6, <1>11 DEF CtrlC
<1>12. CASE FinalFlush
  BY <1>6, <1>12 DEF FinalFlush
<1> QED
  BY <1>1, <1>2, <1>3, <1>4, <1>5, <1>7, <1>8, <1>9, <1>10, <1>11, <1>12
  DEF Next, EndProcess, Crash

\* What is so when a flush is under way that has the stream for itself
LEMMA OneFlush ==
  ASSUME Ctl, overlap # "mixed", NEW t \in Threads, Flushing(t)
  PROVE  up /\ opened /\ \A u \in Threads : u # t => ~Flushing(u)
BY DEF Ctl, Threads

\* What is so when the process ends by exit() or by main()
LEMMA EndCtl ==
  ASSUME TypeInv, Ctl, EndProcess, overlap # "mixed"
  PROVE  /\ overlap = "none" /\ disk' = disk
         /\ \A t \in Threads : ~Flushing(t)
<1>1. pc["initial"] \in {"exit", "close"} /\ disk' = Written(disk, pos, buf)
  BY DEF EndProcess
<1>2. \A t \in Threads : ~Flushing(t)
  BY <1>1 DEF Ctl, Flushing, Threads
<1>3. buf = << >> /\ overlap # "mending"
  BY <1>2 DEF Ctl, Flushing
<1>4. disk' = disk
  <2>1. disk \in Seq(Cells) /\ pos \in Nat
    BY DEF TypeInv
  <2>2. Written(disk, pos, << >>) = disk
    BY <2>1, EmptyBuffer, WrittenCells
  <2> QED
    BY <1>1, <1>3, <2>2
<1> QED
  BY <1>2, <1>3, <1>4 DEF TypeInv

-----------------------------------------------------------------------------
(* The text of a flush *)

\* Thread t has printed the profiles p: on the disk and in the stream's buffer
PrintedBy(t, p) ==
  /\ pos <= Len(disk)
  /\ Text(Written(disk, pos, buf), p, pos + Len(buf))
  /\ Len(p) = line[t] - 1 /\ Len(p) <= Len(table)
  /\ \A k \in 1 .. Len(p) : p[k].id = table[k].id /\ (~unsaved => p[k] = table[k])

\* Thread t cuts the file behind the text of p.
CutTo(t, p) ==
  /\ Text(disk, p, pos)
  /\ pc[t] = "truncate" => flen[t] = pos
  /\ Len(p) <= MaxProfiles
  /\ ~unsaved => p = table
  /\ ~torn => Distinct(p)

LEMMA TextBound ==
  ASSUME NEW f, Len(f) \in Nat, NEW p \in Seq(Profiles), NEW n, Text(f, p, n)
  PROVE  n \in Nat /\ n <= Len(f)
<1>1. PICK e : Spells(f, p, e) /\ e[Len(p)] = n
  BY DEF Text
<1>2. Len(p) \in 0 .. Len(p)
  BY LenProperties
<1> QED
  BY <1>1, <1>2, EndsGrow

\* A step that changes neither file nor stream, and the table only as
\* kt_app_generate_face_id_done_cb does
LEMMA FlushUndisturbed ==
  ASSUME TypeInv, NEW t \in Threads, NEW p \in Seq(Profiles),
         UNCHANGED <<disk, pos, buf, torn>>, line'[t] = line[t], flen'[t] = flen[t], pc'[t] = pc[t],
         \/ unsaved' = TRUE
         \/ unsaved' = unsaved /\ table' = table,
         Len(table') \in Nat, Len(table) <= Len(table'),
         \A k \in 1 .. Len(table) : table'[k].id = table[k].id
  PROVE  /\ PrintedBy(t, p) => PrintedBy(t, p)'
         /\ CutTo(t, p) => CutTo(t, p)'
<1>1. Len(p) \in Nat /\ Len(table) \in Nat
  BY LenProperties DEF TypeInv
<1>2. ASSUME PrintedBy(t, p)
      PROVE  PrintedBy(t, p)'
  <2>1. Len(p) <= Len(table')
    BY <1>1, <1>2 DEF PrintedBy
  <2>2. ASSUME NEW k \in 1 .. Len(p)
        PROVE  p[k].id = table'[k].id /\ (~unsaved' => p[k] = table'[k])
    <3>1. k \in 1 .. Len(table)
      BY <1>1, <1>2 DEF PrintedBy
    <3> QED
      BY <1>2, <3>1 DEF PrintedBy
  <2>3. /\ pos' <= Len(disk')
        /\ Text(Written(disk', pos', buf'), p, pos' + Len(buf')) /\ Len(p) = line'[t] - 1
    BY <1>2 DEF PrintedBy
  <2> QED
    BY <2>1, <2>2, <2>3 DEF PrintedBy
<1>3. ASSUME CutTo(t, p)
      PROVE  CutTo(t, p)'
  BY <1>3 DEF CutTo
<1> QED
  BY <1>2, <1>3

LEMMA RewindStep ==
  ASSUME TypeInv, Ctl, overlap # "mixed", NEW t \in Threads, Rewind(t)
  PROVE  /\ disk' = disk /\ pos' = 0 /\ buf' = << >> /\ pc'[t] = "print"
         /\ pc[t] = "rewind" /\ unsaved' = FALSE /\ table' = table
         /\ \A u \in Threads : u # t => pc'[u] = pc[u]
         /\ PrintedBy(t, << >>)'
<1>1. /\ pc[t] = "rewind"
      /\ disk' = Written(disk, pos, buf) /\ pos' = 0 /\ buf' = << >>
      /\ line' = [line EXCEPT ![t] = 1] /\ unsaved' = FALSE /\ Goto(t, "print")
      /\ UNCHANGED table
  BY DEF Rewind, RewindWith
<1>2. buf = << >>
  <2>1. \A u \in Threads : pc[u] # "print"
    BY <1>1 DEF Ctl, Flushing, Threads
  <2> QED
    BY <2>1 DEF Ctl
<1>3. disk' = disk /\ disk \in Seq(Cells) /\ Len(disk) \in Nat /\ Len(table) \in Nat
  <2>1. disk \in Seq(Cells) /\ pos \in Nat /\ table \in Seq(Profiles)
    BY DEF TypeInv
  <2>2. Written(disk, pos, << >>) = disk
    BY <2>1, EmptyBuffer, WrittenCells
  <2> QED
    BY <1>1, <1>2, <2>1, <2>2, LenProperties
<1>4. pc'[t] = "print" /\ \A u \in Threads : u # t => pc'[u] = pc[u]
  BY <1>1, GotoType DEF Steps
<1>5. Written(disk, 0, << >>) = disk
  BY <1>3, EmptyBuffer, WrittenCells
<1>6. Text(disk, << >>, 0) /\ Len(<< >>) = 0
  BY <1>3, TextEmpty, EmptyBuffer
<1>7. line'[t] = 1
  BY <1>1 DEF TypeInv
<1>8. PrintedBy(t, << >>)'
  <2>1. pos' <= Len(disk') /\ pos' + Len(buf') = 0
    BY <1>1, <1>3, <1>6
  <2>2. Text(Written(disk', pos', buf'), << >>, pos' + Len(buf'))
    BY <1>1, <1>3, <1>5, <1>6, <2>1
  <2>3. \A k \in 1 .. 0 : FALSE
    OBVIOUS
  <2> QED
    BY <1>1, <1>3, <1>6, <1>7, <2>1, <2>2, <2>3 DEF PrintedBy
<1> QED
  BY <1>1, <1>3, <1>4, <1>8

LEMMA FprintfStep ==
  ASSUME TypeInv, NEW t \in Threads, Fprintf(t), NEW p \in Seq(Profiles), PrintedBy(t, p),
         NEW q, q = table[line[t]]
  PROVE  /\ line[t] \in 1 .. Len(table) /\ q \in Profiles
         /\ Len(p) + 1 = line[t] /\ Append(p, q) \in Seq(Profiles)
         /\ PrintedBy(t, Append(p, q))'
<1> DEFINE l == LineOf(q)
           n == BufSize * (Len(buf \o l) \div BufSize)
           r == Append(p, q)
           x == pos + Len(buf)
<1>1. /\ line[t] <= Len(table)
      /\ disk' = Written(disk, pos, SubSeq(buf \o l, 1, n)) /\ pos' = pos + n
      /\ buf' = SubSeq(buf \o l, n + 1, Len(buf \o l))
      /\ line' = [line EXCEPT ![t] = @ + 1]
      /\ UNCHANGED <<table, unsaved>>
  BY DEF Fprintf, history
<1>2. line[t] \in 1 .. Len(table) /\ q \in Profiles /\ Len(table) \in Nat
  <2>1. line[t] \in 1 .. Len(table) /\ Len(table) \in Nat
    BY <1>1, LenProperties DEF TypeInv
  <2> QED
    BY <2>1, ElementOfSeq DEF TypeInv
<1>3. l \in Seq(Cells)
  BY <1>2, LineOfCells
<1> HIDE DEF l
<1>4. n \in 0 .. Len(buf \o l)
  <2>1. Len(buf \o l) \in Nat
    BY <1>3, ConcatProperties, LenProperties DEF TypeInv
  <2> QED
    BY <2>1, FullBuffers
<1> HIDE DEF n
<1>5. /\ disk \in Seq(Cells) /\ pos \in Nat /\ buf \in Seq(Cells)
      /\ Len(buf) \in Nat /\ Len(l) \in Nat /\ x \in Nat
  BY <1>3, LenProperties DEF TypeInv
<1>6. /\ pos <= Len(disk) /\ Len(p) = line[t] - 1 /\ Len(p) <= Len(table)
      /\ Text(Written(disk, pos, buf), p, x)
      /\ \A k \in 1 .. Len(p) : p[k].id = table[k].id /\ (~unsaved => p[k] = table[k])
  BY DEF PrintedBy
<1> DEFINE w  == Written(disk, pos, buf)
           w1 == Written(disk', pos', buf')
<1>7. /\ pos' <= Len(disk') /\ pos' + Len(buf') = x + Len(l)
      /\ Len(w) \in Nat /\ Len(w1) \in Nat /\ x + Len(l) <= Len(w1)
      /\ \A i \in 1 .. x : w1[i] = w[i]
      /\ \A i \in 1 .. Len(l) : w1[x + i] = l[i]
  <2>1. disk \in Seq(Cells) /\ pos \in Nat /\ pos <= Len(disk) /\ buf \in Seq(Cells)
    BY <1>5, <1>6
  <2>2. /\ disk' = Written(disk, pos, SubSeq(buf \o l, 1, n))
        /\ buf' = SubSeq(buf \o l, n + 1, Len(buf \o l))
        /\ w1 = Written(disk', pos + n, buf')
    BY <1>1
  <2>3. Printing(disk, pos, buf, l, n)
    BY <1>3, <1>4, <2>1, PrintStep
  <2>4. /\ pos + n <= Len(disk')
        /\ pos + n + Len(buf') = pos + Len(buf) + Len(l)
        /\ Len(w) \in Nat /\ Len(w1) \in Nat /\ pos + Len(buf) + Len(l) <= Len(w1)
        /\ \A i \in 1 .. pos + Len(buf) : w1[i] = w[i]
        /\ \A i \in 1 .. Len(l) : w1[pos + Len(buf) + i] = l[i]
    BY <2>2, <2>3 DEF Printing
  <2> QED
    BY <1>1, <2>4
<1> HIDE DEF w, w1, x
<1>8. Text(w1, r, x + Len(l))
  <2>1. Text(w, p, x)
    BY <1>6 DEF w
  <2> QED
    BY <1>2, <1>5, <1>7, <2>1, TextMore DEF l
<1>9. Len(p) \in Nat /\ r \in Seq(Profiles) /\ Len(r) = Len(p) + 1 /\ r[Len(p) + 1] = q
      /\ \A k \in 1 .. Len(p) : r[k] = p[k]
  BY <1>2, AppendProperties, LenProperties
<1> HIDE DEF r
<1>10. line'[t] = line[t] + 1 /\ line[t] \in Nat
  BY <1>1 DEF TypeInv
<1>11. Len(p) + 1 = line[t]
  BY <1>6, <1>9, <1>10
<1>12. Len(r) = line'[t] - 1 /\ Len(r) <= Len(table')
  BY <1>1, <1>2, <1>9, <1>10, <1>11
<1>13. ASSUME NEW k \in 1 .. Len(r)
       PROVE  r[k].id = table'[k].id /\ (~unsaved' => r[k] = table'[k])
  <2>1. CASE k = Len(p) + 1
    BY <1>1, <1>9, <1>11, <2>1
  <2>2. CASE k # Len(p) + 1
    <3>1. k \in 1 .. Len(p)
      BY <1>9, <2>2
    <3> QED
      BY <1>1, <1>6, <1>9, <3>1
  <2> QED
    BY <2>1, <2>2
<1>14. PrintedBy(t, r)'
  <2>1. Text(Written(disk', pos', buf'), r, pos' + Len(buf'))
    BY <1>7, <1>8 DEF w1
  <2> QED
    BY <1>7, <1>12, <1>13, <2>1 DEF PrintedBy
<1> QED
  BY <1>2, <1>9, <1>11, <1>14 DEF r

LEMMA FflushStep ==
  ASSUME TypeInv, ~torn => Distinct(table),
         NEW t \in Threads, Fflush(t), NEW p \in Seq(Profiles), PrintedBy(t, p)
  PROVE  /\ CutTo(t, p)' /\ Len(p) = Len(table)
         /\ pc[t] = "print" /\ pc'[t] = "tell" /\ \A u \in Threads : u # t => pc'[u] = pc[u]
<1>1. /\ line[t] > Len(table) /\ pc[t] = "print"
      /\ disk' = Written(disk, pos, buf) /\ pos' = pos + Len(buf) /\ Goto(t, "tell")
      /\ UNCHANGED <<table, unsaved, torn>>
  BY DEF Fflush, history
<1>2. pc'[t] = "tell" /\ \A u \in Threads : u # t => pc'[u] = pc[u]
  BY <1>1, GotoType DEF Steps
<1>3. /\ Text(Written(disk, pos, buf), p, pos + Len(buf))
      /\ Len(p) = line[t] - 1 /\ Len(p) <= Len(table)
      /\ \A k \in 1 .. Len(p) : p[k].id = table[k].id /\ (~unsaved => p[k] = table[k])
  BY DEF PrintedBy
<1>4. Len(p) \in Nat /\ Len(table) \in Nat /\ line[t] \in Nat
  BY LenProperties DEF TypeInv
<1>5. Len(p) = Len(table) /\ Len(p) <= MaxProfiles
  <2>1. Len(p) = Len(table)
    BY <1>1, <1>3, <1>4
  <2> QED
    BY <2>1 DEF TypeInv
<1>6. ~unsaved' => p = table'
  BY <1>1, <1>3, <1>5, SeqEqual DEF TypeInv
<1>7. ~torn' => Distinct(p)
  <2>1. DOMAIN p = 1 .. Len(p) /\ DOMAIN table = 1 .. Len(table)
    BY LenProperties DEF TypeInv
  <2> QED
    BY <1>1, <1>3, <1>5, <2>1 DEF Distinct
<1>8. Text(disk', p, pos')
  BY <1>1, <1>3
<1> QED
  BY <1>1, <1>2, <1>5, <1>6, <1>7, <1>8 DEF CutTo

LEMMA FtellStep ==
  ASSUME TypeInv, Ctl, overlap # "mixed", NEW t \in Threads, Ftell(t), NEW p \in Seq(Profiles), CutTo(t, p)
  PROVE  /\ CutTo(t, p)' /\ pc'[t] = "truncate"
         /\ pc[t] = "tell" /\ \A u \in Threads : u # t => pc'[u] = pc[u]
<1>1. /\ pc[t] = "tell" /\ flen' = [flen EXCEPT ![t] = pos + Len(buf)] /\ Goto(t, "truncate")
      /\ UNCHANGED <<disk, table, pos, unsaved, torn>>
  BY DEF Ftell, history, stream
<1>2. pc'[t] = "truncate" /\ \A u \in Threads : u # t => pc'[u] = pc[u]
  BY <1>1, GotoType DEF Steps
<1>3. Len(buf) = 0
  <2>1. \A u \in Threads : pc[u] # "print"
    BY <1>1 DEF Ctl, Flushing, Threads
  <2>2. buf = << >>
    BY <2>1 DEF Ctl
  <2> QED
    BY <2>2, EmptyBuffer
<1>4. flen'[t] = pos'
  BY <1>1, <1>3 DEF TypeInv
<1> QED
  BY <1>1, <1>2, <1>4 DEF CutTo

LEMMA FtruncateStep ==
  ASSUME TypeInv, NEW t \in Threads, Ftruncate(t), NEW p \in Seq(Profiles), CutTo(t, p)
  PROVE  /\ Text(disk', p, Len(disk')) /\ Load(disk') = p
         /\ Len(disk') = pos /\ \A i \in 1 .. pos : disk'[i] = disk[i]
         /\ pc[t] = "truncate" /\ pc'[t] = (IF t = "main" THEN "answer" ELSE after)
         /\ \A u \in Threads : u # t => pc'[u] = pc[u]
<1>1. /\ pc[t] = "truncate" /\ disk' = Resized(disk, flen[t])
      /\ Goto(t, IF t = "main" THEN "answer" ELSE after)
  BY DEF Ftruncate
<1>2. pc'[t] = (IF t = "main" THEN "answer" ELSE after) /\ \A u \in Threads : u # t => pc'[u] = pc[u]
  <2>1. after \in {"join", "exit", "close"}
    BY DEF TypeInv
  <2> QED
    BY <1>1, <2>1, GotoType DEF Threads
<1>3. disk' = Resized(disk, pos) /\ Text(disk, p, pos) /\ Len(p) <= MaxProfiles
  BY <1>1 DEF CutTo
<1>4. disk \in Seq(Cells) /\ Len(disk) \in Nat /\ pos \in Nat /\ pos <= Len(disk)
  BY <1>3, TextBound, LenProperties DEF TypeInv
<1>5. disk' \in Seq(Cells) /\ Len(disk') = pos /\ \A i \in 1 .. pos : disk'[i] = disk[i]
  BY <1>3, <1>4, ResizedCells
<1>6. Text(disk', p, Len(disk'))
  BY <1>3, <1>4, <1>5, TextSame
<1>7. Load(disk') = p
  BY <1>3, <1>5, <1>6, TextLoad
<1> QED
  BY <1>1, <1>2, <1>5, <1>6, <1>7

-----------------------------------------------------------------------------
(* File and table *)

\* The file is what a flush of a table printed.
Flushed(p) == Distinct(p) /\ Len(p) <= MaxProfiles /\ Text(disk, p, Len(disk))

FileInv ==
  /\ overlap # "mixed" =>
       /\ \A t \in Threads : pc[t] = "print" => \E p \in Seq(Profiles) : PrintedBy(t, p)
       /\ \A t \in Threads : pc[t] \in {"tell", "truncate"} => \E p \in Seq(Profiles) : CutTo(t, p)
       /\ (\A t \in Threads : ~Flushing(t)) /\ ~torn => \E p \in Seq(Profiles) : Flushed(p)
  /\ FileMatchesTable
  /\ ~torn => Distinct(table)

LEMMA EmptyDistinct == Distinct(<< >>)
<1>1. DOMAIN << >> = 1 .. 0
  BY EmptyBuffer, LenProperties
<1> QED
  BY <1>1 DEF Distinct

\* What other threads do while nobody writes, or one thread does
LEMMA FileUndisturbed ==
  ASSUME TypeInv, FileInv,
         UNCHANGED <<disk, pos, buf, overlap, torn, line, flen>>,
         \A t \in Threads : (Flushing(t) \/ Flushing(t)') => pc'[t] = pc[t],
         \/ unsaved' = TRUE
         \/ unsaved' = unsaved /\ table' = table /\ (up' /\ opened' => up /\ opened),
         Len(table') \in Nat, Len(table) <= Len(table'),
         \A k \in 1 .. Len(table) : table'[k].id = table[k].id,
         Distinct(table) => Distinct(table')
  PROVE  FileInv'
<1>1. \A t \in Threads : Flushing(t)' <=> Flushing(t)
  BY DEF Flushing
<1>2. ASSUME overlap # "mixed", NEW t \in Threads, pc'[t] = "print"
      PROVE  \E p \in Seq(Profiles) : PrintedBy(t, p)'
  <2>1. pc[t] = "print" /\ pc'[t] = pc[t]
    BY <1>2 DEF Flushing
  <2>2. PICK p \in Seq(Profiles) : PrintedBy(t, p)
    BY <1>2, <2>1 DEF FileInv
  <2>3. PrintedBy(t, p)'
    BY <2>1, <2>2, FlushUndisturbed
  <2> QED
    BY <2>3
<1>3. ASSUME overlap # "mixed", NEW t \in Threads, pc'[t] \in {"tell", "truncate"}
      PROVE  \E p \in Seq(Profiles) : CutTo(t, p)'
  <2>1. pc[t] \in {"tell", "truncate"} /\ pc'[t] = pc[t]
    BY <1>3 DEF Flushing
  <2>2. PICK p \in Seq(Profiles) : CutTo(t, p)
    BY <1>3, <2>1 DEF FileInv
  <2>3. CutTo(t, p)'
    BY <2>1, <2>2, FlushUndisturbed
  <2> QED
    BY <2>3
<1>4. ASSUME overlap # "mixed", \A t \in Threads : ~Flushing(t)', ~torn'
      PROVE  \E p \in Seq(Profiles) : Flushed(p)'
  <2>1. PICK p \in Seq(Profiles) : Flushed(p)
    BY <1>1, <1>4 DEF FileInv
  <2>2. Flushed(p)'
    BY <2>1 DEF Flushed
  <2> QED
    BY <2>2
<1>5. FileMatchesTable'
  <2> SUFFICES ASSUME up', opened', ~unsaved', overlap' = "none", \A t \in Threads : ~Flushing(t)'
               PROVE  Load(disk') = table'
    BY DEF FileMatchesTable
  <2>1. up /\ opened /\ ~unsaved /\ overlap = "none" /\ table' = table /\ \A t \in Threads : ~Flushing(t)
    BY <1>1
  <2>2. Load(disk) = table
    BY <2>1 DEF FileInv, FileMatchesTable
  <2> QED
    BY <2>1, <2>2
<1>6. ~torn' => Distinct(table')
  BY DEF FileInv
<1> QED
  BY <1>2, <1>3, <1>4, <1>5, <1>6 DEF FileInv

\* A thread writes, and has the stream for itself.
LEMMA FileWriter ==
  ASSUME TypeInv, Ctl, FileInv, overlap # "mixed", NEW t \in Threads, Flushing(t), Flushing(t)',
         UNCHANGED <<table, torn, overlap>>,
         \A u \in Threads : u # t => pc'[u] = pc[u],
         pc'[t] = "print" => \E p \in Seq(Profiles) : PrintedBy(t, p)',
         pc'[t] \in {"tell", "truncate"} => \E p \in Seq(Profiles) : CutTo(t, p)'
  PROVE  FileInv'
<1>1. \A u \in Threads : u # t => ~Flushing(u)'
  BY OneFlush DEF Flushing
<1>2. \A u \in Threads : pc'[u] \in {"print", "tell", "truncate"} => u = t
  BY <1>1 DEF Flushing
<1>3. \A u \in Threads : pc'[u] = "print" => \E p \in Seq(Profiles) : PrintedBy(u, p)'
  BY <1>2
<1>4. \A u \in Threads : pc'[u] \in {"tell", "truncate"} => \E p \in Seq(Profiles) : CutTo(u, p)'
  BY <1>2
<1>5. FileMatchesTable' /\ (~torn' => Distinct(table'))
  BY DEF FileMatchesTable, FileInv
<1> QED
  BY <1>3, <1>4, <1>5 DEF FileInv

\* A step of a flush that does not have the stream for itself
LEMMA FileMixed ==
  ASSUME FileInv, overlap = "mixed", UNCHANGED <<table, torn, overlap>>
  PROVE  FileInv'
BY DEF FileInv, FileMatchesTable

\* A thread begins a flush, or has none to do.
LEMMA FileBegin ==
  ASSUME TypeInv, Ctl, FileInv, NEW t \in Threads, NEW next, NoteFlush, next \notin Steps,
         pc'[t] = (IF opened THEN "rewind" ELSE next),
         \A u \in Threads : u # t => pc'[u] = pc[u],
         UNCHANGED <<disk, up, opened, torn>>, Distinct(table) => Distinct(table')
  PROVE  FileInv'
<1>1. ~torn' => Distinct(table')
  BY DEF FileInv
<1>2. FileMatchesTable'
  BY DEF FileMatchesTable, Flushing
<1>3. CASE opened /\ ~Alone
  BY <1>1, <1>2, <1>3 DEF FileInv, NoteFlush, Overlaps
<1>4. CASE opened /\ Alone
  <2>1. \A u \in Threads : pc'[u] # "print" /\ pc'[u] \notin {"tell", "truncate"}
    BY <1>4 DEF Alone, Flushing
  <2>2. Flushing(t)'
    BY <1>4 DEF Flushing
  <2> QED
    BY <1>1, <1>2, <2>1, <2>2 DEF FileInv
<1>5. CASE ~opened
  <2>1. overlap' = overlap /\ \A u \in Threads : ~Flushing(u)
    BY <1>5 DEF NoteFlush, Overlaps, Ctl
  <2>2. \A u \in Threads : pc'[u] # "print" /\ pc'[u] \notin {"tell", "truncate"}
    BY <1>5, <2>1 DEF Flushing, Steps
  <2>3. ASSUME overlap # "mixed", ~torn'
        PROVE  \E p \in Seq(Profiles) : Flushed(p)'
    <3>1. PICK p \in Seq(Profiles) : Flushed(p)
      BY <2>1, <2>3 DEF FileInv
    <3>2. Flushed(p)'
      BY <3>1 DEF Flushed
    <3> QED
      BY <3>2
  <2> QED
    BY <1>1, <1>2, <2>1, <2>2, <2>3 DEF FileInv
<1> QED
  BY <1>3, <1>4, <1>5

LEMMA FileStep ==
  ASSUME TypeInv, Ctl, FileInv, [Next]_vars
  PROVE  FileInv'
<1> USE DEF history, stream
<1>0. Len(table) \in Nat
  BY LenProperties DEF TypeInv
<1>1. ASSUME NEW t \in Threads, up, Rewind(t)
      PROVE  FileInv'
  <2>1. UNCHANGED <<table, torn, overlap>>
    BY <1>1 DEF Rewind, RewindWith
  <2>2. CASE overlap = "mixed"
    BY <2>1, <2>2, FileMixed
  <2>3. CASE overlap # "mixed"
    <3>1. /\ pc'[t] = "print" /\ pc[t] = "rewind" /\ \A u \in Threads : u # t => pc'[u] = pc[u]
          /\ PrintedBy(t, << >>)'
      BY <1>1, <2>3, RewindStep
    <3>2. Flushing(t) /\ Flushing(t)'
      BY <3>1 DEF Flushing
    <3>3. << >> \in Seq(Profiles) /\ pc'[t] \notin {"tell", "truncate"}
      BY <3>1, EmptyBuffer
    <3> QED
      BY <2>1, <2>3, <3>1, <3>2, <3>3, FileWriter
  <2> QED
    BY <2>2, <2>3
<1>2. ASSUME NEW t \in Threads, up, Fprintf(t)
      PROVE  FileInv'
  <2>1. pc[t] = "print" /\ UNCHANGED <<table, pc, torn, overlap>>
    BY <1>2 DEF Fprintf
  <2>2. CASE overlap = "mixed"
    BY <2>1, <2>2, FileMixed
  <2>3. CASE overlap # "mixed"
    <3>1. PICK p \in Seq(Profiles) : PrintedBy(t, p)
      BY <2>1, <2>3 DEF FileInv
    <3>2. PICK q : q = table[line[t]]
      OBVIOUS
    <3>3. Append(p, q) \in Seq(Profiles) /\ PrintedBy(t, Append(p, q))'
      BY <1>2, <3>1, <3>2, FprintfStep
    <3>4. Flushing(t) /\ Flushing(t)' /\ pc'[t] \notin {"tell", "truncate"}
      BY <2>1 DEF Flushing
    <3> QED
      BY <2>1, <2>3, <3>3, <3>4, FileWriter
  <2> QED
    BY <2>2, <2>3
<1>3. ASSUME NEW t \in Threads, up, Fflush(t)
      PROVE  FileInv'
  <2>1. pc[t] = "print" /\ UNCHANGED <<table, torn, overlap>>
    BY <1>3 DEF Fflush
  <2>2. CASE overlap = "mixed"
    BY <2>1, <2>2, FileMixed
  <2>3. CASE overlap # "mixed"
    <3>1. PICK p \in Seq(Profiles) : PrintedBy(t, p)
      BY <2>1, <2>3 DEF FileInv
    <3>2. ~torn => Distinct(table)
      BY DEF FileInv
    <3>3. CutTo(t, p)' /\ pc'[t] = "tell" /\ \A u \in Threads : u # t => pc'[u] = pc[u]
      BY <1>3, <3>1, <3>2, FflushStep
    <3>4. Flushing(t) /\ Flushing(t)' /\ pc'[t] # "print"
      BY <2>1, <3>3 DEF Flushing
    <3> QED
      BY <2>1, <2>3, <3>3, <3>4, FileWriter
  <2> QED
    BY <2>2, <2>3
<1>4. ASSUME NEW t \in Threads, up, Ftell(t)
      PROVE  FileInv'
  <2>1. pc[t] = "tell" /\ UNCHANGED <<table, torn, overlap>>
    BY <1>4 DEF Ftell
  <2>2. CASE overlap = "mixed"
    BY <2>1, <2>2, FileMixed
  <2>3. CASE overlap # "mixed"
    <3>1. PICK p \in Seq(Profiles) : CutTo(t, p)
      BY <2>1, <2>3 DEF FileInv
    <3>2. CutTo(t, p)' /\ pc'[t] = "truncate" /\ \A u \in Threads : u # t => pc'[u] = pc[u]
      BY <1>4, <2>3, <3>1, FtellStep
    <3>3. Flushing(t) /\ Flushing(t)' /\ pc'[t] # "print"
      BY <2>1, <3>2 DEF Flushing
    <3> QED
      BY <2>1, <2>3, <3>2, <3>3, FileWriter
  <2> QED
    BY <2>2, <2>3
<1>5. ASSUME NEW t \in Threads, up, Ftruncate(t)
      PROVE  FileInv'
  <2>1. /\ pc[t] = "truncate" /\ UNCHANGED <<up, opened, table, unsaved, torn>>
        /\ overlap' = IF overlap = "mending" THEN "none" ELSE overlap
    BY <1>5 DEF Ftruncate
  <2>2. CASE overlap = "mixed"
    <3>1. overlap' = overlap
      BY <2>1, <2>2
    <3> QED
      BY <2>1, <2>2, <3>1, FileMixed
  <2>3. CASE overlap # "mixed"
    <3>1. PICK p \in Seq(Profiles) : CutTo(t, p)
      BY <2>1, <2>3 DEF FileInv
    <3>2. /\ Text(disk', p, Len(disk')) /\ Load(disk') = p
          /\ pc'[t] = (IF t = "main" THEN "answer" ELSE after)
          /\ \A u \in Threads : u # t => pc'[u] = pc[u]
      BY <1>5, <3>1, FtruncateStep
    <3>3. \A u \in Threads : u # t => ~Flushing(u)
      BY <2>1, <2>3, OneFlush DEF Flushing
    <3>4. pc'[t] \notin Steps
      BY <3>2 DEF TypeInv, Steps
    <3>5. \A u \in Threads : pc'[u] # "print" /\ pc'[u] \notin {"tell", "truncate"}
      BY <3>2, <3>3, <3>4 DEF Flushing, Steps
    <3>6. ~torn' => Flushed(p)'
      BY <2>1, <3>1, <3>2 DEF CutTo, Flushed
    <3>7. FileMatchesTable'
      BY <2>1, <3>1, <3>2 DEF CutTo, FileMatchesTable
    <3>8. ~torn' => Distinct(table')
      BY <2>1 DEF FileInv
    <3> QED
      BY <3>5, <3>6, <3>7, <3>8 DEF FileInv
  <2> QED
    BY <2>2, <2>3
<1>6. ASSUME NEW id \in Ids, NEW name \in Names, UpdateProfile(id, name)
      PROVE  FileInv'
  <2>1. /\ Has(table, id) /\ NoteFlush
        /\ table' = kt_app_face_db_update_face_profile(table, id, name)
        /\ Goto("main", IF opened THEN "rewind" ELSE "answer")
        /\ UNCHANGED <<disk, up, opened, torn>>
    BY <1>6 DEF UpdateProfile
  <2>2. name \in AllNames
    BY DEF AllNames
  <2>3. Distinct(table) => Distinct(table')
    BY <2>1, <2>2, Updated DEF TypeInv
  <2>4. /\ pc'["main"] = (IF opened THEN "rewind" ELSE "answer")
        /\ \A u \in Threads : u # "main" => pc'[u] = pc[u]
    BY <2>1, GotoType DEF Threads, Steps
  <2>5. "main" \in Threads /\ "answer" \notin Steps
    BY DEF Threads, Steps
  <2> QED
    BY <2>1, <2>3, <2>4, <2>5, FileBegin
<1>7. CASE AnswerUpdate
  <2>1. /\ pc["main"] = "answer" /\ Goto("main", "idle")
        /\ UNCHANGED <<disk, up, opened, table, pos, buf, line, flen, unsaved, overlap, torn>>
    BY <1>7 DEF AnswerUpdate
  <2>2. pc'["main"] = "idle" /\ pc'["initial"] = pc["initial"]
    BY <2>1, GotoType DEF Threads, Steps
  <2>3. \A t \in Threads : (Flushing(t) \/ Flushing(t)') => pc'[t] = pc[t]
    BY <2>1, <2>2 DEF Threads, Flushing
  <2>4. /\ Len(table') \in Nat /\ Len(table) <= Len(table')
        /\ \A k \in 1 .. Len(table) : table'[k].id = table[k].id
        /\ Distinct(table) => Distinct(table')
    BY <1>0, <2>1
  <2>5. unsaved' = unsaved /\ table' = table /\ (up' /\ opened' => up /\ opened)
    BY <2>1
  <2>6. UNCHANGED <<disk, pos, buf, overlap, torn, line, flen>>
    BY <2>1
  <2> QED
    BY <2>3, <2>4, <2>5, <2>6, FileUndisturbed
<1>8. ASSUME NEW id \in Ids, GenerateDone(id)
      PROVE  FileInv'
  <2>1. /\ table' = kt_app_face_db_add_face_profile(table, id, Default)
        /\ unsaved' = TRUE
        /\ UNCHANGED <<disk, pos, buf, pc, line, flen, overlap, torn>>
    BY <1>8 DEF GenerateDone
  <2>2. Default \in AllNames
    BY DEF AllNames
  <2>3. /\ Len(table') \in Nat /\ Len(table) <= Len(table')
        /\ \A k \in 1 .. Len(table) : table'[k].id = table[k].id
        /\ Distinct(table) => Distinct(table')
    BY <2>1, <2>2, Added DEF TypeInv
  <2>4. \A t \in Threads : pc'[t] = pc[t]
    BY <2>1
  <2> QED
    BY <2>1, <2>3, <2>4, FileUndisturbed
<1>9. CASE ExitCommand
  <2>1. /\ pc["main"] = "idle" /\ Goto("main", "ended")
        /\ UNCHANGED <<disk, up, opened, table, pos, buf, line, flen, unsaved, overlap, torn>>
    BY <1>9 DEF ExitCommand
  <2>2. pc'["main"] = "ended" /\ pc'["initial"] = pc["initial"]
    BY <2>1, GotoType DEF Threads, Steps
  <2>3. \A t \in Threads : (Flushing(t) \/ Flushing(t)') => pc'[t] = pc[t]
    BY <2>1, <2>2 DEF Threads, Flushing
  <2>4. /\ Len(table') \in Nat /\ Len(table) <= Len(table')
        /\ \A k \in 1 .. Len(table) : table'[k].id = table[k].id
        /\ Distinct(table) => Distinct(table')
    BY <1>0, <2>1
  <2>5. unsaved' = unsaved /\ table' = table /\ (up' /\ opened' => up /\ opened)
    BY <2>1
  <2>6. UNCHANGED <<disk, pos, buf, overlap, torn, line, flen>>
    BY <2>1
  <2> QED
    BY <2>3, <2>4, <2>5, <2>6, FileUndisturbed
<1>10. ASSUME NEW next \in {"join", "exit", "close"}, BeginFlush(next)
       PROVE  FileInv'
  <2>1. /\ Goto("initial", IF opened THEN "rewind" ELSE next) /\ NoteFlush
        /\ UNCHANGED <<disk, up, opened, table, torn>>
    BY <1>10 DEF BeginFlush
  <2>2. /\ pc'["initial"] = (IF opened THEN "rewind" ELSE next)
        /\ \A u \in Threads : u # "initial" => pc'[u] = pc[u]
    BY <2>1, GotoType DEF Threads, Steps
  <2>3. "initial" \in Threads /\ next \notin Steps
    BY DEF Threads, Steps
  <2> QED
    BY <2>1, <2>2, <2>3, FileBegin
<1>11. ASSUME Forget, UNCHANGED disk, overlap = "none", \A t \in Threads : ~Flushing(t)
       PROVE  FileInv'
  <2>1. /\ up' = FALSE /\ table' = << >> /\ pc'["main"] = "idle" /\ pc'["initial"] = "poll"
        /\ torn' = (torn \/ overlap # "none" \/ \E t \in Threads : Flushing(t))
    BY <1>11, ForgetType
  <2>2. \A t \in Threads : pc'[t] # "print" /\ pc'[t] \notin {"tell", "truncate"}
    BY <2>1 DEF Threads
  <2>3. ~torn' => \E p \in Seq(Profiles) : Flushed(p)'
    <3> SUFFICES ASSUME ~torn' PROVE \E p \in Seq(Profiles) : Flushed(p)'
      OBVIOUS
    <3>1. PICK p \in Seq(Profiles) : Flushed(p)
      BY <1>11, <2>1 DEF FileInv
    <3>2. Flushed(p)'
      BY <1>11, <3>1 DEF Flushed
    <3> QED
      BY <3>2
  <2>4. FileMatchesTable' /\ Distinct(table')
    BY <2>1, EmptyDistinct DEF FileMatchesTable
  <2> QED
    BY <2>2, <2>3, <2>4 DEF FileInv
<1>12. ASSUME Forget, torn'
       PROVE  FileInv'
  <2>1. up' = FALSE /\ pc'["main"] = "idle" /\ pc'["initial"] = "poll"
    BY <1>12, ForgetType
  <2>2. \A t \in Threads : pc'[t] # "print" /\ pc'[t] \notin {"tell", "truncate"}
    BY <2>1 DEF Threads
  <2> QED
    BY <1>12, <2>1, <2>2 DEF FileInv, FileMatchesTable
<1>13. CASE EndProcess
  <2>1. Forget /\ (overlap # "none" => torn')
    BY <1>13 DEF EndProcess, Forget
  <2>2. CASE overlap = "mixed"
    BY <1>12, <2>1, <2>2
  <2>3. CASE overlap # "mixed"
    BY <1>11, <1>13, <2>1, <2>3, EndCtl
  <2> QED
    BY <2>2, <2>3
<1>14. CASE Crash
  <2>1. Forget /\ disk' = disk /\ torn' = (torn \/ overlap # "none" \/ \E t \in Threads : Flushing(t))
    BY <1>14 DEF Crash, Forget
  <2>2. CASE overlap # "none" \/ \E t \in Threads : Flushing(t)
    BY <1>12, <2>1, <2>2
  <2>3. CASE overlap = "none" /\ \A t \in Threads : ~Flushing(t)
    BY <1>11, <2>1, <2>3
  <2> QED
    BY <2>2, <2>3
<1>15. CASE Start
  <2>1. /\ ~up /\ opened' \in BOOLEAN /\ table' = IF opened' THEN Load(disk) ELSE << >>
        /\ UNCHANGED <<disk, pos, buf, pc, line, flen, unsaved, overlap, torn>>
    BY <1>15 DEF Start
  <2>2. overlap = "none" /\ \A t \in Threads : ~Flushing(t)
    BY <2>1 DEF Ctl
  <2>3. \A t \in Threads : pc'[t] # "print" /\ pc'[t] \notin {"tell", "truncate"}
    BY <2>1, <2>2 DEF Flushing
  <2>4. FileMatchesTable'
    BY <2>1 DEF FileMatchesTable
  <2>5. ASSUME ~torn'
        PROVE  (\E p \in Seq(Profiles) : Flushed(p)') /\ Distinct(table')
    <3>1. PICK p \in Seq(Profiles) : Flushed(p)
      BY <2>1, <2>2, <2>5 DEF FileInv
    <3>2. Flushed(p)'
      BY <2>1, <3>1 DEF Flushed
    <3>3. Load(disk) = p
      BY <3>1, TextLoad DEF Flushed, TypeInv
    <3>4. Distinct(table')
      BY <2>1, <3>1, <3>3, EmptyDistinct DEF Flushed
    <3> QED
      BY <3>2, <3>4
  <2> QED
    BY <2>3, <2>4, <2>5 DEF FileInv
<1>16. CASE UNCHANGED vars
  <2>1. UNCHANGED <<disk, up, opened, table, pos, buf, pc, line, flen, unsaved, overlap, torn>>
    BY <1>16 DEF vars
  <2>2. \A t \in Threads : pc'[t] = pc[t]
    BY <2>1
  <2>4. /\ Len(table') \in Nat /\ Len(table) <= Len(table')
        /\ \A k \in 1 .. Len(table) : table'[k].id = table[k].id
        /\ Distinct(table) => Distinct(table')
    BY <1>0, <2>1
  <2>5. unsaved' = unsaved /\ table' = table /\ (up' /\ opened' => up /\ opened)
    BY <2>1
  <2>6. UNCHANGED <<disk, pos, buf, overlap, torn, line, flen>>
    BY <2>1
  <2> QED
    BY <2>2, <2>4, <2>5, <2>6, FileUndisturbed
<1>17. CASE \E t \in Threads : Flush(t)
  BY <1>1, <1>2, <1>3, <1>4, <1>5, <1>17 DEF Flush
<1> QED
  BY <1>6, <1>7, <1>8, <1>9, <1>10, <1>13, <1>14, <1>15, <1>16, <1>17
  DEF Next, Quit, CtrlC, FinalFlush

FlushInv == TypeInv /\ Ctl /\ FileInv

LEMMA FlushInit == Init => FlushInv
<1> SUFFICES ASSUME Init PROVE FlushInv
  OBVIOUS
<1>1. TypeInv
  BY InitType
<1>2. /\ pc["main"] = "idle" /\ pc["initial"] = "poll" /\ up = FALSE /\ after = "join"
      /\ disk = << >> /\ table = << >> /\ buf = << >> /\ overlap = "none"
  BY DEF Init, IdleThreads, Threads
<1>3. Ctl
  BY <1>2 DEF Ctl, Flushing, Threads
<1>4. Flushed(<< >>)
  <2>1. Text(<< >>, << >>, 0)
    BY EmptyBuffer, TextEmpty
  <2>2. MaxProfiles \in Nat
    BY FaceDbAssumption
  <2> QED
    BY <1>2, <2>1, <2>2, EmptyBuffer, EmptyDistinct DEF Flushed
<1>5. FileInv
  <2>1. << >> \in Seq(Profiles)
    BY EmptyBuffer
  <2> QED
    BY <1>2, <1>4, <2>1, EmptyDistinct DEF FileInv, FileMatchesTable, Threads
<1> QED
  BY <1>1, <1>3, <1>5 DEF FlushInv

LEMMA FlushStep == FlushInv /\ [Next]_vars => FlushInv'
BY TypeStep, CtlStep, FileStep DEF FlushInv

\* Between flushes the file is exactly the table, but for profiles added since.
\* Flushes that overlapped, in whatever order the threads and the handler of
\* Ctrl-C made their calls, are made good by the next one that does not
\* (kt_app_face_db_flush_to_disk, kt_app_face_db_init).
THEOREM FileIsTable == Spec => []FileMatchesTable
<1>1. FlushInv => FileMatchesTable
  BY DEF FlushInv, FileInv
<1>2. FlushInv /\ [Next]_vars => FlushInv'
  BY FlushStep
<1>3. Spec => []FlushInv
  BY <1>2, FlushInit, PTL DEF Spec
<1> QED
  BY <1>1, <1>3, PTL

\* Until the process ends in the middle of a flush, or with flushes that had
\* overlapped and were not made good, no id has two profiles
\* (kt_app_face_db_add_face_profile, and what kt_app_face_db_init reads of what
\* a flush printed).
THEOREM NoTwins == Spec => []UniqueProfiles
<1>1. FlushInv => UniqueProfiles
  BY DEF FlushInv, FileInv, UniqueProfiles, Distinct
<1>2. FlushInv /\ [Next]_vars => FlushInv'
  BY FlushStep
<1>3. Spec => []FlushInv
  BY <1>2, FlushInit, PTL DEF Spec
<1> QED
  BY <1>1, <1>3, PTL

-----------------------------------------------------------------------------
(* The names of a table *)

LEMMA UpdatedNames ==
  ASSUME NEW t \in Seq(Profiles), NEW id \in Ids, Has(t, id), NEW n \in AllNames,
         NEW r, r = kt_app_face_db_update_face_profile(t, id, n), NEW i, Has(t, i)
  PROVE  Has(r, i) /\ NameOf(r, i) = IF i = id THEN n ELSE NameOf(t, i)
<1>1. /\ r \in Seq(Profiles) /\ Len(r) = Len(t) /\ Len(t) \in Nat
      /\ \A k \in 1 .. Len(t) : /\ r[k].id = t[k].id
                                /\ r[k].name = IF k = First(t, id) THEN n ELSE t[k].name
  BY Updated
<1>2. DOMAIN r = 1 .. Len(r)
  BY <1>1, LenProperties
<1>3. /\ First(t, i) \in 1 .. Len(t) /\ t[First(t, i)].id = i
      /\ \A j \in 1 .. First(t, i) - 1 : t[j].id # i
  BY HasIs
<1>4. First(t, id) \in 1 .. Len(t) /\ t[First(t, id)].id = id
  BY HasIs
<1> DEFINE x == First(t, i)
<1> HIDE DEF x
<1>5. x \in 1 .. Len(r) /\ r[x].id = i /\ \A j \in 1 .. x - 1 : r[j].id # i
  <2>1. \A j \in 1 .. x - 1 : j \in 1 .. Len(t)
    BY <1>1, <1>3 DEF x
  <2> QED
    BY <1>1, <1>3, <2>1 DEF x
<1>6. First(r, i) = x
  BY <1>1, <1>2, <1>5, FirstIs
<1>7. Has(r, i)
  BY <1>2, <1>5 DEF Has
<1>8. NameOf(r, i) = r[x].name /\ NameOf(t, i) = t[x].name
  BY <1>6 DEF NameOf, x
<1>9. x = First(t, id) <=> i = id
  BY <1>3, <1>4 DEF x
<1> QED
  BY <1>1, <1>5, <1>7, <1>8, <1>9

\* What is found in a table is found in one that begins with it.
LEMMA LongerNames ==
  ASSUME NEW t \in Seq(Profiles), NEW r \in Seq(Profiles), Len(t) <= Len(r),
         \A k \in 1 .. Len(t) : r[k] = t[k], NEW i, Has(t, i)
  PROVE  Has(r, i) /\ NameOf(r, i) = NameOf(t, i)
<1>1. Len(r) \in Nat /\ DOMAIN r = 1 .. Len(r) /\ Len(t) \in Nat
  BY LenProperties
<1>2. /\ First(t, i) \in 1 .. Len(t) /\ t[First(t, i)].id = i
      /\ \A j \in 1 .. First(t, i) - 1 : t[j].id # i
  BY HasIs
<1> DEFINE x == First(t, i)
<1> HIDE DEF x
<1>3. x \in 1 .. Len(r) /\ r[x].id = i /\ \A j \in 1 .. x - 1 : r[j].id # i
  <2>1. \A j \in 1 .. x - 1 : j \in 1 .. Len(t)
    BY <1>1, <1>2 DEF x
  <2> QED
    BY <1>1, <1>2, <2>1 DEF x
<1>4. First(r, i) = x
  BY <1>1, <1>3, FirstIs
<1>5. Has(r, i)
  BY <1>1, <1>3 DEF Has
<1>6. NameOf(r, i) = r[x].name /\ NameOf(t, i) = t[x].name /\ r[x] = t[x]
  BY <1>2, <1>4 DEF NameOf, x
<1> QED
  BY <1>5, <1>6

-----------------------------------------------------------------------------
(* What clients were told *)

\* The file holds the update that is about to be answered.
Answering == opened /\ pc["main"] = "answer"

\* A table that shows id shows it under a name it may have.
Kept(t, id) ==
  /\ promised[id] # {} => NameOf(t, id) \in promised[id]
  /\ Answering /\ asked.id = id => NameOf(t, id) = asked.name

Owed(id)   == promised[id] # {} \/ (Answering /\ asked.id = id)
Good(t)    == \A id \in Ids : Owed(id) => Has(t, id) /\ Kept(t, id)
Partial(t) == \A id \in Ids : Has(t, id) => Kept(t, id)

\* More names may be shown, and no more updates are about to be answered.
Wider ==
  /\ \A id \in Ids : /\ promised'[id] = {} <=> promised[id] = {}
                     /\ promised[id] \subseteq promised'[id]
  /\ Answering' => Answering /\ asked' = asked

LEMMA GoodWider ==
  ASSUME Wider, NEW t
  PROVE  /\ Good(t) => Good(t)'
         /\ Partial(t) => Partial(t)'
<1>1. \A id \in Ids : Kept(t, id) => Kept(t, id)'
  BY DEF Wider, Kept
<1>2. \A id \in Ids : Owed(id)' => Owed(id)
  BY DEF Wider, Owed
<1>3. Good(t) => Good(t)'
  BY <1>1, <1>2 DEF Good
<1>4. Partial(t) => Partial(t)'
  BY <1>1 DEF Partial
<1> QED
  BY <1>3, <1>4

LEMMA MayShowWider ==
  ASSUME TypeInv, NEW id \in Ids, NEW n, MayShow(id, n), ~Answering'
  PROVE  Wider /\ (promised'[id] # {} => n \in promised'[id])
<1>1. promised' = [promised EXCEPT ![id] = IF @ = {} THEN {} ELSE @ \cup {n}]
  BY DEF MayShow
<1>2. /\ promised'[id] = IF promised[id] = {} THEN {} ELSE promised[id] \cup {n}
      /\ \A i \in Ids : i # id => promised'[i] = promised[i]
  BY <1>1 DEF TypeInv
<1> QED
  BY <1>2 DEF Wider

LEMMA GoodLonger ==
  ASSUME NEW t \in Seq(Profiles), NEW r \in Seq(Profiles), Len(t) <= Len(r),
         \A k \in 1 .. Len(t) : r[k] = t[k], Good(t)
  PROVE  Good(r)
<1> SUFFICES ASSUME NEW id \in Ids, Owed(id) PROVE Has(r, id) /\ Kept(r, id)
  BY DEF Good
<1>1. Has(t, id) /\ Kept(t, id)
  BY DEF Good
<1>2. Has(r, id) /\ NameOf(r, id) = NameOf(t, id)
  BY <1>1, LongerNames
<1> QED
  BY <1>1, <1>2 DEF Kept

\* One more profile is printed.
LEMMA PartialMore ==
  ASSUME TypeInv, NEW t \in Threads, NEW p \in Seq(Profiles), PrintedBy(t, p), Partial(p),
         Good(table), NEW q \in Profiles, q = table[line[t]], Len(p) + 1 = line[t],
         line[t] \in 1 .. Len(table)
  PROVE  Partial(Append(p, q))
<1> DEFINE r == Append(p, q)
           x == Len(p) + 1
<1>1. /\ r \in Seq(Profiles) /\ Len(r) = x /\ r[x] = q
      /\ \A k \in 1 .. Len(p) : r[k] = p[k]
  BY AppendProperties
<1>2. Len(p) \in Nat /\ DOMAIN p = 1 .. Len(p) /\ DOMAIN r = 1 .. Len(r)
  BY <1>1, LenProperties
<1>3. Len(table) \in Nat /\ DOMAIN table = 1 .. Len(table)
  BY LenProperties DEF TypeInv
<1>4. \A k \in 1 .. Len(p) : p[k].id = table[k].id
  BY DEF PrintedBy
<1> HIDE DEF r
<1> SUFFICES ASSUME NEW id \in Ids, Has(r, id) PROVE Kept(r, id)
  BY DEF Partial, r
<1>5. CASE Has(p, id)
  <2>1. NameOf(r, id) = NameOf(p, id)
    <3>1. Len(p) <= Len(r)
      BY <1>1, <1>2
    <3> QED
      BY <1>1, <1>5, <3>1, LongerNames
  <2>2. Kept(p, id)
    BY <1>5 DEF Partial
  <2> QED
    BY <2>1, <2>2 DEF Kept
<1>6. CASE ~Has(p, id)
  <2>1. \A k \in 1 .. Len(p) : p[k].id # id
    BY <1>2, <1>6 DEF Has
  <2>2. x \in 1 .. Len(r) /\ r[x].id = id
    <3>1. PICK k \in 1 .. Len(r) : r[k].id = id
      BY <1>2 DEF Has
    <3>2. k \notin 1 .. Len(p)
      BY <1>1, <2>1, <3>1
    <3>3. k = x
      BY <1>1, <1>2, <3>2
    <3> QED
      BY <3>1, <3>3
  <2>3. x - 1 = Len(p)
    BY <1>2
  <2>4. \A j \in 1 .. x - 1 : r[j].id # id /\ table[j].id # id
    BY <1>1, <1>4, <2>1, <2>3
  <2>5. Len(r) \in Nat
    BY <1>1, <1>2
  <2>6. First(r, id) = x
    BY <1>2, <2>2, <2>4, <2>5, FirstIs
  <2>7. x \in 1 .. Len(table) /\ table[x].id = id
    BY <1>1, <2>2
  <2>8. First(table, id) = x
    BY <1>3, <2>4, <2>7, FirstIs
  <2>9. NameOf(r, id) = NameOf(table, id)
    BY <1>1, <2>6, <2>8 DEF NameOf
  <2>10. Owed(id) => Kept(table, id)
    BY DEF Good
  <2> QED
    BY <2>9, <2>10 DEF Kept, Owed
<1> QED
  BY <1>5, <1>6

\* All profiles are printed.
LEMMA PartialAll ==
  ASSUME TypeInv, NEW p \in Seq(Profiles), Partial(p), Good(table), Len(p) = Len(table),
         \A k \in 1 .. Len(p) : p[k].id = table[k].id
  PROVE  Good(p)
<1> SUFFICES ASSUME NEW id \in Ids, Owed(id) PROVE Has(p, id) /\ Kept(p, id)
  BY DEF Good
<1>1. Has(table, id)
  BY DEF Good
<1>2. DOMAIN p = 1 .. Len(p) /\ DOMAIN table = 1 .. Len(table)
  BY LenProperties DEF TypeInv
<1>3. Has(p, id)
  BY <1>1, <1>2 DEF Has
<1> QED
  BY <1>3 DEF Partial

\* The update of a name keeps what was promised, and is kept.
LEMMA GoodUpdated ==
  ASSUME TypeInv, NEW id \in Ids, Has(table, id), NEW n \in AllNames, MayShow(id, n), ~Answering',
         table' = kt_app_face_db_update_face_profile(table, id, n)
  PROVE  /\ Good(table) => Good(table)'
         /\ Has(table', id) /\ NameOf(table', id) = n
<1>1. Wider /\ (promised'[id] # {} => n \in promised'[id])
  BY MayShowWider
<1>2. \A i : Has(table, i) =>
        Has(table', i) /\ NameOf(table', i) = IF i = id THEN n ELSE NameOf(table, i)
  BY UpdatedNames DEF TypeInv
<1>3. ASSUME Good(table)
      PROVE  Good(table)'
  <2> SUFFICES ASSUME NEW i \in Ids, Owed(i)'
               PROVE  Has(table', i) /\ Kept(table, i)'
    BY DEF Good
  <2>1. promised'[i] # {} /\ promised[i] # {}
    BY <1>1 DEF Owed, Wider
  <2>2. Has(table, i) /\ NameOf(table, i) \in promised[i]
    BY <1>3, <2>1 DEF Good, Owed, Kept
  <2>3. NameOf(table', i) \in promised'[i]
    BY <1>1, <1>2, <2>1, <2>2 DEF Wider
  <2> QED
    BY <1>2, <2>2, <2>3 DEF Kept
<1> QED
  BY <1>2, <1>3

LEMMA GoodAdded ==
  ASSUME TypeInv, NEW id \in Ids, NEW n \in AllNames, MayShow(id, n), ~Answering',
         table' = kt_app_face_db_add_face_profile(table, id, n), Good(table)
  PROVE  Good(table)'
<1>1. Wider
  BY MayShowWider
<1>2. CASE table' = table
  <2>1. PICK t : t = table
    OBVIOUS
  <2>2. Good(t)
    BY <2>1
  <2>3. Good(t)'
    BY <1>1, <2>2, GoodWider
  <2> QED
    BY <1>2, <2>1, <2>3
<1>3. CASE Has(table, id) /\ table' = kt_app_face_db_update_face_profile(table, id, n)
  BY <1>3, GoodUpdated
<1>4. CASE ~Has(table, id) /\ table' = Append(table, [id |-> id, name |-> n])
  <2>1. [id |-> id, name |-> n] \in Profiles
    BY NameType
  <2>2. /\ table' \in Seq(Profiles) /\ Len(table') = Len(table) + 1 /\ Len(table) \in Nat
        /\ \A k \in 1 .. Len(table) : table'[k] = table[k]
    BY <1>4, <2>1, AppendProperties, LenProperties DEF TypeInv
  <2>3. PICK t : t = table
    OBVIOUS
  <2>4. Good(t)'
    BY <1>1, <2>3, GoodWider
  <2>5. PICK r : r = table'
    OBVIOUS
  <2> SUFFICES ASSUME NEW i \in Ids, Owed(i)'
               PROVE  Has(r, i) /\ Kept(r, i)'
    BY <2>5 DEF Good, Kept
  <2>6. Has(t, i) /\ Kept(t, i)'
    BY <2>4 DEF Good
  <2>7. Has(r, i) /\ NameOf(r, i) = NameOf(t, i)
    <3>1. t \in Seq(Profiles) /\ r \in Seq(Profiles) /\ Len(t) <= Len(r)
      BY <2>2, <2>3, <2>5 DEF TypeInv
    <3>2. \A k \in 1 .. Len(t) : r[k] = t[k]
      BY <2>2, <2>3, <2>5
    <3> QED
      BY <2>6, <3>1, <3>2, LongerNames
  <2> QED
    BY <2>6, <2>7 DEF Kept
<1> QED
  BY <1>2, <1>3, <1>4 DEF kt_app_face_db_add_face_profile

-----------------------------------------------------------------------------
(* A file that keeps its promises *)

Writing == {"print", "tell", "truncate"}

\* What was promised is in the file, in the table, and in what is printed.
Safe ==
  /\ ~InPieces => Good(Load(disk))
  /\ up /\ opened => Good(table)
  /\ \A t \in Threads : pc[t] = "print" => \E p \in Seq(Profiles) : PrintedBy(t, p) /\ Partial(p)
  /\ \A t \in Threads : pc[t] \in {"tell", "truncate"} =>
       \E p \in Seq(Profiles) : CutTo(t, p) /\ Good(p)

AskedKept == Has(table, asked.id) /\ NameOf(table, asked.id) = asked.name

\* After flushes that overlapped nothing is promised, until one that did not
\* has written the table, which has the update that is about to be answered.
DurInv ==
  /\ overlap # "none" => \A id \in Ids : promised[id] = {}
  /\ Flushing("main") \/ Answering => AskedKept
  /\ pc["main"] \in Writing \/ Answering => ~unsaved
  /\ overlap = "none" => Safe

LEMMA GoodTable ==
  ASSUME Wider, table' = table, Good(table)
  PROVE  Good(table)'
<1>1. PICK x : x = table
  OBVIOUS
<1>2. Good(x)'
  BY <1>1, GoodWider
<1> QED
  BY <1>1, <1>2

LEMMA GoodFile ==
  ASSUME Wider, disk' = disk, Good(Load(disk))
  PROVE  Good(Load(disk))'
<1>1. PICK x : x = Load(disk)
  OBVIOUS
<1>2. Good(x)'
  BY <1>1, GoodWider
<1> QED
  BY <1>1, <1>2

\* Nothing that was promised changes, and no update is answered.
LEMMA SameWider ==
  ASSUME UNCHANGED promised, Answering' => Answering /\ asked' = asked
  PROVE  Wider
BY DEF Wider

LEMMA NothingOwed ==
  ASSUME \A id \in Ids : promised[id] = {}, ~Answering, NEW t
  PROVE  Good(t)
BY DEF Good, Owed

\* The client is told of its update.
LEMMA GoodAnswered ==
  ASSUME TypeInv, AnswerUpdate, opened, overlap = "none", NEW x
  PROVE  /\ Good(x) => Good(x)'
         /\ Partial(x) => Partial(x)'
<1>1. /\ Answering /\ ~Answering'
      /\ promised' = [promised EXCEPT ![asked.id] = {asked.name}]
  <2>1. /\ pc["main"] = "answer" /\ Goto("main", "idle") /\ opened' = opened
        /\ promised' = [promised EXCEPT ![asked.id] = {asked.name}]
    BY DEF AnswerUpdate
  <2>2. pc'["main"] = "idle"
    BY <2>1, GotoType DEF Threads
  <2> QED
    BY <2>1, <2>2 DEF Answering
<1>2. \A id \in Ids : promised'[id] = IF id = asked.id THEN {asked.name} ELSE promised[id]
  BY <1>1 DEF TypeInv
<1>3. \A id \in Ids : Kept(x, id) => Kept(x, id)'
  BY <1>1, <1>2 DEF Kept
<1>4. \A id \in Ids : Owed(id)' => Owed(id)
  BY <1>1, <1>2 DEF Owed
<1>5. Good(x) => Good(x)'
  BY <1>3, <1>4 DEF Good
<1>6. Partial(x) => Partial(x)'
  BY <1>3 DEF Partial
<1> QED
  BY <1>5, <1>6

\* What a thread that writes does not notice
Unnoticed ==
  /\ UNCHANGED <<disk, pos, buf, torn, line, flen>>
  /\ unsaved' = TRUE \/ (unsaved' = unsaved /\ table' = table)
  /\ Len(table') \in Nat /\ Len(table) <= Len(table')
  /\ \A k \in 1 .. Len(table) : table'[k].id = table[k].id

\* A step that is not one of a flush
LEMMA SafeStill ==
  ASSUME TypeInv, Safe, disk' = disk, InPieces => InPieces',
         \A x : (Good(x) => Good(x)') /\ (Partial(x) => Partial(x)'),
         \A t \in Threads : pc'[t] \in Writing => pc'[t] = pc[t] /\ Unnoticed,
         up' /\ opened' => Good(table)'
  PROVE  Safe'
<1>1. ~InPieces' => Good(Load(disk))'
  <2>1. PICK x : x = Load(disk)
    OBVIOUS
  <2>2. ~InPieces' => Good(x)'
    BY <2>1 DEF Safe
  <2> QED
    BY <2>1, <2>2
<1>2. ASSUME NEW t \in Threads, pc'[t] = "print"
      PROVE  \E p \in Seq(Profiles) : PrintedBy(t, p)' /\ Partial(p)'
  <2>1. pc'[t] = pc[t] /\ Unnoticed
    BY <1>2 DEF Writing
  <2>2. PICK p \in Seq(Profiles) : PrintedBy(t, p) /\ Partial(p)
    BY <1>2, <2>1 DEF Safe
  <2>3. Partial(p)'
    BY <2>2
  <2>4. line'[t] = line[t] /\ flen'[t] = flen[t]
    BY <2>1 DEF Unnoticed
  <2>5. PrintedBy(t, p)'
    BY <2>1, <2>2, <2>4, FlushUndisturbed DEF Unnoticed
  <2> QED
    BY <2>3, <2>5
<1>3. ASSUME NEW t \in Threads, pc'[t] \in {"tell", "truncate"}
      PROVE  \E p \in Seq(Profiles) : CutTo(t, p)' /\ Good(p)'
  <2>1. pc'[t] = pc[t] /\ Unnoticed
    BY <1>3 DEF Writing
  <2>2. PICK p \in Seq(Profiles) : CutTo(t, p) /\ Good(p)
    BY <1>3, <2>1 DEF Safe
  <2>3. Good(p)'
    BY <2>2
  <2>4. line'[t] = line[t] /\ flen'[t] = flen[t]
    BY <2>1 DEF Unnoticed
  <2>5. CutTo(t, p)'
    BY <2>1, <2>2, <2>4, FlushUndisturbed DEF Unnoticed
  <2> QED
    BY <2>3, <2>5
<1> QED
  BY <1>1, <1>2, <1>3 DEF Safe

\* Nobody writes.
LEMMA SafeQuiet ==
  ASSUME TypeInv, Safe, disk' = disk, Wider, ~InPieces,
         \A t \in Threads : pc'[t] \notin Writing, up' /\ opened' => Good(table)'
  PROVE  Safe'
<1>1. \A x : (Good(x) => Good(x)') /\ (Partial(x) => Partial(x)')
  BY GoodWider
<1> QED
  BY <1>1, SafeStill

-----------------------------------------------------------------------------
(* The steps of a flush *)

\* What such a step does, but for the file
FlushKeeps(t) ==
  /\ UNCHANGED <<up, opened, table, asked, promised>>
  /\ unsaved' = unsaved \/ unsaved' = FALSE
  /\ overlap' = overlap \/ (overlap = "mending" /\ overlap' = "none")
  /\ \A u \in Threads : u # t => pc'[u] = pc[u]

LEMMA FlushKept ==
  ASSUME TypeInv, NEW t \in Threads, Rewind(t) \/ Fprintf(t) \/ Fflush(t) \/ Ftell(t) \/ Ftruncate(t)
  PROVE  FlushKeeps(t)
<1> USE DEF history, stream, FlushKeeps
<1>1. CASE Rewind(t)
  BY <1>1 DEF Rewind, RewindWith, Goto, TypeInv, PcOK
<1>2. CASE Fprintf(t)
  BY <1>2 DEF Fprintf
<1>3. CASE Fflush(t)
  BY <1>3 DEF Fflush, Goto, TypeInv, PcOK
<1>4. CASE Ftell(t)
  BY <1>4 DEF Ftell, Goto, TypeInv, PcOK
<1>5. CASE Ftruncate(t)
  BY <1>5 DEF Ftruncate, Goto, TypeInv, PcOK
<1> QED
  BY <1>1, <1>2, <1>3, <1>4, <1>5

\* A flush that goes on changes nothing that was promised.
LEMMA FlushWider ==
  ASSUME NEW t \in Threads, FlushKeeps(t), pc'["main"] # "answer" \/ pc'["main"] = pc["main"]
  PROVE  Wider
<1>1. Answering' => Answering
  BY DEF Answering, FlushKeeps
<1> QED
  BY <1>1, SameWider DEF FlushKeeps

\* One thread writes.
LEMMA SafeWriter ==
  ASSUME Ctl, overlap = "none", NEW t \in Threads, Flushing(t), FlushKeeps(t), Wider, Good(table),
         ~InPieces' => Good(Load(disk))',
         pc'[t] = "print" => \E p \in Seq(Profiles) : PrintedBy(t, p)' /\ Partial(p)',
         pc'[t] \in {"tell", "truncate"} => \E p \in Seq(Profiles) : CutTo(t, p)' /\ Good(p)'
  PROVE  Safe'
<1>1. \A u \in Threads : u # t => ~Flushing(u)' /\ pc'[u] \notin {"print", "tell", "truncate"}
  BY OneFlush DEF Flushing, FlushKeeps
<1>2. Good(table)'
  BY GoodTable DEF FlushKeeps
<1>3. \A u \in Threads : pc'[u] = "print" => \E p \in Seq(Profiles) : PrintedBy(u, p)' /\ Partial(p)'
  BY <1>1
<1>4. \A u \in Threads : pc'[u] \in {"tell", "truncate"} =>
        \E p \in Seq(Profiles) : CutTo(u, p)' /\ Good(p)'
  BY <1>1
<1> QED
  BY <1>2, <1>3, <1>4 DEF Safe

LEMMA SafeRewind ==
  ASSUME TypeInv, Ctl, Safe, overlap = "none", NEW t \in Threads, Rewind(t)
  PROVE  Safe'
<1>1. /\ disk' = disk /\ pos' = 0 /\ pc'[t] = "print" /\ pc[t] = "rewind"
      /\ PrintedBy(t, << >>)'
  BY RewindStep
<1>2. FlushKeeps(t) /\ Flushing(t)
  BY <1>1, FlushKept DEF Flushing
<1>3. \A u \in Threads : pc[u] # "print"
  BY <1>1, <1>2, OneFlush DEF Flushing
<1>4. pc'["main"] # "answer" \/ pc'["main"] = pc["main"]
  BY <1>1, <1>2 DEF FlushKeeps, Threads
<1>5. Wider
  BY <1>2, <1>4, FlushWider
<1>6. Good(Load(disk))'
  BY <1>1, <1>3, <1>5, GoodFile DEF Safe, InPieces
<1>7. Good(table)
  BY <1>2, OneFlush DEF Safe
<1>8. << >> \in Seq(Profiles) /\ Partial(<< >>)'
  <2>1. DOMAIN << >> = 1 .. 0
    BY EmptyBuffer, LenProperties
  <2>2. \A id : ~Has(<< >>, id)
    BY <2>1 DEF Has
  <2> QED
    BY <2>2, EmptyBuffer DEF Partial
<1>9. pc'[t] \notin {"tell", "truncate"}
  BY <1>1
<1>10. \E p \in Seq(Profiles) : PrintedBy(t, p)' /\ Partial(p)'
  BY <1>1, <1>8
<1> QED
  BY <1>2, <1>5, <1>6, <1>7, <1>9, <1>10, SafeWriter

\* As long as no buffer was full, the file is the one before.
LEMMA NothingWritten ==
  ASSUME TypeInv, NEW t \in Threads, Fprintf(t), NEW q \in Profiles, q = table[line[t]]
  PROVE  pos' \in Nat /\ (pos' = 0 => pos = 0 /\ disk' = disk)
<1> DEFINE l == LineOf(q)
           n == BufSize * (Len(buf \o l) \div BufSize)
<1>1. /\ disk' = Written(disk, pos, SubSeq(buf \o l, 1, n)) /\ pos' = pos + n
  BY DEF Fprintf
<1>2. l \in Seq(Cells)
  BY LineOfCells
<1> HIDE DEF l
<1>3. buf \in Seq(Cells) /\ disk \in Seq(Cells) /\ pos \in Nat
  BY DEF TypeInv
<1>4. n \in Nat
  <2>1. Len(buf \o l) \in Nat
    BY <1>2, <1>3, ConcatProperties, LenProperties
  <2>2. n \in 0 .. Len(buf \o l)
    BY <2>1, FullBuffers
  <2> HIDE DEF n
  <2> QED
    BY <2>1, <2>2
<1> HIDE DEF n
<1>5. pos' \in Nat /\ (pos' = 0 => n = 0 /\ pos = 0)
  BY <1>1, <1>3, <1>4
<1>6. SubSeq(buf \o l, 1, 0) = << >>
  BY SubSeqEmpty
<1>7. pos' = 0 => disk' = Written(disk, 0, << >>)
  BY <1>1, <1>5, <1>6
<1>8. Written(disk, 0, << >>) = disk
  BY <1>3, EmptyBuffer, WrittenCells
<1> QED
  BY <1>5, <1>7, <1>8

LEMMA SafeFprintf ==
  ASSUME TypeInv, Ctl, Safe, overlap = "none", NEW t \in Threads, Fprintf(t)
  PROVE  Safe'
<1>1. pc[t] = "print" /\ pc' = pc
  BY DEF Fprintf
<1>2. FlushKeeps(t) /\ Flushing(t)
  BY <1>1, FlushKept DEF Flushing
<1>3. PICK p \in Seq(Profiles) : PrintedBy(t, p) /\ Partial(p)
  BY <1>1 DEF Safe
<1>4. PICK q : q = table[line[t]]
  OBVIOUS
<1>5. /\ line[t] \in 1 .. Len(table) /\ q \in Profiles
      /\ Len(p) + 1 = line[t] /\ Append(p, q) \in Seq(Profiles)
      /\ PrintedBy(t, Append(p, q))'
  BY <1>3, <1>4, FprintfStep
<1>6. PICK r \in Seq(Profiles) : r = Append(p, q)
  BY <1>5
<1>7. Good(table)
  BY <1>2, OneFlush DEF Safe
<1>8. Partial(r)
  BY <1>3, <1>4, <1>5, <1>6, <1>7, PartialMore
<1>9. Wider
  BY <1>1, <1>2, FlushWider
<1>10. Partial(r)' /\ PrintedBy(t, r)'
  BY <1>5, <1>6, <1>8, <1>9, GoodWider
<1>11. ~InPieces' => Good(Load(disk))'
  <2> SUFFICES ASSUME ~InPieces' PROVE Good(Load(disk))'
    OBVIOUS
  <2>1. pos' = 0
    <3>1. pos' \in Nat
      BY <1>4, <1>5, NothingWritten
    <3>2. ~(pos' > 0)
      BY <1>1 DEF InPieces
    <3> QED
      BY <3>1, <3>2
  <2>2. pos = 0 /\ disk' = disk
    BY <1>4, <1>5, <2>1, NothingWritten
  <2>3. ~InPieces
    BY <2>2 DEF InPieces
  <2> QED
    BY <1>9, <2>2, <2>3, GoodFile DEF Safe
<1>12. pc'[t] \notin {"tell", "truncate"}
  BY <1>1
<1> QED
  BY <1>2, <1>7, <1>9, <1>10, <1>11, <1>12, SafeWriter

LEMMA SafeFflush ==
  ASSUME TypeInv, Ctl, Safe, ~torn => Distinct(table), overlap = "none",
         NEW t \in Threads, Fflush(t)
  PROVE  Safe'
<1>1. /\ pc[t] = "print" /\ disk' = Written(disk, pos, buf)
  BY DEF Fflush
<1>2. FlushKeeps(t) /\ Flushing(t)
  BY <1>1, FlushKept DEF Flushing
<1>3. PICK p \in Seq(Profiles) : PrintedBy(t, p) /\ Partial(p)
  BY <1>1 DEF Safe
<1>4. CutTo(t, p)' /\ Len(p) = Len(table) /\ pc'[t] = "tell"
  BY <1>3, FflushStep
<1>5. Good(table)
  BY <1>2, OneFlush DEF Safe
<1>6. Good(p)
  BY <1>3, <1>4, <1>5, PartialAll DEF PrintedBy
<1>7. PICK g : g = disk'
  OBVIOUS
<1>8. g \in Seq(Cells)
  BY <1>1, <1>7, WrittenCells DEF TypeInv
<1>9. Text(g, p, pos') /\ Len(p) <= MaxProfiles
  BY <1>4, <1>7 DEF CutTo
<1>10. PICK x : x = Load(g)
  OBVIOUS
<1>11. Good(x)
  <2>1. /\ Len(p) <= Len(x) /\ \A k \in 1 .. Len(p) : x[k] = p[k]
    BY <1>8, <1>9, <1>10, TextLoad
  <2>2. x \in Seq(Profiles)
    BY <1>8, <1>10, LoadType
  <2> QED
    BY <1>6, <2>1, <2>2, GoodLonger
<1>12. pc'["main"] # "answer" \/ pc'["main"] = pc["main"]
  BY <1>2, <1>4 DEF FlushKeeps, Threads
<1>13. Wider
  BY <1>2, <1>12, FlushWider
<1>14. Good(x)' /\ Good(p)'
  BY <1>6, <1>11, <1>13, GoodWider
<1>15. Good(Load(disk))'
  BY <1>7, <1>10, <1>14
<1>16. pc'[t] # "print"
  BY <1>4
<1> QED
  BY <1>2, <1>4, <1>5, <1>13, <1>14, <1>15, <1>16, SafeWriter

LEMMA SafeFtell ==
  ASSUME TypeInv, Ctl, Safe, overlap = "none", NEW t \in Threads, Ftell(t)
  PROVE  Safe'
<1>1. pc[t] = "tell" /\ disk' = disk
  BY DEF Ftell
<1>2. FlushKeeps(t) /\ Flushing(t)
  BY <1>1, FlushKept DEF Flushing
<1>3. PICK p \in Seq(Profiles) : CutTo(t, p) /\ Good(p)
  BY <1>1 DEF Safe
<1>4. CutTo(t, p)' /\ pc'[t] = "truncate"
  BY <1>3, FtellStep
<1>5. pc'["main"] # "answer" \/ pc'["main"] = pc["main"]
  BY <1>2, <1>4 DEF FlushKeeps, Threads
<1>6. Wider
  BY <1>2, <1>5, FlushWider
<1>7. Good(table)
  BY <1>2, OneFlush DEF Safe
<1>8. \A u \in Threads : pc[u] # "print"
  BY <1>1, <1>2, OneFlush DEF Flushing
<1>9. Good(p)' /\ Good(Load(disk))'
  BY <1>1, <1>3, <1>6, <1>8, GoodWider, GoodFile DEF Safe, InPieces
<1>10. pc'[t] # "print"
  BY <1>4
<1> QED
  BY <1>2, <1>4, <1>6, <1>7, <1>9, <1>10, SafeWriter

\* The file is cut. The main thread's holds the update that is answered next,
\* and one that makes good for flushes that overlapped is the table.
LEMMA SafeFtruncate ==
  ASSUME TypeInv, Ctl, FileInv, DurInv, overlap # "mixed", NEW t \in Threads, Ftruncate(t)
  PROVE  Safe'
<1>1. pc[t] = "truncate"
  BY DEF Ftruncate
<1>2. FlushKeeps(t) /\ Flushing(t)
  BY <1>1, FlushKept DEF Flushing
<1>3. PICK p \in Seq(Profiles) : CutTo(t, p) /\ (overlap = "none" => Good(p))
  BY <1>1 DEF DurInv, Safe, FileInv
<1>4. /\ Load(disk') = p
      /\ pc'[t] = (IF t = "main" THEN "answer" ELSE after)
  BY <1>3, FtruncateStep
<1>5. up /\ opened /\ \A u \in Threads : u # t => ~Flushing(u)
  BY <1>2, OneFlush
<1>6. overlap = "none" => Good(table)
  BY <1>5 DEF DurInv, Safe
<1>7. pc'[t] \notin Steps
  BY <1>4 DEF TypeInv, Steps
<1>8. \A u \in Threads : pc'[u] # "print" /\ pc'[u] \notin {"tell", "truncate"}
  BY <1>2, <1>5, <1>7 DEF Flushing, FlushKeeps, Steps
<1>9. Answering' => p = table /\ AskedKept
  <2> SUFFICES ASSUME Answering' PROVE p = table /\ AskedKept
    OBVIOUS
  <2>1. ~unsaved /\ AskedKept
    <3>1. CASE t = "main"
      BY <1>1, <3>1 DEF DurInv, Flushing, Writing
    <3>2. CASE t # "main"
      <4>1. Answering
        BY <1>2, <3>2 DEF Answering, FlushKeeps, Threads
      <4> QED
        BY <4>1 DEF DurInv
    <3> QED
      BY <3>1, <3>2
  <2> QED
    BY <1>3, <2>1 DEF CutTo
<1>10. ASSUME NEW x, overlap = "none" => Good(x), Answering' => x = table
       PROVE  Good(x)'
  <2> SUFFICES ASSUME NEW id \in Ids, Owed(id)'
               PROVE  Has(x, id) /\ Kept(x, id)'
    BY DEF Good
  <2>1. promised' = promised /\ asked' = asked
    BY <1>2 DEF FlushKeeps
  <2>2. promised[id] # {} => Has(x, id) /\ NameOf(x, id) \in promised[id]
    <3>1. promised[id] # {} => overlap = "none"
      BY DEF DurInv
    <3> QED
      BY <1>10, <3>1 DEF Good, Owed, Kept
  <2>3. Answering' /\ asked.id = id => Has(x, id) /\ NameOf(x, id) = asked.name
    BY <1>9, <1>10 DEF AskedKept
  <2> QED
    BY <2>1, <2>2, <2>3 DEF Owed, Kept
<1>11. PICK y : y = table
  OBVIOUS
<1>12. Good(y)' /\ Good(p)'
  BY <1>3, <1>6, <1>9, <1>10, <1>11
<1>13. Good(table)'
  BY <1>2, <1>11, <1>12 DEF FlushKeeps
<1>14. Good(Load(disk))'
  BY <1>4, <1>12
<1> QED
  BY <1>8, <1>13, <1>14 DEF Safe

LEMMA DurFlush ==
  ASSUME TypeInv, Ctl, FileInv, DurInv, NEW t \in Threads, Flush(t)
  PROVE  DurInv'
<1>1. FlushKeeps(t)
  BY FlushKept DEF Flush
<1>2. overlap' # "none" => \A id \in Ids : promised'[id] = {}
  <2>1. overlap' # "none" => overlap # "none"
    BY <1>1 DEF FlushKeeps
  <2> QED
    BY <1>1, <2>1 DEF FlushKeeps, DurInv
<1>3. Flushing("main")' \/ Answering' => Flushing("main") \/ Answering
  BY <1>1 DEF Flush, Rewind, RewindWith, Fprintf, Fflush, Ftell, Ftruncate, Flushing, Answering,
              FlushKeeps, Threads
<1>4. Flushing("main")' \/ Answering' => AskedKept'
  BY <1>1, <1>3 DEF FlushKeeps, DurInv, AskedKept
<1>5. pc'["main"] \in Writing \/ Answering' => ~unsaved'
  <2>1. CASE Rewind(t)
    BY <2>1 DEF Rewind, RewindWith
  <2>2. CASE ~Rewind(t)
    <3>1. unsaved' = unsaved /\ pc[t] \in Writing
      BY <2>2 DEF Flush, Fprintf, Fflush, Ftell, Ftruncate, Writing, history
    <3>2. pc'["main"] \in Writing \/ Answering' => pc["main"] \in Writing \/ Answering
      BY <1>1, <3>1 DEF FlushKeeps, Threads, Answering
    <3> QED
      BY <3>1, <3>2 DEF DurInv
  <2> QED
    BY <2>1, <2>2
<1>6. overlap' = "none" => Safe'
  <2>1. CASE overlap = "mixed"
    BY <1>1, <2>1 DEF FlushKeeps
  <2>2. CASE Ftruncate(t) /\ overlap # "mixed"
    BY <2>2, SafeFtruncate
  <2>3. CASE ~Ftruncate(t) /\ overlap = "mending"
    BY <2>3 DEF Flush, Rewind, RewindWith, Fprintf, Fflush, Ftell, history
  <2>4. CASE ~Ftruncate(t) /\ overlap = "none"
    <3>1. Safe /\ (~torn => Distinct(table))
      BY <2>4 DEF DurInv, FileInv
    <3> QED
      BY <2>4, <3>1, SafeRewind, SafeFprintf, SafeFflush, SafeFtell DEF Flush
  <2> QED
    BY <2>1, <2>2, <2>3, <2>4 DEF TypeInv
<1> QED
  BY <1>2, <1>4, <1>5, <1>6 DEF DurInv

\* A thread begins a flush, or has none to do. Names may be shown that were not
\* before.
LEMMA DurBegin ==
  ASSUME TypeInv, Ctl, DurInv, NEW t \in Threads, NEW next, next \notin Writing, NoteFlush,
         next = "answer" => t = "main",
         pc'[t] = (IF opened THEN "rewind" ELSE next),
         \A u \in Threads : u # t => pc'[u] = pc[u],
         UNCHANGED <<disk, up, opened, pos, unsaved>>,
         Overlaps => promised' = Nothing,
         ~Overlaps => Wider /\ (Good(table) => Good(table)'),
         Flushing("main")' \/ Answering' => AskedKept'
  PROVE  DurInv'
<1>1. ~Overlaps => \A u \in Threads : ~Flushing(u)
  BY DEF Overlaps, Alone, Ctl
<1>2. overlap' # "none" => \A id \in Ids : promised'[id] = {}
  <2>1. CASE Overlaps
    BY <2>1 DEF Nothing
  <2>2. CASE ~Overlaps
    BY <2>2 DEF NoteFlush, DurInv, Wider
  <2> QED
    BY <2>1, <2>2
<1>3. Answering' => Answering
  BY DEF Answering, Threads
<1>4. pc'["main"] \in Writing \/ Answering' => ~unsaved'
  <2>1. pc'["main"] \in Writing => pc["main"] \in Writing
    BY DEF Writing, Threads
  <2> QED
    BY <1>3, <2>1 DEF DurInv
<1>5. overlap' = "none" => Safe'
  <2> SUFFICES ASSUME overlap' = "none" PROVE Safe'
    OBVIOUS
  <2>1. ~Overlaps /\ overlap = "none"
    BY DEF NoteFlush, Overlaps
  <2>2. \A u \in Threads : pc[u] \notin Writing /\ pc'[u] \notin Writing
    BY <1>1, <2>1 DEF Flushing, Writing
  <2>3. ~InPieces
    BY <2>2 DEF InPieces, Writing
  <2>4. up' /\ opened' => Good(table)'
    BY <2>1 DEF DurInv, Safe
  <2> QED
    BY <2>1, <2>2, <2>3, <2>4, SafeQuiet DEF DurInv
<1> QED
  BY <1>2, <1>4, <1>5 DEF DurInv

LEMMA DurStep ==
  ASSUME TypeInv, Ctl, FileInv, DurInv, [Next]_vars
  PROVE  DurInv'
<1> USE DEF history, stream
<1>0. Len(table) \in Nat
  BY LenProperties DEF TypeInv
<1>1. CASE \E t \in Threads : Flush(t)
  BY <1>1, DurFlush
<1>2. ASSUME NEW id \in Ids, NEW name \in Names, UpdateProfile(id, name)
      PROVE  DurInv'
  <2>1. /\ pc["main"] = "idle" /\ Has(table, id) /\ up /\ NoteFlush
        /\ table' = kt_app_face_db_update_face_profile(table, id, name)
        /\ asked' = [id |-> id, name |-> name]
        /\ IF Overlaps THEN promised' = Nothing ELSE MayShow(id, name)
        /\ Goto("main", IF opened THEN "rewind" ELSE "answer")
        /\ UNCHANGED <<disk, up, opened, pos, unsaved>>
    BY <1>2 DEF UpdateProfile
  <2>2. name \in AllNames
    BY DEF AllNames
  <2>3. /\ pc'["main"] = (IF opened THEN "rewind" ELSE "answer")
        /\ \A u \in Threads : u # "main" => pc'[u] = pc[u]
    BY <2>1, GotoType DEF Threads, Steps
  <2>4. ~Answering'
    BY <2>1, <2>3 DEF Answering
  <2>5. ~Overlaps => Wider
    BY <2>1, <2>4, MayShowWider
  <2>6. ~Overlaps => (Good(table) => Good(table)')
    BY <2>1, <2>2, <2>4, GoodUpdated
  <2>7. Has(table', id) /\ NameOf(table', id) = name
    BY <2>1, <2>2, UpdatedNames DEF TypeInv
  <2>8. AskedKept'
    BY <2>1, <2>7 DEF AskedKept
  <2>9. "main" \in Threads /\ "answer" \notin Writing
    BY DEF Threads, Writing
  <2> QED
    BY <2>1, <2>3, <2>5, <2>6, <2>8, <2>9, DurBegin
<1>3. CASE AnswerUpdate
  <2>1. /\ pc["main"] = "answer" /\ Goto("main", "idle")
        /\ promised' = IF opened /\ overlap = "none"
                       THEN [promised EXCEPT ![asked.id] = {asked.name}] ELSE promised
        /\ UNCHANGED <<disk, up, opened, table, pos, buf, line, flen, unsaved, overlap, torn>>
    BY <1>3 DEF AnswerUpdate
  <2>2. pc'["main"] = "idle" /\ pc'["initial"] = pc["initial"]
    BY <2>1, GotoType DEF Threads, Steps
  <2>3. ~Answering' /\ ~Flushing("main")' /\ pc'["main"] \notin Writing
    BY <2>2 DEF Answering, Flushing, Writing
  <2>4. overlap' # "none" => \A i \in Ids : promised'[i] = {}
    BY <2>1 DEF DurInv
  <2>5. ASSUME overlap = "none"
        PROVE  Safe'
    <3>1. \A x : (Good(x) => Good(x)') /\ (Partial(x) => Partial(x)')
      <4>1. CASE opened
        BY <1>3, <2>5, <4>1, GoodAnswered
      <4>2. CASE ~opened
        <5>1. promised' = promised
          BY <2>1, <4>2
        <5> QED
          BY <2>3, <5>1, SameWider, GoodWider
      <4> QED
        BY <4>1, <4>2
    <3>2. Unnoticed
      BY <1>0, <2>1 DEF Unnoticed
    <3>3. \A t \in Threads : pc'[t] \in Writing => pc'[t] = pc[t] /\ Unnoticed
      BY <2>2, <3>2 DEF Threads, Writing
    <3>4. up' /\ opened' => Good(table)'
      <4>1. PICK x : x = table
        OBVIOUS
      <4>2. up /\ opened => Good(x)'
        BY <2>5, <3>1, <4>1 DEF DurInv, Safe
      <4> QED
        BY <2>1, <4>1, <4>2
    <3>5. InPieces => InPieces'
      BY <2>1, <2>2 DEF InPieces, Threads
    <3> QED
      BY <2>1, <2>5, <3>1, <3>3, <3>4, <3>5, SafeStill DEF DurInv
  <2> QED
    BY <2>1, <2>3, <2>4, <2>5 DEF DurInv
<1>4. ASSUME NEW id \in Ids, GenerateDone(id)
      PROVE  DurInv'
  <2>1. /\ pc["main"] = "idle" /\ MayShow(id, Default) /\ unsaved' = TRUE
        /\ table' = kt_app_face_db_add_face_profile(table, id, Default)
        /\ UNCHANGED <<disk, up, opened, pos, buf, pc, line, flen, overlap, torn>>
    BY <1>4 DEF GenerateDone
  <2>2. Default \in AllNames
    BY DEF AllNames
  <2>3. ~Answering' /\ ~Flushing("main")' /\ pc'["main"] \notin Writing
    BY <2>1 DEF Answering, Flushing, Writing
  <2>4. Wider
    BY <2>1, <2>3, MayShowWider
  <2>5. overlap' # "none" => \A i \in Ids : promised'[i] = {}
    BY <2>1, <2>4 DEF DurInv, Wider
  <2>6. ASSUME overlap = "none"
        PROVE  Safe'
    <3>1. Unnoticed
      <4>1. table \in Seq(Profiles) /\ Len(table) <= MaxProfiles
        BY DEF TypeInv
      <4>2. /\ Len(table') \in Nat /\ Len(table) <= Len(table')
            /\ \A k \in 1 .. Len(table) : table'[k].id = table[k].id
        BY <2>1, <2>2, <4>1, Added
      <4> QED
        BY <2>1, <4>2 DEF Unnoticed
    <3>2. \A t \in Threads : pc'[t] \in Writing => pc'[t] = pc[t] /\ Unnoticed
      BY <2>1, <3>1
    <3>3. up' /\ opened' => Good(table)'
      BY <2>1, <2>2, <2>3, <2>6, GoodAdded DEF DurInv, Safe
    <3>4. \A x : (Good(x) => Good(x)') /\ (Partial(x) => Partial(x)')
      BY <2>4, GoodWider
    <3>5. InPieces => InPieces'
      BY <2>1 DEF InPieces
    <3> QED
      BY <2>1, <2>6, <3>2, <3>3, <3>4, <3>5, SafeStill DEF DurInv
  <2> QED
    BY <2>1, <2>3, <2>5, <2>6 DEF DurInv
<1>5. ASSUME UNCHANGED <<disk, up, opened, table, pos, buf, line, flen, asked, promised, unsaved,
                         overlap, torn>>,
             pc'["initial"] = pc["initial"],
             \/ pc'["main"] = pc["main"]
             \/ pc["main"] = "idle" /\ pc'["main"] = "ended"
      PROVE  DurInv'
  <2>1. /\ Answering' => Answering
        /\ Flushing("main")' => Flushing("main")
        /\ pc'["main"] \in Writing => pc["main"] \in Writing
    BY <1>5 DEF Answering, Flushing, Writing
  <2>2. Wider
    BY <1>5, <2>1, SameWider
  <2>3. \A x : (Good(x) => Good(x)') /\ (Partial(x) => Partial(x)')
    BY <2>2, GoodWider
  <2>4. Unnoticed
    BY <1>0, <1>5 DEF Unnoticed
  <2>5. \A t \in Threads : pc'[t] \in Writing => pc'[t] = pc[t] /\ Unnoticed
    BY <1>5, <2>4 DEF Threads, Writing
  <2>6. InPieces => InPieces'
    BY <1>5 DEF InPieces, Threads
  <2>7. ASSUME overlap = "none"
        PROVE  Safe'
    <3>1. up' /\ opened' => Good(table)'
      BY <1>5, <2>2, <2>7, GoodTable DEF DurInv, Safe
    <3> QED
      BY <1>5, <2>3, <2>5, <2>6, <2>7, <3>1, SafeStill DEF DurInv
  <2>8. Flushing("main")' \/ Answering' => AskedKept'
    BY <1>5, <2>1 DEF DurInv, AskedKept
  <2>9. pc'["main"] \in Writing \/ Answering' => ~unsaved'
    BY <1>5, <2>1 DEF DurInv
  <2> QED
    BY <1>5, <2>7, <2>8, <2>9 DEF DurInv
<1>6. CASE ExitCommand
  <2>1. /\ pc["main"] = "idle" /\ Goto("main", "ended")
        /\ UNCHANGED <<disk, up, opened, table, pos, buf, line, flen, asked, promised, unsaved,
                       overlap, torn>>
    BY <1>6 DEF ExitCommand
  <2>2. pc'["main"] = "ended" /\ pc'["initial"] = pc["initial"]
    BY <2>1, GotoType DEF Threads, Steps
  <2> QED
    BY <1>5, <2>1, <2>2
<1>7. ASSUME NEW next \in {"join", "exit", "close"}, BeginFlush(next)
      PROVE  DurInv'
  <2>1. /\ Goto("initial", IF opened THEN "rewind" ELSE next) /\ NoteFlush
        /\ promised' = IF Overlaps THEN Nothing ELSE promised
        /\ UNCHANGED <<disk, up, opened, table, pos, asked, unsaved>>
    BY <1>7 DEF BeginFlush
  <2>2. /\ pc'["initial"] = (IF opened THEN "rewind" ELSE next)
        /\ \A u \in Threads : u # "initial" => pc'[u] = pc[u]
    BY <2>1, GotoType DEF Threads, Steps
  <2>3. "initial" \in Threads /\ next \notin Writing /\ next # "answer" /\ pc'["main"] = pc["main"]
    BY <2>2 DEF Threads, Writing
  <2>4. /\ Answering' => Answering
        /\ Flushing("main")' => Flushing("main")
    BY <2>1, <2>3 DEF Answering, Flushing
  <2>5. ~Overlaps => Wider
    BY <2>1, <2>4, SameWider
  <2>6. ~Overlaps => (Good(table) => Good(table)')
    BY <2>1, <2>5, GoodTable
  <2>7. Flushing("main")' \/ Answering' => AskedKept'
    BY <2>1, <2>4 DEF DurInv, AskedKept
  <2> QED
    BY <2>1, <2>2, <2>3, <2>5, <2>6, <2>7, DurBegin
<1>8. ASSUME Forget, disk' = disk,
             \/ \A i \in Ids : promised'[i] = {}
             \/ promised' = promised /\ overlap = "none" /\ ~InPieces
      PROVE  DurInv'
  <2>1. /\ up' = FALSE /\ overlap' = "none"
        /\ pc'["main"] = "idle" /\ pc'["initial"] = "poll"
    BY <1>8, ForgetType
  <2>2. ~Answering' /\ ~Flushing("main")' /\ \A t \in Threads : pc'[t] \notin Writing
    BY <2>1 DEF Answering, Flushing, Writing, Threads
  <2>3. Good(Load(disk))'
    <3>1. CASE \A i \in Ids : promised'[i] = {}
      BY <2>2, <3>1 DEF Good, Owed
    <3>2. CASE promised' = promised /\ overlap = "none" /\ ~InPieces
      <4>1. Wider
        BY <2>2, <3>2, SameWider
      <4> QED
        BY <1>8, <3>2, <4>1, GoodFile DEF DurInv, Safe
    <3> QED
      BY <1>8, <3>1, <3>2
  <2>4. \A t \in Threads : pc'[t] # "print" /\ pc'[t] \notin {"tell", "truncate"}
    BY <2>2 DEF Writing
  <2>5. Safe'
    BY <2>1, <2>3, <2>4 DEF Safe
  <2> QED
    BY <2>1, <2>2, <2>5 DEF DurInv, Threads
<1>9. CASE EndProcess
  <2>1. Forget /\ promised' = promised
    BY <1>9 DEF EndProcess
  <2>2. CASE overlap # "mixed"
    <3>1. overlap = "none" /\ disk' = disk /\ \A t \in Threads : ~Flushing(t)
      BY <1>9, <2>2, EndCtl
    <3>2. ~InPieces
      BY <3>1 DEF InPieces, Flushing
    <3> QED
      BY <1>8, <2>1, <3>1, <3>2
  <2>3. CASE overlap = "mixed"
    <3>1. \A i \in Ids : promised'[i] = {}
      BY <2>1, <2>3 DEF DurInv
    <3>2. /\ up' = FALSE /\ overlap' = "none"
          /\ pc'["main"] = "idle" /\ pc'["initial"] = "poll"
      BY <2>1, ForgetType
    <3>3. ~Answering' /\ ~Flushing("main")' /\ \A t \in Threads : pc'[t] \notin Writing
      BY <3>2 DEF Answering, Flushing, Writing, Threads
    <3>4. Good(Load(disk))'
      BY <3>1, <3>3 DEF Good, Owed
    <3>5. \A t \in Threads : pc'[t] # "print" /\ pc'[t] \notin {"tell", "truncate"}
      BY <3>3 DEF Writing
    <3>6. Safe'
      BY <3>2, <3>4, <3>5 DEF Safe
    <3> QED
      BY <3>2, <3>3, <3>6 DEF DurInv, Threads
  <2> QED
    BY <2>2, <2>3
<1>10. CASE Crash
  <2>1. Forget /\ disk' = disk /\ promised' = IF InPieces THEN Nothing ELSE promised
    BY <1>10 DEF Crash
  <2>2. CASE InPieces \/ overlap # "none"
    <3>1. \A i \in Ids : promised'[i] = {}
      BY <2>1, <2>2 DEF DurInv, Nothing
    <3> QED
      BY <1>8, <2>1, <3>1
  <2>3. CASE ~InPieces /\ overlap = "none"
    BY <1>8, <2>1, <2>3
  <2> QED
    BY <2>2, <2>3
<1>11. CASE Start
  <2>1. /\ ~up /\ table' = IF opened' THEN Load(disk) ELSE << >>
        /\ UNCHANGED <<disk, pos, pc, asked, promised, unsaved, overlap>>
    BY <1>11 DEF Start
  <2>2. pc["main"] = "idle" /\ overlap = "none" /\ \A t \in Threads : ~Flushing(t)
    BY <2>1 DEF Ctl
  <2>3. ~Answering' /\ ~Flushing("main")' /\ \A t \in Threads : pc'[t] \notin Writing
    BY <2>1, <2>2 DEF Answering, Flushing, Writing
  <2>4. Wider
    BY <2>1, <2>3, SameWider
  <2>5. ~InPieces
    BY <2>2 DEF InPieces, Flushing
  <2>6. Good(Load(disk))'
    BY <2>1, <2>2, <2>4, <2>5, GoodFile DEF DurInv, Safe
  <2>7. up' /\ opened' => Good(table)'
    <3>1. opened' => table' = Load(disk')
      BY <2>1
    <3> QED
      BY <2>6, <3>1
  <2>8. Safe'
    BY <2>1, <2>2, <2>3, <2>4, <2>5, <2>7, SafeQuiet DEF DurInv
  <2> QED
    BY <2>1, <2>2, <2>3, <2>8 DEF DurInv, Threads
<1>12. CASE UNCHANGED vars
  <2>1. UNCHANGED <<disk, up, opened, table, pos, buf, pc, line, flen, asked, promised, unsaved,
                    overlap, torn>>
    BY <1>12 DEF vars
  <2> QED
    BY <1>5, <2>1
<1> QED
  BY <1>1, <1>2, <1>3, <1>4, <1>6, <1>7, <1>9, <1>10, <1>11, <1>12
  DEF Next, Quit, CtrlC, FinalFlush

LEMMA DurInit ==
  ASSUME Init
  PROVE  DurInv
<1>1. /\ pc["main"] = "idle" /\ pc["initial"] = "poll" /\ up = FALSE /\ overlap = "none"
      /\ \A id \in Ids : promised[id] = {}
  BY DEF Init, IdleThreads, Threads, Nothing
<1>2. ~Answering /\ ~Flushing("main") /\ pc["main"] \notin Writing
  BY <1>1 DEF Answering, Flushing, Writing
<1>3. Good(Load(disk))
  BY <1>1, <1>2, NothingOwed
<1>4. \A t \in Threads : pc[t] # "print" /\ pc[t] \notin {"tell", "truncate"}
  BY <1>1 DEF Threads
<1>5. Safe
  BY <1>1, <1>3, <1>4 DEF Safe
<1> QED
  BY <1>1, <1>2, <1>5 DEF DurInv

\* Once a client was told of an update, the file shows it, or one after it,
\* wherever the process is killed, however long the names are and however
\* small the stream's buffer. It is void, as Durable says, from when a flush
\* begins during another one, or the process is killed with part of a text
\* written (kt_app_face_db_flush_to_disk, kt_app_face_db_init).
THEOREM UpdatesSurvive == Spec => []Durable
<1> DEFINE I == FlushInv /\ DurInv
<1>1. Init => I
  BY FlushInit, DurInit
<1>2. I /\ [Next]_vars => I'
  BY FlushStep, DurStep DEF FlushInv
<1>3. I => Durable
  <2> SUFFICES ASSUME I, ~InPieces, NEW id \in Ids, promised[id] # {}
               PROVE  Has(Load(disk), id) /\ NameOf(Load(disk), id) \in promised[id]
    BY DEF Durable
  <2>1. overlap = "none"
    BY DEF DurInv
  <2>2. Good(Load(disk))
    BY <2>1 DEF DurInv, Safe
  <2> QED
    BY <2>2 DEF Good, Owed, Kept
<1> HIDE DEF I
<1>4. Spec => []I
  BY <1>1, <1>2, PTL DEF Spec
<1> QED
  BY <1>3, <1>4, PTL

=============================================================================
