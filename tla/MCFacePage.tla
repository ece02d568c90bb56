----------------------------- MODULE MCFacePage -----------------------------
(* When the page is loaded the table is empty or has a profile and an older  *)
(* copy of it, as a flush that was cut off can leave it, see FaceDb.         *)
EXTENDS FacePage, TLC

EmptyOrTwice ==
  {<<>>, <<[face_id |-> 1, name |-> Default], [face_id |-> 1, name |-> "new"]>>}

SlotSymmetry == Permutations(Saves) \cup Permutations(Gens)

=============================================================================
