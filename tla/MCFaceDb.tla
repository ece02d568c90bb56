------------------------------ MODULE MCFaceDb ------------------------------
(* Two names, one of them the default, whose lines differ by the length of a *)
(* line, so that the rest of a longer file can begin where a line begins.    *)
EXTENDS FaceDb, TLC

ShortDefault == <<"d">>
ShortAndLong == {ShortDefault, <<"b", "b", "b", "b">>}
IdSymmetry   == Permutations(Ids)

\* Flushes that overlap, and files torn by them, can make ever longer lines
\* and files: those are followed that give a file of at most MaxFile cells,
\* two more than the longest table has, and no profile a name of two lines.
MaxFile == 14
Bounds  == Len(disk) <= MaxFile /\ \A k \in DOMAIN table : table[k].name \in AllNames

=============================================================================
