---------------------------- MODULE MCVizServer -----------------------------
(* Two requests at a time and three tables whose files get longer and then   *)
(* shorter. In a frame there are two whom kt_app does not know, and in the    *)
(* other one (a face > 0), too, whom it knows.                                *)
EXTENDS VizServer

SizeOf(v) == <<1, 3, 2>>[v + 1]

MixedFrames == {[known |-> <<1>>, unknown |-> <<0, 0>>], [known |-> <<>>, unknown |-> <<0, 0>>]}

=============================================================================
