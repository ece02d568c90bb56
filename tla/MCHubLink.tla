----------------------------- MODULE MCHubLink -----------------------------
(***************************************************************************)
(* Small instances of HubLink: what GARD has to send.                      *)
(***************************************************************************)
EXTENDS HubLink

Sending(n, k, a) == [size |-> n, known |-> k, alike |-> a]

\* A payload that fits; one of an unknown kind, and right behind it one that
\* fits and is short; one too large whose rest looks like the start of another
\* command, and a short one for what that does to it.
FiveSends == <<Sending(2, TRUE, TRUE), Sending(2, FALSE, FALSE), Sending(1, TRUE, FALSE),
               Sending(3, TRUE, TRUE), Sending(1, TRUE, TRUE)>>
=============================================================================
