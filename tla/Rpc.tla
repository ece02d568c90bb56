-------------------------------- MODULE Rpc --------------------------------
(***************************************************************************)
(* What a client of kt_app may rely on when it sends a request: it is      *)
(* executed at most once; an answer means that it was executed, a failure  *)
(* that it was not and never will be, and a client that gives up may not   *)
(* know.                                                                   *)
(***************************************************************************)
CONSTANT Clients

VARIABLES
  asked,     \* clients that have a request
  executed,  \* how many times each request was executed
  outcome    \* what each client has seen

vars == <<asked, executed, outcome>>

Init == /\ asked = {}
        /\ executed = [c \in Clients |-> 0]
        /\ outcome = [c \in Clients |-> "none"]

Ask(c) == /\ c \notin asked /\ outcome[c] = "none"
          /\ asked' = asked \cup {c}
          /\ UNCHANGED <<executed, outcome>>

Execute(c) == /\ c \in asked /\ executed[c] = 0 /\ outcome[c] # "failed"
              /\ executed' = [executed EXCEPT ![c] = 1]
              /\ UNCHANGED <<asked, outcome>>

End(c, result) == /\ outcome[c] = "none"
                  /\ outcome' = [outcome EXCEPT ![c] = result]
                  /\ UNCHANGED <<asked, executed>>

Answer(c) == executed[c] = 1 /\ End(c, "ok")
Fail(c)   == executed[c] = 0 /\ End(c, "failed")
GiveUp(c) == End(c, "gaveUp")

Next == \E c \in Clients :
          Ask(c) \/ Execute(c) \/ Answer(c) \/ Fail(c) \/ GiveUp(c)

Spec == Init /\ [][Next]_vars
=============================================================================
