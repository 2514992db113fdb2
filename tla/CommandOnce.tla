---------------------------- MODULE CommandOnce ----------------------------
(***************************************************************************)
(* What the supervisor promises the client of a mutating command: it runs  *)
(* at most once, a result that is reported is the result of that run, and  *)
(* a command that is reported as rejected neither ran nor will.            *)
(***************************************************************************)
EXTENDS Naturals

CONSTANTS Command, Response

VARIABLES
  executed,  \* how many times each command ran
  outcome,   \* the response of its run
  answer     \* what its caller was told

vars == <<executed, outcome, answer>>

Init ==
  /\ executed = [c \in Command |-> 0]
  /\ outcome = [c \in Command |-> "none"]
  /\ answer = [c \in Command |-> "none"]

Run(c) ==
  /\ executed[c] = 0
  /\ answer[c] # "rejected"
  /\ executed' = [executed EXCEPT ![c] = 1]
  /\ \E r \in Response : outcome' = [outcome EXCEPT ![c] = r]
  /\ UNCHANGED answer

\* "uncertain" and "failure" claim nothing about the run.
Allowed(c) ==
  {"uncertain", "failure"}
    \cup (IF executed[c] = 0 THEN {"rejected"} ELSE {outcome[c]})

Tell(c) ==
  /\ answer[c] = "none"
  /\ \E a \in Allowed(c) : answer' = [answer EXCEPT ![c] = a]
  /\ UNCHANGED <<executed, outcome>>

Next == \E c \in Command : Run(c) \/ Tell(c)

Spec == Init /\ [][Next]_vars
=============================================================================
