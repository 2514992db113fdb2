------------------------------ MODULE Delivery ------------------------------
(***************************************************************************)
(* What a session promises for the inputs it has accepted: an input is     *)
(* delivered at most once, one that was dropped is never delivered, and    *)
(* each lane is first in first out.  Only an input accepted by an idle     *)
(* session, which is set aside for the pump, may be overtaken.             *)
(***************************************************************************)
EXTENDS Filter, FiniteSets

CONSTANTS Input, Lane

VARIABLES
  queue,      \* the inputs that wait in each lane
  aside,      \* those of them set aside for the pump
  delivered,  \* the inputs the agent was given, in order
  dropped     \* the inputs that were withdrawn or failed

vars == <<queue, aside, delivered, dropped>>

Queued == UNION {Elements(queue[l]) : l \in Lane}
Known == Queued \cup Elements(delivered) \cup dropped

Init ==
  /\ queue = [l \in Lane |-> <<>>]
  /\ aside = {}
  /\ delivered = <<>>
  /\ dropped = {}

Accept(i) ==
  /\ i \notin Known
  /\ \E l \in Lane : queue' = [queue EXCEPT ![l] = Append(@, i)]
  /\ aside' \in {aside} \cup (IF Queued = {} THEN {{i}} ELSE {})
  /\ UNCHANGED <<delivered, dropped>>

\* The pump takes an input that was set aside into its ordinary course.
Retake(i) ==
  /\ aside' = aside \ {i}
  /\ UNCHANGED <<queue, delivered, dropped>>

Deliver(l, n) ==
  /\ delivered' = Append(delivered, queue[l][n])
  /\ \A m \in 1..(n - 1) : queue[l][m] \in aside
  /\ queue[l][n] \notin aside
  /\ queue' = [queue EXCEPT ![l] = Without(@, {@[n]})]
  /\ UNCHANGED <<aside, dropped>>

\* Dropping never touches what was delivered.
Drop(S) ==
  /\ dropped' = dropped \cup S
  /\ aside' = aside \ S
  /\ queue' = [l \in Lane |-> Without(queue[l], S)]
  /\ UNCHANGED delivered

\* An edit sends a waiting input to the end of the other lane, and the user may
\* put what waits in another order.
Move(i, l) ==
  /\ queue' = [m \in Lane |->
       IF m = l THEN Append(Without(queue[l], {i}), i) ELSE Without(queue[m], {i})]
  /\ UNCHANGED <<aside, delivered, dropped>>

Reorder(l, a, b) ==
  /\ {queue[l][a], queue[l][b]} \cap aside = {}
  /\ queue' = [queue EXCEPT ![l][a] = queue[l][b], ![l][b] = queue[l][a]]
  /\ UNCHANGED <<aside, delivered, dropped>>

Next ==
  \/ \E i \in Input : Accept(i)
  \/ \E i \in aside : Retake(i)
  \/ \E l \in Lane : \E n \in DOMAIN queue[l] : Deliver(l, n)
  \/ \E S \in SUBSET Queued : Drop(S)
  \/ \E i \in Queued \ aside, l \in Lane : Move(i, l)
  \/ \E l \in Lane : \E a, b \in DOMAIN queue[l] : Reorder(l, a, b)

Spec == Init /\ [][Next]_vars
=============================================================================
