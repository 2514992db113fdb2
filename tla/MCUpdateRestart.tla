--------------------------- MODULE MCUpdateRestart ---------------------------
EXTENDS UpdateRestart, FiniteSets

MCWorker == {"a", "b"}
MCResident == {"a"}
MCOf == [i \in Input |-> IF i \in {"new", "job"} THEN "b" ELSE "a"]
MCCreation == {"new"} \cap Input
MCUrgent == {"stop"} \cap Input
MCScheduled == {"job"} \cap Input

\* A behaviour has three of the inputs, and one with a second coordinator only
\* the prompt and the creation.  Neither inputs nor coordinators are fair.
MCNext ==
  /\ Next
  /\ LET used == {i \in Input : place'[i] # "new"} IN
     IF coordinators' > 1 THEN used \subseteq {"prompt", "new"}
     ELSE Cardinality(used) <= 3
MCLiveSpec == Init /\ [][MCNext]_vars /\ Fairness
=============================================================================
