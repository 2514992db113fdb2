--------------------------- MODULE DeliveryProofs ---------------------------
(***************************************************************************)
(* What the promise of Delivery amounts to, for any lanes and inputs.      *)
(***************************************************************************)
EXTENDS Delivery, FilterFacts

\* No input is delivered twice, and none both dropped and delivered, or either
\* of them and still waiting.
Once ==
  /\ \A m, n \in DOMAIN delivered : delivered[m] = delivered[n] => m = n
  /\ Elements(delivered) \cap dropped = {}
  /\ Queued \cap (Elements(delivered) \cup dropped) = {}

\* With it, the lanes share nothing.
OnceInv ==
  /\ queue \in [Lane -> Seq(Input)]
  /\ delivered \in Seq(Input)
  /\ \A k, l \in Lane : k # l => Elements(queue[k]) \cap Elements(queue[l]) = {}
  /\ Once

\* What waits in a lane waits.
LEMMA QueuedFact == \A i : i \in Queued <=> \E l \in Lane : i \in Elements(queue[l])
BY DEF Queued

\* A step that takes some inputs out of the lanes and moves none.
LEMMA Shrinks ==
  ASSUME OnceInv, queue' \in [Lane -> Seq(Input)],
         \A l \in Lane : Elements(queue'[l]) \subseteq Elements(queue[l])
  PROVE  /\ \A k, l \in Lane : k # l => Elements(queue'[k]) \cap Elements(queue'[l]) = {}
         /\ Queued' \subseteq Queued
<1>1. \A k, l \in Lane : k # l => Elements(queue'[k]) \cap Elements(queue'[l]) = {}
  BY DEF OnceInv
<1>2. Queued' \subseteq Queued
  BY DEF Queued
<1> QED
  BY <1>1, <1>2

\* Acceptance adds an input that Delivery does not know.
LEMMA AcceptOnce ==
  ASSUME OnceInv, NEW i \in Input, Accept(i)
  PROVE  OnceInv'
<1>1. PICK l \in Lane : queue' = [queue EXCEPT ![l] = Append(@, i)]
  BY DEF Accept
<1>2. /\ queue \in [Lane -> Seq(Input)] /\ UNCHANGED <<delivered, dropped>>
      /\ i \notin Queued /\ i \notin Elements(delivered) /\ i \notin dropped
  BY DEF Accept, OnceInv, Known
<1>3. queue' \in [Lane -> Seq(Input)]
  BY <1>1, <1>2
<1>4. Elements(queue'[l]) = Elements(queue[l]) \cup {i} /\ \A k \in Lane : k # l => queue'[k] = queue[k]
  <2>1. queue'[l] = Append(queue[l], i) /\ queue[l] \in Seq(Input)
    BY <1>1, <1>2
  <2> QED
    BY <1>1, <1>2, <2>1, ElementsAppend
<1>5. \A k \in Lane : i \notin Elements(queue[k])
  BY <1>2, QueuedFact
<1>6. \A j, k \in Lane : j # k => Elements(queue'[j]) \cap Elements(queue'[k]) = {}
  BY <1>4, <1>5 DEF OnceInv
<1>7. Queued' \subseteq Queued \cup {i}
  BY <1>4 DEF Queued
<1> QED
  BY <1>2, <1>3, <1>6, <1>7 DEF OnceInv, Once

\* A delivery takes an input out of its only lane.
LEMMA DeliverOnce ==
  ASSUME OnceInv, NEW l \in Lane, NEW n \in DOMAIN queue[l], Deliver(l, n)
  PROVE  OnceInv'
<1> DEFINE i == queue[l][n]
<1>1. /\ queue \in [Lane -> Seq(Input)] /\ delivered' = Append(delivered, i) /\ UNCHANGED dropped
      /\ queue' = [queue EXCEPT ![l] = Without(@, {i})]
      /\ delivered \in Seq(Input)
  BY DEF Deliver, OnceInv
<1>2. queue[l] \in Seq(Input) /\ i \in Elements(queue[l]) /\ i \in Input
  BY <1>1 DEF Elements
<1> HIDE DEF i
<1>3. queue'[l] \in Seq(Input) /\ Elements(queue'[l]) = Elements(queue[l]) \ {i}
  <2>1. queue'[l] = Only(queue[l], Elements(queue[l]) \ {i})
    BY <1>1 DEF Without
  <2> QED
    BY <1>2, <2>1, OnlyType
<1>4. \A k \in Lane : k # l => queue'[k] = queue[k]
  BY <1>1
<1>5. queue' \in [Lane -> Seq(Input)]
  BY <1>1, <1>3
<1>6. /\ \A k, m \in Lane : k # m => Elements(queue'[k]) \cap Elements(queue'[m]) = {}
      /\ Queued' \subseteq Queued
  BY <1>3, <1>4, <1>5, Shrinks
<1>7. i \notin Queued'
  <2>1. \A k \in Lane : i \notin Elements(queue'[k])
    BY <1>2, <1>3, <1>4 DEF OnceInv
  <2> QED
    BY <2>1 DEF Queued
<1>8. i \in Queued
  BY <1>2, QueuedFact
<1>9. i \notin Elements(delivered) /\ i \notin dropped
  BY <1>8 DEF OnceInv, Once
<1>10. delivered' \in Seq(Input) /\ Elements(delivered') = Elements(delivered) \cup {i}
  BY <1>1, <1>2, ElementsAppend
<1>11. \A m, k \in DOMAIN delivered' : delivered'[m] = delivered'[k] => m = k
  <2>1. \A m \in DOMAIN delivered' : IF m \in DOMAIN delivered THEN delivered'[m] = delivered[m]
                                     ELSE m = Len(delivered) + 1 /\ delivered'[m] = i
    BY <1>1, <1>2
  <2>2. \A m \in DOMAIN delivered : delivered[m] # i
    BY <1>9 DEF Elements
  <2>3. \A m, k \in DOMAIN delivered : delivered[m] = delivered[k] => m = k
    BY DEF OnceInv, Once
  <2> QED
    BY <2>1, <2>2, <2>3
<1>12. Elements(delivered)' = Elements(delivered')
  BY DEF Elements
<1> QED
  BY <1>1, <1>5, <1>6, <1>7, <1>9, <1>10, <1>11, <1>12 DEF OnceInv, Once

\* Dropping takes inputs out of all lanes.
LEMMA DropOnce ==
  ASSUME OnceInv, NEW S \in SUBSET Queued, Drop(S)
  PROVE  OnceInv'
<1>1. /\ queue \in [Lane -> Seq(Input)] /\ dropped' = dropped \cup S /\ UNCHANGED delivered
      /\ queue' = [l \in Lane |-> Without(queue[l], S)]
  BY DEF Drop, OnceInv
<1>2. \A l \in Lane : queue'[l] \in Seq(Input) /\ Elements(queue'[l]) = Elements(queue[l]) \ S
  <2> SUFFICES ASSUME NEW l \in Lane
               PROVE  queue'[l] \in Seq(Input) /\ Elements(queue'[l]) = Elements(queue[l]) \ S
    OBVIOUS
  <2> DEFINE left == Elements(queue[l]) \ S
  <2>1. queue'[l] = Only(queue[l], left) /\ queue[l] \in Seq(Input)
    BY <1>1 DEF Without
  <2>2. Only(queue[l], left) \in Seq(Input) /\ Elements(Only(queue[l], left)) = Elements(queue[l]) \cap left
    BY <2>1, OnlyType
  <2> QED
    BY <2>1, <2>2
<1>3. queue' \in [Lane -> Seq(Input)]
  BY <1>1, <1>2
<1>4. /\ \A k, m \in Lane : k # m => Elements(queue'[k]) \cap Elements(queue'[m]) = {}
      /\ Queued' \subseteq Queued
  BY <1>2, <1>3, Shrinks
<1>5. Queued' \cap S = {}
  BY <1>2 DEF Queued
<1>6. S \cap Elements(delivered) = {}
  BY DEF OnceInv, Once
<1> QED
  BY <1>1, <1>3, <1>4, <1>5, <1>6 DEF OnceInv, Once

\* A move takes an input out of every lane and puts it into one.
LEMMA MoveOnce ==
  ASSUME OnceInv, NEW i \in Queued, NEW l \in Lane, Move(i, l)
  PROVE  OnceInv'
<1>1. /\ queue \in [Lane -> Seq(Input)] /\ UNCHANGED <<delivered, dropped>>
      /\ queue' = [m \in Lane |-> IF m = l THEN Append(Without(queue[l], {i}), i)
                                  ELSE Without(queue[m], {i})]
  BY DEF Move, OnceInv
<1>2. i \in Input
  BY <1>1, QueuedFact DEF Elements
<1>3. \A m \in Lane : /\ Without(queue[m], {i}) \in Seq(Input)
                      /\ Elements(Without(queue[m], {i})) = Elements(queue[m]) \ {i}
  <2>1. \A m \in Lane : queue[m] \in Seq(Input)
    BY <1>1
  <2>2. \A m \in Lane : /\ Without(queue[m], {i}) \in Seq(Input)
                        /\ Elements(Without(queue[m], {i})) = Elements(queue[m]) \cap (Elements(queue[m]) \ {i})
    BY <2>1, OnlyType DEF Without
  <2> QED
    BY <2>2
<1>4. Elements(queue'[l]) = (Elements(queue[l]) \ {i}) \cup {i}
  <2> DEFINE rest == Without(queue[l], {i})
  <2>1. queue'[l] = Append(rest, i)
    BY <1>1
  <2>2. rest \in Seq(Input) /\ Elements(rest) = Elements(queue[l]) \ {i}
    BY <1>3
  <2> HIDE DEF rest
  <2>3. Elements(Append(rest, i)) = Elements(rest) \cup {i}
    BY <1>2, <2>2, ElementsAppend
  <2> QED
    BY <2>1, <2>2, <2>3
<1>5. \A m \in Lane : m # l => Elements(queue'[m]) = Elements(queue[m]) \ {i}
  BY <1>1, <1>3
<1>6. queue' \in [Lane -> Seq(Input)]
  <2>1. \A m \in Lane : queue'[m] \in Seq(Input)
    <3> SUFFICES ASSUME NEW m \in Lane PROVE queue'[m] \in Seq(Input)
      OBVIOUS
    <3> DEFINE rest == Without(queue[m], {i})
    <3>1. rest \in Seq(Input)
      BY <1>3
    <3>2. queue'[m] = IF m = l THEN Append(rest, i) ELSE rest
      BY <1>1
    <3> HIDE DEF rest
    <3> QED
      BY <1>2, <3>1, <3>2
  <2>2. queue' = [m \in Lane |-> queue'[m]]
    BY <1>1
  <2> QED
    BY <2>1, <2>2
<1>7. \A k, m \in Lane : k # m => Elements(queue'[k]) \cap Elements(queue'[m]) = {}
  BY <1>4, <1>5 DEF OnceInv
<1>8. Queued' \subseteq Queued
  BY <1>4, <1>5 DEF Queued
<1> QED
  BY <1>1, <1>6, <1>7, <1>8 DEF OnceInv, Once

\* A reordering changes no lane's inputs.
LEMMA ReorderOnce ==
  ASSUME OnceInv, NEW l \in Lane, NEW a \in DOMAIN queue[l], NEW b \in DOMAIN queue[l], Reorder(l, a, b)
  PROVE  OnceInv'
<1>1. /\ queue \in [Lane -> Seq(Input)] /\ UNCHANGED <<delivered, dropped>>
      /\ queue' = [queue EXCEPT ![l][a] = queue[l][b], ![l][b] = queue[l][a]]
  BY DEF Reorder, OnceInv
<1>2. queue' = [queue EXCEPT ![l] = Exchanged(queue[l], a, b)]
  <2>1. queue = [k \in Lane |-> queue[k]]
    BY <1>1
  <2> QED
    BY <1>1, <2>1, TwoPlaces DEF Exchanged
<1>3. queue[l] \in Seq(Input)
  BY <1>1
<1>4. Exchanged(queue[l], a, b) \in Seq(Input) /\ Elements(Exchanged(queue[l], a, b)) = Elements(queue[l])
  BY <1>3, ExchangedElements
<1>5. queue' \in [Lane -> Seq(Input)] /\ \A m \in Lane : Elements(queue'[m]) = Elements(queue[m])
  BY <1>1, <1>2, <1>4
<1>6. /\ \A k, m \in Lane : k # m => Elements(queue'[k]) \cap Elements(queue'[m]) = {}
      /\ Queued' \subseteq Queued
  BY <1>5, Shrinks
<1> QED
  BY <1>1, <1>5, <1>6 DEF OnceInv, Once

\* What is set aside is no part of it.
LEMMA RetakeOnce ==
  ASSUME OnceInv, NEW i, Retake(i)
  PROVE  OnceInv'
BY DEF Retake, OnceInv, Once, Queued

\* Whatever implements Delivery delivers an input at most once, and never one
\* that it has dropped.
THEOREM DeliveredOnce == Spec => []Once
<1>1. Init => OnceInv
  BY DEF Init, OnceInv, Once, Queued, Elements
<1>2. OnceInv /\ [Next]_vars => OnceInv'
  <2> SUFFICES ASSUME OnceInv, [Next]_vars PROVE OnceInv'
    OBVIOUS
  <2>1. CASE Next
    BY <2>1, AcceptOnce, DeliverOnce, DropOnce, MoveOnce, ReorderOnce, RetakeOnce DEF Next
  <2>2. CASE UNCHANGED vars
    BY <2>2 DEF vars, OnceInv, Once, Queued
  <2> QED
    BY <2>1, <2>2
<1>3. OnceInv => Once
  BY DEF OnceInv
<1> QED
  BY <1>1, <1>2, <1>3, PTL DEF Spec
=============================================================================
