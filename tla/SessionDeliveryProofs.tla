------------------------ MODULE SessionDeliveryProofs ------------------------
(***************************************************************************)
(* Why a session keeps the promise of Delivery, for every number of        *)
(* inputs, navigations, interruptions and retries.                         *)
(*                                                                         *)
(* KeepsPromise needs the order of the lanes, which CoreInv says nothing   *)
(* of: LaneKept, StageKept and OrderKept are added to it, and              *)
(* SessionInvariance is their induction.  The induction and the refinement *)
(* are one argument: the lemma of an action shows that it keeps the three  *)
(* and is a step or a stutter of Delivery.  Most actions are of one of     *)
(* four kinds, StillStep, StaysStep, GoesStep and HearStep; adding,        *)
(* moving and exchanging have the facts of FilterFacts.                    *)
(***************************************************************************)
EXTENDS SessionActionsProofs, FilterFacts

USE SessionAssumption DEF Lane, store, ticket, transcript, gate, wake, agent, bounds

Kept == LaneKept /\ StageKept /\ OrderKept
Waiting == [l \in Lane |-> Only(lane[l], Live)]
Gone == InState({"cancelled", "failed"}) \ Elements(heard)
Step == [D!Next]_(D!vars)

\* What LaneKept and Ahead say of any lanes.
Single(L) ==
  \A l, m \in Lane : \A a \in DOMAIN L[l], b \in DOMAIN L[m] :
    L[l][a] = L[m][b] => l = m /\ a = b
InOrder(L, i, j) ==
  \E l \in Lane : \E a, b \in DOMAIN L[l] : a < b /\ L[l][a] = i /\ L[l][b] = j
Appended(K, L, l, i) ==
  /\ \A m \in Lane : L[m] \in Seq(Input) /\ i \notin Elements(L[m])
  /\ K[l] = Append(L[l], i) /\ \A m \in Lane : m # l => K[m] = L[m]

\* Delivery filters its queues as the store does its lanes.
LEMMA SameOperators ==
  /\ \A s : D!Elements(s) = Elements(s)
  /\ \A s, S : D!Without(s, S) = Without(s, S)
<1>1. \A s : D!Elements(s) = Elements(s)
  BY Zenon DEF D!Elements, Elements
<1>2. \A s, S : D!Only(s, S) = Only(s, S)
  BY Zenon DEF D!Only, Only, D!Filtered, Filtered
<1>3. \A s, S : D!Without(s, S) = Without(s, S)
  BY <1>1, <1>2, Zenon DEF D!Without, Without
<1> QED
  BY <1>1, <1>3

\* What waits in the queues of Delivery are the live actions of the lanes.
LEMMA QueueFact ==
  ASSUME LaneKept
  PROVE  /\ \A l \in Lane : /\ lane[l] \in Seq(Input) /\ Waiting[l] \in Seq(Input)
                            /\ Elements(Waiting[l]) = In(l) \cap Live
                            /\ Elements(lane[l]) = In(l)
         /\ D!Queued = Live
<1>1. ASSUME NEW l \in Lane
      PROVE  /\ lane[l] \in Seq(Input) /\ Waiting[l] \in Seq(Input)
             /\ Elements(Waiting[l]) = In(l) \cap Live
             /\ Elements(lane[l]) = In(l)
  <2>1. lane[l] \in Seq(Input)
    BY DEF LaneKept
  <2>2. Waiting[l] = Only(lane[l], Live)
    BY DEF Waiting
  <2> QED
    BY <2>1, <2>2, OnlyType DEF In
<1>2. Live \subseteq In("steering") \cup In("followUp")
  BY DEF LaneKept, Live
<1>3. D!Queued = UNION {Elements(Waiting[l]) : l \in Lane}
  BY SameOperators DEF D!Queued, Waiting
<1>4. D!Queued = Live
  <2>1. D!Queued \subseteq Live
    BY <1>1, <1>3
  <2>2. ASSUME NEW i \in Live PROVE i \in D!Queued
    <3>1. PICK l \in Lane : i \in In(l)
      BY <1>2
    <3>2. i \in Elements(Waiting[l])
      BY <1>1, <3>1
    <3> QED
      BY <1>3, <3>2
  <2> QED
    BY <2>1, <2>2
<1> QED
  BY <1>1, <1>4

\* The steps of Delivery, in terms of this module.
LEMMA DropStep ==
  ASSUME LaneKept, NEW S \in SUBSET Live,
         Waiting' = [l \in Lane |-> Without(Waiting[l], S)],
         Aside' = Aside \ S, Gone' = Gone \cup S, UNCHANGED heard
  PROVE  Step
<1>1. D!Drop(S)
  BY SameOperators DEF D!Drop, Waiting, Gone
<1>2. S \in SUBSET D!Queued
  BY QueueFact
<1> QED
  BY <1>1, <1>2 DEF Step, D!Next

\* A step that Delivery does not see.
LEMMA StutterStep ==
  ASSUME UNCHANGED <<Waiting, Aside, heard, Gone>>
  PROVE  Step
BY DEF Step, D!vars, Waiting, Gone

\* The pump takes up what was set aside.
LEMMA RetakeStep ==
  ASSUME NEW i \in Aside, Aside' = Aside \ {i}, UNCHANGED <<Waiting, heard, Gone>>
  PROVE  Step
<1>1. D!Retake(i)
  BY DEF D!Retake, Waiting, Gone
<1> QED
  BY <1>1 DEF Step, D!Next

\* An input enters its lane at the end.
LEMMA AcceptStep ==
  ASSUME LaneKept, NEW i \in Input, NEW l \in Lane, i \notin Live, i \notin Elements(heard), i \notin Gone,
         Waiting' = [Waiting EXCEPT ![l] = Append(@, i)],
         Aside' = Aside \/ (Live = {} /\ Aside' = {i}), UNCHANGED <<heard, Gone>>
  PROVE  Step
<1>1. i \notin D!Known
  BY QueueFact, SameOperators DEF D!Known, Gone
<1>2. D!Accept(i)
  BY <1>1, QueueFact DEF D!Accept, Waiting, Gone
<1> QED
  BY <1>2 DEF Step, D!Next

\* The agent hears an input with only what was set aside in front of it.
LEMMA DeliverStep ==
  ASSUME LaneKept, NEW l \in Lane, NEW n \in DOMAIN Waiting[l],
         \A m \in 1 .. n - 1 : Waiting[l][m] \in Aside,
         Waiting[l][n] \notin Aside,
         heard' = Append(heard, Waiting[l][n]),
         Waiting' = [Waiting EXCEPT ![l] = Without(@, {Waiting[l][n]})],
         UNCHANGED <<Aside, Gone>>
  PROVE  Step
<1>1. D!Deliver(l, n)
  BY SameOperators DEF D!Deliver, Waiting, Gone
<1>2. n \in DOMAIN [k \in Lane |-> Only(lane[k], Live)][l]
  BY DEF Waiting
<1> QED
  BY <1>1, <1>2 DEF Step, D!Next

\* An input is sent to the end of a lane.
LEMMA MoveStep ==
  ASSUME LaneKept, NEW i \in Live \ Aside, NEW l \in Lane,
         Waiting' = [m \in Lane |-> IF m = l THEN Append(Without(Waiting[l], {i}), i)
                                    ELSE Without(Waiting[m], {i})],
         UNCHANGED <<Aside, heard, Gone>>
  PROVE  Step
<1>1. D!Move(i, l)
  BY SameOperators DEF D!Move, Waiting, Gone
<1>2. i \in D!Queued \ Aside /\ i \in Input
  BY QueueFact DEF Live, Unfinished, InState
<1> QED
  BY <1>1, <1>2 DEF Step, D!Next

\* Two inputs of a lane change places.
LEMMA ReorderStep ==
  ASSUME NEW l \in Lane, NEW a \in DOMAIN Waiting[l], NEW b \in DOMAIN Waiting[l],
         Waiting[l][a] \notin Aside, Waiting[l][b] \notin Aside,
         Waiting' = [Waiting EXCEPT ![l] = Exchanged(@, a, b)],
         UNCHANGED <<Aside, heard, Gone>>
  PROVE  Step
<1>1. D!Reorder(l, a, b)
  <2>1. Waiting = [k \in Lane |-> Waiting[k]]
    BY DEF Waiting
  <2>2. Waiting' = [Waiting EXCEPT ![l][a] = Waiting[l][b], ![l][b] = Waiting[l][a]]
    BY <2>1, TwoPlaces DEF Exchanged
  <2>3. {Waiting[l][a], Waiting[l][b]} \cap Aside = {}
    OBVIOUS
  <2> QED
    BY <2>2, <2>3, Zenon DEF D!Reorder, Waiting, Gone
<1>2. a \in DOMAIN [k \in Lane |-> Only(lane[k], Live)][l] /\ b \in DOMAIN [k \in Lane |-> Only(lane[k], Live)][l]
  BY DEF Waiting
<1> QED
  BY <1>1, <1>2 DEF Step, D!Next

-----------------------------------------------------------------------------
(* What becomes of the lanes. *)

\* An action has one lane and one place in it.
LEMMA LaneFacts ==
  ASSUME LaneKept
  PROVE  /\ \A l, m \in Lane : l # m => In(l) \cap In(m) = {}
         /\ \A i, j : Ahead(i, j) => i # j /\ ~Ahead(j, i)
         /\ \A l \in Lane : DOMAIN lane[l] \subseteq Nat
<1>1. \A l \in Lane : lane[l] \in Seq(Input)
  BY DEF LaneKept
<1>2. \A l \in Lane : DOMAIN lane[l] \subseteq Nat
  BY <1>1
<1>3. \A l, m \in Lane : l # m => In(l) \cap In(m) = {}
  BY DEF LaneKept, In, Elements
<1>4. ASSUME NEW i, NEW j, Ahead(i, j) PROVE i # j /\ ~Ahead(j, i)
  <2>1. PICK l \in Lane : \E a, b \in DOMAIN lane[l] : a < b /\ lane[l][a] = i /\ lane[l][b] = j
    BY <1>4 DEF Ahead
  <2>2. PICK a \in DOMAIN lane[l], b \in DOMAIN lane[l] : a < b /\ lane[l][a] = i /\ lane[l][b] = j
    BY <2>1
  <2>3. a \in Nat /\ b \in Nat
    BY <1>2
  <2>4. \A m \in Lane : \A c \in DOMAIN lane[m] : /\ lane[m][c] = i => m = l /\ c = a
                                                  /\ lane[m][c] = j => m = l /\ c = b
    BY <2>2 DEF LaneKept
  <2>5. i # j
    BY <2>2, <2>3, <2>4
  <2>6. ASSUME Ahead(j, i) PROVE FALSE
    <3>1. PICK m \in Lane : \E c, d \in DOMAIN lane[m] : c < d /\ lane[m][c] = j /\ lane[m][d] = i
      BY <2>6 DEF Ahead
    <3>2. b < a
      BY <3>1, <2>4
    <3> QED
      BY <2>2, <2>3, <3>2
  <2> QED
    BY <2>5, <2>6
<1> QED
  BY <1>2, <1>3, <1>4

\* A subsequence repeats nothing that was not repeated.
LEMMA NoRepeat ==
  ASSUME NEW s, NEW t, DOMAIN s \subseteq Nat, DOMAIN t \subseteq Nat,
         \A a, b \in DOMAIN s : s[a] = s[b] => a = b,
         \A a, b \in DOMAIN t : a < b => \E c, d \in DOMAIN s : c < d /\ s[c] = t[a] /\ s[d] = t[b]
  PROVE  \A a, b \in DOMAIN t : t[a] = t[b] => a = b
<1>1. ASSUME NEW a \in DOMAIN t, NEW b \in DOMAIN t, a < b, t[a] = t[b] PROVE FALSE
  <2>1. PICK c \in DOMAIN s, d \in DOMAIN s : c < d /\ s[c] = t[a] /\ s[d] = t[b]
    BY <1>1
  <2> QED
    BY <1>1, <2>1
<1>2. \A a, b \in DOMAIN t : a # b => a < b \/ b < a
  OBVIOUS
<1> QED
  BY <1>1, <1>2

\* Removing actions from the lanes keeps the order of the others.
LEMMA WithoutFact ==
  ASSUME NEW L \in [Lane -> Seq(Input)], Single(L), NEW R,
         NEW K, \A l \in Lane : K[l] = Without(L[l], R)
  PROVE  /\ (\A l \in Lane : K[l] \in Seq(Input)) /\ Single(K)
         /\ \A l \in Lane : Elements(K[l]) = Elements(L[l]) \ R
         /\ \A i, j : InOrder(K, i, j) => InOrder(L, i, j)
<1>1. \A l \in Lane : L[l] \in Seq(Input) /\ K[l] = Only(L[l], Elements(L[l]) \ R)
  BY DEF Without
<1>2. \A l \in Lane : /\ K[l] \in Seq(Input)
                      /\ Elements(K[l]) = Elements(L[l]) \cap (Elements(L[l]) \ R)
  BY <1>1, OnlyType
<1>3. \A l \in Lane : K[l] \in Seq(Input)
  BY <1>2
<1>4. \A l \in Lane : Elements(K[l]) = Elements(L[l]) \ R
  BY <1>2
<1>5. \A l \in Lane : \A a, b \in DOMAIN K[l] : a < b =>
        \E c, d \in DOMAIN L[l] : c < d /\ L[l][c] = K[l][a] /\ L[l][d] = K[l][b]
  <2>1. ASSUME NEW l \in Lane, NEW a \in DOMAIN K[l], NEW b \in DOMAIN K[l], a < b
        PROVE  \E c, d \in DOMAIN L[l] : c < d /\ L[l][c] = K[l][a] /\ L[l][d] = K[l][b]
    BY <1>1, <2>1, OnlyOrder
  <2> QED
    BY <2>1
<1>6. ASSUME NEW i, NEW j, InOrder(K, i, j) PROVE InOrder(L, i, j)
  BY <1>5, <1>6 DEF InOrder
<1>7. ASSUME NEW l \in Lane, NEW m \in Lane, NEW a \in DOMAIN K[l], NEW b \in DOMAIN K[m],
             K[l][a] = K[m][b]
      PROVE  l = m /\ a = b
  <2>1. K[l][a] \in Elements(L[l]) /\ K[m][b] \in Elements(L[m])
    <3>1. K[l][a] \in Elements(K[l]) /\ K[m][b] \in Elements(K[m])
      BY DEF Elements
    <3> QED
      BY <1>4, <3>1
  <2>2. l = m
    BY <1>7, <2>1 DEF Single, Elements
  <2> DEFINE s == L[l]
             t == K[l]
  <2>3. DOMAIN s \subseteq Nat /\ DOMAIN t \subseteq Nat
    BY <1>1, <1>2
  <2>4. \A c, d \in DOMAIN s : s[c] = s[d] => c = d
    BY DEF Single
  <2>5. \A c, d \in DOMAIN t : c < d => \E e, f \in DOMAIN s : e < f /\ s[e] = t[c] /\ s[f] = t[d]
    BY <1>5
  <2> HIDE DEF s
  <2>6. \A c, d \in DOMAIN t : t[c] = t[d] => c = d
    BY <2>3, <2>4, <2>5, NoRepeat
  <2> QED
    BY <1>7, <2>2, <2>6
<1>8. Single(K)
  BY <1>7 DEF Single
<1> QED
  BY <1>3, <1>4, <1>6, <1>8

\* So does adding one at the end.
LEMMA AppendFact ==
  ASSUME NEW L, Single(L), NEW l \in Lane, NEW i \in Input, NEW K, Appended(K, L, l, i)
  PROVE  /\ (\A m \in Lane : K[m] \in Seq(Input)) /\ Single(K)
         /\ \A x, y : InOrder(K, x, y) => InOrder(L, x, y) \/ (y = i /\ x # i)
<1> DEFINE s == L[l]
           t == Append(s, i)
           N == Len(s)
<1>1. s \in Seq(Input) /\ i \notin Elements(s)
  BY DEF Appended
<1>2. /\ t \in Seq(Input) /\ N \in Nat /\ DOMAIN s = 1 .. N /\ DOMAIN t = 1 .. N + 1
      /\ t[N + 1] = i /\ \A c \in 1 .. N : t[c] = s[c]
  BY <1>1
<1>3. K[l] = t /\ \A m \in Lane : m # l => K[m] = L[m]
  BY DEF Appended
<1>4. \A m \in Lane : K[m] \in Seq(Input)
  BY <1>2, <1>3 DEF Appended
<1> HIDE DEF t, N
<1>5. Elements(t) = Elements(s) \cup {i}
  BY <1>1, ElementsAppend DEF t
<1>6. /\ Elements(K[l]) = Elements(L[l]) \cup {i}
      /\ \A m \in Lane : m # l => Elements(K[m]) = Elements(L[m])
  BY <1>3, <1>5
<1>7. \A c, d \in DOMAIN t : t[c] = t[d] => c = d
  <2>1. \A c, d \in DOMAIN s : s[c] = s[d] => c = d
    BY DEF Single
  <2>2. \A c \in DOMAIN s : s[c] # i
    BY <1>1 DEF Elements
  <2>3. \A c \in DOMAIN t : c \in DOMAIN s \/ c = N + 1
    BY <1>2
  <2> HIDE DEF s
  <2> QED
    BY <1>2, <2>1, <2>2, <2>3
<1>8. Single(K)
  <2> SUFFICES ASSUME NEW m \in Lane, NEW n \in Lane, NEW a \in DOMAIN K[m], NEW b \in DOMAIN K[n],
                      K[m][a] = K[n][b]
               PROVE  m = n /\ a = b
    BY DEF Single
  <2>1. K[m][a] \in Elements(K[m]) /\ K[n][b] \in Elements(K[n])
    BY DEF Elements
  <2>2. \A e : e \in Elements(L[m]) /\ e \in Elements(L[n]) => m = n
    BY DEF Elements, Single
  <2>3. m = n
    <3>1. i \notin Elements(L[m]) /\ i \notin Elements(L[n])
      BY DEF Appended
    <3> QED
      BY <1>6, <2>1, <2>2, <3>1
  <2>4. CASE m = l
    BY <1>3, <1>7, <2>3, <2>4
  <2>5. CASE m # l
    BY <1>3, <2>3, <2>5 DEF Single
  <2> QED
    BY <2>3, <2>4, <2>5
<1>9. ASSUME NEW x, NEW y, InOrder(K, x, y) PROVE InOrder(L, x, y) \/ (y = i /\ x # i)
  <2>1. PICK m \in Lane : \E a, b \in DOMAIN K[m] : a < b /\ K[m][a] = x /\ K[m][b] = y
    BY <1>9 DEF InOrder
  <2>2. PICK a \in DOMAIN K[m], b \in DOMAIN K[m] : a < b /\ K[m][a] = x /\ K[m][b] = y
    BY <2>1
  <2>3. CASE m # l
    BY <1>3, <2>2, <2>3 DEF InOrder
  <2>4. CASE m = l
    <3>1. a \in 1 .. N /\ (b \in 1 .. N \/ b = N + 1)
      BY <1>2, <1>3, <2>2, <2>4
    <3>2. x = s[a] /\ x # i
      BY <1>1, <1>2, <1>3, <2>2, <2>4, <3>1 DEF Elements
    <3>3. b \in 1 .. N => y = s[b]
      BY <1>2, <1>3, <2>2, <2>4
    <3>4. b = N + 1 => y = i
      BY <1>2, <1>3, <2>2, <2>4
    <3> QED
      BY <1>2, <2>2, <3>1, <3>2, <3>3, <3>4 DEF InOrder
  <2> QED
    BY <2>3, <2>4
<1> QED
  BY <1>4, <1>6, <1>8, <1>9

\* LaneKept and Ahead in terms of Single and InOrder.
LEMMA LaneShape ==
  /\ LaneKept => lane \in [Lane -> Seq(Input)] /\ Single(lane)
  /\ \A i, j : Ahead(i, j) <=> InOrder(lane, i, j)
  /\ \A i, j : Ahead(i, j)' <=> InOrder(lane', i, j)
BY DEF LaneKept, Single, Ahead, InOrder

\* The release of what is over.
LEMMA ReleaseFact ==
  ASSUME LaneKept, NEW R, Release(R)
  PROVE  /\ lane' \in [Lane -> Seq(Input)] /\ Single(lane')
         /\ \A l \in Lane : In(l)' = In(l) \ R
         /\ \A i, j : Ahead(i, j)' => Ahead(i, j)
<1>1. lane \in [Lane -> Seq(Input)] /\ Single(lane) /\ \A l \in Lane : lane'[l] = Without(lane[l], R)
  BY LaneShape DEF Release
<1>2. /\ (\A l \in Lane : lane'[l] \in Seq(Input)) /\ Single(lane')
      /\ \A l \in Lane : Elements(lane'[l]) = Elements(lane[l]) \ R
      /\ \A i, j : InOrder(lane', i, j) => InOrder(lane, i, j)
  BY <1>1, WithoutFact
<1>3. lane' \in [Lane -> Seq(Input)]
  BY <1>2 DEF Release
<1>4. \A l \in Lane : In(l)' = In(l) \ R
  BY <1>2 DEF In
<1> QED
  BY <1>2, <1>3, <1>4, LaneShape

\* Releasing what is lost, or was already delivered, is dropping what is lost.
LEMMA ReleaseWaiting ==
  ASSUME LaneKept, NEW R, NEW S, Release(R), Live' = Live \ S, R \cap Live \subseteq S
  PROVE  Waiting' = [l \in Lane |-> Without(Waiting[l], S)]
<1>1. ASSUME NEW l \in Lane PROVE Only(lane'[l], Live') = Without(Waiting[l], S)
  <2> DEFINE s == lane[l]
  <2>1. s \in Seq(Input)
    BY DEF LaneKept
  <2>2. lane'[l] = Only(s, Elements(s) \ R)
    BY DEF Release, Without
  <2>3. Waiting[l] = Only(s, Live) /\ Elements(Waiting[l]) = Elements(s) \cap Live
    BY <2>1, OnlyType DEF Waiting
  <2> HIDE DEF s
  <2>4. Only(lane'[l], Live') = Only(s, (Elements(s) \ R) \cap (Live \ S))
    BY <2>1, <2>2, OnlyOnly
  <2>5. Without(Waiting[l], S) = Only(s, Live \cap ((Elements(s) \cap Live) \ S))
    BY <2>1, <2>3, OnlyOnly DEF Without
  <2>6. Elements(s) \cap ((Elements(s) \ R) \cap (Live \ S))
          = Elements(s) \cap (Live \cap ((Elements(s) \cap Live) \ S))
    OBVIOUS
  <2>7. Only(s, (Elements(s) \ R) \cap (Live \ S)) = Only(s, Live \cap ((Elements(s) \cap Live) \ S))
    BY <2>1, <2>6, OnlyAgree
  <2> QED
    BY <2>4, <2>5, <2>7
<1>2. Waiting' = [l \in Lane |-> Only(lane'[l], Live')]
  BY DEF Waiting
<1> QED
  BY <1>1, <1>2

-----------------------------------------------------------------------------
(* Three kinds of steps. *)

\* Actions change state and keep their place, or are taken up.
LEMMA StaysStep ==
  ASSUME Kept, UNCHANGED <<lane, heard>>,
         UNCHANGED <<Unfinished, InState({"cancelled"}), InState({"cancelled", "failed"})>>,
         Aside' = Aside \/ \E i \in Aside : Aside' = Aside \ {i},
         StageKept',
         \A i \in InState({"selected", "preparing", "committing"})', j \in InState({"queued"})' :
           ~Ahead(j, i)
  PROVE  Kept' /\ Step
<1>1. UNCHANGED <<Live, Waiting, Gone>> /\ \A i, j : Ahead(i, j)' <=> Ahead(i, j)
  BY DEF Live, Waiting, Gone, Ahead
<1>2. \A l \in Lane : In(l)' = In(l)
  BY DEF In
<1>3. LaneKept'
  BY <1>2 DEF Kept, LaneKept
<1>4. OrderKept'
  BY <1>1 DEF Kept, OrderKept
<1>5. Step
  BY <1>1, StutterStep, RetakeStep
<1> QED
  BY <1>3, <1>4, <1>5 DEF Kept

\* Nothing of the queue is touched.
LEMMA StillStep ==
  ASSUME Kept, UNCHANGED <<lane, heard>>,
         \A i \in Input : state'[i] = state[i]
           \/ {state[i], state'[i]} \subseteq {"new", "waiting", "fenced", "admitting", "rejected", "coalesced"},
         pump' = pump \/ {pump.at, pump'.at} \cap {"prepare", "commit", "commandFence"} = {}
  PROVE  Kept' /\ Step
<1>1. \A i \in Input : \A x \in {"queued", "selected", "preparing", "committing", "running",
                                 "completed", "failed", "cancelled"} : state'[i] = x <=> state[i] = x
  OBVIOUS
<1>2. UNCHANGED <<Unfinished, InState({"cancelled"}), InState({"cancelled", "failed"}),
                  InState({"selected"}), InState({"preparing"}), InState({"committing"}),
                  InState({"queued"}), InState({"selected", "preparing", "committing"})>>
  BY <1>1 DEF Unfinished, InState
<1>3. Aside' = Aside
  BY <1>2 DEF Aside
<1>4. StageKept'
  <2>1. InState({"preparing"})' \subseteq (IF pump'.at \in {"prepare", "commit"} THEN pump'.batch ELSE {})
    BY <1>2 DEF Kept, StageKept
  <2>2. \A i \in Command : i \in Elements(heard)' => state'[i] \in {"running", "completed", "failed"}
    BY <1>1 DEF Kept, StageKept
  <2>3. InState({"committing"})' \subseteq Turn
    BY <1>2 DEF Kept, StageKept
  <2> QED
    BY <2>1, <2>2, <2>3 DEF StageKept, Turn
<1> QED
  BY <1>2, <1>3, <1>4, StaysStep DEF Kept, OrderKept

\* What is over leaves its lane; S is lost on the way.
LEMMA GoesStep ==
  ASSUME Kept, NEW R, NEW S \in SUBSET Live, Release(R), UNCHANGED heard, R \cap Live \subseteq S,
         Unfinished' \subseteq Unfinished \ R,
         Unfinished \subseteq Unfinished' \cup R \cup InState({"cancelled"})',
         InState({"cancelled"}) \subseteq R \cup InState({"cancelled"})',
         Live' = Live \ S, Aside' = Aside \ S, Gone' = Gone \cup S,
         InState({"selected", "preparing", "committing"})' \subseteq
           InState({"selected", "preparing", "committing"}),
         InState({"queued"})' \subseteq InState({"queued"}),
         StageKept'
  PROVE  Kept' /\ Step
<1>1. LaneKept /\ OrderKept
  BY DEF Kept
<1>2. LaneKept'
  <2>1. Unfinished' \subseteq In("steering")' \cup In("followUp")'
    BY <1>1, ReleaseFact DEF LaneKept
  <2>2. \A l \in Lane : In(l)' \subseteq Unfinished' \cup InState({"cancelled"})'
    BY <1>1, ReleaseFact DEF LaneKept
  <2> QED
    BY <1>1, <2>1, <2>2, ReleaseFact DEF LaneKept, Single
<1>3. OrderKept'
  <2>1. \A i, j : Ahead(i, j)' => Ahead(i, j)
    BY <1>1, ReleaseFact
  <2>2. \A i \in Aside', j \in Unfinished' : ~Ahead(j, i)'
    BY <1>1, <2>1 DEF OrderKept
  <2>3. \A i \in InState({"selected", "preparing", "committing"})', j \in InState({"queued"})' : ~Ahead(j, i)'
    BY <1>1, <2>1 DEF OrderKept
  <2> QED
    BY <2>2, <2>3 DEF OrderKept
<1>4. Step
  BY <1>1, ReleaseWaiting, DropStep
<1> QED
  BY <1>2, <1>3, <1>4 DEF Kept

-----------------------------------------------------------------------------
(* One lemma per action. *)

\* Prompts on their way to the store, and everything that is about the agent,
\* the gate and the fence only.
LEMMA QuietKeeps ==
  ASSUME IInv,
         \/ \E i \in Input : Submit(i) \/ AwaitFence(i) \/ TakeFence(i) \/ CancelPrompt(i)
         \/ FenceSkip \/ PumpStart \/ PumpLoop
         \/ RunEnd \/ RetryBackoff \/ RetryDue \/ CompactionStart \/ CompactionEnd
         \/ RetryTimer \/ ContinueTimer \/ ContinueLater
         \/ \E n \in Navigator : Navigate(n)
         \/ Resume \/ BashStart \/ BashEnd \/ Drain
         \/ UNCHANGED vars
  PROVE  Kept' /\ Step
<1>1. Kept /\ state \in [Input -> State]
  BY DEF IInv, Kept, CoreInv, TypeOK
<1>2. ASSUME NEW i \in Input, Submit(i) \/ AwaitFence(i) \/ TakeFence(i) \/ CancelPrompt(i)
      PROVE  Kept' /\ Step
  <2>1. UNCHANGED <<lane, heard, pump>>
    BY <1>2 DEF Submit, AwaitFence, TakeFence, CancelPrompt
  <2>2. \E x \in {"admitting", "waiting", "rejected", "fenced"} :
          /\ state' = [state EXCEPT ![i] = x]
          /\ state[i] \in {"new", "waiting", "fenced"}
    BY <1>2 DEF Submit, AwaitFence, TakeFence, CancelPrompt
  <2> QED
    BY <1>1, <2>1, <2>2, StillStep
<1>3. CASE PumpStart
  BY <1>1, <1>3, StillStep, OffForm DEF PumpStart
<1>4. CASE PumpLoop
  BY <1>1, <1>4, StillStep, OffForm DEF PumpLoop, Leave
<1>5. ASSUME \/ FenceSkip \/ RunEnd \/ RetryBackoff \/ RetryDue \/ CompactionStart \/ CompactionEnd
             \/ RetryTimer \/ ContinueTimer \/ ContinueLater
             \/ \E n \in Navigator : Navigate(n)
             \/ Resume \/ BashStart \/ BashEnd \/ Drain
             \/ UNCHANGED vars
      PROVE  UNCHANGED <<lane, state, heard, pump>>
  BY <1>5 DEF FenceSkip, RunEnd, RetryBackoff, RetryDue, CompactionStart, CompactionEnd,
     RetryTimer, ContinueTimer, ContinueLater, Navigate, NavigateBegin, NavigateFence, NavigateSettle,
     NavigateEnd, Resume, BashStart, BashEnd, Drain, vars
<1>6. UNCHANGED <<lane, state, heard, pump>> => Kept' /\ Step
  BY <1>1, StillStep
<1> QED
  BY <1>2, <1>3, <1>4, <1>5, <1>6

\* An overtaken pump puts back what was set aside for it.
LEMMA PumpIdleKeeps ==
  ASSUME IInv, PumpIdle
  PROVE  Kept' /\ Step
<1> DEFINE i == FirstIn("selected")
<1>1. Kept /\ state \in [Input -> State] /\ pump.at = "idle" /\ UNCHANGED <<lane, heard>>
  BY DEF IInv, Kept, CoreInv, TypeOK, PumpIdle
<1>2. i = None \/ (i \in Input /\ state[i] = "selected")
  BY FirstInFact
<1>3. CASE UNCHANGED state /\ pump' = [pump EXCEPT !.at = "events", !.first = i]
  BY <1>1, <1>3, StillStep DEF IInv, CoreInv, TypeOK, PumpState
<1>4. CASE pump' = Off /\ Become({i}, "queued")
  <2>1. \A j \in Input : state'[j] = IF j = i THEN "queued" ELSE state[j]
    BY <1>4 DEF Become
  <2>2. CASE i = None
    BY <1>1, <1>4, <2>1, <2>2, StillStep, OffForm
  <2>3. CASE i \in Input /\ state[i] = "selected"
    <3>1. UNCHANGED <<Unfinished, InState({"cancelled"}), InState({"cancelled", "failed"})>>
      BY <2>1, <2>3 DEF Unfinished, InState
    <3>2. Aside = InState({"selected"}) /\ Aside' = InState({"selected"})'
      BY <1>1, <1>4, OffForm DEF Aside
    <3>3. i \in Aside /\ Aside' = Aside \ {i}
      BY <2>1, <2>3, <3>2 DEF InState
    <3>4. InState({"preparing"}) = {}
      BY <1>1 DEF Kept, StageKept
    <3>5. InState({"committing"}) = {}
      BY <1>1 DEF Kept, StageKept, IInv, CoreInv, OneDispatch, InState, Turn
    <3>6. StageKept'
      BY <1>1, <1>4, <2>1, <2>3, <3>4, <3>5 DEF Kept, StageKept, InState
    <3>7. \A k \in InState({"selected", "preparing", "committing"})', j \in InState({"queued"})' : ~Ahead(j, k)
      <4> SUFFICES ASSUME NEW k \in InState({"selected", "preparing", "committing"})',
                          NEW j \in InState({"queued"})'
                   PROVE  ~Ahead(j, k)
        OBVIOUS
      <4>1. k \in Aside /\ k # i
        BY <2>1, <2>3, <3>2, <3>4, <3>5 DEF InState
      <4>2. j \in Unfinished
        BY <2>1, <2>3 DEF InState, Unfinished
      <4> QED
        BY <1>1, <4>1, <4>2 DEF Kept, OrderKept
    <3> QED
      BY <1>1, <3>1, <3>3, <3>6, <3>7, StaysStep
  <2> QED
    BY <1>2, <2>2, <2>3
<1> QED
  BY <1>3, <1>4 DEF PumpIdle, Leave

\* The order of a lane is an order, and who comes first has nobody ahead.
LEMMA AheadFacts ==
  ASSUME LaneKept
  PROVE  /\ \A i, j, k : Ahead(i, j) /\ Ahead(j, k) => Ahead(i, k)
         /\ \A i, j : Before(i, j) => ~Ahead(j, i)
         /\ \A i, j, k : Before(i, j) /\ Ahead(i, k) /\ Ahead(j, k) => Ahead(i, j)
<1>1. ASSUME NEW i, NEW j, Ahead(i, j)
      PROVE  \E l \in Lane : /\ i \in In(l) /\ j \in In(l)
                             /\ \A m \in Lane : i \in In(m) \/ j \in In(m) => m = l
  <2>1. PICK l \in Lane : \E a, b \in DOMAIN lane[l] : a < b /\ lane[l][a] = i /\ lane[l][b] = j
    BY <1>1 DEF Ahead
  <2>2. i \in In(l) /\ j \in In(l)
    BY <2>1 DEF In, Elements
  <2> QED
    BY <2>2, LaneFacts
<1>2. ASSUME NEW i, NEW j, NEW k, Ahead(i, j), Ahead(j, k) PROVE Ahead(i, k)
  <2>1. PICK l \in Lane : \E a, b \in DOMAIN lane[l] : a < b /\ lane[l][a] = i /\ lane[l][b] = j
    BY <1>2 DEF Ahead
  <2>2. PICK a \in DOMAIN lane[l], b \in DOMAIN lane[l] : a < b /\ lane[l][a] = i /\ lane[l][b] = j
    BY <2>1
  <2>3. PICK m \in Lane : \E c, d \in DOMAIN lane[m] : c < d /\ lane[m][c] = j /\ lane[m][d] = k
    BY <1>2 DEF Ahead
  <2>4. PICK c \in DOMAIN lane[m], d \in DOMAIN lane[m] : c < d /\ lane[m][c] = j /\ lane[m][d] = k
    BY <2>3
  <2>5. m = l /\ c = b
    BY <2>2, <2>4 DEF LaneKept
  <2>6. a \in Nat /\ b \in Nat /\ d \in Nat
    BY <2>5, LaneFacts
  <2>7. a < d
    BY <2>2, <2>4, <2>5, <2>6
  <2> QED
    BY <2>2, <2>4, <2>5, <2>7 DEF Ahead
<1>3. ASSUME NEW i, NEW j, Before(i, j), Ahead(j, i) PROVE FALSE
  <2>1. ~Ahead(i, j)
    BY <1>3, LaneFacts
  <2>2. i \in In("steering") /\ j \in In("followUp")
    BY <1>3, <2>1 DEF Before
  <2> QED
    BY <1>1, <1>3, <2>2
<1>4. ASSUME NEW i, NEW j, NEW k, Before(i, j), Ahead(i, k), Ahead(j, k) PROVE Ahead(i, j)
  <2>1. PICK l \in Lane : k \in In(l) /\ \A m \in Lane : i \in In(m) \/ k \in In(m) => m = l
    BY <1>1, <1>4
  <2>2. PICK n \in Lane : k \in In(n) /\ \A m \in Lane : j \in In(m) \/ k \in In(m) => m = n
    BY <1>1, <1>4
  <2>3. ~(i \in In("steering") /\ j \in In("followUp"))
    BY <2>1, <2>2
  <2> QED
    BY <1>4, <2>3 DEF Before
<1> QED
  BY <1>2, <1>3, <1>4

\* What has not reached the agent was not heard, and between two dispatches
\* nothing is on its way.
LEMMA EarlyFacts ==
  ASSUME IInv
  PROVE  /\ Kept /\ state \in [Input -> State] /\ heard \in Seq(Input) /\ pump \in PumpState
         /\ \A i \in Input : i \in Elements(heard) =>
              state[i] \in {"committing", "running", "completed", "failed"}
         /\ pump.at \notin {"prepare", "commit"} => InState({"preparing"}) = {}
         /\ pump.at # "dispatched" => InState({"committing"}) = {}
<1>1. Kept /\ state \in [Input -> State] /\ heard \in Seq(Input) /\ pump \in PumpState
  BY DEF IInv, Kept, CoreInv, TypeOK
<1>2. \A i \in Turn : i \in Elements(heard) => state[i] \in {"committing", "running", "completed"}
  BY DEF IInv, CoreInv, HeardKept
<1>3. \A i \in Command : i \in Elements(heard) => state[i] \in {"running", "completed", "failed"}
  BY <1>1 DEF Kept, StageKept
<1>4. pump.at \notin {"prepare", "commit"} => InState({"preparing"}) = {}
  BY <1>1 DEF Kept, StageKept
<1>5. InState({"committing"}) \subseteq InState({"committing", "running"}) \ Command
  BY <1>1 DEF Kept, StageKept, Turn, InState
<1>6. pump.at # "dispatched" => InState({"committing"}) = {}
  BY <1>5 DEF IInv, CoreInv, OneDispatch
<1> QED
  BY <1>1, <1>2, <1>3, <1>4, <1>6 DEF Turn

\* The pump takes up what is first, and with it all that waits in between.
LEMMA PumpSelectKeeps ==
  ASSUME IInv, PumpSelect
  PROVE  Kept' /\ Step
<1> DEFINE i == IF pump.first # None THEN pump.first ELSE FirstIn("queued")
           batch == IF pump.first # None THEN {i} ELSE BatchFrom(i)
<1>1. /\ Kept /\ LaneKept /\ StageKept /\ OrderKept /\ state \in [Input -> State] /\ pump \in PumpState
      /\ pump.at = "events" /\ UNCHANGED <<lane, heard>>
      /\ InState({"preparing"}) = {} /\ InState({"committing"}) = {}
      /\ pump.first = None \/ state[pump.first] \in {"selected", "cancelled"}
  BY EarlyFacts DEF PumpSelect, Kept, IInv, CoreInv, PumpKept
<1>2. \/ UNCHANGED state /\ pump' = Off
      \/ /\ i # None /\ i \in Command
         /\ pump' = [pump EXCEPT !.at = "commandFence", !.first = i]
         /\ Become({i} \cap InState({"queued"}), "selected")
      \/ /\ i # None /\ i \notin Command /\ state[i] # "cancelled"
         /\ pump' = [pump EXCEPT !.at = "prepare", !.batch = batch]
         /\ Become(batch, "preparing")
  BY DEF PumpSelect, Leave
<1>3. /\ i # None => i \in Input
      /\ i # None /\ pump.first # None => state[i] \in {"selected", "cancelled"}
      /\ i # None /\ pump.first = None => IsFirst(i, "queued")
  <2>1. pump.first = None /\ i # None => i \in Input /\ IsFirst(i, "queued")
    BY DEF FirstIn
  <2> QED
    BY <1>1, <2>1 DEF PumpState
<1>4. Aside = InState({"selected"})
  BY <1>1 DEF Aside
<1>5. InState({"selected", "preparing", "committing"}) = InState({"selected"})
  BY <1>1 DEF InState
<1>6. \A k \in InState({"selected"}), j \in InState({"queued"}) : ~Ahead(j, k)
  BY <1>1, <1>5 DEF OrderKept
<1>7. ASSUME pump.first = None, i # None
      PROVE  \A j \in InState({"queued"}) : j # i => Before(i, j) /\ ~Ahead(j, i)
  BY <1>1, <1>3, <1>7, AheadFacts DEF IsFirst
<1> HIDE DEF i, batch
<1>8. CASE UNCHANGED state /\ pump' = Off
  BY <1>1, <1>8, StillStep, OffForm
<1>9. CASE /\ i # None /\ i \in Command
           /\ pump' = [pump EXCEPT !.at = "commandFence", !.first = i]
           /\ Become({i} \cap InState({"queued"}), "selected")
  <2>1. pump'.at = "commandFence" /\ pump'.first = i
    BY <1>1, <1>9 DEF PumpState
  <2>2. \A j \in Input : state'[j] = IF j = i /\ state[j] = "queued" THEN "selected" ELSE state[j]
    BY <1>9 DEF Become, InState
  <2>3. UNCHANGED <<Unfinished, InState({"cancelled"}), InState({"cancelled", "failed"})>>
    BY <2>2 DEF Unfinished, InState
  <2>4. Aside' = InState({"selected"})' \ {i}
    BY <2>1 DEF Aside
  <2>5. Aside' = Aside \ {i}
    BY <1>4, <2>2, <2>4 DEF InState
  <2>6. Aside' = Aside \/ \E k \in Aside : Aside' = Aside \ {k}
    BY <2>5
  <2>7. InState({"preparing"})' = {} /\ InState({"committing"})' = {}
    BY <1>1, <2>2 DEF InState
  <2>8. StageKept'
    <3>1. \A j \in Command : j \in Elements(heard)' => state'[j] \in {"running", "completed", "failed"}
      BY <1>1, <2>2 DEF StageKept
    <3> QED
      BY <2>7, <3>1 DEF StageKept
  <2>9. ASSUME NEW k \in InState({"selected", "preparing", "committing"})', NEW j \in InState({"queued"})'
        PROVE  ~Ahead(j, k)
    <3>1. j \in InState({"queued"}) /\ (j # i)
      BY <2>2, <1>3, <1>9 DEF InState
    <3>2. k \in InState({"selected"}) \/ (k = i /\ state[i] = "queued")
      BY <2>2, <2>7 DEF InState
    <3>3. CASE k \in InState({"selected"})
      BY <1>6, <3>1, <3>3
    <3>4. CASE k = i /\ state[i] = "queued"
      BY <1>3, <1>7, <1>9, <3>1, <3>4
    <3> QED
      BY <3>2, <3>3, <3>4
  <2> QED
    BY <1>1, <2>3, <2>6, <2>8, <2>9, StaysStep
<1>10. CASE /\ i # None /\ i \notin Command /\ state[i] # "cancelled"
            /\ pump' = [pump EXCEPT !.at = "prepare", !.batch = batch]
            /\ Become(batch, "preparing")
  <2>1. pump'.at = "prepare" /\ pump'.batch = batch
    BY <1>1, <1>10 DEF PumpState
  <2>2. /\ i \in batch
        /\ pump.first # None => batch = {i} /\ state[i] = "selected"
        /\ pump.first = None => batch = BatchFrom(i) /\ batch \subseteq InState({"queued"})
    <3>1. pump.first # None => batch = {i} /\ state[i] = "selected"
      BY <1>3, <1>10 DEF batch
    <3>2. pump.first = None => batch = BatchFrom(i) /\ state[i] = "queued"
      BY <1>3, <1>10 DEF batch, IsFirst
    <3> QED
      BY <1>3, <1>10, <3>1, <3>2, BatchFromFact DEF InState
  <2>3. \A j \in Input : state'[j] = IF j \in batch THEN "preparing" ELSE state[j]
    BY <1>10 DEF Become
  <2>4. \A j \in batch : j \in Input /\ state[j] \in {"queued", "selected"}
    BY <1>3, <1>10, <2>2 DEF InState
  <2>5. UNCHANGED <<Unfinished, InState({"cancelled"}), InState({"cancelled", "failed"})>>
    BY <2>3, <2>4 DEF Unfinished, InState
  <2>6. Aside' = InState({"selected"})'
    BY <2>1 DEF Aside
  <2>7. Aside' = Aside \ batch
    BY <1>4, <2>3, <2>6 DEF InState
  <2>8. Aside' = Aside \/ \E k \in Aside : Aside' = Aside \ {k}
    <3>1. pump.first = None => Aside' = Aside
      BY <1>4, <2>2, <2>7 DEF InState
    <3> QED
      BY <2>2, <2>7, <3>1
  <2>9. InState({"preparing"})' \subseteq batch /\ InState({"committing"})' = {}
    BY <1>1, <2>3 DEF InState
  <2>10. StageKept'
    <3>1. \A j \in Command : j \in Elements(heard)' => state'[j] \in {"running", "completed", "failed"}
      BY <1>1, <2>3, <2>4 DEF StageKept
    <3> QED
      BY <2>1, <2>9, <3>1 DEF StageKept
  <2>11. ASSUME NEW k \in InState({"selected", "preparing", "committing"})', NEW j \in InState({"queued"})',
                Ahead(j, k)
         PROVE  FALSE
    <3>1. j \in InState({"queued"}) /\ j \notin batch
      BY <2>3 DEF InState
    <3>2. k \in InState({"selected"}) \/ k \in batch
      BY <2>3, <2>9 DEF InState
    <3>3. pump.first = None /\ k \in BatchFrom(i)
      BY <1>6, <2>2, <2>11, <3>1, <3>2 DEF InState
    <3>4. Before(i, j) /\ ~Ahead(j, i)
      BY <1>7, <1>10, <2>2, <3>1, <3>3
    <3>5. /\ Batching /\ Ahead(i, k)
          /\ \A m \in InState({"queued"}) : Ahead(i, m) /\ Ahead(m, k) => Alike(i, m)
      BY <2>11, <3>3, <3>4 DEF BatchFrom
    <3>6. Ahead(i, j)
      BY <1>1, <2>11, <3>4, <3>5, AheadFacts
    <3>7. \A m \in InState({"queued"}) : Ahead(i, m) /\ Ahead(m, j) => Alike(i, m)
      BY <1>1, <2>11, <3>5, AheadFacts
    <3>8. j \in BatchFrom(i)
      BY <2>11, <3>1, <3>5, <3>6, <3>7 DEF BatchFrom
    <3> QED
      BY <2>2, <3>1, <3>3, <3>8
  <2> QED
    BY <1>1, <2>5, <2>8, <2>10, <2>11, StaysStep
<1> QED
  BY <1>2, <1>8, <1>9, <1>10

\* What an overtaken batch still has goes back to its place in the queue, where
\* it was in front.
LEMMA GiveBackKeeps ==
  ASSUME IInv, pump.at \in {"prepare", "commit"}, GiveBack, UNCHANGED <<gate, heard>>
  PROVE  Kept' /\ Step
<1>1. /\ Kept /\ LaneKept /\ StageKept /\ OrderKept /\ state \in [Input -> State]
      /\ UNCHANGED <<lane, heard>> /\ InState({"committing"}) = {}
  BY EarlyFacts DEF Kept, GiveBack
<1>2. InState({"preparing"}) = Turns
  BY <1>1 DEF StageKept, Turns, InState, IInv, CoreInv, TypeOK, PumpState
<1>3. pump'.at \in {"off", "loop"}
  BY NextRoundFact, OffForm DEF GiveBack, Leave, IInv, CoreInv, TypeOK
<1>4. \A j \in Input : state'[j] = IF state[j] = "preparing" THEN "queued" ELSE state[j]
  BY <1>2 DEF GiveBack, Become, InState
<1>5. UNCHANGED <<Unfinished, InState({"cancelled"}), InState({"cancelled", "failed"}), InState({"selected"})>>
  BY <1>4 DEF Unfinished, InState
<1>6. Aside = InState({"selected"}) /\ UNCHANGED Aside
  BY <1>3, <1>5 DEF Aside
<1>7. InState({"preparing"})' = {} /\ InState({"committing"})' = {}
  BY <1>1, <1>4 DEF InState
<1>8. StageKept'
  <2>1. \A j \in Command : j \in Elements(heard)' => state'[j] \in {"running", "completed", "failed"}
    BY <1>1, <1>4 DEF StageKept
  <2> QED
    BY <1>7, <2>1 DEF StageKept
<1>9. ASSUME NEW k \in InState({"selected", "preparing", "committing"})', NEW j \in InState({"queued"})'
      PROVE  ~Ahead(j, k)
  <2>1. k \in Aside
    BY <1>4, <1>6, <1>7 DEF InState
  <2>2. j \in Unfinished
    BY <1>5 DEF InState, Unfinished
  <2> QED
    BY <1>1, <2>1, <2>2 DEF OrderKept
<1> QED
  BY <1>1, <1>5, <1>6, <1>8, <1>9, StaysStep

\* A prepared batch is given back, given up, or brought to the fence.
LEMMA PumpPrepareKeeps ==
  ASSUME IInv, PumpPrepare
  PROVE  Kept' /\ Step
<1>1. /\ Kept /\ LaneKept /\ StageKept /\ OrderKept /\ state \in [Input -> State]
      /\ pump \in PumpState /\ pump.at = "prepare" /\ UNCHANGED <<gate, heard>>
      /\ InState({"committing"}) = {}
  BY EarlyFacts DEF Kept, PumpPrepare
<1>2. InState({"preparing"}) = Turns /\ Turns \subseteq pump.batch
  BY <1>1 DEF StageKept, Turns, InState, PumpState
<1>3. CASE GiveBack
  BY <1>1, <1>3, GiveBackKeeps
<1>4. ASSUME UNCHANGED <<lane, state>>, pump'.at \in {"off", "loop", "commit"},
             pump'.at = "commit" \/ Turns = {}, pump'.at = "commit" => pump'.batch = pump.batch
      PROVE  Kept' /\ Step
  <2>1. UNCHANGED <<Unfinished, InState({"cancelled"}), InState({"cancelled", "failed"}),
                    InState({"queued"}), InState({"preparing"}), InState({"committing"}),
                    InState({"selected", "preparing", "committing"})>>
    BY <1>4 DEF Unfinished, InState
  <2>2. UNCHANGED Aside
    BY <1>1, <1>4 DEF Aside, InState
  <2>3. StageKept'
    <3>1. \A j \in Command : j \in Elements(heard)' => state'[j] \in {"running", "completed", "failed"}
      BY <1>1, <1>4 DEF StageKept
    <3> QED
      BY <1>1, <1>2, <1>4, <2>1, <3>1 DEF StageKept
  <2>4. \A k \in InState({"selected", "preparing", "committing"})', j \in InState({"queued"})' : ~Ahead(j, k)
    BY <1>1, <2>1 DEF OrderKept
  <2> QED
    BY <1>1, <1>4, <2>1, <2>2, <2>3, <2>4, StaysStep
<1>5. CASE Turns = {} /\ UNCHANGED <<lane, state>> /\ NextRound
  <2>1. pump'.at \in {"off", "loop"}
    BY <1>1, <1>5, NextRoundFact DEF IInv, CoreInv, TypeOK
  <2> QED
    BY <1>4, <1>5, <2>1
<1>6. CASE UNCHANGED <<lane, state>> /\ pump' = [pump EXCEPT !.at = "commit", !.turns = Turns]
  BY <1>1, <1>4, <1>6 DEF PumpState
<1>7. CASE GiveUp
  <2>1. pump'.at \in {"off", "loop"} /\ Release(Turns)
    BY <1>1, <1>7, NextRoundFact DEF IInv, CoreInv, TypeOK, GiveUp
  <2>2. \A j \in Input : state'[j] = IF state[j] = "preparing" THEN "failed" ELSE state[j]
    BY <1>2, <1>7 DEF GiveUp, Become, InState
  <2>3. /\ Unfinished' = Unfinished \ Turns /\ UNCHANGED InState({"cancelled"})
        /\ Turns \subseteq Unfinished /\ UNCHANGED Elements(heard)
    BY <1>1, <1>2, <2>2 DEF Unfinished, InState
  <2>4. Turns \cap Elements(heard) = {}
    BY EarlyFacts, <1>2 DEF InState
  <2>5. Turns \in SUBSET Live /\ Live' = Live \ Turns
    BY <2>3, <2>4 DEF Live
  <2>6. Gone' = Gone \cup Turns
    BY <1>2, <2>2, <2>3, <2>4 DEF Gone, InState
  <2>7. Aside' = Aside \ Turns
    BY <1>1, <1>2, <2>1, <2>2 DEF Aside, InState
  <2>8. InState({"preparing"})' = {} /\ InState({"committing"})' = {}
    BY <1>1, <2>2 DEF InState
  <2>9. StageKept'
    <3>1. \A j \in Command : j \in Elements(heard)' => state'[j] \in {"running", "completed", "failed"}
      BY <1>1, <2>2 DEF StageKept
    <3> QED
      BY <2>8, <3>1 DEF StageKept
  <2>10. /\ InState({"selected", "preparing", "committing"})' \subseteq
              InState({"selected", "preparing", "committing"})
         /\ InState({"queued"})' \subseteq InState({"queued"})
    BY <2>2 DEF InState
  <2>11. Turns \cap Live \subseteq Turns /\ Unfinished' \subseteq Unfinished \ Turns
         /\ Unfinished \subseteq Unfinished' \cup Turns \cup InState({"cancelled"})'
         /\ InState({"cancelled"}) \subseteq Turns \cup InState({"cancelled"})'
    BY <2>3
  <2> QED
    BY <1>1, <2>1, <2>5, <2>6, <2>7, <2>9, <2>10, <2>11, GoesStep
<1> QED
  BY <1>3, <1>5, <1>6, <1>7 DEF PumpPrepare

\* Under the fence the batch is given back or dispatched as a whole.
LEMMA PumpCommitKeeps ==
  ASSUME IInv, PumpCommit
  PROVE  Kept' /\ Step
<1>1. /\ Kept /\ LaneKept /\ StageKept /\ OrderKept /\ state \in [Input -> State]
      /\ pump \in PumpState /\ pump.at = "commit" /\ UNCHANGED <<gate, heard>>
      /\ InState({"committing"}) = {} /\ pump.batch \subseteq Turn
  BY EarlyFacts DEF Kept, PumpCommit, IInv, CoreInv, PumpKept
<1>2. InState({"preparing"}) = Turns /\ Turns \subseteq pump.batch
  BY <1>1 DEF StageKept, Turns, InState, PumpState
<1>3. CASE GiveBack
  BY <1>1, <1>3, GiveBackKeeps
<1>4. CASE /\ pump.turns = Turns /\ Become(pump.turns, "committing")
           /\ pump' = [pump EXCEPT !.at = "dispatched"] /\ UNCHANGED lane
  <2>1. pump'.at = "dispatched"
    BY <1>1, <1>4 DEF PumpState
  <2>2. \A j \in Input : state'[j] = IF state[j] = "preparing" THEN "committing" ELSE state[j]
    BY <1>2, <1>4 DEF Become, InState
  <2>3. UNCHANGED <<Unfinished, InState({"cancelled"}), InState({"cancelled", "failed"}),
                    InState({"queued"}), InState({"selected"}),
                    InState({"selected", "preparing", "committing"})>>
    BY <2>2 DEF Unfinished, InState
  <2>4. UNCHANGED Aside
    BY <1>1, <2>1, <2>3 DEF Aside
  <2>5. InState({"preparing"})' = {} /\ InState({"committing"})' \subseteq Turn
    BY <1>1, <1>2, <2>2 DEF InState
  <2>6. StageKept'
    <3>1. \A j \in Command : j \in Elements(heard)' => state'[j] \in {"running", "completed", "failed"}
      BY <1>1, <2>2 DEF StageKept
    <3> QED
      BY <2>5, <3>1 DEF StageKept, Turn
  <2>7. \A k \in InState({"selected", "preparing", "committing"})', j \in InState({"queued"})' : ~Ahead(j, k)
    BY <1>1, <2>3 DEF OrderKept
  <2> QED
    BY <1>1, <1>4, <2>3, <2>4, <2>6, <2>7, StaysStep
<1> QED
  BY <1>3, <1>4 DEF PumpCommit

\* What was heard is off the promise: its release is a stutter.
LEMMA PumpSettleKeeps ==
  ASSUME IInv, PumpSettle
  PROVE  Kept' /\ Step
<1> DEFINE done == {i \in pump.batch :
                      state[i] = "running" \/ (state[i] = "committing" /\ i \in recorded)}
<1>1. /\ Kept /\ LaneKept /\ StageKept /\ OrderKept /\ state \in [Input -> State]
      /\ pump \in PumpState /\ pump.at = "dispatched" /\ UNCHANGED <<gate, heard>>
      /\ pump.batch \subseteq Turn /\ InState({"preparing"}) = {}
      /\ Become(done, "completed") /\ Release(done) /\ NextRound
  BY EarlyFacts DEF Kept, PumpSettle, IInv, CoreInv, PumpKept
<1>2. pump'.at \in {"off", "loop"}
  BY <1>1, NextRoundFact DEF IInv, CoreInv, TypeOK
<1>3. done \subseteq Elements(heard) /\ done \subseteq InState({"running", "committing"}) /\ done \subseteq Turn
  BY <1>1 DEF IInv, CoreInv, HeardKept, InState, Turn
<1> HIDE DEF done
<1>4. \A j \in Input : state'[j] = IF j \in done THEN "completed" ELSE state[j]
  BY <1>1 DEF Become
<1>5. Unfinished' = Unfinished \ done /\ UNCHANGED <<InState({"cancelled"}), Elements(heard)>>
  BY <1>1, <1>3, <1>4 DEF Unfinished, InState
<1>6. {} \in SUBSET Live /\ Live' = Live \ {} /\ done \cap Live \subseteq {}
  BY <1>3, <1>5 DEF Live
<1>7. Gone' = Gone \cup {}
  BY <1>3, <1>4, <1>5 DEF Gone, InState
<1>8. Aside' = Aside \ {}
  BY <1>1, <1>2, <1>3, <1>4 DEF Aside, InState
<1>9. StageKept'
  <2>1. \A j \in Command : j \in Elements(heard)' => state'[j] \in {"running", "completed", "failed"}
    BY <1>1, <1>3, <1>4 DEF StageKept, Turn
  <2>2. InState({"preparing"})' = {} /\ InState({"committing"})' \subseteq Turn
    BY <1>1, <1>4 DEF InState, StageKept
  <2> QED
    BY <2>1, <2>2 DEF StageKept, Turn
<1>10. /\ InState({"selected", "preparing", "committing"})' \subseteq
            InState({"selected", "preparing", "committing"})
       /\ InState({"queued"})' \subseteq InState({"queued"})
  BY <1>4 DEF InState
<1>11. /\ Unfinished' \subseteq Unfinished \ done
       /\ Unfinished \subseteq Unfinished' \cup done \cup InState({"cancelled"})'
       /\ InState({"cancelled"}) \subseteq done \cup InState({"cancelled"})'
  BY <1>5
<1> QED
  BY <1>1, <1>6, <1>7, <1>8, <1>9, <1>10, <1>11, GoesStep

\* A slash command is heard when it begins and released when it ends.
LEMMA CommandEndKeeps ==
  ASSUME IInv, CommandEnd
  PROVE  Kept' /\ Step
<1> DEFINE i == pump.first
<1>1. /\ Kept /\ LaneKept /\ StageKept /\ OrderKept /\ state \in [Input -> State]
      /\ pump \in PumpState /\ pump.at = "command" /\ UNCHANGED <<gate, heard>>
      /\ InState({"preparing"}) = {} /\ Release({i}) /\ pump'.at = "off"
      /\ i \in Command /\ state[i] = "running" /\ i \in Elements(heard)
  BY EarlyFacts, OffForm DEF Kept, CommandEnd, Leave, IInv, CoreInv, PumpKept, HeardKept
<1>2. PICK x \in {"completed", "failed"} : Become({i}, x)
  BY DEF CommandEnd
<1> HIDE DEF i
<1>3. \A j \in Input : state'[j] = IF j = i THEN x ELSE state[j]
  BY <1>2 DEF Become
<1>4. Unfinished' = Unfinished \ {i} /\ UNCHANGED <<InState({"cancelled"}), Elements(heard)>>
  BY <1>1, <1>3 DEF Unfinished, InState
<1>5. {} \in SUBSET Live /\ Live' = Live \ {} /\ {i} \cap Live \subseteq {}
  BY <1>1, <1>4 DEF Live
<1>6. Gone' = Gone \cup {}
  BY <1>1, <1>3, <1>4 DEF Gone, InState
<1>7. Aside' = Aside \ {}
  BY <1>1, <1>3 DEF Aside, InState
<1>8. StageKept'
  <2>1. \A j \in Command : j \in Elements(heard)' => state'[j] \in {"running", "completed", "failed"}
    BY <1>1, <1>3 DEF StageKept
  <2>2. InState({"preparing"})' = {} /\ InState({"committing"})' \subseteq Turn
    BY <1>1, <1>3 DEF InState, StageKept
  <2> QED
    BY <2>1, <2>2 DEF StageKept, Turn
<1>9. /\ InState({"selected", "preparing", "committing"})' \subseteq
           InState({"selected", "preparing", "committing"})
      /\ InState({"queued"})' \subseteq InState({"queued"})
  BY <1>3 DEF InState
<1>10. /\ Unfinished' \subseteq Unfinished \ {i}
       /\ Unfinished \subseteq Unfinished' \cup {i} \cup InState({"cancelled"})'
       /\ InState({"cancelled"}) \subseteq {i} \cup InState({"cancelled"})'
  BY <1>4
<1> QED
  BY <1>1, <1>5, <1>6, <1>7, <1>8, <1>9, <1>10, GoesStep

\* Cancelled dispatches leave their lane, lost long before.
LEMMA EventEndKeeps ==
  ASSUME IInv, EventEnd
  PROVE  Kept' /\ Step
<1>1. /\ Kept /\ state \in [Input -> State] /\ UNCHANGED <<state, heard, pump>> /\ Release(captured)
  BY EarlyFacts DEF EventEnd
<1>2. captured \subseteq InState({"cancelled"})
  BY DEF IInv, CoreInv, CaptureKept, TypeOK, InState
<1>3. captured \cap Unfinished = {}
  BY <1>2 DEF InState, Unfinished
<1>4. /\ UNCHANGED <<Unfinished, InState({"cancelled"}), InState({"queued"}), Aside, Live, Gone,
                     InState({"selected", "preparing", "committing"}), StageKept>>
  BY <1>1 DEF Unfinished, InState, Aside, Live, Gone, StageKept
<1>5. StageKept'
  BY <1>1, <1>4 DEF Kept
<1>6. {} \in SUBSET Live /\ captured \cap Live \subseteq {}
  BY <1>3 DEF Live
<1>7. Live' = Live \ {} /\ Aside' = Aside \ {} /\ Gone' = Gone \cup {}
  BY <1>4
<1>8. Unfinished' \subseteq Unfinished \ captured
  BY <1>3, <1>4
<1> QED
  BY <1>1, <1>4, <1>5, <1>6, <1>7, <1>8, GoesStep

\* The agent hears what only actions set aside are in front of.
LEMMA HearStep ==
  ASSUME Kept, heard \in Seq(Input), NEW i \in Live, heard' = Append(heard, i),
         UNCHANGED <<lane, Unfinished, InState({"cancelled"}), InState({"cancelled", "failed"}), Aside>>,
         i \notin Aside, \A j \in Live : Ahead(j, i) => j \in Aside
  PROVE  LaneKept' /\ Step /\ Elements(heard)' = Elements(heard) \cup {i}
<1>1. LaneKept /\ i \in Input
  BY DEF Kept, Live, Unfinished, InState
<1>2. Elements(heard)' = Elements(heard) \cup {i}
  BY <1>1, HeardGrows
<1>3. LaneKept'
  <2>1. \A l \in Lane : In(l)' = In(l)
    BY DEF In
  <2> QED
    BY <1>1, <2>1 DEF LaneKept
<1>4. Live' = Live \ {i} /\ i \in Unfinished /\ i \notin Elements(heard)
  BY <1>2 DEF Live
<1>5. UNCHANGED Gone
  <2>1. i \notin InState({"cancelled", "failed"})
    BY <1>4 DEF Unfinished, InState
  <2> QED
    BY <1>2, <2>1 DEF Gone
<1>6. PICK l \in Lane : i \in In(l) /\ \A m \in Lane : i \in In(m) => m = l
  BY <1>1, <1>4, LaneFacts DEF LaneKept
<1>7. PICK n \in DOMAIN Waiting[l] : Waiting[l][n] = i
  <2>1. i \in Elements(Waiting[l])
    BY <1>1, <1>6, QueueFact
  <2> QED
    BY <2>1, Zenon DEF Elements
<1>8. ASSUME NEW m \in 1 .. n - 1 PROVE Waiting[l][m] \in Aside
  <2>1. lane[l] \in Seq(Input) /\ Waiting[l] \in Seq(Input) /\ Elements(Waiting[l]) = In(l) \cap Live
    BY <1>1, QueueFact
  <2>2. n \in Nat /\ m \in DOMAIN Waiting[l] /\ m < n
    BY <2>1
  <2>3. Waiting[l] = Only(lane[l], Live)
    BY DEF Waiting
  <2>4. \E a, b \in DOMAIN lane[l] : a < b /\ lane[l][a] = Waiting[l][m] /\ lane[l][b] = Waiting[l][n]
    <3> DEFINE s == lane[l]
    <3>1. s \in Seq(Input) /\ m \in DOMAIN Only(s, Live) /\ n \in DOMAIN Only(s, Live) /\ m < n
      BY <2>1, <2>2, <2>3
    <3> HIDE DEF s
    <3>2. \E a, b \in DOMAIN s : a < b /\ s[a] = Only(s, Live)[m] /\ s[b] = Only(s, Live)[n]
      BY <3>1, OnlyOrder
    <3> QED
      BY <2>3, <3>2 DEF s
  <2>5. Ahead(Waiting[l][m], i)
    BY <1>7, <2>4 DEF Ahead
  <2>6. Waiting[l][m] \in Elements(Waiting[l])
    BY <2>2 DEF Elements
  <2> QED
    BY <2>1, <2>5, <2>6
<1>9. Waiting' = [Waiting EXCEPT ![l] = Without(@, {Waiting[l][n]})]
  <2>1. ASSUME NEW k \in Lane, k # l PROVE Only(lane[k], Live \ {i}) = Only(lane[k], Live)
    <3>1. lane[k] \in Seq(Input) /\ i \notin Elements(lane[k])
      BY <1>1, <1>6, <2>1, QueueFact
    <3>2. Elements(lane[k]) \cap (Live \ {i}) = Elements(lane[k]) \cap Live
      BY <3>1
    <3> QED
      BY <3>1, <3>2, OnlyAgree
  <2>2. Only(lane[l], Live \ {i}) = Without(Only(lane[l], Live), {i})
    <3> DEFINE s == lane[l]
               W == Elements(s) \cap Live
    <3>1. s \in Seq(Input) /\ Elements(Only(s, Live)) = W
      BY <1>1, QueueFact, OnlyType
    <3> HIDE DEF s
    <3>2. Without(Only(s, Live), {i}) = Only(s, Live \cap (W \ {i}))
      BY <3>1, OnlyOnly DEF Without
    <3>3. Elements(s) \cap (Live \cap (W \ {i})) = Elements(s) \cap (Live \ {i})
      OBVIOUS
    <3>4. Only(s, Live \cap (W \ {i})) = Only(s, Live \ {i})
      BY <3>1, <3>3, OnlyAgree
    <3>5. Without(Only(s, Live), {i}) = Only(s, Live \ {i})
      BY <3>2, <3>4
    <3> QED
      BY <3>5 DEF s
  <2>3. Waiting' = [k \in Lane |-> Only(lane[k], Live \ {i})]
    BY <1>4 DEF Waiting
  <2> QED
    BY <1>7, <2>1, <2>2, <2>3 DEF Waiting
<1>10. Step
  BY <1>1, <1>5, <1>7, <1>8, <1>9, DeliverStep
<1> QED
  BY <1>2, <1>3, <1>10

\* What runs was heard, unless it is the pump's command.
LEMMA RunningFact ==
  ASSUME IInv, pump.at # "command"
  PROVE  InState({"running"}) \subseteq Elements(heard)
BY DEF IInv, CoreInv, OneDispatch, HeardKept, InState, Turn

\* A slash command runs when only what was set aside is in front of it.
LEMMA CommandBeginKeeps ==
  ASSUME IInv, CommandBegin
  PROVE  Kept' /\ Step
<1> DEFINE i == pump.first
<1>1. /\ Kept /\ LaneKept /\ StageKept /\ OrderKept /\ state \in [Input -> State]
      /\ pump \in PumpState /\ pump.at = "commandFence" /\ UNCHANGED <<lane, gate>>
      /\ InState({"preparing"}) = {} /\ InState({"committing"}) = {}
      /\ i \in Command /\ i \in Input /\ state[i] \in {"selected", "cancelled"} /\ heard \in Seq(Input)
      /\ i \notin Elements(heard)
  BY EarlyFacts DEF Kept, CommandBegin, Leave, IInv, CoreInv, PumpKept
<1>2. \/ state[i] = "cancelled" /\ UNCHANGED <<state, heard>> /\ pump' = Off
      \/ state[i] = "selected" /\ Become({i}, "queued") /\ UNCHANGED heard /\ pump' = Off
      \/ /\ state[i] = "selected" /\ Become({i}, "running") /\ heard' = Append(heard, i)
         /\ pump' = [pump EXCEPT !.at = "command"]
  BY <1>1 DEF CommandBegin, Leave
<1>3. Aside = InState({"selected"}) \ {i}
  BY <1>1 DEF Aside
<1> HIDE DEF i
<1>4. CASE state[i] = "cancelled" /\ UNCHANGED <<state, heard>> /\ pump' = Off
  <2>1. UNCHANGED <<Unfinished, InState({"cancelled"}), InState({"cancelled", "failed"}),
                    InState({"queued"}), InState({"preparing"}), InState({"committing"}),
                    InState({"selected", "preparing", "committing"})>>
    BY <1>4 DEF Unfinished, InState
  <2>2. Aside' = Aside
    BY <1>3, <1>4, OffForm DEF Aside, InState
  <2>3. StageKept'
    BY <1>1, <1>4, <2>1 DEF StageKept, Turn
  <2>4. \A k \in InState({"selected", "preparing", "committing"})', j \in InState({"queued"})' : ~Ahead(j, k)
    BY <1>1, <2>1 DEF OrderKept
  <2> QED
    BY <1>1, <1>4, <2>1, <2>2, <2>3, <2>4, StaysStep
<1>5. CASE state[i] = "selected" /\ Become({i}, "queued") /\ UNCHANGED heard /\ pump' = Off
  <2>1. \A j \in Input : state'[j] = IF j = i THEN "queued" ELSE state[j]
    BY <1>5 DEF Become
  <2>2. UNCHANGED <<Unfinished, InState({"cancelled"}), InState({"cancelled", "failed"})>>
    BY <1>1, <1>5, <2>1 DEF Unfinished, InState
  <2>3. Aside' = InState({"selected"})' /\ Aside' = Aside
    BY <1>3, <1>5, <2>1, OffForm DEF Aside, InState
  <2>4. InState({"preparing"})' = {} /\ InState({"committing"})' = {}
    BY <1>1, <2>1 DEF InState
  <2>5. StageKept'
    <3>1. \A j \in Command : j \in Elements(heard)' => state'[j] \in {"running", "completed", "failed"}
      BY <1>1, <1>5, <2>1 DEF StageKept
    <3> QED
      BY <2>4, <3>1 DEF StageKept
  <2>6. ASSUME NEW k \in InState({"selected", "preparing", "committing"})', NEW j \in InState({"queued"})'
        PROVE  ~Ahead(j, k)
    <3>1. k \in Aside
      BY <2>3, <2>4 DEF InState
    <3>2. j \in Unfinished
      BY <2>2 DEF InState, Unfinished
    <3> QED
      BY <1>1, <3>1, <3>2 DEF OrderKept
  <2> QED
    BY <1>1, <1>5, <2>2, <2>3, <2>5, <2>6, StaysStep
<1>6. CASE /\ state[i] = "selected" /\ Become({i}, "running") /\ heard' = Append(heard, i)
           /\ pump' = [pump EXCEPT !.at = "command"]
  <2>1. \A j \in Input : state'[j] = IF j = i THEN "running" ELSE state[j]
    BY <1>6 DEF Become
  <2>2. pump'.at = "command"
    BY <1>1, <1>6 DEF PumpState
  <2>3. UNCHANGED <<Unfinished, InState({"cancelled"}), InState({"cancelled", "failed"}),
                    InState({"queued"})>>
    BY <1>1, <1>6, <2>1 DEF Unfinished, InState
  <2>4. Aside' = Aside
    BY <1>3, <2>1, <2>2 DEF Aside, InState
  <2>5. i \in Live /\ i \notin Aside
    BY <1>1, <1>3, <1>6 DEF Live, Unfinished, InState
  <2>6. ASSUME NEW j \in Live, Ahead(j, i) PROVE j \in Aside
    <3>1. j # i
      BY <1>1, <2>6, LaneFacts
    <3>2. j \notin InState({"queued"})
      BY <1>1, <1>6, <2>6 DEF OrderKept, InState
    <3>3. j \notin InState({"running"})
      BY <1>1, RunningFact DEF Live
    <3> QED
      BY <1>1, <1>3, <3>1, <3>2, <3>3 DEF Live, Unfinished, InState
  <2>7. LaneKept' /\ Step /\ Elements(heard)' = Elements(heard) \cup {i}
    BY <1>1, <1>6, <2>3, <2>4, <2>5, <2>6, HearStep
  <2>8. InState({"preparing"})' = {} /\ InState({"committing"})' = {}
    BY <1>1, <2>1 DEF InState
  <2>9. StageKept'
    <3>1. \A j \in Command : j \in Elements(heard)' => state'[j] \in {"running", "completed", "failed"}
      BY <1>1, <2>1, <2>7 DEF StageKept
    <3> QED
      BY <2>8, <3>1 DEF StageKept
  <2>10. OrderKept'
    <3>1. InState({"selected", "preparing", "committing"})' \subseteq
            InState({"selected", "preparing", "committing"})
      BY <2>1 DEF InState
    <3>2. \A j, k : Ahead(j, k)' <=> Ahead(j, k)
      BY <1>1 DEF Ahead
    <3> QED
      BY <1>1, <2>3, <2>4, <3>1, <3>2 DEF OrderKept
  <2> QED
    BY <2>7, <2>9, <2>10 DEF Kept
<1> QED
  BY <1>2, <1>4, <1>5, <1>6

\* A dispatched turn starts after those that were dispatched in front of it.
LEMMA MessageStartKeeps ==
  ASSUME IInv, NEW i \in Input, MessageStart(i)
  PROVE  Kept' /\ Step
<1>1. /\ Kept /\ LaneKept /\ StageKept /\ OrderKept /\ state \in [Input -> State] /\ heard \in Seq(Input)
      /\ UNCHANGED <<lane, state, pump>> /\ heard' = Append(heard, i)
      /\ IsNext(i) /\ i \notin Elements(heard) /\ state[i] = "committing" /\ i \in Turn
  BY EarlyFacts DEF Kept, MessageStart, IInv, CoreInv, FeedKept, IsNext
<1>2. pump.at = "dispatched" /\ InState({"preparing"}) = {}
  BY <1>1, EarlyFacts DEF InState
<1>3. Aside = InState({"selected"})
  BY <1>2 DEF Aside
<1>4. UNCHANGED <<Unfinished, InState({"cancelled"}), InState({"cancelled", "failed"}), InState({"queued"}),
                  InState({"preparing"}), InState({"committing"}),
                  InState({"selected", "preparing", "committing"}), Aside>>
  BY <1>1 DEF Unfinished, InState, Aside
<1>5. i \in Live /\ i \notin Aside
  BY <1>1, <1>3 DEF Live, Unfinished, InState
<1>6. ASSUME NEW j \in Live, Ahead(j, i) PROVE j \in Aside
  <2>1. j \notin InState({"queued"})
    BY <1>1, <1>6 DEF OrderKept, InState
  <2>2. j \notin InState({"running"})
    BY <1>2, RunningFact DEF Live
  <2>3. ASSUME j \in InState({"committing"}) PROVE FALSE
    <3>1. j \in Turn /\ state[j] = "committing" /\ j \notin Elements(heard)
      BY <1>1, <2>3 DEF StageKept, InState, Live
    <3>2. j \notin recorded
      BY <3>1 DEF IInv, CoreInv, HeardKept
    <3>3. j \in feed
      BY <3>1, <3>2 DEF IInv, CoreInv, FeedKept
    <3>4. j # i
      BY <1>1, <1>6, LaneFacts
    <3>5. Ahead(i, j)
      BY <1>1, <3>3, <3>4 DEF IsNext
    <3> QED
      BY <1>1, <1>6, <3>5, LaneFacts
  <2> QED
    BY <1>2, <1>3, <2>1, <2>2, <2>3 DEF Live, Unfinished, InState
<1>7. LaneKept' /\ Step /\ Elements(heard)' = Elements(heard) \cup {i}
  BY <1>1, <1>4, <1>5, <1>6, HearStep
<1>8. StageKept'
  <2>1. \A j \in Command : j \in Elements(heard)' => state'[j] \in {"running", "completed", "failed"}
    BY <1>1, <1>7 DEF StageKept, Turn
  <2> QED
    BY <1>1, <1>4, <2>1 DEF StageKept, Turn
<1>9. OrderKept'
  <2>1. \A j, k : Ahead(j, k)' <=> Ahead(j, k)
    BY <1>1 DEF Ahead
  <2> QED
    BY <1>1, <1>4, <2>1 DEF OrderKept
<1> QED
  BY <1>7, <1>8, <1>9 DEF Kept

\* The message of a heard turn is recorded.
LEMMA MessageEndKeeps ==
  ASSUME IInv, NEW i \in Input, MessageEnd(i)
  PROVE  Kept' /\ Step
<1>1. /\ Kept /\ StageKept /\ OrderKept /\ state \in [Input -> State] /\ UNCHANGED <<lane, heard, pump>>
      /\ i \in Turn
  BY EarlyFacts DEF Kept, MessageEnd, IInv, CoreInv, FeedKept, IsNext
<1>2. \A j \in Input : state'[j] = state[j] \/ (j = i /\ state[j] = "committing" /\ state'[j] = "running")
  BY <1>1 DEF MessageEnd, Become
<1>3. UNCHANGED <<Unfinished, InState({"cancelled"}), InState({"cancelled", "failed"}),
                  InState({"queued"}), InState({"selected"}), InState({"preparing"})>>
  BY <1>1, <1>2 DEF Unfinished, InState
<1>4. UNCHANGED Aside
  BY <1>1, <1>3 DEF Aside
<1>5. StageKept'
  <2>1. \A j \in Command : j \in Elements(heard)' => state'[j] \in {"running", "completed", "failed"}
    BY <1>1, <1>2 DEF StageKept, Turn
  <2>2. InState({"committing"})' \subseteq Turn
    BY <1>1, <1>2 DEF StageKept, InState
  <2> QED
    BY <1>1, <1>3, <2>1, <2>2 DEF StageKept, Turn
<1>6. InState({"selected", "preparing", "committing"})' \subseteq
        InState({"selected", "preparing", "committing"})
  BY <1>2 DEF InState
<1>7. \A k \in InState({"selected", "preparing", "committing"})', j \in InState({"queued"})' : ~Ahead(j, k)
  BY <1>1, <1>3, <1>6 DEF OrderKept
<1> QED
  BY <1>1, <1>3, <1>4, <1>5, <1>7, StaysStep

-----------------------------------------------------------------------------
(* The user's actions. *)

\* What is taken back before the agent heard it is lost, and a dispatched turn
\* keeps its place until the end of its run.
LEMMA LostStep ==
  ASSUME IInv, NEW S \in SUBSET Input, NEW R \in SUBSET S, Release(R), UNCHANGED <<heard, pump>>,
         S \cap Elements(heard) = {},
         \A i \in S : /\ state[i] \in {"queued", "selected", "preparing", "committing"}
                      /\ state'[i] = "cancelled",
         \A i \in Input \ S : \/ state'[i] = state[i]
                              \/ state[i] \in {"waiting", "fenced"} /\ state'[i] = "rejected"
  PROVE  Kept' /\ Step
<1>1. Kept /\ StageKept /\ state \in [Input -> State]
  BY EarlyFacts DEF Kept
<1>2. \A i \in Input \ S : \A x \in {"queued", "selected", "preparing", "committing", "running",
                                     "completed", "failed", "cancelled"} : state'[i] = x <=> state[i] = x
  OBVIOUS
<1>3. /\ Unfinished' = Unfinished \ S /\ S \subseteq Unfinished
      /\ InState({"cancelled"})' = InState({"cancelled"}) \cup S
      /\ InState({"cancelled", "failed"})' = InState({"cancelled", "failed"}) \cup S
      /\ InState({"selected"})' = InState({"selected"}) \ S
      /\ InState({"preparing"})' = InState({"preparing"}) \ S
      /\ InState({"committing"})' = InState({"committing"}) \ S
      /\ InState({"queued"})' = InState({"queued"}) \ S
      /\ InState({"selected", "preparing", "committing"})' =
           InState({"selected", "preparing", "committing"}) \ S
  BY <1>2 DEF Unfinished, InState
<1>4. S \in SUBSET Live /\ Live' = Live \ S
  BY <1>3 DEF Live
<1>5. Gone' = Gone \cup S
  BY <1>3 DEF Gone
<1>6. Aside' = Aside \ S
  BY <1>3 DEF Aside
<1>7. StageKept'
  <2>1. \A j \in Command : j \in Elements(heard)' => state'[j] \in {"running", "completed", "failed"}
    BY <1>1, <1>2 DEF StageKept
  <2> QED
    BY <1>1, <1>3, <2>1 DEF StageKept, Turn
<1>8. /\ Unfinished' \subseteq Unfinished \ R
      /\ Unfinished \subseteq Unfinished' \cup R \cup InState({"cancelled"})'
      /\ InState({"cancelled"}) \subseteq R \cup InState({"cancelled"})'
      /\ R \cap Live \subseteq S
      /\ InState({"selected", "preparing", "committing"})' \subseteq
           InState({"selected", "preparing", "committing"})
      /\ InState({"queued"})' \subseteq InState({"queued"})
  BY <1>3
<1> QED
  BY <1>1, <1>4, <1>5, <1>6, <1>7, <1>8, GoesStep

\* _cancelSessionActions loses exactly what it is given.
LEMMA CancelKeeps ==
  ASSUME IInv, NEW S \in SUBSET Input, Cancel(S), UNCHANGED <<heard, pump>>,
         \A i \in S : \/ state[i] \in {"queued", "selected", "preparing"}
                      \/ state[i] = "committing" /\ i \notin Elements(heard)
  PROVE  Kept' /\ Step
<1>1. S \cap Elements(heard) = {}
  BY EarlyFacts
<1>2. \A i \in Input : state'[i] = IF i \in S THEN "cancelled" ELSE state[i]
  BY CancelFact DEF IInv, CoreInv
<1>3. PICK R \in SUBSET S : Release(R)
  BY DEF Cancel
<1> QED
  BY <1>1, <1>2, <1>3, LostStep

\* Aborting, clearing, deleting, withdrawing and disposing.
LEMMA TakingBackKeeps ==
  ASSUME IInv,
         Abort \/ ClearQueue \/ Dispose \/ \E i \in Input : Delete(i) \/ Withdraw(i)
  PROVE  Kept' /\ Step
<1>1. CASE Abort
  <2> DEFINE S == {i \in Clearable \ Command : ~visible[i]}
  <2>1. S \in SUBSET Input /\ \A i \in S : state[i] \in {"queued", "selected", "preparing"}
    BY DEF Clearable, InState
  <2>2. Cancel(S) /\ UNCHANGED <<heard, pump>>
    BY <1>1 DEF Abort
  <2> HIDE DEF S
  <2> QED
    BY <2>1, <2>2, CancelKeeps
<1>2. CASE ClearQueue
  <2> DEFINE S == {i \in Clearable : i \in Command \/ visible[i]}
  <2>1. S \in SUBSET Input /\ \A i \in S : state[i] \in {"queued", "selected", "preparing"}
    BY DEF Clearable, InState
  <2>2. Cancel(S) /\ UNCHANGED <<heard, pump>>
    BY <1>2 DEF ClearQueue
  <2> HIDE DEF S
  <2> QED
    BY <2>1, <2>2, CancelKeeps
<1>3. ASSUME NEW i \in Input, Delete(i) PROVE Kept' /\ Step
  <2>1. {i} \in SUBSET Input /\ \A j \in {i} : state[j] \in {"queued", "selected", "preparing"}
    BY <1>3 DEF Delete, Shown
  <2>2. Cancel({i}) /\ UNCHANGED <<heard, pump>>
    BY <1>3 DEF Delete
  <2> QED
    BY <2>1, <2>2, CancelKeeps
<1>4. ASSUME NEW i \in Input, Withdraw(i) PROVE Kept' /\ Step
  <2>1. \/ state[i] \in {"queued", "selected", "preparing"}
        \/ state[i] = "committing" /\ i \notin Elements(heard)
    BY <1>4 DEF Withdraw, Clearable, InState
  <2>2. Cancel({i}) /\ UNCHANGED <<heard, pump>>
    BY <1>4 DEF Withdraw
  <2> QED
    BY <2>1, <2>2, CancelKeeps
<1>5. CASE Dispose
  <2>1. Clearable \in SUBSET Input /\ Release(Clearable) /\ UNCHANGED <<heard, pump>>
    BY <1>5 DEF Dispose, Clearable, InState
  <2>2. \A i \in Clearable : state[i] \in {"queued", "selected", "preparing"}
    BY DEF Clearable, InState
  <2>3. Clearable \cap Elements(heard) = {}
    BY <2>1, <2>2, EarlyFacts
  <2>4. \A i \in Clearable : state'[i] = "cancelled"
    BY <1>5, <2>1, <2>2 DEF Dispose
  <2>5. \A i \in Input \ Clearable : \/ state'[i] = state[i]
                                     \/ state[i] \in {"waiting", "fenced"} /\ state'[i] = "rejected"
    BY <1>5 DEF Dispose
  <2>6. Clearable \in SUBSET Clearable
    OBVIOUS
  <2> QED
    BY <2>1, <2>2, <2>3, <2>4, <2>5, <2>6, LostStep
<1> QED
  BY <1>1, <1>2, <1>3, <1>4, <1>5

\* An accepted prompt goes to the end of its lane; one that an idle session
\* selects at once finds nothing unfinished.
LEMMA AdmitKeeps ==
  ASSUME IInv, NEW i \in Input, Admit(i)
  PROVE  Kept' /\ Step
<1> DEFINE l == LaneOf[i]
<1>1. /\ Kept /\ LaneKept /\ StageKept /\ OrderKept /\ state \in [Input -> State] /\ pump \in PumpState
      /\ state[i] = "admitting" /\ UNCHANGED <<heard, pump>> /\ l \in Lane
      /\ i \notin Elements(heard)
  BY EarlyFacts DEF Kept, Admit
<1>2. PICK x \in {"rejected", "coalesced", "selected", "queued"} :
        /\ state' = [state EXCEPT ![i] = x]
        /\ x \in {"rejected", "coalesced"} => UNCHANGED lane
        /\ x \in {"selected", "queued"} => lane' = [lane EXCEPT ![l] = Append(@, i)]
        /\ x = "selected" => Unfinished = {}
  <2>1. CASE disposed
    BY <2>1 DEF Admit
  <2>2. CASE ~disposed /\ Coalesced(i)
    BY <2>2 DEF Admit
  <2>3. CASE ~disposed /\ ~Coalesced(i)
    <3> DEFINE shown == i \notin Command /\ (running \/ (i \in QueueIfBusy /\ ~(busy = {} /\ Unfinished = {})))
               first == ~shown /\ ~running /\ ~BusyForPump /\ Unfinished = {}
    <3>1. /\ state' = [state EXCEPT ![i] = IF first THEN "selected" ELSE "queued"]
          /\ lane' = [lane EXCEPT ![l] = Append(@, i)]
      BY <2>3 DEF Admit
    <3> QED
      BY <3>1
  <2> QED
    BY <2>1, <2>2, <2>3
<1> HIDE DEF l
<1>3. \A j \in Input : state'[j] = IF j = i THEN x ELSE state[j]
  BY <1>1, <1>2
<1>4. CASE x \in {"rejected", "coalesced"}
  BY <1>1, <1>2, <1>3, <1>4, StillStep
<1>5. CASE x \in {"selected", "queued"}
  <2>1. lane \in [Lane -> Seq(Input)] /\ Single(lane) /\ lane' = [lane EXCEPT ![l] = Append(@, i)]
    BY <1>1, <1>2, <1>5, LaneShape
  <2>2. \A m \in Lane : i \notin Elements(lane[m])
    <3>1. i \notin Unfinished \cup InState({"cancelled"})
      BY <1>1 DEF Unfinished, InState
    <3> QED
      BY <1>1, <3>1 DEF LaneKept, In
  <2>3. lane'[l] = Append(lane[l], i) /\ \A m \in Lane : m # l => lane'[m] = lane[m]
    BY <1>1, <2>1
  <2>4. /\ (\A m \in Lane : lane'[m] \in Seq(Input)) /\ Single(lane')
        /\ Elements(lane'[l]) = Elements(lane[l]) \cup {i}
        /\ \A m \in Lane : m # l => Elements(lane'[m]) = Elements(lane[m])
        /\ \A j, k : InOrder(lane', j, k) => InOrder(lane, j, k) \/ (k = i /\ j # i)
    <3>1. Appended(lane', lane, l, i)
      BY <2>1, <2>2, <2>3 DEF Appended
    <3>2. l \in Lane /\ Single(lane)
      BY <1>1, <2>1
    <3>3. lane[l] \in Seq(Input)
      BY <2>1, <3>2
    <3>4. Elements(lane'[l]) = Elements(lane[l]) \cup {i}
      BY <2>3, <3>3, ElementsAppend
    <3> QED
      BY <2>3, <3>1, <3>2, <3>4, AppendFact
  <2>5. lane' \in [Lane -> Seq(Input)]
    BY <2>1, <2>4
  <2>6. /\ Unfinished' = Unfinished \cup {i} /\ i \notin Unfinished
        /\ UNCHANGED <<InState({"cancelled"}), InState({"cancelled", "failed"}), InState({"preparing"}),
                       InState({"committing"}), Elements(heard)>>
        /\ InState({"selected"})' = InState({"selected"}) \cup (IF x = "selected" THEN {i} ELSE {})
        /\ InState({"queued"})' = InState({"queued"}) \cup (IF x = "queued" THEN {i} ELSE {})
        /\ InState({"selected", "preparing", "committing"})' =
             InState({"selected", "preparing", "committing"}) \cup (IF x = "selected" THEN {i} ELSE {})
    BY <1>1, <1>3, <1>5 DEF Unfinished, InState
  <2>7. LaneKept'
    <3>1. In(l)' = In(l) \cup {i} /\ \A m \in Lane : m # l => In(m)' = In(m)
      BY <1>1, <2>4 DEF In
    <3>2. Unfinished' \subseteq In("steering")' \cup In("followUp")'
      BY <1>1, <2>6, <3>1 DEF LaneKept
    <3>3. \A m \in Lane : In(m)' \subseteq Unfinished' \cup InState({"cancelled"})'
      BY <1>1, <2>6, <3>1 DEF LaneKept
    <3> QED
      BY <2>5, <2>4, <3>2, <3>3 DEF LaneKept, Single
  <2>8. StageKept'
    <3>1. \A j \in Command : j \in Elements(heard)' => state'[j] \in {"running", "completed", "failed"}
      BY <1>1, <1>3 DEF StageKept
    <3> QED
      BY <1>1, <2>6, <3>1 DEF StageKept, Turn
  <2>9. x = "queued" => Aside' = Aside
    BY <1>1, <2>6 DEF Aside
  <2>10. x = "selected" => Live = {} /\ Aside = {} /\ Aside' = {i} /\ Unfinished = {}
    <3>1. x = "selected" => Unfinished = {} /\ InState({"selected"}) = {}
      BY <1>2 DEF Unfinished, InState
    <3>2. pump.at = "commandFence" => pump.first # i
      BY <1>1 DEF IInv, CoreInv, PumpKept
    <3> QED
      BY <1>1, <2>6, <3>1, <3>2 DEF Aside, Live
  <2>11. OrderKept'
    <3>1. \A j, k : Ahead(j, k)' => Ahead(j, k) \/ (k = i /\ j # i)
      BY <2>4, LaneShape
    <3>2. \A j : ~Ahead(i, j)
      <4>1. ASSUME NEW j, Ahead(i, j) PROVE FALSE
        BY <2>2, <4>1 DEF Ahead, Elements
      <4> QED
        BY <4>1
    <3>3. ASSUME NEW k \in Aside', NEW j \in Unfinished' PROVE ~Ahead(j, k)'
      <4>1. CASE x = "queued"
        <5>1. k \in Aside /\ k # i
          BY <2>6, <2>9, <4>1 DEF Aside, Unfinished, InState
        <5> QED
          BY <1>1, <2>6, <3>1, <3>2, <5>1 DEF OrderKept
      <4>2. CASE x = "selected"
        <5>1. k = i /\ j = i
          BY <2>6, <2>10, <4>2
        <5> QED
          BY <3>1, <3>2, <5>1
      <4> QED
        BY <1>5, <4>1, <4>2
    <3>4. ASSUME NEW k \in InState({"selected", "preparing", "committing"})', NEW j \in InState({"queued"})'
          PROVE  ~Ahead(j, k)'
      <4>1. CASE x = "queued"
        <5>1. k \in InState({"selected", "preparing", "committing"}) /\ k # i
          BY <1>1, <2>6, <4>1 DEF InState
        <5> QED
          BY <1>1, <2>6, <3>1, <3>2, <5>1 DEF OrderKept
      <4>2. CASE x = "selected"
        BY <2>6, <2>10, <4>2 DEF Unfinished, InState
      <4> QED
        BY <1>5, <4>1, <4>2
    <3> QED
      BY <3>3, <3>4 DEF OrderKept
  <2>12. Live' = Live \cup {i} /\ i \notin Live
    BY <1>1, <2>6 DEF Live
  <2>13. Waiting' = [Waiting EXCEPT ![l] = Append(@, i)]
    <3>1. ASSUME NEW m \in Lane PROVE Only(lane[m], Live \cup {i}) = Only(lane[m], Live)
      <4>1. lane[m] \in Seq(Input) /\ Elements(lane[m]) \cap (Live \cup {i}) = Elements(lane[m]) \cap Live
        BY <2>1, <2>2
      <4> QED
        BY <4>1, OnlyAgree
    <3>2. Only(Append(lane[l], i), Live \cup {i}) = Append(Only(lane[l], Live), i)
      <4>1. lane[l] \in Seq(Input) /\ i \in Live \cup {i}
        BY <1>1, <2>1
      <4>2. Only(Append(lane[l], i), Live \cup {i}) = Append(Only(lane[l], Live \cup {i}), i)
        BY <4>1, OnlyAppend
      <4> QED
        BY <1>1, <3>1, <4>2
    <3>3. Waiting' = [m \in Lane |-> Only(lane'[m], Live \cup {i})]
      BY <2>12 DEF Waiting
    <3> QED
      BY <1>1, <2>3, <3>1, <3>2, <3>3 DEF Waiting
  <2>14. i \notin Gone /\ UNCHANGED Gone
    BY <1>1, <2>6 DEF Gone, InState
  <2>15. Aside' = Aside \/ (Live = {} /\ Aside' = {i})
    BY <1>5, <2>9, <2>10
  <2>16. Step
    BY <1>1, <2>12, <2>13, <2>14, <2>15, AcceptStep
  <2> QED
    BY <2>7, <2>8, <2>11, <2>16 DEF Kept
<1> QED
  BY <1>2, <1>4, <1>5

\* An edit to the other lane.
LEMMA MoveKeeps ==
  ASSUME IInv, NEW i \in Input, Move(i)
  PROVE  Kept' /\ Step
<1>1. /\ Kept /\ LaneKept /\ StageKept /\ OrderKept /\ state \in [Input -> State]
      /\ UNCHANGED <<heard, state, pump>> /\ state[i] = "queued" /\ i \notin Elements(heard)
  BY EarlyFacts DEF Kept, Move, Shown
<1>2. PICK l \in Lane : /\ i \notin Elements(lane[l])
                        /\ lane' = [m \in Lane |-> IF m = l THEN Append(lane[l], i)
                                                   ELSE Without(lane[m], {i})]
  BY DEF Move
<1>3. UNCHANGED <<Unfinished, InState({"cancelled"}), InState({"cancelled", "failed"}), InState({"queued"}),
                  InState({"selected", "preparing", "committing"}), Aside, Live, Gone, StageKept>>
  BY <1>1 DEF Unfinished, InState, Aside, Live, Gone, StageKept
<1>4. i \in Live /\ i \notin Aside /\ i \in Unfinished
  BY <1>1 DEF Live, Unfinished, Aside, InState
<1> DEFINE L == [m \in Lane |-> Without(lane[m], {i})]
<1>5. lane \in [Lane -> Seq(Input)] /\ Single(lane) /\ \A m \in Lane : L[m] = Without(lane[m], {i})
  BY <1>1, LaneShape
<1>6. L[l] = lane[l]
  <2>1. lane[l] \in Seq(Input) /\ Elements(lane[l]) \subseteq Elements(lane[l]) \ {i}
    BY <1>2, <1>5
  <2> QED
    BY <1>5, <2>1, OnlyAll DEF Without
<1>7. lane'[l] = Append(L[l], i) /\ \A m \in Lane : m # l => lane'[m] = L[m]
  BY <1>2, <1>5, <1>6
<1> HIDE DEF L
<1>8. /\ (\A m \in Lane : L[m] \in Seq(Input)) /\ Single(L)
      /\ \A m \in Lane : Elements(L[m]) = Elements(lane[m]) \ {i}
      /\ \A j, k : InOrder(L, j, k) => InOrder(lane, j, k)
  BY <1>5, WithoutFact
<1>9. Appended(lane', L, l, i)
  BY <1>7, <1>8 DEF Appended
<1>10. /\ (\A m \in Lane : lane'[m] \in Seq(Input)) /\ Single(lane')
       /\ \A j, k : InOrder(lane', j, k) => InOrder(L, j, k) \/ (k = i /\ j # i)
  BY <1>8, <1>9, AppendFact
<1>11. LaneKept'
  <2>1. Elements(lane'[l]) = Elements(L[l]) \cup {i}
    BY <1>7, <1>8, ElementsAppend
  <2>2. In(l)' = In(l) \cup {i} /\ \A m \in Lane : m # l => In(m)' = In(m) \ {i}
    BY <1>2, <1>6, <1>7, <1>8, <2>1 DEF In
  <2>3. lane' \in [Lane -> Seq(Input)]
    BY <1>2, <1>10
  <2>4. Unfinished' \subseteq In("steering")' \cup In("followUp")'
    BY <1>1, <1>3, <2>2 DEF LaneKept
  <2>5. \A m \in Lane : In(m)' \subseteq Unfinished' \cup InState({"cancelled"})'
    BY <1>1, <1>3, <1>4, <2>2 DEF LaneKept
  <2> QED
    BY <1>10, <2>3, <2>4, <2>5 DEF LaneKept, Single
<1>12. OrderKept'
  <2>1. \A j, k : Ahead(j, k)' => Ahead(j, k) \/ k = i
    BY <1>8, <1>10, LaneShape
  <2>2. i \notin InState({"selected", "preparing", "committing"})
    BY <1>1 DEF InState
  <2> QED
    BY <1>1, <1>3, <1>4, <2>1, <2>2 DEF OrderKept
<1>13. Waiting' = [m \in Lane |-> IF m = l THEN Append(Without(Waiting[l], {i}), i)
                                  ELSE Without(Waiting[m], {i})]
  <2>1. ASSUME NEW m \in Lane PROVE Only(L[m], Live) = Without(Waiting[m], {i})
    <3> DEFINE s == lane[m]
               W == Elements(s) \cap Live
    <3>1. s \in Seq(Input) /\ Waiting[m] = Only(s, Live) /\ L[m] = Only(s, Elements(s) \ {i})
      BY <1>5 DEF Waiting, Without
    <3> HIDE DEF s
    <3>2. Elements(Waiting[m]) = W
      BY <3>1, OnlyType
    <3>3. Without(Waiting[m], {i}) = Only(s, Live \cap (W \ {i}))
      BY <3>1, <3>2, OnlyOnly DEF Without
    <3>4. Only(L[m], Live) = Only(s, (Elements(s) \ {i}) \cap Live)
      BY <3>1, OnlyOnly
    <3>5. Elements(s) \cap (Live \cap (W \ {i})) = Elements(s) \cap ((Elements(s) \ {i}) \cap Live)
      OBVIOUS
    <3>6. Only(s, Live \cap (W \ {i})) = Only(s, (Elements(s) \ {i}) \cap Live)
      BY <3>1, <3>5, OnlyAgree
    <3> QED
      BY <3>3, <3>4, <3>6
  <2>2. Only(lane'[l], Live) = Append(Only(L[l], Live), i)
    BY <1>4, <1>7, <1>8, OnlyAppend
  <2>3. Waiting' = [m \in Lane |-> Only(lane'[m], Live)]
    BY <1>3 DEF Waiting
  <2> QED
    BY <1>7, <2>1, <2>2, <2>3
<1>14. Step
  BY <1>1, <1>3, <1>4, <1>13, MoveStep
<1> QED
  BY <1>1, <1>3, <1>11, <1>12, <1>14 DEF Kept

\* What two places of a lane exchange, nothing else sees.
LEMMA ExchangeFact ==
  ASSUME NEW s \in Seq(Input), NEW a \in DOMAIN s, NEW b \in DOMAIN s,
         \A c, d \in DOMAIN s : s[c] = s[d] => c = d
  PROVE  /\ Exchanged(s, a, b) \in Seq(Input) /\ DOMAIN Exchanged(s, a, b) = DOMAIN s
         /\ Elements(Exchanged(s, a, b)) = Elements(s)
         /\ \A c, d \in DOMAIN s : Exchanged(s, a, b)[c] = Exchanged(s, a, b)[d] => c = d
         /\ \A c \in DOMAIN s \ {a, b} : Exchanged(s, a, b)[c] = s[c]
         /\ Exchanged(s, a, b)[a] = s[b] /\ Exchanged(s, a, b)[b] = s[a]
<1>1. \A c \in DOMAIN s : Exchanged(s, a, b)[c] =
        IF c = b THEN s[a] ELSE IF c = a THEN s[b] ELSE s[c]
  BY ExchangedElements
<1>2. \A c, d \in DOMAIN s : Exchanged(s, a, b)[c] = Exchanged(s, a, b)[d] => c = d
  BY <1>1
<1> QED
  BY <1>2, ExchangedElements

\* A reordering by the user.
LEMMA SwapKeeps ==
  ASSUME IInv, NEW l \in Lane, NEW a \in DOMAIN lane[l], NEW b \in DOMAIN lane[l], Swap(l, a, b)
  PROVE  Kept' /\ Step
<1> DEFINE s == lane[l]
           t == Exchanged(s, a, b)
           x == s[a]
           y == s[b]
<1>1. /\ Kept /\ LaneKept /\ StageKept /\ OrderKept /\ state \in [Input -> State]
      /\ UNCHANGED <<heard, state, pump>> /\ state[x] = "queued" /\ state[y] = "queued"
  BY EarlyFacts DEF Kept, Swap, Shown
<1>2. lane \in [Lane -> Seq(Input)] /\ Single(lane) /\ s \in Seq(Input) /\ x \in Input /\ y \in Input
  BY <1>1, LaneShape
<1>3. lane' = [lane EXCEPT ![l] = t]
  <2>1. lane = [m \in Lane |-> lane[m]]
    BY <1>2
  <2>2. lane' = [lane EXCEPT ![l][a] = s[b], ![l][b] = s[a]]
    BY DEF Swap
  <2> QED
    BY <2>1, <2>2, TwoPlaces DEF Exchanged
<1>4. UNCHANGED <<Unfinished, InState({"cancelled"}), InState({"cancelled", "failed"}), InState({"queued"}),
                  InState({"selected", "preparing", "committing"}), Aside, Live, Gone, StageKept>>
  BY <1>1 DEF Unfinished, InState, Aside, Live, Gone, StageKept
<1>5. /\ x \in Live /\ y \in Live /\ x \notin Aside /\ y \notin Aside /\ x \in InState({"queued"})
      /\ y \in InState({"queued"}) /\ x \in Unfinished /\ y \in Unfinished
  BY <1>1, <1>2, EarlyFacts DEF Live, Unfinished, Aside, InState
<1>6. \A c, d \in DOMAIN s : s[c] = s[d] => c = d
  BY <1>2 DEF Single
<1> HIDE DEF s, t
<1>7. /\ t \in Seq(Input) /\ DOMAIN t = DOMAIN s /\ Elements(t) = Elements(s)
      /\ \A c, d \in DOMAIN t : t[c] = t[d] => c = d
      /\ \A c \in DOMAIN s \ {a, b} : t[c] = s[c]
      /\ t[a] = y /\ t[b] = x
  BY <1>2, <1>6, ExchangeFact DEF t, s
<1>8. lane'[l] = t /\ \A m \in Lane : m # l => lane'[m] = lane[m]
  BY <1>2, <1>3
<1>9. \A m \in Lane : lane'[m] \in Seq(Input) /\ Elements(lane'[m]) = Elements(lane[m])
  BY <1>2, <1>7, <1>8 DEF s
<1>10. Single(lane')
  <2> SUFFICES ASSUME NEW m \in Lane, NEW n \in Lane, NEW c \in DOMAIN lane'[m], NEW d \in DOMAIN lane'[n],
                      lane'[m][c] = lane'[n][d]
               PROVE  m = n /\ c = d
    BY DEF Single
  <2>1. lane'[m][c] \in Elements(lane'[m]) /\ lane'[n][d] \in Elements(lane'[n])
    BY DEF Elements
  <2>2. \A e : e \in Elements(lane[m]) /\ e \in Elements(lane[n]) => m = n
    BY <1>2 DEF Elements, Single
  <2>3. m = n
    BY <1>9, <2>1, <2>2
  <2>4. CASE m = l
    BY <1>7, <1>8, <2>3, <2>4
  <2>5. CASE m # l
    BY <1>2, <1>8, <2>3, <2>5 DEF Single
  <2> QED
    BY <2>3, <2>4, <2>5
<1>11. LaneKept'
  <2>1. \A m \in Lane : In(m)' = In(m)
    BY <1>9 DEF In
  <2>2. lane' \in [Lane -> Seq(Input)]
    BY <1>2, <1>3, <1>7
  <2> QED
    BY <1>1, <1>4, <1>10, <2>1, <2>2 DEF LaneKept, Single
<1>12. ASSUME NEW j, NEW k, k # x, k # y, Ahead(j, k)'
       PROVE  Ahead(j, k) \/ Ahead(x, k) \/ Ahead(y, k)
  <2>1. PICK m \in Lane : \E c, d \in DOMAIN lane'[m] : c < d /\ lane'[m][c] = j /\ lane'[m][d] = k
    BY <1>12 DEF Ahead
  <2>2. PICK c \in DOMAIN lane'[m], d \in DOMAIN lane'[m] : c < d /\ lane'[m][c] = j /\ lane'[m][d] = k
    BY <2>1
  <2>3. CASE m # l
    BY <1>8, <2>2, <2>3 DEF Ahead
  <2>4. CASE m = l
    <3>1. c \in DOMAIN s /\ d \in DOMAIN s \ {a, b} /\ s[d] = k
      BY <1>7, <1>8, <1>12, <2>2, <2>4
    <3>2. c \notin {a, b} => s[c] = j
      BY <1>7, <1>8, <2>2, <2>4, <3>1
    <3>3. ASSUME NEW e, InOrder(lane, e, k) PROVE Ahead(e, k)
      BY <3>3, LaneShape
    <3>4. InOrder(lane, s[c], k)
      BY <2>2, <3>1 DEF s, InOrder
    <3> QED
      BY <3>2, <3>3, <3>4
  <2> QED
    BY <2>3, <2>4
<1>13. OrderKept'
  <2>1. \A k \in Aside, j \in Unfinished : ~Ahead(j, k)'
    BY <1>1, <1>5, <1>12 DEF OrderKept
  <2>2. x \notin InState({"selected", "preparing", "committing"})
        /\ y \notin InState({"selected", "preparing", "committing"})
    BY <1>5 DEF InState
  <2>3. \A k \in InState({"selected", "preparing", "committing"}), j \in InState({"queued"}) : ~Ahead(j, k)'
    BY <1>1, <1>5, <1>12, <2>2 DEF OrderKept
  <2> QED
    BY <1>4, <2>1, <2>3 DEF OrderKept
<1>14. PICK p \in DOMAIN Only(s, Live), q \in DOMAIN Only(s, Live) :
         /\ Only(s, Live)[p] = x /\ Only(s, Live)[q] = y
         /\ Only(t, Live) = Exchanged(Only(s, Live), p, q)
  BY <1>2, <1>5, OnlyExchanged DEF s, t
<1>15. Waiting[l] = Only(s, Live)
  BY DEF Waiting, s
<1>16. Waiting' = [Waiting EXCEPT ![l] = Exchanged(@, p, q)]
  <2>1. Waiting' = [m \in Lane |-> Only(lane'[m], Live)]
    BY <1>4 DEF Waiting
  <2>2. Waiting = [m \in Lane |-> Only(lane[m], Live)]
    BY DEF Waiting
  <2> QED
    BY <1>8, <1>14, <1>15, <2>1, <2>2
<1>17. Step
  BY <1>1, <1>4, <1>5, <1>14, <1>15, <1>16, ReorderStep
<1> QED
  BY <1>1, <1>4, <1>11, <1>13, <1>17 DEF Kept

-----------------------------------------------------------------------------
(* The inductive invariant and the refinement. *)

\* An empty session has promised nothing.
LEMMA InitKept == Init => Kept /\ D!Init
<1> SUFFICES ASSUME Init PROVE Kept /\ D!Init
  OBVIOUS
<1>1. /\ lane = [l \in Lane |-> <<>>] /\ heard = <<>>
      /\ \A i \in Input : state[i] = "new"
  BY DEF Init
<1>2. \A S : InState(S) = {} \/ "new" \in S
  BY <1>1 DEF InState
<1>3. /\ Unfinished = {} /\ InState({"cancelled"}) = {} /\ InState({"cancelled", "failed"}) = {}
      /\ InState({"selected"}) = {} /\ InState({"preparing"}) = {} /\ InState({"committing"}) = {}
      /\ InState({"queued"}) = {} /\ InState({"selected", "preparing", "committing"}) = {}
  BY <1>2 DEF Unfinished
<1>4. Elements(heard) = {} /\ \A l \in Lane : In(l) = {}
  BY <1>1 DEF Elements, In
<1>5. LaneKept
  BY <1>1, <1>3, <1>4 DEF LaneKept
<1>6. StageKept
  BY <1>3, <1>4 DEF StageKept, Turn
<1>7. OrderKept
  BY <1>3 DEF OrderKept, Aside
<1>8. \A l \in Lane : Only(lane[l], Live) = <<>>
  BY <1>1, OnlyEmpty
<1>9. D!Init
  BY <1>1, <1>3, <1>8 DEF D!Init, Aside
<1> QED
  BY <1>5, <1>6, <1>7, <1>9 DEF Kept

\* Every step of the session is a step or a stutter of Delivery.
LEMMA NextKeeps == IInv /\ [Next]_vars => IInv' /\ Step
<1> SUFFICES ASSUME IInv, [Next]_vars PROVE IInv' /\ Step
  OBVIOUS
<1>1. CoreInv'
  BY NextPreserves DEF IInv
<1>2. Kept' /\ Step
  <2>1. CASE \E i \in Input : PromptStep(i)
    BY <2>1, QuietKeeps, AdmitKeeps DEF PromptStep
  <2>2. CASE PumpStep
    BY <2>2, QuietKeeps, PumpIdleKeeps, PumpSelectKeeps, PumpPrepareKeeps, PumpCommitKeeps,
       PumpSettleKeeps, CommandBeginKeeps, CommandEndKeeps DEF PumpStep
  <2>3. CASE AgentStep
    BY <2>3, QuietKeeps, MessageStartKeeps, MessageEndKeeps, EventEndKeeps DEF AgentStep
  <2>4. CASE UserStep
    BY <2>4, QuietKeeps, TakingBackKeeps, MoveKeeps, SwapKeeps DEF UserStep
  <2>5. CASE FenceSkip \/ (\E n \in Navigator : Navigate(n)) \/ BashEnd \/ Drain \/ UNCHANGED vars
    BY <2>5, QuietKeeps
  <2> QED
    BY <2>1, <2>2, <2>3, <2>4, <2>5 DEF Next
<1> QED
  BY <1>1, <1>2 DEF IInv, Kept

\* The session's inductive invariant: besides CoreInv, every accepted input has
\* one place in one lane, and nothing waits in front of what has been taken out
\* of the queue.
THEOREM SessionInvariance == Spec => []IInv
<1>1. Init => IInv
  BY InitEstablishes, InitKept DEF IInv, Kept
<1>2. IInv /\ [Next]_vars => IInv'
  BY NextKeeps
<1> QED
  BY <1>1, <1>2, PTL DEF Spec

\* The session implements Delivery, whatever is aborted, cleared, edited,
\* withdrawn, overtaken or disposed of on the way: an accepted input is heard
\* by the agent or lost, at most once, and each lane is heard in its order.
THEOREM KeepsPromise == Spec => Promise
<1>1. Init => D!Init
  BY InitKept
<1>2. IInv /\ [Next]_vars => [D!Next]_(D!vars)
  BY NextKeeps DEF Step
<1> QED
  BY <1>1, <1>2, SessionInvariance, PTL DEF Spec, Promise, D!Spec
=============================================================================
