------------------------ MODULE SessionActionsProofs ------------------------
(***************************************************************************)
(* What holds of a session's queue for every number of inputs, navigations,*)
(* interruptions and retries.                                              *)
(*                                                                         *)
(* CoreInvariance is the inductive invariant CoreInv, one lemma per         *)
(* action.  The pump's quiet steps share PumpMoves, the user's             *)
(* cancellations CancelMoves.  None of it depends on the order of the      *)
(* lanes, which SessionDeliveryProofs adds.                                *)
(***************************************************************************)
EXTENDS SessionActions, TLAPS

USE SessionAssumption DEF Lane, store, ticket, transcript, gate, wake, agent, bounds

\* The first action in a state is in that state.
LEMMA FirstInFact ==
  ASSUME NEW s
  PROVE  FirstIn(s) = None \/ (FirstIn(s) \in Input /\ state[FirstIn(s)] = s)
BY DEF FirstIn, IsFirst

\* A batch is the selected turn and queued turns.
LEMMA BatchFromFact ==
  ASSUME NEW i
  PROVE  /\ i \in BatchFrom(i)
         /\ \A j \in BatchFrom(i) : j = i \/ (j \in Input /\ state[j] = "queued" /\ j \notin Command)
BY DEF BatchFrom, InState, Alike

\* Hearing a message adds it to the heard ones.
LEMMA HeardGrows ==
  ASSUME heard \in Seq(Input), NEW i \in Input, heard' = Append(heard, i)
  PROVE  /\ heard' \in Seq(Input)
         /\ Elements(heard)' = Elements(heard) \cup {i}
BY DEF Elements

\* Queueing for the fence takes it from nobody.
LEMMA FenceQueue ==
  ASSUME fence \in Seq(Input \cup Navigator \cup {"pump"}), NEW p \in Input \cup Navigator \cup {"pump"}, Queue(p)
  PROVE  /\ fence' \in Seq(Input \cup Navigator \cup {"pump"})
         /\ \A q : Holds(q) => Holds(q)'
BY DEF Queue, Holds

\* Releasing the fence takes it from nobody else.
LEMMA FenceUnlock ==
  ASSUME fence \in Seq(Input \cup Navigator \cup {"pump"}), NEW p, Unlock(p)
  PROVE  /\ fence' \in Seq(Input \cup Navigator \cup {"pump"})
         /\ \A q : q # p /\ Holds(q) => Holds(q)'
BY DEF Unlock, Holds

\* Waking the pump keeps the types of what is pending.
LEMMA WakeFact ==
  ASSUME Wake, pending \in Seq(Nat), requested \in BOOLEAN, epoch' \in Nat
  PROVE  pending' \in Seq(Nat) /\ requested' \in BOOLEAN
<1>1. CASE requested' = TRUE /\ pending' = Append(pending, epoch')
  BY <1>1
<1>2. CASE UNCHANGED wake
  BY <1>2
<1> QED
  BY <1>1, <1>2 DEF Wake

\* The pump that is off.
LEMMA OffForm ==
  /\ Off \in PumpState
  /\ Off.at = "off" /\ Off.first = None /\ Off.batch = {} /\ Off.turns = {}
BY DEF Off, PumpState

\* A pump that starts its loop.
LEMMA LoopForm ==
  ASSUME NEW e \in Nat, NEW p, p = [Off EXCEPT !.at = "loop", !.epoch = e]
  PROVE  p \in PumpState /\ p.at = "loop" /\ p.first = None /\ p.batch = {} /\ p.turns = {}
BY OffForm DEF PumpState

\* A pump that leaves is off.
LEMMA LeaveFact ==
  ASSUME TypeOK, epoch' \in Nat, Leave(TRUE) \/ Leave(FALSE)
  PROVE  /\ pump' \in PumpState /\ pump'.at = "off" /\ pump'.batch = {}
         /\ pending' \in Seq(Nat) /\ requested' \in BOOLEAN
<1>1. pump' = Off
  BY DEF Leave
<1>2. Wake \/ UNCHANGED wake
  BY DEF Leave
<1> QED
  BY <1>1, <1>2, WakeFact, OffForm DEF TypeOK

\* A pump that is done with a batch leaves or loops.
LEMMA NextRoundFact ==
  ASSUME TypeOK, epoch' \in Nat, NextRound
  PROVE  /\ pump' \in PumpState /\ pump'.at \in {"off", "loop"} /\ pump'.batch = {}
         /\ pending' \in Seq(Nat) /\ requested' \in BOOLEAN
<1>1. CASE Leave(TRUE)
  BY <1>1, LeaveFact
<1>2. CASE ~Leave(TRUE)
  <2>1. pump' = [Off EXCEPT !.at = "loop", !.epoch = epoch] /\ UNCHANGED wake
    BY <1>2 DEF NextRound
  <2> QED
    BY <2>1, LoopForm DEF TypeOK
<1> QED
  BY <1>1, <1>2

\* Steps of the pump that neither dispatch nor settle.
LEMMA PumpMoves ==
  ASSUME CoreInv,
         UNCHANGED <<visible, transcript, gate, nav, agent, busy, bounds>>,
         fence' \in Seq(Input \cup Navigator \cup {"pump"}),
         \A n \in Navigator : Holds(n) => Holds(n)',
         state' \in [Input -> State],
         \A i \in Input : \/ state'[i] = state[i]
                          \/ /\ state[i] \in {"queued", "selected", "preparing"}
                             /\ state'[i] \in {"queued", "selected", "preparing", "failed"},
         delivery' \in [Input -> {"open", "delivered", "not_applicable", "error"}],
         \A i \in Input : \/ delivery'[i] = delivery[i]
                          \/ delivery'[i] = "error" /\ i \in Turn /\ state'[i] = "failed",
         completion' \in [Input -> {"open", "done", "error"}],
         \A i \in Input : completion'[i] = completion[i] \/ completion'[i] = "error",
         pump' \in PumpState, PumpKept',
         pump.at \notin {"dispatched", "command"}, pump'.at \notin {"dispatched", "command"},
         pump'.at \in {"prepare", "commit"} =>
           pump.at \in {"prepare", "commit"}
             \/ (~running /\ busy = {} /\ (ended = "none" \/ captured # {})),
         pending' \in Seq(Nat), requested' \in BOOLEAN
  PROVE  CoreInv'
<1> USE DEF CoreInv
<1>1. TypeOK'
  BY DEF TypeOK
<1>2. FenceKept'
  BY DEF FenceKept
<1>3. OneDispatch'
  BY DEF OneDispatch, InState, TypeOK
<1>4. FeedKept'
  BY DEF FeedKept, Turn, TypeOK
<1>5. HeardKept'
  <2>1. Elements(heard)' = Elements(heard)
    BY DEF Elements
  <2>2. \A i \in Turn : i \in Elements(heard) => state[i] \in {"committing", "running", "completed"}
    BY DEF HeardKept
  <2>3. \A i \in recorded : state'[i] = state[i]
    BY DEF HeardKept, TypeOK, Turn
  <2>4. \A i \in Turn : i \in Elements(heard) => state'[i] \in {"committing", "running", "completed"}
    BY <2>2 DEF Turn
  <2>5. \A i \in Turn : state'[i] = "running" => i \in Elements(heard)
    BY DEF HeardKept, Turn
  <2>6. \A i \in Input : delivery'[i] = "error" => i \in Turn /\ state'[i] \in {"cancelled", "failed"}
    BY DEF HeardKept
  <2>7. pump'.at = "command" => pump'.first \in Elements(heard)
    OBVIOUS
  <2>8. (\A i \in recorded :
       /\ i \in Turn
       /\ state[i] \in {"running", "completed", "cancelled"} \/ (disposed /\ state[i] = "committing")
       /\ state[i] # "cancelled" => i \in Elements(heard))'
    BY <2>1, <2>3 DEF HeardKept
  <2> QED
    BY <2>1, <2>4, <2>5, <2>6, <2>7, <2>8 DEF HeardKept
<1>6. Truthful'
  <2>1. Elements(heard)' = Elements(heard)
    BY DEF Elements
  <2>2. \A i \in Turn : i \in Elements(heard) => state'[i] # "failed"
    BY DEF HeardKept, Turn
  <2> QED
    BY <2>1, <2>2 DEF Truthful
<1>7. RetryKept'
  BY DEF RetryKept
<1>8. CaptureKept'
  <2>1. \A i \in Input : state[i] = "cancelled" <=> state'[i] = "cancelled"
    OBVIOUS
  <2>2. InState({"cancelled"})' = InState({"cancelled"})
    BY <2>1 DEF InState
  <2>3. \A i \in Input : OthersCancelled(i)' <=> OthersCancelled(i)
    BY <2>1 DEF OthersCancelled
  <2>4. Slipped' = Slipped
    BY DEF Slipped
  <2>5. captured # {} => InState({"cancelled"}) # {}
    BY DEF CaptureKept, InState, TypeOK
  <2>6. recorded \cup feed \subseteq Input
    BY DEF TypeOK
  <2>7. (\A i \in captured : state[i] = "cancelled")'
    BY <2>1 DEF CaptureKept, TypeOK
  <2>8. (pump.at \in {"prepare", "commit"} =>
       \/ Slipped \/ InState({"cancelled"}) # {}
       \/ ended = "none" /\ again # "retry" /\ ~running)'
    BY <2>2, <2>4, <2>5 DEF CaptureKept, RetryKept, Slipped, TypeOK
  <2>9. (feed # {} /\ ended # "none" => Slipped \/ InState({"cancelled"}) \ feed # {})'
    BY <2>2, <2>4 DEF CaptureKept
  <2>10. (~disposed =>
       /\ ~running => recorded \cap captured = {}
       /\ \A i \in recorded \cup feed :
            /\ state[i] = "cancelled" => i \in captured \/ OthersCancelled(i) \/ Slipped
            /\ running /\ ended # "none" /\ i \in captured => OthersCancelled(i) \/ Slipped)'
    BY <2>1, <2>3, <2>4, <2>6 DEF CaptureKept
  <2> QED
    BY <2>7, <2>8, <2>9, <2>10 DEF CaptureKept
<1> QED
  BY <1>1, <1>2, <1>3, <1>4, <1>5, <1>6, <1>7, <1>8

\* The batch goes back to the queue.
LEMMA GiveBackPreserves ==
  ASSUME CoreInv, GiveBack, pump.at \in {"prepare", "commit"},
         UNCHANGED <<visible, transcript, gate, nav, agent, busy, bounds>>,
         fence' \in Seq(Input \cup Navigator \cup {"pump"}),
         \A n \in Navigator : Holds(n) => Holds(n)'
  PROVE  CoreInv'
<1>1. TypeOK /\ epoch' \in Nat
  BY DEF CoreInv, TypeOK
<1>2. /\ pump' \in PumpState /\ pump'.at \in {"off", "loop"} /\ pump'.batch = {}
      /\ pending' \in Seq(Nat) /\ requested' \in BOOLEAN
  BY <1>1, LeaveFact, NextRoundFact DEF GiveBack
<1>3. state' \in [Input -> State] /\ \A i \in Input :
        state'[i] = state[i] \/ (state[i] = "preparing" /\ state'[i] = "queued")
  BY <1>1 DEF GiveBack, Become, Turns, TypeOK, State
<1>4. PumpKept'
  BY <1>2 DEF PumpKept
<1> QED
  BY <1>1, <1>2, <1>3, <1>4, PumpMoves DEF TypeOK, GiveBack

\* What a cancellation does.
LEMMA CancelFact ==
  ASSUME TypeOK, NEW S \in SUBSET Input, Cancel(S)
  PROVE  /\ state' \in [Input -> State]
         /\ \A i \in Input : state'[i] = IF i \in S THEN "cancelled" ELSE state[i]
         /\ captured' = captured \cup {i \in S : state[i] = "committing"}
         /\ delivery' \in [Input -> {"open", "delivered", "not_applicable", "error"}]
         /\ \A i \in Input : \/ delivery'[i] = delivery[i]
                             \/ i \in S /\ delivery'[i] = "not_applicable"
                             \/ i \in S /\ i \in Turn /\ delivery'[i] = "error"
         /\ completion' \in [Input -> {"open", "done", "error"}]
         /\ \A i \in Input : completion'[i] = completion[i] \/ completion'[i] = "error"
<1>1. Become(S, "cancelled") /\ captured' = captured \cup {i \in S : state[i] = "committing"}
      /\ RejectTickets(S)
  BY DEF Cancel
<1>2. state' \in [Input -> State] /\ \A i \in Input : state'[i] = IF i \in S THEN "cancelled" ELSE state[i]
  BY <1>1 DEF Become, TypeOK, State
<1>3. /\ delivery' \in [Input -> {"open", "delivered", "not_applicable", "error"}]
      /\ \A i \in Input : \/ delivery'[i] = delivery[i]
                          \/ i \in S /\ delivery'[i] = "not_applicable"
                          \/ i \in S /\ i \in Turn /\ delivery'[i] = "error"
  BY <1>1 DEF RejectTickets, TypeOK, Turn
<1>4. /\ completion' \in [Input -> {"open", "done", "error"}]
      /\ \A i \in Input : completion'[i] = completion[i] \/ completion'[i] = "error"
  BY <1>1 DEF RejectTickets, Complete, TypeOK
<1> QED
  BY <1>1, <1>2, <1>3, <1>4

\* A cancellation by the user spares what the agent was given.
LEMMA CancelMoves ==
  ASSUME CoreInv, ~disposed, NEW S \in SUBSET Input, Cancel(S),
         \A i \in S : \/ state[i] \in {"queued", "selected", "preparing"}
                      \/ i \in Turn /\ state[i] = "committing" /\ i \notin Elements(heard),
         UNCHANGED <<visible, heard, recorded, pump, disposed, fence, nav, running, feed,
                     draining, reruns>>,
         pending' \in Seq(Nat), requested' \in BOOLEAN, suspended' \in BOOLEAN,
         epoch' \in Nat, epoch # 0 => epoch' # 0, interrupts' \in Nat,
         again' \in {again, "none"}, busy' \subseteq busy,
         ended' \in {"none", "done", "retry", "backoff", "overflow", "compacting", "cancelling"},
         ended' = "none" <=> ended = "none", RetryKept'
  PROVE  CoreInv'
<1>1. TypeOK
  BY DEF CoreInv
<1>2. /\ state' \in [Input -> State]
      /\ \A i \in Input : state'[i] = IF i \in S THEN "cancelled" ELSE state[i]
      /\ captured' = captured \cup {i \in S : state[i] = "committing"}
      /\ delivery' \in [Input -> {"open", "delivered", "not_applicable", "error"}]
      /\ \A i \in Input : \/ delivery'[i] = delivery[i]
                          \/ i \in S /\ delivery'[i] = "not_applicable"
                          \/ i \in S /\ i \in Turn /\ delivery'[i] = "error"
      /\ completion' \in [Input -> {"open", "done", "error"}]
      /\ \A i \in Input : completion'[i] = completion[i] \/ completion'[i] = "error"
  BY <1>1, CancelFact
<1>3. Elements(heard)' = Elements(heard)
  BY DEF Elements
<1>4. \A i \in S : i \in Turn => i \notin Elements(heard)
  BY DEF CoreInv, HeardKept
<1>5. \A i \in S : i \notin recorded
  BY DEF CoreInv, HeardKept
<1>6. \A i \in S : state[i] = "committing" => i \in feed
  BY <1>1 DEF CoreInv, FeedKept
<1>7. \A i \in S : state[i] # "committing" => i \notin feed
  BY DEF CoreInv, FeedKept
<1>8. TypeOK'
  BY <1>1, <1>2 DEF TypeOK
<1>9. FenceKept'
  BY DEF CoreInv, FenceKept, Holds
<1>10. PumpKept'
  <2>1. pump.at = "command" => pump.first \notin S
    BY <1>1 DEF CoreInv, PumpKept, Turn
  <2>2. pump.batch \subseteq Input /\ pump.first \in Input \cup {None}
    BY <1>1 DEF TypeOK, PumpState
  <2> QED
    BY <1>2, <2>1, <2>2 DEF CoreInv, PumpKept
<1>11. OneDispatch'
  <2>1. \A i \in Input : state'[i] \in {"committing", "running"} => state'[i] = state[i]
    BY <1>2
  <2> QED
    BY <2>1 DEF CoreInv, OneDispatch, InState, Holds
<1>12. FeedKept'
  BY <1>1, <1>2 DEF CoreInv, FeedKept, TypeOK, Turn
<1>13. HeardKept'
  <2>1. (\A i \in Turn : i \in Elements(heard) => state[i] \in {"committing", "running", "completed"})'
    BY <1>2, <1>3, <1>4 DEF CoreInv, HeardKept, Turn
  <2>2. (\A i \in Turn : state[i] = "running" => i \in Elements(heard))'
    BY <1>2, <1>3 DEF CoreInv, HeardKept, Turn
  <2>3. \A i \in recorded : state'[i] = state[i]
    BY <1>1, <1>2, <1>5 DEF TypeOK
  <2>4. \A i \in Input : delivery'[i] = "error" => i \in Turn /\ state'[i] \in {"cancelled", "failed"}
    BY <1>2 DEF CoreInv, HeardKept
  <2> QED
    BY <1>3, <2>1, <2>2, <2>3, <2>4 DEF CoreInv, HeardKept
<1>14. Truthful'
  BY <1>2, <1>3, <1>4 DEF CoreInv, Truthful
<1>15. CaptureKept'
  <2>1. \A i \in Input : state[i] = "cancelled" => state'[i] = "cancelled"
    BY <1>2
  <2>2. \A i \in Input : OthersCancelled(i) => OthersCancelled(i)'
    BY <2>1 DEF OthersCancelled
  <2>3. Slipped => Slipped'
    BY DEF Slipped
  <2>4. InState({"cancelled"}) \subseteq InState({"cancelled"})'
    BY <2>1 DEF InState
  <2>5. captured \subseteq Input /\ recorded \cup feed \subseteq Input
    BY <1>1 DEF TypeOK
  <2>6. (\A i \in captured : state[i] = "cancelled")'
    BY <1>2, <2>1, <2>5 DEF CoreInv, CaptureKept
  <2>7. (pump.at \in {"prepare", "commit"} =>
       \/ Slipped \/ InState({"cancelled"}) # {}
       \/ ended = "none" /\ again # "retry" /\ ~running)'
    BY <2>3, <2>4 DEF CoreInv, CaptureKept
  <2>8. (feed # {} /\ ended # "none" => Slipped \/ InState({"cancelled"}) \ feed # {})'
    BY <2>3, <2>4 DEF CoreInv, CaptureKept
  <2>9. ~running => recorded \cap captured' = {}
    BY <1>2, <1>5 DEF CoreInv, CaptureKept
  <2>10. \A i \in recorded \cup feed : state'[i] = "cancelled" =>
            i \in captured' \/ OthersCancelled(i)' \/ Slipped'
    BY <1>2, <1>5, <1>7, <2>2, <2>3, <2>5 DEF CoreInv, CaptureKept
  <2>11. running /\ ended # "none" => \A i \in recorded \cup feed :
            i \in captured' => OthersCancelled(i)' \/ Slipped'
    <3>1. SUFFICES ASSUME running, ended # "none", NEW i \in recorded \cup feed, i \in captured'
                   PROVE  OthersCancelled(i)' \/ Slipped'
      OBVIOUS
    <3>2. CASE i \in captured
      BY <2>2, <2>3, <2>5, <3>1, <3>2 DEF CoreInv, CaptureKept
    <3>3. CASE i \notin captured
      <4>1. i \in feed
        BY <1>2, <1>6, <3>1, <3>3
      <4>2. Slipped \/ \E j \in Input : state[j] = "cancelled" /\ j \notin feed
        BY <3>1, <4>1 DEF CoreInv, CaptureKept, InState
      <4> QED
        BY <2>2, <2>3, <2>5, <4>1, <4>2 DEF OthersCancelled
    <3> QED
      BY <3>2, <3>3
  <2> QED
    BY <2>6, <2>7, <2>8, <2>9, <2>10, <2>11 DEF CaptureKept
<1> QED
  BY <1>8, <1>9, <1>10, <1>11, <1>12, <1>13, <1>14, <1>15 DEF CoreInv

\* A prompt is submitted.
LEMMA SubmitPreserves ==
  ASSUME NEW i \in Input, CoreInv, Submit(i)
  PROVE  CoreInv'
<1> USE DEF CoreInv, Submit, ticket, transcript, wake, agent, bounds
<1>1. TypeOK'
  BY DEF TypeOK, State
<1>2. FenceKept'
  BY DEF FenceKept, Holds
<1>3. PumpKept'
  BY DEF PumpKept, Turn
<1>4. OneDispatch'
  BY DEF OneDispatch, InState, Holds
<1>5. FeedKept'
  BY DEF FeedKept, Turn
<1>6. HeardKept'
  BY DEF HeardKept, Turn, Elements
<1>7. Truthful'
  BY DEF Truthful, Elements
<1>8. RetryKept'
  BY DEF RetryKept
<1>9. CaptureKept'
  BY DEF CaptureKept, Slipped, InState, OthersCancelled
<1> QED
  BY <1>1, <1>2, <1>3, <1>4, <1>5, <1>6, <1>7, <1>8, <1>9

\* A prompt waits for the fence.
LEMMA AwaitFencePreserves ==
  ASSUME NEW i \in Input, CoreInv, AwaitFence(i)
  PROVE  CoreInv'
<1> USE DEF CoreInv, AwaitFence, Paused, Refused, Queue, ticket, transcript, wake, gate, agent,
    bounds, Unfinished, InState
<1>1. TypeOK'
  BY FenceQueue DEF TypeOK, State
<1>2. FenceKept'
  BY FenceQueue DEF FenceKept, Holds
<1>3. PumpKept'
  BY FenceQueue DEF PumpKept, Turn
<1>4. OneDispatch'
  BY FenceQueue DEF OneDispatch, Holds
<1>5. FeedKept'
  BY FenceQueue DEF FeedKept, Turn
<1>6. HeardKept'
  BY FenceQueue DEF HeardKept, Turn, Elements
<1>7. Truthful'
  BY FenceQueue DEF Truthful, Elements
<1>8. RetryKept'
  BY FenceQueue DEF RetryKept
<1>9. CaptureKept'
  BY FenceQueue DEF CaptureKept, Slipped, OthersCancelled
<1> QED
  BY <1>1, <1>2, <1>3, <1>4, <1>5, <1>6, <1>7, <1>8, <1>9

\* A prompt has the fence.
LEMMA TakeFencePreserves ==
  ASSUME NEW i \in Input, CoreInv, TakeFence(i)
  PROVE  CoreInv'
<1> USE DEF CoreInv, TakeFence, Holds, Paused, Refused, Unlock, ticket, transcript, wake, gate,
    agent, bounds, Unfinished, InState
<1>1. TypeOK'
  <2>1. fence' \in Seq(Input \cup Navigator \cup {"pump"})
    BY FenceUnlock DEF TypeOK
  <2>2. state' \in [Input -> State]
    BY DEF TypeOK, State
  <2> QED
    BY <2>1, <2>2 DEF TypeOK
<1>2. FenceKept'
  BY FenceUnlock DEF FenceKept
<1>3. PumpKept'
  BY FenceUnlock DEF PumpKept, Turn
<1>4. OneDispatch'
  BY FenceUnlock DEF OneDispatch
<1>5. FeedKept'
  BY FenceUnlock DEF FeedKept, Turn
<1>6. HeardKept'
  BY FenceUnlock DEF HeardKept, Turn, Elements
<1>7. Truthful'
  BY FenceUnlock DEF Truthful, Elements
<1>8. RetryKept'
  BY FenceUnlock DEF RetryKept
<1>9. CaptureKept'
  BY FenceUnlock DEF CaptureKept, Slipped, OthersCancelled
<1> QED
  BY <1>1, <1>2, <1>3, <1>4, <1>5, <1>6, <1>7, <1>8, <1>9

\* A waiting prompt is cancelled.
LEMMA CancelPromptPreserves ==
  ASSUME NEW i \in Input, CoreInv, CancelPrompt(i)
  PROVE  CoreInv'
<1> USE DEF CoreInv, CancelPrompt, Holds, ticket, transcript, wake, gate, agent
<1>1. TypeOK'
  BY DEF TypeOK, State
<1>2. FenceKept'
  BY DEF FenceKept
<1>3. PumpKept'
  BY DEF PumpKept, Turn
<1>4. OneDispatch'
  BY DEF OneDispatch, InState
<1>5. FeedKept'
  BY DEF FeedKept, Turn
<1>6. HeardKept'
  BY DEF HeardKept, Turn, Elements
<1>7. Truthful'
  BY DEF Truthful, Elements
<1>8. RetryKept'
  BY DEF RetryKept
<1>9. CaptureKept'
  BY DEF CaptureKept, Slipped, InState, OthersCancelled
<1> QED
  BY <1>1, <1>2, <1>3, <1>4, <1>5, <1>6, <1>7, <1>8, <1>9

\* A prompt becomes an action.
LEMMA AdmitPreserves ==
  ASSUME NEW i \in Input, CoreInv, Admit(i)
  PROVE  CoreInv'
<1> USE DEF CoreInv, Admit, Unfinished, CanSelect, BusyForPump, Coalesced, Unlock, wake,
    ticket, transcript, agent, bounds, InState, Paused, Holds
<1>1. TypeOK'
  BY FenceUnlock, WakeFact DEF TypeOK, State
<1>2. FenceKept'
  BY FenceUnlock, WakeFact DEF FenceKept
<1>3. PumpKept'
  BY FenceUnlock, WakeFact DEF PumpKept, Turn
<1>4. OneDispatch'
  BY FenceUnlock, WakeFact DEF OneDispatch
<1>5. FeedKept'
  BY FenceUnlock, WakeFact DEF FeedKept, Turn
<1>6. HeardKept'
  BY FenceUnlock, WakeFact DEF HeardKept, Turn, Elements
<1>7. Truthful'
  BY FenceUnlock, WakeFact DEF Truthful, Elements
<1>8. RetryKept'
  BY FenceUnlock, WakeFact DEF RetryKept
<1>9. CaptureKept'
  BY FenceUnlock, WakeFact DEF CaptureKept, Slipped, OthersCancelled
<1> QED
  BY <1>1, <1>2, <1>3, <1>4, <1>5, <1>6, <1>7, <1>8, <1>9

\* A waiter that has left is passed over.
LEMMA FenceSkipPreserves ==
  ASSUME CoreInv, FenceSkip
  PROVE  CoreInv'
<1> USE DEF CoreInv, FenceSkip, store, ticket, transcript, wake, gate, agent, bounds
<1>1. TypeOK'
  BY DEF TypeOK, State
<1>2. FenceKept'
  BY DEF FenceKept, Holds
<1>3. PumpKept'
  BY DEF PumpKept, Turn
<1>4. OneDispatch'
  BY DEF OneDispatch, InState, Holds
<1>5. FeedKept'
  BY DEF FeedKept, Turn
<1>6. HeardKept'
  BY DEF HeardKept, Turn, Elements
<1>7. Truthful'
  BY DEF Truthful, Elements
<1>8. RetryKept'
  BY DEF RetryKept
<1>9. CaptureKept'
  BY DEF CaptureKept, Slipped, InState, OthersCancelled
<1> QED
  BY <1>1, <1>2, <1>3, <1>4, <1>5, <1>6, <1>7, <1>8, <1>9

\* The next pump starts.
LEMMA PumpStartPreserves ==
  ASSUME CoreInv, PumpStart
  PROVE  CoreInv'
<1>1. Head(pending) \in Nat /\ pending' \in Seq(Nat) /\ requested' \in BOOLEAN
  <2>1. pending \in Seq(Nat) /\ pending # <<>> /\ pending' = Tail(pending)
    BY DEF CoreInv, TypeOK, PumpStart
  <2>2. Head(pending) \in Nat /\ pending' \in Seq(Nat)
    BY <2>1
  <2>3. requested' \in BOOLEAN
    BY DEF PumpStart
  <2> QED
    BY <2>2, <2>3
<1>2. pump' \in PumpState /\ pump'.at = "loop" /\ pump'.batch = {}
  BY <1>1, LoopForm DEF PumpStart
<1>3. PumpKept'
  BY <1>2 DEF PumpKept
<1> QED
  BY <1>1, <1>2, <1>3, PumpMoves DEF CoreInv, TypeOK, PumpStart, Holds

\* The pump looks for work.
LEMMA PumpLoopPreserves ==
  ASSUME CoreInv, PumpLoop
  PROVE  CoreInv'
<1>1. epoch' \in Nat /\ TypeOK
  BY DEF CoreInv, TypeOK, PumpLoop
<1>2. \/ Leave(FALSE)
      \/ pump' = [pump EXCEPT !.at = "idle"] /\ UNCHANGED wake
  BY DEF PumpLoop
<1>3. pump' \in PumpState /\ pump'.at \in {"off", "idle"} /\ pump'.batch \subseteq pump.batch
  BY <1>1, <1>2, LeaveFact DEF TypeOK, PumpState
<1>4. pending' \in Seq(Nat) /\ requested' \in BOOLEAN
  BY <1>1, <1>2, LeaveFact DEF TypeOK
<1>5. PumpKept'
  BY <1>3 DEF PumpKept, CoreInv
<1> QED
  BY <1>3, <1>4, <1>5, PumpMoves DEF CoreInv, TypeOK, PumpLoop, Holds

\* The agent is idle.
LEMMA PumpIdlePreserves ==
  ASSUME CoreInv, PumpIdle
  PROVE  CoreInv'
<1>1. epoch' \in Nat /\ TypeOK
  BY DEF CoreInv, TypeOK, PumpIdle
<1>2. \/ Become({FirstIn("selected")}, "queued") /\ Leave(TRUE)
      \/ /\ pump' = [pump EXCEPT !.at = "events", !.first = FirstIn("selected")]
         /\ UNCHANGED <<state, wake>>
  BY DEF PumpIdle
<1>3. \A i \in Input : state'[i] = state[i] \/ (state[i] = "selected" /\ state'[i] = "queued")
  BY <1>2, FirstInFact DEF Become
<1>4. state' \in [Input -> State]
  BY <1>1, <1>2 DEF TypeOK, Become, State
<1>5. /\ pump' \in PumpState /\ pump'.at \in {"off", "events"} /\ pump'.batch \subseteq pump.batch
      /\ pump'.at = "events" => pump'.first = None \/ state'[pump'.first] = "selected"
  <2>1. CASE Leave(TRUE)
    BY <1>1, <2>1, LeaveFact
  <2>2. CASE pump' = [pump EXCEPT !.at = "events", !.first = FirstIn("selected")]
             /\ UNCHANGED <<state, wake>>
    <3>1. FirstIn("selected") = None
            \/ (FirstIn("selected") \in Input /\ state[FirstIn("selected")] = "selected")
      BY FirstInFact
    <3> QED
      BY <1>1, <2>2, <3>1 DEF TypeOK, PumpState
  <2> QED
    BY <1>2, <2>1, <2>2
<1>6. pending' \in Seq(Nat) /\ requested' \in BOOLEAN
  BY <1>1, <1>2, LeaveFact DEF TypeOK
<1>7. PumpKept'
  BY <1>5 DEF PumpKept, CoreInv
<1> QED
  BY <1>3, <1>4, <1>5, <1>6, <1>7, PumpMoves DEF CoreInv, TypeOK, PumpIdle, Holds

\* The pump selects a batch or a command.
LEMMA PumpSelectPreserves ==
  ASSUME CoreInv, PumpSelect
  PROVE  CoreInv'
<1> DEFINE i == IF pump.first # None THEN pump.first ELSE FirstIn("queued")
           batch == IF pump.first # None THEN {i} ELSE BatchFrom(i)
<1>1. TypeOK /\ PumpKept /\ pump.at = "events"
  BY DEF CoreInv, PumpSelect
<1>2. epoch' \in Nat /\ UNCHANGED <<lane, visible, ticket, transcript, gate, nav, agent, busy, bounds>>
  BY <1>1 DEF TypeOK, PumpSelect
<1>3. CASE UNCHANGED <<state, fence>> /\ (Leave(TRUE) \/ Leave(FALSE))
  <2>1. /\ pump' \in PumpState /\ pump'.at = "off" /\ pump'.batch = {}
        /\ pending' \in Seq(Nat) /\ requested' \in BOOLEAN
    BY <1>1, <1>2, <1>3, LeaveFact
  <2>2. PumpKept'
    BY <2>1 DEF PumpKept
  <2> QED
    BY <1>1, <1>2, <1>3, <2>1, <2>2, PumpMoves DEF TypeOK, Holds
<1>4. CASE /\ i \in Command /\ Queue("pump") /\ UNCHANGED wake
           /\ pump' = [pump EXCEPT !.at = "commandFence", !.first = i]
           /\ Become({i} \cap InState({"queued"}), "selected")
  <2>1. state' \in [Input -> State] /\ \A j \in Input :
          state'[j] = state[j] \/ (state[j] = "queued" /\ state'[j] = "selected")
    BY <1>1, <1>4 DEF Become, InState, TypeOK, State
  <2>2. pump' \in PumpState /\ pump'.at = "commandFence" /\ pump'.first = i /\ pump'.batch = pump.batch
    BY <1>1, <1>4 DEF TypeOK, PumpState
  <2>3. PumpKept'
    <3>1. i \in Input /\ state[i] \in {"queued", "selected", "cancelled"}
      BY <1>1, <1>4, FirstInFact DEF PumpKept
    <3>2. state'[i] \in {"selected", "cancelled"}
      BY <1>4, <3>1 DEF Become, InState
    <3> QED
      BY <1>1, <1>4, <2>2, <3>2 DEF PumpKept
  <2>4. /\ fence' \in Seq(Input \cup Navigator \cup {"pump"})
        /\ \A n \in Navigator : Holds(n) => Holds(n)'
    BY <1>1, <1>4, FenceQueue DEF TypeOK
  <2> QED
    BY <1>1, <1>2, <1>4, <2>1, <2>2, <2>3, <2>4, PumpMoves DEF TypeOK
<1>5. CASE /\ ~(Deferred \/ ~CanSelect) /\ i # None /\ i \notin Command /\ state[i] # "cancelled"
           /\ pump' = [pump EXCEPT !.at = "prepare", !.batch = batch]
           /\ Become(batch, "preparing")
           /\ UNCHANGED <<fence, wake>>
  <2>1. i \in Input /\ state[i] \in {"queued", "selected"}
    BY <1>1, <1>5, FirstInFact DEF PumpKept, TypeOK, PumpState
  <2>2. batch \subseteq Turn /\ i \in batch /\ \A j \in batch : state[j] \in {"queued", "selected"}
    BY <1>5, <2>1, BatchFromFact DEF Turn
  <2> HIDE DEF i, batch
  <2>3. state' \in [Input -> State] /\ \A j \in Input :
          state'[j] = IF j \in batch THEN "preparing" ELSE state[j]
    BY <1>1, <1>5 DEF Become, TypeOK, State
  <2>4. pump' \in PumpState /\ pump'.at = "prepare" /\ pump'.batch = batch
    BY <1>1, <1>5, <2>2 DEF TypeOK, PumpState, Turn
  <2>5. PumpKept'
    BY <2>2, <2>3, <2>4 DEF PumpKept, Turn
  <2>6. ~running /\ busy = {} /\ (ended = "none" \/ captured # {})
    BY <1>5 DEF CanSelect, BusyForPump, PumpSelect, Drained
  <2> QED
    BY <1>1, <1>2, <1>5, <2>2, <2>3, <2>4, <2>5, <2>6, PumpMoves DEF TypeOK, Holds
<1> QED
  <2>1. CASE Deferred \/ ~CanSelect
    BY <1>3, <2>1 DEF PumpSelect
  <2>2. CASE ~(Deferred \/ ~CanSelect) /\ i = None
    BY <1>3, <2>2 DEF PumpSelect
  <2>3. CASE ~(Deferred \/ ~CanSelect) /\ i # None /\ i \in Command
    BY <1>4, <2>3 DEF PumpSelect
  <2>4. CASE ~(Deferred \/ ~CanSelect) /\ i # None /\ i \notin Command /\ state[i] = "cancelled"
    BY <1>3, <2>4 DEF PumpSelect
  <2>5. CASE ~(Deferred \/ ~CanSelect) /\ i # None /\ i \notin Command /\ state[i] # "cancelled"
    BY <1>5, <2>5 DEF PumpSelect
  <2> QED
    BY <2>1, <2>2, <2>3, <2>4, <2>5

\* The batch is prepared.
LEMMA PumpPreparePreserves ==
  ASSUME CoreInv, PumpPrepare
  PROVE  CoreInv'
<1>1. TypeOK /\ PumpKept /\ epoch' \in Nat /\ pump.at = "prepare"
  BY DEF CoreInv, TypeOK, PumpPrepare
<1>2. UNCHANGED <<visible, transcript, gate, nav, agent, busy, bounds>>
  BY DEF PumpPrepare
<1>3. CASE GiveBack /\ UNCHANGED fence
  BY <1>1, <1>2, <1>3, GiveBackPreserves DEF TypeOK, Holds
<1>4. CASE UNCHANGED <<state, ticket, fence>> /\ NextRound
  <2>1. /\ pump' \in PumpState /\ pump'.at \in {"off", "loop"} /\ pump'.batch = {}
        /\ pending' \in Seq(Nat) /\ requested' \in BOOLEAN
    BY <1>1, <1>4, NextRoundFact
  <2>2. PumpKept'
    BY <2>1 DEF PumpKept
  <2> QED
    BY <1>1, <1>2, <1>4, <2>1, <2>2, PumpMoves DEF TypeOK, Holds
<1>5. CASE GiveUp /\ UNCHANGED fence
  <2>1. /\ pump' \in PumpState /\ pump'.at \in {"off", "loop"} /\ pump'.batch = {}
        /\ pending' \in Seq(Nat) /\ requested' \in BOOLEAN
    BY <1>1, <1>5, NextRoundFact DEF GiveUp
  <2>2. PumpKept'
    BY <2>1 DEF PumpKept
  <2>3. Turns \subseteq Turn /\ \A i \in Turns : state[i] = "preparing"
    BY <1>1 DEF Turns, PumpKept
  <2>4. state' \in [Input -> State] /\ \A i \in Input :
          state'[i] = IF i \in Turns THEN "failed" ELSE state[i]
    BY <1>1, <1>5 DEF GiveUp, Become, TypeOK, State
  <2>5. /\ delivery' \in [Input -> {"open", "delivered", "not_applicable", "error"}]
        /\ \A i \in Input : delivery'[i] = delivery[i] \/ (i \in Turns /\ delivery'[i] = "error")
    BY <1>1, <1>5 DEF GiveUp, Deliver, TypeOK
  <2>6. /\ completion' \in [Input -> {"open", "done", "error"}]
        /\ \A i \in Input : completion'[i] = completion[i] \/ completion'[i] = "error"
    BY <1>1, <1>5 DEF GiveUp, Complete, TypeOK
  <2> QED
    BY <1>1, <1>2, <1>5, <2>1, <2>2, <2>3, <2>4, <2>5, <2>6, PumpMoves DEF TypeOK, Holds
<1>6. CASE /\ pump' = [pump EXCEPT !.at = "commit", !.turns = Turns]
           /\ Queue("pump")
           /\ UNCHANGED <<lane, state, ticket, wake>>
  <2>1. pump' \in PumpState /\ pump'.at = "commit" /\ pump'.batch = pump.batch
    BY <1>1, <1>6 DEF TypeOK, PumpState, Turns
  <2>2. PumpKept'
    BY <1>1, <1>6, <2>1 DEF PumpKept
  <2>3. /\ fence' \in Seq(Input \cup Navigator \cup {"pump"})
        /\ \A n \in Navigator : Holds(n) => Holds(n)'
    BY <1>1, <1>6, FenceQueue DEF TypeOK
  <2> QED
    BY <1>1, <1>2, <1>6, <2>1, <2>2, <2>3, PumpMoves DEF TypeOK
<1> QED
  BY <1>3, <1>4, <1>5, <1>6 DEF PumpPrepare

\* The batch is dispatched.
LEMMA PumpCommitPreserves ==
  ASSUME CoreInv, PumpCommit
  PROVE  CoreInv'
<1>1. /\ TypeOK /\ PumpKept /\ pump.at = "commit" /\ Holds("pump") /\ Unlock("pump")
      /\ UNCHANGED <<visible, transcript, gate, nav, ended, again, draining, busy, bounds>>
  BY DEF CoreInv, PumpCommit
<1>2. epoch' \in Nat
  BY <1>1 DEF TypeOK
<1>3. /\ fence' \in Seq(Input \cup Navigator \cup {"pump"})
      /\ \A n \in Navigator : Holds(n) => Holds(n)'
  BY <1>1, FenceUnlock DEF TypeOK
<1>4. CASE GiveBack /\ UNCHANGED <<running, feed>>
  BY <1>1, <1>3, <1>4, GiveBackPreserves
<1>5. CASE /\ ~(Deferred \/ running \/ pump.turns # Turns)
           /\ Become(pump.turns, "committing")
           /\ pump' = [pump EXCEPT !.at = "dispatched"]
           /\ running' = TRUE
           /\ feed' = pump.turns
           /\ UNCHANGED <<lane, ticket, wake>>
  <2> DEFINE new == pump.turns
  <2>1. /\ new \subseteq Turn /\ new \subseteq pump.batch
        /\ \A i \in new : state[i] = "preparing"
        /\ ~running /\ busy = {}
    BY <1>1, <1>5 DEF Turns, PumpKept, Deferred, BusyForPump
  <2>2. feed = {} /\ feed' = new /\ running'
    BY <1>5 DEF CoreInv, FeedKept
  <2>3. state' \in [Input -> State] /\ \A i \in Input :
          state'[i] = IF i \in new THEN "committing" ELSE state[i]
    BY <1>1, <1>5 DEF Become, TypeOK, State
  <2>4. pump' \in PumpState /\ pump'.at = "dispatched" /\ pump'.batch = pump.batch
    BY <1>1, <1>5 DEF TypeOK, PumpState
  <2> HIDE DEF new
  <2>5. TypeOK'
    BY <1>1, <1>3, <1>5, <2>1, <2>2, <2>3, <2>4 DEF TypeOK, Turn
  <2>6. FenceKept'
    BY <1>1, <1>3, <2>4 DEF CoreInv, FenceKept
  <2>7. PumpKept'
    BY <1>1, <2>4 DEF PumpKept
  <2>8. OneDispatch'
    BY <1>1, <2>1, <2>3, <2>4 DEF CoreInv, OneDispatch, InState, Turn
  <2>9. FeedKept'
    <3>1. \A n \in Navigator : nav[n] # "work"
      BY <1>1 DEF CoreInv, FenceKept, Holds
    <3>2. \A i \in Turn : state'[i] = "committing" => i \in feed' \/ (disposed /\ i \in recorded)
      BY <2>2, <2>3 DEF CoreInv, FeedKept, Turn
    <3> QED
      BY <1>1, <2>1, <2>2, <2>3, <3>1, <3>2 DEF FeedKept, Turn
  <2>10. \A i \in new : i \notin Elements(heard) /\ i \notin recorded /\ i \notin captured
    BY <2>1 DEF CoreInv, HeardKept, CaptureKept
  <2>11. Elements(heard)' = Elements(heard)
    BY <1>1 DEF Elements
  <2>12. HeardKept'
    <3>1. (\A i \in Turn : i \in Elements(heard) => state[i] \in {"committing", "running", "completed"})'
      BY <2>3, <2>11 DEF CoreInv, HeardKept, Turn
    <3>2. (\A i \in Turn : state[i] = "running" => i \in Elements(heard))'
      BY <2>3, <2>11 DEF CoreInv, HeardKept, Turn
    <3>3. \A i \in recorded : state'[i] = state[i]
      BY <1>1, <2>3, <2>10 DEF TypeOK
    <3>4. \A i \in Input : delivery'[i] = "error" => i \in Turn /\ state'[i] \in {"cancelled", "failed"}
      BY <1>5, <2>1, <2>3 DEF CoreInv, HeardKept
    <3> QED
      BY <1>1, <2>4, <2>11, <3>1, <3>2, <3>3, <3>4 DEF CoreInv, HeardKept
  <2>13. Truthful'
    BY <1>5, <2>11 DEF CoreInv, Truthful
  <2>14. RetryKept'
    BY <1>1, <2>1 DEF CoreInv, RetryKept
  <2>15. CaptureKept'
    <3>1. \A i \in Input : state[i] = "cancelled" <=> state'[i] = "cancelled"
      BY <2>1, <2>3
    <3>2. InState({"cancelled"})' = InState({"cancelled"}) /\ InState({"cancelled"}) \cap new = {}
      BY <2>1, <3>1 DEF InState
    <3>3. \A i \in Input : OthersCancelled(i)' <=> OthersCancelled(i)
      BY <3>1 DEF OthersCancelled
    <3>4. Slipped' = Slipped
      BY <1>1 DEF Slipped
    <3>5. captured \subseteq Input /\ recorded \subseteq Input
      BY <1>1 DEF TypeOK
    <3>6. (\A i \in captured : state[i] = "cancelled")'
      BY <1>1, <3>1, <3>5 DEF CoreInv, CaptureKept
    <3>7. (feed # {} /\ ended # "none" => Slipped \/ InState({"cancelled"}) \ feed # {})'
      BY <1>1, <2>2, <3>2, <3>4 DEF CoreInv, CaptureKept
    <3>8. (~disposed => \A i \in recorded \cup feed :
            /\ state[i] = "cancelled" => i \in captured \/ OthersCancelled(i) \/ Slipped
            /\ running /\ ended # "none" /\ i \in captured => OthersCancelled(i) \/ Slipped)'
      BY <1>1, <2>1, <2>2, <2>3, <2>10, <3>1, <3>3, <3>4, <3>5 DEF CoreInv, CaptureKept, Turn
    <3> QED
      BY <2>2, <2>4, <3>6, <3>7, <3>8 DEF CaptureKept
  <2> QED
    BY <2>5, <2>6, <2>7, <2>8, <2>9, <2>12, <2>13, <2>14, <2>15 DEF CoreInv
<1> QED
  BY <1>4, <1>5 DEF PumpCommit

\* The dispatch is settled.
LEMMA PumpSettlePreserves ==
  ASSUME CoreInv, PumpSettle
  PROVE  CoreInv'
<1> DEFINE done == {i \in pump.batch :
                      state[i] = "running" \/ (state[i] = "committing" /\ i \in recorded)}
<1>1. /\ TypeOK /\ PumpKept /\ pump.at = "dispatched" /\ ~running
      /\ UNCHANGED <<visible, delivery, transcript, gate, fence, nav, agent, busy, bounds>>
  BY DEF CoreInv, PumpSettle
<1>2. Become(done, "completed") /\ Complete(done, "done") /\ NextRound
  BY DEF PumpSettle
<1>3. /\ pump' \in PumpState /\ pump'.at \in {"off", "loop"} /\ pump'.batch = {}
      /\ pending' \in Seq(Nat) /\ requested' \in BOOLEAN
  BY <1>1, <1>2, NextRoundFact DEF TypeOK
<1>4. feed = {} /\ \A i \in Turn : state[i] \in {"committing", "running"} => i \in done
  <2>1. feed = {}
    BY <1>1 DEF CoreInv, FeedKept
  <2>2. \A i \in Turn : state[i] = "committing" => i \in recorded
    BY <2>1 DEF CoreInv, FeedKept
  <2>3. \A i \in Turn : state[i] \in {"committing", "running"} => i \in pump.batch
    BY <1>1 DEF CoreInv, OneDispatch, InState, Turn
  <2> QED
    BY <2>1, <2>2, <2>3
<1>5. done \subseteq Turn /\ \A i \in done : state[i] \in {"committing", "running"} /\ i \in Elements(heard)
  <2>1. done \subseteq Turn
    BY <1>1 DEF PumpKept
  <2> QED
    BY <2>1 DEF CoreInv, HeardKept
<1> HIDE DEF done
<1>6. state' \in [Input -> State] /\ \A i \in Input :
        state'[i] = IF i \in done THEN "completed" ELSE state[i]
  BY <1>1, <1>2 DEF Become, TypeOK, State
<1>7. /\ completion' \in [Input -> {"open", "done", "error"}]
      /\ \A i \in Input : completion'[i] = completion[i] \/ (i \in done /\ completion'[i] = "done")
  BY <1>1, <1>2 DEF Complete, TypeOK
<1>8. Elements(heard)' = Elements(heard)
  BY <1>1 DEF Elements
<1>9. TypeOK'
  BY <1>1, <1>3, <1>6, <1>7 DEF TypeOK
<1>10. FenceKept'
  BY <1>1, <1>3 DEF CoreInv, FenceKept, Holds
<1>11. PumpKept'
  BY <1>3 DEF PumpKept
<1>12. OneDispatch'
  <2>1. \A i \in Turn : state'[i] \notin {"committing", "running"}
    BY <1>4, <1>6 DEF Turn
  <2>2. \A i \in Command : state'[i] # "running"
    BY <1>1, <1>5, <1>6 DEF CoreInv, OneDispatch, InState, Turn
  <2> QED
    BY <2>1, <2>2 DEF OneDispatch, InState, Turn
<1>13. FeedKept'
  BY <1>1, <1>4, <1>6 DEF FeedKept, Turn
<1>14. HeardKept'
  <2>1. (\A i \in Turn : i \in Elements(heard) => state[i] \in {"committing", "running", "completed"})'
    BY <1>6, <1>8 DEF CoreInv, HeardKept, Turn
  <2>2. (\A i \in Turn : state[i] = "running" => i \in Elements(heard))'
    BY <1>6, <1>8 DEF CoreInv, HeardKept, Turn
  <2>3. \A i \in recorded : state'[i] \in {"running", "completed", "cancelled"}
                              \/ (disposed /\ state'[i] = "committing")
    BY <1>1, <1>6 DEF CoreInv, HeardKept, TypeOK
  <2>4. \A i \in recorded : i \in Turn /\ (state'[i] # "cancelled" => i \in Elements(heard))
    BY <1>1, <1>5, <1>6 DEF CoreInv, HeardKept, TypeOK
  <2>5. \A i \in Input : delivery'[i] = "error" => i \in Turn /\ state'[i] \in {"cancelled", "failed"}
    BY <1>1, <1>5, <1>6 DEF CoreInv, HeardKept
  <2> QED
    BY <1>1, <1>3, <1>8, <2>1, <2>2, <2>3, <2>4, <2>5 DEF HeardKept
<1>15. Truthful'
  BY <1>1, <1>5, <1>7, <1>8 DEF CoreInv, Truthful
<1>16. RetryKept'
  BY <1>1 DEF CoreInv, RetryKept
<1>17. CaptureKept'
  <2>1. \A i \in Input : state[i] = "cancelled" <=> state'[i] = "cancelled"
    BY <1>5, <1>6
  <2>2. \A i \in Input : OthersCancelled(i)' <=> OthersCancelled(i)
    BY <2>1 DEF OthersCancelled
  <2>3. captured \subseteq Input /\ recorded \subseteq Input
    BY <1>1 DEF TypeOK
  <2>4. Slipped' = Slipped
    BY <1>1 DEF Slipped
  <2> QED
    BY <1>1, <1>3, <1>4, <2>1, <2>2, <2>3, <2>4 DEF CoreInv, CaptureKept
<1> QED
  BY <1>9, <1>10, <1>11, <1>12, <1>13, <1>14, <1>15, <1>16, <1>17 DEF CoreInv

\* A command begins.
LEMMA CommandBeginPreserves ==
  ASSUME CoreInv, CommandBegin
  PROVE  CoreInv'
<1>1. /\ TypeOK /\ PumpKept /\ pump.at = "commandFence" /\ Holds("pump") /\ pump.first \in Command
      /\ UNCHANGED <<visible, completion, recorded, captured, gate, nav, agent, busy, bounds>>
  BY DEF CoreInv, CommandBegin, PumpKept
<1>2. epoch' \in Nat
  BY <1>1 DEF TypeOK
<1>3. CASE /\ Unlock("pump") /\ Leave(FALSE) /\ UNCHANGED <<delivery, heard>>
           /\ \/ UNCHANGED state
              \/ /\ state[pump.first] \in {"queued", "selected", "preparing"}
                 /\ Become({pump.first}, "queued")
  <2>1. /\ pump' \in PumpState /\ pump'.at = "off" /\ pump'.batch = {}
        /\ pending' \in Seq(Nat) /\ requested' \in BOOLEAN
    BY <1>1, <1>2, <1>3, LeaveFact
  <2>2. PumpKept'
    BY <2>1 DEF PumpKept
  <2>3. /\ fence' \in Seq(Input \cup Navigator \cup {"pump"})
        /\ \A n \in Navigator : Holds(n) => Holds(n)'
    BY <1>1, <1>3, FenceUnlock DEF TypeOK
  <2>4. state' \in [Input -> State] /\ \A i \in Input :
          \/ state'[i] = state[i]
          \/ state[i] \in {"queued", "selected", "preparing"} /\ state'[i] = "queued"
    BY <1>1, <1>3 DEF Become, TypeOK, State
  <2> QED
    BY <1>1, <1>3, <2>1, <2>2, <2>3, <2>4, PumpMoves DEF TypeOK
<1>4. CASE /\ state[pump.first] # "cancelled"
           /\ Become({pump.first}, "running")
           /\ Deliver({pump.first}, "not_applicable")
           /\ heard' = Append(heard, pump.first)
           /\ pump' = [pump EXCEPT !.at = "command"]
           /\ UNCHANGED <<fence, wake>>
  <2> DEFINE c == pump.first
  <2>1. c \in Input /\ c \in Command /\ c \notin Turn
    BY <1>1 DEF Turn
  <2>2. state[c] \in {"selected", "cancelled"} /\ state[c] # "cancelled"
    BY <1>1, <2>1, <1>4 DEF PumpKept
  <2>3. pump' \in PumpState /\ pump'.at = "command" /\ pump'.batch = pump.batch /\ pump'.first = c
    BY <1>1, <1>4 DEF TypeOK, PumpState
  <2>4. heard' \in Seq(Input) /\ Elements(heard)' = Elements(heard) \cup {c}
    BY <1>1, <1>4, <2>1, HeardGrows DEF TypeOK
  <2>5. /\ delivery' \in [Input -> {"open", "delivered", "not_applicable", "error"}]
        /\ \A i \in Input : delivery'[i] = delivery[i] \/ (i = c /\ delivery'[i] = "not_applicable")
    BY <1>1, <1>4 DEF Deliver, TypeOK
  <2> HIDE DEF c
  <2>6. state' \in [Input -> State] /\ \A i \in Input :
          state'[i] = IF i = c THEN "running" ELSE state[i]
    BY <1>1, <1>4 DEF Become, TypeOK, State, c
  <2>7. TypeOK'
    BY <1>1, <1>4, <2>3, <2>4, <2>5, <2>6 DEF TypeOK
  <2>8. FenceKept'
    BY <1>1, <1>4 DEF CoreInv, FenceKept, Holds
  <2>9. PumpKept'
    BY <1>1, <2>1, <2>3, <2>6 DEF PumpKept
  <2>10. OneDispatch'
    <3>1. Holds("pump")'
      BY <1>1, <1>4 DEF Holds
    <3>2. \A i \in Turn : state'[i] \notin {"committing", "running"}
      BY <1>1, <2>1, <2>6 DEF CoreInv, OneDispatch, InState, Turn
    <3>3. \A i \in Command : state'[i] = "running" => i = c
      BY <1>1, <2>6 DEF CoreInv, OneDispatch, InState
    <3> QED
      BY <2>3, <3>1, <3>2, <3>3 DEF OneDispatch, InState, Turn
  <2>11. FeedKept'
    <3>1. \A i \in Turn : state'[i] = state[i]
      BY <2>1, <2>6 DEF Turn
    <3> QED
      BY <1>1, <3>1 DEF CoreInv, FeedKept, Turn
  <2>12. HeardKept'
    <3>1. \A i \in Turn : state'[i] = state[i] /\ (i \in Elements(heard)' <=> i \in Elements(heard))
      BY <2>1, <2>4, <2>6 DEF Turn
    <3>2. \A i \in Input : delivery'[i] = "error" => i \in Turn /\ state'[i] \in {"cancelled", "failed"}
      BY <2>1, <2>5, <3>1 DEF CoreInv, HeardKept, Turn
    <3>3. recorded \subseteq Turn
      BY DEF CoreInv, HeardKept
    <3> QED
      BY <1>1, <2>3, <2>4, <3>1, <3>2, <3>3 DEF CoreInv, HeardKept
  <2>13. Truthful'
    BY <1>1, <2>1, <2>4, <2>5 DEF CoreInv, Truthful, HeardKept
  <2>14. RetryKept'
    BY <1>1 DEF CoreInv, RetryKept
  <2>15. CaptureKept'
    <3>1. \A i \in Input : state[i] = "cancelled" <=> state'[i] = "cancelled"
      BY <2>2, <2>6
    <3>2. \A i \in Input : OthersCancelled(i)' <=> OthersCancelled(i)
      BY <3>1 DEF OthersCancelled
    <3>3. captured \subseteq Input /\ recorded \cup feed \subseteq Input
      BY <1>1 DEF TypeOK
    <3>4. Slipped' = Slipped /\ InState({"cancelled"})' = InState({"cancelled"})
      BY <1>1, <3>1 DEF Slipped, InState
    <3> QED
      BY <1>1, <2>3, <3>1, <3>2, <3>3, <3>4 DEF CoreInv, CaptureKept
  <2> QED
    BY <2>7, <2>8, <2>9, <2>10, <2>11, <2>12, <2>13, <2>14, <2>15 DEF CoreInv
<1> QED
  BY <1>1, <1>3, <1>4 DEF CommandBegin, PumpKept

\* A command ends.
LEMMA CommandEndPreserves ==
  ASSUME CoreInv, CommandEnd
  PROVE  CoreInv'
<1> DEFINE c == pump.first
<1>1. /\ TypeOK /\ PumpKept /\ pump.at = "command" /\ c \in Command /\ Unlock("pump") /\ Leave(FALSE)
      /\ UNCHANGED <<visible, delivery, transcript, gate, nav, agent, busy, bounds>>
  BY DEF CoreInv, CommandEnd, PumpKept
<1>2. /\ pump' \in PumpState /\ pump'.at = "off" /\ pump'.batch = {}
      /\ pending' \in Seq(Nat) /\ requested' \in BOOLEAN
  BY <1>1, LeaveFact DEF TypeOK
<1>3. /\ fence' \in Seq(Input \cup Navigator \cup {"pump"})
      /\ \A n \in Navigator : Holds(n) => Holds(n)'
  BY <1>1, FenceUnlock DEF TypeOK
<1>4. PICK result \in {"done", "error"} :
        /\ Become({c}, IF result = "done" THEN "completed" ELSE "failed")
        /\ Complete({c}, result)
  BY DEF CommandEnd
<1> HIDE DEF c
<1>5. state' \in [Input -> State] /\ \A i \in Input :
        state'[i] = state[i] \/ (i = c /\ state'[i] \in {"completed", "failed"})
  BY <1>1, <1>4 DEF Become, TypeOK, State
<1>6. state'[c] \in {"completed", "failed"} /\ c \in Input /\ c \notin Turn
  BY <1>1, <1>4 DEF Become, Turn
<1>7. /\ completion' \in [Input -> {"open", "done", "error"}]
      /\ \A i \in Input : completion'[i] = completion[i] \/ i = c
  BY <1>1, <1>4 DEF Complete, TypeOK
<1>8. Elements(heard)' = Elements(heard) /\ c \in Elements(heard)
  BY <1>1 DEF Elements, CoreInv, HeardKept, c
<1>9. \A i \in Turn : state'[i] = state[i] /\ completion'[i] = completion[i]
  BY <1>5, <1>6, <1>7 DEF Turn
<1>10. TypeOK'
  BY <1>1, <1>2, <1>3, <1>5, <1>7 DEF TypeOK
<1>11. FenceKept'
  BY <1>1, <1>2, <1>3 DEF CoreInv, FenceKept
<1>12. PumpKept'
  BY <1>2 DEF PumpKept
<1>13. OneDispatch'
  <2>1. \A i \in Turn : state'[i] \notin {"committing", "running"}
    BY <1>1, <1>9 DEF CoreInv, OneDispatch, InState, Turn
  <2>2. \A i \in Command : state'[i] # "running"
    BY <1>1, <1>5, <1>6 DEF CoreInv, OneDispatch, InState, c
  <2> QED
    BY <2>1, <2>2 DEF OneDispatch, InState, Turn
<1>14. FeedKept'
  BY <1>1, <1>9 DEF CoreInv, FeedKept, Turn
<1>15. HeardKept'
  <2>1. recorded \subseteq Turn
    BY DEF CoreInv, HeardKept
  <2> QED
    BY <1>1, <1>2, <1>8, <1>9, <2>1 DEF CoreInv, HeardKept
<1>16. Truthful'
  BY <1>1, <1>7, <1>8 DEF CoreInv, Truthful
<1>17. RetryKept'
  BY <1>1 DEF CoreInv, RetryKept
<1>18. CaptureKept'
  <2>1. \A i \in Input : state[i] = "cancelled" => state'[i] = "cancelled"
    BY <1>1, <1>5, <1>9 DEF c, PumpKept
  <2> QED
    BY <1>1, <1>2, <1>9, <2>1 DEF CoreInv, CaptureKept, FeedKept, HeardKept, OthersCancelled, InState, Slipped, TypeOK
<1> QED
  BY <1>10, <1>11, <1>12, <1>13, <1>14, <1>15, <1>16, <1>17, <1>18 DEF CoreInv

\* A message starts.
LEMMA MessageStartPreserves ==
  ASSUME NEW i \in Input, CoreInv, MessageStart(i)
  PROVE  CoreInv'
<1> USE DEF CoreInv, MessageStart, IsNext, Elements, Deliver, store, wake, gate, agent, bounds
<1>1. TypeOK'
  BY HeardGrows DEF TypeOK, State
<1>2. FenceKept'
  BY HeardGrows DEF FenceKept, Holds
<1>3. PumpKept'
  BY HeardGrows DEF PumpKept, Turn
<1>4. OneDispatch'
  BY HeardGrows DEF OneDispatch, InState, Holds
<1>5. FeedKept'
  BY HeardGrows DEF FeedKept, Turn
<1>6. HeardKept'
  <2>1. i \in Turn /\ state[i] = "committing"
    BY DEF FeedKept
  <2>2. Elements(heard)' = Elements(heard) \cup {i}
    BY HeardGrows DEF TypeOK
  <2>3. \A j \in Input : delivery'[j] = "error" => delivery[j] = "error"
    BY DEF TypeOK
  <2> HIDE DEF Elements
  <2> QED
    BY <2>1, <2>2, <2>3 DEF HeardKept, Turn
<1>7. Truthful'
  <2>1. i \in Turn /\ state[i] = "committing"
    BY DEF FeedKept
  <2>2. Elements(heard)' = Elements(heard) \cup {i}
    BY HeardGrows DEF TypeOK
  <2>3. \A j \in Input : delivery'[j] = delivery[j] \/ (j = i /\ delivery'[j] = "delivered")
    BY DEF TypeOK
  <2>4. delivery[i] # "error"
    BY <2>1 DEF HeardKept
  <2> HIDE DEF Elements
  <2> QED
    BY <2>2, <2>3, <2>4 DEF Truthful
<1>8. RetryKept'
  BY HeardGrows DEF RetryKept
<1>9. CaptureKept'
  BY HeardGrows DEF CaptureKept, Slipped, InState, OthersCancelled
<1> QED
  BY <1>1, <1>2, <1>3, <1>4, <1>5, <1>6, <1>7, <1>8, <1>9

\* A message is recorded.
LEMMA MessageEndPreserves ==
  ASSUME NEW i \in Input, CoreInv, MessageEnd(i)
  PROVE  CoreInv'
<1> USE DEF CoreInv, MessageEnd, IsNext, Elements, Become, ticket, wake, gate, bounds
<1>1. TypeOK'
  BY DEF TypeOK, State
<1>2. FenceKept'
  BY DEF FenceKept, Holds
<1>3. PumpKept'
  <2>1. \A j \in Input : state'[j] = state[j] \/ (j = i /\ state[i] = "committing" /\ state'[i] = "running")
    BY DEF TypeOK
  <2>2. pump.batch \subseteq Input /\ pump.first \in Input \cup {None}
    BY DEF TypeOK, PumpState
  <2>3. \A j \in Input : state[j] \in {"preparing", "cancelled", "selected", "running"} => state'[j] = state[j]
    BY <2>1
  <2> QED
    BY <2>2, <2>3 DEF PumpKept
<1>4. OneDispatch'
  BY DEF TypeOK, FenceKept, PumpKept, OneDispatch, FeedKept, State, Holds, Turn, InState
<1>5. FeedKept'
  BY DEF FeedKept, Turn
<1>6. HeardKept'
  BY DEF TypeOK, FenceKept, PumpKept, FeedKept, HeardKept, State, Holds, Turn
<1>7. Truthful'
  BY DEF Truthful
<1>8. RetryKept'
  BY DEF RetryKept
<1>9. CaptureKept'
  BY DEF TypeOK, CaptureKept, State, Slipped, InState, OthersCancelled
<1> QED
  BY <1>1, <1>2, <1>3, <1>4, <1>5, <1>6, <1>7, <1>8, <1>9

\* The run ends.
LEMMA RunEndPreserves ==
  ASSUME CoreInv, RunEnd
  PROVE  CoreInv'
<1> USE DEF CoreInv, RunEnd, store, ticket, wake, gate
<1>1. TypeOK'
  <2>1. ended' \in {"none", "done", "retry", "backoff", "overflow", "compacting", "cancelling"}
    BY DEF TypeOK
  <2>2. busy' \subseteq {"bash", "compaction", "retry"}
    BY DEF TypeOK
  <2>3. reruns' \in Nat
    BY DEF TypeOK
  <2>4. recorded' \subseteq Input
    BY DEF TypeOK
  <2>5. running' \in BOOLEAN
    OBVIOUS
  <2> QED
    BY <2>1, <2>2, <2>3, <2>4, <2>5 DEF TypeOK
<1>2. FenceKept'
  BY DEF FenceKept, Holds
<1>3. PumpKept'
  BY DEF PumpKept, Turn
<1>4. OneDispatch'
  BY DEF OneDispatch, InState, Holds
<1>5. FeedKept'
  BY DEF FeedKept, Turn
<1>6. HeardKept'
  BY DEF HeardKept, Turn, Elements
<1>7. Truthful'
  BY DEF Truthful, Elements
<1>8. RetryKept'
  <2>1. reruns \in Nat
    BY DEF TypeOK
  <2>2. PICK outcome \in {"done", "retry", "overflow"} :
          /\ outcome = "done" \/ (reruns < MaxReruns /\ captured = {} /\ ~disposed)
          /\ reruns' = reruns + (IF outcome = "done" THEN 0 ELSE 1)
          /\ ended' = IF disposed THEN ended ELSE outcome
          /\ busy' = busy \cup ({"retry"} \cap {outcome})
    OBVIOUS
  <2>3. reruns # 0 => reruns' # 0
    BY <2>1, <2>2
  <2>4. CASE outcome = "retry"
    <3>1. reruns' # 0 /\ "retry" \in busy'
      BY <2>1, <2>2, <2>4
    <3> QED
      BY <2>2, <2>4, <3>1 DEF RetryKept
  <2>5. CASE outcome # "retry"
    BY <2>2, <2>3, <2>5 DEF RetryKept
  <2> QED
    BY <2>4, <2>5
<1>9. CaptureKept'
  BY DEF TypeOK, CaptureKept, State, Slipped, InState, OthersCancelled
<1> QED
  BY <1>1, <1>2, <1>3, <1>4, <1>5, <1>6, <1>7, <1>8, <1>9

\* A retry backs off.
LEMMA RetryBackoffPreserves ==
  ASSUME CoreInv, RetryBackoff
  PROVE  CoreInv'
<1> USE DEF CoreInv, RetryBackoff, store, ticket, transcript, wake, gate, bounds
<1>1. TypeOK'
  BY DEF TypeOK, State
<1>2. FenceKept'
  BY DEF FenceKept, Holds
<1>3. PumpKept'
  BY DEF PumpKept, Turn
<1>4. OneDispatch'
  BY DEF OneDispatch, InState, Holds
<1>5. FeedKept'
  BY DEF FeedKept, Turn
<1>6. HeardKept'
  BY DEF HeardKept, Turn, Elements
<1>7. Truthful'
  BY DEF Truthful, Elements
<1>8. RetryKept'
  BY DEF RetryKept
<1>9. CaptureKept'
  BY DEF CaptureKept, Slipped, InState, OthersCancelled
<1> QED
  BY <1>1, <1>2, <1>3, <1>4, <1>5, <1>6, <1>7, <1>8, <1>9

\* A retry is due.
LEMMA RetryDuePreserves ==
  ASSUME CoreInv, RetryDue
  PROVE  CoreInv'
<1> USE DEF CoreInv, RetryDue, store, ticket, transcript, wake, gate, bounds
<1>1. TypeOK'
  BY DEF TypeOK, State
<1>2. FenceKept'
  BY DEF FenceKept, Holds
<1>3. PumpKept'
  BY DEF PumpKept, Turn
<1>4. OneDispatch'
  BY DEF OneDispatch, InState, Holds
<1>5. FeedKept'
  BY DEF FeedKept, Turn
<1>6. HeardKept'
  BY DEF HeardKept, Turn, Elements
<1>7. Truthful'
  BY DEF Truthful, Elements
<1>8. RetryKept'
  BY DEF RetryKept
<1>9. CaptureKept'
  BY DEF CaptureKept, Slipped, InState, OthersCancelled
<1> QED
  BY <1>1, <1>2, <1>3, <1>4, <1>5, <1>6, <1>7, <1>8, <1>9

\* The end of the run is processed.
LEMMA EventEndPreserves ==
  ASSUME CoreInv, EventEnd
  PROVE  CoreInv'
<1> USE DEF CoreInv, EventEnd, ticket, gate, bounds, wake
<1>1. TypeOK'
  BY WakeFact DEF TypeOK, State
<1>2. FenceKept'
  BY WakeFact DEF FenceKept, Holds
<1>3. PumpKept'
  BY WakeFact DEF PumpKept, Turn
<1>4. OneDispatch'
  BY WakeFact DEF OneDispatch, InState, Holds
<1>5. FeedKept'
  BY WakeFact DEF FeedKept, Turn
<1>6. HeardKept'
  BY WakeFact DEF HeardKept, Turn, Elements
<1>7. Truthful'
  BY WakeFact DEF Truthful, Elements
<1>8. RetryKept'
  BY WakeFact DEF RetryKept
<1>9. CaptureKept'
  BY WakeFact DEF CaptureKept, Slipped, InState, OthersCancelled
<1> QED
  BY <1>1, <1>2, <1>3, <1>4, <1>5, <1>6, <1>7, <1>8, <1>9

\* Compaction starts.
LEMMA CompactionStartPreserves ==
  ASSUME CoreInv, CompactionStart
  PROVE  CoreInv'
<1> USE DEF CoreInv, CompactionStart, store, ticket, transcript, wake, gate, bounds
<1>1. TypeOK'
  BY DEF TypeOK, State
<1>2. FenceKept'
  BY DEF FenceKept, Holds
<1>3. PumpKept'
  BY DEF PumpKept, Turn
<1>4. OneDispatch'
  BY DEF OneDispatch, InState, Holds
<1>5. FeedKept'
  BY DEF FeedKept, Turn
<1>6. HeardKept'
  BY DEF HeardKept, Turn, Elements
<1>7. Truthful'
  BY DEF Truthful, Elements
<1>8. RetryKept'
  BY DEF RetryKept
<1>9. CaptureKept'
  BY DEF CaptureKept, Slipped, InState, OthersCancelled
<1> QED
  BY <1>1, <1>2, <1>3, <1>4, <1>5, <1>6, <1>7, <1>8, <1>9

\* Compaction ends.
LEMMA CompactionEndPreserves ==
  ASSUME CoreInv, CompactionEnd
  PROVE  CoreInv'
<1> USE DEF CoreInv, CompactionEnd, store, ticket, transcript, gate, bounds
<1>1. TypeOK'
  BY WakeFact DEF TypeOK, State
<1>2. FenceKept'
  BY WakeFact DEF FenceKept, Holds
<1>3. PumpKept'
  BY WakeFact DEF PumpKept, Turn
<1>4. OneDispatch'
  BY WakeFact DEF OneDispatch, InState, Holds
<1>5. FeedKept'
  BY WakeFact DEF FeedKept, Turn
<1>6. HeardKept'
  BY WakeFact DEF HeardKept, Turn, Elements
<1>7. Truthful'
  BY WakeFact DEF Truthful, Elements
<1>8. RetryKept'
  BY WakeFact DEF RetryKept
<1>9. CaptureKept'
  BY WakeFact DEF CaptureKept, Slipped, InState, OthersCancelled
<1> QED
  BY <1>1, <1>2, <1>3, <1>4, <1>5, <1>6, <1>7, <1>8, <1>9

\* The retry continues the agent.
LEMMA RetryTimerPreserves ==
  ASSUME CoreInv, RetryTimer
  PROVE  CoreInv'
<1> USE DEF CoreInv, RetryTimer, store, ticket, transcript, wake, gate, bounds
<1>1. TypeOK'
  BY DEF TypeOK, State
<1>2. FenceKept'
  BY DEF FenceKept, Holds
<1>3. PumpKept'
  BY DEF PumpKept, Turn
<1>4. OneDispatch'
  BY DEF OneDispatch, InState, Holds
<1>5. FeedKept'
  BY DEF FeedKept, Turn
<1>6. HeardKept'
  BY DEF HeardKept, Turn, Elements
<1>7. Truthful'
  BY DEF Truthful, Elements
<1>8. RetryKept'
  BY DEF RetryKept
<1>9. CaptureKept'
  BY DEF CaptureKept, Slipped, InState, OthersCancelled
<1> QED
  BY <1>1, <1>2, <1>3, <1>4, <1>5, <1>6, <1>7, <1>8, <1>9

\* The run goes on after a compaction.
LEMMA ContinueTimerPreserves ==
  ASSUME CoreInv, ContinueTimer
  PROVE  CoreInv'
<1> USE DEF CoreInv, ContinueTimer, Paused, store, ticket, transcript, gate, bounds,
    Unfinished, wake, InState
<1>1. TypeOK'
  BY WakeFact DEF TypeOK, State
<1>2. FenceKept'
  BY WakeFact DEF FenceKept, Holds
<1>3. PumpKept'
  BY WakeFact DEF PumpKept, Turn
<1>4. OneDispatch'
  BY WakeFact DEF OneDispatch, Holds
<1>5. FeedKept'
  BY WakeFact DEF FeedKept, Turn
<1>6. HeardKept'
  BY WakeFact DEF HeardKept, Turn, Elements
<1>7. Truthful'
  BY WakeFact DEF Truthful, Elements
<1>8. RetryKept'
  BY WakeFact DEF RetryKept
<1>9. CaptureKept'
  BY WakeFact DEF TypeOK, FenceKept, PumpKept, FeedKept, CaptureKept, State, Holds, Turn,
    Slipped, OthersCancelled
<1> QED
  BY <1>1, <1>2, <1>3, <1>4, <1>5, <1>6, <1>7, <1>8, <1>9

\* A continuation that waited for the pump is planned again.
LEMMA ContinueLaterPreserves ==
  ASSUME CoreInv, ContinueLater
  PROVE  CoreInv'
<1> USE DEF CoreInv, ContinueLater, Unfinished, store, ticket, transcript, wake, gate, bounds,
    InState
<1>1. TypeOK'
  BY DEF TypeOK, State
<1>2. FenceKept'
  BY DEF FenceKept, Holds
<1>3. PumpKept'
  BY DEF PumpKept, Turn
<1>4. OneDispatch'
  BY DEF OneDispatch, Holds
<1>5. FeedKept'
  BY DEF FeedKept, Turn
<1>6. HeardKept'
  BY DEF HeardKept, Turn, Elements
<1>7. Truthful'
  BY DEF Truthful, Elements
<1>8. RetryKept'
  BY DEF RetryKept
<1>9. CaptureKept'
  BY DEF CaptureKept, Slipped, OthersCancelled
<1> QED
  BY <1>1, <1>2, <1>3, <1>4, <1>5, <1>6, <1>7, <1>8, <1>9

\* A navigation pauses the queue.
LEMMA NavigateBeginPreserves ==
  ASSUME NEW n \in Navigator, CoreInv, NavigateBegin(n)
  PROVE  CoreInv'
<1> USE DEF CoreInv, NavigateBegin, Queue, store, ticket, transcript, agent, bounds
<1>1. TypeOK'
  <2>1. fence' \in Seq(Input \cup Navigator \cup {"pump"})
    BY FenceQueue DEF TypeOK
  <2>2. nav' \in [Navigator -> {"off", "fence", "settle", "work", "done"}]
    BY DEF TypeOK
  <2>3. epoch' \in Nat
    BY DEF TypeOK
  <2>4. requested' \in BOOLEAN
    OBVIOUS
  <2> QED
    BY <2>1, <2>2, <2>3, <2>4 DEF TypeOK
<1>2. FenceKept'
  BY FenceQueue DEF FenceKept, Holds
<1>3. PumpKept'
  BY FenceQueue DEF PumpKept, Turn
<1>4. OneDispatch'
  BY FenceQueue DEF OneDispatch, InState, Holds
<1>5. FeedKept'
  BY FenceQueue DEF FeedKept, Turn
<1>6. HeardKept'
  BY FenceQueue DEF HeardKept, Turn, Elements
<1>7. Truthful'
  BY FenceQueue DEF Truthful, Elements
<1>8. RetryKept'
  BY FenceQueue DEF TypeOK, RetryKept, State
<1>9. CaptureKept'
  BY FenceQueue DEF TypeOK, CaptureKept, State, Slipped, InState, OthersCancelled
<1> QED
  BY <1>1, <1>2, <1>3, <1>4, <1>5, <1>6, <1>7, <1>8, <1>9

\* A navigation has the fence.
LEMMA NavigateFencePreserves ==
  ASSUME NEW n \in Navigator, CoreInv, NavigateFence(n)
  PROVE  CoreInv'
<1> USE DEF CoreInv, NavigateFence, Holds, store, ticket, transcript, wake, gate, agent, bounds
<1>1. TypeOK'
  BY DEF TypeOK, State
<1>2. FenceKept'
  BY DEF FenceKept
<1>3. PumpKept'
  BY DEF PumpKept, Turn
<1>4. OneDispatch'
  BY DEF OneDispatch, InState
<1>5. FeedKept'
  BY DEF FeedKept, Turn
<1>6. HeardKept'
  BY DEF HeardKept, Turn, Elements
<1>7. Truthful'
  BY DEF Truthful, Elements
<1>8. RetryKept'
  BY DEF RetryKept
<1>9. CaptureKept'
  BY DEF CaptureKept, Slipped, InState, OthersCancelled
<1> QED
  BY <1>1, <1>2, <1>3, <1>4, <1>5, <1>6, <1>7, <1>8, <1>9

\* A navigation finds the session quiet.
LEMMA NavigateSettlePreserves ==
  ASSUME NEW n \in Navigator, CoreInv, NavigateSettle(n)
  PROVE  CoreInv'
<1> USE DEF CoreInv, NavigateSettle, Cancelled, store, ticket, transcript, wake, gate, bounds
<1>1. TypeOK'
  BY DEF TypeOK, State
<1>2. FenceKept'
  BY DEF FenceKept, Holds
<1>3. PumpKept'
  BY DEF PumpKept, Turn
<1>4. OneDispatch'
  BY DEF OneDispatch, InState, Holds
<1>5. FeedKept'
  BY DEF FeedKept, Turn
<1>6. HeardKept'
  BY DEF HeardKept, Turn, Elements
<1>7. Truthful'
  BY DEF Truthful, Elements
<1>8. RetryKept'
  BY DEF RetryKept
<1>9. CaptureKept'
  BY DEF CaptureKept, Slipped, InState, OthersCancelled
<1> QED
  BY <1>1, <1>2, <1>3, <1>4, <1>5, <1>6, <1>7, <1>8, <1>9

\* A navigation is over.
LEMMA NavigateEndPreserves ==
  ASSUME NEW n \in Navigator, CoreInv, NavigateEnd(n)
  PROVE  CoreInv'
<1> USE DEF CoreInv, NavigateEnd, store, ticket, transcript, gate, agent, bounds, Unlock, Holds
<1>1. TypeOK'
  BY FenceUnlock, WakeFact DEF TypeOK, State
<1>2. FenceKept'
  BY FenceUnlock, WakeFact DEF TypeOK, FenceKept, State
<1>3. PumpKept'
  BY FenceUnlock, WakeFact DEF PumpKept, Turn
<1>4. OneDispatch'
  BY FenceUnlock, WakeFact DEF OneDispatch, InState
<1>5. FeedKept'
  BY FenceUnlock, WakeFact DEF FeedKept, Turn
<1>6. HeardKept'
  BY FenceUnlock, WakeFact DEF HeardKept, Turn, Elements
<1>7. Truthful'
  BY FenceUnlock, WakeFact DEF Truthful, Elements
<1>8. RetryKept'
  BY FenceUnlock, WakeFact DEF RetryKept
<1>9. CaptureKept'
  BY FenceUnlock, WakeFact DEF CaptureKept, Slipped, InState, OthersCancelled
<1> QED
  BY <1>1, <1>2, <1>3, <1>4, <1>5, <1>6, <1>7, <1>8, <1>9

\* A shell command ends.
LEMMA BashEndPreserves ==
  ASSUME CoreInv, BashEnd
  PROVE  CoreInv'
<1> USE DEF CoreInv, BashEnd, store, ticket, transcript, wake, gate, bounds
<1>1. TypeOK'
  BY DEF TypeOK, State
<1>2. FenceKept'
  BY DEF FenceKept, Holds
<1>3. PumpKept'
  BY DEF PumpKept, Turn
<1>4. OneDispatch'
  BY DEF OneDispatch, InState, Holds
<1>5. FeedKept'
  BY DEF FeedKept, Turn
<1>6. HeardKept'
  BY DEF HeardKept, Turn, Elements
<1>7. Truthful'
  BY DEF Truthful, Elements
<1>8. RetryKept'
  BY DEF RetryKept
<1>9. CaptureKept'
  BY DEF CaptureKept, Slipped, InState, OthersCancelled
<1> QED
  BY <1>1, <1>2, <1>3, <1>4, <1>5, <1>6, <1>7, <1>8, <1>9

\* What queued behind a shell command is woken.
LEMMA DrainPreserves ==
  ASSUME CoreInv, Drain
  PROVE  CoreInv'
<1> USE DEF CoreInv, Drain, store, ticket, transcript, gate, bounds
<1>1. TypeOK'
  BY WakeFact DEF TypeOK, State
<1>2. FenceKept'
  BY WakeFact DEF FenceKept, Holds
<1>3. PumpKept'
  BY WakeFact DEF PumpKept, Turn
<1>4. OneDispatch'
  BY WakeFact DEF OneDispatch, InState, Holds
<1>5. FeedKept'
  BY WakeFact DEF FeedKept, Turn
<1>6. HeardKept'
  BY WakeFact DEF HeardKept, Turn, Elements
<1>7. Truthful'
  BY WakeFact DEF Truthful, Elements
<1>8. RetryKept'
  BY WakeFact DEF RetryKept
<1>9. CaptureKept'
  BY WakeFact DEF CaptureKept, Slipped, InState, OthersCancelled
<1> QED
  BY <1>1, <1>2, <1>3, <1>4, <1>5, <1>6, <1>7, <1>8, <1>9

\* The user aborts.
LEMMA AbortPreserves ==
  ASSUME CoreInv, Abort
  PROVE  CoreInv'
<1> DEFINE S == {i \in Clearable \ Command : ~visible[i]}
<1>1. S \in SUBSET Input /\ \A i \in S : state[i] \in {"queued", "selected", "preparing"}
  BY DEF Clearable, InState
<1>2. Cancel(S) /\ ~disposed /\ requested' = FALSE /\ epoch' = epoch + 1 /\ suspended' = TRUE
      /\ interrupts' = interrupts + 1 /\ again' = Cancelled(again) /\ busy' = busy \ {"retry"}
      /\ UNCHANGED <<visible, heard, recorded, pump, pending, disposed, fence, nav,
                     running, feed, draining, reruns>>
  BY DEF Abort, Interrupt
<1>3. ended' = CASE ended = "backoff" -> "done" [] ended = "compacting" -> "cancelling"
                 [] OTHER -> ended
  BY DEF Abort
<1> HIDE DEF S
<1>4. /\ pending \in Seq(Nat) /\ epoch \in Nat /\ interrupts \in Nat /\ reruns \in Nat
      /\ ended \in {"none", "done", "retry", "backoff", "overflow", "compacting", "cancelling"}
  BY DEF CoreInv, TypeOK
<1>5. again' \in {again, "none"} /\ (again' = "retry" => again = "retry")
  BY <1>2 DEF Cancelled
<1>6. /\ ended' \in {"none", "done", "retry", "backoff", "overflow", "compacting", "cancelling"}
      /\ ended' = "none" <=> ended = "none"
      /\ ended' \in {"retry", "backoff"} => ended = "retry"
  BY <1>3, <1>4
<1>7. RetryKept'
  BY <1>2, <1>4, <1>5, <1>6 DEF CoreInv, RetryKept
<1>8. epoch' \in Nat /\ (epoch # 0 => epoch' # 0) /\ interrupts' \in Nat /\ pending' \in Seq(Nat)
  BY <1>2, <1>4
<1>9. requested' \in BOOLEAN /\ suspended' \in BOOLEAN
  BY <1>2
<1>10. busy' \subseteq busy
  BY <1>2
<1> QED
  BY <1>1, <1>2, <1>5, <1>6, <1>7, <1>8, <1>9, <1>10, CancelMoves

\* The user resumes.
LEMMA ResumePreserves ==
  ASSUME CoreInv, Resume
  PROVE  CoreInv'
<1> USE DEF CoreInv, Resume, store, ticket, transcript, agent, bounds
<1>1. TypeOK'
  BY WakeFact DEF TypeOK, State
<1>2. FenceKept'
  BY WakeFact DEF FenceKept, Holds
<1>3. PumpKept'
  BY WakeFact DEF PumpKept, Turn
<1>4. OneDispatch'
  BY WakeFact DEF OneDispatch, InState, Holds
<1>5. FeedKept'
  BY WakeFact DEF FeedKept, Turn
<1>6. HeardKept'
  BY WakeFact DEF HeardKept, Turn, Elements
<1>7. Truthful'
  BY WakeFact DEF Truthful, Elements
<1>8. RetryKept'
  BY WakeFact DEF RetryKept
<1>9. CaptureKept'
  BY WakeFact DEF CaptureKept, Slipped, InState, OthersCancelled
<1> QED
  BY <1>1, <1>2, <1>3, <1>4, <1>5, <1>6, <1>7, <1>8, <1>9

\* The user clears the queue.
LEMMA ClearQueuePreserves ==
  ASSUME CoreInv, ClearQueue
  PROVE  CoreInv'
<1> DEFINE S == {i \in Clearable : i \in Command \/ visible[i]}
<1>1. S \in SUBSET Input /\ \A i \in S : state[i] \in {"queued", "selected", "preparing"}
  BY DEF Clearable, InState
<1>2. Cancel(S) /\ ~disposed /\ interrupts' = interrupts + 1
      /\ UNCHANGED <<visible, heard, recorded, pump, wake, suspended, disposed, fence, nav, agent,
                     busy, reruns>>
  BY DEF ClearQueue, Interrupt
<1> HIDE DEF S
<1>4. /\ pending \in Seq(Nat) /\ epoch \in Nat /\ interrupts \in Nat
      /\ requested \in BOOLEAN /\ suspended \in BOOLEAN
      /\ ended \in {"none", "done", "retry", "backoff", "overflow", "compacting", "cancelling"}
  BY DEF CoreInv, TypeOK
<1>3. epoch' \in {epoch, epoch + 1}
  BY <1>4 DEF ClearQueue
<1>5. RetryKept'
  BY <1>2, <1>3, <1>4 DEF CoreInv, RetryKept
<1> QED
  BY <1>1, <1>2, <1>3, <1>4, <1>5, CancelMoves

\* A shell command starts.
LEMMA BashStartPreserves ==
  ASSUME CoreInv, BashStart
  PROVE  CoreInv'
<1> USE DEF CoreInv, BashStart, Interrupt, store, ticket, transcript, wake, gate, agent
<1>1. TypeOK'
  BY DEF TypeOK, State
<1>2. FenceKept'
  BY DEF FenceKept, Holds
<1>3. PumpKept'
  BY DEF PumpKept, Turn
<1>4. OneDispatch'
  BY DEF OneDispatch, InState, Holds
<1>5. FeedKept'
  BY DEF FeedKept, Turn
<1>6. HeardKept'
  BY DEF HeardKept, Turn, Elements
<1>7. Truthful'
  BY DEF Truthful, Elements
<1>8. RetryKept'
  BY DEF RetryKept
<1>9. CaptureKept'
  BY DEF CaptureKept, Slipped, InState, OthersCancelled
<1> QED
  BY <1>1, <1>2, <1>3, <1>4, <1>5, <1>6, <1>7, <1>8, <1>9

\* The session is disposed.
LEMMA DisposePreserves ==
  ASSUME CoreInv, Dispose
  PROVE  CoreInv'
<1> USE DEF CoreInv, Dispose, Holds, Clearable, RejectTickets, Cancelled, transcript, wake,
    bounds, InState, Complete
<1>1. TypeOK'
  BY DEF TypeOK, State
<1>2. FenceKept'
  BY DEF FenceKept
<1>3. PumpKept'
  <2>1. \A i \in Input : state[i] \in {"selected", "preparing"} => state'[i] = "cancelled"
    BY DEF TypeOK
  <2>2. \A i \in Input : state[i] \in {"cancelled", "running"} => state'[i] = state[i]
    BY DEF TypeOK
  <2>3. pump.batch \subseteq Input /\ pump.first \in Input \cup {None}
    BY DEF TypeOK, PumpState
  <2> QED
    BY <2>1, <2>2, <2>3 DEF PumpKept, Turn
<1>4. OneDispatch'
  BY DEF OneDispatch
<1>5. FeedKept'
  BY DEF FeedKept, Turn
<1>6. HeardKept'
  BY DEF HeardKept, Turn, Elements
<1>7. Truthful'
  <2>1. Elements(heard)' = Elements(heard)
    OBVIOUS
  <2>2. \A i \in Input : delivery'[i] = delivery[i] \/ delivery'[i] = "not_applicable"
                           \/ (delivery'[i] = "error" /\ i \notin Elements(heard))
    <3>1. \A i \in Clearable : i \in Turn => i \notin Elements(heard)
      BY DEF HeardKept, Turn
    <3> QED
      BY <3>1 DEF TypeOK, Turn
  <2>3. \A i \in Input : completion'[i] = completion[i] \/ completion'[i] = "error"
    BY DEF TypeOK
  <2> HIDE DEF Elements
  <2> QED
    BY <2>1, <2>2, <2>3 DEF Truthful
<1>8. RetryKept'
  BY DEF RetryKept
<1>9. CaptureKept'
  BY DEF TypeOK, CaptureKept, State, Slipped, OthersCancelled
<1> QED
  BY <1>1, <1>2, <1>3, <1>4, <1>5, <1>6, <1>7, <1>8, <1>9

\* The user deletes an input.
LEMMA DeletePreserves ==
  ASSUME NEW i \in Input, CoreInv, Delete(i)
  PROVE  CoreInv'
<1>1. Cancel({i}) /\ ~disposed /\ interrupts' = interrupts + 1 /\ state[i] = "queued" /\ Wake
      /\ suspended' = FALSE
      /\ UNCHANGED <<visible, heard, recorded, pump, epoch, disposed, fence, nav, agent, busy,
                     reruns>>
  BY DEF Delete, Interrupt, Shown
<1>2. /\ pending \in Seq(Nat) /\ epoch \in Nat /\ interrupts \in Nat /\ requested \in BOOLEAN
      /\ ended \in {"none", "done", "retry", "backoff", "overflow", "compacting", "cancelling"}
  BY DEF CoreInv, TypeOK
<1>3. pending' \in Seq(Nat) /\ requested' \in BOOLEAN
  BY <1>1, <1>2, WakeFact
<1>4. RetryKept'
  BY <1>1 DEF CoreInv, RetryKept
<1>5. epoch' \in Nat /\ (epoch # 0 => epoch' # 0) /\ interrupts' \in Nat
  BY <1>1, <1>2
<1>6. suspended' \in BOOLEAN
  BY <1>1
<1>7. {i} \in SUBSET Input /\ \A j \in {i} : state[j] \in {"queued", "selected", "preparing"}
  BY <1>1
<1> QED
  BY <1>1, <1>2, <1>3, <1>4, <1>5, <1>6, <1>7, CancelMoves

\* The user moves an input.
LEMMA MovePreserves ==
  ASSUME NEW i \in Input, CoreInv, Move(i)
  PROVE  CoreInv'
<1> USE DEF CoreInv, Move, Interrupt, Shown, ticket, transcript, agent, Elements
<1>1. TypeOK'
  <2>1. Wake /\ epoch' = epoch
    OBVIOUS
  <2>2. pending' \in Seq(Nat) /\ requested' \in BOOLEAN
    BY <2>1, WakeFact DEF TypeOK
  <2>3. suspended' \in BOOLEAN
    OBVIOUS
  <2>4. interrupts' \in Nat
    BY DEF TypeOK
  <2> QED
    BY <2>2, <2>3, <2>4 DEF TypeOK
<1>2. FenceKept'
  BY WakeFact DEF FenceKept, Holds
<1>3. PumpKept'
  BY WakeFact DEF PumpKept, Turn
<1>4. OneDispatch'
  BY WakeFact DEF OneDispatch, InState, Holds
<1>5. FeedKept'
  BY WakeFact DEF FeedKept, Turn
<1>6. HeardKept'
  BY WakeFact DEF HeardKept, Turn
<1>7. Truthful'
  BY WakeFact DEF Truthful
<1>8. RetryKept'
  BY WakeFact DEF RetryKept
<1>9. CaptureKept'
  BY WakeFact DEF CaptureKept, Slipped, InState, OthersCancelled
<1> QED
  BY <1>1, <1>2, <1>3, <1>4, <1>5, <1>6, <1>7, <1>8, <1>9

\* An input is withdrawn.
LEMMA WithdrawPreserves ==
  ASSUME NEW i \in Input, CoreInv, Withdraw(i)
  PROVE  CoreInv'
<1>1. Cancel({i}) /\ ~disposed /\ interrupts' = interrupts + 1
      /\ UNCHANGED <<visible, heard, recorded, pump, wake, gate, fence, nav, agent, busy, reruns>>
  BY DEF Withdraw, Interrupt
<1>2. \/ state[i] \in {"queued", "selected", "preparing"}
      \/ i \in Turn /\ state[i] = "committing" /\ i \notin Elements(heard)
  BY DEF Withdraw, Clearable, InState, Turn
<1>3. /\ pending \in Seq(Nat) /\ epoch \in Nat /\ interrupts \in Nat
      /\ requested \in BOOLEAN /\ suspended \in BOOLEAN
      /\ ended \in {"none", "done", "retry", "backoff", "overflow", "compacting", "cancelling"}
  BY DEF CoreInv, TypeOK
<1>4. RetryKept'
  BY <1>1 DEF CoreInv, RetryKept
<1> QED
  BY <1>1, <1>2, <1>3, <1>4, CancelMoves

\* The user swaps two inputs.
LEMMA SwapPreserves ==
  ASSUME NEW l \in Lane, NEW a, NEW b, CoreInv, Swap(l, a, b)
  PROVE  CoreInv'
<1> USE DEF CoreInv, Swap, Interrupt, Shown, ticket, transcript, wake, gate, agent
<1>1. TypeOK'
  BY DEF TypeOK, State
<1>2. FenceKept'
  BY DEF FenceKept, Holds
<1>3. PumpKept'
  BY DEF PumpKept, Turn
<1>4. OneDispatch'
  BY DEF OneDispatch, InState, Holds
<1>5. FeedKept'
  BY DEF FeedKept, Turn
<1>6. HeardKept'
  BY DEF HeardKept, Turn, Elements
<1>7. Truthful'
  BY DEF Truthful, Elements
<1>8. RetryKept'
  BY DEF RetryKept
<1>9. CaptureKept'
  BY DEF CaptureKept, Slipped, InState, OthersCancelled
<1> QED
  BY <1>1, <1>2, <1>3, <1>4, <1>5, <1>6, <1>7, <1>8, <1>9

\* Nothing is under way initially.
LEMMA InitEstablishes == Init => CoreInv
<1> SUFFICES ASSUME Init PROVE CoreInv
  OBVIOUS
<1>1. /\ pump = Off /\ heard = <<>> /\ fence = <<>> /\ pending = <<>> /\ recorded = {} /\ captured = {}
      /\ feed = {} /\ ended = "none" /\ again = "none" /\ running = FALSE /\ disposed = FALSE
      /\ epoch = 0 /\ reruns = 0 /\ interrupts = 0
      /\ requested = FALSE /\ suspended = FALSE /\ busy = {} /\ draining = FALSE
      /\ state = [i \in Input |-> "new"] /\ visible = [i \in Input |-> FALSE]
      /\ delivery = [i \in Input |-> "open"] /\ completion = [i \in Input |-> "open"]
      /\ nav = [n \in Navigator |-> "off"]
  BY DEF Init
<1>2. Elements(heard) = {}
  BY <1>1 DEF Elements
<1>3. TypeOK
  <2>1. /\ heard \in Seq(Input) /\ pending \in Seq(Nat)
        /\ fence \in Seq(Input \cup Navigator \cup {"pump"})
    BY <1>1
  <2>2. /\ state \in [Input -> State] /\ visible \in [Input -> BOOLEAN]
        /\ delivery \in [Input -> {"open", "delivered", "not_applicable", "error"}]
        /\ completion \in [Input -> {"open", "done", "error"}]
        /\ nav \in [Navigator -> {"off", "fence", "settle", "work", "done"}]
    BY <1>1 DEF State
  <2>3. requested \in BOOLEAN /\ suspended \in BOOLEAN /\ disposed \in BOOLEAN
        /\ running \in BOOLEAN /\ draining \in BOOLEAN
    BY <1>1
  <2> QED
    BY <1>1, <2>1, <2>2, <2>3, OffForm DEF TypeOK
<1>4. FenceKept /\ PumpKept /\ FeedKept
  BY <1>1, OffForm DEF FenceKept, PumpKept, FeedKept, Turn
<1>5. OneDispatch
  BY <1>1 DEF OneDispatch, InState
<1>6. HeardKept /\ Truthful
  BY <1>1, <1>2, OffForm DEF HeardKept, Truthful, Turn
<1>7. RetryKept /\ CaptureKept
  BY <1>1, OffForm DEF RetryKept, CaptureKept
<1> QED
  BY <1>3, <1>4, <1>5, <1>6, <1>7 DEF CoreInv

\* Steps that change nothing keep the invariant.
LEMMA StutterPreserves ==
  ASSUME CoreInv, UNCHANGED vars
  PROVE  CoreInv'
<1> USE DEF CoreInv, vars
<1>1. TypeOK' /\ FenceKept' /\ PumpKept'
  BY DEF TypeOK, FenceKept, PumpKept, Holds
<1>2. OneDispatch' /\ FeedKept'
  BY DEF OneDispatch, FeedKept, InState, Holds
<1>3. HeardKept' /\ Truthful'
  BY DEF HeardKept, Truthful, Elements
<1>4. RetryKept' /\ CaptureKept'
  BY DEF RetryKept, CaptureKept, InState, OthersCancelled, Slipped
<1> QED
  BY <1>1, <1>2, <1>3, <1>4

\* Every step preserves the invariant.
LEMMA NextPreserves == CoreInv /\ [Next]_vars => CoreInv'
<1> SUFFICES ASSUME CoreInv, [Next]_vars PROVE CoreInv'
  OBVIOUS
<1>1. CASE \E i \in Input : PromptStep(i)
  BY <1>1, SubmitPreserves, AwaitFencePreserves, TakeFencePreserves, AdmitPreserves,
    CancelPromptPreserves DEF PromptStep
<1>2. CASE PumpStep
  BY <1>2, PumpStartPreserves, PumpLoopPreserves, PumpIdlePreserves, PumpSelectPreserves,
    PumpPreparePreserves, PumpCommitPreserves, PumpSettlePreserves, CommandBeginPreserves,
    CommandEndPreserves DEF PumpStep
<1>3. CASE AgentStep
  BY <1>3, MessageStartPreserves, MessageEndPreserves, RunEndPreserves, RetryBackoffPreserves,
    RetryDuePreserves, EventEndPreserves, CompactionStartPreserves, CompactionEndPreserves,
    RetryTimerPreserves, ContinueTimerPreserves, ContinueLaterPreserves DEF AgentStep
<1>4. CASE \E n \in Navigator : Navigate(n)
  BY <1>4, NavigateBeginPreserves, NavigateFencePreserves, NavigateSettlePreserves,
    NavigateEndPreserves DEF Navigate
<1>5. CASE UserStep
  <2>1. CASE Abort \/ Resume \/ ClearQueue \/ BashStart \/ Dispose
    BY <2>1, AbortPreserves, ResumePreserves, ClearQueuePreserves, BashStartPreserves,
      DisposePreserves
  <2>2. CASE \E i \in Input : Delete(i) \/ Move(i) \/ Withdraw(i)
    BY <2>2, DeletePreserves, MovePreserves, WithdrawPreserves
  <2>3. CASE \E l \in Lane : \E a, b \in DOMAIN lane[l] : Swap(l, a, b)
    BY <2>3, SwapPreserves
  <2> QED
    BY <1>5, <2>1, <2>2, <2>3 DEF UserStep
<1>6. CASE FenceSkip \/ BashEnd \/ Drain
  BY <1>6, FenceSkipPreserves, BashEndPreserves, DrainPreserves
<1>7. CASE UNCHANGED vars
  BY <1>7, StutterPreserves
<1> QED
  BY <1>1, <1>2, <1>3, <1>4, <1>5, <1>6, <1>7 DEF Next

\* Every prompt, pump, run, navigation and user action keeps the invariant.
THEOREM CoreInvariance == Spec => []CoreInv
<1> QED
  BY InitEstablishes, NextPreserves, PTL DEF Spec

\* The agent never has two dispatches, and a command of the queue runs alone
\* and under the commit fence.
THEOREM DispatchIsOne == Spec => []OneDispatch
<1>1. CoreInv => OneDispatch
  BY DEF CoreInv
<1> QED
  BY <1>1, CoreInvariance, PTL

\* While a tree navigation works, no dispatched turn and no command is at work.
THEOREM NavigationIsHeld == Spec => []NavigationHeld
<1>1. CoreInv => NavigationHeld
  <2> SUFFICES ASSUME CoreInv, NEW n \in Navigator, nav[n] = "work", ~disposed
               PROVE  /\ Holds(n) /\ pump.at # "command"
                      /\ feed = {} /\ InState({"committing"}) \ Command = {}
    BY DEF NavigationHeld
  <2>1. Holds(n) /\ n # "pump"
    BY DEF CoreInv, FenceKept
  <2>2. pump.at # "command"
    BY <2>1 DEF CoreInv, FenceKept, Holds
  <2>3. feed = {}
    BY DEF CoreInv, FeedKept
  <2>4. InState({"committing"}) \ Command = {}
    BY <2>3 DEF CoreInv, FeedKept, InState, Turn
  <2> QED
    BY <2>1, <2>2, <2>3, <2>4
<1> QED
  BY <1>1, CoreInvariance, PTL

\* A prompt that was withdrawn from a run leaves no trace in the transcript.
THEOREM WithdrawnIsTakenBack == Spec => []TakenBack
<1>1. CoreInv => TakenBack
  <2> SUFFICES ASSUME CoreInv, ~running, ~disposed, NEW i \in recorded, state[i] = "cancelled"
               PROVE  OthersCancelled(i) \/ Slipped
    BY DEF TakenBack
  <2> QED
    BY DEF CoreInv, CaptureKept
<1> QED
  BY <1>1, CoreInvariance, PTL

\* No caller is told of a delivery or a completion that did not happen, nor of
\* a failure to deliver what the agent has seen.
THEOREM TicketsAreTruthful == Spec => []Truthful
<1>1. CoreInv => Truthful
  BY DEF CoreInv
<1> QED
  BY <1>1, CoreInvariance, PTL
=============================================================================
