--------------------------- MODULE SessionActions ---------------------------
(***************************************************************************)
(* The input queue of one session: from prompt() to the agent's            *)
(* transcript.                                                             *)
(*                                                                         *)
(* Prompts and slash commands are admitted to a store of two lanes and     *)
(* dispatched by a pump.  JavaScript runs one step at a time, so a step    *)
(* here is what the code does between two awaits.  Meanwhile the agent     *)
(* runs, retries and compacts, tree navigation pauses the pump, shell      *)
(* commands keep the session busy, and the user aborts, clears, edits and  *)
(* withdraws what is queued.                                               *)
(***************************************************************************)
EXTENDS Filter, FiniteSets

CONSTANTS
  Input,        \* submissions
  Command,      \* those that are slash commands
  LaneOf,       \* the lane each one asks for
  Keyed,        \* follow-ups with one coalescing key (heartbeats)
  Waking,       \* those whose submitter sets resumeIfIdle
  QueueIfBusy,  \* those that may be queued behind other work
  Navigator,    \* tree navigations, each pauses the queue
  Batching,     \* whether a lane is delivered in "all" mode
  None,
  MaxInterrupts, \* bound: aborts, clears, edits and shell commands
  MaxReruns      \* bound: retries and post-compaction continuations

Lane == {"steering", "followUp"}

ASSUME SessionAssumption ==
  /\ Command \subseteq Input /\ Keyed \subseteq Input
  /\ Waking \subseteq Input /\ QueueIfBusy \subseteq Input
  /\ LaneOf \in [Input -> Lane]
  /\ Batching \in BOOLEAN
  /\ None \notin Input
  /\ Input \cap Navigator = {} /\ "pump" \notin Input \cup Navigator
  /\ MaxInterrupts \in Nat /\ MaxReruns \in Nat

VARIABLES
  lane,        \* ActionStore: the owned actions of each lane, in order
  state,       \* life cycle of each action, and of a prompt before it is one
  visible,     \* payload.queueVisible
  delivery,    \* ticket.delivered
  completion,  \* ticket.completed
  heard,       \* messages whose message_start was seen, in order
  recorded,    \* messages in agent.state.messages
  captured,    \* cancelled dispatches whose run is being swept up
  pump,        \* the running pump: where it awaits, its epoch and actions
  pending,     \* epochs of the pumps chained behind it
  requested,   \* _sessionInputPumpRequested
  epoch,       \* _sessionInputPumpEpoch
  suspended,   \* _sessionInputPumpSuspended
  fence,       \* holder and waiters of the commit fence, first come first
  nav,         \* where each navigation is
  running,     \* agent.state.isStreaming
  feed,        \* messages the run has yet to start with
  ended,       \* the agent_end event that awaits processing
  again,       \* a timer that will continue the agent
  busy,        \* shell command, compaction, retry
  draining,    \* _drainQueuedMessagesAfterBash awaits the agent
  disposed,
  interrupts, reruns  \* counters for the bounds

store == <<lane, state, visible>>
ticket == <<delivery, completion>>
transcript == <<heard, recorded, captured>>
gate == <<epoch, suspended, disposed>>
wake == <<pending, requested>>
agent == <<running, feed, ended, again, draining>>
bounds == <<interrupts, reruns>>
vars == <<store, ticket, transcript, pump, wake, gate, fence, nav, agent,
          busy, bounds>>

----------------------------------------------------------------------------
(* The store *)

InState(S) == {i \in Input : state[i] \in S}

Clearable == InState({"queued", "selected", "preparing"})
Unfinished == InState({"queued", "selected", "preparing", "committing", "running"})
Live == Unfinished \ Elements(heard)  \* accepted and not yet the agent's
Selectable == InState({"queued", "selected"}) # {}
\* Within a lane the store keeps the order of admission, and steering goes first.
Ahead(i, j) == \E l \in Lane : \E a, b \in DOMAIN lane[l] :
                 a < b /\ lane[l][a] = i /\ lane[l][b] = j
In(l) == Elements(lane[l])
Before(i, j) == (i \in In("steering") /\ j \in In("followUp")) \/ Ahead(i, j)

\* The first action in a state, None if there is none.
IsLast(i, s) == state[i] = s /\ \A j \in InState({s}) \ {i} : Before(j, i)
IsFirst(i, s) == state[i] = s /\ \A j \in InState({s}) \ {i} : Before(i, j)
FirstIn(s) == IF \E i \in Input : IsFirst(i, s)
                THEN CHOOSE i \in Input : IsFirst(i, s) ELSE None

\* transitionSessionAction for a set of actions, and releaseTerminal.
Become(S, s) == state' = [i \in Input |-> IF i \in S THEN s ELSE state[i]]
Release(S) == lane' = [l \in Lane |-> Without(lane[l], S)]

\* Deferreds settle once.
Deliver(S, d) ==
  delivery' = [i \in Input |-> IF i \in S /\ delivery[i] = "open" THEN d ELSE delivery[i]]
Complete(S, c) ==
  completion' = [i \in Input |-> IF i \in S /\ completion[i] = "open" THEN c ELSE completion[i]]

----------------------------------------------------------------------------
(* The gate *)

Paused == \E n \in Navigator : nav[n] \in {"fence", "settle", "work"}
BusyForPump == busy # {} \/ disposed \/ suspended \/ Paused
CanSelect == ~running /\ ~BusyForPump

\* _scheduleSessionInputPump at the end of a step.
Wake ==
  IF Selectable' /\ ~suspended' /\ ~Paused' /\ ~disposed' /\ ~requested
    THEN requested' = TRUE /\ pending' = Append(pending, epoch')
    ELSE UNCHANGED wake

Holds(p) == fence # <<>> /\ Head(fence) = p
Queue(p) == fence' = Append(fence, p)
Unlock(p) == fence' = IF Holds(p) THEN Tail(fence) ELSE fence

\* A visible prompt that still waited was never owed a delivery.
RejectTickets(S) ==
  /\ delivery' = [i \in Input |->
       IF i \notin S \/ delivery[i] # "open" THEN delivery[i]
       ELSE IF i \notin Command /\ (~visible[i] \/ state[i] # "queued")
         THEN "error" ELSE "not_applicable"]
  /\ Complete(S, "error")

CancelForgotten(S) ==
  /\ Become(S, "cancelled")
  /\ Release(S)
  /\ UNCHANGED captured
  /\ RejectTickets(S)

\* _cancelSessionActions: a dispatched turn stays until its run has ended.
Cancel(S) ==
  LET dispatched == {i \in S : state[i] = "committing"}
  IN  /\ Become(S, "cancelled")
      /\ Release(S \ dispatched)
      /\ captured' = captured \cup dispatched
      /\ RejectTickets(S)

----------------------------------------------------------------------------
State == {"new", "waiting", "fenced", "admitting", "rejected", "coalesced", "queued",
          "selected", "preparing", "committing", "running", "completed", "failed",
          "cancelled"}

PumpState ==
  [at : {"off", "loop", "idle", "events", "prepare", "commit", "dispatched",
         "commandFence", "command"},
   epoch : Nat, first : Input \cup {None}, batch : SUBSET Input, turns : SUBSET Input]

\* Every variable but the lanes has its type (LaneKept has theirs).
TypeOK ==
  /\ state \in [Input -> State]
  /\ visible \in [Input -> BOOLEAN]
  /\ delivery \in [Input -> {"open", "delivered", "not_applicable", "error"}]
  /\ completion \in [Input -> {"open", "done", "error"}]
  /\ heard \in Seq(Input) /\ recorded \subseteq Input /\ captured \subseteq Input
  /\ pump \in PumpState
  /\ pending \in Seq(Nat) /\ requested \in BOOLEAN
  /\ epoch \in Nat /\ suspended \in BOOLEAN /\ disposed \in BOOLEAN
  /\ fence \in Seq(Input \cup Navigator \cup {"pump"})
  /\ nav \in [Navigator -> {"off", "fence", "settle", "work", "done"}]
  /\ running \in BOOLEAN /\ feed \subseteq Input
  /\ ended \in {"none", "done", "retry", "backoff", "overflow", "compacting", "cancelling"}
  /\ again \in {"none", "retry", "timer", "pump"}
  /\ busy \subseteq {"bash", "compaction", "retry"} /\ draining \in BOOLEAN
  /\ interrupts \in Nat /\ reruns \in Nat

Off == [at |-> "off", epoch |-> 0, first |-> None, batch |-> {}, turns |-> {}]

Init ==
  /\ lane = [l \in Lane |-> <<>>]
  /\ state = [i \in Input |-> "new"]
  /\ visible = [i \in Input |-> FALSE]
  /\ delivery = [i \in Input |-> "open"]
  /\ completion = [i \in Input |-> "open"]
  /\ heard = <<>> /\ recorded = {} /\ captured = {}
  /\ pump = Off
  /\ pending = <<>> /\ requested = FALSE
  /\ epoch = 0 /\ suspended = FALSE /\ disposed = FALSE
  /\ fence = <<>>
  /\ nav = [n \in Navigator |-> "off"]
  /\ running = FALSE /\ feed = {} /\ ended = "none" /\ again = "none"
  /\ busy = {} /\ draining = FALSE
  /\ interrupts = 0 /\ reruns = 0

----------------------------------------------------------------------------
(* Prompts *)

\* prompt(): while the agent runs it needs no fence.
Submit(i) ==
  /\ state[i] = "new"
  /\ ~disposed
  /\ state' = [state EXCEPT ![i] = IF running THEN "admitting" ELSE "waiting"]
  /\ suspended' = (suspended /\ running)
  /\ UNCHANGED <<lane, visible, ticket, transcript, pump, wake, epoch, disposed,
       fence, nav, agent, busy, bounds>>

Refused == disposed \/ (Unfinished # {} /\ suspended)

\* _acquireDirectTurnAdmissionFence waits out pauses before and after the fence.
AwaitFence(i) ==
  /\ state[i] = "waiting"
  /\ ~Paused
  /\ state' = [state EXCEPT ![i] = IF Refused THEN "rejected" ELSE "fenced"]
  /\ IF Refused THEN UNCHANGED fence ELSE Queue(i)
  /\ UNCHANGED <<lane, visible, ticket, transcript, pump, wake, gate, nav, agent,
       busy, bounds>>

TakeFence(i) ==
  /\ state[i] = "fenced"
  /\ Holds(i)
  /\ LET next == IF Paused THEN "waiting" ELSE IF Refused THEN "rejected" ELSE "admitting"
     IN  /\ state' = [state EXCEPT ![i] = next]
         /\ IF next = "admitting" THEN UNCHANGED fence ELSE Unlock(i)
  /\ UNCHANGED <<lane, visible, ticket, transcript, pump, wake, gate, nav, agent,
       busy, bounds>>

\* The caller's signal; the waiter's place in the chain stays for FenceSkip.
CancelPrompt(i) ==
  /\ \/ state[i] = "waiting"
     \/ state[i] = "fenced" /\ ~Holds(i)
  /\ interrupts < MaxInterrupts
  /\ interrupts' = interrupts + 1
  /\ state' = [state EXCEPT ![i] = "rejected"]
  /\ UNCHANGED <<lane, visible, ticket, transcript, pump, wake, gate, fence, nav,
       agent, busy, reruns>>

\* A waiter that has left lets the next one through.
FenceSkip ==
  /\ fence # <<>>
  /\ \/ Head(fence) \in Input /\ state[Head(fence)] = "rejected"
     \/ Head(fence) \in Navigator /\ nav[Head(fence)] = "done"
  /\ fence' = Tail(fence)
  /\ UNCHANGED <<store, ticket, transcript, pump, wake, gate, nav, agent, busy, bounds>>

Coalesced(i) ==
  /\ i \in Keyed /\ LaneOf[i] = "followUp" /\ i \notin Command
  /\ \E j \in Keyed : state[j] \in {"queued", "selected", "preparing"}

\* The rest of prompt() once its text is normalised, and _admitSessionInput.
Admit(i) ==
  /\ state[i] = "admitting"
  /\ LET free == busy = {} /\ Unfinished = {}
         shown == i \notin Command /\ (running \/ (i \in QueueIfBusy /\ ~free))
         immediate == i \in Command \/ ~shown \/ i \in Waking
                        \/ (i \in QueueIfBusy /\ CanSelect)
         first == ~shown /\ ~running /\ ~BusyForPump /\ Unfinished = {}
         outcome == IF disposed THEN "rejected"
                    ELSE IF Coalesced(i) THEN "coalesced"
                    ELSE IF first THEN "selected" ELSE "queued"
     IN  /\ state' = [state EXCEPT ![i] = outcome]
         /\ visible' = [visible EXCEPT ![i] = shown \/ i \in Command]
         /\ Unlock(i)
         /\ IF outcome \in {"rejected", "coalesced"}
              THEN UNCHANGED <<lane, suspended, wake, nav, epoch, disposed>>
              ELSE /\ lane' = [lane EXCEPT ![LaneOf[i]] = Append(@, i)]
                   /\ suspended' = (suspended /\ (i \in Command \/ ~immediate))
                   /\ UNCHANGED <<epoch, disposed, nav>>
                   /\ IF first \/ immediate \/ (LaneOf[i] = "steering" /\ running)
                        THEN Wake ELSE UNCHANGED wake
  /\ UNCHANGED <<ticket, transcript, pump, agent, busy, bounds>>

----------------------------------------------------------------------------
(* The pump *)

PumpStartUnchained ==
  /\ pending # <<>>
  /\ pump' = [Off EXCEPT !.at = "loop", !.epoch = Head(pending)]
  /\ pending' = Tail(pending)
  /\ requested' = FALSE
  /\ UNCHANGED <<store, ticket, transcript, gate, fence, nav, agent, busy, bounds>>

PumpStart ==
  /\ pump.at = "off"
  /\ pending # <<>>
  /\ pump' = [Off EXCEPT !.at = "loop", !.epoch = Head(pending)]
  /\ pending' = Tail(pending)
  /\ requested' = FALSE
  /\ UNCHANGED <<store, ticket, transcript, gate, fence, nav, agent, busy, bounds>>

\* Leaving the pump: it wakes a successor unless it was blocked or overtaken.
Leave(blocked) ==
  /\ pump' = Off
  /\ IF ~blocked /\ pump.epoch = epoch THEN Wake ELSE UNCHANGED wake

PumpLoop ==
  /\ pump.at = "loop"
  /\ UNCHANGED <<store, ticket, transcript, gate, fence, nav, agent, busy, bounds>>
  /\ IF disposed \/ ~Selectable
       THEN Leave(FALSE)
       ELSE pump' = [pump EXCEPT !.at = "idle"] /\ UNCHANGED wake

\* agent.waitForIdle() returned: an overtaken pump puts back what was preselected.
PumpIdle ==
  /\ pump.at = "idle"
  /\ ~running
  /\ UNCHANGED <<lane, visible, ticket, transcript, gate, fence, nav, agent, busy, bounds>>
  /\ IF pump.epoch # epoch
       THEN /\ Become({FirstIn("selected")}, "queued")
            /\ Leave(TRUE)
       ELSE /\ pump' = [pump EXCEPT !.at = "events", !.first = FirstIn("selected")]
            /\ UNCHANGED <<state, wake>>

Drained == ended = "none" \/ captured # {}
Deferred == pump.epoch # epoch \/ BusyForPump

\* In "all" mode the queued turns behind i go with it while their policies agree.
Alike(i, j) == j \notin Command /\ visible[j] = visible[i]
BatchFrom(i) ==
  {i} \cup {j \in InState({"queued"}) :
    /\ Batching /\ Ahead(i, j) /\ Alike(i, j)
    /\ \A k \in InState({"queued"}) : Ahead(i, k) /\ Ahead(k, j) => Alike(i, k)}

PumpSelectBlind ==
  /\ pump.at = "events"
  /\ Drained /\ ~Deferred
  /\ UNCHANGED <<lane, visible, ticket, transcript, wake, gate, fence, nav, agent,
       busy, bounds>>
  /\ LET i == IF pump.first # None THEN pump.first ELSE FirstIn("queued")
     IN  /\ pump' = [pump EXCEPT !.at = "prepare", !.batch = {i}]
         /\ Become({i}, "preparing")

PumpSelect ==
  /\ pump.at = "events"
  /\ Drained
  /\ UNCHANGED <<lane, visible, ticket, transcript, gate, nav, agent, busy, bounds>>
  /\ LET i == IF pump.first # None THEN pump.first ELSE FirstIn("queued")
     IN  IF Deferred \/ ~CanSelect
           THEN UNCHANGED <<state, fence>> /\ Leave(TRUE)
         ELSE IF i = None
           THEN UNCHANGED <<state, fence>> /\ Leave(FALSE)
         ELSE IF i \in Command
           THEN /\ pump' = [pump EXCEPT !.at = "commandFence", !.first = i]
                /\ Become({i} \cap InState({"queued"}), "selected")
                /\ Queue("pump")
                /\ UNCHANGED wake
         ELSE IF state[i] = "cancelled"
           \* a preselected turn was cleared meanwhile: the illegal transition throws
           THEN UNCHANGED <<state, fence>> /\ Leave(FALSE)
         ELSE LET batch == IF pump.first # None THEN {i} ELSE BatchFrom(i)
              IN  /\ pump' = [pump EXCEPT !.at = "prepare", !.batch = batch]
                  /\ Become(batch, "preparing")
                  /\ UNCHANGED <<fence, wake>>

\* The catch and finally blocks around a batch.
Turns == {i \in pump.batch : state[i] = "preparing"}
NextRound == IF pump.epoch # epoch THEN Leave(TRUE)
             ELSE pump' = [Off EXCEPT !.at = "loop", !.epoch = epoch] /\ UNCHANGED wake
GiveBack ==
  /\ Become(Turns, "queued")
  /\ IF Deferred THEN Leave(TRUE) ELSE NextRound
  /\ UNCHANGED <<lane, ticket>>
GiveUp ==
  /\ Become(Turns, "failed")
  /\ Release(Turns)
  /\ Deliver(Turns, "error") /\ Complete(Turns, "error")
  /\ NextRound

\* _prepareForCommit and the extensions' before_agent_start hooks are over.
PumpPrepare ==
  /\ pump.at = "prepare"
  /\ UNCHANGED <<visible, transcript, gate, nav, agent, busy, bounds>>
  /\ \/ /\ Deferred
        /\ GiveBack
        /\ UNCHANGED fence
     \/ /\ ~Deferred /\ Turns = {}
        /\ UNCHANGED <<lane, state, ticket, fence>>
        /\ NextRound
     \/ /\ ~Deferred /\ Turns # {}
        /\ GiveUp
        /\ UNCHANGED fence
     \/ /\ ~Deferred /\ Turns # {}
        /\ pump' = [pump EXCEPT !.at = "commit", !.turns = Turns]
        /\ Queue("pump")
        /\ UNCHANGED <<lane, state, ticket, wake>>

\* Under the fence: the last look before agent.prompt().
PumpCommit ==
  /\ pump.at = "commit"
  /\ Holds("pump")
  /\ UNCHANGED <<visible, transcript, gate, nav, ended, again, draining, busy, bounds>>
  /\ Unlock("pump")
  /\ IF Deferred \/ running \/ pump.turns # Turns
       THEN /\ GiveBack
            /\ UNCHANGED <<running, feed>>
       ELSE /\ Become(pump.turns, "committing")
            /\ pump' = [pump EXCEPT !.at = "dispatched"]
            /\ running' = TRUE
            /\ feed' = pump.turns
            /\ UNCHANGED <<lane, ticket, wake>>

\* The run, its retries and its events are over.
PumpSettle ==
  /\ pump.at = "dispatched"
  /\ ~running /\ "retry" \notin busy /\ Drained
  /\ UNCHANGED <<visible, delivery, transcript, gate, fence, nav, agent, busy, bounds>>
  /\ LET done == {i \in pump.batch :
                    state[i] = "running" \/ (state[i] = "committing" /\ i \in recorded)}
     IN  /\ Become(done, "completed")
         /\ Release(done)
         /\ Complete(done, "done")
  /\ NextRound

\* _executeSelectedSessionCommand
CommandBegin ==
  /\ pump.at = "commandFence"
  /\ Holds("pump")
  /\ UNCHANGED <<lane, visible, completion, recorded, captured, gate, nav, agent,
       busy, bounds>>
  /\ IF state[pump.first] = "cancelled"
       THEN UNCHANGED <<state, delivery, heard>> /\ Unlock("pump") /\ Leave(FALSE)
     ELSE IF Deferred \/ ~CanSelect
       THEN /\ Become({pump.first}, "queued")
            /\ UNCHANGED <<delivery, heard>>
            /\ Unlock("pump") /\ Leave(FALSE)
     ELSE /\ Become({pump.first}, "running")
          /\ Deliver({pump.first}, "not_applicable")
          /\ heard' = Append(heard, pump.first)
          /\ pump' = [pump EXCEPT !.at = "command"]
          /\ UNCHANGED <<fence, wake>>

CommandEnd ==
  /\ pump.at = "command"
  /\ UNCHANGED <<visible, delivery, transcript, gate, nav, agent, busy, bounds>>
  /\ \E result \in {"done", "error"} :
       /\ Become({pump.first}, IF result = "done" THEN "completed" ELSE "failed")
       /\ Complete({pump.first}, result)
  /\ Release({pump.first})
  /\ Unlock("pump")
  /\ Leave(FALSE)

PumpStep ==
  \/ PumpStart \/ PumpLoop \/ PumpIdle \/ PumpSelect \/ PumpPrepare
  \/ PumpCommit \/ PumpSettle \/ CommandBegin \/ CommandEnd

----------------------------------------------------------------------------
(* The agent and its events *)

\* message_start and message_end of the run's next message.
IsNext(i) == i \in feed /\ \A j \in feed \ {i} : Ahead(i, j)

MessageStartAnyway(i) ==
  /\ running
  /\ IsNext(i) /\ i \notin Elements(heard)
  /\ heard' = Append(heard, i)
  /\ UNCHANGED <<store, ticket, recorded, captured, pump, wake, gate, fence, nav,
       agent, busy, bounds>>

MessageStart(i) ==
  /\ running
  /\ IsNext(i) /\ i \notin Elements(heard) /\ state[i] # "cancelled"
  /\ heard' = Append(heard, i)
  /\ IF disposed THEN UNCHANGED delivery ELSE Deliver({i}, "delivered")
  /\ UNCHANGED <<store, completion, recorded, captured, pump, wake, gate, fence,
       nav, agent, busy, bounds>>

MessageEnd(i) ==
  /\ running
  /\ IsNext(i) /\ (i \in Elements(heard) \/ state[i] = "cancelled")
  /\ recorded' = recorded \cup {i}
  /\ feed' = feed \ {i}
  /\ IF state[i] = "committing" /\ ~disposed
       THEN Become({i}, "running") ELSE UNCHANGED state
  /\ UNCHANGED <<lane, visible, ticket, heard, captured, pump, wake, gate, fence,
       nav, running, ended, again, draining, busy, bounds>>

\* agent_end: what a cancelled dispatch left in the transcript goes, and a
\* retryable failure sets the retry promise at once.
RunEnd ==
  /\ running /\ feed = {}
  /\ running' = FALSE
  /\ recorded' = IF disposed THEN recorded ELSE recorded \ captured
  /\ \E outcome \in {"done", "retry", "overflow"} :
       /\ outcome = "done" \/ (reruns < MaxReruns /\ captured = {} /\ ~disposed)
       /\ reruns' = reruns + (IF outcome = "done" THEN 0 ELSE 1)
       /\ ended' = IF disposed THEN ended ELSE outcome
       /\ busy' = busy \cup ({"retry"} \cap {outcome})
  /\ UNCHANGED <<store, ticket, heard, captured, pump, wake, gate, fence, nav,
       feed, again, draining, interrupts>>

\* _handleRetryableError: the promise is made again if an abort resolved it.
RetryBackoff ==
  /\ ended = "retry"
  /\ ended' = "backoff"
  /\ busy' = busy \cup {"retry"}
  /\ UNCHANGED <<store, ticket, transcript, pump, wake, gate, fence, nav, running,
       feed, again, draining, bounds>>

RetryDue ==
  /\ ended = "backoff"
  /\ ended' = "none"
  /\ again' = "retry"
  /\ UNCHANGED <<store, ticket, transcript, pump, wake, gate, fence, nav, running,
       feed, draining, busy, bounds>>

\* _processAgentEvent(agent_end) releases cancelled dispatches and _resolveRetry.
EventEnd ==
  /\ ended = "done"
  /\ UNCHANGED <<state, visible, ticket, heard, recorded, pump, gate, fence, nav,
       running, feed, again, draining, bounds>>
  /\ Release(captured)
  /\ captured' = {}
  /\ ended' = "none"
  /\ busy' = busy \ {"retry"}
  /\ IF "retry" \in busy THEN Wake ELSE UNCHANGED wake

\* _runAutoCompaction, inside the same event.
CompactionStart ==
  /\ ended = "overflow"
  /\ ended' = "compacting"
  /\ busy' = busy \cup {"compaction"}
  /\ UNCHANGED <<store, ticket, transcript, pump, wake, gate, fence, nav, running,
       feed, again, draining, bounds>>

CompactionEnd ==
  /\ ended \in {"compacting", "cancelling"}
  /\ UNCHANGED <<store, ticket, transcript, pump, gate, fence, nav, running, feed,
       draining, bounds>>
  /\ again' \in {again} \cup (IF ended = "compacting" /\ again = "none" THEN {"timer"} ELSE {})
  /\ ended' = "done"
  /\ busy' = busy \ {"compaction"}
  /\ Wake

RetryTimer ==
  /\ again = "retry"
  /\ again' = "none"
  /\ running' = TRUE
  /\ UNCHANGED <<store, ticket, transcript, pump, wake, gate, fence, nav, feed,
       ended, draining, busy, bounds>>

\* _runScheduledPostCompactionContinue: with work owned it wakes the pump and
\* waits for it, otherwise it continues the agent.
ContinueTimer ==
  /\ again = "timer"
  /\ ~running /\ busy \cap {"compaction", "retry"} = {} /\ ~Paused
  /\ UNCHANGED <<store, ticket, transcript, pump, gate, fence, nav, feed, ended,
       draining, busy, bounds>>
  /\ IF Unfinished # {} \/ requested
       THEN again' = "pump" /\ UNCHANGED running /\ Wake
       ELSE again' = "none" /\ running' = TRUE /\ UNCHANGED wake

ContinueLater ==
  /\ again = "pump"
  /\ pump.at = "off" /\ pending = <<>>
  /\ again' = IF Unfinished # {} THEN "timer" ELSE "none"
  /\ UNCHANGED <<store, ticket, transcript, pump, wake, gate, fence, nav, running,
       feed, ended, draining, busy, bounds>>

AgentStep ==
  \/ \E i \in Input : MessageStart(i) \/ MessageEnd(i)
  \/ RunEnd \/ RetryBackoff \/ RetryDue \/ EventEnd \/ CompactionStart
  \/ CompactionEnd \/ RetryTimer \/ ContinueTimer \/ ContinueLater

----------------------------------------------------------------------------
(* Tree navigation: a pause and the fence, until the session is quiet *)

Cancelled(a) == IF a = "retry" THEN a ELSE "none"  \* _cancelPostCompactionContinue

NavigateBegin(n) ==
  /\ nav[n] = "off" /\ ~disposed
  /\ \A m \in Navigator : nav[m] \in {"off", "done"}
  /\ nav' = [nav EXCEPT ![n] = "fence"]
  /\ requested' = FALSE
  /\ epoch' = epoch + 1
  /\ Queue(n)
  /\ UNCHANGED <<store, ticket, transcript, pump, pending, suspended, disposed,
       agent, busy, bounds>>

NavigateFence(n) ==
  /\ nav[n] = "fence"
  /\ Holds(n)
  /\ nav' = [nav EXCEPT ![n] = "settle"]
  /\ UNCHANGED <<store, ticket, transcript, pump, wake, gate, fence, agent, busy,
       bounds>>

NavigateAtOnce(n) ==
  /\ nav[n] = "settle"
  /\ nav' = [nav EXCEPT ![n] = "work"]
  /\ again' = Cancelled(again)
  /\ UNCHANGED <<store, ticket, transcript, pump, wake, gate, fence, running, feed,
       ended, draining, busy, bounds>>

\* agent.waitForIdle() and the event queue are over: the branch may change.
NavigateSettle(n) ==
  /\ nav[n] = "settle"
  /\ ~running /\ ended = "none"
  /\ nav' = [nav EXCEPT ![n] = "work"]
  /\ again' = Cancelled(again)
  /\ UNCHANGED <<store, ticket, transcript, pump, wake, gate, fence, running, feed,
       ended, draining, busy, bounds>>

NavigateEnd(n) ==
  /\ nav[n] = "work"
  /\ UNCHANGED <<store, ticket, transcript, pump, gate, agent, busy, bounds>>
  /\ nav' = [nav EXCEPT ![n] = "done"]
  /\ Unlock(n)
  /\ Wake

Navigate(n) ==
  NavigateBegin(n) \/ NavigateFence(n) \/ NavigateSettle(n) \/ NavigateEnd(n)

----------------------------------------------------------------------------
(* The user *)

Interrupt == interrupts < MaxInterrupts /\ interrupts' = interrupts + 1

\* requestAbort: hidden prompts go, the rest stays until the queue is resumed.
Abort ==
  /\ Interrupt /\ ~disposed
  /\ Cancel({i \in Clearable \ Command : ~visible[i]})
  /\ requested' = FALSE
  /\ epoch' = epoch + 1
  /\ suspended' = TRUE
  /\ again' = Cancelled(again)
  /\ busy' = busy \ {"retry"}
  /\ ended' = CASE ended = "backoff" -> "done" [] ended = "compacting" -> "cancelling"
                [] OTHER -> ended
  /\ UNCHANGED <<visible, heard, recorded, pump, pending, disposed, fence, nav,
       running, feed, draining, reruns>>

\* resumeQueuedWork
Resume ==
  /\ suspended /\ ~disposed
  /\ UNCHANGED <<store, ticket, transcript, pump, epoch, disposed, fence, nav,
       agent, busy, bounds>>
  /\ suspended' = FALSE
  /\ Wake

ClearQueue ==
  LET S == {i \in Clearable : i \in Command \/ visible[i]}
  IN  /\ Interrupt /\ ~disposed
      /\ S # {}
      /\ epoch' = epoch + (IF \E i \in S \ Command : state[i] = "preparing" THEN 1 ELSE 0)
      /\ Cancel(S)
      /\ UNCHANGED <<visible, heard, recorded, pump, wake, suspended, disposed,
           fence, nav, agent, busy, reruns>>

\* mutateQueuedMessage acts on what is shown as queued.
Shown(i) == state[i] = "queued" /\ visible[i]

Delete(i) ==
  /\ Interrupt /\ ~disposed
  /\ Shown(i)
  /\ UNCHANGED <<visible, heard, recorded, pump, epoch, disposed, fence, nav,
       agent, busy, reruns>>
  /\ Cancel({i})
  /\ suspended' = FALSE
  /\ Wake

Move(i) ==
  /\ Interrupt /\ ~disposed
  /\ Shown(i) /\ i \notin Keyed
  /\ UNCHANGED <<state, visible, ticket, transcript, pump, epoch, disposed, fence,
       nav, agent, busy, reruns>>
  /\ \E l \in Lane :
       /\ i \notin Elements(lane[l])
       /\ lane' = [m \in Lane |-> IF m = l THEN Append(lane[l], i)
                                  ELSE Without(lane[m], {i})]
  /\ suspended' = FALSE
  /\ Wake

Swap(l, a, b) ==
  /\ Interrupt /\ ~disposed
  /\ a < b /\ Shown(lane[l][a]) /\ Shown(lane[l][b])
  /\ \A c \in (a + 1)..(b - 1) : ~Shown(lane[l][c])
  /\ lane' = [lane EXCEPT ![l][a] = lane[l][b], ![l][b] = lane[l][a]]
  /\ UNCHANGED <<state, visible, ticket, transcript, pump, wake, gate, fence, nav,
       agent, busy, reruns>>

\* clearQueuedUserMessagesMatching for one agent message: a dispatched one is
\* still withdrawn while it is alone and its message has not started.
Withdraw(i) ==
  /\ Interrupt /\ ~disposed
  /\ i \notin Command
  /\ \/ i \in Clearable
     \/ /\ state[i] = "committing" /\ i \notin Elements(heard)
        /\ InState({"committing", "running"}) \ Command = {i}
  /\ Cancel({i})
  /\ UNCHANGED <<visible, heard, recorded, pump, wake, gate, fence, nav, agent,
       busy, reruns>>

BashStart ==
  /\ Interrupt /\ ~disposed
  /\ "bash" \notin busy
  /\ busy' = busy \cup {"bash"}
  /\ UNCHANGED <<store, ticket, transcript, pump, wake, gate, fence, nav, agent, reruns>>

BashEnd ==
  /\ "bash" \in busy
  /\ busy' = busy \ {"bash"}
  /\ draining' = TRUE
  /\ UNCHANGED <<store, ticket, transcript, pump, wake, gate, fence, nav, running,
       feed, ended, again, bounds>>

DrainSilently ==
  /\ draining /\ ~running
  /\ draining' = FALSE
  /\ UNCHANGED <<store, ticket, transcript, pump, wake, gate, fence, nav, running,
       feed, ended, again, busy, bounds>>

\* _drainQueuedMessagesAfterBash
Drain ==
  /\ draining /\ ~running
  /\ draining' = FALSE
  /\ UNCHANGED <<store, ticket, transcript, pump, gate, fence, nav, running, feed,
       ended, again, busy, bounds>>
  /\ Wake

\* dispose: what is not dispatched is cancelled, waiters are turned away.
Dispose ==
  /\ ~disposed
  /\ disposed' = TRUE
  /\ LET waiters == {i \in Input : state[i] = "waiting" \/ (state[i] = "fenced" /\ ~Holds(i))}
         barred == {n \in Navigator : nav[n] = "fence" /\ ~Holds(n)}
     IN  /\ state' = [i \in Input |-> IF i \in waiters THEN "rejected"
                                      ELSE IF i \in Clearable THEN "cancelled" ELSE state[i]]
         /\ nav' = [n \in Navigator |-> IF n \in barred THEN "done" ELSE nav[n]]
  /\ Release(Clearable)
  /\ RejectTickets(Clearable)
  /\ again' = Cancelled(again)
  /\ UNCHANGED <<visible, transcript, pump, wake, epoch, suspended, fence, running,
       feed, ended, draining, busy, bounds>>

UserStep ==
  \/ Abort \/ Resume \/ ClearQueue \/ BashStart \/ Dispose
  \/ \E i \in Input : Delete(i) \/ Move(i) \/ Withdraw(i)
  \/ \E l \in Lane : \E a, b \in DOMAIN lane[l] : Swap(l, a, b)

PromptStep(i) == Submit(i) \/ AwaitFence(i) \/ TakeFence(i) \/ Admit(i) \/ CancelPrompt(i)

Next ==
  \/ \E i \in Input : PromptStep(i)
  \/ FenceSkip
  \/ PumpStep
  \/ AgentStep
  \/ \E n \in Navigator : Navigate(n)
  \/ BashEnd \/ Drain
  \/ UserStep

Spec == Init /\ [][Next]_vars

\* A promise whose condition holds runs on: the event loop is fair to what has
\* begun, and never to the user.
Fairness ==
  /\ \A i \in Input : WF_vars(AwaitFence(i)) /\ WF_vars(TakeFence(i)) /\ WF_vars(Admit(i))
  /\ WF_vars(FenceSkip) /\ WF_vars(PumpStep) /\ WF_vars(AgentStep)
  /\ \A n \in Navigator : WF_vars(NavigateFence(n) \/ NavigateSettle(n) \/ NavigateEnd(n))
  /\ WF_vars(BashEnd) /\ WF_vars(Drain)

LiveSpec == Spec /\ Fairness

----------------------------------------------------------------------------
(* Properties *)

\* One pump, one dispatch: the turns in the agent's hands are those of the
\* pump's batch, and a command runs alone and under the fence.
OneDispatch ==
  /\ InState({"committing", "running"}) \ Command \subseteq
       (IF pump.at = "dispatched" THEN pump.batch ELSE {})
  /\ InState({"running"}) \cap Command \subseteq
       (IF pump.at = "command" /\ Holds("pump") THEN {pump.first} ELSE {})

\* Branch navigation works alone: no command of the queue runs and no run is in
\* progress, but for one that the automatic retry starts.
NavigationHeld ==
  \A n \in Navigator : nav[n] = "work" /\ ~disposed =>
    /\ Holds(n) /\ pump.at # "command"
    /\ running => feed = {} /\ InState({"committing"}) \ Command = {}

\* A prompt that was taken back while the agent had it is not in the transcript
\* once the run is over.  Two cases are left out: with two of them the pending
\* end of the first run may give up the capture of the second, and so may the
\* end of a retry that an abort was too late to stop.
OthersCancelled(i) == \E j \in Input \ {i} : state[j] = "cancelled"
Slipped == epoch # 0 /\ reruns # 0
TakenBack ==
  ~running /\ ~disposed => \A i \in recorded : state[i] = "cancelled" =>
    OthersCancelled(i) \/ Slipped

\* What the caller was told agrees with what the agent was given.
Truthful ==
  \A i \in Input :
    /\ delivery[i] = "delivered" => i \in Elements(heard)
    /\ completion[i] = "done" => i \in Elements(heard)
    /\ i \in Elements(heard) => delivery[i] # "error"

----------------------------------------------------------------------------
(* Why they hold: the inductive invariant *)

Turn == Input \ Command

\* Who relies on the commit fence has it.
FenceKept ==
  /\ \A n \in Navigator : nav[n] \in {"settle", "work"} => Holds(n)
  /\ pump.at = "command" => Holds("pump")

\* What the pump remembers across its awaits is still there, or was cancelled.
PumpKept ==
  /\ pump.batch \subseteq Turn
  /\ pump.at \in {"events", "commandFence"} =>
       pump.first = None \/ state[pump.first] \in {"selected", "cancelled"}
  /\ pump.at \in {"commandFence", "command"} => pump.first \in Command
  /\ pump.at = "command" => state[pump.first] = "running"
  /\ pump.at \in {"prepare", "commit"} =>
       pump.batch # {} /\ \A i \in pump.batch : state[i] \in {"preparing", "cancelled"}

\* A dispatched turn is in the run's hands until its message is recorded.
FeedKept ==
  /\ ~running => feed = {}
  /\ \A i \in feed : i \in Turn /\ state[i] \in {"committing", "cancelled"}
  /\ \A i \in Turn : state[i] = "committing" => i \in feed \/ (disposed /\ i \in recorded)
  /\ \A n \in Navigator : nav[n] = "work" => feed = {}

\* States, messages and tickets agree.
HeardKept ==
  /\ \A i \in Turn : i \in Elements(heard) => state[i] \in {"committing", "running", "completed"}
  /\ \A i \in Turn : state[i] = "running" => i \in Elements(heard)
  /\ \A i \in recorded :
       /\ i \in Turn
       /\ state[i] \in {"running", "completed", "cancelled"} \/ (disposed /\ state[i] = "committing")
       /\ state[i] # "cancelled" => i \in Elements(heard)
  /\ pump.at = "command" => pump.first \in Elements(heard)
  /\ \A i \in Input : delivery[i] = "error" => i \in Turn /\ state[i] \in {"cancelled", "failed"}

\* Between a failed run and its retry nothing is dispatched, unless aborted.
RetryKept ==
  again = "retry" \/ ended \in {"retry", "backoff"} =>
    /\ reruns # 0
    /\ epoch # 0 \/ ( /\ ~running /\ "retry" \in busy
                      /\ again = "retry" => ended = "none")

\* A capture is given up by the end of its own run, or by that of an earlier
\* one, which is only pending if it had a capture too.
CaptureKept ==
  /\ \A i \in captured : state[i] = "cancelled"
  /\ pump.at \in {"prepare", "commit"} =>
       \/ Slipped \/ InState({"cancelled"}) # {}
       \/ ended = "none" /\ again # "retry" /\ ~running
  /\ feed # {} /\ ended # "none" => Slipped \/ InState({"cancelled"}) \ feed # {}
  /\ ~disposed =>
       /\ ~running => recorded \cap captured = {}
       /\ \A i \in recorded \cup feed :
            /\ state[i] = "cancelled" => i \in captured \/ OthersCancelled(i) \/ Slipped
            /\ running /\ ended # "none" /\ i \in captured => OthersCancelled(i) \/ Slipped

\* Every action the session owes something is in one lane, once.
LaneKept ==
  /\ lane \in [Lane -> Seq(Input)]
  /\ \A l, m \in Lane : \A a \in DOMAIN lane[l], b \in DOMAIN lane[m] :
       lane[l][a] = lane[m][b] => l = m /\ a = b
  /\ Unfinished \subseteq In("steering") \cup In("followUp")
  /\ \A l \in Lane : In(l) \subseteq Unfinished \cup InState({"cancelled"})

\* What only the pump brings about, and slash commands never see the agent.
StageKept ==
  /\ InState({"preparing"}) \subseteq
       (IF pump.at \in {"prepare", "commit"} THEN pump.batch ELSE {})
  /\ InState({"committing"}) \subseteq Turn
  /\ \A i \in Command : i \in Elements(heard) => state[i] \in {"running", "completed", "failed"}

\* What an idle session accepted and no pump has taken up yet.
Aside == InState({"selected"}) \ (IF pump.at = "commandFence" THEN {pump.first} ELSE {})

\* Nothing waits in front of what has been taken out of the queue.
OrderKept ==
  /\ \A i \in Aside, j \in Unfinished : ~Ahead(j, i)
  /\ \A i \in InState({"selected", "preparing", "committing"}), j \in InState({"queued"}) :
       ~Ahead(j, i)

CoreInv ==
  /\ TypeOK /\ FenceKept /\ PumpKept /\ OneDispatch /\ FeedKept /\ HeardKept
  /\ Truthful /\ RetryKept /\ CaptureKept
IInv == CoreInv /\ LaneKept /\ StageKept /\ OrderKept

----------------------------------------------------------------------------
(* Refinement and liveness *)

\* The session keeps the promise of Delivery; what prompt() found the session
\* idle for is set aside until a pump takes it.
D == INSTANCE Delivery WITH
  Input <- Input,
  Lane <- Lane,
  queue <- [l \in Lane |-> Only(lane[l], Live)],
  aside <- Aside,
  delivered <- heard,
  dropped <- InState({"cancelled", "failed"}) \ Elements(heard)
Promise == D!Spec

\* A prompt whose caller waits for it is answered, whatever runs, retries,
\* compactions, shell commands and withdrawals come in between, as long as no
\* pause, abort or clearing overtakes a pump.
Awaited(i) == i \in Unfinished /\ ~visible[i]
PromptsSettle ==
  \A i \in Input : Awaited(i) ~> completion[i] # "open" \/ disposed \/ epoch # 0

\* The same when pumps are overtaken, unless the queue is left suspended.
PromptsAlwaysSettle ==
  \A i \in Input : Awaited(i) ~> completion[i] # "open" \/ disposed \/ suspended
=============================================================================
