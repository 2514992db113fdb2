---------------------------- MODULE UpdateRestart ----------------------------
(***************************************************************************)
(* The replacement of a running daemon by a new version.  A coordinator    *)
(* asks the supervisor to prepare; the supervisor drains its mutations,    *)
(* has every resident worker make a checkpoint of its session and queue,   *)
(* writes all of them into one manifest, and only then has the workers     *)
(* close and stops them.  The coordinator shuts the daemon down, starts    *)
(* its successor and restores the sessions of the manifest.                *)
(*                                                                         *)
(* A worker holds one session.  An input is a prompt for it, an abort      *)
(* (Urgent), a scheduled job, or the command that creates the session.     *)
(* Connections break, requests time out, workers give up at their own      *)
(* deadline, and the coordinator may die at every step.                    *)
(***************************************************************************)
EXTENDS Naturals, FiniteSets

CONSTANTS
  Worker, Resident,    \* all workers, and those that run at first
  Input, Of,           \* the inputs, and the worker each one is for
  Creation,            \* the commands that create their worker
  Urgent,              \* UPDATE_RESTART_DRAIN_COMMANDS
  Scheduled,           \* the jobs of a worker's cron scheduler
  MaxFaults,           \* connections that break, coordinators that die
  MaxCoordinators      \* how many coordinators run, one after the other

ASSUME UpdateAssumption ==
  /\ Resident \subseteq Worker
  /\ Of \in [Input -> Worker]
  /\ Creation \subseteq Input /\ Urgent \subseteq Input /\ Scheduled \subseteq Input
  /\ \A i \in Creation : Of[i] \notin Resident /\ i \notin Urgent \cup Scheduled
  /\ Urgent \cap Scheduled = {}
  /\ MaxFaults \in Nat /\ MaxCoordinators \in Nat

VARIABLES
  place,     \* where each input is
  runs,      \* how often it was run
  phase,     \* updateRestartPhase, and how far prepareUpdateRestart has come
  fence,     \* idleEvictionFence is set
  at,        \* each worker and the phase of its update transaction
  claim,     \* the worker still holds the connection that owns the transaction
  client,    \* that connection as the supervisor sees it
  mail,      \* the request on its way to the worker
  ack,       \* what became of the request of the present round
  taken,     \* the checkpoint the worker made last
  spoiled,   \* the workers that dropped a checkpoint of the manifest unasked
  file,      \* the sessions in the manifest on disk
  daemon,    \* the daemon runs
  coord,     \* the step of the coordinator
  todo,      \* the sessions it has still to restore
  reported,  \* those it reported as not restored
  warned,    \* inputs a restored session did not take back, with a line on stderr
  discarded, \* those it gave up by removing an older manifest or by a shutdown
  faults, coordinators

inputs == <<place, runs>>
supervisor == <<phase, fence, mail, ack>>
workers == <<at, claim, client, taken, spoiled>>
coordinator == <<file, daemon, coord, todo, reported, warned, discarded>>
bounds == <<faults, coordinators>>
vars == <<inputs, supervisor, workers, coordinator, bounds>>
-----------------------------------------------------------------------------
InPlace(w, S) == {i \in Input : Of[i] = w /\ place[i] \in S}
Queue(w) == InPlace(w, {"queued"})
AtWork(w) == InPlace(w, {"landing", "alone"})       \* the worker's mutationDrain
Active == {i \in Input : place[i] \in {"sent", "landing"}}
Resides(w) == at[w] \notin {"absent", "gone"}
Asked == {w \in Worker : ack[w] # "none"}
Bound(w) == claim[w] /\ client[w] = "bound"

Put(S, p) == place' = [i \in Input |-> IF i \in S THEN p ELSE place[i]]
Answer(w, a) == ack' = [ack EXCEPT ![w] = IF @ = "work" /\ Bound(w) THEN a ELSE @]
Idle == [w \in Worker |-> "none"]
Request(S, m, reach) ==
  /\ mail' = [w \in Worker |-> IF w \in reach THEN m ELSE mail[w]]
  /\ ack' = [w \in Worker |-> IF w \in S THEN "wait" ELSE "none"]

TypeOK ==
  /\ place \in [Input -> {"new", "held", "sent", "landing", "alone", "queued", "ran",
                          "refused", "parked", "dropped"}]
  /\ runs \in [Input -> Nat]
  /\ phase \in {"none", "held", "draining", "passed", "fencing", "asking", "cancelling",
                "committing", "stopping", "prepared"}
  /\ at \in [Worker -> {"absent", "idle", "preparing", "fencing", "prepared",
                        "publishing", "unfinished", "closed", "gone"}]
  /\ client \in [Worker -> {"new", "bound", "lost"}]
  /\ ack \in [Worker -> {"none", "wait", "work", "ok", "no"}]
  /\ mail \in [Worker -> {"none", "prepare", "commit"}]
  /\ taken \in [Worker -> SUBSET Input]
  /\ {fence, daemon} \subseteq BOOLEAN /\ claim \in [Worker -> BOOLEAN]
  /\ spoiled \subseteq Worker /\ file \subseteq Worker
  /\ todo \subseteq Worker /\ reported \subseteq Worker /\ discarded \subseteq Worker
  /\ warned \subseteq Input
  /\ coord \in {"off", "waiting", "refused", "stop", "refit", "start", "restore", "done", "failed"}
  /\ faults \in Nat /\ coordinators \in Nat

Init ==
  /\ place = [i \in Input |-> "new"] /\ runs = [i \in Input |-> 0]
  /\ phase = "none" /\ fence = FALSE
  /\ at = [w \in Worker |-> IF w \in Resident THEN "idle" ELSE "absent"]
  /\ claim = [w \in Worker |-> FALSE]
  /\ client = [w \in Worker |-> IF w \in Resident THEN "new" ELSE "lost"]
  /\ mail = Idle /\ ack = Idle /\ taken = [w \in Worker |-> {}]
  /\ spoiled = {} /\ file = {} /\ todo = {}
  /\ reported = {} /\ warned = {} /\ discarded = {}
  /\ daemon = TRUE /\ coord = "off" /\ faults = 0 /\ coordinators = 0
-----------------------------------------------------------------------------
(***************************************************************************)
(* Inputs.  The supervisor looks at the phase of the update, waits for a   *)
(* sweep of idle workers to end, and counts the command until its answer.  *)
(***************************************************************************)
RejectedDraining(i) == phase \in {"draining", "passed"} /\ i \notin Urgent
Rejected(i) ==
  RejectedDraining(i) \/ phase \notin {"none", "held", "draining", "passed"}

Send(i) ==
  /\ place[i] = "new" /\ i \notin Scheduled /\ daemon
  /\ Put({i}, IF Rejected(i) THEN "refused"
              ELSE IF fence /\ i \notin Urgent THEN "held" ELSE "sent")
  /\ UNCHANGED <<runs, supervisor, workers, coordinator, bounds>>

\* The worker of a session that is already open serves; nothing is created.
Create(i) ==
  /\ place[i] = "sent" /\ i \in Creation
  /\ LET w == Of[i] IN
     IF Resides(w) THEN Put({i}, "refused") /\ UNCHANGED <<at, client>>
     ELSE /\ Put({i}, "queued")
          /\ at' = [at EXCEPT ![w] = "idle"] /\ client' = [client EXCEPT ![w] = "new"]
  /\ UNCHANGED <<runs, supervisor, claim, taken, spoiled, coordinator, bounds>>

\* The worker has a gate of its own, which lets aborts through until it fences.
Land(i) ==
  /\ place[i] = "sent" /\ i \notin Creation
  /\ LET w == Of[i]
         open == client[w] # "lost" /\
                   (at[w] = "idle" \/ (at[w] = "preparing" /\ i \in Urgent))
     IN Put({i}, IF open THEN "landing" ELSE "refused")
  /\ UNCHANGED <<runs, supervisor, workers, coordinator, bounds>>

\* A scheduled job is dispatched by the worker itself; the scheduler stands still
\* while an update is prepared.
FireWhileServing(i) ==
  /\ place[i] = "new" /\ i \in Scheduled /\ Resides(Of[i])
  /\ Put({i}, "alone")
  /\ UNCHANGED <<runs, supervisor, workers, coordinator, bounds>>

Fire(i) == at[Of[i]] = "idle" /\ FireWhileServing(i)

Finish(i) ==
  /\ place[i] \in {"landing", "alone"} /\ Resides(Of[i])
  /\ Put({i}, IF i \in Urgent THEN "ran" ELSE "queued")
  /\ UNCHANGED <<runs, supervisor, workers, coordinator, bounds>>

\* The session runs what it has queued until the checkpoint pauses it.
Run(i) ==
  /\ place[i] = "queued" /\ i \notin Creation
  /\ at[Of[i]] \in {"idle", "preparing", "fencing"}
  /\ Put({i}, "ran") /\ runs' = [runs EXCEPT ![i] = @ + 1]
  /\ UNCHANGED <<supervisor, workers, coordinator, bounds>>

\* The sweep holds new mutations back.  Those it held are past the gate and begin
\* when it ends; a preparation that was held with them may have looked first.
SweepBegin ==
  /\ ~fence /\ phase = "none" /\ daemon
  /\ fence' = TRUE
  /\ UNCHANGED <<inputs, phase, mail, ack, workers, coordinator, bounds>>

SweepEnd ==
  /\ fence /\ fence' = FALSE
  /\ Put({i \in Input : place[i] = "held"}, "sent")
  /\ IF phase = "held"
     THEN phase' = "draining" \/ (Active = {} /\ phase' = "passed")
     ELSE UNCHANGED phase
  /\ UNCHANGED <<runs, mail, ack, workers, coordinator, bounds>>

InputStep ==
  \/ SweepBegin \/ SweepEnd
  \/ \E i \in Input : Send(i) \/ Create(i) \/ Land(i) \/ Fire(i) \/ Finish(i) \/ Run(i)
-----------------------------------------------------------------------------
(***************************************************************************)
(* The supervisor: prepareUpdateRestart.                                   *)
(***************************************************************************)
Settled == \A w \in Worker : ack[w] \notin {"wait", "work"}
Refusal == \E w \in Worker : ack[w] = "no"

Fail ==
  /\ phase' = "none" /\ ack' = Idle
  /\ coord' = IF coord = "waiting" THEN "refused" ELSE coord
  /\ UNCHANGED <<inputs, fence, mail, workers, file, daemon, todo, reported, warned, discarded, bounds>>

\* The first wait lets aborts finish what is under way, the second finds what was
\* held at the gate when the first began.
Drain ==
  /\ phase = "draining" /\ Active = {}
  /\ phase' = "passed"
  /\ UNCHANGED <<inputs, fence, mail, ack, workers, coordinator, bounds>>

Fence ==
  /\ phase = "passed"
  /\ phase' = "fencing"
  /\ UNCHANGED <<inputs, fence, mail, ack, workers, coordinator, bounds>>

DrainTimeout == phase \in {"draining", "fencing"} /\ Active # {} /\ Fail

AskResidents ==
  LET residents == {w \in Worker : Resides(w)} IN
  /\ \A w \in residents : client[w] # "lost"
  /\ Request(residents, "prepare", residents)
  /\ claim' = [w \in Worker |-> w \in residents]
  /\ client' = [w \in Worker |-> IF w \in residents THEN "bound" ELSE client[w]]
  /\ phase' = "asking"
  /\ UNCHANGED <<inputs, fence, at, taken, spoiled, coordinator, bounds>>

AskUndrained == phase = "fencing" /\ AskResidents
Ask == phase = "fencing" /\ Active = {} /\ AskResidents

Unavailable ==
  /\ phase = "fencing" /\ Active = {}
  /\ \E w \in Worker : Resides(w) /\ client[w] = "lost"
  /\ Fail

\* The clock of the request runs out; the worker may still be on it.
RequestTimeout(w) ==
  /\ phase \in {"asking", "committing"} /\ ack[w] \in {"wait", "work"}
  /\ ack' = [ack EXCEPT ![w] = "no"]
  /\ UNCHANGED <<inputs, phase, fence, mail, workers, coordinator, bounds>>

\* A worker refused or did not answer, or its connection is not the one it was
\* prepared through, or the manifest is invalid or cannot be written: those that did
\* answer are released.
Stale(w) == client[w] # "bound"
PrepareFailed ==
  /\ phase = "asking" /\ Settled
  /\ phase' = "cancelling"
  /\ UNCHANGED <<inputs, fence, mail, ack, workers, coordinator, bounds>>

\* A worker that let its checkpoint go without telling is only found out later.
PersistAll ==
  /\ phase = "asking" /\ Settled /\ ~Refusal
  /\ file' = Asked
  /\ spoiled' = spoiled \cup {w \in Asked : client[w] = "bound" /\ at[w] # "prepared"}
  /\ Request(Asked, "commit", {w \in Asked : claim[w]})
  /\ phase' = "committing"
  /\ UNCHANGED <<inputs, fence, at, claim, client, taken, daemon, coord, todo, reported,
                 warned, discarded, bounds>>

Persist == (\A w \in Asked : ~Stale(w)) /\ PersistAll

CancelWorker(w) ==
  /\ phase = "cancelling" /\ ack[w] = "ok"
  /\ ack' = [ack EXCEPT ![w] = "none"]
  /\ \/ /\ Bound(w)
        /\ at' = [at EXCEPT ![w] = IF @ = "prepared" THEN "idle" ELSE @]
        /\ UNCHANGED client
     \/ client' = [client EXCEPT ![w] = "lost"] /\ UNCHANGED at
  /\ UNCHANGED <<inputs, phase, fence, mail, claim, taken, spoiled, coordinator, bounds>>

Cancelled == phase = "cancelling" /\ (\A w \in Worker : ack[w] # "ok") /\ Fail

Committed ==
  /\ phase = "committing" /\ Settled
  /\ phase' = "stopping"
  /\ UNCHANGED <<inputs, fence, mail, ack, workers, coordinator, bounds>>

\* The process ends; what its session had is in the checkpoint or lost, and the
\* commands of "cut" lose their connection.
Halt(S, cut) ==
  /\ at' = [w \in Worker |-> IF w \in S THEN "gone" ELSE at[w]]
  /\ client' = [w \in Worker |-> IF w \in S THEN "lost" ELSE client[w]]
  /\ claim' = [w \in Worker |-> w \notin S /\ claim[w]]
  /\ mail' = [w \in Worker |-> IF w \in S THEN "none" ELSE mail[w]]
  /\ place' = [i \in Input |->
       IF Of[i] \in S /\ place[i] \in {"landing", "alone", "queued"}
       THEN IF i \in taken[Of[i]] THEN "parked" ELSE "dropped"
       ELSE IF place[i] \in cut THEN "refused" ELSE place[i]]

StopWorker(w) ==
  /\ phase = "stopping" /\ w \in Asked /\ Resides(w)
  /\ Halt({w}, {})
  /\ UNCHANGED <<runs, phase, fence, ack, taken, spoiled, coordinator, bounds>>

PreparedEarly ==
  /\ phase = "stopping"
  /\ phase' = "prepared" /\ ack' = Idle
  /\ coord' = IF coord = "waiting" THEN "stop" ELSE coord
  /\ UNCHANGED <<inputs, fence, mail, workers, file, daemon, todo, reported, warned, discarded, bounds>>

Prepared == (\A w \in Asked : ~Resides(w)) /\ PreparedEarly

SupervisorStep ==
  \/ Drain \/ Fence \/ DrainTimeout \/ Ask \/ Unavailable \/ PrepareFailed \/ Persist
  \/ Cancelled \/ Committed \/ Prepared
  \/ \E w \in Worker : RequestTimeout(w) \/ CancelWorker(w) \/ StopWorker(w)
-----------------------------------------------------------------------------
(***************************************************************************)
(* The worker: one update transaction, owned by the connection that began  *)
(* it and bounded by a deadline.                                           *)
(***************************************************************************)
Fault == faults < MaxFaults /\ faults' = faults + 1

\* A checkpoint of the manifest is given up unasked.
Spoil(w) == spoiled' = IF phase \in {"committing", "stopping"} THEN spoiled \cup {w}
                       ELSE spoiled

Move(w, from, to) == at[w] = from /\ at' = [at EXCEPT ![w] = to]

\* The worker takes a request up, or refuses it in any other phase.
Handle(w, m, from, to) ==
  /\ mail[w] = m /\ mail' = [mail EXCEPT ![w] = "none"]
  /\ IF at[w] = from
     THEN /\ at' = [at EXCEPT ![w] = to]
          /\ ack' = [ack EXCEPT ![w] = IF @ = "wait" THEN "work" ELSE @]
     ELSE ack' = [ack EXCEPT ![w] = IF @ = "wait" THEN "no" ELSE @] /\ UNCHANGED at
  /\ UNCHANGED <<inputs, phase, fence, claim, client, taken, spoiled, coordinator, bounds>>

Prepare(w) == Handle(w, "prepare", "idle", "preparing")

FenceWorker(w) ==
  /\ AtWork(w) = {} /\ Move(w, "preparing", "fencing")
  /\ UNCHANGED <<inputs, supervisor, claim, client, taken, spoiled, coordinator, bounds>>

\* The session is paused, its queue captured, and the answer written.
Checkpoint(w) ==
  /\ AtWork(w) = {} /\ Move(w, "fencing", "prepared")
  /\ taken' = [taken EXCEPT ![w] = Queue(w)]
  /\ Answer(w, "ok")
  /\ UNCHANGED <<inputs, phase, fence, mail, claim, client, spoiled, coordinator, bounds>>

\* The deadline ends a transaction that is not committing; of a checkpoint that is
\* already given the supervisor hears nothing.
DeadlineIn(w, phases) ==
  /\ at[w] \in phases
  /\ at' = [at EXCEPT ![w] = "idle"]
  /\ IF at[w] = "prepared" THEN Spoil(w) /\ UNCHANGED ack
                           ELSE Answer(w, "no") /\ UNCHANGED spoiled
  /\ UNCHANGED <<inputs, phase, fence, mail, claim, client, taken, coordinator, bounds>>

DeadlineUnprepared(w) == DeadlineIn(w, {"preparing", "fencing"})
Deadline(w) == DeadlineIn(w, {"preparing", "fencing", "prepared"})

Publish(w) == Handle(w, "commit", "prepared", "publishing")

\* A worker without a supervisor shuts down after it.
CloseSessions(w) ==
  /\ Move(w, "publishing", IF claim[w] THEN "closed" ELSE "gone")
  /\ place' = [i \in Input |-> IF i \in Queue(w)
                               THEN IF i \in taken[w] THEN "parked" ELSE "dropped"
                               ELSE place[i]]
  /\ Answer(w, "ok")
  /\ UNCHANGED <<runs, phase, fence, mail, claim, client, taken, spoiled, coordinator, bounds>>

\* An error leaves the checkpoint standing, without a deadline, as long as its owner
\* is connected.
CloseFails(w) ==
  /\ Move(w, "publishing", IF claim[w] THEN "unfinished" ELSE "idle")
  /\ IF claim[w] THEN UNCHANGED spoiled ELSE Spoil(w)
  /\ Answer(w, "no")
  /\ UNCHANGED <<inputs, phase, fence, mail, claim, client, taken, coordinator, bounds>>

\* A broken connection is noticed at each end by itself.
WorkerDisconnects(w) ==
  /\ claim[w] /\ claim' = [claim EXCEPT ![w] = FALSE]
  /\ IF client[w] = "bound" THEN Fault ELSE UNCHANGED faults
  /\ mail' = [mail EXCEPT ![w] = "none"]
  /\ at' = [at EXCEPT ![w] = IF @ \in {"preparing", "fencing", "prepared", "unfinished"}
                             THEN "idle" ELSE @]
  /\ IF at[w] \in {"prepared", "unfinished"} THEN Spoil(w) ELSE UNCHANGED spoiled
  /\ UNCHANGED <<inputs, phase, fence, ack, client, taken, coordinator, coordinators>>

SupervisorDisconnects(w) ==
  /\ client[w] # "lost" /\ client' = [client EXCEPT ![w] = "lost"]
  /\ IF client[w] = "bound" /\ ~claim[w] THEN UNCHANGED faults ELSE Fault
  /\ ack' = [ack EXCEPT ![w] = IF @ \in {"wait", "work"} THEN "no" ELSE @]
  /\ Put(InPlace(w, {"landing"}), "alone")
  /\ UNCHANGED <<runs, phase, fence, mail, at, claim, taken, spoiled, coordinator, coordinators>>

Reconnect(w) ==
  /\ Resides(w) /\ client[w] = "lost" /\ daemon
  /\ client' = [client EXCEPT ![w] = "new"]
  /\ UNCHANGED <<inputs, supervisor, at, claim, taken, spoiled, coordinator, bounds>>

WorkerStep(w) ==
  \/ Prepare(w) \/ FenceWorker(w) \/ Checkpoint(w) \/ Deadline(w) \/ Publish(w)
  \/ CloseSessions(w) \/ CloseFails(w)
  \/ WorkerDisconnects(w) \/ SupervisorDisconnects(w) \/ Reconnect(w)
-----------------------------------------------------------------------------
(***************************************************************************)
(* The coordinator, one at a time.  It removes a manifest it finds unless  *)
(* the daemon has no session, or is not there.                             *)
(* It asks which sessions there are: without an answer it gives up, and a  *)
(* refusal counts as if there were some.                                   *)
(***************************************************************************)
Begin ==
  /\ coord \in {"off", "failed"} /\ coordinators < MaxCoordinators
  /\ coordinators' = coordinators + 1
  /\ \/ /\ ~daemon
        /\ coord' = IF file = {} THEN "done" ELSE "start"
        /\ UNCHANGED <<phase, file, discarded>>
     \/ /\ daemon /\ file # {} /\ \A w \in Worker : ~Resides(w)
        /\ coord' = "stop"
        /\ UNCHANGED <<phase, file, discarded>>
     \/ /\ daemon /\ file # {}
        /\ coord' = "failed"
        /\ UNCHANGED <<phase, file, discarded>>
     \/ /\ daemon
        /\ file' = {} /\ discarded' = discarded \cup file
        /\ IF phase = "none"
           THEN phase' = (IF fence THEN "held" ELSE "draining") /\ coord' = "waiting"
           ELSE coord' = "refused" /\ UNCHANGED phase
  /\ UNCHANGED <<inputs, fence, mail, ack, workers, daemon, todo, reported, warned, faults>>

LoseAnswer ==
  /\ coord = "waiting" /\ Fault
  /\ coord' = "refused"
  /\ UNCHANGED <<inputs, supervisor, workers, file, daemon, todo, reported, warned, discarded, coordinators>>

\* Without an answer the manifest on disk decides.
Fallback ==
  /\ coord = "refused"
  /\ coord' = IF file # {} THEN "stop" ELSE "failed"
  /\ UNCHANGED <<inputs, supervisor, workers, file, daemon, todo, reported, warned, discarded, bounds>>

\* The gate of the supervisor lets a shutdown through only when it is prepared.
Shutdown ==
  /\ coord = "stop" /\ phase \in {"none", "prepared"}
  /\ Halt({w \in Worker : Resides(w)}, {"held", "sent"})
  /\ discarded' = discarded \cup {w \in Worker : Resides(w)}
  /\ phase' = "none" /\ fence' = FALSE /\ daemon' = FALSE /\ coord' = "start"
  /\ UNCHANGED <<runs, ack, taken, spoiled, file, todo, reported, warned, bounds>>

ShutdownRefused ==
  /\ coord = "stop" /\ phase \notin {"none", "prepared"}
  /\ coord' = "refit"
  /\ UNCHANGED <<inputs, supervisor, workers, file, daemon, todo, reported, warned, discarded, bounds>>

\* The sessions are restored into the daemon that would not stop.  It rejects every
\* creation, each is counted as a failure, and the manifest is removed; it is kept
\* only if the daemon cannot be reached.
Refit ==
  /\ coord = "refit" /\ coord' = "failed"
  /\ \/ file' = {} /\ reported' = reported \cup file
     \/ UNCHANGED <<file, reported>>
  /\ UNCHANGED <<inputs, supervisor, workers, daemon, todo, warned, discarded, bounds>>

StartDaemon ==
  /\ coord = "start"
  /\ \/ daemon' = TRUE /\ coord' = "restore" /\ todo' = file
     \/ coord' = "failed" /\ UNCHANGED <<daemon, todo>>
  /\ UNCHANGED <<inputs, supervisor, workers, file, reported, warned, discarded, bounds>>

\* The session is created, its pending context and its queued actions are put back
\* by a request each, "back" is what those carry that succeed.  The session counts as
\* restored once it is created: a refused request is a line on stderr.  A refused
\* creation is a failure, and so is any request without an answer, whatever it did.
Restore(w) ==
  /\ coord = "restore" /\ w \in todo
  /\ todo' = todo \ {w}
  /\ \E created, failed \in BOOLEAN : \E back \in SUBSET taken[w] :
       /\ created \/ (failed /\ back = {})
       /\ IF created /\ ~Resides(w)
          THEN at' = [at EXCEPT ![w] = "idle"] /\ client' = [client EXCEPT ![w] = "new"]
          ELSE UNCHANGED <<at, client>>
       /\ Put(back, "queued")
       /\ IF failed THEN reported' = reported \cup {w} /\ UNCHANGED warned
                    ELSE warned' = warned \cup (taken[w] \ back) /\ UNCHANGED reported
  /\ UNCHANGED <<runs, supervisor, claim, taken, spoiled, file, daemon, coord, discarded, bounds>>

Restored ==
  /\ coord = "restore" /\ todo = {}
  /\ file' = {} /\ coord' = "done"
  /\ UNCHANGED <<inputs, supervisor, workers, daemon, todo, reported, warned, discarded, bounds>>

CoordinatorDies ==
  /\ coord \notin {"off", "done", "failed"} /\ Fault
  /\ coord' = "failed" /\ todo' = {}
  /\ UNCHANGED <<inputs, supervisor, workers, file, daemon, reported, warned, discarded, coordinators>>

CoordinatorStep ==
  \/ Begin \/ LoseAnswer \/ Fallback \/ Shutdown \/ ShutdownRefused \/ Refit \/ StartDaemon
  \/ Restored \/ CoordinatorDies
  \/ \E w \in Worker : Restore(w)

Next ==
  \/ InputStep \/ SupervisorStep \/ CoordinatorStep
  \/ \E w \in Worker : WorkerStep(w)

Spec == Init /\ [][Next]_vars

Progress(w) ==
  \/ Prepare(w) \/ FenceWorker(w) \/ Checkpoint(w) \/ Deadline(w) \/ Publish(w)
  \/ CloseSessions(w) \/ CloseFails(w)

\* A coordinator that lives goes on: each of its requests has a timeout.
CoordinatorGoesOn ==
  \/ Fallback \/ Shutdown \/ ShutdownRefused \/ Refit \/ StartDaemon \/ Restored
  \/ \E w \in Worker : Restore(w)

Fairness ==
  /\ WF_vars(SweepEnd) /\ WF_vars(SupervisorStep)
  /\ WF_vars(\E i \in Input : Create(i) \/ Land(i) \/ Finish(i))
  /\ WF_vars(\E w \in Worker : Progress(w))
  /\ WF_vars(CoordinatorGoesOn)

LiveSpec == Spec /\ Fairness
-----------------------------------------------------------------------------
Kept(i) == i \in taken[Of[i]] /\ Of[i] \in file

\* An input that a session accepted is run, or waits in its worker or in the
\* manifest, or its session was reported as not restored, or a warning was printed
\* that it did not go back.  One that arrived at a worker after it had dropped its
\* checkpoint may be lost with it, and so may what a second coordinator gives up.
NothingLost ==
  /\ \A i \in Input :
       /\ place[i] = "parked" => Kept(i) \/ Of[i] \in reported \cup discarded \/ i \in warned
       /\ place[i] = "dropped" => Of[i] \in spoiled \cup discarded
  /\ coordinators <= 1 => discarded = {}

\* No input runs in the old daemon and again in its successor, unless its worker
\* dropped the checkpoint that the manifest holds.
RunOnce == \A i \in Input : runs[i] <= 1 \/ Of[i] \in spoiled

\* As long as a checkpoint stands, it is what the worker has: nothing is at work
\* in it and nothing has come or gone.
CheckpointExact == \A w \in Worker :
  at[w] \in {"prepared", "publishing", "unfinished"} =>
    AtWork(w) = {} /\ Queue(w) = taken[w]

\* Once the manifest is written no worker runs that it does not cover, and when the
\* preparation reports success none runs at all.
NoStraggler ==
  /\ phase \in {"committing", "stopping"} => \A w \in Worker : Resides(w) => w \in Asked
  /\ phase = "prepared" => \A w \in Worker : ~Resides(w)

\* The invariant that the proofs carry, in named parts.  Whatever a worker has in
\* hand it is there to hold, and a closed one has nothing.
Homes == \A w \in Worker :
  /\ ~Resides(w) => AtWork(w) = {} /\ Queue(w) = {}
  /\ at[w] = "closed" => AtWork(w) = {} /\ Queue(w) = {}
  /\ \A i \in taken[w] : Of[i] = w

\* A request is on its way on a claim only, and a claim is of a worker that is there.
Claims == \A w \in Worker :
  /\ mail[w] # "none" => claim[w]
  /\ claim[w] => Resides(w)
  /\ ack[w] = "work" => mail[w] = "none"

\* The sweep and the preparation exclude each other, and nothing is under way once
\* the workers are asked.
Gate ==
  /\ fence => phase \in {"none", "held"}
  /\ phase = "held" => fence
  /\ \A i \in Input : place[i] = "held" => fence
  /\ phase \in {"asking", "cancelling", "committing", "stopping", "prepared"} => Active = {}

Down == ~daemon =>
  /\ phase = "none" /\ ~fence
  /\ \A i \in Input : place[i] # "sent"
  /\ \A w \in Worker : ~Resides(w)

\* The rounds of requests.
Rounds == \A w \in Worker :
  /\ phase \notin {"asking", "cancelling", "committing", "stopping"} => ack[w] = "none"
  /\ phase = "asking" =>
       /\ Resides(w) => ack[w] # "none"
       /\ ack[w] = "ok" => mail[w] = "none" /\ at[w] \in {"prepared", "idle"}
  /\ phase \in {"committing", "stopping"} =>
       /\ mail[w] # "prepare" /\ at[w] \notin {"preparing", "fencing"}
       /\ at[w] = "idle" => w \in spoiled
       /\ Resides(w) => ack[w] # "none"
       /\ ack[w] # "none" => w \in file \cup reported \cup discarded
  /\ mail[w] = "commit" \/ at[w] \in {"publishing", "unfinished", "closed"} =>
       phase \in {"committing", "stopping"}
  /\ phase = "prepared" => ~Resides(w)

\* Where the coordinator is when the daemon runs, and what only a second one can do.
Steps ==
  /\ coord \in {"waiting", "refused", "stop", "refit", "restore"} => daemon
  /\ coord = "start" => ~daemon
  /\ coord = "waiting" => phase \notin {"none", "prepared"}
  /\ coord = "restore" => phase = "none"
  /\ coord # "restore" => todo = {}
  /\ todo \subseteq file
  /\ coordinators = 0 => coord = "off" /\ phase = "none" /\ file = {}
  /\ coordinators <= 1 =>
       /\ coord = "stop" => phase \in {"committing", "stopping", "prepared"}
       /\ coord = "refused" /\ file # {} => phase \in {"committing", "stopping", "prepared"}

\* A manifest is there from the commit on, and no transaction runs beside an old one.
Manifest ==
  /\ phase \in {"held", "draining", "passed", "fencing", "asking", "cancelling"} => file = {}
  /\ file # {} /\ phase \notin {"committing", "stopping"} =>
       \A w \in Worker : at[w] \in {"absent", "idle", "gone"} /\ mail[w] = "none"
  /\ coord = "restore" => \A w \in file \ todo :
       w \in reported \/ \A i \in taken[w] : place[i] # "parked" \/ i \in warned

\* What a checkpoint of the manifest holds has not run, until it is restored.
Untouched(w) == \A i \in taken[w] :
  /\ runs[i] = 0
  /\ \/ place[i] = "parked"
     \/ place[i] = "queued" /\ at[w] \in {"prepared", "publishing", "unfinished"}
InUse(w) ==
  coord \in {"restore", "failed"} /\ w \notin todo /\ at[w] = "idle" /\ daemon /\ phase = "none"

Once ==
  /\ \A w \in file \ spoiled : Untouched(w) \/ InUse(w)
  /\ \A i \in Input : Of[i] \in spoiled \/ runs[i] = 0 \/ (runs[i] = 1 /\ place[i] = "ran")

\* All of it: what the proofs show of every reachable state of an update.
IInv ==
  /\ TypeOK /\ Homes /\ Claims /\ Gate /\ Down /\ Rounds /\ Steps /\ Manifest /\ Once
  /\ CheckpointExact /\ NothingLost

\* Every preparation ends: every worker is released, or the manifest is written and
\* the daemon shut down, or none runs any more and the coordinator is gone.  What the
\* sweep holds back is let through.
Abandoned == phase = "prepared" /\ coord \in {"off", "failed", "done"}
Unsettled ==
  \/ phase # "none" /\ ~Abandoned
  \/ \E w \in Worker : at[w] \notin {"absent", "idle", "gone"}
  \/ \E i \in Input : place[i] = "held"
UpdateSettles == Unsettled ~> ~Unsettled
=============================================================================
