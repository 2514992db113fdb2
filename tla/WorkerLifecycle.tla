-------------------------- MODULE WorkerLifecycle --------------------------
(***************************************************************************)
(* The life of one resident session worker under the daemon supervisor:    *)
(* its launch, the loss of its connection and the recovery that follows,   *)
(* the stops that end it, a retry that takes a stop back, and supervisors  *)
(* that die and are replaced while any of that is going on.                *)
(*                                                                         *)
(* The supervisor is one thread, but a launch, a recovery, every stop and  *)
(* the finalizer of a stop that timed out are asynchronous: they interleave *)
(* at their awaits, and each of them decides on state it read before.      *)
(* What survives the supervisor is the worker's descriptor file (its pid   *)
(* and the stop that was requested) and the worker process itself.         *)
(***************************************************************************)
EXTENDS Naturals, FiniteSets

CONSTANTS
  Process,            \* incarnations of the worker process
  Stopper,            \* stop commands: kills, evictions, daemon shutdowns
  Attempts,           \* the length of WORKER_RETRY_DELAYS_MS
  StopDuringRelaunch, \* a stop may arrive while a relaunch prepares its descriptor
  LoseWhenAsked,      \* a connection may be lost while a stop awaits an answer on it
  DisturbEnd,         \* a connection may be lost, or a retry arrive, while a recovery that
                      \* has done its work, or a finalizer that failed, has not ended
  UnreliableArchive,  \* the stops for which the catalog may fail to archive the session
  MaxDeaths,          \* bound: worker processes that die, hang or quit
  MaxCrashes,         \* bound: supervisors that die
  MaxRetries          \* bound: retry_worker commands

NoProcess == "none"

ASSUME WorkerAssumption ==
  /\ NoProcess \notin Process
  /\ Stopper \cap {"create", "recovery", "finalizer", "adoption"} = {}
  /\ Attempts \in Nat \ {0}
  /\ StopDuringRelaunch \in BOOLEAN
  /\ LoseWhenAsked \in BOOLEAN
  /\ DisturbEnd \in BOOLEAN
  /\ MaxDeaths \in Nat
  /\ MaxCrashes \in Nat
  /\ MaxRetries \in Nat

Launcher == {"create", "recovery"}

\* Who runs stopWorker: a command, the rollback of a failed launch, the
\* finalizer of a stop that timed out, or a supervisor that finds a tombstone.
Task == Stopper \cup Launcher \cup {"finalizer", "adoption"}

VARIABLES
  proc,        \* what each process does
  disk,        \* the descriptor file
  sup,         \* the supervisor: down, up or closing
  \* ResidentWorker, in the supervisor's memory
  registered,  \* this.workers has the worker
  mem,         \* its descriptor: pid, stopRequestedAt is set, archiveOnStop
  intentional, \* intentionalStop
  lifecycle,
  client,      \* the process its client is connected to
  known,       \* it has summaries, so commands find it
  \* asynchronous functions under way
  recovery, launch, stop, finalizer, adopting,
  revised,     \* those that captured a stopRevision that has changed since
  \* bounds
  deaths, crashes, retries

worker == <<registered, mem, intentional, lifecycle, client, known>>
tasks  == <<recovery, launch, stop, finalizer, adopting, revised>>
bounds == <<deaths, crashes, retries>>
vars == <<proc, disk, sup, worker, tasks, bounds>>

-----------------------------------------------------------------------------

NoDescriptor == [pid |-> NoProcess, stop |-> FALSE, archive |-> FALSE]
IdleRecovery == [pc |-> "idle", tries |-> 0]
IdleLaunch == [pc |-> "idle", child |-> NoProcess, resume |-> FALSE]
IdleStop == [pc |-> "idle", pid |-> NoProcess]
IdleFinalizer == [pc |-> "idle", pid |-> NoProcess]

Alive(p) == p \in Process /\ proc[p] \in {"gated", "up", "hung", "leaving"}

\* Past its startup gate and not on its way out.
Running(p) == proc[p] \in {"up", "hung"}

Stopping(t) == stop[t].pc \in {"forwarding", "asking", "waiting", "archiving"}

\* workerStopCounts is empty.
NoStops == \A t \in Task : ~Stopping(t)

isWorkerRecoveryCancelled ==
  sup = "closing" \/ intentional \/ mem.stop \/ ~registered

Removes(t) == t # "recovery"
Forced(t) == t \notin Stopper

\* assertStopStillApplies
StopStillApplies(t) == mem.pid = stop[t].pid /\ (Removes(t) => mem.stop)

Persist == disk' = mem'

\* persistWorkerStopTombstone; the stop of another one keeps what a kill asked for.
Tombstone(archive) == [mem EXCEPT !.stop = TRUE, !.archive = @ \/ archive]
Rescinded == [mem EXCEPT !.stop = FALSE, !.archive = FALSE]

\* How a stop ends; the callers of the internal ones look at the result.
Ended(t, result) == [IdleStop EXCEPT !.pc = IF t \in Stopper THEN "done" ELSE result]

\* stopWorker threw: its client was gone when the request came back.
AskedFail(T) == [t \in Task |-> IF t \in T /\ stop[t].pc = "asking" THEN Ended(t, "failed") ELSE stop[t]]

\* The recovery awaits syncAgentPeers with its promise still set.
Undisturbed == DisturbEnd \/ recovery.pc # "syncing"

MayLoseClient == Undisturbed /\ (LoseWhenAsked \/ \A t \in Task : stop[t].pc # "asking")

\* One that is at its end is not started again: whoever needs it gets the old promise.
StartRecovery == IF recovery.pc = "idle" THEN [pc |-> "delay", tries |-> 0] ELSE recovery

\* It polls eight times while a stop waits, so it notices a new stop before
\* that one times out.
FinalizerDue == finalizer.pc = "waiting" /\ "finalizer" \in revised

\* scheduleWorkerStopFinalization, single flight
Schedule ==
  IF finalizer.pc = "idle"
  THEN /\ finalizer' = [pc |-> "waiting", pid |-> mem.pid]
       /\ revised' = revised \ {"finalizer"}
  ELSE UNCHANGED <<finalizer, revised>>

-----------------------------------------------------------------------------
(* stopWorker                                                              *)

\* Up to its first await: the tombstone (or the intention) is persisted, then
\* a connected worker is asked to shut down and another one gets a SIGTERM.
Enter(t, archive) ==
  /\ LoseWhenAsked \/ client = NoProcess \/ Alive(client)
  /\ mem' = IF Removes(t) THEN Tombstone(archive) ELSE mem
  /\ Persist
  /\ intentional' = TRUE
  /\ lifecycle' = IF Removes(t) THEN lifecycle ELSE "recovering"
  /\ revised' = IF t = "recovery" THEN revised ELSE {"recovery", "finalizer"}
  /\ stop' = [stop EXCEPT ![t] = [pc |-> IF client = NoProcess THEN "waiting" ELSE "asking",
                                  pid |-> mem.pid]]
  /\ proc' = IF client = NoProcess /\ proc[mem.pid] = "up"
             THEN [proc EXCEPT ![mem.pid] = "leaving"] ELSE proc

\* The request is answered or times out, and the client is closed: whoever
\* else waits for an answer finds no client to close.
Asked(t) ==
  /\ stop[t].pc = "asking"
  /\ Alive(client)
  /\ proc' = IF proc[client] = "up" THEN [proc EXCEPT ![client] = "leaving"] ELSE proc
  /\ client' = NoProcess
  /\ stop' = [AskedFail(Task \ {t}) EXCEPT ![t].pc = "waiting"]
  /\ UNCHANGED <<disk, sup, registered, mem, intentional, lifecycle, known, recovery, launch,
                 finalizer, adopting, revised, bounds>>

\* The worker is forgotten, and its descriptor deleted.
Complete(t) ==
  /\ registered' = FALSE
  /\ disk' = IF Removes(t) THEN NoDescriptor ELSE disk
  /\ stop' = [stop EXCEPT ![t] = Ended(t, "done")]

Fail(t) ==
  /\ stop' = [stop EXCEPT ![t] = Ended(t, "failed")]
  /\ UNCHANGED <<registered, disk>>

\* The process is gone; a session to be archived is given to the catalog.
Stopped(t) ==
  /\ stop[t].pc = "waiting"
  /\ ~Alive(stop[t].pid)
  /\ IF ~StopStillApplies(t) THEN Fail(t)
     ELSE IF Removes(t) /\ mem.archive
     THEN /\ stop' = [stop EXCEPT ![t].pc = "archiving"]
          /\ UNCHANGED <<registered, disk>>
     ELSE Complete(t)
  /\ UNCHANGED <<proc, sup, mem, intentional, lifecycle, client, known, recovery, launch,
                 finalizer, adopting, revised, bounds>>

\* finalizeArchivedWorkerStop returns, or fails.
Archived(t) ==
  /\ stop[t].pc = "archiving"
  /\ \/ StopStillApplies(t) /\ Complete(t)
     \/ (~StopStillApplies(t) \/ t \in UnreliableArchive) /\ Fail(t)
  /\ UNCHANGED <<proc, sup, mem, intentional, lifecycle, client, known, recovery, launch,
                 finalizer, adopting, revised, bounds>>

\* A forced stop sends SIGKILL when its grace period is over.
ForceKill(t) ==
  /\ stop[t].pc = "waiting"
  /\ Forced(t)
  /\ Alive(stop[t].pid)
  /\ proc' = [proc EXCEPT ![stop[t].pid] = "gone"]
  /\ UNCHANGED <<disk, sup, worker, tasks, bounds>>

\* Mutated TimeOut: nobody follows up on a stop that timed out.
TimeOutUnattended(t) ==
  /\ stop[t].pc = "waiting"
  /\ ~Forced(t)
  /\ Alive(stop[t].pid)
  /\ ~FinalizerDue
  /\ intentional' = mem.stop
  /\ stop' = [stop EXCEPT ![t] = Ended(t, "failed")]
  /\ UNCHANGED <<proc, disk, sup, registered, mem, lifecycle, client, known, recovery, launch,
                 finalizer, adopting, revised, bounds>>

\* Another one throws WorkerStopTimeoutError and leaves the rest to the
\* finalizer.
TimeOut(t) ==
  /\ stop[t].pc = "waiting"
  /\ ~Forced(t)
  /\ Alive(stop[t].pid)
  /\ ~FinalizerDue
  /\ intentional' = mem.stop
  /\ stop' = [stop EXCEPT ![t] = Ended(t, "failed")]
  /\ Schedule
  /\ UNCHANGED <<proc, disk, sup, registered, mem, lifecycle, client, known, recovery, launch,
                 adopting, bounds>>

StopStep(t) == Asked(t) \/ Stopped(t) \/ Archived(t) \/ ForceKill(t) \/ TimeOut(t)

-----------------------------------------------------------------------------
(* The commands that stop a worker, and the one that takes a stop back.    *)

MayStop(s) ==
  /\ stop[s].pc = "idle"
  /\ registered
  /\ StopDuringRelaunch \/ launch["recovery"].pc # "spawned"

\* kill of the root session: the tombstone first, then the command is
\* forwarded to the worker if that can be reached, then stopWorker.
Kill(s) ==
  /\ sup = "up"
  /\ known
  /\ MayStop(s)
  /\ IF client # NoProcess /\ lifecycle = "ready"
     THEN /\ mem' = Tombstone(TRUE)
          /\ Persist
          /\ intentional' = TRUE
          /\ stop' = [stop EXCEPT ![s].pc = "forwarding"]
          /\ UNCHANGED <<proc, lifecycle, revised>>
     ELSE Enter(s, TRUE)
  /\ UNCHANGED <<sup, registered, client, known, recovery, launch, finalizer, adopting, bounds>>

Forwarded(s) ==
  /\ stop[s].pc = "forwarding"
  /\ Enter(s, TRUE)
  /\ UNCHANGED <<sup, registered, client, known, recovery, launch, finalizer, adopting, bounds>>

\* The idle eviction sweep, and its final check.
Evict(s) ==
  /\ sup = "up"
  /\ MayStop(s)
  /\ client # NoProcess
  /\ lifecycle = "ready"
  /\ ~intentional /\ ~mem.stop
  /\ Enter(s, FALSE)
  /\ UNCHANGED <<sup, registered, client, known, recovery, launch, finalizer, adopting, bounds>>

\* shutdown(stopWorkers): from here on nothing is recovered.
Shutdown(s) ==
  /\ sup = "up"
  /\ MayStop(s)
  /\ Enter(s, TRUE)
  /\ sup' = "closing"
  /\ UNCHANGED <<registered, client, known, recovery, launch, finalizer, adopting, bounds>>

\* Mutated Retry: a stop may be active.
RetryAnytime ==
  /\ sup = "up"
  /\ launch["create"].pc = "idle"
  /\ retries < MaxRetries
  /\ retries' = retries + 1
  /\ registered
  /\ mem' = Rescinded
  /\ Persist
  /\ intentional' = FALSE
  /\ lifecycle' = "recovering"
  /\ recovery' = StartRecovery
  /\ UNCHANGED <<proc, sup, registered, client, known, launch, stop, finalizer, adopting, revised,
                 deaths, crashes>>

\* retry_worker, refused while a stop is active.  Nobody knows the id of a
\* session that is being created.
Retry ==
  /\ sup = "up"
  /\ launch["create"].pc = "idle"
  /\ retries < MaxRetries
  /\ retries' = retries + 1
  /\ registered
  /\ NoStops
  /\ Undisturbed
  /\ DisturbEnd \/ finalizer.pc # "cleanup"
  /\ mem' = Rescinded
  /\ Persist
  /\ intentional' = FALSE
  /\ lifecycle' = "recovering"
  /\ recovery' = StartRecovery
  /\ UNCHANGED <<proc, sup, registered, client, known, launch, stop, finalizer, adopting, revised,
                 deaths, crashes>>

\* The session is opened again though a dead, tombstoned worker is registered
\* for it (reclaimStaleWorkerRegistration).
Reopen ==
  /\ sup = "up"
  /\ registered
  /\ client = NoProcess
  /\ recovery.pc = "idle"
  /\ mem.stop
  /\ ~Alive(mem.pid)
  /\ finalizer.pc = "idle"
  /\ Schedule
  /\ UNCHANGED <<proc, disk, sup, worker, recovery, launch, stop, adopting, bounds>>

-----------------------------------------------------------------------------
(* finalizeTimedOutWorkerStop                                              *)

Unfinalized(pid) == sup = "up" /\ registered /\ mem.stop /\ mem.pid = pid

\* The stop is still the one that timed out, so the process is awaited and
\* after a grace period killed.
FinalizerWait ==
  /\ finalizer.pc = "waiting"
  /\ IF ~Unfinalized(finalizer.pid) \/ "finalizer" \in revised
     THEN finalizer' = IdleFinalizer /\ UNCHANGED proc
     ELSE /\ Alive(finalizer.pid)
          /\ proc' = [proc EXCEPT ![finalizer.pid] = "gone"]
          /\ UNCHANGED finalizer
  /\ UNCHANGED <<disk, sup, worker, recovery, launch, stop, adopting, revised, bounds>>

\* The process is gone: the worker is stopped, again and again if that fails.
FinalizerStop ==
  /\ \/ finalizer.pc = "waiting" /\ ~Alive(finalizer.pid) /\ "finalizer" \notin revised
     \/ finalizer.pc = "cleanup" /\ stop["finalizer"].pc = "idle"
  /\ Unfinalized(finalizer.pid)
  /\ Enter("finalizer", FALSE)
  /\ finalizer' = [finalizer EXCEPT !.pc = "cleanup"]
  /\ UNCHANGED <<sup, registered, client, known, recovery, launch, adopting, bounds>>

FinalizerQuit ==
  /\ finalizer.pc = "cleanup"
  /\ stop["finalizer"].pc = "idle"
  /\ ~Unfinalized(finalizer.pid)
  /\ finalizer' = IdleFinalizer
  /\ UNCHANGED <<proc, disk, sup, worker, recovery, launch, stop, adopting, revised, bounds>>

\* Mutated FinalizerStopped: a stop that failed is not tried again.
FinalizerStoppedOnce ==
  /\ stop["finalizer"].pc \in {"done", "failed"}
  /\ stop' = [stop EXCEPT !["finalizer"] = IdleStop]
  /\ finalizer' = IdleFinalizer
  /\ UNCHANGED <<proc, disk, sup, worker, recovery, launch, adopting, revised, bounds>>

FinalizerStopped ==
  /\ stop["finalizer"].pc \in {"done", "failed"}
  /\ stop' = [stop EXCEPT !["finalizer"] = IdleStop]
  /\ finalizer' = IF stop["finalizer"].pc = "done" THEN IdleFinalizer ELSE finalizer
  /\ UNCHANGED <<proc, disk, sup, worker, recovery, launch, adopting, revised, bounds>>

FinalizerStep == FinalizerWait \/ FinalizerStop \/ FinalizerQuit \/ FinalizerStopped

-----------------------------------------------------------------------------
(* launchWorker, for a new session or for a worker to be recovered         *)

\* A session is created: the child is spawned and waits at its startup gate.
Create ==
  /\ sup = "up"
  /\ mem = NoDescriptor
  /\ \A p \in Process : proc[p] = "unborn"
  /\ launch["create"].pc = "idle"
  /\ \E p \in Process :
       /\ proc' = [proc EXCEPT ![p] = "gated"]
       /\ launch' = [launch EXCEPT !["create"] = [pc |-> "spawned", child |-> p, resume |-> FALSE]]
  /\ UNCHANGED <<disk, sup, worker, recovery, stop, finalizer, adopting, revised, bounds>>

\* Mutated Relaunch: nobody asks whether the recovery was cancelled.
RelaunchAnyway ==
  /\ recovery.pc = "reaped"
  /\ \E p \in Process :
       /\ proc[p] = "unborn"
       /\ proc' = [proc EXCEPT ![p] = "gated"]
       /\ launch' = [launch EXCEPT !["recovery"] = [pc |-> "spawned", child |-> p, resume |-> FALSE]]
  /\ revised' = revised \ {"recovery"}
  /\ recovery' = [recovery EXCEPT !.pc = "launching"]
  /\ UNCHANGED <<disk, sup, worker, stop, finalizer, adopting, bounds>>

\* The same for a recovery that was not cancelled; the child may fail to
\* start.
Relaunch ==
  /\ recovery.pc = "reaped"
  /\ IF isWorkerRecoveryCancelled
     THEN /\ recovery' = IdleRecovery
          /\ UNCHANGED <<proc, launch, revised>>
     ELSE \/ \E p \in Process :
               /\ proc[p] = "unborn"
               /\ proc' = [proc EXCEPT ![p] = "gated"]
               /\ launch' = [launch EXCEPT !["recovery"] =
                               [pc |-> "spawned", child |-> p, resume |-> FALSE]]
               /\ revised' = revised \ {"recovery"}
               /\ recovery' = [recovery EXCEPT !.pc = "launching"]
          \/ /\ recovery' = [recovery EXCEPT !.pc = "erred"]
             /\ UNCHANGED <<proc, launch, revised>>
  /\ UNCHANGED <<disk, sup, worker, stop, finalizer, adopting, bounds>>

\* Mutated Publish: the gate is opened before the descriptor is on disk.
PublishUnwritten(l) ==
  /\ launch[l].pc = "spawned"
  /\ mem' = [pid |-> launch[l].child, stop |-> FALSE, archive |-> FALSE]
  /\ registered' = TRUE
  /\ intentional' = FALSE
  /\ lifecycle' = "starting"
  /\ proc' = [proc EXCEPT ![launch[l].child] = "up"]
  /\ launch' = [launch EXCEPT ![l].pc = "starting"]
  /\ UNCHANGED <<disk, sup, client, known, recovery, stop, finalizer, adopting, revised, bounds>>

\* The descriptor of the new process replaces the old one, in memory and on
\* disk, and the startup gate is opened.
Publish(l) ==
  /\ launch[l].pc = "spawned"
  /\ mem' = [pid |-> launch[l].child, stop |-> FALSE, archive |-> FALSE]
  /\ Persist
  /\ registered' = TRUE
  /\ intentional' = FALSE
  /\ lifecycle' = "starting"
  /\ proc' = [proc EXCEPT ![launch[l].child] = "up"]
  /\ launch' = [launch EXCEPT ![l].pc = "starting"]
  /\ UNCHANGED <<sup, client, known, recovery, stop, finalizer, adopting, revised, bounds>>

EndRecovery == [pc |-> "syncing", tries |-> 0]

Erred(l) == recovery' = IF l = "recovery" THEN [recovery EXCEPT !.pc = "erred"] ELSE recovery

\* Or that fails, and the gate is closed instead.
Unpublished(l) ==
  /\ launch[l].pc = "spawned"
  /\ proc' = [proc EXCEPT ![launch[l].child] = "gone"]
  /\ launch' = [launch EXCEPT ![l] = IdleLaunch]
  /\ Erred(l)
  /\ UNCHANGED <<disk, sup, worker, stop, finalizer, adopting, revised, bounds>>

\* connectWorker: the connection is authenticated and replaces another one.
Connect(l) ==
  /\ launch[l].pc = "starting"
  /\ proc[launch[l].child] = "up"
  /\ client' = launch[l].child
  /\ launch' = [launch EXCEPT ![l].pc = "creating"]
  /\ UNCHANGED <<proc, disk, sup, registered, mem, intentional, lifecycle, known, recovery,
                 stop, finalizer, adopting, revised, bounds>>

\* A relaunch notices that it was cancelled while it was under way.
Overtaken(l) == l = "recovery" /\ (isWorkerRecoveryCancelled \/ "recovery" \in revised)

\* The worker has created its session: it is ready.
Finish(l) ==
  /\ launch[l].pc = "creating"
  /\ client = launch[l].child
  /\ proc[client] = "up"
  /\ ~Overtaken(l)
  /\ lifecycle' = "ready"
  /\ known' = TRUE
  /\ disk' = mem
  /\ launch' = [launch EXCEPT ![l] = IdleLaunch]
  /\ recovery' = IF l = "recovery" THEN EndRecovery ELSE recovery
  /\ UNCHANGED <<proc, sup, registered, mem, intentional, client, stop, finalizer, adopting,
                 revised, bounds>>

\* The launch is still the one that the recovery asked for.
Resumable ==
  /\ sup = "up"
  /\ ~mem.stop
  /\ "recovery" \notin revised

\* The launch failed: the worker that was started is stopped.
Abort(l) ==
  /\ launch[l].pc \in {"starting", "creating"}
  /\ launch' = [launch EXCEPT ![l].pc = "cleaning", ![l].resume = l = "recovery" /\ Resumable]
  /\ Enter(l, FALSE)
  /\ UNCHANGED <<sup, registered, client, known, recovery, finalizer, adopting, bounds>>

\* The stop is over, whatever came of it: the worker is registered again if
\* its recovery still wants it.
Cleaned(l) ==
  /\ launch[l].pc = "cleaning"
  /\ stop[l].pc \in {"done", "failed"}
  /\ stop' = [stop EXCEPT ![l] = IdleStop]
  /\ launch' = [launch EXCEPT ![l] = IdleLaunch]
  /\ Erred(l)
  /\ IF launch[l].resume /\ Resumable
     THEN /\ intentional' = FALSE
          /\ lifecycle' = "recovering"
          /\ registered' = TRUE
          /\ disk' = mem
     ELSE UNCHANGED <<intentional, lifecycle, registered, disk>>
  /\ UNCHANGED <<proc, sup, mem, client, known, finalizer, adopting, revised, bounds>>

LaunchStep(l) ==
  Publish(l) \/ Unpublished(l) \/ Connect(l) \/ Finish(l) \/ Abort(l) \/ Cleaned(l)

-----------------------------------------------------------------------------
(* recoverWorker, single flight                                            *)

\* The retry delay is over.  A new worker that lost its connection has been
\* rolled back long before.
Attempt ==
  /\ recovery.pc = "delay"
  /\ launch["create"].pc # "creating"
  /\ recovery' = IF isWorkerRecoveryCancelled THEN IdleRecovery
                 ELSE [recovery EXCEPT !.pc = IF Alive(mem.pid) THEN "connecting" ELSE "reaped"]
  /\ UNCHANGED <<proc, disk, sup, worker, launch, stop, finalizer, adopting, revised, bounds>>

\* The process answers after all.
Reconnected ==
  /\ recovery.pc = "connecting"
  /\ proc[mem.pid] = "up"
  /\ client' = mem.pid
  /\ known' = TRUE
  /\ IF isWorkerRecoveryCancelled
     THEN recovery' = IdleRecovery /\ UNCHANGED <<lifecycle, disk>>
     ELSE recovery' = EndRecovery /\ lifecycle' = "ready" /\ disk' = mem
  /\ UNCHANGED <<proc, sup, registered, mem, intentional, launch, stop, finalizer, adopting,
                 revised, bounds>>

\* Mutated Unanswered: the last attempt leaves the old process alone.
UnansweredUnkilled ==
  /\ recovery.pc = "connecting"
  /\ MayLoseClient
  /\ client' = NoProcess
  /\ stop' = AskedFail(Task)
  /\ recovery' = [recovery EXCEPT !.pc = IF recovery.tries < Attempts - 1 THEN "erred" ELSE "reaped"]
  /\ UNCHANGED <<proc, disk, sup, registered, mem, intentional, lifecycle, known, launch,
                 finalizer, adopting, revised, bounds>>

\* It does not; on the last attempt it is killed and its orphans are reaped.
Unanswered ==
  /\ recovery.pc = "connecting"
  /\ MayLoseClient
  /\ client' = NoProcess
  /\ stop' = AskedFail(Task)
  /\ IF recovery.tries < Attempts - 1
     THEN /\ recovery' = [recovery EXCEPT !.pc = "erred"]
          /\ UNCHANGED proc
     ELSE /\ recovery' = [recovery EXCEPT !.pc = "reaped"]
          /\ proc' = IF Alive(mem.pid) THEN [proc EXCEPT ![mem.pid] = "gone"] ELSE proc
  /\ UNCHANGED <<disk, sup, registered, mem, intentional, lifecycle, known, launch,
                 finalizer, adopting, revised, bounds>>

\* Mutated NextAttempt: a failed attempt ends the recovery.
NoNextAttempt ==
  /\ recovery.pc = "erred"
  /\ MayLoseClient
  /\ client' = IF isWorkerRecoveryCancelled THEN client ELSE NoProcess
  /\ stop' = IF isWorkerRecoveryCancelled THEN stop ELSE AskedFail(Task)
  /\ disk' = IF isWorkerRecoveryCancelled THEN disk ELSE mem
  /\ recovery' = IdleRecovery
  /\ UNCHANGED <<proc, sup, registered, mem, intentional, lifecycle, known, launch,
                 finalizer, adopting, revised, bounds>>

\* An attempt failed; after the last one the worker is given up.
NextAttempt ==
  /\ recovery.pc = "erred"
  /\ MayLoseClient
  /\ IF isWorkerRecoveryCancelled
     THEN /\ recovery' = IdleRecovery
          /\ UNCHANGED <<client, stop, disk>>
     ELSE /\ client' = NoProcess
          /\ stop' = AskedFail(Task)
          /\ disk' = mem
          /\ recovery' = [pc |-> IF recovery.tries + 1 < Attempts THEN "delay" ELSE "failing",
                          tries |-> recovery.tries + 1]
  /\ UNCHANGED <<proc, sup, registered, mem, intentional, lifecycle, known, launch,
                 finalizer, adopting, revised, bounds>>

\* Nothing is asked again before the failure is recorded.
Failed ==
  /\ recovery.pc = "failing"
  /\ lifecycle' = "failed"
  /\ disk' = mem
  /\ recovery' = EndRecovery
  /\ UNCHANGED <<proc, sup, registered, mem, intentional, client, known, launch, stop,
                 finalizer, adopting, revised, bounds>>

\* The other workers are informed, and only now is the recovery over.
Synced ==
  /\ recovery.pc = "syncing"
  /\ recovery' = IdleRecovery
  /\ UNCHANGED <<proc, disk, sup, worker, launch, stop, finalizer, adopting, revised, bounds>>

RecoveryStep ==
  Attempt \/ Reconnected \/ Unanswered \/ Relaunch \/ NextAttempt \/ Failed \/ Synced

-----------------------------------------------------------------------------
(* The worker process and its connection                                   *)

\* A worker dies, hangs, or quits on a signal from outside.
Trouble(p) ==
  /\ deaths < MaxDeaths
  /\ deaths' = deaths + 1
  /\ proc[p] \in {"up", "hung"}
  /\ client # p \/ MayLoseClient
  /\ \/ proc' = [proc EXCEPT ![p] = "gone"]
     \/ proc[p] = "up" /\ \E s \in {"hung", "leaving"} : proc' = [proc EXCEPT ![p] = s]
  /\ UNCHANGED <<disk, sup, worker, tasks, crashes, retries>>

\* A worker that shuts down has exited.
Leave(p) ==
  /\ proc[p] = "leaving"
  /\ client # p \/ MayLoseClient
  /\ proc' = [proc EXCEPT ![p] = "gone"]
  /\ UNCHANGED <<disk, sup, worker, tasks, bounds>>

\* session_closed of the root session for reason "shutdown": an active stop
\* keeps the registration, otherwise the worker is forgotten here.
SessionClosed ==
  /\ sup = "up"
  /\ client # NoProcess
  /\ proc[client] = "leaving"
  /\ intentional' = TRUE
  /\ IF NoStops
     THEN registered' = FALSE /\ disk' = NoDescriptor
     ELSE UNCHANGED <<registered, disk>>
  /\ UNCHANGED <<proc, sup, mem, lifecycle, client, known, tasks, bounds>>

\* handleWorkerClose, and the rejection of the requests under way.
WorkerClosed ==
  /\ client # NoProcess
  /\ proc[client] = "gone"
  /\ client' = NoProcess
  /\ stop' = AskedFail(Task)
  /\ IF isWorkerRecoveryCancelled \/ recovery.pc # "idle"
     THEN UNCHANGED <<lifecycle, disk, recovery>>
     ELSE /\ lifecycle' = "recovering"
          /\ disk' = mem
          /\ recovery' = StartRecovery
  /\ UNCHANGED <<proc, sup, registered, mem, intentional, known, launch, finalizer, adopting,
                 revised, bounds>>

-----------------------------------------------------------------------------
(* The supervisor process                                                  *)

\* Its memory is lost, and children at their startup gate exit.
Down ==
  /\ sup' = "down"
  /\ proc' = [p \in Process |-> IF proc[p] = "gated" THEN "gone" ELSE proc[p]]
  /\ registered' = FALSE
  /\ mem' = NoDescriptor
  /\ intentional' = FALSE
  /\ lifecycle' = "recovering"
  /\ client' = NoProcess
  /\ known' = FALSE
  /\ recovery' = IdleRecovery
  /\ launch' = [l \in Launcher |-> IdleLaunch]
  /\ stop' = [t \in Task |-> IF t \in Stopper /\ stop[t].pc # "idle" THEN Ended(t, "done") ELSE IdleStop]
  /\ finalizer' = IdleFinalizer
  /\ adopting' = FALSE
  /\ revised' = {}
  /\ UNCHANGED <<disk, deaths, retries>>

Crash ==
  /\ sup # "down"
  /\ crashes < MaxCrashes
  /\ crashes' = crashes + 1
  /\ Down

\* The end of shutdown().
Exit ==
  /\ sup = "closing"
  /\ \A s \in Stopper : ~Stopping(s)
  /\ Down
  /\ UNCHANGED crashes

\* A new supervisor loads the descriptor.
Start ==
  /\ sup = "down"
  /\ sup' = "up"
  /\ mem' = disk
  /\ registered' = (disk # NoDescriptor)
  /\ intentional' = disk.stop
  /\ adopting' = (disk # NoDescriptor)
  /\ UNCHANGED <<proc, disk, lifecycle, client, known, recovery, launch, stop, finalizer, revised,
                 bounds>>

\* adoptOrRecoverWorker: a tombstoned worker is stopped,
AdoptTombstoned ==
  /\ adopting
  /\ stop["adoption"].pc = "idle"
  /\ mem.stop
  /\ Enter("adoption", FALSE)
  /\ UNCHANGED <<sup, registered, client, known, recovery, launch, finalizer, adopting, bounds>>

\* another one is connected to,
AdoptRunning ==
  /\ adopting
  /\ ~mem.stop
  /\ proc[mem.pid] = "up"
  /\ client' = mem.pid
  /\ known' = TRUE
  /\ lifecycle' = "ready"
  /\ disk' = mem
  /\ adopting' = FALSE
  /\ UNCHANGED <<proc, sup, registered, mem, intentional, recovery, launch, stop, finalizer,
                 revised, bounds>>

\* or recovered if that fails.
AdoptLost ==
  /\ adopting
  /\ ~mem.stop
  /\ recovery' = IF isWorkerRecoveryCancelled THEN recovery ELSE StartRecovery
  /\ adopting' = FALSE
  /\ UNCHANGED <<proc, disk, sup, worker, launch, stop, finalizer, revised, bounds>>

Adopt == AdoptTombstoned \/ AdoptRunning \/ AdoptLost

\* The stop found on disk is complete, or the worker is marked failed.
Adopted ==
  /\ adopting
  /\ stop["adoption"].pc \in {"done", "failed"}
  /\ adopting' = FALSE
  /\ stop' = [stop EXCEPT !["adoption"] = IdleStop]
  /\ IF stop["adoption"].pc = "failed"
     THEN lifecycle' = "failed" /\ disk' = mem
     ELSE UNCHANGED <<lifecycle, disk>>
  /\ UNCHANGED <<proc, sup, registered, mem, intentional, client, known, recovery, launch,
                 finalizer, revised, bounds>>

-----------------------------------------------------------------------------

Init ==
  /\ proc = [p \in Process |-> "unborn"]
  /\ disk = NoDescriptor
  /\ sup = "up"
  /\ registered = FALSE
  /\ mem = NoDescriptor
  /\ intentional = FALSE
  /\ lifecycle = "recovering"
  /\ client = NoProcess
  /\ known = FALSE
  /\ recovery = IdleRecovery
  /\ launch = [l \in Launcher |-> IdleLaunch]
  /\ stop = [t \in Task |-> IdleStop]
  /\ finalizer = IdleFinalizer
  /\ adopting = FALSE
  /\ revised = {}
  /\ deaths = 0 /\ crashes = 0 /\ retries = 0

Next ==
  \/ \E t \in Task : StopStep(t)
  \/ \E s \in Stopper : Kill(s) \/ Forwarded(s) \/ Evict(s) \/ Shutdown(s)
  \/ \E l \in Launcher : LaunchStep(l)
  \/ \E p \in Process : Trouble(p) \/ Leave(p)
  \/ Create \/ Retry \/ Reopen
  \/ FinalizerStep \/ RecoveryStep
  \/ SessionClosed \/ WorkerClosed
  \/ Crash \/ Exit \/ Start \/ Adopt \/ Adopted

Spec == Init /\ [][Next]_vars

\* Every function under way goes on, a process told to shut down exits, and
\* when a supervisor is gone a worker or a client starts the next one.  What the
\* finalizer tries again and again succeeds at last: the catalog recovers.
Fairness ==
  /\ \A t \in Task : WF_vars(StopStep(t))
  /\ \A s \in Stopper : WF_vars(Forwarded(s))
  /\ \A l \in Launcher : WF_vars(LaunchStep(l))
  /\ \A p \in Process : WF_vars(Leave(p))
  /\ WF_vars(RecoveryStep) /\ WF_vars(FinalizerStep)
  /\ SF_vars(Archived("finalizer") /\ ~registered')
  /\ WF_vars(WorkerClosed)
  /\ WF_vars(Exit) /\ WF_vars(Start) /\ WF_vars(Adopt) /\ WF_vars(Adopted)

LiveSpec == Spec /\ Fairness

-----------------------------------------------------------------------------
(* Properties                                                              *)

AnyProcess == Process \cup {NoProcess}
ProcessState == {"unborn", "gated", "up", "hung", "leaving", "gone"}
Descriptor == [pid : AnyProcess, stop : BOOLEAN, archive : BOOLEAN]
RecoveryState ==
  [pc : {"idle", "delay", "connecting", "reaped", "launching", "erred", "failing", "syncing"},
   tries : 0..Attempts]
LaunchState ==
  [pc : {"idle", "spawned", "starting", "creating", "cleaning"}, child : AnyProcess, resume : BOOLEAN]
StopState ==
  [pc : {"idle", "forwarding", "asking", "waiting", "archiving", "failed", "done"}, pid : AnyProcess]
FinalizerState == [pc : {"idle", "waiting", "cleanup"}, pid : AnyProcess]

TypeOK ==
  /\ proc \in [Process -> ProcessState]
  /\ disk \in Descriptor /\ mem \in Descriptor
  /\ sup \in {"down", "up", "closing"}
  /\ registered \in BOOLEAN /\ intentional \in BOOLEAN /\ known \in BOOLEAN /\ adopting \in BOOLEAN
  /\ lifecycle \in {"starting", "ready", "recovering", "failed"}
  /\ client \in AnyProcess
  /\ recovery \in RecoveryState
  /\ launch \in [Launcher -> LaunchState]
  /\ stop \in [Task -> StopState]
  /\ finalizer \in FinalizerState
  /\ revised \in SUBSET {"recovery", "finalizer"}
  /\ deaths \in 0..MaxDeaths /\ crashes \in 0..MaxCrashes /\ retries \in 0..MaxRetries

\* A worker that runs is the one its descriptor file names, so any later
\* supervisor can find it, and no two processes run one session.
RunningIsRecorded == \A p \in Process : Running(p) => disk.pid = p

\* What the strengthening consists of.  The descriptor in memory is the one
\* on disk unless that was deleted, and a running process is in both.
MemoryInv ==
  /\ sup # "down" => disk \in {mem, NoDescriptor}
  /\ sup # "down" => \A p \in Process : Running(p) => mem.pid = p
  /\ \A p \in {mem.pid, disk.pid} \cap Process : proc[p] \notin {"unborn", "gated"}
  /\ (registered \/ adopting \/ recovery.pc # "idle") => mem.pid \in Process
  /\ \A d \in {mem, disk} : d.pid = NoProcess => d = NoDescriptor

\* Without a supervisor nothing is under way.
DownInv ==
  sup = "down" =>
    /\ ~registered /\ ~adopting
    /\ mem = NoDescriptor
    /\ client = NoProcess
    /\ recovery = IdleRecovery
    /\ launch = [l \in Launcher |-> IdleLaunch]
    /\ \A t \in Task : ~Stopping(t)

\* A connection to a process that still exists is one to the current one.
ClientInv ==
  client \in Process => /\ proc[client] \in {"up", "hung", "leaving", "gone"}
                        /\ proc[client] # "gone" => client = mem.pid

\* A child waits at its gate until its predecessor is gone, and at most one
\* launch is that far.
LaunchInv ==
  /\ (launch["recovery"].pc # "idle") <=> (recovery.pc = "launching")
  /\ recovery.pc # "failing" => recovery.tries < Attempts
  /\ \A l \in Launcher : launch[l].pc # "idle" => launch[l].child \in Process
  /\ \A l \in Launcher : launch[l].pc \in {"starting", "creating", "cleaning"} => mem.pid \in Process
  /\ \A l \in Launcher : launch[l].pc = "spawned" => proc[launch[l].child] = "gated"
  /\ (recovery.pc = "reaped" \/ launch["recovery"].pc = "spawned") => ~Alive(mem.pid)
  /\ launch["create"].pc = "spawned" => ~registered /\ mem = NoDescriptor
  /\ launch["create"].pc \in {"spawned", "starting"} => recovery.pc = "idle" /\ client = NoProcess
  /\ launch["create"].pc = "creating" => recovery.pc \in {"idle", "delay"}
  /\ launch["create"].pc \in {"spawned", "starting", "creating"} => ~adopting
  /\ ~launch["create"].resume

\* A stop is about a worker that was launched; one that waits for the archive
\* works on a dead process.
StopInv ==
  \A t \in Task :
    /\ stop[t].pid \in Process => proc[stop[t].pid] \notin {"unborn", "gated"}
    /\ stop[t].pc = "archiving" => ~Alive(stop[t].pid)
    /\ Stopping(t) => mem.pid \in Process

\* RunningIsRecorded and what it takes to be inductive.
IInv ==
  TypeOK /\ RunningIsRecorded /\ MemoryInv /\ DownInv /\ ClientInv /\ LaunchInv /\ StopInv

\* A stop under way has its tombstone, and a relaunch has none.
StopsAreMarked ==
  /\ \A t \in Task : Stopping(t) /\ Removes(t) => mem.stop
  /\ launch["recovery"].pc = "spawned" => ~mem.stop

\* "Durable intent written before root termination so replacement supervisors
\* never recover it": only a retry takes the tombstone off a descriptor.
TombstoneStays ==
  [][disk.stop => \/ disk'.stop
                  \/ disk' = NoDescriptor
                  \/ retries' = retries + 1]_vars

\* A requested stop is carried out or taken back: "finish the interrupted
\* cleanup instead of leaving a dead worker registered forever".  It is false of a
\* stop whose client is lost while it asks (LoseWhenAsked), whose own archival fails
\* (UnreliableArchive), or that times out while the finalizer of an earlier one,
\* whose archival failed, still sleeps.
StopsFinish ==
  disk.stop ~> (~disk.stop \/ (sup = "up" /\ ~registered /\ \A p \in Process : ~Running(p)))

\* A worker that lost its connection becomes ready again, is given up or is
\* stopped.  It is false of a connection lost while a recovery that has done its
\* work has not yet ended (DisturbEnd).
RecoverySettles ==
  (sup = "up" /\ registered /\ ~mem.stop /\ client = NoProcess)
    ~> (\/ client # NoProcess \/ lifecycle = "failed" \/ ~registered \/ mem.stop \/ sup # "up")

=============================================================================
