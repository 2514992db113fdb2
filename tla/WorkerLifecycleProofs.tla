------------------------ MODULE WorkerLifecycleProofs ------------------------
(***************************************************************************)
(* What holds of a resident worker for every number of processes, stop     *)
(* commands, retries and crashes.                                          *)
(*                                                                         *)
(* WorkerInvariance is the inductive invariant IInv: one lemma per action, *)
(* with one step per conjunct that the action may disturb.  That a running *)
(* worker is the one its descriptor file names is a part of it.  The rest  *)
(* is about tombstones: a stop under way keeps its tombstone               *)
(* (StopsStayMarked), hence none is lost but to a retry (TombstonesStay),  *)
(* both under the assumption that no stop arrives while a relaunch         *)
(* prepares its descriptor.                                                *)
(***************************************************************************)
EXTENDS WorkerLifecycle, TLAPS

USE WorkerAssumption DEF NoProcess

\* The descriptors that the supervisor writes.
LEMMA DescriptorForms ==
  ASSUME NEW d \in Descriptor, NEW p \in AnyProcess, NEW b \in BOOLEAN
  PROVE  /\ NoDescriptor \in Descriptor
         /\ [d EXCEPT !.stop = TRUE, !.archive = @ \/ b] \in Descriptor
         /\ [d EXCEPT !.stop = FALSE, !.archive = FALSE] \in Descriptor
         /\ [pid |-> p, stop |-> FALSE, archive |-> FALSE] \in Descriptor
BY DEF Descriptor, NoDescriptor, AnyProcess

\* A stop goes on when its request was answered.
LEMMA AskedPreserves ==
  ASSUME NEW t \in Task, IInv, Asked(t)
  PROVE  IInv'
<1> USE DEF IInv, Asked, Alive, AskedFail, Task, bounds, Ended, Launcher, IdleStop
<1>1. TypeOK'
  BY DEF TypeOK, ProcessState, Descriptor, AnyProcess, RecoveryState, LaunchState, StopState,
    FinalizerState
<1>2. RunningIsRecorded'
  BY DEF RunningIsRecorded, Running
<1>3. MemoryInv'
  BY DEF MemoryInv, NoDescriptor, Running
<1>4. DownInv'
  BY DEF DownInv, NoDescriptor, IdleRecovery, IdleLaunch, Stopping
<1>5. ClientInv'
  BY DEF ClientInv
<1>6. LaunchInv'
  BY DEF LaunchInv, NoDescriptor
<1>7. StopInv'
  <2>1. \A u \in Task : stop'[u].pid \in Process => stop[u].pid = stop'[u].pid
    BY DEF TypeOK, StopState
  <2>2. \A u \in Task : stop'[u].pc = "archiving" => stop[u].pc = "archiving"
    BY DEF TypeOK, StopState
  <2>3. \A u \in Task : Stopping(u)' => Stopping(u)
    BY DEF TypeOK, StopState, Stopping
  <2>4. mem' = mem /\ \A p \in Process : proc'[p] \in {"unborn", "gated"} => proc'[p] = proc[p]
    BY DEF TypeOK
  <2>5. \A p \in Process : ~(proc[p] \in {"gated", "up", "hung", "leaving"}) => proc'[p] = proc[p]
    BY DEF TypeOK
  <2> QED
    BY <2>1, <2>2, <2>3, <2>4, <2>5 DEF StopInv
<1> QED
  BY <1>1, <1>2, <1>3, <1>4, <1>5, <1>6, <1>7

\* A stop whose process is gone completes, is archived or fails.
LEMMA StoppedPreserves ==
  ASSUME NEW t \in Task, IInv, Stopped(t)
  PROVE  IInv'
<1> USE DEF IInv, Stopped, Alive, StopStillApplies, Fail, Complete, Removes, bounds, Ended,
    NoDescriptor, IdleStop
<1>1. TypeOK'
  <2>1. disk' \in Descriptor
    <3>1. disk' = disk \/ disk' = NoDescriptor
      OBVIOUS
    <3> QED
      BY <3>1, DescriptorForms DEF TypeOK, AnyProcess
  <2>2. registered' \in BOOLEAN
    BY DEF TypeOK, ProcessState, Descriptor, AnyProcess, RecoveryState, Launcher, LaunchState,
      Task, StopState, FinalizerState
  <2>3. stop' \in [Task -> StopState]
    BY DEF TypeOK, ProcessState, Descriptor, AnyProcess, RecoveryState, Launcher, LaunchState,
      Task, StopState, FinalizerState
  <2> QED
    BY <2>1, <2>2, <2>3 DEF TypeOK, ProcessState, Descriptor, AnyProcess, RecoveryState,
      Launcher, LaunchState, Task, StopState, FinalizerState
<1>2. RunningIsRecorded'
  BY DEF TypeOK, RunningIsRecorded, MemoryInv, DownInv, ClientInv, LaunchInv, StopInv,
    ProcessState, Descriptor, AnyProcess, RecoveryState, Launcher, LaunchState, Task, StopState,
    FinalizerState, Running, IdleRecovery, IdleLaunch, Stopping
<1>3. MemoryInv'
  BY DEF MemoryInv, Running
<1>4. DownInv'
  BY DEF DownInv, IdleRecovery, Launcher, IdleLaunch, Task, Stopping
<1>5. ClientInv'
  BY DEF ClientInv
<1>6. LaunchInv'
  BY DEF LaunchInv, Launcher
<1>7. StopInv'
  BY DEF TypeOK, StopInv, ProcessState, Descriptor, AnyProcess, RecoveryState, Launcher,
    LaunchState, Task, StopState, FinalizerState, Stopping
<1> QED
  BY <1>1, <1>2, <1>3, <1>4, <1>5, <1>6, <1>7

\* An archived stop completes or fails.
LEMMA ArchivedPreserves ==
  ASSUME NEW t \in Task, IInv, Archived(t)
  PROVE  IInv'
<1> USE DEF IInv, Archived, StopStillApplies, Complete, Fail, bounds, Removes, NoDescriptor,
    Ended, IdleStop
<1>1. TypeOK'
  <2>1. disk' \in Descriptor
    <3>1. disk' = disk \/ disk' = NoDescriptor
      OBVIOUS
    <3> QED
      BY <3>1, DescriptorForms DEF TypeOK, AnyProcess
  <2>2. registered' \in BOOLEAN
    BY DEF TypeOK, ProcessState, Descriptor, AnyProcess, RecoveryState, Launcher, LaunchState,
      Task, StopState, FinalizerState
  <2>3. stop' \in [Task -> StopState]
    BY DEF TypeOK, ProcessState, Descriptor, AnyProcess, RecoveryState, Launcher, LaunchState,
      Task, StopState, FinalizerState
  <2> QED
    BY <2>1, <2>2, <2>3 DEF TypeOK, ProcessState, Descriptor, AnyProcess, RecoveryState,
      Launcher, LaunchState, Task, StopState, FinalizerState
<1>2. RunningIsRecorded'
  BY DEF TypeOK, RunningIsRecorded, MemoryInv, DownInv, ClientInv, LaunchInv, StopInv,
    ProcessState, Descriptor, AnyProcess, RecoveryState, Launcher, LaunchState, Task, StopState,
    FinalizerState, Running, IdleRecovery, IdleLaunch, Stopping, Alive
<1>3. MemoryInv'
  BY DEF MemoryInv, Running
<1>4. DownInv'
  BY DEF DownInv, IdleRecovery, Launcher, IdleLaunch, Task, Stopping
<1>5. ClientInv'
  BY DEF ClientInv
<1>6. LaunchInv'
  BY DEF LaunchInv, Launcher, Alive
<1>7. StopInv'
  BY DEF TypeOK, StopInv, ProcessState, Descriptor, AnyProcess, RecoveryState, Launcher,
    LaunchState, Task, StopState, FinalizerState, Alive, Stopping
<1> QED
  BY <1>1, <1>2, <1>3, <1>4, <1>5, <1>6, <1>7

\* A kill ends a process.
LEMMA ForceKillPreserves ==
  ASSUME NEW t \in Task, IInv, ForceKill(t)
  PROVE  IInv'
<1> USE DEF IInv, ForceKill, Forced, Alive, worker, tasks, bounds
<1>1. TypeOK'
  BY DEF TypeOK, ProcessState, Descriptor, AnyProcess, RecoveryState, Launcher, LaunchState,
    Task, StopState, FinalizerState
<1>2. RunningIsRecorded'
  BY DEF RunningIsRecorded, Running
<1>3. MemoryInv'
  BY DEF TypeOK, MemoryInv, ProcessState, Descriptor, AnyProcess, RecoveryState, Launcher,
    LaunchState, Task, StopState, FinalizerState, NoDescriptor, Running
<1>4. DownInv'
  BY DEF DownInv, NoDescriptor, IdleRecovery, Launcher, IdleLaunch, Task, Stopping
<1>5. ClientInv'
  BY DEF ClientInv
<1>6. LaunchInv'
  BY DEF TypeOK, RunningIsRecorded, MemoryInv, LaunchInv, StopInv, ProcessState, Descriptor,
    AnyProcess, RecoveryState, Launcher, LaunchState, Task, StopState, FinalizerState, Running,
    NoDescriptor, Stopping
<1>7. StopInv'
  BY DEF TypeOK, StopInv, ProcessState, Descriptor, AnyProcess, RecoveryState, Launcher,
    LaunchState, Task, StopState, FinalizerState, Stopping
<1> QED
  BY <1>1, <1>2, <1>3, <1>4, <1>5, <1>6, <1>7

\* A stop that times out only schedules the finalizer.
LEMMA TimeOutPreserves ==
  ASSUME NEW t \in Task, IInv, TimeOut(t)
  PROVE  IInv'
<1> USE DEF IInv, TimeOut, Forced, Alive, FinalizerDue, Ended, Schedule, bounds, IdleStop
<1>1. TypeOK'
  BY DEF TypeOK, ProcessState, Descriptor, AnyProcess, RecoveryState, Launcher, LaunchState,
    Task, StopState, FinalizerState
<1>2. RunningIsRecorded'
  BY DEF RunningIsRecorded, Running
<1>3. MemoryInv'
  BY DEF MemoryInv, NoDescriptor, Running
<1>4. DownInv'
  BY DEF DownInv, NoDescriptor, IdleRecovery, Launcher, IdleLaunch, Task, Stopping
<1>5. ClientInv'
  BY DEF ClientInv
<1>6. LaunchInv'
  BY DEF LaunchInv, Launcher, NoDescriptor
<1>7. StopInv'
  BY DEF StopInv, Task, Stopping, Launcher
<1> QED
  BY <1>1, <1>2, <1>3, <1>4, <1>5, <1>6, <1>7

\* What a tombstone is.
LEMMA TombstoneForm ==
  ASSUME TypeOK, NEW b \in BOOLEAN
  PROVE  Tombstone(b) \in Descriptor /\ Tombstone(b).pid = mem.pid /\ Tombstone(b).stop
<1>1. mem \in [pid : AnyProcess, stop : BOOLEAN, archive : BOOLEAN]
  BY DEF TypeOK, Descriptor
<1> QED
  BY <1>1 DEF Tombstone, Descriptor

\* A stop leaves everything it writes well typed.
LEMMA EnterTypes ==
  ASSUME TypeOK, NEW t \in Task, NEW b \in BOOLEAN, Enter(t, b)
  PROVE  /\ mem' \in Descriptor /\ disk' \in Descriptor
         /\ proc' \in [Process -> ProcessState]
         /\ stop' \in [Task -> StopState]
         /\ intentional' \in BOOLEAN
         /\ lifecycle' \in {"starting", "ready", "recovering", "failed"}
         /\ revised' \in SUBSET {"recovery", "finalizer"}
<1>1. mem' \in Descriptor /\ disk' \in Descriptor
  BY TombstoneForm DEF TypeOK, Enter, Persist
<1>2. proc' \in [Process -> ProcessState]
  BY DEF TypeOK, Enter, ProcessState
<1>3. stop' \in [Task -> StopState]
  BY DEF TypeOK, Enter, StopState, Descriptor
<1>4. /\ intentional' \in BOOLEAN
      /\ lifecycle' \in {"starting", "ready", "recovering", "failed"}
      /\ revised' \in SUBSET {"recovery", "finalizer"}
  BY DEF TypeOK, Enter
<1> QED
  BY <1>1, <1>2, <1>3, <1>4

\* A kill writes it, whether it is forwarded or not.
LEMMA KillMarks ==
  ASSUME NEW s \in Stopper, TypeOK, Kill(s)
  PROVE  /\ mem' \in Descriptor /\ mem'.pid = mem.pid /\ mem'.stop /\ disk' = mem'
         /\ StopDuringRelaunch \/ launch["recovery"].pc # "spawned"
         /\ UNCHANGED launch
<1>1. mem' = Tombstone(TRUE) /\ disk' = mem' /\ MayStop(s) /\ UNCHANGED launch
  BY DEF Kill, Enter, Removes, Persist
<1> QED
  BY <1>1, TombstoneForm DEF MayStop

\* A kill writes its tombstone.
LEMMA KillPreserves ==
  ASSUME NEW s \in Stopper, IInv, Kill(s)
  PROVE  IInv'
<1> USE DEF IInv, bounds, Alive
<1>1. CASE client # NoProcess /\ lifecycle = "ready"
  <2>0. /\ sup = "up" /\ registered
        /\ mem' = Tombstone(TRUE) /\ disk' = mem' /\ mem'.pid = mem.pid
        /\ intentional' = TRUE
        /\ stop' = [stop EXCEPT ![s].pc = "forwarding"]
        /\ UNCHANGED <<proc, lifecycle, revised, sup, registered, client, known, recovery, launch,
                       finalizer, adopting, bounds>>
    BY <1>1, TombstoneForm DEF Kill, MayStop, Persist
  <2>1. TypeOK'
    <3>1. stop' \in [Task -> StopState]
      BY <2>0 DEF TypeOK, StopState
    <3>2. mem' \in Descriptor /\ disk' \in Descriptor
      BY KillMarks
    <3> QED
      BY <2>0, <3>1, <3>2 DEF TypeOK
  <2>2. RunningIsRecorded'
    BY <2>0 DEF TypeOK, RunningIsRecorded, MemoryInv, LaunchInv, ProcessState, Descriptor,
      AnyProcess, RecoveryState, Launcher, LaunchState, Task, StopState, FinalizerState, Running,
      NoDescriptor
  <2>3. MemoryInv'
    BY <2>0 DEF TypeOK, MemoryInv, Descriptor, AnyProcess, NoDescriptor, Running
  <2>4. DownInv'
    BY <2>0 DEF DownInv, NoDescriptor, IdleRecovery, Launcher, IdleLaunch, Task, Stopping
  <2>5. ClientInv'
    BY <2>0 DEF TypeOK, ClientInv, Descriptor, AnyProcess
  <2>6. LaunchInv'
    BY <2>0 DEF TypeOK, LaunchInv, Launcher, NoDescriptor, Descriptor, AnyProcess
  <2>7. StopInv'
    <3>1. mem'.pid \in Process
      BY <2>0 DEF MemoryInv
    <3>2. \A t \in Task : stop'[t].pid = stop[t].pid
      BY <2>0 DEF TypeOK, StopState
    <3>3. \A t \in Task : stop'[t].pc = "archiving" => stop[t].pc = "archiving"
      BY <2>0 DEF TypeOK, StopState
    <3> QED
      BY <2>0, <3>1, <3>2, <3>3 DEF StopInv
  <2> QED
    BY <2>1, <2>2, <2>3, <2>4, <2>5, <2>6, <2>7
<1>2. CASE ~(client # NoProcess /\ lifecycle = "ready")
  <2>0. /\ sup = "up" /\ registered
        /\ Enter(s, TRUE)
        /\ UNCHANGED <<sup, registered, client, known, recovery, launch, finalizer, adopting,
                       bounds>>
    BY <1>2 DEF Kill, MayStop
  <2> USE DEF Enter, Tombstone, Removes, Persist
  <2>1. TypeOK'
    <3>1. s \in Task
      BY DEF Task
    <3> QED
      BY <2>0, <3>1, EnterTypes DEF TypeOK
  <2>2. RunningIsRecorded'
    BY <2>0 DEF TypeOK, RunningIsRecorded, MemoryInv, LaunchInv, ProcessState, Descriptor,
      AnyProcess, RecoveryState, Launcher, LaunchState, Task, StopState, FinalizerState, Running,
      NoDescriptor
  <2>3. MemoryInv'
    BY <2>0 DEF TypeOK, MemoryInv, Descriptor, AnyProcess, NoDescriptor, Running
  <2>4. DownInv'
    BY <2>0 DEF DownInv, NoDescriptor, IdleRecovery, Launcher, IdleLaunch, Task, Stopping
  <2>5. ClientInv'
    BY <2>0 DEF TypeOK, ClientInv, Descriptor, AnyProcess
  <2>6. LaunchInv'
    BY <2>0 DEF TypeOK, LaunchInv, Launcher, NoDescriptor, Descriptor, AnyProcess
  <2>7. StopInv'
    BY <2>0 DEF TypeOK, MemoryInv, LaunchInv, StopInv, ProcessState, Descriptor, AnyProcess,
      RecoveryState, Launcher, LaunchState, Task, StopState, FinalizerState, NoDescriptor,
      Running, Stopping
  <2> QED
    BY <2>1, <2>2, <2>3, <2>4, <2>5, <2>6, <2>7
<1> QED
  BY <1>1, <1>2

\* A kill that was forwarded enters the stop.
LEMMA ForwardedPreserves ==
  ASSUME NEW s \in Stopper, IInv, Forwarded(s)
  PROVE  IInv'
<1> USE DEF IInv, Forwarded, Enter, Tombstone, bounds, Alive, Removes, Persist
<1>1. TypeOK'
  <2>1. proc' \in [Process -> ProcessState]
    BY DEF TypeOK, ProcessState, Descriptor, AnyProcess, RecoveryState, Launcher, LaunchState,
      Task, StopState, FinalizerState
  <2>2. mem' \in Descriptor
    BY DEF TypeOK, ProcessState, Descriptor, AnyProcess, RecoveryState, Launcher, LaunchState,
      Task, StopState, FinalizerState
  <2>3. disk' \in Descriptor
    BY DEF TypeOK, ProcessState, Descriptor, AnyProcess, RecoveryState, Launcher, LaunchState,
      Task, StopState, FinalizerState
  <2>4. intentional' \in BOOLEAN
    BY DEF TypeOK, ProcessState, Descriptor, AnyProcess, RecoveryState, Launcher, LaunchState,
      Task, StopState, FinalizerState
  <2>5. lifecycle' \in {"starting", "ready", "recovering", "failed"}
    BY DEF TypeOK, ProcessState, Descriptor, AnyProcess, RecoveryState, Launcher, LaunchState,
      Task, StopState, FinalizerState
  <2>6. stop' \in [Task -> StopState]
    BY DEF TypeOK, ProcessState, Descriptor, AnyProcess, RecoveryState, Launcher, LaunchState,
      Task, StopState, FinalizerState
  <2>7. revised' \in SUBSET {"recovery", "finalizer"}
    BY DEF TypeOK, ProcessState, Descriptor, AnyProcess, RecoveryState, Launcher, LaunchState,
      Task, StopState, FinalizerState
  <2> QED
    BY <2>1, <2>2, <2>3, <2>4, <2>5, <2>6, <2>7 DEF TypeOK, ProcessState, Descriptor,
      AnyProcess, RecoveryState, Launcher, LaunchState, Task, StopState, FinalizerState
<1>2. RunningIsRecorded'
  BY DEF TypeOK, RunningIsRecorded, MemoryInv, DownInv, ClientInv, LaunchInv, StopInv,
    ProcessState, Descriptor, AnyProcess, RecoveryState, Launcher, LaunchState, Task, StopState,
    FinalizerState, Running, NoDescriptor, IdleRecovery, IdleLaunch, Stopping
<1>3. MemoryInv'
  BY DEF TypeOK, RunningIsRecorded, MemoryInv, LaunchInv, StopInv, ProcessState, Descriptor,
    AnyProcess, RecoveryState, Launcher, LaunchState, Task, StopState, FinalizerState, Running,
    NoDescriptor, Stopping
<1>4. DownInv'
  BY DEF DownInv, NoDescriptor, IdleRecovery, Launcher, IdleLaunch, Task, Stopping
<1>5. ClientInv'
  BY DEF ClientInv
<1>6. LaunchInv'
  BY DEF TypeOK, RunningIsRecorded, MemoryInv, DownInv, ClientInv, LaunchInv, StopInv,
    ProcessState, Descriptor, AnyProcess, RecoveryState, Launcher, LaunchState, Task, StopState,
    FinalizerState, Running, NoDescriptor, IdleRecovery, IdleLaunch, Stopping
<1>7. StopInv'
  BY DEF TypeOK, MemoryInv, LaunchInv, StopInv, ProcessState, Descriptor, AnyProcess,
    RecoveryState, Launcher, LaunchState, Task, StopState, FinalizerState, NoDescriptor,
    Running, Stopping
<1> QED
  BY <1>1, <1>2, <1>3, <1>4, <1>5, <1>6, <1>7

\* An eviction is a stop.
LEMMA EvictPreserves ==
  ASSUME NEW s \in Stopper, IInv, Evict(s)
  PROVE  IInv'
<1> USE DEF IInv, Evict, MayStop, Enter, Tombstone, bounds, Alive, Removes, Persist
<1>1. TypeOK'
  <2>1. s \in Task
    BY DEF Task
  <2> QED
    BY <2>1, EnterTypes DEF TypeOK
<1>2. RunningIsRecorded'
  BY DEF TypeOK, RunningIsRecorded, MemoryInv, LaunchInv, ProcessState, Descriptor, AnyProcess,
    RecoveryState, Launcher, LaunchState, Task, StopState, FinalizerState, Running, NoDescriptor
<1>3. MemoryInv'
  BY DEF MemoryInv, NoDescriptor, Running
<1>4. DownInv'
  BY DEF DownInv, NoDescriptor, IdleRecovery, Launcher, IdleLaunch, Task, Stopping
<1>5. ClientInv'
  BY DEF ClientInv
<1>6. LaunchInv'
  BY DEF LaunchInv, Launcher, NoDescriptor
<1>7. StopInv'
  BY DEF TypeOK, MemoryInv, LaunchInv, StopInv, ProcessState, Descriptor, AnyProcess,
    RecoveryState, Launcher, LaunchState, Task, StopState, FinalizerState, NoDescriptor,
    Running, Stopping
<1> QED
  BY <1>1, <1>2, <1>3, <1>4, <1>5, <1>6, <1>7

\* So is a shutdown.
LEMMA ShutdownPreserves ==
  ASSUME NEW s \in Stopper, IInv, Shutdown(s)
  PROVE  IInv'
<1> USE DEF IInv, Shutdown, MayStop, Enter, Tombstone, bounds, Alive, Removes, Persist
<1>1. TypeOK'
  <2>1. s \in Task
    BY DEF Task
  <2> QED
    BY <2>1, EnterTypes DEF TypeOK
<1>2. RunningIsRecorded'
  BY DEF TypeOK, RunningIsRecorded, MemoryInv, LaunchInv, ProcessState, Descriptor, AnyProcess,
    RecoveryState, Launcher, LaunchState, Task, StopState, FinalizerState, Running, NoDescriptor
<1>3. MemoryInv'
  BY DEF MemoryInv, NoDescriptor, Running
<1>4. DownInv'
  BY DEF DownInv, NoDescriptor, IdleRecovery, Launcher, IdleLaunch, Task, Stopping
<1>5. ClientInv'
  BY DEF ClientInv
<1>6. LaunchInv'
  BY DEF LaunchInv, Launcher, NoDescriptor
<1>7. StopInv'
  BY DEF TypeOK, MemoryInv, LaunchInv, StopInv, ProcessState, Descriptor, AnyProcess,
    RecoveryState, Launcher, LaunchState, Task, StopState, FinalizerState, NoDescriptor,
    Running, Stopping
<1> QED
  BY <1>1, <1>2, <1>3, <1>4, <1>5, <1>6, <1>7

\* A retry takes the tombstone off and starts a recovery.
LEMMA RetryPreserves ==
  ASSUME IInv, Retry
  PROVE  IInv'
<1> USE DEF IInv, Retry, Rescinded, Undisturbed, NoStops, Persist, StartRecovery, Task,
  Stopping, Launcher
<1>1. TypeOK'
  <2>1. mem' \in Descriptor
    BY DEF TypeOK, ProcessState, Descriptor, AnyProcess, RecoveryState, LaunchState, StopState,
      FinalizerState
  <2>2. disk' \in Descriptor
    BY DEF TypeOK, ProcessState, Descriptor, AnyProcess, RecoveryState, LaunchState, StopState,
      FinalizerState
  <2>3. intentional' \in BOOLEAN
    BY DEF TypeOK, ProcessState, Descriptor, AnyProcess, RecoveryState, LaunchState, StopState,
      FinalizerState
  <2>4. lifecycle' \in {"starting", "ready", "recovering", "failed"}
    BY DEF TypeOK, ProcessState, Descriptor, AnyProcess, RecoveryState, LaunchState, StopState,
      FinalizerState
  <2>5. recovery' \in RecoveryState
    BY DEF TypeOK, ProcessState, Descriptor, AnyProcess, RecoveryState, LaunchState, StopState,
      FinalizerState
  <2>6. retries' \in 0..MaxRetries
    BY DEF TypeOK, ProcessState, Descriptor, AnyProcess, RecoveryState, LaunchState, StopState,
      FinalizerState
  <2> QED
    BY <2>1, <2>2, <2>3, <2>4, <2>5, <2>6 DEF TypeOK, ProcessState, Descriptor, AnyProcess,
      RecoveryState, LaunchState, StopState, FinalizerState
<1>2. RunningIsRecorded'
  BY DEF TypeOK, RunningIsRecorded, MemoryInv, LaunchInv, ProcessState, Descriptor, AnyProcess,
    RecoveryState, LaunchState, StopState, FinalizerState, Running, NoDescriptor, Alive
<1>3. MemoryInv'
  BY DEF MemoryInv, NoDescriptor, Running
<1>4. DownInv'
  BY DEF DownInv, NoDescriptor, IdleRecovery, IdleLaunch
<1>5. ClientInv'
  BY DEF ClientInv
<1>6. LaunchInv'
  BY DEF LaunchInv, Alive, NoDescriptor
<1>7. StopInv'
  BY DEF StopInv, Alive
<1> QED
  BY <1>1, <1>2, <1>3, <1>4, <1>5, <1>6, <1>7

\* Opening the session again schedules the finalizer.
LEMMA ReopenPreserves ==
  ASSUME IInv, Reopen
  PROVE  IInv'
<1> USE DEF IInv, Reopen, Alive, Schedule, worker, bounds
<1>1. TypeOK'
  <2>1. finalizer' \in FinalizerState
    BY DEF TypeOK, Descriptor, FinalizerState
  <2>2. revised' \in SUBSET {"recovery", "finalizer"}
    BY DEF TypeOK
  <2> QED
    BY <2>1, <2>2 DEF TypeOK
<1>2. RunningIsRecorded'
  BY DEF RunningIsRecorded, Running
<1>3. MemoryInv'
  BY DEF MemoryInv, NoDescriptor, Running
<1>4. DownInv'
  BY DEF DownInv, NoDescriptor, IdleRecovery, Launcher, IdleLaunch, Task, Stopping
<1>5. ClientInv'
  BY DEF ClientInv
<1>6. LaunchInv'
  BY DEF LaunchInv, Launcher, NoDescriptor
<1>7. StopInv'
  BY DEF StopInv, Task, Stopping, Launcher
<1> QED
  BY <1>1, <1>2, <1>3, <1>4, <1>5, <1>6, <1>7

\* The finalizer kills the process or quits.
LEMMA FinalizerWaitPreserves ==
  ASSUME IInv, FinalizerWait
  PROVE  IInv'
<1> USE DEF IInv, FinalizerWait, Unfinalized, IdleFinalizer, Alive, worker, bounds
<1>1. TypeOK'
  BY DEF TypeOK, ProcessState, Descriptor, AnyProcess, RecoveryState, Launcher, LaunchState,
    Task, StopState, FinalizerState
<1>2. RunningIsRecorded'
  BY DEF TypeOK, RunningIsRecorded, ProcessState, Descriptor, AnyProcess, RecoveryState,
    Launcher, LaunchState, Task, StopState, FinalizerState, Running
<1>3. MemoryInv'
  BY DEF TypeOK, MemoryInv, ProcessState, Descriptor, AnyProcess, RecoveryState, Launcher,
    LaunchState, Task, StopState, FinalizerState, NoDescriptor, Running
<1>4. DownInv'
  BY DEF DownInv, NoDescriptor, IdleRecovery, Launcher, IdleLaunch, Task, Stopping
<1>5. ClientInv'
  BY DEF TypeOK, ClientInv, ProcessState, Descriptor, AnyProcess, RecoveryState, Launcher,
    LaunchState, Task, StopState, FinalizerState
<1>6. LaunchInv'
  BY DEF LaunchInv, Launcher, NoDescriptor
<1>7. StopInv'
  BY DEF TypeOK, StopInv, ProcessState, Descriptor, AnyProcess, RecoveryState, Launcher,
    LaunchState, Task, StopState, FinalizerState, Stopping
<1> QED
  BY <1>1, <1>2, <1>3, <1>4, <1>5, <1>6, <1>7

\* The finalizer stops the worker.
LEMMA FinalizerStopPreserves ==
  ASSUME IInv, FinalizerStop
  PROVE  IInv'
<1> USE DEF IInv, FinalizerStop, Alive, Unfinalized, Enter, Tombstone, bounds, Removes, Persist
<1>1. TypeOK'
  <2>1. "finalizer" \in Task
    BY DEF Task
  <2> QED
    BY <2>1, EnterTypes DEF TypeOK, FinalizerState
<1>2. RunningIsRecorded'
  BY DEF TypeOK, RunningIsRecorded, MemoryInv, LaunchInv, ProcessState, Descriptor, AnyProcess,
    RecoveryState, Launcher, LaunchState, Task, StopState, FinalizerState, Running, NoDescriptor
<1>3. MemoryInv'
  BY DEF MemoryInv, NoDescriptor, Running
<1>4. DownInv'
  BY DEF DownInv, NoDescriptor, IdleRecovery, Launcher, IdleLaunch, Task, Stopping
<1>5. ClientInv'
  BY DEF ClientInv
<1>6. LaunchInv'
  BY DEF LaunchInv, Launcher, NoDescriptor
<1>7. StopInv'
  BY DEF TypeOK, MemoryInv, LaunchInv, StopInv, ProcessState, Descriptor, AnyProcess,
    RecoveryState, Launcher, LaunchState, Task, StopState, FinalizerState, NoDescriptor,
    Running, Stopping
<1> QED
  BY <1>1, <1>2, <1>3, <1>4, <1>5, <1>6, <1>7

\* The finalizer finds nothing to do.
LEMMA FinalizerQuitPreserves ==
  ASSUME IInv, FinalizerQuit
  PROVE  IInv'
<1> USE DEF IInv, FinalizerQuit, Unfinalized, IdleFinalizer, worker, bounds
<1>1. TypeOK'
  BY DEF TypeOK, ProcessState, Descriptor, AnyProcess, RecoveryState, Launcher, LaunchState,
    Task, StopState, FinalizerState
<1>2. RunningIsRecorded'
  BY DEF RunningIsRecorded, Running
<1>3. MemoryInv'
  BY DEF MemoryInv, NoDescriptor, Running
<1>4. DownInv'
  BY DEF DownInv, NoDescriptor, IdleRecovery, Launcher, IdleLaunch, Task, Stopping
<1>5. ClientInv'
  BY DEF ClientInv
<1>6. LaunchInv'
  BY DEF LaunchInv, Launcher, Alive, NoDescriptor
<1>7. StopInv'
  BY DEF StopInv, Task, Alive, Stopping, Launcher
<1> QED
  BY <1>1, <1>2, <1>3, <1>4, <1>5, <1>6, <1>7

\* The finalizer's stop is over.
LEMMA FinalizerStoppedPreserves ==
  ASSUME IInv, FinalizerStopped
  PROVE  IInv'
<1> USE DEF IInv, FinalizerStopped, IdleStop, IdleFinalizer, worker, bounds
<1>1. TypeOK'
  BY DEF TypeOK, ProcessState, Descriptor, AnyProcess, RecoveryState, Launcher, LaunchState,
    Task, StopState, FinalizerState
<1>2. RunningIsRecorded'
  BY DEF RunningIsRecorded, Running
<1>3. MemoryInv'
  BY DEF MemoryInv, NoDescriptor, Running
<1>4. DownInv'
  BY DEF DownInv, NoDescriptor, IdleRecovery, Launcher, IdleLaunch, Task, Stopping
<1>5. ClientInv'
  BY DEF ClientInv
<1>6. LaunchInv'
  BY DEF LaunchInv, Launcher, Alive, NoDescriptor
<1>7. StopInv'
  BY DEF StopInv, Task, Alive, Stopping, Launcher
<1> QED
  BY <1>1, <1>2, <1>3, <1>4, <1>5, <1>6, <1>7

\* The first child is spawned before anything runs.
LEMMA CreatePreserves ==
  ASSUME IInv, Create
  PROVE  IInv'
<1> USE DEF IInv, Create, NoDescriptor, worker, bounds
<1>1. TypeOK'
  BY DEF TypeOK, ProcessState, Descriptor, AnyProcess, RecoveryState, Launcher, LaunchState,
    Task, StopState, FinalizerState
<1>2. RunningIsRecorded'
  BY DEF RunningIsRecorded, Running
<1>3. MemoryInv'
  BY DEF MemoryInv, Running
<1>4. DownInv'
  BY DEF DownInv, IdleRecovery, Launcher, IdleLaunch, Task, Stopping
<1>5. ClientInv'
  BY DEF ClientInv
<1>6. LaunchInv'
  BY DEF TypeOK, RunningIsRecorded, MemoryInv, DownInv, ClientInv, LaunchInv, StopInv,
    ProcessState, Descriptor, AnyProcess, RecoveryState, Launcher, LaunchState, Task, StopState,
    FinalizerState, Running, IdleRecovery, IdleLaunch, Stopping, Alive
<1>7. StopInv'
  BY DEF StopInv, Task, Alive, Stopping, Launcher
<1> QED
  BY <1>1, <1>2, <1>3, <1>4, <1>5, <1>6, <1>7

\* A relaunch spawns a child after its predecessor is gone.
LEMMA RelaunchPreserves ==
  ASSUME IInv, Relaunch
  PROVE  IInv'
<1> USE DEF IInv, Relaunch, isWorkerRecoveryCancelled, IdleRecovery, worker, bounds
<1>1. TypeOK'
  <2>1. proc' \in [Process -> ProcessState]
    BY DEF TypeOK, ProcessState, Descriptor, AnyProcess, RecoveryState, Launcher, LaunchState,
      Task, StopState, FinalizerState
  <2>2. recovery' \in RecoveryState
    BY DEF TypeOK, ProcessState, Descriptor, AnyProcess, RecoveryState, Launcher, LaunchState,
      Task, StopState, FinalizerState
  <2>3. launch' \in [Launcher -> LaunchState]
    <3>1. ASSUME NEW p \in Process,
                 launch' = [launch EXCEPT !["recovery"] =
                              [pc |-> "spawned", child |-> p, resume |-> FALSE]]
          PROVE  launch' \in [Launcher -> LaunchState]
      BY <3>1 DEF TypeOK, LaunchState, AnyProcess, Launcher
    <3> QED
      BY <3>1 DEF TypeOK
  <2>4. revised' \in SUBSET {"recovery", "finalizer"}
    BY DEF TypeOK, ProcessState, Descriptor, AnyProcess, RecoveryState, Launcher, LaunchState,
      Task, StopState, FinalizerState
  <2> QED
    BY <2>1, <2>2, <2>3, <2>4 DEF TypeOK, ProcessState, Descriptor, AnyProcess, RecoveryState,
      Launcher, LaunchState, Task, StopState, FinalizerState
<1>2. RunningIsRecorded'
  BY DEF TypeOK, RunningIsRecorded, ProcessState, Descriptor, AnyProcess, RecoveryState,
    Launcher, LaunchState, Task, StopState, FinalizerState, Running
<1>3. MemoryInv'
  BY DEF TypeOK, MemoryInv, ProcessState, Descriptor, AnyProcess, RecoveryState, Launcher,
    LaunchState, Task, StopState, FinalizerState, NoDescriptor, Running
<1>4. DownInv'
  BY DEF DownInv, NoDescriptor, Launcher, IdleLaunch, Task, Stopping
<1>5. ClientInv'
  BY DEF TypeOK, ClientInv, ProcessState, Descriptor, AnyProcess, RecoveryState, Launcher,
    LaunchState, Task, StopState, FinalizerState
<1>6. LaunchInv'
  BY DEF TypeOK, MemoryInv, LaunchInv, ProcessState, Descriptor, AnyProcess, RecoveryState,
    Launcher, LaunchState, Task, StopState, FinalizerState, NoDescriptor, Running, Alive
<1>7. StopInv'
  BY DEF TypeOK, StopInv, ProcessState, Descriptor, AnyProcess, RecoveryState, Launcher,
    LaunchState, Task, StopState, FinalizerState, Alive, Stopping
<1> QED
  BY <1>1, <1>2, <1>3, <1>4, <1>5, <1>6, <1>7

\* The child that passes its gate is the one the descriptor names.
LEMMA PublishPreserves ==
  ASSUME NEW l \in Launcher, IInv, Publish(l)
  PROVE  IInv'
<1> USE DEF IInv, Publish, Persist, bounds
<1>1. TypeOK'
  <2>1. proc' \in [Process -> ProcessState]
    BY DEF TypeOK, ProcessState, Descriptor, AnyProcess, RecoveryState, Launcher, LaunchState,
      Task, StopState, FinalizerState
  <2>2. mem' \in Descriptor
    BY DEF TypeOK, ProcessState, Descriptor, AnyProcess, RecoveryState, Launcher, LaunchState,
      Task, StopState, FinalizerState
  <2>3. disk' \in Descriptor
    BY DEF TypeOK, ProcessState, Descriptor, AnyProcess, RecoveryState, Launcher, LaunchState,
      Task, StopState, FinalizerState
  <2>4. registered' \in BOOLEAN
    BY DEF TypeOK, ProcessState, Descriptor, AnyProcess, RecoveryState, Launcher, LaunchState,
      Task, StopState, FinalizerState
  <2>5. intentional' \in BOOLEAN
    BY DEF TypeOK, ProcessState, Descriptor, AnyProcess, RecoveryState, Launcher, LaunchState,
      Task, StopState, FinalizerState
  <2>6. lifecycle' \in {"starting", "ready", "recovering", "failed"}
    BY DEF TypeOK, ProcessState, Descriptor, AnyProcess, RecoveryState, Launcher, LaunchState,
      Task, StopState, FinalizerState
  <2>7. launch' \in [Launcher -> LaunchState]
    BY DEF TypeOK, ProcessState, Descriptor, AnyProcess, RecoveryState, Launcher, LaunchState,
      Task, StopState, FinalizerState
  <2> QED
    BY <2>1, <2>2, <2>3, <2>4, <2>5, <2>6, <2>7 DEF TypeOK, ProcessState, Descriptor,
      AnyProcess, RecoveryState, Launcher, LaunchState, Task, StopState, FinalizerState
<1>2. RunningIsRecorded'
  BY DEF TypeOK, RunningIsRecorded, MemoryInv, DownInv, ClientInv, LaunchInv, StopInv,
    ProcessState, Descriptor, AnyProcess, RecoveryState, Launcher, LaunchState, Task, StopState,
    FinalizerState, Running, NoDescriptor, IdleRecovery, IdleLaunch, Stopping, Alive
<1>3. MemoryInv'
  BY DEF TypeOK, MemoryInv, LaunchInv, ProcessState, Descriptor, AnyProcess, RecoveryState,
    Launcher, LaunchState, Task, StopState, FinalizerState, NoDescriptor, Running, Alive
<1>4. DownInv'
  BY DEF DownInv, NoDescriptor, IdleRecovery, Launcher, IdleLaunch, Task, Stopping
<1>5. ClientInv'
  BY DEF TypeOK, MemoryInv, ClientInv, LaunchInv, ProcessState, Descriptor, AnyProcess,
    RecoveryState, Launcher, LaunchState, Task, StopState, FinalizerState, NoDescriptor,
    Running, Alive
<1>6. LaunchInv'
  BY DEF TypeOK, LaunchInv, ProcessState, Descriptor, AnyProcess, RecoveryState, Launcher,
    LaunchState, Task, StopState, FinalizerState, Alive, NoDescriptor
<1>7. StopInv'
  BY DEF TypeOK, MemoryInv, LaunchInv, StopInv, ProcessState, Descriptor, AnyProcess,
    RecoveryState, Launcher, LaunchState, Task, StopState, FinalizerState, NoDescriptor,
    Running, Alive, Stopping
<1> QED
  BY <1>1, <1>2, <1>3, <1>4, <1>5, <1>6, <1>7

\* A child whose gate is closed exits.
LEMMA UnpublishedPreserves ==
  ASSUME NEW l \in Launcher, IInv, Unpublished(l)
  PROVE  IInv'
<1> USE DEF IInv, Unpublished, IdleLaunch, Erred, worker, bounds
<1>1. TypeOK'
  BY DEF TypeOK, MemoryInv, LaunchInv, ProcessState, Descriptor, AnyProcess, RecoveryState,
    Launcher, LaunchState, Task, StopState, FinalizerState, NoDescriptor, Running, Alive
<1>2. RunningIsRecorded'
  BY DEF RunningIsRecorded, Running
<1>3. MemoryInv'
  BY DEF TypeOK, MemoryInv, LaunchInv, ProcessState, Descriptor, AnyProcess, RecoveryState,
    Launcher, LaunchState, Task, StopState, FinalizerState, NoDescriptor, Running, Alive
<1>4. DownInv'
  BY DEF DownInv, NoDescriptor, IdleRecovery, Launcher, Task, Stopping
<1>5. ClientInv'
  BY DEF ClientInv
<1>6. LaunchInv'
  BY DEF TypeOK, LaunchInv, ProcessState, Descriptor, AnyProcess, RecoveryState, Launcher,
    LaunchState, Task, StopState, FinalizerState, Alive, NoDescriptor
<1>7. StopInv'
  BY DEF StopInv, Task, Alive, Stopping, Launcher
<1> QED
  BY <1>1, <1>2, <1>3, <1>4, <1>5, <1>6, <1>7

\* The supervisor connects to the child.
LEMMA ConnectPreserves ==
  ASSUME NEW l \in Launcher, IInv, Connect(l)
  PROVE  IInv'
<1> USE DEF IInv, Connect, bounds
<1>1. TypeOK'
  BY DEF TypeOK, ProcessState, Descriptor, AnyProcess, RecoveryState, Launcher, LaunchState,
    Task, StopState, FinalizerState
<1>2. RunningIsRecorded'
  BY DEF RunningIsRecorded, Running
<1>3. MemoryInv'
  BY DEF MemoryInv, NoDescriptor, Running
<1>4. DownInv'
  BY DEF DownInv, NoDescriptor, IdleRecovery, Launcher, IdleLaunch, Task, Stopping
<1>5. ClientInv'
  BY DEF TypeOK, RunningIsRecorded, MemoryInv, DownInv, ClientInv, LaunchInv, StopInv,
    ProcessState, Descriptor, AnyProcess, RecoveryState, Launcher, LaunchState, Task, StopState,
    FinalizerState, Running, NoDescriptor, IdleRecovery, IdleLaunch, Stopping, Alive
<1>6. LaunchInv'
  BY DEF TypeOK, LaunchInv, ProcessState, Descriptor, AnyProcess, RecoveryState, Launcher,
    LaunchState, Task, StopState, FinalizerState, Alive, NoDescriptor
<1>7. StopInv'
  BY DEF StopInv, Task, Alive, Stopping, Launcher
<1> QED
  BY <1>1, <1>2, <1>3, <1>4, <1>5, <1>6, <1>7

\* The launch is complete.
LEMMA FinishPreserves ==
  ASSUME NEW l \in Launcher, IInv, Finish(l)
  PROVE  IInv'
<1> USE DEF IInv, Finish, EndRecovery, Overtaken, IdleLaunch, IdleRecovery, bounds,
  isWorkerRecoveryCancelled
<1>1. TypeOK'
  BY DEF TypeOK, ProcessState, Descriptor, AnyProcess, RecoveryState, Launcher, LaunchState,
    Task, StopState, FinalizerState
<1>2. RunningIsRecorded'
  BY DEF TypeOK, RunningIsRecorded, MemoryInv, DownInv, ClientInv, LaunchInv, StopInv,
    ProcessState, Descriptor, AnyProcess, RecoveryState, Launcher, LaunchState, Task, StopState,
    FinalizerState, Running, NoDescriptor, Stopping, Alive
<1>3. MemoryInv'
  BY DEF MemoryInv, NoDescriptor, Running
<1>4. DownInv'
  BY DEF DownInv, NoDescriptor, Launcher, Task, Stopping
<1>5. ClientInv'
  BY DEF ClientInv
<1>6. LaunchInv'
  BY DEF TypeOK, LaunchInv, ProcessState, Descriptor, AnyProcess, RecoveryState, Launcher,
    LaunchState, Task, StopState, FinalizerState, Alive, NoDescriptor
<1>7. StopInv'
  BY DEF StopInv, Task, Alive, Stopping, Launcher
<1> QED
  BY <1>1, <1>2, <1>3, <1>4, <1>5, <1>6, <1>7

\* A failed launch is stopped.
LEMMA AbortPreserves ==
  ASSUME NEW l \in Launcher, IInv, Abort(l)
  PROVE  IInv'
<1> USE DEF IInv, Abort, Resumable, Enter, Tombstone, bounds, Alive, Removes, Persist
<1>1. TypeOK'
  <2>1. proc' \in [Process -> ProcessState]
    BY DEF TypeOK, ProcessState, Descriptor, AnyProcess, RecoveryState, Launcher, LaunchState,
      Task, StopState, FinalizerState
  <2>2. mem' \in Descriptor
    BY DEF TypeOK, ProcessState, Descriptor, AnyProcess, RecoveryState, Launcher, LaunchState,
      Task, StopState, FinalizerState
  <2>3. disk' \in Descriptor
    BY DEF TypeOK, ProcessState, Descriptor, AnyProcess, RecoveryState, Launcher, LaunchState,
      Task, StopState, FinalizerState
  <2>4. intentional' \in BOOLEAN
    BY DEF TypeOK, ProcessState, Descriptor, AnyProcess, RecoveryState, Launcher, LaunchState,
      Task, StopState, FinalizerState
  <2>5. lifecycle' \in {"starting", "ready", "recovering", "failed"}
    BY DEF TypeOK, ProcessState, Descriptor, AnyProcess, RecoveryState, Launcher, LaunchState,
      Task, StopState, FinalizerState
  <2>6. launch' \in [Launcher -> LaunchState]
    BY DEF TypeOK, ProcessState, Descriptor, AnyProcess, RecoveryState, Launcher, LaunchState,
      Task, StopState, FinalizerState
  <2>7. stop' \in [Task -> StopState]
    BY DEF TypeOK, ProcessState, Descriptor, AnyProcess, RecoveryState, Launcher, LaunchState,
      Task, StopState, FinalizerState
  <2>8. revised' \in SUBSET {"recovery", "finalizer"}
    BY DEF TypeOK, ProcessState, Descriptor, AnyProcess, RecoveryState, Launcher, LaunchState,
      Task, StopState, FinalizerState
  <2> QED
    BY <2>1, <2>2, <2>3, <2>4, <2>5, <2>6, <2>7, <2>8 DEF TypeOK, ProcessState, Descriptor,
      AnyProcess, RecoveryState, Launcher, LaunchState, Task, StopState, FinalizerState
<1>2. RunningIsRecorded'
  BY DEF TypeOK, RunningIsRecorded, MemoryInv, DownInv, ClientInv, LaunchInv, StopInv,
    ProcessState, Descriptor, AnyProcess, RecoveryState, Launcher, LaunchState, Task, StopState,
    FinalizerState, Running, NoDescriptor, IdleRecovery, IdleLaunch, Stopping
<1>3. MemoryInv'
  BY DEF TypeOK, MemoryInv, LaunchInv, ProcessState, Descriptor, AnyProcess, RecoveryState,
    Launcher, LaunchState, Task, StopState, FinalizerState, NoDescriptor, Running
<1>4. DownInv'
  BY DEF DownInv, NoDescriptor, IdleRecovery, Launcher, IdleLaunch, Task, Stopping
<1>5. ClientInv'
  BY DEF ClientInv
<1>6. LaunchInv'
  BY DEF TypeOK, LaunchInv, ProcessState, Descriptor, AnyProcess, RecoveryState, Launcher,
    LaunchState, Task, StopState, FinalizerState, NoDescriptor
<1>7. StopInv'
  BY DEF TypeOK, MemoryInv, LaunchInv, StopInv, ProcessState, Descriptor, AnyProcess,
    RecoveryState, Launcher, LaunchState, Task, StopState, FinalizerState, NoDescriptor,
    Running, Stopping
<1> QED
  BY <1>1, <1>2, <1>3, <1>4, <1>5, <1>6, <1>7

\* The worker of a failed relaunch may be registered again.
LEMMA CleanedPreserves ==
  ASSUME NEW l \in Launcher, IInv, Cleaned(l)
  PROVE  IInv'
<1> USE DEF IInv, Cleaned, IdleStop, IdleLaunch, Erred, Resumable, bounds
<1>1. TypeOK'
  <2>1. disk' \in Descriptor
    BY DEF TypeOK, ProcessState, Descriptor, AnyProcess, RecoveryState, Launcher, LaunchState,
      Task, StopState, FinalizerState
  <2>2. registered' \in BOOLEAN
    BY DEF TypeOK, ProcessState, Descriptor, AnyProcess, RecoveryState, Launcher, LaunchState,
      Task, StopState, FinalizerState
  <2>3. intentional' \in BOOLEAN
    BY DEF TypeOK, ProcessState, Descriptor, AnyProcess, RecoveryState, Launcher, LaunchState,
      Task, StopState, FinalizerState
  <2>4. lifecycle' \in {"starting", "ready", "recovering", "failed"}
    BY DEF TypeOK, ProcessState, Descriptor, AnyProcess, RecoveryState, Launcher, LaunchState,
      Task, StopState, FinalizerState
  <2>5. recovery' \in RecoveryState
    BY DEF TypeOK, ProcessState, Descriptor, AnyProcess, RecoveryState, Launcher, LaunchState,
      Task, StopState, FinalizerState
  <2>6. launch' \in [Launcher -> LaunchState]
    BY DEF TypeOK, ProcessState, Descriptor, AnyProcess, RecoveryState, Launcher, LaunchState,
      Task, StopState, FinalizerState
  <2>7. stop' \in [Task -> StopState]
    BY DEF TypeOK, ProcessState, Descriptor, AnyProcess, RecoveryState, Launcher, LaunchState,
      Task, StopState, FinalizerState
  <2> QED
    BY <2>1, <2>2, <2>3, <2>4, <2>5, <2>6, <2>7 DEF TypeOK, ProcessState, Descriptor,
      AnyProcess, RecoveryState, Launcher, LaunchState, Task, StopState, FinalizerState
<1>2. RunningIsRecorded'
  BY DEF TypeOK, RunningIsRecorded, MemoryInv, LaunchInv, ProcessState, Descriptor, AnyProcess,
    RecoveryState, Launcher, LaunchState, Task, StopState, FinalizerState, Running,
    NoDescriptor, Alive
<1>3. MemoryInv'
  BY DEF TypeOK, MemoryInv, LaunchInv, ProcessState, Descriptor, AnyProcess, RecoveryState,
    Launcher, LaunchState, Task, StopState, FinalizerState, NoDescriptor, Running, Alive
<1>4. DownInv'
  BY DEF DownInv, NoDescriptor, IdleRecovery, Launcher, Task, Stopping
<1>5. ClientInv'
  BY DEF ClientInv
<1>6. LaunchInv'
  BY DEF TypeOK, LaunchInv, ProcessState, Descriptor, AnyProcess, RecoveryState, Launcher,
    LaunchState, Task, StopState, FinalizerState, Alive, NoDescriptor
<1>7. StopInv'
  BY DEF StopInv, Task, Alive, Stopping, Launcher
<1> QED
  BY <1>1, <1>2, <1>3, <1>4, <1>5, <1>6, <1>7

\* An attempt looks at the process.
LEMMA AttemptPreserves ==
  ASSUME IInv, Attempt
  PROVE  IInv'
<1> USE DEF IInv, Attempt, isWorkerRecoveryCancelled, IdleRecovery, Alive, worker, bounds
<1>1. TypeOK'
  BY DEF TypeOK, ProcessState, Descriptor, AnyProcess, RecoveryState, Launcher, LaunchState,
    Task, StopState, FinalizerState
<1>2. RunningIsRecorded'
  BY DEF RunningIsRecorded, Running
<1>3. MemoryInv'
  BY DEF MemoryInv, NoDescriptor, Running
<1>4. DownInv'
  BY DEF DownInv, NoDescriptor, Launcher, IdleLaunch, Task, Stopping
<1>5. ClientInv'
  BY DEF ClientInv
<1>6. LaunchInv'
  BY DEF LaunchInv, Launcher, NoDescriptor
<1>7. StopInv'
  BY DEF StopInv, Task, Stopping, Launcher
<1> QED
  BY <1>1, <1>2, <1>3, <1>4, <1>5, <1>6, <1>7

\* An attempt reconnects.
LEMMA ReconnectedPreserves ==
  ASSUME IInv, Reconnected
  PROVE  IInv'
<1> USE DEF IInv, Reconnected, EndRecovery, isWorkerRecoveryCancelled, IdleRecovery, bounds
<1>1. TypeOK'
  BY DEF TypeOK, ProcessState, Descriptor, AnyProcess, RecoveryState, Launcher, LaunchState,
    Task, StopState, FinalizerState
<1>2. RunningIsRecorded'
  BY DEF TypeOK, RunningIsRecorded, MemoryInv, LaunchInv, ProcessState, Descriptor, AnyProcess,
    RecoveryState, Launcher, LaunchState, Task, StopState, FinalizerState, Running,
    NoDescriptor, Alive
<1>3. MemoryInv'
  BY DEF MemoryInv, NoDescriptor, Running
<1>4. DownInv'
  BY DEF DownInv, NoDescriptor, Launcher, IdleLaunch, Task, Stopping
<1>5. ClientInv'
  BY DEF ClientInv
<1>6. LaunchInv'
  BY DEF LaunchInv, Launcher, Alive, NoDescriptor
<1>7. StopInv'
  BY DEF StopInv, Task, Alive, Stopping, Launcher
<1> QED
  BY <1>1, <1>2, <1>3, <1>4, <1>5, <1>6, <1>7

\* An attempt is in vain, and the last one kills the process.
LEMMA UnansweredPreserves ==
  ASSUME IInv, Unanswered
  PROVE  IInv'
<1> USE DEF IInv, Unanswered, MayLoseClient, Undisturbed, AskedFail, Task, Alive, bounds, Ended,
  Launcher,
    IdleStop
<1>1. TypeOK'
  BY DEF TypeOK, ProcessState, Descriptor, AnyProcess, RecoveryState, LaunchState, StopState,
    FinalizerState
<1>2. RunningIsRecorded'
  BY DEF TypeOK, RunningIsRecorded, ProcessState, Descriptor, AnyProcess, RecoveryState,
    LaunchState, StopState, FinalizerState, Running
<1>3. MemoryInv'
  BY DEF TypeOK, MemoryInv, ProcessState, Descriptor, AnyProcess, RecoveryState, LaunchState,
    StopState, FinalizerState, NoDescriptor, Running
<1>4. DownInv'
  BY DEF DownInv, NoDescriptor, IdleRecovery, IdleLaunch, Stopping
<1>5. ClientInv'
  BY DEF ClientInv
<1>6. LaunchInv'
  BY DEF TypeOK, LaunchInv, ProcessState, Descriptor, AnyProcess, RecoveryState, LaunchState,
    StopState, FinalizerState, NoDescriptor
<1>7. StopInv'
  BY DEF TypeOK, StopInv, ProcessState, Descriptor, AnyProcess, RecoveryState, LaunchState,
    StopState, FinalizerState, Stopping
<1> QED
  BY <1>1, <1>2, <1>3, <1>4, <1>5, <1>6, <1>7

\* The next attempt is prepared.
LEMMA NextAttemptPreserves ==
  ASSUME IInv, NextAttempt
  PROVE  IInv'
<1> USE DEF IInv, NextAttempt, MayLoseClient, Undisturbed, isWorkerRecoveryCancelled,
  IdleRecovery,
    AskedFail, Task, bounds, Ended, Launcher, IdleStop
<1>1. TypeOK'
  BY DEF TypeOK, MemoryInv, LaunchInv, ProcessState, Descriptor, AnyProcess, RecoveryState,
    LaunchState, StopState, FinalizerState, NoDescriptor, Running, Alive
<1>2. RunningIsRecorded'
  BY DEF TypeOK, RunningIsRecorded, MemoryInv, DownInv, ClientInv, LaunchInv, StopInv,
    ProcessState, Descriptor, AnyProcess, RecoveryState, LaunchState, StopState, FinalizerState,
    Running, NoDescriptor, IdleLaunch, Stopping, Alive
<1>3. MemoryInv'
  BY DEF MemoryInv, NoDescriptor, Running
<1>4. DownInv'
  BY DEF DownInv, NoDescriptor, IdleLaunch, Stopping
<1>5. ClientInv'
  BY DEF ClientInv
<1>6. LaunchInv'
  BY DEF LaunchInv, Alive, NoDescriptor
<1>7. StopInv'
  BY DEF StopInv, Alive, Stopping
<1> QED
  BY <1>1, <1>2, <1>3, <1>4, <1>5, <1>6, <1>7

\* The worker is given up.
LEMMA FailedPreserves ==
  ASSUME IInv, Failed
  PROVE  IInv'
<1> USE DEF IInv, Failed, EndRecovery, IdleRecovery, bounds
<1>1. TypeOK'
  BY DEF TypeOK, ProcessState, Descriptor, AnyProcess, RecoveryState, Launcher, LaunchState,
    Task, StopState, FinalizerState
<1>2. RunningIsRecorded'
  BY DEF TypeOK, RunningIsRecorded, MemoryInv, DownInv, ClientInv, LaunchInv, StopInv,
    ProcessState, Descriptor, AnyProcess, RecoveryState, Launcher, LaunchState, Task, StopState,
    FinalizerState, Running, NoDescriptor, IdleLaunch, Stopping, Alive
<1>3. MemoryInv'
  BY DEF MemoryInv, NoDescriptor, Running
<1>4. DownInv'
  BY DEF DownInv, NoDescriptor, Launcher, IdleLaunch, Task, Stopping
<1>5. ClientInv'
  BY DEF ClientInv
<1>6. LaunchInv'
  BY DEF LaunchInv, Launcher, Alive, NoDescriptor
<1>7. StopInv'
  BY DEF StopInv, Task, Alive, Stopping, Launcher
<1> QED
  BY <1>1, <1>2, <1>3, <1>4, <1>5, <1>6, <1>7

\* The recovery is over when the other workers know.
LEMMA SyncedPreserves ==
  ASSUME IInv, Synced
  PROVE  IInv'
<1> USE DEF IInv, Synced, IdleRecovery, worker, bounds
<1>1. TypeOK'
  BY DEF TypeOK, RecoveryState, StopState, Task, Launcher, Ended
<1>2. RunningIsRecorded'
  BY DEF RunningIsRecorded, Running
<1>3. MemoryInv'
  BY DEF MemoryInv, NoDescriptor, Running
<1>4. DownInv'
  BY DEF DownInv, NoDescriptor, Launcher, IdleLaunch, Task, Stopping
<1>5. ClientInv'
  BY DEF ClientInv
<1>6. LaunchInv'
  BY DEF LaunchInv, Launcher, Alive, NoDescriptor
<1>7. StopInv'
  BY DEF StopInv, Task, Alive, Stopping, Launcher
<1> QED
  BY <1>1, <1>2, <1>3, <1>4, <1>5, <1>6, <1>7

\* A process dies, hangs or quits.
LEMMA TroublePreserves ==
  ASSUME NEW p \in Process, IInv, Trouble(p)
  PROVE  IInv'
<1> USE DEF IInv, Trouble, MayLoseClient, Undisturbed, worker, tasks, Task, Launcher
<1>1. TypeOK'
  BY DEF TypeOK, ProcessState, Descriptor, AnyProcess, RecoveryState, LaunchState, StopState,
    FinalizerState
<1>2. RunningIsRecorded'
  BY DEF TypeOK, RunningIsRecorded, ProcessState, Descriptor, AnyProcess, RecoveryState,
    LaunchState, StopState, FinalizerState, Running
<1>3. MemoryInv'
  BY DEF TypeOK, MemoryInv, ProcessState, Descriptor, AnyProcess, RecoveryState, LaunchState,
    StopState, FinalizerState, NoDescriptor, Running
<1>4. DownInv'
  BY DEF TypeOK, DownInv, ProcessState, Descriptor, AnyProcess, RecoveryState, LaunchState,
    StopState, FinalizerState, NoDescriptor, IdleRecovery, IdleLaunch, Stopping
<1>5. ClientInv'
  BY DEF TypeOK, ClientInv, ProcessState, Descriptor, AnyProcess, RecoveryState, LaunchState,
    StopState, FinalizerState
<1>6. LaunchInv'
  BY DEF TypeOK, LaunchInv, ProcessState, Descriptor, AnyProcess, RecoveryState, LaunchState,
    StopState, FinalizerState, Alive, NoDescriptor
<1>7. StopInv'
  BY DEF TypeOK, StopInv, ProcessState, Descriptor, AnyProcess, RecoveryState, LaunchState,
    StopState, FinalizerState, Alive, Stopping
<1> QED
  BY <1>1, <1>2, <1>3, <1>4, <1>5, <1>6, <1>7

\* A process has exited.
LEMMA LeavePreserves ==
  ASSUME NEW p \in Process, IInv, Leave(p)
  PROVE  IInv'
<1> USE DEF IInv, Leave, MayLoseClient, Undisturbed, worker, tasks, bounds, Task, Launcher
<1>1. TypeOK'
  BY DEF TypeOK, ProcessState, Descriptor, AnyProcess, RecoveryState, LaunchState, StopState,
    FinalizerState
<1>2. RunningIsRecorded'
  BY DEF RunningIsRecorded, Running
<1>3. MemoryInv'
  BY DEF TypeOK, MemoryInv, ProcessState, Descriptor, AnyProcess, RecoveryState, LaunchState,
    StopState, FinalizerState, NoDescriptor, Running
<1>4. DownInv'
  BY DEF TypeOK, DownInv, ProcessState, Descriptor, AnyProcess, RecoveryState, LaunchState,
    StopState, FinalizerState, NoDescriptor, IdleRecovery, IdleLaunch, Stopping
<1>5. ClientInv'
  BY DEF ClientInv
<1>6. LaunchInv'
  BY DEF TypeOK, LaunchInv, ProcessState, Descriptor, AnyProcess, RecoveryState, LaunchState,
    StopState, FinalizerState, Alive, NoDescriptor
<1>7. StopInv'
  BY DEF TypeOK, StopInv, ProcessState, Descriptor, AnyProcess, RecoveryState, LaunchState,
    StopState, FinalizerState, Alive, Stopping
<1> QED
  BY <1>1, <1>2, <1>3, <1>4, <1>5, <1>6, <1>7

\* The worker says that it shuts down.
LEMMA SessionClosedPreserves ==
  ASSUME IInv, SessionClosed
  PROVE  IInv'
<1> USE DEF IInv, SessionClosed, NoStops, NoDescriptor, tasks, bounds, Task, Stopping, Launcher
<1>1. TypeOK'
  <2>1. disk' \in Descriptor
    <3>1. disk' = disk \/ disk' = NoDescriptor
      OBVIOUS
    <3> QED
      BY <3>1, DescriptorForms DEF TypeOK, AnyProcess
  <2>2. registered' \in BOOLEAN
    BY DEF TypeOK, ProcessState, Descriptor, AnyProcess, RecoveryState, LaunchState, StopState,
      FinalizerState
  <2>3. intentional' \in BOOLEAN
    BY DEF TypeOK, ProcessState, Descriptor, AnyProcess, RecoveryState, LaunchState, StopState,
      FinalizerState
  <2> QED
    BY <2>1, <2>2, <2>3 DEF TypeOK, ProcessState, Descriptor, AnyProcess, RecoveryState,
      LaunchState, StopState, FinalizerState
<1>2. RunningIsRecorded'
  BY DEF TypeOK, RunningIsRecorded, MemoryInv, DownInv, ClientInv, LaunchInv, StopInv,
    ProcessState, Descriptor, AnyProcess, RecoveryState, LaunchState, StopState, FinalizerState,
    Running, IdleRecovery, IdleLaunch, Alive
<1>3. MemoryInv'
  BY DEF TypeOK, MemoryInv, ProcessState, Descriptor, AnyProcess, RecoveryState, LaunchState,
    StopState, FinalizerState, Running
<1>4. DownInv'
  BY DEF DownInv, IdleRecovery, IdleLaunch
<1>5. ClientInv'
  BY DEF ClientInv
<1>6. LaunchInv'
  BY DEF TypeOK, LaunchInv, ProcessState, Descriptor, AnyProcess, RecoveryState, LaunchState,
    StopState, FinalizerState, Alive
<1>7. StopInv'
  BY DEF TypeOK, StopInv, ProcessState, Descriptor, AnyProcess, RecoveryState, LaunchState,
    StopState, FinalizerState, Alive
<1> QED
  BY <1>1, <1>2, <1>3, <1>4, <1>5, <1>6, <1>7

\* The connection is lost.
LEMMA WorkerClosedPreserves ==
  ASSUME IInv, WorkerClosed
  PROVE  IInv'
<1> USE DEF IInv, WorkerClosed, AskedFail, Task, isWorkerRecoveryCancelled, StartRecovery,
    bounds, Ended, Launcher, IdleStop
<1>1. TypeOK'
  BY DEF TypeOK, ProcessState, Descriptor, AnyProcess, RecoveryState, LaunchState, StopState,
    FinalizerState
<1>2. RunningIsRecorded'
  BY DEF TypeOK, RunningIsRecorded, MemoryInv, DownInv, ClientInv, LaunchInv, StopInv,
    ProcessState, Descriptor, AnyProcess, RecoveryState, LaunchState, StopState, FinalizerState,
    Running, NoDescriptor, IdleRecovery, IdleLaunch, Stopping, Alive
<1>3. MemoryInv'
  BY DEF MemoryInv, NoDescriptor, Running
<1>4. DownInv'
  BY DEF DownInv, NoDescriptor, IdleRecovery, IdleLaunch, Stopping
<1>5. ClientInv'
  BY DEF ClientInv
<1>6. LaunchInv'
  BY DEF LaunchInv, Alive, NoDescriptor
<1>7. StopInv'
  BY DEF StopInv, Alive, Stopping
<1> QED
  BY <1>1, <1>2, <1>3, <1>4, <1>5, <1>6, <1>7

\* The supervisor dies.
LEMMA CrashPreserves ==
  ASSUME IInv, Crash
  PROVE  IInv'
<1> USE DEF IInv, Crash, Down, NoDescriptor, IdleRecovery, Launcher, IdleLaunch, Task, Ended,
    IdleStop, IdleFinalizer
<1>1. TypeOK'
  <2>1. proc' \in [Process -> ProcessState]
    BY DEF TypeOK, ProcessState, Descriptor, AnyProcess, RecoveryState, LaunchState, StopState,
      FinalizerState
  <2>2. mem' \in Descriptor
    BY DEF TypeOK, ProcessState, Descriptor, AnyProcess, RecoveryState, LaunchState, StopState,
      FinalizerState
  <2>3. sup' \in {"down", "up", "closing"}
    BY DEF TypeOK, ProcessState, Descriptor, AnyProcess, RecoveryState, LaunchState, StopState,
      FinalizerState
  <2>4. registered' \in BOOLEAN
    BY DEF TypeOK, ProcessState, Descriptor, AnyProcess, RecoveryState, LaunchState, StopState,
      FinalizerState
  <2>5. intentional' \in BOOLEAN
    BY DEF TypeOK, ProcessState, Descriptor, AnyProcess, RecoveryState, LaunchState, StopState,
      FinalizerState
  <2>6. known' \in BOOLEAN
    BY DEF TypeOK, ProcessState, Descriptor, AnyProcess, RecoveryState, LaunchState, StopState,
      FinalizerState
  <2>7. adopting' \in BOOLEAN
    BY DEF TypeOK, ProcessState, Descriptor, AnyProcess, RecoveryState, LaunchState, StopState,
      FinalizerState
  <2>8. lifecycle' \in {"starting", "ready", "recovering", "failed"}
    BY DEF TypeOK, ProcessState, Descriptor, AnyProcess, RecoveryState, LaunchState, StopState,
      FinalizerState
  <2>9. client' \in AnyProcess
    BY DEF TypeOK, ProcessState, Descriptor, AnyProcess, RecoveryState, LaunchState, StopState,
      FinalizerState
  <2>10. recovery' \in RecoveryState
    BY DEF TypeOK, ProcessState, Descriptor, AnyProcess, RecoveryState, LaunchState, StopState,
      FinalizerState
  <2>11. launch' \in [Launcher -> LaunchState]
    BY DEF TypeOK, ProcessState, Descriptor, AnyProcess, RecoveryState, LaunchState, StopState,
      FinalizerState
  <2>12. stop' \in [Task -> StopState]
    BY DEF TypeOK, ProcessState, Descriptor, AnyProcess, RecoveryState, LaunchState, StopState,
      FinalizerState
  <2>13. finalizer' \in FinalizerState
    BY DEF TypeOK, ProcessState, Descriptor, AnyProcess, RecoveryState, LaunchState, StopState,
      FinalizerState
  <2>14. revised' \in SUBSET {"recovery", "finalizer"}
    BY DEF TypeOK, ProcessState, Descriptor, AnyProcess, RecoveryState, LaunchState, StopState,
      FinalizerState
  <2>15. crashes' \in 0..MaxCrashes
    BY DEF TypeOK, ProcessState, Descriptor, AnyProcess, RecoveryState, LaunchState, StopState,
      FinalizerState
  <2> QED
    BY <2>1, <2>2, <2>3, <2>4, <2>5, <2>6, <2>7, <2>8, <2>9, <2>10, <2>11, <2>12, <2>13, <2>14,
    <2>15 DEF
      TypeOK, ProcessState, Descriptor, AnyProcess, RecoveryState, LaunchState, StopState,
      FinalizerState
<1>2. RunningIsRecorded'
  BY DEF RunningIsRecorded, Running
<1>3. MemoryInv'
  BY DEF MemoryInv, Running
<1>4. DownInv'
  BY DEF DownInv, Stopping
<1>5. ClientInv'
  BY DEF ClientInv
<1>6. LaunchInv'
  BY DEF LaunchInv, Alive
<1>7. StopInv'
  BY DEF StopInv, Alive, Stopping
<1> QED
  BY <1>1, <1>2, <1>3, <1>4, <1>5, <1>6, <1>7

\* The supervisor exits.
LEMMA ExitPreserves ==
  ASSUME IInv, Exit
  PROVE  IInv'
<1> USE DEF IInv, Exit, Stopping, Down, NoDescriptor, IdleRecovery, Launcher, IdleLaunch, Task,
    Ended, IdleStop, IdleFinalizer
<1>1. TypeOK'
  <2>1. proc' \in [Process -> ProcessState]
    BY DEF TypeOK, ProcessState, Descriptor, AnyProcess, RecoveryState, LaunchState, StopState,
      FinalizerState
  <2>2. mem' \in Descriptor
    BY DEF TypeOK, ProcessState, Descriptor, AnyProcess, RecoveryState, LaunchState, StopState,
      FinalizerState
  <2>3. sup' \in {"down", "up", "closing"}
    BY DEF TypeOK, ProcessState, Descriptor, AnyProcess, RecoveryState, LaunchState, StopState,
      FinalizerState
  <2>4. registered' \in BOOLEAN
    BY DEF TypeOK, ProcessState, Descriptor, AnyProcess, RecoveryState, LaunchState, StopState,
      FinalizerState
  <2>5. intentional' \in BOOLEAN
    BY DEF TypeOK, ProcessState, Descriptor, AnyProcess, RecoveryState, LaunchState, StopState,
      FinalizerState
  <2>6. known' \in BOOLEAN
    BY DEF TypeOK, ProcessState, Descriptor, AnyProcess, RecoveryState, LaunchState, StopState,
      FinalizerState
  <2>7. adopting' \in BOOLEAN
    BY DEF TypeOK, ProcessState, Descriptor, AnyProcess, RecoveryState, LaunchState, StopState,
      FinalizerState
  <2>8. lifecycle' \in {"starting", "ready", "recovering", "failed"}
    BY DEF TypeOK, ProcessState, Descriptor, AnyProcess, RecoveryState, LaunchState, StopState,
      FinalizerState
  <2>9. client' \in AnyProcess
    BY DEF TypeOK, ProcessState, Descriptor, AnyProcess, RecoveryState, LaunchState, StopState,
      FinalizerState
  <2>10. recovery' \in RecoveryState
    BY DEF TypeOK, ProcessState, Descriptor, AnyProcess, RecoveryState, LaunchState, StopState,
      FinalizerState
  <2>11. launch' \in [Launcher -> LaunchState]
    BY DEF TypeOK, ProcessState, Descriptor, AnyProcess, RecoveryState, LaunchState, StopState,
      FinalizerState
  <2>12. stop' \in [Task -> StopState]
    BY DEF TypeOK, ProcessState, Descriptor, AnyProcess, RecoveryState, LaunchState, StopState,
      FinalizerState
  <2>13. finalizer' \in FinalizerState
    BY DEF TypeOK, ProcessState, Descriptor, AnyProcess, RecoveryState, LaunchState, StopState,
      FinalizerState
  <2>14. revised' \in SUBSET {"recovery", "finalizer"}
    BY DEF TypeOK, ProcessState, Descriptor, AnyProcess, RecoveryState, LaunchState, StopState,
      FinalizerState
  <2> QED
    BY <2>1, <2>2, <2>3, <2>4, <2>5, <2>6, <2>7, <2>8, <2>9, <2>10, <2>11, <2>12, <2>13, <2>14 DEF
      TypeOK, ProcessState, Descriptor, AnyProcess, RecoveryState, LaunchState, StopState,
      FinalizerState
<1>2. RunningIsRecorded'
  BY DEF RunningIsRecorded, Running
<1>3. MemoryInv'
  BY DEF MemoryInv, Running
<1>4. DownInv'
  BY DEF DownInv
<1>5. ClientInv'
  BY DEF ClientInv
<1>6. LaunchInv'
  BY DEF LaunchInv, Alive
<1>7. StopInv'
  BY DEF StopInv, Alive
<1> QED
  BY <1>1, <1>2, <1>3, <1>4, <1>5, <1>6, <1>7

\* The next supervisor loads the descriptor.
LEMMA StartPreserves ==
  ASSUME IInv, Start
  PROVE  IInv'
<1> USE DEF IInv, Start, NoDescriptor, bounds
<1>1. TypeOK'
  BY DEF TypeOK, ProcessState, Descriptor, AnyProcess, RecoveryState, Launcher, LaunchState,
    Task, StopState, FinalizerState
<1>2. RunningIsRecorded'
  BY DEF RunningIsRecorded, Running
<1>3. MemoryInv'
  BY DEF TypeOK, RunningIsRecorded, MemoryInv, DownInv, ClientInv, LaunchInv, StopInv,
    ProcessState, Descriptor, AnyProcess, RecoveryState, Launcher, LaunchState, Task, StopState,
    FinalizerState, Running, IdleRecovery, IdleLaunch, Stopping, Alive
<1>4. DownInv'
  BY DEF DownInv, IdleRecovery, Launcher, IdleLaunch, Task, Stopping
<1>5. ClientInv'
  BY DEF TypeOK, RunningIsRecorded, MemoryInv, DownInv, ClientInv, LaunchInv, StopInv,
    ProcessState, Descriptor, AnyProcess, RecoveryState, Launcher, LaunchState, Task, StopState,
    FinalizerState, Running, IdleRecovery, IdleLaunch, Stopping, Alive
<1>6. LaunchInv'
  BY DEF TypeOK, RunningIsRecorded, MemoryInv, DownInv, ClientInv, LaunchInv, StopInv,
    ProcessState, Descriptor, AnyProcess, RecoveryState, Launcher, LaunchState, Task, StopState,
    FinalizerState, Running, IdleRecovery, IdleLaunch, Stopping, Alive
<1>7. StopInv'
  BY DEF TypeOK, RunningIsRecorded, MemoryInv, DownInv, ClientInv, LaunchInv, StopInv,
    ProcessState, Descriptor, AnyProcess, RecoveryState, Launcher, LaunchState, Task, StopState,
    FinalizerState, Running, IdleRecovery, IdleLaunch, Stopping, Alive
<1> QED
  BY <1>1, <1>2, <1>3, <1>4, <1>5, <1>6, <1>7

\* The next supervisor resumes a stop.
LEMMA AdoptTombstonedPreserves ==
  ASSUME IInv, AdoptTombstoned
  PROVE  IInv'
<1> USE DEF IInv, AdoptTombstoned, Enter, Tombstone, bounds, Alive, Removes, Persist
<1>1. TypeOK'
  <2>1. proc' \in [Process -> ProcessState]
    BY DEF TypeOK, ProcessState, Descriptor, AnyProcess, RecoveryState, Launcher, LaunchState,
      Task, StopState, FinalizerState
  <2>2. mem' \in Descriptor
    BY DEF TypeOK, ProcessState, Descriptor, AnyProcess, RecoveryState, Launcher, LaunchState,
      Task, StopState, FinalizerState
  <2>3. disk' \in Descriptor
    BY DEF TypeOK, ProcessState, Descriptor, AnyProcess, RecoveryState, Launcher, LaunchState,
      Task, StopState, FinalizerState
  <2>4. intentional' \in BOOLEAN
    BY DEF TypeOK, ProcessState, Descriptor, AnyProcess, RecoveryState, Launcher, LaunchState,
      Task, StopState, FinalizerState
  <2>5. lifecycle' \in {"starting", "ready", "recovering", "failed"}
    BY DEF TypeOK, ProcessState, Descriptor, AnyProcess, RecoveryState, Launcher, LaunchState,
      Task, StopState, FinalizerState
  <2>6. stop' \in [Task -> StopState]
    BY DEF TypeOK, ProcessState, Descriptor, AnyProcess, RecoveryState, Launcher, LaunchState,
      Task, StopState, FinalizerState
  <2>7. revised' \in SUBSET {"recovery", "finalizer"}
    BY DEF TypeOK, ProcessState, Descriptor, AnyProcess, RecoveryState, Launcher, LaunchState,
      Task, StopState, FinalizerState
  <2> QED
    BY <2>1, <2>2, <2>3, <2>4, <2>5, <2>6, <2>7 DEF TypeOK, ProcessState, Descriptor,
      AnyProcess, RecoveryState, Launcher, LaunchState, Task, StopState, FinalizerState
<1>2. RunningIsRecorded'
  BY DEF TypeOK, RunningIsRecorded, MemoryInv, DownInv, ClientInv, LaunchInv, StopInv,
    ProcessState, Descriptor, AnyProcess, RecoveryState, Launcher, LaunchState, Task, StopState,
    FinalizerState, Running, NoDescriptor, IdleRecovery, IdleLaunch, Stopping
<1>3. MemoryInv'
  BY DEF TypeOK, MemoryInv, LaunchInv, ProcessState, Descriptor, AnyProcess, RecoveryState,
    Launcher, LaunchState, Task, StopState, FinalizerState, NoDescriptor, Running
<1>4. DownInv'
  BY DEF DownInv, NoDescriptor, IdleRecovery, Launcher, IdleLaunch, Task, Stopping
<1>5. ClientInv'
  BY DEF TypeOK, MemoryInv, ClientInv, LaunchInv, ProcessState, Descriptor, AnyProcess,
    RecoveryState, Launcher, LaunchState, Task, StopState, FinalizerState, NoDescriptor, Running
<1>6. LaunchInv'
  BY DEF TypeOK, MemoryInv, LaunchInv, ProcessState, Descriptor, AnyProcess, RecoveryState,
    Launcher, LaunchState, Task, StopState, FinalizerState, NoDescriptor, Running
<1>7. StopInv'
  BY DEF TypeOK, MemoryInv, LaunchInv, StopInv, ProcessState, Descriptor, AnyProcess,
    RecoveryState, Launcher, LaunchState, Task, StopState, FinalizerState, NoDescriptor,
    Running, Stopping
<1> QED
  BY <1>1, <1>2, <1>3, <1>4, <1>5, <1>6, <1>7

\* It connects to a worker that runs.
LEMMA AdoptRunningPreserves ==
  ASSUME IInv, AdoptRunning
  PROVE  IInv'
<1> USE DEF IInv, AdoptRunning, bounds
<1>1. TypeOK'
  BY DEF TypeOK, Descriptor, AnyProcess
<1>2. RunningIsRecorded'
  BY DEF TypeOK, RunningIsRecorded, MemoryInv, LaunchInv, ProcessState, Descriptor, AnyProcess,
    RecoveryState, Launcher, LaunchState, Task, StopState, FinalizerState, Running,
    NoDescriptor, Alive
<1>3. MemoryInv'
  BY DEF TypeOK, MemoryInv, LaunchInv, ProcessState, Descriptor, AnyProcess, RecoveryState,
    Launcher, LaunchState, Task, StopState, FinalizerState, NoDescriptor, Running, Alive
<1>4. DownInv'
  BY DEF DownInv, NoDescriptor, IdleRecovery, Launcher, IdleLaunch, Task, Stopping
<1>5. ClientInv'
  BY DEF TypeOK, MemoryInv, ClientInv, LaunchInv, ProcessState, Descriptor, AnyProcess,
    RecoveryState, Launcher, LaunchState, Task, StopState, FinalizerState, NoDescriptor,
    Running, Alive
<1>6. LaunchInv'
  BY DEF TypeOK, MemoryInv, LaunchInv, ProcessState, Descriptor, AnyProcess, RecoveryState,
    Launcher, LaunchState, Task, StopState, FinalizerState, NoDescriptor, Running, Alive
<1>7. StopInv'
  BY DEF TypeOK, MemoryInv, LaunchInv, StopInv, ProcessState, Descriptor, AnyProcess,
    RecoveryState, Launcher, LaunchState, Task, StopState, FinalizerState, NoDescriptor,
    Running, Alive, Stopping
<1> QED
  BY <1>1, <1>2, <1>3, <1>4, <1>5, <1>6, <1>7

\* It recovers one that does not answer.
LEMMA AdoptLostPreserves ==
  ASSUME IInv, AdoptLost
  PROVE  IInv'
<1> USE DEF IInv, AdoptLost, isWorkerRecoveryCancelled, StartRecovery, worker, bounds
<1>1. TypeOK'
  <2>1. adopting' \in BOOLEAN
    BY DEF TypeOK, ProcessState, Descriptor, AnyProcess, RecoveryState, Launcher, LaunchState,
      Task, StopState, FinalizerState
  <2>2. recovery' \in RecoveryState
    BY DEF TypeOK, ProcessState, Descriptor, AnyProcess, RecoveryState, Launcher, LaunchState,
      Task, StopState, FinalizerState
  <2> QED
    BY <2>1, <2>2 DEF TypeOK, ProcessState, Descriptor, AnyProcess, RecoveryState, Launcher,
      LaunchState, Task, StopState, FinalizerState
<1>2. RunningIsRecorded'
  BY DEF TypeOK, RunningIsRecorded, MemoryInv, LaunchInv, ProcessState, Descriptor, AnyProcess,
    RecoveryState, Launcher, LaunchState, Task, StopState, FinalizerState, Running,
    NoDescriptor, Alive
<1>3. MemoryInv'
  BY DEF TypeOK, MemoryInv, LaunchInv, ProcessState, Descriptor, AnyProcess, RecoveryState,
    Launcher, LaunchState, Task, StopState, FinalizerState, NoDescriptor, Running, Alive
<1>4. DownInv'
  BY DEF DownInv, NoDescriptor, IdleRecovery, Launcher, IdleLaunch, Task, Stopping
<1>5. ClientInv'
  BY DEF TypeOK, MemoryInv, ClientInv, LaunchInv, ProcessState, Descriptor, AnyProcess,
    RecoveryState, Launcher, LaunchState, Task, StopState, FinalizerState, NoDescriptor,
    Running, Alive
<1>6. LaunchInv'
  BY DEF TypeOK, MemoryInv, LaunchInv, ProcessState, Descriptor, AnyProcess, RecoveryState,
    Launcher, LaunchState, Task, StopState, FinalizerState, NoDescriptor, Running, Alive
<1>7. StopInv'
  BY DEF TypeOK, MemoryInv, LaunchInv, StopInv, ProcessState, Descriptor, AnyProcess,
    RecoveryState, Launcher, LaunchState, Task, StopState, FinalizerState, NoDescriptor,
    Running, Alive, Stopping
<1> QED
  BY <1>1, <1>2, <1>3, <1>4, <1>5, <1>6, <1>7

\* Its stop is over.
LEMMA AdoptedPreserves ==
  ASSUME IInv, Adopted
  PROVE  IInv'
<1> USE DEF IInv, Adopted, IdleStop, bounds
<1>1. TypeOK'
  <2>1. disk' \in Descriptor
    BY DEF TypeOK, ProcessState, Descriptor, AnyProcess, RecoveryState, Launcher, LaunchState,
      Task, StopState, FinalizerState
  <2>2. adopting' \in BOOLEAN
    BY DEF TypeOK, ProcessState, Descriptor, AnyProcess, RecoveryState, Launcher, LaunchState,
      Task, StopState, FinalizerState
  <2>3. lifecycle' \in {"starting", "ready", "recovering", "failed"}
    BY DEF TypeOK, ProcessState, Descriptor, AnyProcess, RecoveryState, Launcher, LaunchState,
      Task, StopState, FinalizerState
  <2>4. stop' \in [Task -> StopState]
    BY DEF TypeOK, ProcessState, Descriptor, AnyProcess, RecoveryState, Launcher, LaunchState,
      Task, StopState, FinalizerState
  <2> QED
    BY <2>1, <2>2, <2>3, <2>4 DEF TypeOK, ProcessState, Descriptor, AnyProcess, RecoveryState,
      Launcher, LaunchState, Task, StopState, FinalizerState
<1>2. RunningIsRecorded'
  BY DEF TypeOK, RunningIsRecorded, MemoryInv, DownInv, ClientInv, LaunchInv, StopInv,
    ProcessState, Descriptor, AnyProcess, RecoveryState, Launcher, LaunchState, Task, StopState,
    FinalizerState, Running, NoDescriptor, IdleRecovery, IdleLaunch, Stopping, Alive
<1>3. MemoryInv'
  BY DEF MemoryInv, NoDescriptor, Running
<1>4. DownInv'
  BY DEF DownInv, NoDescriptor, IdleRecovery, Launcher, IdleLaunch, Task, Stopping
<1>5. ClientInv'
  BY DEF ClientInv
<1>6. LaunchInv'
  BY DEF LaunchInv, Launcher, Alive, NoDescriptor
<1>7. StopInv'
  BY DEF StopInv, Task, Alive, Stopping, Launcher
<1> QED
  BY <1>1, <1>2, <1>3, <1>4, <1>5, <1>6, <1>7

\* Nothing is under way initially.
LEMMA InitEstablishes == Init => IInv
<1> SUFFICES ASSUME Init PROVE IInv
  OBVIOUS
<1> USE DEF Init
<1>1. TypeOK
  <2>1. disk \in Descriptor /\ mem \in Descriptor
    BY DEF Descriptor, NoDescriptor, AnyProcess
  <2>2. recovery \in RecoveryState
    BY DEF RecoveryState, IdleRecovery
  <2>3. launch \in [Launcher -> LaunchState]
    BY DEF LaunchState, IdleLaunch, AnyProcess
  <2>4. stop \in [Task -> StopState] /\ finalizer \in FinalizerState
    BY DEF StopState, IdleStop, FinalizerState, IdleFinalizer, AnyProcess
  <2>5. deaths \in 0..MaxDeaths /\ crashes \in 0..MaxCrashes /\ retries \in 0..MaxRetries
    OBVIOUS
  <2>6. proc \in [Process -> ProcessState] /\ client \in AnyProcess
    BY DEF ProcessState, AnyProcess
  <2>7. registered \in BOOLEAN /\ intentional \in BOOLEAN /\ known \in BOOLEAN /\ adopting \in BOOLEAN
    OBVIOUS
  <2>8. revised \in SUBSET {"recovery", "finalizer"}
    OBVIOUS
  <2>9. sup \in {"down", "up", "closing"} /\ lifecycle \in {"starting", "ready", "recovering",
    "failed"}
    OBVIOUS
  <2> QED
    BY <2>1, <2>2, <2>3, <2>4, <2>5, <2>6, <2>7, <2>8, <2>9 DEF TypeOK
<1>2. RunningIsRecorded
  BY DEF RunningIsRecorded, IdleRecovery, IdleLaunch, IdleStop, IdleFinalizer, NoDescriptor,
    Running
<1>3. MemoryInv
  BY DEF MemoryInv, IdleRecovery, IdleLaunch, IdleStop, IdleFinalizer, NoDescriptor, Running
<1>4. DownInv
  BY DEF DownInv, IdleRecovery, IdleLaunch, IdleStop, IdleFinalizer, NoDescriptor, Launcher,
    Task, Stopping
<1>5. ClientInv
  BY DEF ClientInv, IdleRecovery, IdleLaunch, IdleStop, IdleFinalizer, NoDescriptor
<1>6. LaunchInv
  BY DEF LaunchInv, IdleRecovery, IdleLaunch, IdleStop, IdleFinalizer, NoDescriptor, Launcher,
    Alive
<1>7. StopInv
  BY DEF StopInv, IdleRecovery, IdleLaunch, IdleStop, IdleFinalizer, NoDescriptor, Task, Alive,
    Stopping, Launcher
<1> QED
  BY <1>1, <1>2, <1>3, <1>4, <1>5, <1>6, <1>7 DEF IInv

\* Every step preserves the invariant.
LEMMA NextPreserves == IInv /\ [Next]_vars => IInv'
<1> SUFFICES ASSUME IInv, [Next]_vars PROVE IInv'
  OBVIOUS
<1>1. ASSUME NEW t \in Task, Asked(t) PROVE IInv'
  BY <1>1, AskedPreserves
<1>2. ASSUME NEW t \in Task, Stopped(t) PROVE IInv'
  BY <1>2, StoppedPreserves
<1>3. ASSUME NEW t \in Task, Archived(t) PROVE IInv'
  BY <1>3, ArchivedPreserves
<1>4. ASSUME NEW t \in Task, ForceKill(t) PROVE IInv'
  BY <1>4, ForceKillPreserves
<1>5. ASSUME NEW t \in Task, TimeOut(t) PROVE IInv'
  BY <1>5, TimeOutPreserves
<1>6. ASSUME NEW s \in Stopper, Kill(s) PROVE IInv'
  BY <1>6, KillPreserves
<1>7. ASSUME NEW s \in Stopper, Forwarded(s) PROVE IInv'
  BY <1>7, ForwardedPreserves
<1>8. ASSUME NEW s \in Stopper, Evict(s) PROVE IInv'
  BY <1>8, EvictPreserves
<1>9. ASSUME NEW s \in Stopper, Shutdown(s) PROVE IInv'
  BY <1>9, ShutdownPreserves
<1>10. CASE Retry
  BY <1>10, RetryPreserves
<1>11. CASE Reopen
  BY <1>11, ReopenPreserves
<1>12. CASE FinalizerWait
  BY <1>12, FinalizerWaitPreserves
<1>13. CASE FinalizerStop
  BY <1>13, FinalizerStopPreserves
<1>14. CASE FinalizerQuit
  BY <1>14, FinalizerQuitPreserves
<1>15. CASE FinalizerStopped
  BY <1>15, FinalizerStoppedPreserves
<1>16. CASE Create
  BY <1>16, CreatePreserves
<1>17. CASE Relaunch
  BY <1>17, RelaunchPreserves
<1>18. ASSUME NEW l \in Launcher, Publish(l) PROVE IInv'
  BY <1>18, PublishPreserves
<1>19. ASSUME NEW l \in Launcher, Unpublished(l) PROVE IInv'
  BY <1>19, UnpublishedPreserves
<1>20. ASSUME NEW l \in Launcher, Connect(l) PROVE IInv'
  BY <1>20, ConnectPreserves
<1>21. ASSUME NEW l \in Launcher, Finish(l) PROVE IInv'
  BY <1>21, FinishPreserves
<1>22. ASSUME NEW l \in Launcher, Abort(l) PROVE IInv'
  BY <1>22, AbortPreserves
<1>23. ASSUME NEW l \in Launcher, Cleaned(l) PROVE IInv'
  BY <1>23, CleanedPreserves
<1>24. CASE Attempt
  BY <1>24, AttemptPreserves
<1>25. CASE Reconnected
  BY <1>25, ReconnectedPreserves
<1>26. CASE Unanswered
  BY <1>26, UnansweredPreserves
<1>27. CASE NextAttempt
  BY <1>27, NextAttemptPreserves
<1>28. CASE Failed
  BY <1>28, FailedPreserves
<1>29. CASE Synced
  BY <1>29, SyncedPreserves
<1>30. ASSUME NEW p \in Process, Trouble(p) PROVE IInv'
  BY <1>30, TroublePreserves
<1>31. ASSUME NEW p \in Process, Leave(p) PROVE IInv'
  BY <1>31, LeavePreserves
<1>32. CASE SessionClosed
  BY <1>32, SessionClosedPreserves
<1>33. CASE WorkerClosed
  BY <1>33, WorkerClosedPreserves
<1>34. CASE Crash
  BY <1>34, CrashPreserves
<1>35. CASE Exit
  BY <1>35, ExitPreserves
<1>36. CASE Start
  BY <1>36, StartPreserves
<1>37. CASE AdoptTombstoned
  BY <1>37, AdoptTombstonedPreserves
<1>38. CASE AdoptRunning
  BY <1>38, AdoptRunningPreserves
<1>39. CASE AdoptLost
  BY <1>39, AdoptLostPreserves
<1>40. CASE Adopted
  BY <1>40, AdoptedPreserves
<1>41. CASE UNCHANGED vars
  BY <1>41 DEF vars, worker, tasks, bounds, IInv, TypeOK, RunningIsRecorded, MemoryInv, DownInv,
    ClientInv, LaunchInv, StopInv, Running, Stopping, Alive
<1> QED
  BY <1>1, <1>2, <1>3, <1>4, <1>5, <1>6, <1>7, <1>8, <1>9, <1>10, <1>11, <1>12, <1>13,
    <1>14, <1>15, <1>16, <1>17, <1>18, <1>19, <1>20, <1>21, <1>22, <1>23, <1>24, <1>25,
    <1>26, <1>27, <1>28, <1>29, <1>30, <1>31, <1>32, <1>33, <1>34, <1>35, <1>36, <1>37,
    <1>38, <1>39, <1>40, <1>41
    DEF Next, StopStep, LaunchStep, FinalizerStep, RecoveryStep, Adopt

\* Of every behaviour: IInv, the inductive invariant, is an invariant of the
\* supervisor, its launches, recoveries, stops and finalizer.
THEOREM WorkerInvariance == Spec => []IInv
<1>1. Init => IInv
  BY InitEstablishes
<1>2. IInv /\ [Next]_vars => IInv'
  BY NextPreserves
<1> QED
  BY <1>1, <1>2, PTL DEF Spec

\* A worker that runs is the one that the descriptor file names, however
\* launches, stops, recoveries and supervisors' deaths interleave.
THEOREM RunningAlwaysRecorded == Spec => []RunningIsRecorded
<1>1. IInv => RunningIsRecorded
  BY DEF IInv
<1> QED
  BY <1>1, WorkerInvariance, PTL

\* A stop under way keeps its tombstone, when none comes while a relaunch
\* prepares its descriptor.
LEMMA MarksPreserved ==
  ASSUME ~StopDuringRelaunch
  PROVE  IInv /\ StopsAreMarked /\ [Next]_vars => StopsAreMarked'
<1> SUFFICES ASSUME IInv, StopsAreMarked, [Next]_vars PROVE StopsAreMarked'
  OBVIOUS
<1>1. ASSUME NEW t \in Task, Asked(t) PROVE StopsAreMarked'
  BY <1>1 DEF Asked, Alive, AskedFail, Task, bounds, Ended, Launcher, IdleStop, StopsAreMarked,
    Stopping, Removes
<1>2. ASSUME NEW t \in Task, Stopped(t) PROVE StopsAreMarked'
  BY <1>2 DEF IInv, Stopped, Alive, StopStillApplies, Fail, Complete, Removes, bounds, Ended,
    NoDescriptor, IdleStop, StopsAreMarked, TypeOK, Task, Stopping, ProcessState, Descriptor,
    AnyProcess, RecoveryState, Launcher, LaunchState, StopState, FinalizerState
<1>3. ASSUME NEW t \in Task, Archived(t) PROVE StopsAreMarked'
  BY <1>3 DEF IInv, Archived, StopStillApplies, Complete, Fail, bounds, Removes, NoDescriptor,
    Ended, IdleStop, StopsAreMarked, TypeOK, Task, Stopping, ProcessState, Descriptor,
    AnyProcess, RecoveryState, Launcher, LaunchState, StopState, FinalizerState
<1>4. ASSUME NEW t \in Task, ForceKill(t) PROVE StopsAreMarked'
  BY <1>4 DEF ForceKill, Forced, Alive, worker, tasks, bounds, StopsAreMarked, Task, Stopping,
    Removes, Launcher
<1>5. ASSUME NEW t \in Task, TimeOut(t) PROVE StopsAreMarked'
  BY <1>5 DEF TimeOut, Forced, Alive, FinalizerDue, Ended, Schedule, bounds, IdleStop,
    StopsAreMarked, Task, Stopping, Removes, Launcher
<1>6. ASSUME NEW s \in Stopper, Kill(s) PROVE StopsAreMarked'
  BY <1>6, KillMarks DEF IInv, StopsAreMarked
<1>7. ASSUME NEW s \in Stopper, Forwarded(s) PROVE StopsAreMarked'
  BY <1>7 DEF Forwarded, Enter, Tombstone, bounds, Alive, Removes, Persist, StopsAreMarked,
    Task, Stopping,
    Launcher
<1>8. ASSUME NEW s \in Stopper, Evict(s) PROVE StopsAreMarked'
  BY <1>8 DEF Evict, MayStop, Enter, Tombstone, bounds, Alive, Removes, Persist, StopsAreMarked,
    Task,
    Stopping, Launcher
<1>9. ASSUME NEW s \in Stopper, Shutdown(s) PROVE StopsAreMarked'
  BY <1>9 DEF Shutdown, MayStop, Enter, Tombstone, bounds, Alive, Removes, Persist,
    StopsAreMarked, Task,
    Stopping, Launcher
<1>10. CASE Retry
  BY <1>10 DEF Retry, Rescinded, Undisturbed, NoStops, Persist, StartRecovery, Task, Stopping,
    Launcher, StopsAreMarked,
    Removes
<1>11. CASE Reopen
  BY <1>11 DEF Reopen, Alive, Schedule, worker, bounds, StopsAreMarked, Task, Stopping, Removes,
    Launcher
<1>12. CASE FinalizerWait
  BY <1>12 DEF FinalizerWait, Unfinalized, IdleFinalizer, Alive, worker, bounds, StopsAreMarked,
    Task, Stopping, Removes, Launcher
<1>13. CASE FinalizerStop
  BY <1>13 DEF FinalizerStop, Alive, Unfinalized, Enter, Tombstone, bounds, Removes, Persist,
    StopsAreMarked, Task, Stopping, Launcher
<1>14. CASE FinalizerQuit
  BY <1>14 DEF FinalizerQuit, Unfinalized, IdleFinalizer, worker, bounds, StopsAreMarked, Task,
    Stopping, Removes, Launcher
<1>15. CASE FinalizerStopped
  BY <1>15 DEF FinalizerStopped, IdleStop, IdleFinalizer, worker, bounds, StopsAreMarked, Task,
    Stopping, Removes, Launcher
<1>16. CASE Create
  BY <1>16 DEF Create, NoDescriptor, worker, bounds, StopsAreMarked, Task, Stopping, Removes,
    Launcher
<1>17. CASE Relaunch
  BY <1>17 DEF Relaunch, isWorkerRecoveryCancelled, IdleRecovery, worker, bounds,
    StopsAreMarked, Task, Stopping, Removes, Launcher
<1>18. ASSUME NEW l \in Launcher, Publish(l) PROVE StopsAreMarked'
  BY <1>18 DEF IInv, Publish, Persist, bounds, StopsAreMarked, TypeOK, MemoryInv, LaunchInv,
    Task, Stopping, Removes, ProcessState, Descriptor, AnyProcess, RecoveryState, Launcher,
    LaunchState, StopState, FinalizerState, NoDescriptor, Running, Alive
<1>19. ASSUME NEW l \in Launcher, Unpublished(l) PROVE StopsAreMarked'
  BY <1>19 DEF Unpublished, IdleLaunch, Erred, worker, bounds, StopsAreMarked, Task, Stopping,
    Removes, Launcher
<1>20. ASSUME NEW l \in Launcher, Connect(l) PROVE StopsAreMarked'
  BY <1>20 DEF Connect, bounds, StopsAreMarked, Task, Stopping, Removes, Launcher
<1>21. ASSUME NEW l \in Launcher, Finish(l) PROVE StopsAreMarked'
  BY <1>21 DEF Finish, EndRecovery, Overtaken, IdleLaunch, IdleRecovery, bounds,
    isWorkerRecoveryCancelled,
    StopsAreMarked, Task, Stopping, Removes, Launcher
<1>22. ASSUME NEW l \in Launcher, Abort(l) PROVE StopsAreMarked'
  BY <1>22 DEF IInv, Abort, Resumable, Enter, Tombstone, bounds, Alive, Removes, Persist,
    StopsAreMarked,
    TypeOK, MemoryInv, LaunchInv, Task, Stopping, ProcessState, Descriptor, AnyProcess,
    RecoveryState, Launcher, LaunchState, StopState, FinalizerState, NoDescriptor, Running
<1>23. ASSUME NEW l \in Launcher, Cleaned(l) PROVE StopsAreMarked'
  BY <1>23 DEF Cleaned, IdleStop, IdleLaunch, Erred, Resumable, bounds, StopsAreMarked, Task,
    Stopping, Removes, Launcher
<1>24. CASE Attempt
  BY <1>24 DEF Attempt, isWorkerRecoveryCancelled, IdleRecovery, Alive, worker, bounds,
    StopsAreMarked, Task, Stopping, Removes, Launcher
<1>25. CASE Reconnected
  BY <1>25 DEF Reconnected, EndRecovery, isWorkerRecoveryCancelled, IdleRecovery, bounds,
    StopsAreMarked,
    Task, Stopping, Removes, Launcher
<1>26. CASE Unanswered
  BY <1>26 DEF Unanswered, MayLoseClient, Undisturbed, AskedFail, Task, Alive, bounds, Ended,
    Launcher,
    IdleStop, StopsAreMarked, Stopping, Removes
<1>27. CASE NextAttempt
  BY <1>27 DEF NextAttempt, MayLoseClient, Undisturbed, isWorkerRecoveryCancelled, IdleRecovery,
    AskedFail,
    Task, bounds, Ended, Launcher, IdleStop, StopsAreMarked, Stopping, Removes
<1>28. CASE Failed
  BY <1>28 DEF Failed, EndRecovery, IdleRecovery, bounds, StopsAreMarked, Task, Stopping,
    Removes, Launcher
<1>29. CASE Synced
  BY <1>29 DEF Synced, IdleRecovery, worker, bounds, StopsAreMarked, Task, Stopping, Removes,
    Launcher
<1>30. ASSUME NEW p \in Process, Trouble(p) PROVE StopsAreMarked'
  BY <1>30 DEF Trouble, MayLoseClient, Undisturbed, worker, tasks, Task, Launcher,
    StopsAreMarked, Stopping,
    Removes
<1>31. ASSUME NEW p \in Process, Leave(p) PROVE StopsAreMarked'
  BY <1>31 DEF Leave, MayLoseClient, Undisturbed, worker, tasks, bounds, Task, Launcher,
    StopsAreMarked,
    Stopping, Removes
<1>32. CASE SessionClosed
  BY <1>32 DEF SessionClosed, NoStops, NoDescriptor, tasks, bounds, Task, Stopping, Launcher,
    StopsAreMarked, Removes
<1>33. CASE WorkerClosed
  BY <1>33 DEF WorkerClosed, AskedFail, Task, isWorkerRecoveryCancelled, StartRecovery, bounds,
    Ended, Launcher, IdleStop, StopsAreMarked, Stopping, Removes
<1>34. CASE Crash
  BY <1>34 DEF Crash, Down, NoDescriptor, IdleRecovery, Launcher, IdleLaunch, Task, Ended,
    IdleStop, IdleFinalizer, StopsAreMarked, Stopping, Removes
<1>35. CASE Exit
  BY <1>35 DEF Exit, Stopping, Down, NoDescriptor, IdleRecovery, Launcher, IdleLaunch, Task,
    Ended, IdleStop, IdleFinalizer, StopsAreMarked, Removes
<1>36. CASE Start
  BY <1>36 DEF IInv, Start, NoDescriptor, bounds, StopsAreMarked, TypeOK, MemoryInv, DownInv,
    LaunchInv, Task, Stopping, Removes, ProcessState, Descriptor, AnyProcess, RecoveryState,
    Launcher, LaunchState, StopState, FinalizerState, Running, IdleRecovery, IdleLaunch, Alive
<1>37. CASE AdoptTombstoned
  BY <1>37 DEF AdoptTombstoned, Enter, Tombstone, bounds, Alive, Removes, Persist,
    StopsAreMarked, Task,
    Stopping, Launcher
<1>38. CASE AdoptRunning
  BY <1>38 DEF AdoptRunning, bounds, StopsAreMarked, Task, Stopping, Removes, Launcher
<1>39. CASE AdoptLost
  BY <1>39 DEF AdoptLost, isWorkerRecoveryCancelled, StartRecovery, worker, bounds,
    StopsAreMarked, Task, Stopping, Removes, Launcher
<1>40. CASE Adopted
  BY <1>40 DEF Adopted, IdleStop, bounds, StopsAreMarked, Task, Stopping, Removes, Launcher
<1>41. CASE UNCHANGED vars
  BY <1>41 DEF vars, worker, tasks, bounds, StopsAreMarked, Stopping
<1> QED
  BY <1>1, <1>2, <1>3, <1>4, <1>5, <1>6, <1>7, <1>8, <1>9, <1>10, <1>11, <1>12, <1>13,
    <1>14, <1>15, <1>16, <1>17, <1>18, <1>19, <1>20, <1>21, <1>22, <1>23, <1>24, <1>25,
    <1>26, <1>27, <1>28, <1>29, <1>30, <1>31, <1>32, <1>33, <1>34, <1>35, <1>36, <1>37,
    <1>38, <1>39, <1>40, <1>41
    DEF Next, StopStep, LaunchStep, FinalizerStep, RecoveryStep, Adopt

\* A step that takes a tombstone off a descriptor is a retry or deletes it.
LEMMA TombstoneStep ==
  IInv /\ StopsAreMarked /\ [Next]_vars =>
    (disk.stop => disk'.stop \/ disk' = NoDescriptor \/ retries' = retries + 1)
<1> SUFFICES ASSUME IInv, StopsAreMarked, [Next]_vars, disk.stop
             PROVE  disk'.stop \/ disk' = NoDescriptor \/ retries' = retries + 1
  OBVIOUS
<1> DEFINE Kept == disk'.stop \/ disk' = NoDescriptor \/ retries' = retries + 1
<1>1. ASSUME NEW t \in Task, Asked(t) PROVE Kept
  BY <1>1 DEF Asked, Alive, AskedFail, Task, bounds, Ended, Launcher, IdleStop
<1>2. ASSUME NEW t \in Task, Stopped(t) PROVE Kept
  BY <1>2 DEF Stopped, Alive, StopStillApplies, Fail, Complete, Removes, bounds, Ended,
    NoDescriptor, IdleStop
<1>3. ASSUME NEW t \in Task, Archived(t) PROVE Kept
  BY <1>3 DEF Archived, StopStillApplies, Complete, Fail, bounds, Removes, NoDescriptor, Ended,
    IdleStop
<1>4. ASSUME NEW t \in Task, ForceKill(t) PROVE Kept
  BY <1>4 DEF ForceKill, Forced, Alive, worker, tasks, bounds
<1>5. ASSUME NEW t \in Task, TimeOut(t) PROVE Kept
  BY <1>5 DEF TimeOut, Forced, Alive, FinalizerDue, Ended, Schedule, bounds, IdleStop
<1>6. ASSUME NEW s \in Stopper, Kill(s) PROVE Kept
  BY <1>6, KillMarks DEF IInv
<1>7. ASSUME NEW s \in Stopper, Forwarded(s) PROVE Kept
  BY <1>7 DEF Forwarded, Enter, Tombstone, bounds, Alive, Removes, Persist
<1>8. ASSUME NEW s \in Stopper, Evict(s) PROVE Kept
  BY <1>8 DEF Evict, MayStop, Enter, Tombstone, bounds, Alive, Removes, Persist
<1>9. ASSUME NEW s \in Stopper, Shutdown(s) PROVE Kept
  BY <1>9 DEF Shutdown, MayStop, Enter, Tombstone, bounds, Alive, Removes, Persist
<1>10. CASE Retry
  BY <1>10 DEF Retry, Rescinded, Undisturbed, NoStops, Persist, StartRecovery, Task, Stopping,
    Launcher
<1>11. CASE Reopen
  BY <1>11 DEF Reopen, Alive, Schedule, worker, bounds
<1>12. CASE FinalizerWait
  BY <1>12 DEF FinalizerWait, Unfinalized, IdleFinalizer, Alive, worker, bounds
<1>13. CASE FinalizerStop
  BY <1>13 DEF FinalizerStop, Alive, Unfinalized, Enter, Tombstone, bounds, Removes, Persist
<1>14. CASE FinalizerQuit
  BY <1>14 DEF FinalizerQuit, Unfinalized, IdleFinalizer, worker, bounds
<1>15. CASE FinalizerStopped
  BY <1>15 DEF FinalizerStopped, IdleStop, IdleFinalizer, worker, bounds
<1>16. CASE Create
  BY <1>16 DEF Create, NoDescriptor, worker, bounds
<1>17. CASE Relaunch
  BY <1>17 DEF Relaunch, isWorkerRecoveryCancelled, IdleRecovery, worker, bounds
<1>18. ASSUME NEW l \in Launcher, Publish(l) PROVE Kept
  BY <1>18 DEF IInv, Publish, Persist, bounds, StopsAreMarked, TypeOK, MemoryInv, DownInv,
    LaunchInv, Task, Stopping, Removes, ProcessState, Descriptor, AnyProcess, RecoveryState,
    Launcher, LaunchState, StopState, FinalizerState, NoDescriptor, Running, IdleRecovery,
    IdleLaunch, Alive
<1>19. ASSUME NEW l \in Launcher, Unpublished(l) PROVE Kept
  BY <1>19 DEF Unpublished, IdleLaunch, Erred, worker, bounds
<1>20. ASSUME NEW l \in Launcher, Connect(l) PROVE Kept
  BY <1>20 DEF Connect, bounds
<1>21. ASSUME NEW l \in Launcher, Finish(l) PROVE Kept
  BY <1>21 DEF IInv, Finish, EndRecovery, Overtaken, IdleLaunch, IdleRecovery, bounds,
    isWorkerRecoveryCancelled, TypeOK, MemoryInv, DownInv, LaunchInv, ProcessState, Descriptor,
    AnyProcess, RecoveryState, Launcher, LaunchState, Task, StopState, FinalizerState,
    NoDescriptor, Running, Stopping, Alive
<1>22. ASSUME NEW l \in Launcher, Abort(l) PROVE Kept
  BY <1>22 DEF IInv, Abort, Resumable, Enter, Tombstone, bounds, Alive, Removes, Persist, TypeOK,
    MemoryInv, DownInv, LaunchInv, ProcessState, Descriptor, AnyProcess, RecoveryState,
    Launcher, LaunchState, Task, StopState, FinalizerState, NoDescriptor, Running, IdleRecovery,
    IdleLaunch, Stopping
<1>23. ASSUME NEW l \in Launcher, Cleaned(l) PROVE Kept
  BY <1>23 DEF IInv, Cleaned, IdleStop, IdleLaunch, Erred, Resumable, bounds, TypeOK, MemoryInv,
    LaunchInv, ProcessState, Descriptor, AnyProcess, RecoveryState, Launcher, LaunchState, Task,
    StopState, FinalizerState, NoDescriptor, Running, Alive
<1>24. CASE Attempt
  BY <1>24 DEF Attempt, isWorkerRecoveryCancelled, IdleRecovery, Alive, worker, bounds
<1>25. CASE Reconnected
  BY <1>25 DEF IInv, Reconnected, EndRecovery, isWorkerRecoveryCancelled, IdleRecovery, bounds,
    TypeOK,
    MemoryInv, DownInv, LaunchInv, ProcessState, Descriptor, AnyProcess, RecoveryState,
    Launcher, LaunchState, Task, StopState, FinalizerState, NoDescriptor, Running, IdleLaunch,
    Stopping, Alive
<1>26. CASE Unanswered
  BY <1>26 DEF Unanswered, MayLoseClient, Undisturbed, AskedFail, Task, Alive, bounds, Ended,
    Launcher,
    IdleStop
<1>27. CASE NextAttempt
  BY <1>27 DEF IInv, NextAttempt, MayLoseClient, Undisturbed, isWorkerRecoveryCancelled,
    IdleRecovery,
    AskedFail, Task, bounds, Ended, Launcher, IdleStop, TypeOK, MemoryInv, DownInv, LaunchInv,
    ProcessState, Descriptor, AnyProcess, RecoveryState, LaunchState, StopState, FinalizerState,
    NoDescriptor, Running, IdleLaunch, Stopping, Alive
<1>28. CASE Failed
  BY <1>28 DEF IInv, Failed, EndRecovery, IdleRecovery, bounds, TypeOK, MemoryInv, DownInv,
    LaunchInv,
    ProcessState, Descriptor, AnyProcess, RecoveryState, Launcher, LaunchState, Task, StopState,
    FinalizerState, NoDescriptor, Running, IdleLaunch, Stopping, Alive
<1>29. CASE Synced
  BY <1>29 DEF Synced, worker, bounds
<1>30. ASSUME NEW p \in Process, Trouble(p) PROVE Kept
  BY <1>30 DEF Trouble, MayLoseClient, Undisturbed, worker, tasks, Task, Launcher
<1>31. ASSUME NEW p \in Process, Leave(p) PROVE Kept
  BY <1>31 DEF Leave, MayLoseClient, Undisturbed, worker, tasks, bounds, Task, Launcher
<1>32. CASE SessionClosed
  BY <1>32 DEF SessionClosed, NoStops, NoDescriptor, tasks, bounds, Task, Stopping, Launcher
<1>33. CASE WorkerClosed
  BY <1>33 DEF IInv, WorkerClosed, AskedFail, Task, isWorkerRecoveryCancelled, StartRecovery,
    bounds, Ended, Launcher, IdleStop, TypeOK, MemoryInv, DownInv, LaunchInv, ProcessState,
    Descriptor, AnyProcess, RecoveryState, LaunchState, StopState, FinalizerState, NoDescriptor,
    Running, IdleRecovery, IdleLaunch, Stopping, Alive
<1>34. CASE Crash
  BY <1>34 DEF Crash, Down, NoDescriptor, IdleRecovery, Launcher, IdleLaunch, Task, Ended,
    IdleStop, IdleFinalizer
<1>35. CASE Exit
  BY <1>35 DEF Exit, Stopping, Down, NoDescriptor, IdleRecovery, Launcher, IdleLaunch, Task,
    Ended, IdleStop, IdleFinalizer
<1>36. CASE Start
  BY <1>36 DEF Start, NoDescriptor, bounds
<1>37. CASE AdoptTombstoned
  BY <1>37 DEF AdoptTombstoned, Enter, Tombstone, bounds, Alive, Removes, Persist
<1>38. CASE AdoptRunning
  BY <1>38 DEF IInv, AdoptRunning, bounds, TypeOK, MemoryInv, DownInv, LaunchInv, ProcessState,
    Descriptor, AnyProcess, RecoveryState, Launcher, LaunchState, Task, StopState,
    FinalizerState, NoDescriptor, Running, IdleRecovery, IdleLaunch, Stopping, Alive
<1>39. CASE AdoptLost
  BY <1>39 DEF AdoptLost, isWorkerRecoveryCancelled, StartRecovery, worker, bounds
<1>40. CASE Adopted
  BY <1>40 DEF IInv, Adopted, IdleStop, bounds, TypeOK, MemoryInv, DownInv, LaunchInv,
    ProcessState, Descriptor, AnyProcess, RecoveryState, Launcher, LaunchState, Task, StopState,
    FinalizerState, NoDescriptor, Running, IdleRecovery, IdleLaunch, Stopping, Alive
<1>41. CASE UNCHANGED vars
  BY <1>41 DEF vars, worker, tasks, bounds
<1> QED
  BY <1>1, <1>2, <1>3, <1>4, <1>5, <1>6, <1>7, <1>8, <1>9, <1>10, <1>11, <1>12, <1>13,
    <1>14, <1>15, <1>16, <1>17, <1>18, <1>19, <1>20, <1>21, <1>22, <1>23, <1>24, <1>25,
    <1>26, <1>27, <1>28, <1>29, <1>30, <1>31, <1>32, <1>33, <1>34, <1>35, <1>36, <1>37,
    <1>38, <1>39, <1>40, <1>41
    DEF Next, StopStep, LaunchStep, FinalizerStep, RecoveryStep, Adopt

\* Init and each step keep the tombstones of the stops under way, when no stop
\* comes while a relaunch prepares its descriptor.
THEOREM StopsStayMarked ==
  ASSUME ~StopDuringRelaunch
  PROVE  Spec => []StopsAreMarked
<1>1. Init => StopsAreMarked
  BY DEF Init, StopsAreMarked, Stopping, IdleStop, IdleLaunch, Launcher, Task
<1>2. IInv /\ StopsAreMarked /\ [Next]_vars => StopsAreMarked'
  BY MarksPreserved
<1> QED
  BY <1>1, <1>2, WorkerInvariance, PTL DEF Spec

\* A stop that was recorded is never lost: only a retry takes the tombstone off
\* the descriptor file, when no stop comes while a relaunch prepares its own.
THEOREM TombstonesStay ==
  ASSUME ~StopDuringRelaunch
  PROVE  Spec => TombstoneStays
<1>1. IInv /\ StopsAreMarked /\ [Next]_vars =>
        [disk.stop => disk'.stop \/ disk' = NoDescriptor \/ retries' = retries + 1]_vars
  BY TombstoneStep
<1>2. Spec => []IInv
  BY WorkerInvariance
<1>3. Spec => []StopsAreMarked
  BY StopsStayMarked
<1> QED
  BY <1>1, <1>2, <1>3, PTL DEF Spec, TombstoneStays

==============================================================================
