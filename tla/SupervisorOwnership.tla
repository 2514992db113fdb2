------------------------ MODULE SupervisorOwnership ------------------------
(***************************************************************************)
(* Which daemon supervisor owns a socket and a descriptor directory.       *)
(*                                                                         *)
(* Every supervisor process announces itself in a registry directory that  *)
(* all processes of the user share.  A supervisor takes its socket's lock, *)
(* waits until the predecessor on the socket's startup fence has exited,   *)
(* scans the registry under a guard for owners of the same socket or of    *)
(* the same descriptor directory, moves the entries of dead ones away and  *)
(* installs its own.  Shutdown and update commands (coordinators) hold a   *)
(* leased admission during which no supervisor may acquire ownership.      *)
(*                                                                         *)
(* A guarded section that touches one file is one action; the scan, which  *)
(* touches several, is not.  A process is one incarnation of a pid: its    *)
(* pid and start id together, its token and its generation.                *)
(***************************************************************************)
EXTENDS Naturals, FiniteSets

CONSTANTS
  Supervisor,    \* supervisor processes
  Coordinator,   \* shutdown and update-restart processes
  SocketPath, DescriptorDir,
  SocketOf,      \* the socket path of each supervisor
  DescriptorOf,  \* the descriptor directory of each supervisor
  Reusable,      \* processes whose pid the system may give to another one
  MaxCrashes,    \* bound: processes that die without cleaning up
  MaxStalls,     \* bound: admissions that expire though their holder lives
  MaxStops       \* bound: supervisors stopped by coordinators

Process == Supervisor \cup Coordinator
Nobody == "nobody"

ASSUME OwnershipAssumption ==
  /\ Supervisor \cap Coordinator = {}
  /\ Nobody \notin Supervisor \cup Coordinator
  /\ SocketOf \in [Supervisor -> SocketPath]
  /\ DescriptorOf \in [Supervisor -> DescriptorDir]
  /\ Reusable \subseteq Supervisor \cup Coordinator
  /\ MaxCrashes \in Nat
  /\ MaxStalls \in Nat
  /\ MaxStops \in Nat

VARIABLES
  alive,        \* the processes that run
  reused,       \* dead processes whose pid now belongs to another process
  pc,           \* how far each process has come
  ownership,    \* supervisors whose this.ownership is set
  toScan,       \* owner directories a scanning supervisor has still to examine
  seenFence,    \* the dead predecessor a process read from a fence
  \* files
  guard,        \* who holds the registry guard
  socketLease,  \* who holds each socket's lock
  registry,     \* the owner directories, one per generation
  fence,        \* the predecessor on each socket's startup fence
  admission,    \* the holder on the shutdown admission
  expired,      \* its expiresAt has passed
  \* history and bounds
  intruded,     \* coordinators since whose grant a supervisor was installed
  crashes, stalls, stops

memory  == <<ownership, toScan, seenFence>>
files   == <<guard, socketLease, registry, fence, admission, expired>>
bounds  == <<crashes, stalls, stops>>
vars == <<alive, reused, pc, memory, files, intruded, bounds>>

-----------------------------------------------------------------------------
(* What one process can see of another.                                    *)

\* isProcessIdentityAlive: a reused pid counts as alive when the start id is
\* missing or cannot be observed.
Sightings(x) == IF x \in alive THEN {TRUE}
                ELSE IF x \in reused THEN {TRUE, FALSE} ELSE {FALSE}

\* Mutated Admissions: a record on file counts whoever wrote it, and when.
AdmissionsForever == {admission # Nobody}

\* readActiveShutdownAdmission: an expired or dead holder does not count and
\* its file is removed.
Admissions == IF admission = Nobody \/ expired THEN {FALSE} ELSE Sightings(admission)

\* proper-lockfile: free, or held by a process that no longer refreshes it.
Takeable(lock) == lock = Nobody \/ lock \notin alive

\* Mutated ownerConflicts: only the socket path is compared.
SocketConflicts(p, q) == SocketOf[p] = SocketOf[q]

\* They share a socket path or a canonical descriptor directory.
ownerConflicts(p, q) == SocketOf[p] = SocketOf[q] \/ DescriptorOf[p] = DescriptorOf[q]

Goto(x, from, to) ==
  /\ x \in alive
  /\ pc[x] \in from
  /\ pc' = [pc EXCEPT ![x] = to]

Unleased(p) == [s \in SocketPath |-> IF socketLease[s] = p THEN Nobody ELSE socketLease[s]]

\* cleanupSupervisorResources of a start that owns no entry, and its exit.
Withdraw(p, from) ==
  /\ Goto(p, from, "gone")
  /\ alive' = alive \ {p}
  /\ socketLease' = Unleased(p)

Holders == {k \in Coordinator : pc[k] \in {"held", "asserted"}}

-----------------------------------------------------------------------------
(* The startup of a supervisor.                                            *)

\* A new process gets its socket's lock (acquireDaemonSocketPathLease); one
\* that waits in vain for the lock leaves no trace.
Launch(p) ==
  /\ pc[p] = "new"
  /\ Takeable(socketLease[SocketOf[p]])
  /\ alive' = alive \cup {p}
  /\ pc' = [pc EXCEPT ![p] = "leased"]
  /\ socketLease' = [socketLease EXCEPT ![SocketOf[p]] = p]
  /\ UNCHANGED <<reused, memory, guard, registry, fence, admission, expired, intruded, bounds>>

\* waitForDaemonStartupFence: there is no fence.
PassFence(p) ==
  /\ Goto(p, {"leased"}, "fenced")
  /\ seenFence[p] = Nobody
  /\ fence[SocketOf[p]] = Nobody
  /\ UNCHANGED <<alive, reused, memory, files, intruded, bounds>>

\* waitForDaemonStartupFence, by a supervisor or by an update coordinator:
\* the process on the fence is gone.
ReadFence(x, s) ==
  /\ x \in alive
  /\ IF x \in Supervisor THEN pc[x] = "leased" /\ s = SocketOf[x] ELSE pc[x] = "held"
  /\ seenFence[x] = Nobody
  /\ fence[s] # Nobody
  /\ FALSE \in Sightings(fence[s])
  /\ seenFence' = [seenFence EXCEPT ![x] = fence[s]]
  /\ UNCHANGED <<alive, reused, pc, ownership, toScan, files, intruded, bounds>>

\* Mutated ClearFence: whatever is on the fence by now is removed.
ClearAnyFence(x) ==
  /\ x \in alive
  /\ seenFence[x] # Nobody
  /\ Takeable(guard)
  /\ LET s == SocketOf[seenFence[x]] IN
       /\ fence' = [fence EXCEPT ![s] = Nobody]
       /\ pc' = IF x \in Supervisor THEN [pc EXCEPT ![x] = "fenced"] ELSE pc
  /\ seenFence' = [seenFence EXCEPT ![x] = Nobody]
  /\ guard' = Nobody
  /\ UNCHANGED <<alive, reused, ownership, toScan, socketLease, registry, admission, expired,
                 intruded, bounds>>

\* Mutated ClearFence: the fence that was read is left where it is.
KeepFence(x) ==
  /\ x \in alive
  /\ seenFence[x] # Nobody
  /\ Takeable(guard)
  /\ pc' = IF fence[SocketOf[seenFence[x]]] = Nobody /\ x \in Supervisor
           THEN [pc EXCEPT ![x] = "fenced"] ELSE pc
  /\ seenFence' = [seenFence EXCEPT ![x] = Nobody]
  /\ guard' = Nobody
  /\ UNCHANGED <<alive, reused, ownership, toScan, socketLease, registry, fence, admission, expired,
                 intruded, bounds>>

\* Its guarded second half: the fence is removed if it is still the one that
\* was read, otherwise the wait goes on.
ClearFence(x) ==
  /\ x \in alive
  /\ seenFence[x] # Nobody
  /\ Takeable(guard)
  /\ LET s == SocketOf[seenFence[x]]
         cleared == fence[s] \in {seenFence[x], Nobody} IN
       /\ fence' = IF cleared THEN [fence EXCEPT ![s] = Nobody] ELSE fence
       /\ pc' = IF cleared /\ x \in Supervisor THEN [pc EXCEPT ![x] = "fenced"] ELSE pc
  /\ seenFence' = [seenFence EXCEPT ![x] = Nobody]
  /\ guard' = Nobody
  /\ UNCHANGED <<alive, reused, ownership, toScan, socketLease, registry, admission, expired,
                 intruded, bounds>>

\* acquireDaemonSupervisorOwnership: a shutdown is in progress.
RefuseDuringShutdown(p) ==
  /\ Withdraw(p, {"fenced"})
  /\ Takeable(guard)
  /\ TRUE \in Admissions
  /\ guard' = Nobody
  /\ UNCHANGED <<reused, memory, registry, fence, admission, expired, intruded, bounds>>

\* acquireDaemonSupervisorOwnership: no shutdown is in progress; the owner
\* directories are listed.
Scan(p) ==
  /\ Goto(p, {"fenced"}, "scanning")
  /\ Takeable(guard)
  /\ FALSE \in Admissions
  /\ guard' = p
  /\ admission' = Nobody
  /\ expired' = FALSE
  /\ toScan' = [toScan EXCEPT ![p] = {q \in registry : ownerConflicts(p, q)}]
  /\ UNCHANGED <<alive, reused, ownership, seenFence, socketLease, registry, fence, intruded, bounds>>

\* Mutated Reclaim: nobody asks whether the owner is still there.
ReclaimAny(p, q) ==
  /\ Goto(p, {"scanning"}, "scanning")
  /\ q \in toScan[p]
  /\ registry' = registry \ {q}
  /\ toScan' = [toScan EXCEPT ![p] = @ \ {q}]
  /\ UNCHANGED <<alive, reused, ownership, seenFence, guard, socketLease, fence, admission, expired,
                 intruded, bounds>>

\* The directory of a conflicting owner that is dead is moved away.
Reclaim(p, q) ==
  /\ Goto(p, {"scanning"}, "scanning")
  /\ q \in toScan[p]
  /\ FALSE \in Sightings(q)
  /\ registry' = registry \ {q}
  /\ toScan' = [toScan EXCEPT ![p] = @ \ {q}]
  /\ UNCHANGED <<alive, reused, ownership, seenFence, guard, socketLease, fence, admission, expired,
                 intruded, bounds>>

\* A conflicting owner is alive: DaemonSupervisorAlreadyRunningError.
RefuseToOwner(p, q) ==
  /\ Withdraw(p, {"scanning"})
  /\ q \in toScan[p]
  /\ TRUE \in Sightings(q)
  /\ guard' = Nobody
  /\ toScan' = [toScan EXCEPT ![p] = {}]
  /\ UNCHANGED <<reused, ownership, seenFence, registry, fence, admission, expired,
                 intruded, bounds>>

\* The candidate directory is renamed to the owner directory.
Install(p) ==
  /\ Goto(p, {"scanning"}, "starting")
  /\ toScan[p] = {}
  /\ guard' = Nobody
  /\ registry' = registry \cup {p}
  /\ ownership' = ownership \cup {p}
  /\ intruded' = Holders
  /\ UNCHANGED <<alive, reused, toScan, seenFence, socketLease, fence, admission, expired, bounds>>

\* updatePhase("owner") and markReady.
Ready(p) ==
  /\ Takeable(guard)
  /\ Goto(p, {"starting"}, IF p \in registry THEN "owner" ELSE "stopping")
  /\ guard' = Nobody
  /\ UNCHANGED <<alive, reused, memory, socketLease, registry, fence, admission, expired, intruded, bounds>>

-----------------------------------------------------------------------------
(* The end of a supervisor: a shutdown, or the cleanup of a failed start.  *)

\* The wait for the fence or for the guard timed out.
TimeOut(p) ==
  /\ Withdraw(p, {"leased", "fenced"})
  /\ seenFence' = [seenFence EXCEPT ![p] = Nobody]
  /\ UNCHANGED <<reused, ownership, toScan, guard, registry, fence, admission, expired,
                 intruded, bounds>>

\* Any later error of start(), or shutdown() by a signal or a command.
Shutdown(p) ==
  /\ Goto(p, {"starting", "owner"}, "stopping")
  /\ UNCHANGED <<alive, reused, memory, files, intruded, bounds>>

\* The socket lock is released and this.ownership is taken away.
ReleaseSocket(p) ==
  /\ Goto(p, {"stopping"}, "unleased")
  /\ socketLease' = Unleased(p)
  /\ ownership' = ownership \ {p}
  /\ UNCHANGED <<alive, reused, toScan, seenFence, guard, registry, fence, admission, expired,
                 intruded, bounds>>

\* DaemonSupervisorOwnership.release: guarded, and only its own entry.
Release(p) ==
  /\ Takeable(guard)
  /\ Goto(p, {"unleased"}, "exiting")
  /\ guard' = Nobody
  /\ registry' = registry \ {p}
  /\ UNCHANGED <<alive, reused, memory, socketLease, fence, admission, expired, intruded, bounds>>

\* release() could not get the guard or rename: the error is logged.
FailRelease(p) ==
  /\ Goto(p, {"unleased"}, "exiting")
  /\ UNCHANGED <<alive, reused, memory, files, intruded, bounds>>

\* process.exit.
Exit(p) ==
  /\ Goto(p, {"exiting"}, "gone")
  /\ alive' = alive \ {p}
  /\ UNCHANGED <<reused, memory, files, intruded, bounds>>

Die(x) ==
  /\ alive' = alive \ {x}
  /\ pc' = [pc EXCEPT ![x] = "gone"]
  /\ ownership' = ownership \ {x}
  /\ toScan' = [toScan EXCEPT ![x] = {}]
  /\ seenFence' = [seenFence EXCEPT ![x] = Nobody]

\* A process dies between any two of its steps; its files and locks remain.
Crash(x) ==
  /\ x \in alive
  /\ pc[x] # "idle"
  /\ crashes < MaxCrashes
  /\ crashes' = crashes + 1
  /\ Die(x)
  /\ intruded' = intruded \ {x}
  /\ UNCHANGED <<reused, files, stalls, stops>>

\* The system gives the pid of a dead process to another one; that matters
\* while a file still names it.
Reuse(x) ==
  /\ x \in Reusable \ reused
  /\ x \in registry \cup {admission} \cup {fence[s] : s \in SocketPath}
  /\ pc[x] = "gone"
  /\ reused' = reused \cup {x}
  /\ UNCHANGED <<alive, pc, memory, files, intruded, bounds>>

-----------------------------------------------------------------------------
(* Coordinators.                                                           *)

\* acquireDaemonShutdownAdmission: no admission is active.
Grant(k) ==
  /\ Goto(k, {"idle"}, "held")
  /\ Takeable(guard)
  /\ FALSE \in Admissions
  /\ guard' = Nobody
  /\ admission' = k
  /\ expired' = FALSE
  /\ UNCHANGED intruded
  /\ UNCHANGED <<alive, reused, memory, socketLease, registry, fence, bounds>>

\* The lease runs out: its holder is gone, or did not renew it for five
\* seconds.
Expire ==
  /\ admission # Nobody
  /\ ~expired
  /\ \/ admission \notin alive /\ UNCHANGED stalls
     \/ /\ admission \in alive
        /\ pc[admission] = "held"
        /\ stalls < MaxStalls
        /\ stalls' = stalls + 1
  /\ expired' = TRUE
  /\ UNCHANGED <<alive, reused, pc, memory, guard, socketLease, registry, fence, admission,
                 intruded, crashes, stops>>

\* Mutated AssertOrRenew: any admission on file is renewed.
RenewAny(k) ==
  /\ Takeable(guard)
  /\ stops < MaxStops
  /\ Goto(k, {"held"}, IF admission # Nobody /\ ~expired THEN "asserted" ELSE "lost")
  /\ seenFence[k] = Nobody
  /\ guard' = Nobody
  /\ intruded' = IF pc'[k] = "lost" THEN intruded \ {k} ELSE intruded
  /\ UNCHANGED <<alive, reused, memory, socketLease, registry, fence, admission, expired, bounds>>

\* assertOrRenew before a coordinator stops something.
AssertOrRenew(k) ==
  /\ Takeable(guard)
  /\ stops < MaxStops
  /\ Goto(k, {"held"}, IF admission = k /\ ~expired THEN "asserted" ELSE "lost")
  /\ seenFence[k] = Nobody
  /\ guard' = Nobody
  /\ intruded' = IF pc'[k] = "lost" THEN intruded \ {k} ELSE intruded
  /\ UNCHANGED <<alive, reused, memory, socketLease, registry, fence, admission, expired, bounds>>

\* A supervisor is killed, is told to shut down, or turns out to be gone.
Stop(k) ==
  /\ k \in alive
  /\ pc[k] = "asserted"
  /\ stops < MaxStops
  /\ stops' = stops + 1
  /\ \/ \E p \in alive \cap Supervisor :
          /\ alive' = alive \ {p}
          /\ pc' = [pc EXCEPT ![k] = "held", ![p] = "gone"]
          /\ ownership' = ownership \ {p}
          /\ toScan' = [toScan EXCEPT ![p] = {}]
          /\ seenFence' = [seenFence EXCEPT ![p] = Nobody]
     \/ \E p \in alive \cap Supervisor :
          /\ pc[p] = "owner"
          /\ pc' = [pc EXCEPT ![k] = "held", ![p] = "stopping"]
          /\ UNCHANGED <<alive, memory>>
     \/ /\ pc' = [pc EXCEPT ![k] = "held"]
        /\ UNCHANGED <<alive, memory>>
  /\ UNCHANGED <<reused, files, intruded, crashes, stalls>>

\* persistDaemonStartupFenceFromOwner: the update coordinator was greeted by
\* p, which is still the one registered owner of its socket and still runs.
PersistFence(k, p) ==
  /\ k \in alive
  /\ pc[k] = "held"
  /\ seenFence[k] = Nobody
  /\ Takeable(guard)
  /\ pc[p] \in {"owner", "stopping", "unleased"}
  /\ p \in registry \cap alive
  /\ \A q \in registry : SocketOf[q] = SocketOf[p] => q = p
  /\ fence' = [fence EXCEPT ![SocketOf[p]] = p]
  /\ guard' = Nobody
  /\ UNCHANGED <<alive, reused, pc, memory, socketLease, registry, admission, expired, intruded, bounds>>

\* DaemonShutdownAdmission.release: only its own record.
ReleaseAdmission(k) ==
  /\ Takeable(guard)
  /\ Goto(k, {"held", "lost"}, "gone")
  /\ seenFence[k] = Nobody
  /\ guard' = Nobody
  /\ IF admission = k
     THEN admission' = Nobody /\ expired' = FALSE
     ELSE UNCHANGED <<admission, expired>>
  /\ alive' = alive \ {k}
  /\ intruded' = intruded \ {k}
  /\ UNCHANGED <<reused, memory, socketLease, registry, fence, bounds>>

-----------------------------------------------------------------------------
Init ==
  /\ alive = Coordinator
  /\ reused = {}
  /\ pc = [x \in Process |-> IF x \in Supervisor THEN "new" ELSE "idle"]
  /\ ownership = {}
  /\ toScan = [p \in Process |-> {}]
  /\ seenFence = [x \in Process |-> Nobody]
  /\ guard = Nobody
  /\ socketLease = [s \in SocketPath |-> Nobody]
  /\ registry = {}
  /\ fence = [s \in SocketPath |-> Nobody]
  /\ admission = Nobody
  /\ expired = FALSE
  /\ intruded = {}
  /\ crashes = 0
  /\ stalls = 0
  /\ stops = 0

StartUp(p) ==
  \/ PassFence(p) \/ ReadFence(p, SocketOf[p]) \/ ClearFence(p)
  \/ RefuseDuringShutdown(p) \/ Scan(p)
  \/ \E q \in Supervisor : Reclaim(p, q) \/ RefuseToOwner(p, q)
  \/ Install(p) \/ Ready(p) \/ TimeOut(p)

CleanUp(p) == ReleaseSocket(p) \/ Release(p) \/ FailRelease(p) \/ Exit(p)

Coordinate(k) ==
  \/ Grant(k) \/ AssertOrRenew(k) \/ Stop(k) \/ ClearFence(k) \/ ReleaseAdmission(k)

Next ==
  \/ \E p \in Supervisor : Launch(p) \/ StartUp(p) \/ Shutdown(p) \/ CleanUp(p)
  \/ \E k \in Coordinator :
       \/ Coordinate(k)
       \/ \E s \in SocketPath : ReadFence(k, s)
       \/ \E p \in Supervisor : PersistFence(k, p)
  \/ \E x \in Process : Crash(x) \/ Reuse(x)
  \/ Expire

Spec == Init /\ [][Next]_vars

\* Every running process goes on with what it has begun, locks of dead
\* processes go stale and leases of dead holders run out.
Fairness ==
  /\ \A p \in Supervisor : WF_vars(StartUp(p)) /\ WF_vars(CleanUp(p))
  /\ \A k \in Coordinator : WF_vars(Coordinate(k))
  /\ WF_vars(Expire /\ stalls' = stalls)

LiveSpec == Spec /\ Fairness

-----------------------------------------------------------------------------
(* Properties.                                                             *)

SupervisorStages ==
  {"new", "leased", "fenced", "scanning", "starting", "owner", "stopping",
   "unleased", "exiting", "gone"}
CoordinatorStages == {"idle", "held", "asserted", "lost", "gone"}

TypeOK ==
  /\ alive \subseteq Process
  /\ reused \subseteq Process
  /\ pc \in [Process -> SupervisorStages \cup CoordinatorStages]
  /\ ownership \subseteq Supervisor
  /\ toScan \in [Process -> SUBSET Supervisor]
  /\ seenFence \in [Process -> Supervisor \cup {Nobody}]
  /\ guard \in Supervisor \cup {Nobody}
  /\ socketLease \in [SocketPath -> Supervisor \cup {Nobody}]
  /\ registry \subseteq Supervisor
  /\ fence \in [SocketPath -> Supervisor \cup {Nobody}]
  /\ admission \in Coordinator \cup {Nobody}
  /\ expired \in BOOLEAN
  /\ intruded \subseteq Coordinator
  /\ crashes \in 0 .. MaxCrashes
  /\ stalls \in 0 .. MaxStalls
  /\ stops \in 0 .. MaxStops

\* A supervisor that believes it owns its scope is in the registry: nobody
\* moved the entry of a live owner away, so its assertCurrent succeeds.
OwnersAreRegistered == ownership \subseteq registry \cap alive

\* this.ownership is set from the installation of the entry to the release.
OwnersInService == \A p \in ownership : pc[p] \in {"starting", "owner", "stopping"}

\* Two supervisors never own the same socket or the same descriptor directory
\* at once, however starts, crashes, pid reuse and shutdowns interleave.
OneOwner ==
  \A p, q \in ownership :
    SocketOf[p] = SocketOf[q] \/ DescriptorOf[p] = DescriptorOf[q] => p = q

\* Between the listing of the registry and the installation nothing changes
\* under the guard: every conflicting entry is still to be examined.
ScanComplete ==
  \A p \in alive \cap Supervisor : pc[p] = "scanning" =>
    /\ guard = p
    /\ \A q \in registry : ownerConflicts(p, q) => q \in toScan[p]

\* An admission on file whose lease runs was not interrupted by an
\* installation; none is on file during a scan.
AdmissionInv ==
  /\ \A p \in alive \cap Supervisor : pc[p] = "scanning" => admission = Nobody
  /\ \A k \in Coordinator : pc[k] = "asserted" => admission = k /\ ~expired /\ k \in alive
  /\ \A k \in Coordinator : admission = k /\ ~expired => k \notin intruded
  /\ intruded \subseteq Holders

\* A fence names a process that was started; one that was read as dead stays
\* dead.
FenceInv ==
  /\ \A s \in SocketPath : fence[s] # Nobody => pc[fence[s]] # "new" /\ SocketOf[fence[s]] = s
  /\ \A x \in Process : seenFence[x] # Nobody =>
       /\ pc[seenFence[x]] # "new"
       /\ seenFence[x] \notin alive
       /\ x \in Supervisor => pc[x] = "leased" /\ SocketOf[seenFence[x]] = SocketOf[x]

OInv ==
  /\ TypeOK
  /\ OwnersAreRegistered /\ OwnersInService /\ OneOwner
  /\ ScanComplete /\ AdmissionInv /\ FenceInv

\* When a coordinator is told that its admission still holds, no supervisor
\* was installed since it was granted.
AdmissionUnbroken == \A k \in Coordinator : pc[k] = "asserted" => k \notin intruded

\* A startup fence disappears only after the process named on it has exited,
\* and a successor passes only when no live process is on the fence.
FenceRespected ==
  [][/\ \A s \in SocketPath :
          fence[s] # Nobody /\ fence'[s] = Nobody => fence[s] \notin alive
     /\ \A p \in Supervisor :
          pc[p] = "leased" /\ pc'[p] = "fenced" => fence[SocketOf[p]] \notin alive]_vars

\* A supervisor that starts ends up in service or out of the way, whatever the
\* predecessors left behind: no lock, entry or fence of a dead process blocks
\* it for good.
StartupSettles ==
  \A p \in Supervisor : pc[p] = "leased" ~> pc[p] \in {"owner", "gone"}

\* Every coordinator that waits for the admission gets it, even when the one
\* before it died with it.
EventuallyAdmitted ==
  \A k \in Coordinator : pc[k] = "idle" ~> pc[k] # "idle"
=============================================================================
