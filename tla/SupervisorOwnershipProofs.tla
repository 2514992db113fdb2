---------------------- MODULE SupervisorOwnershipProofs ----------------------
(***************************************************************************)
(* The theorems about SupervisorOwnership: OInv is inductive, and with it  *)
(* one supervisor owns a scope at a time, an admission that is confirmed   *)
(* was not interrupted and fences of live processes stay, for any number   *)
(* of supervisors, coordinators, crashes, stalls and reused pids.          *)
(***************************************************************************)
EXTENDS SupervisorOwnership, TLAPS

USE OwnershipAssumption DEF Process, Nobody

-----------------------------------------------------------------------------
(* What each action preserves.                                             *)

LEMMA InitPreserves == Init => OInv
<1> SUFFICES ASSUME Init PROVE OInv
  OBVIOUS
<1> USE DEF Init
<1>1. TypeOK
  <2>1. pc \in [Process -> SupervisorStages \cup CoordinatorStages]
    BY DEF SupervisorStages, CoordinatorStages
  <2>2. crashes \in 0 .. MaxCrashes /\ stalls \in 0 .. MaxStalls /\ stops \in 0 .. MaxStops
    OBVIOUS
  <2>3. /\ toScan \in [Process -> SUBSET Supervisor]
        /\ seenFence \in [Process -> Supervisor \cup {Nobody}]
        /\ socketLease \in [SocketPath -> Supervisor \cup {Nobody}]
        /\ fence \in [SocketPath -> Supervisor \cup {Nobody}]
    OBVIOUS
  <2> QED
    BY <2>1, <2>2, <2>3 DEF TypeOK
<1>2. OwnersAreRegistered /\ OwnersInService /\ OneOwner
  BY DEF OwnersAreRegistered, OwnersInService, OneOwner
<1>3. ScanComplete /\ AdmissionInv /\ FenceInv
  BY DEF ScanComplete, AdmissionInv, FenceInv, Holders
<1> QED
  BY <1>1, <1>2, <1>3 DEF OInv

\* A supervisor that gets its socket lock touches none of the shared files but the lock.
LEMMA LaunchPreserves ==
  ASSUME NEW p \in Supervisor, OInv, Launch(p)
  PROVE  OInv'
<1> USE DEF Launch, Takeable, OInv
<1>1. TypeOK'
  BY DEF TypeOK, SupervisorStages, CoordinatorStages, bounds, files, memory
<1>2. OwnersAreRegistered' /\ OwnersInService' /\ OneOwner'
  BY DEF TypeOK, OwnersAreRegistered, OwnersInService, OneOwner, ScanComplete, ownerConflicts, bounds, files, memory
<1>3. ScanComplete'
  BY DEF TypeOK, OwnersAreRegistered, ScanComplete, bounds, files, memory
<1>4. AdmissionInv'
  BY DEF TypeOK, ScanComplete, AdmissionInv, Holders, bounds, files, memory
<1>5. FenceInv'
  BY DEF TypeOK, FenceInv, bounds, files, memory
<1> QED
  BY <1>1, <1>2, <1>3, <1>4, <1>5

\* Without a fence there is nothing to wait for.
LEMMA PassFencePreserves ==
  ASSUME NEW p \in Supervisor, OInv, PassFence(p)
  PROVE  OInv'
<1> USE DEF PassFence, Goto, OInv
<1>1. TypeOK'
  BY DEF TypeOK, SupervisorStages, CoordinatorStages, bounds, files, memory
<1>2. OwnersAreRegistered' /\ OwnersInService' /\ OneOwner'
  BY DEF TypeOK, OwnersAreRegistered, OwnersInService, OneOwner, ScanComplete, ownerConflicts, bounds, files, memory
<1>3. ScanComplete'
  BY DEF TypeOK, OwnersAreRegistered, ScanComplete, bounds, files, memory
<1>4. AdmissionInv'
  BY DEF TypeOK, ScanComplete, AdmissionInv, Holders, bounds, files, memory
<1>5. FenceInv'
  BY DEF TypeOK, FenceInv, bounds, files, memory
<1> QED
  BY <1>1, <1>2, <1>3, <1>4, <1>5

\* The process read from the fence is dead and was started on that socket.
LEMMA ReadFencePreserves ==
  ASSUME NEW x \in Process, NEW s \in SocketPath, OInv, ReadFence(x, s)
  PROVE  OInv'
<1> USE DEF ReadFence, Sightings, OInv
<1>1. TypeOK'
  BY DEF TypeOK, SupervisorStages, CoordinatorStages, bounds, files, memory
<1>2. OwnersAreRegistered' /\ OwnersInService' /\ OneOwner'
  BY DEF TypeOK, OwnersAreRegistered, OwnersInService, OneOwner, ScanComplete, ownerConflicts, bounds, files, memory
<1>3. ScanComplete'
  BY DEF TypeOK, OwnersAreRegistered, ScanComplete, bounds, files, memory
<1>4. AdmissionInv'
  BY DEF TypeOK, ScanComplete, AdmissionInv, Holders, bounds, files, memory
<1>5. FenceInv'
  <2>1. /\ fence[s] \in Supervisor \ alive
        /\ pc[fence[s]] # "new"
        /\ SocketOf[fence[s]] = s
    <3>1. fence[s] \in Supervisor
      BY DEF TypeOK
    <3>2. fence[s] \notin alive
      OBVIOUS
    <3> QED
      BY <3>1, <3>2 DEF FenceInv
  <2>2. x \in Supervisor => pc[x] = "leased" /\ s = SocketOf[x]
    OBVIOUS
  <2>3. seenFence'[x] = fence[s] /\ \A y \in Process \ {x} : seenFence'[y] = seenFence[y]
    BY DEF TypeOK
  <2> QED
    BY <2>1, <2>2, <2>3 DEF FenceInv, TypeOK, files
<1> QED
  BY <1>1, <1>2, <1>3, <1>4, <1>5

\* Removing a fence leaves the registry alone.
LEMMA ClearFencePreserves ==
  ASSUME NEW x \in Process, OInv, ClearFence(x)
  PROVE  OInv'
<1> USE DEF ClearFence, Takeable, OInv
<1>1. TypeOK'
  BY DEF TypeOK, SupervisorStages, CoordinatorStages, bounds, files, memory
<1>2. OwnersAreRegistered' /\ OwnersInService' /\ OneOwner'
  BY DEF TypeOK, FenceInv, OwnersAreRegistered, OwnersInService, OneOwner, ScanComplete, ownerConflicts, bounds, files, memory
<1>3. ScanComplete'
  BY DEF TypeOK, OwnersAreRegistered, ScanComplete, bounds, files, memory
<1>4. AdmissionInv'
  BY DEF TypeOK, ScanComplete, AdmissionInv, Holders, bounds, files, memory
<1>5. FenceInv'
  BY DEF TypeOK, FenceInv, bounds, files, memory
<1> QED
  BY <1>1, <1>2, <1>3, <1>4, <1>5

\* A refused start exits.
LEMMA RefuseDuringShutdownPreserves ==
  ASSUME NEW p \in Supervisor, OInv, RefuseDuringShutdown(p)
  PROVE  OInv'
<1> USE DEF RefuseDuringShutdown, Withdraw, Unleased, Goto, Takeable, OInv
<1>1. TypeOK'
  BY DEF TypeOK, SupervisorStages, CoordinatorStages, bounds, files, memory
<1>2. OwnersAreRegistered' /\ OwnersInService' /\ OneOwner'
  BY DEF TypeOK, OwnersAreRegistered, OwnersInService, OneOwner, ScanComplete, ownerConflicts, bounds, files, memory
<1>3. ScanComplete'
  BY DEF TypeOK, OwnersAreRegistered, ScanComplete, bounds, files, memory
<1>4. AdmissionInv'
  BY DEF TypeOK, ScanComplete, AdmissionInv, Holders, bounds, files, memory
<1>5. FenceInv'
  BY DEF TypeOK, FenceInv, bounds, files, memory
<1> QED
  BY <1>1, <1>2, <1>3, <1>4, <1>5

\* The scan starts with every conflicting entry to examine and without an admission: a confirmed one would have been sighted.
LEMMA ScanPreserves ==
  ASSUME NEW p \in Supervisor, OInv, Scan(p)
  PROVE  OInv'
<1> USE DEF Scan, Goto, Takeable, Admissions, Sightings, OInv
<1>1. TypeOK'
  BY DEF TypeOK, SupervisorStages, CoordinatorStages, bounds, files, memory
<1>2. OwnersAreRegistered' /\ OwnersInService' /\ OneOwner'
  BY DEF TypeOK, OwnersAreRegistered, OwnersInService, OneOwner, ScanComplete, ownerConflicts, bounds, files, memory
<1>3. ScanComplete'
  BY DEF TypeOK, OwnersAreRegistered, ScanComplete, bounds, files, memory
<1>4. AdmissionInv'
  BY DEF TypeOK, ScanComplete, AdmissionInv, Holders, bounds, files, memory
<1>5. FenceInv'
  BY DEF TypeOK, FenceInv, bounds, files, memory
<1> QED
  BY <1>1, <1>2, <1>3, <1>4, <1>5

\* Only the entry of a dead process is moved away.
LEMMA ReclaimPreserves ==
  ASSUME NEW p \in Supervisor, NEW q \in Supervisor, OInv, Reclaim(p, q)
  PROVE  OInv'
<1> USE DEF Reclaim, Goto, Sightings, OInv
<1>1. TypeOK'
  BY DEF TypeOK, SupervisorStages, CoordinatorStages, bounds, files, memory
<1>2. OwnersAreRegistered' /\ OwnersInService' /\ OneOwner'
  BY DEF TypeOK, OwnersAreRegistered, OwnersInService, OneOwner, ScanComplete, ownerConflicts, bounds, files, memory
<1>3. ScanComplete'
  BY DEF TypeOK, OwnersAreRegistered, ScanComplete, bounds, files, memory
<1>4. AdmissionInv'
  BY DEF TypeOK, ScanComplete, AdmissionInv, Holders, bounds, files, memory
<1>5. FenceInv'
  BY DEF TypeOK, FenceInv, bounds, files, memory
<1> QED
  BY <1>1, <1>2, <1>3, <1>4, <1>5

\* A start refused for a live owner leaves the registry as it is.
LEMMA RefuseToOwnerPreserves ==
  ASSUME NEW p \in Supervisor, NEW q \in Supervisor, OInv, RefuseToOwner(p, q)
  PROVE  OInv'
<1> USE DEF RefuseToOwner, Withdraw, Unleased, Goto, Takeable, OInv
<1>1. TypeOK'
  BY DEF TypeOK, SupervisorStages, CoordinatorStages, bounds, files, memory
<1>2. OwnersAreRegistered' /\ OwnersInService' /\ OneOwner'
  BY DEF TypeOK, OwnersAreRegistered, OwnersInService, OneOwner, ScanComplete, ownerConflicts, bounds, files, memory
<1>3. ScanComplete'
  BY DEF TypeOK, OwnersAreRegistered, ScanComplete, bounds, files, memory
<1>4. AdmissionInv'
  BY DEF TypeOK, ScanComplete, AdmissionInv, Holders, bounds, files, memory
<1>5. FenceInv'
  BY DEF TypeOK, FenceInv, bounds, files, memory
<1> QED
  BY <1>1, <1>2, <1>3, <1>4, <1>5

\* Nothing is left to examine, so no registered owner conflicts with the new one.
LEMMA InstallPreserves ==
  ASSUME NEW p \in Supervisor, OInv, Install(p)
  PROVE  OInv'
<1> USE DEF Install, Goto, Holders, OInv
<1>1. TypeOK'
  BY DEF TypeOK, SupervisorStages, CoordinatorStages, bounds, files, memory
<1>2. OwnersAreRegistered' /\ OwnersInService' /\ OneOwner'
  BY DEF TypeOK, OwnersAreRegistered, OwnersInService, OneOwner, ScanComplete, ownerConflicts, bounds, files, memory
<1>3. ScanComplete'
  BY DEF TypeOK, OwnersAreRegistered, ScanComplete, bounds, files, memory
<1>4. AdmissionInv'
  BY DEF TypeOK, ScanComplete, AdmissionInv, Holders, bounds, files, memory
<1>5. FenceInv'
  BY DEF TypeOK, FenceInv, bounds, files, memory
<1> QED
  BY <1>1, <1>2, <1>3, <1>4, <1>5

\* The phase update changes no entry.
LEMMA ReadyPreserves ==
  ASSUME NEW p \in Supervisor, OInv, Ready(p)
  PROVE  OInv'
<1> USE DEF Ready, Goto, Takeable, OInv
<1>1. TypeOK'
  BY DEF TypeOK, SupervisorStages, CoordinatorStages, bounds, files, memory
<1>2. OwnersAreRegistered' /\ OwnersInService' /\ OneOwner'
  BY DEF TypeOK, OwnersAreRegistered, OwnersInService, OneOwner, ScanComplete, ownerConflicts, bounds, files, memory
<1>3. ScanComplete'
  BY DEF TypeOK, OwnersAreRegistered, ScanComplete, bounds, files, memory
<1>4. AdmissionInv'
  BY DEF TypeOK, ScanComplete, AdmissionInv, Holders, bounds, files, memory
<1>5. FenceInv'
  BY DEF TypeOK, FenceInv, bounds, files, memory
<1> QED
  BY <1>1, <1>2, <1>3, <1>4, <1>5

\* A start that times out exits.
LEMMA TimeOutPreserves ==
  ASSUME NEW p \in Supervisor, OInv, TimeOut(p)
  PROVE  OInv'
<1> USE DEF TimeOut, Withdraw, Unleased, Goto, OInv
<1>1. TypeOK'
  BY DEF TypeOK, SupervisorStages, CoordinatorStages, bounds, files, memory
<1>2. OwnersAreRegistered' /\ OwnersInService' /\ OneOwner'
  BY DEF TypeOK, OwnersAreRegistered, OwnersInService, OneOwner, ScanComplete, ownerConflicts, bounds, files, memory
<1>3. ScanComplete'
  BY DEF TypeOK, OwnersAreRegistered, ScanComplete, bounds, files, memory
<1>4. AdmissionInv'
  BY DEF TypeOK, ScanComplete, AdmissionInv, Holders, bounds, files, memory
<1>5. FenceInv'
  BY DEF TypeOK, FenceInv, bounds, files, memory
<1> QED
  BY <1>1, <1>2, <1>3, <1>4, <1>5

\* A shutdown begins.
LEMMA ShutdownPreserves ==
  ASSUME NEW p \in Supervisor, OInv, Shutdown(p)
  PROVE  OInv'
<1> USE DEF Shutdown, Goto, OInv
<1>1. TypeOK'
  BY DEF TypeOK, SupervisorStages, CoordinatorStages, bounds, files, memory
<1>2. OwnersAreRegistered' /\ OwnersInService' /\ OneOwner'
  BY DEF TypeOK, OwnersAreRegistered, OwnersInService, OneOwner, ScanComplete, ownerConflicts, bounds, files, memory
<1>3. ScanComplete'
  BY DEF TypeOK, OwnersAreRegistered, ScanComplete, bounds, files, memory
<1>4. AdmissionInv'
  BY DEF TypeOK, ScanComplete, AdmissionInv, Holders, bounds, files, memory
<1>5. FenceInv'
  BY DEF TypeOK, FenceInv, bounds, files, memory
<1> QED
  BY <1>1, <1>2, <1>3, <1>4, <1>5

\* this.ownership goes before the entry.
LEMMA ReleaseSocketPreserves ==
  ASSUME NEW p \in Supervisor, OInv, ReleaseSocket(p)
  PROVE  OInv'
<1> USE DEF ReleaseSocket, Unleased, Goto, OInv
<1>1. TypeOK'
  BY DEF TypeOK, SupervisorStages, CoordinatorStages, bounds, files, memory
<1>2. OwnersAreRegistered' /\ OwnersInService' /\ OneOwner'
  BY DEF TypeOK, OwnersAreRegistered, OwnersInService, OneOwner, ScanComplete, ownerConflicts, bounds, files, memory
<1>3. ScanComplete'
  BY DEF TypeOK, OwnersAreRegistered, ScanComplete, bounds, files, memory
<1>4. AdmissionInv'
  BY DEF TypeOK, ScanComplete, AdmissionInv, Holders, bounds, files, memory
<1>5. FenceInv'
  BY DEF TypeOK, FenceInv, bounds, files, memory
<1> QED
  BY <1>1, <1>2, <1>3, <1>4, <1>5

\* The entry that is removed is not owned any more.
LEMMA ReleasePreserves ==
  ASSUME NEW p \in Supervisor, OInv, Release(p)
  PROVE  OInv'
<1> USE DEF Release, Goto, Takeable, OInv
<1>1. TypeOK'
  BY DEF TypeOK, SupervisorStages, CoordinatorStages, bounds, files, memory
<1>2. OwnersAreRegistered' /\ OwnersInService' /\ OneOwner'
  BY DEF TypeOK, OwnersAreRegistered, OwnersInService, OneOwner, ScanComplete, ownerConflicts, bounds, files, memory
<1>3. ScanComplete'
  BY DEF TypeOK, OwnersAreRegistered, ScanComplete, bounds, files, memory
<1>4. AdmissionInv'
  BY DEF TypeOK, ScanComplete, AdmissionInv, Holders, bounds, files, memory
<1>5. FenceInv'
  BY DEF TypeOK, FenceInv, bounds, files, memory
<1> QED
  BY <1>1, <1>2, <1>3, <1>4, <1>5

\* An entry that could not be removed stays.
LEMMA FailReleasePreserves ==
  ASSUME NEW p \in Supervisor, OInv, FailRelease(p)
  PROVE  OInv'
<1> USE DEF FailRelease, Goto, OInv
<1>1. TypeOK'
  BY DEF TypeOK, SupervisorStages, CoordinatorStages, bounds, files, memory
<1>2. OwnersAreRegistered' /\ OwnersInService' /\ OneOwner'
  BY DEF TypeOK, OwnersAreRegistered, OwnersInService, OneOwner, ScanComplete, ownerConflicts, bounds, files, memory
<1>3. ScanComplete'
  BY DEF TypeOK, OwnersAreRegistered, ScanComplete, bounds, files, memory
<1>4. AdmissionInv'
  BY DEF TypeOK, ScanComplete, AdmissionInv, Holders, bounds, files, memory
<1>5. FenceInv'
  BY DEF TypeOK, FenceInv, bounds, files, memory
<1> QED
  BY <1>1, <1>2, <1>3, <1>4, <1>5

\* An exiting supervisor owns nothing.
LEMMA ExitPreserves ==
  ASSUME NEW p \in Supervisor, OInv, Exit(p)
  PROVE  OInv'
<1> USE DEF Exit, Goto, OInv
<1>1. TypeOK'
  BY DEF TypeOK, SupervisorStages, CoordinatorStages, bounds, files, memory
<1>2. OwnersAreRegistered' /\ OwnersInService' /\ OneOwner'
  BY DEF TypeOK, OwnersAreRegistered, OwnersInService, OneOwner, ScanComplete, ownerConflicts, bounds, files, memory
<1>3. ScanComplete'
  BY DEF TypeOK, OwnersAreRegistered, ScanComplete, bounds, files, memory
<1>4. AdmissionInv'
  BY DEF TypeOK, ScanComplete, AdmissionInv, Holders, bounds, files, memory
<1>5. FenceInv'
  BY DEF TypeOK, FenceInv, bounds, files, memory
<1> QED
  BY <1>1, <1>2, <1>3, <1>4, <1>5

\* A dead process owns nothing, whatever its files say.
LEMMA CrashPreserves ==
  ASSUME NEW x \in Process, OInv, Crash(x)
  PROVE  OInv'
<1> USE DEF Crash, Die, OInv
<1>1. TypeOK'
  BY DEF TypeOK, SupervisorStages, CoordinatorStages, bounds, files, memory
<1>2. OwnersAreRegistered' /\ OwnersInService' /\ OneOwner'
  BY DEF TypeOK, OwnersAreRegistered, OwnersInService, OneOwner, ScanComplete, ownerConflicts, bounds, files, memory
<1>3. ScanComplete'
  BY DEF TypeOK, OwnersAreRegistered, ScanComplete, bounds, files, memory
<1>4. AdmissionInv'
  BY DEF TypeOK, ScanComplete, AdmissionInv, Holders, bounds, files, memory
<1>5. FenceInv'
  BY DEF TypeOK, FenceInv, bounds, files, memory
<1> QED
  BY <1>1, <1>2, <1>3, <1>4, <1>5

\* A reused pid changes what can be seen, not what is.
LEMMA ReusePreserves ==
  ASSUME NEW x \in Process, OInv, Reuse(x)
  PROVE  OInv'
<1> USE DEF Reuse, OInv
<1>1. TypeOK'
  BY DEF TypeOK, SupervisorStages, CoordinatorStages, bounds, files, memory
<1>2. OwnersAreRegistered' /\ OwnersInService' /\ OneOwner'
  BY DEF TypeOK, OwnersAreRegistered, OwnersInService, OneOwner, ScanComplete, ownerConflicts, bounds, files, memory
<1>3. ScanComplete'
  BY DEF TypeOK, OwnersAreRegistered, ScanComplete, bounds, files, memory
<1>4. AdmissionInv'
  BY DEF TypeOK, ScanComplete, AdmissionInv, Holders, bounds, files, memory
<1>5. FenceInv'
  BY DEF TypeOK, FenceInv, bounds, files, memory
<1> QED
  BY <1>1, <1>2, <1>3, <1>4, <1>5

\* An admission is granted only while nobody scans.
LEMMA GrantPreserves ==
  ASSUME NEW k \in Coordinator, OInv, Grant(k)
  PROVE  OInv'
<1> USE DEF Grant, Goto, Takeable, Admissions, Sightings, OInv
<1>1. TypeOK'
  BY DEF TypeOK, SupervisorStages, CoordinatorStages, bounds, files, memory
<1>2. OwnersAreRegistered' /\ OwnersInService' /\ OneOwner'
  BY DEF TypeOK, OwnersAreRegistered, OwnersInService, OneOwner, ScanComplete, ownerConflicts, bounds, files, memory
<1>3. ScanComplete'
  BY DEF TypeOK, OwnersAreRegistered, ScanComplete, bounds, files, memory
<1>4. AdmissionInv'
  <2>1. \A p \in alive \cap Supervisor : pc[p] # "scanning"
    BY DEF ScanComplete
  <2>2. \A j \in Coordinator : pc[j] # "asserted"
    BY DEF AdmissionInv
  <2>3. k \notin intruded /\ intruded \subseteq Holders'
    BY DEF AdmissionInv, Holders, TypeOK
  <2> QED
    BY <2>1, <2>2, <2>3 DEF AdmissionInv, TypeOK
<1>5. FenceInv'
  BY DEF TypeOK, FenceInv, bounds, files, memory
<1> QED
  BY <1>1, <1>2, <1>3, <1>4, <1>5

\* A lease does not run out between its confirmation and the stop that follows.
LEMMA ExpirePreserves ==
  ASSUME OInv, Expire
  PROVE  OInv'
<1> USE DEF Expire, OInv
<1>1. TypeOK'
  BY DEF TypeOK, SupervisorStages, CoordinatorStages, bounds, files, memory
<1>2. OwnersAreRegistered' /\ OwnersInService' /\ OneOwner'
  BY DEF TypeOK, OwnersAreRegistered, OwnersInService, OneOwner, ScanComplete, ownerConflicts, bounds, files, memory
<1>3. ScanComplete'
  BY DEF TypeOK, OwnersAreRegistered, ScanComplete, bounds, files, memory
<1>4. AdmissionInv'
  BY DEF TypeOK, ScanComplete, AdmissionInv, Holders, bounds, files, memory
<1>5. FenceInv'
  BY DEF TypeOK, FenceInv, bounds, files, memory
<1> QED
  BY <1>1, <1>2, <1>3, <1>4, <1>5

\* A confirmation sees its own record, unexpired.
LEMMA AssertOrRenewPreserves ==
  ASSUME NEW k \in Coordinator, OInv, AssertOrRenew(k)
  PROVE  OInv'
<1> USE DEF AssertOrRenew, Goto, Takeable, OInv
<1>1. TypeOK'
  BY DEF TypeOK, SupervisorStages, CoordinatorStages, bounds, files, memory
<1>2. OwnersAreRegistered' /\ OwnersInService' /\ OneOwner'
  BY DEF TypeOK, OwnersAreRegistered, OwnersInService, OneOwner, ScanComplete, ownerConflicts, bounds, files, memory
<1>3. ScanComplete'
  BY DEF TypeOK, OwnersAreRegistered, ScanComplete, bounds, files, memory
<1>4. AdmissionInv'
  BY DEF TypeOK, ScanComplete, AdmissionInv, Holders, bounds, files, memory
<1>5. FenceInv'
  BY DEF TypeOK, FenceInv, bounds, files, memory
<1> QED
  BY <1>1, <1>2, <1>3, <1>4, <1>5

\* A killed supervisor owns nothing.
LEMMA StopPreserves ==
  ASSUME NEW k \in Coordinator, OInv, Stop(k)
  PROVE  OInv'
<1> USE DEF Stop, OInv
<1>1. TypeOK'
  BY DEF TypeOK, SupervisorStages, CoordinatorStages, bounds, files, memory
<1>2. OwnersAreRegistered' /\ OwnersInService' /\ OneOwner'
  BY DEF TypeOK, OwnersAreRegistered, OwnersInService, OneOwner, ScanComplete, ownerConflicts, bounds, files, memory
<1>3. ScanComplete'
  BY DEF TypeOK, OwnersAreRegistered, ScanComplete, bounds, files, memory
<1>4. AdmissionInv'
  BY DEF TypeOK, ScanComplete, AdmissionInv, Holders, bounds, files, memory
<1>5. FenceInv'
  BY DEF TypeOK, FenceInv, bounds, files, memory
<1> QED
  BY <1>1, <1>2, <1>3, <1>4, <1>5

\* The process put on the fence was started.
LEMMA PersistFencePreserves ==
  ASSUME NEW k \in Coordinator, NEW p \in Supervisor, OInv, PersistFence(k, p)
  PROVE  OInv'
<1> USE DEF PersistFence, Takeable, OInv
<1>1. TypeOK'
  BY DEF TypeOK, SupervisorStages, CoordinatorStages, bounds, files, memory
<1>2. OwnersAreRegistered' /\ OwnersInService' /\ OneOwner'
  BY DEF TypeOK, OwnersAreRegistered, OwnersInService, OneOwner, ScanComplete, ownerConflicts, bounds, files, memory
<1>3. ScanComplete'
  BY DEF TypeOK, OwnersAreRegistered, ScanComplete, bounds, files, memory
<1>4. AdmissionInv'
  BY DEF TypeOK, ScanComplete, AdmissionInv, Holders, bounds, files, memory
<1>5. FenceInv'
  BY DEF TypeOK, FenceInv, bounds, files, memory
<1> QED
  BY <1>1, <1>2, <1>3, <1>4, <1>5

\* The admission that is removed is the coordinator's own.
LEMMA ReleaseAdmissionPreserves ==
  ASSUME NEW k \in Coordinator, OInv, ReleaseAdmission(k)
  PROVE  OInv'
<1> USE DEF ReleaseAdmission, Goto, Takeable, OInv
<1>1. TypeOK'
  BY DEF TypeOK, SupervisorStages, CoordinatorStages, bounds, files, memory
<1>2. OwnersAreRegistered' /\ OwnersInService' /\ OneOwner'
  BY DEF TypeOK, OwnersAreRegistered, OwnersInService, OneOwner, ScanComplete, ownerConflicts, bounds, files, memory
<1>3. ScanComplete'
  BY DEF TypeOK, OwnersAreRegistered, ScanComplete, bounds, files, memory
<1>4. AdmissionInv'
  BY DEF TypeOK, ScanComplete, AdmissionInv, Holders, bounds, files, memory
<1>5. FenceInv'
  BY DEF TypeOK, FenceInv, bounds, files, memory
<1> QED
  BY <1>1, <1>2, <1>3, <1>4, <1>5

-----------------------------------------------------------------------------
(* The theorems.                                                           *)

LEMMA NextPreserves == OInv /\ [Next]_vars => OInv'
<1> SUFFICES ASSUME OInv, [Next]_vars PROVE OInv'
  OBVIOUS
<1>1. ASSUME NEW p \in Supervisor, Launch(p) \/ StartUp(p) \/ Shutdown(p) \/ CleanUp(p)
      PROVE  OInv'
  BY <1>1, LaunchPreserves, PassFencePreserves, ReadFencePreserves, ClearFencePreserves,
     RefuseDuringShutdownPreserves, ScanPreserves, ReclaimPreserves, RefuseToOwnerPreserves,
     InstallPreserves, ReadyPreserves, TimeOutPreserves, ShutdownPreserves,
     ReleaseSocketPreserves, ReleasePreserves, FailReleasePreserves, ExitPreserves
     DEF StartUp, CleanUp
<1>2. ASSUME NEW k \in Coordinator,
             \/ Coordinate(k)
             \/ \E s \in SocketPath : ReadFence(k, s)
             \/ \E p \in Supervisor : PersistFence(k, p)
      PROVE  OInv'
  BY <1>2, GrantPreserves, AssertOrRenewPreserves, StopPreserves, ClearFencePreserves,
     ReleaseAdmissionPreserves, ReadFencePreserves, PersistFencePreserves
     DEF Coordinate
<1>3. ASSUME NEW x \in Process, Crash(x) \/ Reuse(x) PROVE OInv'
  BY <1>3, CrashPreserves, ReusePreserves
<1>4. CASE Expire
  BY <1>4, ExpirePreserves
<1>5. CASE UNCHANGED vars
  <2> USE <1>5 DEF vars, memory, files, bounds, OInv
  <2>1. TypeOK'
    BY DEF TypeOK
  <2>2. OwnersAreRegistered' /\ OwnersInService' /\ OneOwner' /\ ScanComplete'
    BY DEF OwnersAreRegistered, OwnersInService, OneOwner, ScanComplete
  <2>3. AdmissionInv' /\ FenceInv'
    BY DEF AdmissionInv, FenceInv, Holders
  <2> QED
    BY <2>1, <2>2, <2>3
<1> QED
  BY <1>1, <1>2, <1>3, <1>4, <1>5 DEF Next

\* The registry protocol keeps its invariant: every action of every process,
\* crashes between any two of them included, preserves OInv.
THEOREM OwnershipInvariance == Spec => []OInv
<1>1. Init => OInv
  BY InitPreserves
<1>2. OInv /\ [Next]_vars => OInv'
  BY NextPreserves
<1> QED
  BY <1>1, <1>2, PTL DEF Spec

\* Two running supervisors never own the same socket or descriptor directory
\* at once.
THEOREM SingleOwner == Spec => []OneOwner
<1>1. OInv => OneOwner
  BY DEF OInv
<1> QED
  BY <1>1, OwnershipInvariance, PTL

\* assertOrRenew succeeds only if no supervisor was installed since the
\* admission was granted.
THEOREM AdmissionsAreExclusive == Spec => []AdmissionUnbroken
<1>1. OInv => AdmissionUnbroken
  BY DEF OInv, AdmissionInv, AdmissionUnbroken
<1> QED
  BY <1>1, OwnershipInvariance, PTL

\* What FenceRespected says of one step.
FenceStep ==
  /\ \A s \in SocketPath : fence[s] # Nobody /\ fence'[s] = Nobody => fence[s] \notin alive
  /\ \A p \in Supervisor :
       pc[p] = "leased" /\ pc'[p] = "fenced" => fence[SocketOf[p]] \notin alive

\* The guarded half of the wait removes only the fence it read, and lets a
\* supervisor pass only when that fence or none is there.
LEMMA ClearFenceRespects ==
  ASSUME NEW x \in Process, OInv, ClearFence(x)
  PROVE  FenceStep
<1> DEFINE q == seenFence[x]
<1>1. q \in Supervisor \ alive /\ Nobody \notin alive
  BY DEF ClearFence, OInv, TypeOK, FenceInv
<1>2. \A s \in SocketPath : fence'[s] # fence[s] => fence[s] = q
  BY DEF ClearFence, OInv, TypeOK
<1>3. \A p \in Supervisor : pc'[p] # pc[p] => p = x /\ fence[SocketOf[q]] \in {q, Nobody}
  BY DEF ClearFence, OInv, TypeOK
<1>4. x \in Supervisor => SocketOf[q] = SocketOf[x]
  BY DEF ClearFence, OInv, FenceInv
<1> QED
  BY <1>1, <1>2, <1>3, <1>4 DEF FenceStep

\* Every other action leaves the fences alone, puts a process on one, or
\* moves no supervisor past a fence that names anybody.
LEMMA NextRespects == ASSUME OInv, [Next]_vars PROVE FenceStep \/ UNCHANGED vars
<1> USE DEF OInv
<1>1. Nobody \notin alive
  BY DEF TypeOK
<1>2. ASSUME NEW p \in Supervisor, PassFence(p) PROVE FenceStep
  BY <1>1, <1>2 DEF PassFence, Goto, files, TypeOK, FenceStep
<1>3. ASSUME NEW k \in Coordinator, NEW p \in Supervisor, PersistFence(k, p) PROVE FenceStep
  BY <1>3 DEF PersistFence, TypeOK, FenceStep
<1>4. ASSUME fence' = fence, \A p \in Supervisor : pc[p] = "leased" => pc'[p] # "fenced"
      PROVE  FenceStep
  BY <1>4 DEF FenceStep
<1>5. ASSUME NEW p \in Supervisor, Launch(p) \/ StartUp(p) \/ Shutdown(p) \/ CleanUp(p)
      PROVE  FenceStep
  <2>1. CASE PassFence(p)
    BY <2>1, <1>2
  <2>2. CASE ClearFence(p)
    BY <2>2, ClearFenceRespects
  <2>3. CASE Launch(p)
    BY <2>3, <1>4 DEF Launch, TypeOK
  <2>4. CASE ReadFence(p, SocketOf[p])
    BY <2>4, <1>4 DEF ReadFence, files
  <2>5. CASE RefuseDuringShutdown(p) \/ TimeOut(p)
    BY <2>5, <1>4 DEF RefuseDuringShutdown, TimeOut, Withdraw, Goto, TypeOK
  <2>6. CASE Scan(p) \/ Install(p) \/ Ready(p)
    BY <2>6, <1>4 DEF Scan, Install, Ready, Goto, TypeOK
  <2>7. ASSUME NEW q \in Supervisor, Reclaim(p, q) \/ RefuseToOwner(p, q) PROVE FenceStep
    BY <2>7, <1>4 DEF Reclaim, RefuseToOwner, Withdraw, Goto, TypeOK
  <2>8. CASE Shutdown(p) \/ CleanUp(p)
    BY <2>8, <1>4 DEF Shutdown, CleanUp, ReleaseSocket, Release, FailRelease, Exit, Goto, files, TypeOK
  <2> QED
    BY <1>5, <2>1, <2>2, <2>3, <2>4, <2>5, <2>6, <2>7, <2>8 DEF StartUp
<1>6. ASSUME NEW k \in Coordinator, Coordinate(k) PROVE FenceStep
  <2>1. CASE ClearFence(k)
    BY <2>1, ClearFenceRespects
  <2>2. CASE Grant(k) \/ AssertOrRenew(k) \/ ReleaseAdmission(k)
    BY <2>2, <1>4 DEF Grant, AssertOrRenew, ReleaseAdmission, Goto, TypeOK
  <2>3. CASE Stop(k)
    BY <2>3, <1>4 DEF Stop, files, TypeOK
  <2> QED
    BY <1>6, <2>1, <2>2, <2>3 DEF Coordinate
<1>7. ASSUME NEW k \in Coordinator, NEW s \in SocketPath, ReadFence(k, s) PROVE FenceStep
  BY <1>7, <1>4 DEF ReadFence, files
<1>8. ASSUME NEW x \in Process, Crash(x) \/ Reuse(x) PROVE FenceStep
  BY <1>8, <1>4 DEF Crash, Die, Reuse, files, TypeOK
<1>9. CASE Expire
  BY <1>9, <1>4 DEF Expire
<1> QED
  BY <1>3, <1>5, <1>6, <1>7, <1>8, <1>9 DEF Next

\* No startup fence disappears, and no successor passes one, while the process
\* it names still runs.
THEOREM FencesAreRespected == Spec => FenceRespected
<1>1. OInv /\ [Next]_vars => [FenceStep]_vars
  BY NextRespects
<1> QED
  BY <1>1, OwnershipInvariance, PTL DEF Spec, FenceRespected, FenceStep

=============================================================================
