# Verification of the vsurf session daemon

vsurf keeps its agent sessions in a daemon that outlives the terminals attached
to it. A *supervisor* process owns a socket and a directory of worker
descriptors; each session tree lives in a *worker* process; *clients* (terminal
UI, RPC, command line) talk to the supervisor, which forwards to the workers.
Any of these processes may die at any moment, sockets break, a replacement
supervisor adopts the workers of its predecessor, and an update replaces the
daemon under running sessions. The code is single-threaded JavaScript, so its
races are between awaits of one process, between processes that share files,
and between a process and its own crash.

This directory holds TLA+ models of that daemon, TLC configurations that check
them on small instances, and proofs checked by TLAPS. Paths below are relative to
`packages/coding-agent/src/` unless they begin with `packages/`; `daemon/` is
short for `modes/daemon/`.

## 1. Inventory

### The daemon

**Command recovery** (`daemon/command-recovery-journal.ts`, the command path of
`daemon/daemon-supervisor.ts` 1280-1480, `daemon/daemon-client.ts`).
State: the client's pending requests; the supervisor's `entries` and
`recordCount`; the journal file. Operations: send, time out, reconnect and send
again, acknowledge; receive, look up, begin, dispatch, finish, answer, compact,
load. Interaction: JSON lines over a socket that loses what was in flight.
Hard: a crash between any two steps, copies of one request, an ownership lost
half-way, an append cut short, compaction. Correct when a mutating command runs
at most once, whatever is answered is true, and every request is settled.

**Supervisor ownership** (`daemon/daemon-supervisor-ownership.ts`).
State: a registry directory shared by all processes of a user (owner
directories, a startup fence per socket, a shutdown admission), a lock per
socket, a guard over the registry. Operations: acquire (fence, scan, reclaim,
install), publish readiness, release, grant/renew/expire/release an admission,
persist and clear a fence. Hard: processes that start, stall and die at any
point, leases that expire under a live holder, pids that are reused. Correct
when no two supervisors own one socket or descriptor directory, a confirmed
admission was never interrupted, and nothing a dead process leaves blocks the
others for good.

**Resident workers** (`daemon/daemon-supervisor.ts` 2016-2910 and 4689-5242,
`daemon/daemon-worker-client.ts`, `daemon/daemon-worker-protocol.ts`).
State: per worker a descriptor in memory and on disk, its process, a client
connection, a lifecycle, counts and revisions of stops, timers. Operations:
create, launch behind a startup gate, connect, lose, recover with retries, kill,
evict, shut down, time out, finalize, retry, reopen, adopt. Hard: all of these are
asynchronous functions that interleave at their awaits and decide on what they
read before. Correct when whatever runs is recorded, a stop is never undone by a
recovery and always comes to an end, and a lost worker is recovered or given up.

**Worker side of the connection** (`daemon/daemon-mode.ts` 640-850, 3250-3360).
State: authenticated supervisor claims, poll timers, a launch lock. Operations:
`worker_auth`, the fence check before every command and every poll, revocation,
launch of a replacement supervisor. Hard: the check awaits file I/O while a
newer supervisor may connect. Correct when no command of a superseded supervisor
is executed.

**Update restart and mutation drain** (`daemon/mutation-drain-latch.ts`,
`daemon/daemon-supervisor.ts` 4466-4607, `daemon/daemon-mode.ts` 3484-3540,
`package-manager-cli.ts`, `cli/daemon-update-restart.ts`). State: a count of
mutations under way, a phase, one prepared transaction per worker, a manifest
file. Operations: drain, fence, prepare, validate and persist, commit, cancel,
restore. Hard: a two-phase commit whose participants reconnect, time out or die.
Correct when a committed manifest holds exactly the inputs the workers had
accepted, and a failed preparation leaves all of them serving.

**Event stream** (`daemon/daemon-supervisor.ts` 3700-3790, 4190-4462,
`daemon/snapshot-transcript-cache.ts`, `daemon/compact-session-stream.ts`,
`modes/agent-connection/daemon-agent-connection.ts`). State: sequence and
generation per session, per client the sessions in snapshot or owing a catch-up,
transcript caches. Hard: events are suppressed during snapshots and
backpressure and replaced by later snapshots. Correct when a client that keeps
reading ends in the session's state and never goes backwards.

**Journals of workers and orphans** (`daemon/worker-recovery-journal.ts`,
`core/orphan-process-journal.ts`): append-only files of the command journal's
form. **RLM ledger** (`daemon/rlm-ledger.ts`): an append-only tree of spawned
sessions, seeded once, written by several processes. **Session catalog**
(`daemon/daemon-catalog-process.ts`, summarizer, list): derived data.

### Sessions

**Session actions** (`core/session-action-store.ts`, `core/prompt-admission.ts`,
the pump in `core/agent-session.ts` 5300-5850). State: two lanes of actions with a
lifecycle each, tickets, a pump with an epoch, pauses, a commit fence. Hard:
pauses, aborts and cancellations while the pump awaits; rollback of a dispatch.
Correct when an input is delivered at most once and in order, every ticket is
settled and the queue never stands still in an idle session.

**Session leases** (`core/session-lease.ts`, `core/agent-session-runtime.ts`).
State: a lease directory per transcript. Hard: stale owners, stolen guards, runtime
replacement that holds two leases. Correct when two live processes never hold
one transcript and every failure releases what it took.

**Scheduled jobs** (`core/cron-jobs.ts`). State: jobs and claimed dispatches per
session, a timer, a lane per session. Hard: a crash between claim and result,
stale copies merged by timestamp, a claim whose result could not be written and
that skips every later occurrence, and a file that two workers poll: a worker that left a
session for a new one keeps the old file registered (`cron-jobs.ts` 198), so it may
claim a job that a later worker of that session scheduled, fail on the session's lease
and record the failure as a run. Correct when an occurrence is delivered at most
once, by the worker that holds the session, and an interrupted job is neither
replayed nor stuck. Not modelled yet: this is read from the code, not checked.

**Agent loop** (`packages/agent/src`), **goals and autonomous mode**
(`core/goals.ts`, `core/autonomous.ts`), **agent messages**
(`core/agent-messages.ts`): runs, continuations and mail, all of which reach a
session as actions. **Kernel** (`core/kernel`), **browser** (`core/browser`): an
IPython process and a shared browser with tab ownership and quotas. **Session
files, compaction, refinement**: data.

### Front ends and libraries

Terminal UI, RPC and ACP modes, command line, model providers (`packages/ai`),
the TUI library (`packages/tui`). Not modelled: rendering, I/O and data
conversion.

`PROJECT.json` lists each of these with its status, and under `hazards` the forty
things that are hardest to test, at their lines. Smaller ones of the same kinds
are left for the modules they belong to: pids without a start identity in session
leases and in the workers' launch lock, the torn tail of the orphan journal, jobs
that are claimed when the process dies, merged from stale copies or due again while
their dispatch waits, the worker's fence check with its await
(`daemon/daemon-mode.ts` 3325), events suppressed during a snapshot whose catch-up is
lost (`daemon/daemon-supervisor.ts` 4267), what a compaction of the command journal leaves when
it is cut short (`daemon/command-recovery-journal.ts` 205), a recovery that a shutdown
admission refuses and that nobody defers (`daemon/daemon-supervisor.ts` 2877), a failure that is
recorded for a worker removed meanwhile (2894), and the repair of the RLM ledger against
a concurrent append.

## 2. Plan

What the rest depends on comes first: that a command is not executed twice, that
one supervisor is in charge, and that the workers are found, recovered and
stopped.

| Order | Module | Promise | State |
|---|---|---|---|
| 1 | `CommandRecovery`, abstract `CommandOnce` | a command runs at most once, answers are true | checked, proved |
| 2 | `SupervisorOwnership` | one owner per scope, exclusive admissions | checked, proved |
| 3 | `WorkerLifecycle` | what runs is recorded, stops are final and finish | checked, proved |
| 4 | `SessionActions`, abstract `Delivery`, `Filter` under both | an input is delivered at most once, in its lane's order; tickets settle | checked, proved |
| 5 | `UpdateRestart` | what a session accepted survives an update or its loss is told, and runs once; every update settles | checked, proved |
| 6 | `SessionLease` with runtime replacement | one live holder per transcript, no lease leaks | planned |
| 7 | `CronJobs` | an occurrence is delivered at most once, an interrupted job is not stuck | planned |
| 8 | `EventStream` | a reading client converges and never goes backwards | planned |

After these, the worker's fence check over the registry of `SupervisorOwnership`,
the append-only journals of workers and orphans as variants of the journal of
`CommandRecovery`, the browser's tab ownership and the RLM ledger.

Composition. `CommandRecovery` abstracts the registry to the action
`LoseOwnership`, `WorkerLifecycle` abstracts a replacement supervisor to `Crash`
or `Exit` followed by `Start`; `SupervisorOwnership` says when those are possible.
The coordinator of `UpdateRestart` holds the admission of `SupervisorOwnership`,
which is why its coordinators run one after the other, and its phases are what
`CommandRecovery` shows as `TurnRestart`; a worker's session is reduced to the set of
inputs its queue holds, which is what `SessionActions` delivers from.
`SessionActions` receives the commands whose single execution `CommandRecovery`
promises. `Delivery` is its abstract specification: lanes of accepted inputs and a
sequence of delivered ones.

Bounds to come are of the size used so far: two or three actors, one or two
faults of a kind, every queue long enough to be overtaken. Planned theorem:
exclusion of leases under a stolen guard.

## 3. Modules

### `CommandOnce` and `CommandRecovery`

`CommandOnce` is the promise in two variables: how often a command took effect
and what its caller was told. `CommandRecovery` is client, wire, supervisor and
journal.

| Variables | Code |
|---|---|
| `pending`, `answer` | `DaemonClient.pendingRequests`, what the caller's promise settled with |
| `linked`, `socket` | the client's connection and how many it has had |
| `wire`, `replies` | lines under way in either direction |
| `entries`, `recordCount` | `CommandRecoveryJournal`'s fields |
| `running` | `handleLine` activations past `begin` |
| `up`, `owned`, `restarting` | the supervisor runs, believes its ownership, prepares an update |
| `file` | the journal on disk: what its records mean, its lines, its last line |
| `executed`, `outcome` | history: effects of each command |

Actions of the client are `Request`, `Timeout`, `GiveUp`, `Reconnect`, `Receive`
and `Disconnect`; those of the supervisor, in the order of `handleLine`,
`RefuseStale`, `AnswerFromJournal`, `RejectRestarting`, `Begin`, `Dispatch`,
`Finish` and, for `ack_result`, `Acknowledge`. `Dispatch` is the effect in the
worker or supervisor and may end in any `Response`. `TurnRestart` and
`LoseOwnership` change what the guards read. `Crash` ends the process between two
steps or inside an append; `Start` loads the file.

Abstracted: a command and its id are one value; records carry type and command,
and a response is one of a set. `file` keeps what a load would make of it instead
of a sequence of lines, and only of the last line how it ends; this is what
`load`, `append` and `compact` can tell apart. `AdmitInOrder` says that one
command's lines pass the first awaits of `handleLine` in the order they arrived.
The check that a supervisor still owns its scope is a file read for each line, so
order is not guaranteed by the code (section 6). The journal's compaction threshold is
`CompactAfter`.

### `SupervisorOwnership`

A process is one incarnation, a pid with a start identity.

| Variables | Code |
|---|---|
| `alive`, `reused` | the processes that run; dead ones whose pid was given out again |
| `pc`, `toScan`, `seenFence` | where each activation is and what it read |
| `ownership` | supervisors whose `this.ownership` is set |
| `guard` | the registry guard directory |
| `socketLease` | the lock of a socket path |
| `registry`, `fence`, `admission` | owner directories, startup fences, the shutdown admission |
| `expired` | the admission's lease has run out |
| `intruded` | history: admissions during which a supervisor was installed |

A supervisor does `Launch`, `PassFence` or `ReadFence` and `ClearFence`, then `Scan`, any
number of `Reclaim`, and `Install`, or ends in `RefuseDuringShutdown`,
`RefuseToOwner` or `TimeOut`; in service, `Ready`, `Shutdown`, `ReleaseSocket`,
`Release` or `FailRelease`, `Exit`. A coordinator (an update, or "shut down all")
does `Grant`, `AssertOrRenew`, `Stop`, `PersistFence` and `ReleaseAdmission`.
`Crash`, `Reuse` and `Expire` belong to the environment.

A section under the registry guard that touches one file is one action; the
scan, which examines and reclaims entries one at a time, is stepwise and can die
at each. A guard or lock of a dead process is takeable, as
`withDaemonSupervisorRegistryGuard` decides. Not modelled: owner records that do
not parse, a guard stolen from a holder that lives but is suspended beyond the
staleness limit (a hazard), the listening socket file, and the workers' side.

### `WorkerLifecycle`

One resident worker, with up to `Process` incarnations, and everything the
supervisor runs for it.

| Variables | Code |
|---|---|
| `proc` | each process: behind its startup gate, up, hung, leaving, gone |
| `disk`, `mem` | the descriptor file and `worker.descriptor`: pid, `stopRequestedAt` and `archiveOnStop` |
| `sup`, `registered`, `adopting` | the supervisor, membership in `workers`, an adoption under way |
| `client`, `lifecycle`, `intentional`, `known` | `worker.client`, `.lifecycle`, `.intentionalStop`, the session is open |
| `recovery` | `recoverWorker`: where it is, tries made; it is *syncing* while it informs the other workers, its work done and its promise still set |
| `launch` | `launchWorker` for a creation and for a recovery |
| `stop` | `stopWorkerUntracked` of every task: stop commands, rollbacks of launches, finalizer, adoption |
| `finalizer` | the timer and function that finish a stop that timed out |
| `revised` | which functions see a `stopRevision` newer than the one they read |

Every function is cut where it awaits. `Create`, `Relaunch`, `Publish`,
`Unpublished`, `Connect`, `Finish`, `Abort`, `Cleaned` are `launchWorker`;
`Attempt`, `Reconnected`, `Unanswered`, `NextAttempt`, `Failed`, `Synced` are
`recoverWorker`; `Kill`, `Forwarded`, `Evict`, `Shutdown` request stops, and
`Asked`, `Stopped`, `Archived`, `ForceKill`, `TimeOut` carry them out;
`FinalizerWait`, `FinalizerStop`, `FinalizerQuit`, `FinalizerStopped` finish those that
timed out; `Retry` and `Reopen` are the commands that take a stop or a dead
registration back; `Start`, `Adopt...`, `Adopted` are a new supervisor reading
the descriptors. `Trouble`, `Leave`, `SessionClosed`, `WorkerClosed` come from the
worker, `Crash` and `Exit` end the supervisor.

Three assumptions on time are in the guards. The finalizer looks again only after
a stop's own shorter waits are over (`FinalizerDue`: it polls, while a stop waits for
two seconds); an attempt of recovery waits until the rollback of a launch whose
worker was lost is through; and `retry_worker` does not come while the session is
being created. Process identity can always be observed, and pids are not reused
(`SupervisorOwnership` does both). Not modelled: workers owned by one client
(an attach that takes a stop back, lines 3410-3430, and the owner's
cleanup timer, 1105-1126), a launch cancelled by a shutdown admission or by lost ownership, the
stops of an update restart, the forced
stops of a shutdown with `--force` (5184: `Shutdown` stops without force, so its process may outlive
it; a forced one kills as `ForceKill` does for the internal stops), the journal of interrupted operations.

Constants switch what can happen. `LoseWhenAsked` lets a connection break while a
stop awaits an answer on it. `DisturbEnd` lets a connection break, or a retry come,
while a recovery is *syncing*. `UnreliableArchive` are the stops whose archive call
may fail. `StopDuringRelaunch` lets a stop come in the awaits between the
cancellation check of a relaunch and its new descriptor. The invariants are proved with
the first three as they please; `RecoverySettles` and `StopsFinish` do not hold with
them (findings 3, 5 and 6, and the stop without a finalizer in section 7), so `worker` has
them off but for the archival of a finalizer, and `worker_unfinished` and `worker_unrecovered`
show what happens when they are on.

### `Delivery` and `SessionActions`

`Delivery` says what a session owes for the inputs it took: at most one delivery,
none after a withdrawal, first in first out in each lane; only an input that an idle
session set aside for its pump may be overtaken, and the user may reorder.
`SessionActions` is one session between `prompt()` and the agent's transcript.

| Variables | Code |
|---|---|
| `lane`, `state`, `visible` | the lanes of `SessionActionStore`, each action's state, `queueVisible`; before it is an action, how far its `prompt()` has come |
| `delivery`, `completion` | the two deferreds of its ticket |
| `heard`, `recorded`, `captured` | messages started, messages in `agent.state.messages`, cancelled dispatches that wait for the end of their run |
| `pump`, `pending`, `requested` | the running `_pumpSessionInputs` with what it remembers across its awaits, the chain behind it, `_sessionInputPumpRequested` |
| `epoch`, `suspended`, `disposed` | the fields the pump looks at again after each await |
| `fence`, `nav` | the commit fence, first come first served, and the tree navigations that pause the queue |
| `running`, `feed`, `ended`, `again`, `busy`, `draining` | the agent's run, its unread messages, the event that is processed, timers, compaction, retry and shell |

A step is what the code does between two awaits. `Submit`, `AwaitFence`, `TakeFence`,
`CancelPrompt` and `Admit` are `prompt()`; `PumpStart` to `CommandEnd` are the pump in
the order of its awaits, with the rollback `GiveBack` and the failure `GiveUp`;
`MessageStart`, `MessageEnd`, `RunEnd`, `EventEnd`, `RetryBackoff`, `CompactionStart` and
the timers are the agent and the session's handling of its events; `Navigate...` a
tree navigation; `Abort`, `Resume`, `ClearQueue`, `Delete`, `Move`, `Swap`, `Withdraw`,
`BashStart` and `BashEnd` the user. `Wake` is `_scheduleSessionInputPump`.

`Promise` instantiates `Delivery` with the lanes less what is not `Live` (delivered,
or released and not yet removed), `Aside` (selected by its admission and not taken up by
a pump), `heard`, and the withdrawn or failed inputs. `Filter` holds what both modules
do with a lane: `Only` and `Without` filter it by a set, as a recursive function where
the library's `SelectSeq` is beyond the provers. Left out: goal contexts put at the front of a lane, refinement, the
command `compact()` of a client, custom-message triggers, submissions an extension
handles itself, and the checkpoint that an update waits for (`UpdateRestart` has it
as one step).

### `UpdateRestart`

The update of a running daemon, from the coordinator that asks for it to the
sessions restored in the successor.

| Variables | Code |
|---|---|
| `place`, `runs` | where each input is: held by the eviction fence, forwarded, being handled, dispatched by the worker's own scheduler, queued, run; *parked* if the checkpoint has it and its process is gone, *dropped* if not |
| `phase`, `fence` | `updateRestartPhase` refined by how far `prepareUpdateRestart` has come, `idleEvictionFence` |
| `mail`, `ack` | requests under way to workers, what became of the present round |
| `at`, `taken` | a worker and the phase of its `updateRestart` transaction, its last checkpoint |
| `claim`, `client` | the two ends of the connection that owns the transaction, which notice a break separately |
| `file`, `daemon`, `coord`, `todo` | the manifest, whether a daemon runs, the coordinator and what it has to restore |
| `reported`, `warned`, `spoiled`, `discarded` | history: sessions reported as failed; inputs a restored session did not take back, which only stderr tells; workers that gave up a checkpoint that is in the manifest; sessions given up by a second coordinator |

`Send`, `Land` are the gates of supervisor and worker; `SweepBegin`, `SweepEnd` the
eviction fence; `Drain`, `Fence`, `Ask`, `Persist`, `Committed`, `StopWorker`, `Prepared` the
preparation, with `DrainTimeout`, `Unavailable`, `RequestTimeout`, `PrepareFailed`,
`CancelWorker`, `Cancelled` for its failures; `Prepare`, `FenceWorker`, `Checkpoint`,
`Publish`, `CloseSessions`, `CloseFails`, `Deadline` and the three steps of a connection the
worker; `Begin` to `CoordinatorDies` `runDaemonUpdateRestartCoordinator`.

A restore is several requests and one action: the session is created or not, any part of
its checkpoint comes back, and a refused part is a warning, while a refused creation or a
request without an answer is a failure of the session. A `list` that gets no answer ends the
coordinator, a refused one counts as if sessions ran.

Two mutations held by the same fence are both past the gate when it opens and
neither is counted yet. The preparation itself can be one of them, so the first drain may
find nothing; `SweepEnd` allows that, and only the second drain keeps a command that
creates a worker from being missed. In a worker nothing can
be admitted between its two drains in this model (a gate and the count behind it are one step
there), so its second drain shows no effect.

Left out: a supervisor that dies during an update, child sessions and sessions
with nothing to restore, a stop that fails, a shutdown that is accepted but
slower than the coordinator's wait, continuation prompts for an interrupted run
(a run is one step), the eviction itself (`WorkerLifecycle`), the recovery of a worker that
loses its connection otherwise than by reconnecting, and the coordinator's lease and
status file.

## 4. Runs

| Run | Instance | Distinct states | Shows |
|---|---|---|---|
| `recovery` | `MCCommandRecovery.cfg`: two clients, a command each, two responses, compaction after 3 records, one crash, one lost socket; one command is refused during a restart | 256 thousand | at most one execution, memory equals disk, true answers, nothing forgotten before its answer, the implementation of `CommandOnce`, every request settles |
| `recovery_torn` | as above with two crashes, one of which cuts an append short | counterexample | finding 1 |
| `ownership` | three supervisors, two sharing a socket, two a directory; two coordinators, one pid that can be reused, one crash, one expiry, one stop | 609 thousand | one owner per scope, owners stay registered, a confirmed admission was never interrupted, fences of live processes stay |
| `ownership_live` | two supervisors of one scope, two coordinators, two crashes | 83 thousand | a start settles, a waiting coordinator is admitted |
| `worker` | two incarnations, two stops, two attempts, two worker failures, one supervisor crash, one retry; the archival of the finalizer may fail again and again, no other; no connection is lost while a stop asks or a recovery is syncing | 629 thousand | what runs is recorded, stops under way are marked, tombstones stay, stops finish, recoveries settle |
| `worker_unfinished` | one stop that loses its connection while it awaits the answer, or whose archival fails | counterexample | findings 3 and 5 |
| `worker_unrecovered` | no stops, two worker failures, one of them during a sync | counterexample | finding 6 |
| `worker_tombstone_lost` | a stop during a relaunch | counterexample | finding 2 |
| `session` | a steering message, a follow-up and a slash command in "all" mode, one navigation, one interruption, one retry or compaction | 1.7 million | one dispatch at a time, navigation alone, withdrawn prompts leave the transcript, truthful tickets, the implementation of `Delivery` |
| `session_live` | a steering message, a follow-up and a heartbeat with its key, no navigation | 684 thousand | every awaited prompt is answered unless a pump was overtaken |
| `session_stranded` | one prompt and one navigation | counterexample | finding 4 |
| `update` | one resident worker with a prompt and an abort, one worker that a command creates and that gets a scheduled job; one fault; any three of these inputs with one coordinator, the prompt and the creation with two | 1.03 million | accepted inputs are run, kept, reported or warned of, nothing runs twice, checkpoints are exact, no straggler after the manifest, every update settles |

Why the bounds are enough to be of interest. A crash can fall between any two
steps, so one crash already gives every pair of "before" and "after"; a second
one, where it is allowed, hits the recovery from the first. One lost socket gives
two copies of a command. With the compaction threshold at 3 the file is compacted
in the middle of two commands' records. Two coordinators and an expiry let an
admission change hands under its holder. Three supervisors with
overlapping scopes let two different conflicts meet in one scan. Two
incarnations let an old process and its successor meet; two stop commands and the finalizer let
stops overtake each other; two attempts (the code has three) reach every branch
of the retry loop. In `update` every wait may time out at any moment at no cost, so
the one fault is a broken connection, a lost answer or a dead coordinator on top of
them; the created worker makes the case that a manifest misses a session. The four inputs of
`update` are one of each kind the gates tell apart: a prompt, an abort, a scheduled job and a
creation. Behaviours with all four, or with two coordinators and more than the prompt and the
creation, only multiply the states: `MCNext` leaves them out, by guards on steps that are not fair. Three inputs of two lanes let one
overtake another; an interruption and a retry meet every await of the pump. Coordinators are symmetric where no liveness is
checked.

`CHECK_DEADLOCK FALSE` is set in all: faults, processes and commands are counted,
and a system that has used them up and answered everybody rightly stands still.

Every property of the passing runs has a mutant in `PROJECT.json`: a plausible
slip in one mapped definition (a dropped guard, two steps swapped, a forgotten
reset) under which TLC finds the property violated.

## 5. Fairness

Only what an event loop or a living process is bound to do is weakly fair;
faults, timers that need not fire, user commands and lease expiries of live
holders are not.

- `CommandRecovery`: delivered lines and replies are handled, activations go on,
  a disconnected client reconnects (`autoReconnect` retries until its deadline,
  and its deadline is the unfair `GiveUp`), and a supervisor that is down is started
  (`recoverDaemon` in that same loop).
- `SupervisorOwnership`: starting, stopping and coordinating processes go on
  (they poll in loops); the admission of a dead holder expires by the clock.
- `WorkerLifecycle`: each asynchronous function under way goes on, which
  includes that its own timeouts fire; a process told to leave exits; a closed connection is
  noticed; when the supervisor is gone a worker or client launches the next
  (`daemon/daemon-mode.ts` 3250-3360), which adopts what it finds. An archival that a finalizer tries
  again and again succeeds once (strong fairness): its failures are taken as transient, which is what
  the comment at 4951 says of them.

- `SessionActions`: awaited promises resolve, the agent's run and its events go on,
  shell commands and navigations end. `PromptsSettle` leaves out a pump that was overtaken
  (finding 4).
- `UpdateRestart`: the sweep ends (its drain has a timeout), the preparation and the
  handlers of supervisor and workers go on, including their own timers. A coordinator that
  lives goes on, as each of its requests has a timeout, but it may die, and none need come after it.

## 6. Proofs

The theorems hold for every value of the constants that satisfies the named
assumptions of the modules: any number of processes, commands and faults. All
follow one argument: an inductive invariant, the conjunction of named parts;
one lemma per action that it is preserved; and PTL for the last step.

**`CommandRecoveryProofs`** assumes `AdmitInOrder` and `~TornWrites`. `AtMostOnce` is
not inductive: nothing in it says why a second copy finds the first. `IInv`
adds that memory is the file (`JournalInv`), that a dead supervisor leaves no
lines or activations (`DownInv`), that copies of a command precede its acknowledgement
(`WireInv`), that whatever has begun is in the journal until it is answered and
no copy is left (`ReceiptInv`), that an activation is the only one
(`RunInv`), and that all records, replies and answers are true (`TruthInv`).
Theorems: `Invariance`, `RunsAtMostOnce`, `AnswersAreTruthful`, `MemoryIsOnDisk`, the
action property `ForgetsOnlyAnswered`, that a receipt leaves the file only when its caller has
an answer or has given up, and `Refinement`, that the module implements `CommandOnce`.

**`SupervisorOwnershipProofs`** needs no assumption beyond the shapes of the
constants. `OInv` adds to `OneOwner` that owners are registered and in
service, that a scan under the guard still has every conflicting entry before it
(`ScanComplete`, the heart of exclusion), that an unexpired admission was not
interrupted (`AdmissionInv`), and that a fence read as dead stays dead
(`FenceInv`). Theorems: `OwnershipInvariance`, `SingleOwner`,
`AdmissionsAreExclusive` and, from the same invariant, the action property
`FencesAreRespected`.

**`WorkerLifecycleProofs`**. `IInv` adds to `RunningIsRecorded` that the descriptor
in memory is the one on disk unless deleted (`MemoryInv`), that nothing is under
way without a supervisor (`DownInv`), to which process a connection leads
(`ClientInv`), that a child waits at its gate until its predecessor is gone and at
most one launch is that far (`LaunchInv`), and what a stop knows of its process
(`StopInv`). `WorkerInvariance` and `RunningAlwaysRecorded` hold with stops at any
moment; `StopsStayMarked` and `TombstonesStay` assume `~StopDuringRelaunch`, without
which they are false (finding 2).

**`SessionActionsProofs`**. The invariants are false of states in which the pump
remembers what is gone. `CoreInv` adds what the pump holds in each of its awaits
(`PumpKept`), who has the commit fence (`FenceKept`), that the run's unread messages
are dispatched turns (`FeedKept`), which messages were heard (`HeardKept`), and how tickets
follow states. From it `DispatchIsOne`, `NavigationIsHeld`, `WithdrawnIsTakenBack`,
`TicketsAreTruthful` hold for any number of inputs, navigations, interruptions and retries.

**`SessionDeliveryProofs`**: the session implements `Delivery`. `CoreInv` says nothing of
the lanes, and without their order a step that delivers need not be a delivery of the
first input. `IInv` adds three parts. `LaneKept`: what is unfinished is in one lane,
once, beside cancelled dispatches only. `StageKept`: only the pump's batch is being prepared, only
turns are dispatched. `OrderKept`: nothing queued stands in front of what was taken
out of the queue, nothing at all in front of what is set aside. It rests on the pump
taking the first queued action and batches without a gap, and on a dispatch that is put
back returning to its place; the user moves and exchanges queued inputs only. The lemma of an
action shows that it keeps the three parts and is a step or a stutter of `Delivery`, so the
induction and the refinement are one argument. Most actions fall under one of four
lemmas: nothing about the lanes changes (`StillStep`), states change and all stays live (`StaysStep`),
inputs are dropped (`GoesStep`), one is delivered (`HearStep`). `SessionInvariance` is `IInv` and
`KeepsPromise` is `Promise`.

**`FilterFacts`** are the lemmas about filtered sequences that this needs: type, elements
and order of `Only`, what it does to an addition, to a second filter and to two exchanged places.
Induction over a sequence is closed to the provers in the library's form, which takes
an operator, so `FilteredExists` argues with the shortest prefix for which the recursion would have
no solution (`LeastNatural`); the others characterise the result by the increasing function that
picks its places (`Picks`) and its uniqueness.

**`DeliveryProofs`** says what the abstract specification is worth. `DeliveredOnce`: whatever
implements `Delivery` delivers no input twice, none it dropped and none that still waits, for any
lanes and inputs. With `KeepsPromise` it holds of the session.

**`UpdateRestartProofs`**. Why no input is lost is spread over all processes, and so
is the invariant. `Gate` says that sweep and preparation exclude each other and
that nothing is under way once workers are asked, `Rounds` that no resident
worker is missing from a round and in which phases each answer leaves a worker,
`Manifest` that no transaction runs beside an old manifest, `Steps` where the coordinator
can be, and `Once` that a checkpoint in the manifest is untouched until it is
restored. `NothingLost` is part of it and says of a restore what the code does: an input that is
neither run, nor queued, nor in the manifest belongs to a session that is reported or was refused
with a warning. `UpdateInvariance` gives `AcceptedIsKept`, `CheckpointIsQueue`,
`RestoredRunsOnce` and `ManifestCoversAll`, for any number of workers, inputs,
coordinators and faults.

Only model-checked: all liveness (`EventuallySettled`, `StartupSettles`,
`EventuallyAdmitted`, `StopsFinish`, `RecoverySettles`, `PromptsSettle`,
`UpdateSettles`), which is beyond TLAPS with fairness. Every other property of a passing
run has its theorem.

With lines admitted out of order and one lost
socket TLC finds `AtMostOnce` violated: an acknowledgement may then be handled
before an older copy of its command. The awaits before admission make this
possible, though only just, and the assumption is stated in every theorem that
needs it.

## 7. Findings

1. *Torn append* (`recovery_torn`, `daemon/command-recovery-journal.ts` 174). A
   crash that cuts an append short leaves a line without its end. `load` skips it,
   as its comment says, but the next `append` writes behind it, and the joined
   line does not parse at the load after the next crash. The receipt is lost and
   a resent command runs again, contrary to the class comment (48-51).
2. *Lost tombstone* (`worker_tombstone_lost`, `daemon/daemon-supervisor.ts` 2269). A
   stop that arrives while a relaunch prepares its descriptor marks the old one;
   the relaunch then writes the new one without the mark. The field is
   documented as "Durable intent written before root termination so replacement
   supervisors never recover it" (`daemon/daemon-worker-protocol.ts` 106).
3. *Stranded worker* (`worker_unfinished`, `daemon/daemon-supervisor.ts` 4796). A
   connection that closes while a stop awaits the answer on it leaves
   `worker.client` undefined, the next line throws a `TypeError`, which is not a
   timeout, so no finalizer is scheduled and the dead worker stays registered,
   which the comment at 4872-4875 wants to exclude.
4. *Stranded prompt* (`session_stranded`, `core/agent-session.ts` 5592). A navigation that
   begins and ends while the pump prepares a turn advances the epoch; when its pause
   is released no action is queued or selected, so no pump is scheduled. The
   overtaken pump then puts the turn back and schedules a successor only if its epoch
   is current. The turn stays queued in an idle session until something else wakes the
   pump.
5. *Stop left unarchived* (`worker_unfinished`, `daemon/daemon-supervisor.ts` 4859). A kill whose
   process exits and whose archival fails throws a plain error. Only a process that outlives its
   stop gets a finalizer, so nobody retries, although the finalizer's comment (4951-4953) has exactly
   this failure as its example.
6. *Lost in the last await of a recovery* (`worker_unrecovered`, 2838 and 2331). `worker.recovery` is set
   until `syncAgentPeers()` has answered. A connection that closes before that starts no recovery, and the
   one that ends starts none either; the worker is registered, ready and without a client, against
   `docs/daemon.md` 38. A `retry_worker` during the same await after a failed recovery (2895) gets the
   promise that ends.

One more, without a run: with `DisturbEnd` and `StopsFinish`, TLC shows a *stop without a finalizer*
(4877). While a finalizer sleeps between two attempts to archive, `retry_worker` may relaunch the
worker. A stop of the new process that times out finds `worker.stopFinalization` set and adds none;
the old finalizer wakes, sees another pid and quits. `worker` lets no retry come in that sleep.

What `UpdateRestart` shows beside these, as exceptions its properties name:

- *Queue lost in a restore.* A session that is created again and refuses `restore_actions`
  (`package-manager-cli.ts` 1083-1094) or `restore_next_turn` (1071, 980-983) counts as restored; the
  refusal is a line on stderr and the manifest is removed (1401). The inputs are then neither run, nor
  queued, nor kept, nor in the failures of the update, although
  `packages/coding-agent/CHANGELOG.md` 198 calls the queue state durable. These inputs are `warned`.
- *Left fenced.* A coordinator that dies after a successful preparation leaves a daemon without
  workers that rejects every mutation but a shutdown (phase set at `daemon/daemon-supervisor.ts` 4476,
  rejections at 1319-1326), which is what the comment at 135-137 says its deadline excludes. It
  stays so until another coordinator shuts the daemon down. `UpdateSettles` calls this `Abandoned`.
- *Stale checkpoints.* The check before the manifest is written (`daemon/daemon-supervisor.ts`
  4569-4577) compares the supervisor's connections. A worker whose own deadline
  passed, or that noticed a broken connection first, has given its checkpoint up and
  serves again; the manifest holds what it then runs, and the successor runs it again.
  These workers are `spoiled`.
- *A second coordinator* removes the manifest it finds (`package-manager-cli.ts` 914)
  when any session runs, also while the supervisor commits it, or after its predecessor
  died in the middle of restoring. These sessions are `discarded`.
- *A shutdown refused.* A coordinator that lost its answer asks a supervisor that is
  still committing to shut down, is refused, restores the sessions into that same daemon, which
  rejects each of them, counts the failures and removes the manifest
  (`package-manager-cli.ts` 1336-1355), although the comment there keeps it for a later
  attempt. These sessions are `reported`.

## 8. Not modelled

Rendering, providers, kernel and CDP traffic are I/O; transcripts, compaction,
schedules and session lists are data with little control. The other components
marked `not_modelled` in `PROJECT.json` are in the plan above. Hazards without a property
name the module that is to cover them or the abstraction that hides them.

To repeat the checks, in this directory:

    tlc -config MCCommandRecovery.cfg MCCommandRecovery
    tlapm CommandRecoveryProofs.tla

and likewise for the other configurations and proof modules. The slowest runs,
`update`, `session` and `worker`, take two to three minutes, the slowest proof about two and a half.
