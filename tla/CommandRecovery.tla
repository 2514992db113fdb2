-------------------------- MODULE CommandRecovery --------------------------
(***************************************************************************)
(* Mutating daemon commands across lost sockets and supervisor crashes.    *)
(*                                                                         *)
(* A DaemonClient sends a command, keeps it in pendingRequests, sends the  *)
(* same bytes again after it reconnects and acknowledges the answer it     *)
(* accepts.  The supervisor writes a received record to its command        *)
(* journal before it dispatches a mutating command and a result record     *)
(* before it answers; the acknowledgement deletes the entry.  A crash      *)
(* forgets everything but the journal file.                                *)
(*                                                                         *)
(* The file is represented by what a later load() makes of its terminated  *)
(* lines (meaning), by their number (lines) and by its unterminated last   *)
(* line (tail): all that a load or an append ever looks at.                *)
(***************************************************************************)
EXTENDS Integers, Sequences, FiniteSets

CONSTANTS
  Command,        \* the [clientId, commandId] pairs that key the journal
  Client,         \* DaemonClient instances
  Owner,          \* the client that issues each command
  DrainCommand,   \* commands an update restart still admits (abort, ...)
  Response,       \* the responses handleCommand may produce
  CompactAfter,   \* COMPACT_AFTER_RECORDS
  TornWrites,     \* may a crash truncate the append that is in progress?
  AdmitInOrder,   \* do a client's lines reach the journal in arrival order?
  MaxCrashes,     \* bound: supervisor crashes
  MaxDrops        \* bound: sockets lost while the supervisor keeps running

ASSUME CommandRecoveryAssumption ==
  /\ IsFiniteSet(Command)
  /\ Owner \in [Command -> Client]
  /\ DrainCommand \subseteq Command
  /\ Response \cap {"absent", "pending", "uncertain", "rejected", "failure", "none"} = {}
  /\ CompactAfter \in Nat \ {0}
  /\ TornWrites \in BOOLEAN
  /\ AdmitInOrder \in BOOLEAN
  /\ MaxCrashes \in Nat
  /\ MaxDrops \in Nat

VARIABLES
  \* DaemonClient
  pending,      \* pendingRequests: "unsent", "waiting", "reconnect", "done" or "abandoned"
  answer,       \* what the caller's promise was resolved with
  linked,       \* clients whose socket is open
  socket,       \* the number of each client's latest socket
  \* in transit
  wire,         \* lines of each command sent and not yet past handleLine's awaits
  replies,      \* responses written to an open socket and not yet read
  \* DaemonSupervisor
  up,           \* the supervisor process is running and ready
  owned,        \* it still owns its registry entry
  restarting,   \* updateRestartPhase refuses new mutations
  entries,      \* CommandRecoveryJournal.entries
  recordCount,  \* CommandRecoveryJournal.recordCount
  running,      \* handleLine activations past begin()
  file,         \* the journal file
  \* history and bounds
  executed,     \* how many times handleCommand ran the command
  outcome,      \* the response its latest run produced
  crashes, drops

clientVars == <<pending, answer, linked, socket>>
serverVars == <<up, owned, restarting, entries, recordCount, running>>
history    == <<executed, outcome>>
bounds     == <<crashes, drops>>
vars == <<clientVars, wire, replies, serverVars, file, history, bounds>>

-----------------------------------------------------------------------------
(* The journal.  An entry is absent, pending (received without a result)   *)
(* or the stored response.                                                 *)

Entry == Response \cup {"absent", "pending"}
Record == [type : {"received", "acknowledged"}, command : Command]
            \cup [type : {"result"}, command : Command, response : Response]
NoTail == [type |-> "none"]      \* the file ends with a newline
Fragment == [type |-> "junk"]    \* the last line does not parse
Empty == [c \in Command |-> "absent"]

Received(c) == [type |-> "received", command |-> c]
Result(c, r) == [type |-> "result", command |-> c, response |-> r]
Acknowledged(c) == [type |-> "acknowledged", command |-> c]

\* What load() does with one parsed record.
Replay(e, rec) ==
  CASE rec.type = "received" -> [e EXCEPT ![rec.command] = "pending"]
    [] rec.type = "acknowledged" -> [e EXCEPT ![rec.command] = "absent"]
    [] rec.type = "result" ->
         [e EXCEPT ![rec.command] = IF @ = "absent" THEN @ ELSE rec.response]

\* append(): open for appending, write the line, fsync.  Behind an
\* unterminated line the new record joins that line and neither parses.
Appended(f, rec) ==
  IF f.tail = NoTail
  THEN [meaning |-> Replay(f.meaning, rec), lines |-> f.lines + 1, tail |-> NoTail]
  ELSE [f EXCEPT !.tail = NoTail]

\* A crash inside append(): before it, after it or within the write, where
\* the line is cut inside its JSON or just before its newline.
CutShort(f, rec) ==
  {f, Appended(f, rec)}
    \cup (IF ~TornWrites THEN {}
          ELSE IF f.tail = NoTail THEN {[f EXCEPT !.tail = t] : t \in {Fragment, rec}}
          ELSE {[f EXCEPT !.tail = Fragment]})

Live(e) == {c \in Command : e[c] # "absent"}
RecordsOf(e) == Cardinality(Live(e)) + Cardinality({c \in Command : e[c] \in Response})

\* Mutated Compacted: commands without a result are dropped.
CompactedResultsOnly(e) ==
  [meaning |-> [c \in Command |-> IF e[c] = "pending" THEN "absent" ELSE e[c]],
   lines |-> RecordsOf(e), tail |-> [type |-> "none"]]

\* compact(): the file is replaced by one received record per entry and one
\* result record per stored response.
Compacted(e) == [meaning |-> e, lines |-> RecordsOf(e), tail |-> NoTail]

\* load(): every line that parses, the unterminated last one included.
Loaded(f) == IF f.tail \in {NoTail, Fragment} THEN f.meaning ELSE Replay(f.meaning, f.tail)
LoadedCount(f) == IF f.tail \in {NoTail, Fragment} THEN f.lines ELSE f.lines + 1

\* The end of recordResult() and acknowledge(): append, update the map and
\* rewrite the file when the condition of the method says so.
Save(rec, e, compact) ==
  /\ entries' = e
  /\ IF compact
     THEN /\ file' = Compacted(e)
          /\ recordCount' = RecordsOf(e)
     ELSE /\ file' = Appended(file, rec)
          /\ recordCount' = recordCount + 1

-----------------------------------------------------------------------------
(* Wires.                                                                  *)

Line == [type : {"command", "ack_result"}, socket : Nat]
CommandLine(c) == [type |-> "command", socket |-> socket[Owner[c]]]
AckLine(c) == [type |-> "ack_result", socket |-> socket[Owner[c]]]

\* handleLine awaits ready and the ownership read before it touches the
\* journal; lines of one client pass in order exactly when AdmitInOrder.
Admissible(c) == IF AdmitInOrder THEN DOMAIN wire[c] \cap {1} ELSE DOMAIN wire[c]
Without(s, i) == SubSeq(s, 1, i - 1) \o SubSeq(s, i + 1, Len(s))

\* write(): a response for a socket that is gone is dropped.
Write(c, sock, r) ==
  replies' = IF Owner[c] \in linked /\ socket[Owner[c]] = sock
             THEN replies \cup {[command |-> c, response |-> r]}
             ELSE replies

-----------------------------------------------------------------------------
(* DaemonClient.                                                           *)

\* requestWire(): remember the command and write it.
Request(c) ==
  /\ pending[c] = "unsent"
  /\ Owner[c] \in linked
  /\ pending' = [pending EXCEPT ![c] = "waiting"]
  /\ wire' = [wire EXCEPT ![c] = Append(@, CommandLine(c))]
  /\ UNCHANGED <<answer, linked, socket, replies, serverVars, file, history, bounds>>

\* Mutated Timeout: a request that timed out is acknowledged all the same.
TimeoutAcknowledging(c) ==
  /\ pending[c] = "waiting"
  /\ pending' = [pending EXCEPT ![c] = "abandoned"]
  /\ wire' = [wire EXCEPT ![c] = Append(@, AckLine(c))]
  /\ UNCHANGED <<answer, linked, socket, replies, serverVars, file, history, bounds>>

\* The response timer: the request is rejected and never acknowledged.  The
\* timer is disarmed while the request awaits a reconnection.
Timeout(c) ==
  /\ pending[c] = "waiting"
  /\ pending' = [pending EXCEPT ![c] = "abandoned"]
  /\ UNCHANGED <<answer, linked, socket, wire, replies, serverVars, file, history, bounds>>

\* rejectAll() after autoReconnect ran out of time.
GiveUp(cl) ==
  /\ cl \notin linked
  /\ \E c \in Command : Owner[c] = cl /\ pending[c] = "reconnect"
  /\ pending' = [c \in Command |->
       IF Owner[c] = cl /\ pending[c] = "reconnect" THEN "abandoned" ELSE pending[c]]
  /\ UNCHANGED <<answer, linked, socket, wire, replies, serverVars, file, history, bounds>>

\* Mutated Reconnect: the requests that await it are not written again.
ReconnectSilently(cl) ==
  /\ up
  /\ cl \notin linked
  /\ linked' = linked \cup {cl}
  /\ socket' = [socket EXCEPT ![cl] = @ + 1]
  /\ pending' = [c \in Command |->
       IF Owner[c] = cl /\ pending[c] = "reconnect" THEN "waiting" ELSE pending[c]]
  /\ UNCHANGED <<answer, wire, replies, serverVars, file, history, bounds>>

\* connect() and the hello: every request that awaits it is written again.
Reconnect(cl) ==
  /\ up
  /\ cl \notin linked
  /\ linked' = linked \cup {cl}
  /\ socket' = [socket EXCEPT ![cl] = @ + 1]
  /\ pending' = [c \in Command |->
       IF Owner[c] = cl /\ pending[c] = "reconnect" THEN "waiting" ELSE pending[c]]
  /\ wire' = [c \in Command |->
       IF Owner[c] = cl /\ pending[c] = "reconnect"
       THEN Append(wire[c], [type |-> "command", socket |-> socket[cl] + 1])
       ELSE wire[c]]
  /\ UNCHANGED <<answer, replies, serverVars, file, history, bounds>>

\* DaemonClient.handleLine: an answer for a pending request resolves it and is
\* acknowledged; any other is ignored.
Receive(c) ==
  /\ \E m \in replies :
       /\ m.command = c
       /\ replies' = replies \ {m}
       /\ IF pending[c] = "waiting"
          THEN /\ pending' = [pending EXCEPT ![c] = "done"]
               /\ answer' = [answer EXCEPT ![c] = m.response]
               /\ wire' = [wire EXCEPT ![c] = Append(@, AckLine(c))]
          ELSE UNCHANGED <<pending, answer, wire>>
  /\ UNCHANGED <<linked, socket, serverVars, file, history, bounds>>

\* Which requests of the clients in gone await a reconnection (rejectAll with
\* preservePendingRequests).
Preserved(gone) ==
  [c \in Command |-> IF Owner[c] \in gone /\ pending[c] = "waiting"
                     THEN "reconnect" ELSE pending[c]]

\* A socket breaks: a suffix of what was written on it is lost, and so are
\* the responses not read yet.  What arrived is still handled.
Disconnect(cl) ==
  /\ cl \in linked
  /\ drops < MaxDrops
  /\ drops' = drops + 1
  /\ linked' = linked \ {cl}
  /\ pending' = Preserved({cl})
  /\ \E kept \in [{c \in Command : Owner[c] = cl} -> 0 .. MaxDrops + 2] :
       /\ \A c \in DOMAIN kept : kept[c] <= Len(wire[c])
       /\ wire' = [c \in Command |->
            IF c \in DOMAIN kept THEN SubSeq(wire[c], 1, kept[c]) ELSE wire[c]]
  /\ replies' = {m \in replies : Owner[m.command] # cl}
  /\ UNCHANGED <<answer, socket, serverVars, file, history, crashes>>

-----------------------------------------------------------------------------
(* DaemonSupervisor.handleLine, from the journal lookup on.                *)

\* Line i of command c passes the awaits.
Admit(c, i) ==
  /\ up
  /\ i \in Admissible(c)
  /\ wire' = [wire EXCEPT ![c] = Without(@, i)]

\* The ownership read failed: the line is refused without touching anything.
RefuseStale(c) ==
  \E i \in DOMAIN wire[c] :
    /\ Admit(c, i)
    /\ ~owned
    /\ IF wire[c][i].type = "command"
       THEN Write(c, wire[c][i].socket, "failure")
       ELSE UNCHANGED replies
    /\ UNCHANGED <<clientVars, serverVars, file, history, bounds>>

\* A command the journal knows: its stored response, or that its result is
\* uncertain.
AnswerFromJournal(c) ==
  \E i \in DOMAIN wire[c] :
    /\ Admit(c, i)
    /\ owned
    /\ wire[c][i].type = "command"
    /\ entries[c] # "absent"
    /\ Write(c, wire[c][i].socket, IF entries[c] = "pending" THEN "uncertain" ELSE entries[c])
    /\ UNCHANGED <<clientVars, serverVars, file, history, bounds>>

\* Mutated RejectRestarting: the phase is consulted before the journal.
RejectBeforeLookup(c) ==
  \E i \in DOMAIN wire[c] :
    /\ Admit(c, i)
    /\ owned
    /\ wire[c][i].type = "command"
    /\ restarting
    /\ Write(c, wire[c][i].socket, "rejected")
    /\ UNCHANGED <<clientVars, serverVars, file, history, bounds>>

\* An update restart is being prepared: only the drain commands may go on, and
\* they are rejected as well when its first drain is over.
RejectRestarting(c) ==
  \E i \in DOMAIN wire[c] :
    /\ Admit(c, i)
    /\ owned
    /\ wire[c][i].type = "command"
    /\ entries[c] = "absent"
    /\ restarting
    /\ Write(c, wire[c][i].socket, "rejected")
    /\ UNCHANGED <<clientVars, serverVars, file, history, bounds>>

\* Mutated Begin: only a stored response stops a command, an uncertain one
\* is run again.
BeginUncertain(c) ==
  \E i \in DOMAIN wire[c] :
    /\ Admit(c, i)
    /\ owned
    /\ wire[c][i].type = "command"
    /\ entries[c] \notin Response
    /\ restarting => c \in DrainCommand
    /\ Save(Received(c), [entries EXCEPT ![c] = "pending"], FALSE)
    /\ running' = running \cup {[command |-> c, socket |-> wire[c][i].socket, stage |-> "begun",
                                 response |-> "none"]}
    /\ UNCHANGED <<clientVars, replies, up, owned, restarting, history, bounds>>

\* Mutated Begin: the receipt is kept in memory and not appended.
BeginInMemory(c) ==
  \E i \in DOMAIN wire[c] :
    /\ Admit(c, i)
    /\ owned
    /\ wire[c][i].type = "command"
    /\ entries[c] = "absent"
    /\ restarting => c \in DrainCommand
    /\ entries' = [entries EXCEPT ![c] = "pending"]
    /\ running' = running \cup {[command |-> c, socket |-> wire[c][i].socket, stage |-> "begun",
                                 response |-> "none"]}
    /\ UNCHANGED <<clientVars, replies, up, owned, restarting, recordCount, file, history, bounds>>

\* begin(): the received record is durable before the command is dispatched.
Begin(c) ==
  \E i \in DOMAIN wire[c] :
    /\ Admit(c, i)
    /\ owned
    /\ wire[c][i].type = "command"
    /\ entries[c] = "absent"
    /\ restarting => c \in DrainCommand
    /\ Save(Received(c), [entries EXCEPT ![c] = "pending"], FALSE)
    /\ running' = running \cup {[command |-> c, socket |-> wire[c][i].socket, stage |-> "begun",
                                 response |-> "none"]}
    /\ UNCHANGED <<clientVars, replies, up, owned, restarting, history, bounds>>

\* Mutated Dispatch: the response of the run is not kept for recording.
DispatchVoid(h) ==
  /\ h.stage = "begun"
  /\ executed' = [executed EXCEPT ![h.command] = @ + 1]
  /\ outcome' \in {[outcome EXCEPT ![h.command] = r] : r \in Response}
  /\ running' = (running \ {h}) \cup {[h EXCEPT !.stage = "handled"]}
  /\ UNCHANGED <<clientVars, wire, replies, up, owned, restarting, entries, recordCount, file, bounds>>

\* handleCommand() takes effect.
Dispatch(h) ==
  /\ h.stage = "begun"
  /\ executed' = [executed EXCEPT ![h.command] = @ + 1]
  /\ \E r \in Response :
       /\ outcome' = [outcome EXCEPT ![h.command] = r]
       /\ running' = (running \ {h}) \cup {[h EXCEPT !.stage = "handled", !.response = r]}
  /\ UNCHANGED <<clientVars, wire, replies, up, owned, restarting, entries, recordCount, file, bounds>>

\* The response is recorded and then written.  A stale generation records
\* nothing, and recordResult() throws when the entry is gone: both end in a
\* failure that the journal does not hold.
Finish(h) ==
  LET c == h.command
      stored == owned /\ entries[c] # "absent"
  IN /\ h.stage = "handled"
     /\ running' = running \ {h}
     /\ IF stored
        THEN Save(Result(c, h.response), [entries EXCEPT ![c] = h.response],
                  recordCount + 1 >= CompactAfter)
        ELSE UNCHANGED <<entries, recordCount, file>>
     /\ Write(c, h.socket, IF stored THEN h.response ELSE "failure")
     /\ UNCHANGED <<clientVars, wire, up, owned, restarting, history, bounds>>

\* acknowledge(): the entry is deleted; an unknown command is ignored.
Acknowledge(c) ==
  \E i \in DOMAIN wire[c] :
    /\ Admit(c, i)
    /\ owned
    /\ wire[c][i].type = "ack_result"
    /\ IF entries[c] = "absent"
       THEN UNCHANGED <<entries, recordCount, file>>
       ELSE LET e == [entries EXCEPT ![c] = "absent"]
            IN Save(Acknowledged(c), e, e = Empty \/ recordCount + 1 >= CompactAfter)
    /\ UNCHANGED <<clientVars, replies, up, owned, restarting, running, history, bounds>>

-----------------------------------------------------------------------------
(* The process.                                                            *)

\* updateRestartPhase is set while a restart is prepared and unset when the
\* preparation fails.
TurnRestart ==
  /\ up
  /\ restarting' = ~restarting
  /\ UNCHANGED <<clientVars, wire, replies, up, owned, entries, recordCount, running, file, history, bounds>>

\* The registry entry is lost; only a new process owns it again.
LoseOwnership ==
  /\ up /\ owned
  /\ owned' = FALSE
  /\ UNCHANGED <<clientVars, wire, replies, up, restarting, entries, recordCount, running, file, history, bounds>>

\* The records an append may be in the middle of writing.
Appending ==
  {Received(c) : c \in {x \in Command : /\ entries[x] = "absent"
                                        /\ \E i \in Admissible(x) : wire[x][i].type = "command"}}
  \cup {Acknowledged(c) : c \in {x \in Command : /\ entries[x] # "absent"
                                                 /\ \E i \in Admissible(x) : wire[x][i].type = "ack_result"}}
  \cup {Result(h.command, h.response) : h \in {x \in running : x.stage = "handled" /\ entries[x.command] # "absent"}}

\* The process dies, between two steps or inside an append.
Crash ==
  /\ up
  /\ crashes < MaxCrashes
  /\ crashes' = crashes + 1
  /\ \/ file' = file
     \/ owned /\ \E rec \in Appending : file' \in CutShort(file, rec)
  /\ up' = FALSE
  /\ owned' = FALSE
  /\ restarting' = FALSE
  /\ entries' = Empty
  /\ recordCount' = 0
  /\ running' = {}
  /\ linked' = {}
  /\ pending' = Preserved(Client)
  /\ wire' = [c \in Command |-> <<>>]
  /\ replies' = {}
  /\ UNCHANGED <<answer, socket, history, drops>>

\* start(): take the registry entry, load the journal, listen.
Start ==
  /\ ~up
  /\ up' = TRUE
  /\ owned' = TRUE
  /\ entries' = Loaded(file)
  /\ recordCount' = LoadedCount(file)
  /\ UNCHANGED <<clientVars, wire, replies, restarting, running, file, history, bounds>>

-----------------------------------------------------------------------------
Init ==
  /\ pending = [c \in Command |-> "unsent"]
  /\ answer = [c \in Command |-> "none"]
  /\ linked = Client
  /\ socket = [cl \in Client |-> 1]
  /\ wire = [c \in Command |-> <<>>]
  /\ replies = {}
  /\ up = TRUE
  /\ owned = TRUE
  /\ restarting = FALSE
  /\ entries = Empty
  /\ recordCount = 0
  /\ running = {}
  /\ file = Compacted(Empty)
  /\ executed = [c \in Command |-> 0]
  /\ outcome = [c \in Command |-> "none"]
  /\ crashes = 0
  /\ drops = 0

Handle(c) ==
  RefuseStale(c) \/ AnswerFromJournal(c) \/ RejectRestarting(c) \/ Begin(c) \/ Acknowledge(c)

Next ==
  \/ \E c \in Command : Request(c) \/ Timeout(c) \/ Receive(c) \/ Handle(c)
  \/ \E cl \in Client : GiveUp(cl) \/ Reconnect(cl) \/ Disconnect(cl)
  \/ \E h \in running : Dispatch(h) \/ Finish(h)
  \/ TurnRestart \/ LoseOwnership \/ Crash \/ Start

Spec == Init /\ [][Next]_vars

\* The event loops run what is ready, autoReconnect keeps trying, and its
\* recoverDaemon starts a supervisor that is down.  Faults, timers and the
\* reconnection deadline are not fair.
Fairness ==
  /\ \A c \in Command : WF_vars(Receive(c)) /\ WF_vars(Handle(c))
  /\ WF_vars(\E h \in running : Dispatch(h) \/ Finish(h))
  /\ \A cl \in Client : WF_vars(Reconnect(cl))
  /\ WF_vars(Start)

LiveSpec == Spec /\ Fairness
-----------------------------------------------------------------------------
(* Properties.                                                             *)

Answer == Response \cup {"none", "uncertain", "rejected", "failure"}
LastLine == {NoTail, Fragment} \cup Record
File == [meaning : [Command -> Entry], lines : Nat, tail : LastLine]
Activation == [command : Command, socket : Nat, stage : {"begun", "handled"},
               response : Response \cup {"none"}]

\* Every variable has the shape its declaration describes.
TypeOK ==
  /\ pending \in [Command -> {"unsent", "waiting", "reconnect", "done", "abandoned"}]
  /\ answer \in [Command -> Answer]
  /\ linked \subseteq Client
  /\ socket \in [Client -> Nat]
  /\ wire \in [Command -> Seq(Line)]
  /\ replies \subseteq [command : Command, response : Answer \ {"none"}]
  /\ up \in BOOLEAN /\ owned \in BOOLEAN /\ restarting \in BOOLEAN
  /\ entries \in [Command -> Entry]
  /\ recordCount \in Nat
  /\ running \subseteq Activation
  /\ file \in File
  /\ executed \in [Command -> Nat]
  /\ outcome \in [Command -> Response \cup {"none"}]
  /\ crashes \in 0 .. MaxCrashes
  /\ drops \in 0 .. MaxDrops

\* A mutating command takes effect at most once, however often its line is
\* sent again and whenever the supervisor crashes
\* (command-recovery-journal.ts:48-52).
AtMostOnce == \A c \in Command : executed[c] <= 1

\* While the supervisor runs, its entries and its record count are what a
\* load() of the file would give: a crash at any instant loses nothing and
\* brings nothing back.
MemoryOnDisk ==
  up => entries = Loaded(file) /\ recordCount = LoadedCount(file)

\* An answer that carries a result carries the result of the command's run,
\* and a command whose caller was told that it was rejected for an update
\* restart has not run: the journal is consulted before the restart phase.
AnswerTruthful ==
  \A c \in Command :
    /\ answer[c] \in Response => executed[c] = 1 /\ answer[c] = outcome[c]
    /\ answer[c] = "rejected" => executed[c] = 0

\* The journal keeps a command that has begun until its caller holds an
\* answer: an entry only goes when that answer is acknowledged.
ForgottenOnlyWhenAnswered ==
  [][\A c \in Command :
       Loaded(file)[c] # "absent" /\ Loaded(file')[c] = "absent" => answer[c] # "none"]_vars

\* The supervisor and the journal implement the promise of CommandOnce.
Once == INSTANCE CommandOnce WITH
  executed <- executed, outcome <- outcome, answer <- answer
ImplementsOnce == Once!Spec

\* Every command that was sent is answered or given up, whatever finite
\* number of crashes and lost sockets comes between.
EventuallySettled ==
  \A c \in Command :
    pending[c] \in {"waiting", "reconnect"} ~> pending[c] \in {"done", "abandoned"}
-----------------------------------------------------------------------------
(* The inductive invariant behind AtMostOnce, AnswerTruthful and           *)
(* ImplementsOnce, for admission in order and untorn writes.               *)

Started(c) == executed[c] > 0 \/ \E h \in running : h.command = c
NoCommandLine(c) == \A i \in DOMAIN wire[c] : wire[c][i].type # "command"

\* The file ends with a newline and says what memory says.
JournalInv ==
  /\ file.tail = NoTail
  /\ up => entries = file.meaning /\ recordCount = file.lines

\* Nothing of a dead process is left in its sockets.
DownInv ==
  ~up => /\ running = {} /\ replies = {} /\ linked = {}
         /\ \A c \in Command : wire[c] = <<>>

\* Copies of a command come from ever later sockets and before its
\* acknowledgement, which only an answered request sends.
WireInv ==
  \A c \in Command :
    /\ \A i, j \in DOMAIN wire[c] :
         i < j => IF wire[c][i].type = "ack_result" THEN wire[c][j].type = "ack_result"
                  ELSE wire[c][j].type = "command" => wire[c][i].socket < wire[c][j].socket
    /\ \A i \in DOMAIN wire[c] :
         /\ wire[c][i].type = "ack_result" => pending[c] = "done"
         /\ wire[c][i].socket <= socket[Owner[c]]
         /\ pending[c] # "unsent"

\* A command that has begun is in the journal until it is answered and no
\* copy of it is left to arrive.
ReceiptInv ==
  \A c \in Command :
    Started(c) => /\ pending[c] # "unsent"
                  /\ \/ file.meaning[c] # "absent"
                     \/ pending[c] = "done" /\ NoCommandLine(c)

\* A run that has begun is the only one, and one that is over left its
\* response in outcome.
RunInv ==
  /\ \A c \in Command : executed[c] <= 1
  /\ \A h \in running :
       IF h.stage = "begun" THEN executed[h.command] = 0
       ELSE executed[h.command] = 1 /\ h.response = outcome[h.command] /\ h.response \in Response
  /\ \A g, h \in running :
       g.command = h.command /\ g.stage = "begun" /\ h.stage = "begun" => g = h

Truthful(c, r) ==
  /\ r \in Response => executed[c] = 1 /\ r = outcome[c]
  /\ r = "rejected" => ~Started(c) /\ NoCommandLine(c)

\* What the journal, the replies in transit and the answers say of a result
\* is true, and a rejected command cannot begin any more.
TruthInv ==
  /\ \A c \in Command : Truthful(c, file.meaning[c]) /\ Truthful(c, answer[c])
  /\ \A c \in Command : pending[c] # "done" => answer[c] = "none"
  /\ \A m \in replies : /\ Truthful(m.command, m.response)
                        /\ Owner[m.command] \in linked
                        /\ pending[m.command] # "unsent"

IInv ==
  /\ TypeOK /\ JournalInv /\ DownInv /\ WireInv
  /\ ReceiptInv /\ RunInv /\ TruthInv
=============================================================================
