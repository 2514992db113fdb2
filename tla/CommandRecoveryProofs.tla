----------------------- MODULE CommandRecoveryProofs -----------------------
(***************************************************************************)
(* The theorems about CommandRecovery: with appends that are not cut short *)
(* and lines admitted in order, IInv is inductive, and with it a command   *)
(* takes effect at most once and every answer is true, for any number of   *)
(* commands, clients, crashes and lost sockets.                            *)
(***************************************************************************)
EXTENDS CommandRecovery, FiniteSetTheorems, SequenceTheorems, TLAPS

USE CommandRecoveryAssumption

-----------------------------------------------------------------------------
(* Operators.                                                              *)

\* compact() counts what it writes.
LEMMA RecordsOfNat == ASSUME NEW e PROVE RecordsOf(e) \in Nat
<1>1. Live(e) \subseteq Command /\ {c \in Command : e[c] \in Response} \subseteq Command
  BY DEF Live
<1> QED
  BY <1>1, FS_Subset, FS_CardinalityType DEF RecordsOf

\* Replaying a record keeps the shape of the entries.
LEMMA ReplayType ==
  ASSUME NEW e \in [Command -> Entry], NEW rec \in Record
  PROVE  Replay(e, rec) \in [Command -> Entry]
BY DEF Replay, Record, Entry

\* Removing the head of a sequence shifts the rest.
LEMMA WithoutHead ==
  ASSUME NEW S, NEW s \in Seq(S), 1 \in DOMAIN s
  PROVE  /\ Without(s, 1) \in Seq(S)
         /\ DOMAIN Without(s, 1) = 1 .. Len(s) - 1
         /\ \A k \in 1 .. Len(s) - 1 : Without(s, 1)[k] = s[k + 1]
<1>1. SubSeq(s, 1, 0) = <<>>
  OBVIOUS
<1>2. SubSeq(s, 2, Len(s)) \in Seq(S)
      /\ Len(SubSeq(s, 2, Len(s))) = Len(s) - 1
      /\ \A k \in 1 .. Len(s) - 1 : SubSeq(s, 2, Len(s))[k] = s[k + 1]
  <2>1. Len(s) \in Nat /\ Len(s) >= 1 /\ \A i \in 2 .. Len(s) : s[i] \in S
    BY LenProperties, ElementOfSeq
  <2>2. DEFINE m == Len(s)
  <2>3. /\ SubSeq(s, 2, m) \in Seq(S)
        /\ Len(SubSeq(s, 2, m)) = IF 2 <= m THEN m - 2 + 1 ELSE 0
        /\ \A i \in 1 .. m - 2 + 1 : SubSeq(s, 2, m)[i] = s[2 + i - 1]
    <3> HIDE DEF m
    <3>1. m \in Int /\ 2 \in Int /\ \A i \in 2 .. m : s[i] \in S
      BY <2>1 DEF m
    <3> QED
      BY <3>1, SubSeqProperties
  <2>4. m \in Nat /\ m >= 1 /\ m - 2 + 1 = m - 1 /\ \A k \in 1 .. m - 1 : 2 + k - 1 = k + 1
    BY <2>1
  <2>5. \A k \in 1 .. m - 1 : SubSeq(s, 2, m)[k] = s[k + 1]
    <3> HIDE DEF m
    <3> QED
      BY <2>3, <2>4
  <2>6. SubSeq(s, 2, m) \in Seq(S) /\ Len(SubSeq(s, 2, m)) = m - 1
    <3> HIDE DEF m
    <3> QED
      BY <2>3, <2>4
  <2> QED
    BY <2>5, <2>6
<1> QED
  BY <1>1, <1>2 DEF Without

-----------------------------------------------------------------------------
(* The initial state satisfies the inductive invariant.                    *)

LEMMA InitIInv == Init => IInv
<1> SUFFICES ASSUME Init PROVE IInv
  OBVIOUS
<1> USE DEF Init
<1>1. RecordsOf(Empty) = 0
  <2>1. Live(Empty) = {} /\ {c \in Command : Empty[c] \in Response} = {}
    BY DEF Live, Empty
  <2>2. RecordsOf(Empty) = Cardinality({}) + Cardinality({})
    BY <2>1, Zenon DEF RecordsOf
  <2> QED
    BY <2>2, FS_EmptySet
<1>2. file = [meaning |-> Empty, lines |-> 0, tail |-> NoTail]
  BY <1>1 DEF Compacted
<1>3. Empty \in [Command -> Entry]
  BY DEF Empty, Entry
<1>4. TypeOK
  <2>1. pending \in [Command -> {"unsent"}] /\ answer \in [Command -> {"none"}]
        /\ socket \in [Client -> Nat] /\ linked \subseteq Client /\ wire \in [Command -> Seq(Line)]
    OBVIOUS
  <2>2. file \in File
    BY <1>2, <1>3 DEF File, LastLine
  <2>3. executed \in [Command -> Nat] /\ outcome \in [Command -> Response \cup {"none"}]
    OBVIOUS
  <2>4. /\ replies = {} /\ running = {}
        /\ up \in BOOLEAN /\ owned \in BOOLEAN /\ restarting \in BOOLEAN
        /\ entries \in [Command -> Entry] /\ recordCount \in Nat
    BY <1>3
  <2>5. crashes \in 0 .. MaxCrashes /\ drops \in 0 .. MaxDrops
    BY CommandRecoveryAssumption
  <2> HIDE DEF Init
  <2> QED
    BY <2>1, <2>2, <2>3, <2>4, <2>5 DEF TypeOK, Answer
<1>5. JournalInv /\ DownInv
  BY <1>2 DEF JournalInv, DownInv
<1>6. WireInv
  BY DEF WireInv
<1>7. ReceiptInv /\ RunInv
  BY DEF ReceiptInv, RunInv, Started
<1>8. TruthInv
  BY <1>2 DEF TruthInv, Truthful, Empty
<1> QED
  BY <1>4, <1>5, <1>6, <1>7, <1>8 DEF IInv

-----------------------------------------------------------------------------
(* handleLine.                                                             *)

\* What admitting a line does to the wires.
LEMMA AdmitWire ==
  ASSUME IInv, AdmitInOrder, NEW c \in Command, NEW i \in DOMAIN wire[c], Admit(c, i)
  PROVE  /\ up
         /\ i = 1
         /\ wire' \in [Command -> Seq(Line)]
         /\ \A d \in Command : d # c => wire'[d] = wire[d]
         /\ DOMAIN wire'[c] = 1 .. Len(wire[c]) - 1
         /\ \A k \in 1 .. Len(wire[c]) - 1 : wire'[c][k] = wire[c][k + 1]
<1>1. wire \in [Command -> Seq(Line)]
  BY DEF IInv, TypeOK
<1>2. up /\ i = 1 /\ wire' = [wire EXCEPT ![c] = Without(wire[c], 1)]
  BY <1>1 DEF Admit, Admissible
<1>3. 1 \in DOMAIN wire[c] /\ wire[c] \in Seq(Line)
  BY <1>1, <1>2
<1> QED
  BY <1>1, <1>2, <1>3, WithoutHead

\* Admitting a line keeps the order of the lines behind it.
LEMMA AdmitWireInv ==
  ASSUME IInv, AdmitInOrder, NEW c \in Command, NEW i \in DOMAIN wire[c], Admit(c, i),
         UNCHANGED <<pending, socket>>
  PROVE  /\ WireInv'
         /\ \A d \in Command : NoCommandLine(d) => NoCommandLine(d)'
         /\ wire[c][i].type = "ack_result" => NoCommandLine(c)'
         /\ wire[c][i].type = "command" /\ wire[c][i].socket = socket[Owner[c]]
              => NoCommandLine(c)'
<1>1. /\ i = 1
      /\ \A d \in Command : d # c => wire'[d] = wire[d]
      /\ DOMAIN wire'[c] = 1 .. Len(wire[c]) - 1
      /\ \A k \in 1 .. Len(wire[c]) - 1 : wire'[c][k] = wire[c][k + 1]
  BY AdmitWire
<1>2. wire \in [Command -> Seq(Line)] /\ socket \in [Client -> Nat] /\ WireInv
  BY DEF IInv, TypeOK
<1>3. DOMAIN wire[c] = 1 .. Len(wire[c]) /\ Len(wire[c]) \in Nat
  BY <1>2
<1>4. \A k \in DOMAIN wire'[c] : k \in Nat /\ k + 1 \in DOMAIN wire[c] /\ k + 1 > 1
                                 /\ wire'[c][k] = wire[c][k + 1]
  BY <1>1, <1>3
<1>5. WireInv'
  <2> SUFFICES ASSUME NEW d \in Command
               PROVE  /\ \A m, n \in DOMAIN wire'[d] :
                           m < n => IF wire'[d][m].type = "ack_result" THEN wire'[d][n].type = "ack_result"
                                    ELSE wire'[d][n].type = "command" => wire'[d][m].socket < wire'[d][n].socket
                      /\ \A m \in DOMAIN wire'[d] :
                           /\ wire'[d][m].type = "ack_result" => pending[d] = "done"
                           /\ wire'[d][m].socket <= socket[Owner[d]]
                           /\ pending[d] # "unsent"
    BY DEF WireInv
  <2>1. CASE d = c
    BY <2>1, <1>2, <1>4 DEF WireInv
  <2>2. CASE d # c
    BY <2>2, <1>1, <1>2 DEF WireInv
  <2> QED
    BY <2>1, <2>2
<1>6. \A d \in Command : NoCommandLine(d) => NoCommandLine(d)'
  BY <1>1, <1>4 DEF NoCommandLine
<1>7. wire[c][i].type = "ack_result" => NoCommandLine(c)'
  BY <1>1, <1>2, <1>4 DEF NoCommandLine, WireInv
<1>8. ASSUME wire[c][i].type = "command", wire[c][i].socket = socket[Owner[c]]
      PROVE  NoCommandLine(c)'
  <2> SUFFICES ASSUME NEW k \in DOMAIN wire'[c], wire'[c][k].type = "command" PROVE FALSE
    BY DEF NoCommandLine
  <2>1. wire[c][i].socket < wire[c][k + 1].socket
    BY <1>1, <1>2, <1>4, <1>8 DEF WireInv
  <2>2. wire[c][k + 1].socket <= socket[Owner[c]]
    BY <1>2, <1>4 DEF WireInv
  <2>3. wire[c][k + 1] \in Line
    BY <1>2, <1>4, ElementOfSeq
  <2>4. wire[c][k + 1].socket \in Nat /\ socket[Owner[c]] \in Nat
    BY <1>2, <2>3 DEF Line
  <2> QED
    BY <2>1, <2>2, <2>4, <1>8
<1> QED
  BY <1>5, <1>6, <1>7, <1>8

\* A line that is answered without touching the journal.
LEMMA AnswerOnly ==
  ASSUME IInv, AdmitInOrder, NEW c \in Command, NEW i \in DOMAIN wire[c], Admit(c, i),
         UNCHANGED <<clientVars, serverVars, file, history, bounds>>,
         NEW r \in Answer \ {"none"},
         r \in Response => executed[c] = 1 /\ r = outcome[c],
         r = "rejected" => ~Started(c),
         \/ UNCHANGED replies
         \/ Write(c, wire[c][i].socket, r) /\ wire[c][i].type = "command"
  PROVE  IInv'
<1> USE DEF clientVars, serverVars, history, bounds
<1>1. WireInv' /\ \A d \in Command : NoCommandLine(d) => NoCommandLine(d)'
  BY AdmitWireInv
<1>2. up /\ wire' \in [Command -> Seq(Line)]
  BY AdmitWire
<1>3. replies' \subseteq replies \cup {[command |-> c, response |-> r]}
  BY DEF Write
<1>4. \A d \in Command : Started(d)' <=> Started(d)
  BY DEF Started
<1>5. TypeOK'
  BY <1>2, <1>3 DEF IInv, TypeOK
<1>6. JournalInv' /\ DownInv' /\ RunInv'
  BY <1>2 DEF IInv, JournalInv, DownInv, RunInv
<1>7. ReceiptInv'
  BY <1>1, <1>4 DEF IInv, ReceiptInv
<1>8. TruthInv'
  <2>1. \A d \in Command : \A x : Truthful(d, x) => Truthful(d, x)'
    BY <1>1, <1>4 DEF Truthful
  <2>2. ASSUME NEW m \in replies' PROVE m \in replies \/
           (m = [command |-> c, response |-> r] /\ Owner[c] \in linked /\ NoCommandLine(c)')
    BY AdmitWireInv DEF Write
  <2>3. pending[c] # "unsent"
    BY DEF IInv, WireInv
  <2>4. ASSUME NEW m \in replies'
        PROVE  /\ Truthful(m.command, m.response)'
               /\ Owner[m.command] \in linked'
               /\ pending'[m.command] # "unsent"
    <3>1. CASE m \in replies
      <4>1. m.command \in Command
        BY <3>1 DEF IInv, TypeOK
      <4> QED
        BY <2>1, <3>1, <4>1 DEF IInv, TruthInv
    <3>2. CASE m = [command |-> c, response |-> r] /\ Owner[c] \in linked /\ NoCommandLine(c)'
      BY <2>3, <3>2, <1>4 DEF Truthful
    <3> QED
      BY <2>2, <3>1, <3>2
  <2>5. \A d \in Command : Truthful(d, file.meaning[d])' /\ Truthful(d, answer[d])'
    BY <2>1 DEF IInv, TruthInv
  <2> QED
    BY <2>4, <2>5 DEF IInv, TruthInv
<1> QED
  BY <1>1, <1>5, <1>6, <1>7, <1>8 DEF IInv

\* The three handlers that only answer.
LEMMA RefuseStaleInv ==
  ASSUME IInv, AdmitInOrder, NEW c \in Command, RefuseStale(c)
  PROVE  IInv'
<1>1. PICK i \in DOMAIN wire[c] :
        /\ Admit(c, i)
        /\ IF wire[c][i].type = "command"
           THEN Write(c, wire[c][i].socket, "failure")
           ELSE UNCHANGED replies
        /\ UNCHANGED <<clientVars, serverVars, file, history, bounds>>
  BY DEF RefuseStale
<1>2. PICK r \in Answer \ {"none"} : r = "failure"
  BY CommandRecoveryAssumption DEF Answer
<1>3. r \notin Response /\ r # "rejected"
  BY <1>2, CommandRecoveryAssumption
<1>4. \/ UNCHANGED replies
      \/ Write(c, wire[c][i].socket, r) /\ wire[c][i].type = "command"
  BY <1>1, <1>2
<1> QED
  BY <1>1, <1>3, <1>4, AnswerOnly

LEMMA AnswerFromJournalInv ==
  ASSUME IInv, AdmitInOrder, NEW c \in Command, AnswerFromJournal(c)
  PROVE  IInv'
<1>1. PICK i \in DOMAIN wire[c] :
        /\ Admit(c, i)
        /\ wire[c][i].type = "command"
        /\ entries[c] # "absent"
        /\ Write(c, wire[c][i].socket, IF entries[c] = "pending" THEN "uncertain" ELSE entries[c])
        /\ UNCHANGED <<clientVars, serverVars, file, history, bounds>>
  BY DEF AnswerFromJournal
<1>2. entries \in [Command -> Entry] /\ entries = file.meaning
  BY <1>1 DEF IInv, TypeOK, JournalInv, Admit
<1>3. PICK r \in Answer \ {"none"} :
        r = IF entries[c] = "pending" THEN "uncertain" ELSE entries[c]
  BY <1>1, <1>2, CommandRecoveryAssumption DEF Answer, Entry
<1>4. r # "rejected"
  BY <1>1, <1>2, <1>3, CommandRecoveryAssumption DEF Entry
<1>5. r \in Response => executed[c] = 1 /\ r = outcome[c]
  BY <1>2, <1>3, CommandRecoveryAssumption DEF IInv, TruthInv, Truthful
<1>6. Write(c, wire[c][i].socket, r)
  BY <1>1, <1>3
<1> QED
  BY <1>1, <1>4, <1>5, <1>6, AnswerOnly

LEMMA RejectRestartingInv ==
  ASSUME IInv, AdmitInOrder, NEW c \in Command, RejectRestarting(c)
  PROVE  IInv'
<1>1. PICK i \in DOMAIN wire[c] :
        /\ Admit(c, i)
        /\ wire[c][i].type = "command"
        /\ entries[c] = "absent"
        /\ Write(c, wire[c][i].socket, "rejected")
        /\ UNCHANGED <<clientVars, serverVars, file, history, bounds>>
  BY DEF RejectRestarting
<1>2. "rejected" \in Answer \ {"none"} /\ "rejected" \notin Response
  BY CommandRecoveryAssumption DEF Answer
<1>3. ~Started(c)
  BY <1>1 DEF IInv, ReceiptInv, JournalInv, Admit, NoCommandLine
<1> QED
  BY <1>1, <1>2, <1>3, AnswerOnly

\* begin() adds the receipt and the only run of the command.
LEMMA BeginInv ==
  ASSUME IInv, AdmitInOrder, NEW c \in Command, Begin(c)
  PROVE  IInv'
<1> DEFINE h == [command |-> c, socket |-> wire[c][1].socket, stage |-> "begun",
                 response |-> "none"]
           e == [entries EXCEPT ![c] = "pending"]
<1>1. PICK i \in DOMAIN wire[c] :
        /\ Admit(c, i)
        /\ wire[c][i].type = "command"
        /\ entries[c] = "absent"
        /\ Save(Received(c), e, FALSE)
        /\ running' = running \cup {[command |-> c, socket |-> wire[c][i].socket,
                                     stage |-> "begun", response |-> "none"]}
        /\ UNCHANGED <<clientVars, replies, up, owned, restarting, history, bounds>>
  BY DEF Begin
<1>2. i = 1 /\ up /\ wire' \in [Command -> Seq(Line)]
  BY <1>1, AdmitWire
<1> USE DEF clientVars, history, bounds
<1>3. WireInv' /\ \A d \in Command : NoCommandLine(d) => NoCommandLine(d)'
  BY <1>1, AdmitWireInv
<1>4. running' = running \cup {h}
  BY <1>1, <1>2
<1>5. entries \in [Command -> Entry] /\ entries = file.meaning /\ file \in File
      /\ file.tail = NoTail /\ recordCount = file.lines
  BY <1>2 DEF IInv, TypeOK, JournalInv
<1>6. file' = [meaning |-> e, lines |-> file.lines + 1, tail |-> NoTail]
      /\ entries' = e /\ recordCount' = recordCount + 1
  BY <1>1, <1>5 DEF Save, Appended, Replay, Received
<1>7. ~Started(c) /\ pending[c] # "unsent"
  BY <1>1, <1>5 DEF IInv, ReceiptInv, NoCommandLine, WireInv
<1>8. TypeOK'
  <2>1. h \in Activation
    <3>1. wire[c][1] \in Line
      BY <1>1, <1>2, ElementOfSeq DEF IInv, TypeOK
    <3> QED
      BY <3>1 DEF Activation, Line
  <2>2. e \in [Command -> Entry] /\ file' \in File /\ recordCount' \in Nat
    BY <1>5, <1>6 DEF File, Entry, LastLine
  <2> HIDE DEF h
  <2> QED
    BY <1>1, <1>2, <1>4, <1>6, <2>1, <2>2 DEF IInv, TypeOK
<1>9. JournalInv' /\ DownInv'
  BY <1>1, <1>2, <1>5, <1>6 DEF JournalInv, DownInv, IInv
<1>10. \A d \in Command : d # c => (Started(d)' <=> Started(d)) /\ file'.meaning[d] = file.meaning[d]
  BY <1>1, <1>4, <1>5, <1>6 DEF Started
<1>11. ReceiptInv'
  <2> SUFFICES ASSUME NEW d \in Command, Started(d)'
               PROVE  /\ pending'[d] # "unsent"
                      /\ \/ file'.meaning[d] # "absent"
                         \/ pending'[d] = "done" /\ NoCommandLine(d)'
    BY DEF ReceiptInv
  <2>1. CASE d = c
    BY <2>1, <1>1, <1>5, <1>6, <1>7
  <2>2. CASE d # c
    BY <2>2, <1>1, <1>3, <1>10 DEF IInv, ReceiptInv
  <2> QED
    BY <2>1, <2>2
<1>12. RunInv'
  <2>1. executed[c] = 0 /\ \A g \in running : g.command # c
    BY <1>7 DEF Started, IInv, TypeOK
  <2> QED
    BY <1>1, <1>4, <2>1 DEF IInv, RunInv
<1>13. TruthInv'
  <2>1. \A d \in Command : \A x : d # c /\ Truthful(d, x) => Truthful(d, x)'
    BY <1>1, <1>3, <1>10 DEF Truthful
  <2>2. \A x : Truthful(c, x) => Truthful(c, x)'
    BY <1>1, <1>7 DEF Truthful, NoCommandLine
  <2>3. Truthful(c, "pending")'
    BY CommandRecoveryAssumption DEF Truthful
  <2>4. \A d \in Command : Truthful(d, file.meaning[d])'
    BY <1>5, <1>6, <1>10, <2>1, <2>3 DEF IInv, TruthInv
  <2> QED
    BY <1>1, <2>1, <2>2, <2>4 DEF IInv, TruthInv, TypeOK
<1> QED
  BY <1>3, <1>8, <1>9, <1>11, <1>12, <1>13 DEF IInv

\* acknowledge() deletes an entry whose caller has its answer.
LEMMA AcknowledgeInv ==
  ASSUME IInv, AdmitInOrder, NEW c \in Command, Acknowledge(c)
  PROVE  IInv'
<1> DEFINE e == [entries EXCEPT ![c] = "absent"]
<1>1. PICK i \in DOMAIN wire[c] :
        /\ Admit(c, i)
        /\ wire[c][i].type = "ack_result"
        /\ \/ UNCHANGED <<entries, recordCount, file>>
           \/ \E b \in BOOLEAN : Save(Acknowledged(c), e, b)
        /\ UNCHANGED <<clientVars, replies, up, owned, restarting, running, history, bounds>>
  BY DEF Acknowledge
<1> USE DEF clientVars, history, bounds
<1>2. i = 1 /\ up /\ wire' \in [Command -> Seq(Line)]
  BY <1>1, AdmitWire
<1>3. WireInv' /\ NoCommandLine(c)' /\ \A d \in Command : NoCommandLine(d) => NoCommandLine(d)'
  BY <1>1, AdmitWireInv
<1>4. entries \in [Command -> Entry] /\ entries = file.meaning /\ file \in File
      /\ file.tail = NoTail /\ recordCount = file.lines /\ file.lines \in Nat
  BY <1>2 DEF IInv, TypeOK, JournalInv, File
<1>5. e \in [Command -> Entry]
  BY <1>4 DEF Entry
<1>6. file' \in File /\ file'.tail = NoTail /\ entries' = file'.meaning
      /\ recordCount' = file'.lines /\ entries' \in {entries, e}
  <2>1. CASE UNCHANGED <<entries, recordCount, file>>
    BY <2>1, <1>4
  <2>2. CASE Save(Acknowledged(c), e, TRUE)
    BY <2>2, <1>5, RecordsOfNat DEF Save, Compacted, File, LastLine
  <2>3. CASE Save(Acknowledged(c), e, FALSE)
    <3>1. file' = [meaning |-> e, lines |-> file.lines + 1, tail |-> NoTail]
      BY <2>3, <1>4 DEF Save, Appended, Replay, Acknowledged
    <3> QED
      BY <2>3, <3>1, <1>4, <1>5 DEF Save, File, LastLine
  <2> QED
    BY <1>1, <2>1, <2>2, <2>3
<1>7. \A d \in Command : file'.meaning[d] = file.meaning[d]
                      \/ (d = c /\ file'.meaning[d] = "absent")
  BY <1>4, <1>5, <1>6
<1>8. \A d \in Command : Started(d)' <=> Started(d)
  BY <1>1 DEF Started
<1>9. pending[c] = "done"
  BY <1>1 DEF IInv, WireInv
<1>10. TypeOK'
  BY <1>1, <1>2, <1>4, <1>5, <1>6 DEF IInv, TypeOK, File
<1>11. JournalInv' /\ DownInv' /\ RunInv'
  BY <1>1, <1>2, <1>6 DEF JournalInv, DownInv, RunInv, IInv
<1>12. ReceiptInv'
  BY <1>1, <1>3, <1>7, <1>8, <1>9 DEF IInv, ReceiptInv
<1>13. TruthInv'
  <2>1. \A d \in Command : \A x : Truthful(d, x) => Truthful(d, x)'
    BY <1>1, <1>3, <1>8 DEF Truthful
  <2>2. Truthful(c, "absent")'
    BY CommandRecoveryAssumption DEF Truthful
  <2>3. \A d \in Command : Truthful(d, file.meaning[d])'
    BY <1>7, <2>1, <2>2 DEF IInv, TruthInv
  <2> QED
    BY <1>1, <2>1, <2>3 DEF IInv, TruthInv, TypeOK
<1> QED
  BY <1>3, <1>10, <1>11, <1>12, <1>13 DEF IInv

\* handleCommand() runs a command that has not run.
LEMMA DispatchInv ==
  ASSUME IInv, NEW h \in running, Dispatch(h)
  PROVE  IInv'
<1> USE DEF clientVars, bounds
<1> DEFINE c == h.command
<1>1. PICK r \in Response :
        /\ outcome' = [outcome EXCEPT ![c] = r]
        /\ running' = (running \ {h}) \cup {[h EXCEPT !.stage = "handled", !.response = r]}
  BY DEF Dispatch
<1>2. /\ h.stage = "begun"
      /\ executed' = [executed EXCEPT ![c] = @ + 1]
      /\ UNCHANGED <<clientVars, wire, replies, up, owned, restarting, entries, recordCount, file, bounds>>
  BY DEF Dispatch
<1>3. h \in Activation /\ c \in Command /\ executed \in [Command -> Nat]
      /\ outcome \in [Command -> Response \cup {"none"}]
  BY DEF IInv, TypeOK, Activation
<1>4. executed[c] = 0 /\ executed' = [executed EXCEPT ![c] = 1]
  <2>1. executed[h.command] = 0
    BY <1>2 DEF IInv, RunInv
  <2> QED
    BY <1>2, <2>1
<1> DEFINE g == [h EXCEPT !.stage = "handled", !.response = r]
<1>5. /\ g \in Activation /\ g.command = c /\ g.stage = "handled" /\ g.response = r
      /\ running' = (running \ {h}) \cup {g}
  BY <1>1, <1>3 DEF Activation
<1> HIDE DEF g
<1>6. TypeOK'
  BY <1>1, <1>2, <1>3, <1>4, <1>5 DEF IInv, TypeOK
<1>7. JournalInv' /\ DownInv' /\ WireInv'
  BY <1>2 DEF IInv, JournalInv, DownInv, WireInv
<1>8. Started(c) /\ \A d \in Command : Started(d)' <=> Started(d)
  BY <1>3, <1>4, <1>5 DEF Started
<1>9. \A d \in Command : NoCommandLine(d)' <=> NoCommandLine(d)
  BY <1>2 DEF NoCommandLine
<1>10. ReceiptInv'
  BY <1>2, <1>8, <1>9 DEF IInv, ReceiptInv
<1>11. RunInv'
  <2>1. \A d \in Command : executed'[d] <= 1
    BY <1>3, <1>4 DEF IInv, RunInv
  <2>2. \A x \in running : x.command = c /\ x.stage = "begun" => x = h
    BY <1>2 DEF IInv, RunInv
  <2>3. \A x \in running : x.command \in Command /\ x.stage \in {"begun", "handled"}
    BY DEF IInv, TypeOK, Activation
  <2>4. \A x \in running' : IF x.stage = "begun" THEN executed'[x.command] = 0
          ELSE executed'[x.command] = 1 /\ x.response = outcome'[x.command] /\ x.response \in Response
    <3> SUFFICES ASSUME NEW x \in running'
                 PROVE  IF x.stage = "begun" THEN executed'[x.command] = 0
          ELSE executed'[x.command] = 1 /\ x.response = outcome'[x.command] /\ x.response \in Response
      OBVIOUS
    <3>1. CASE x = g
      BY <3>1, <1>1, <1>3, <1>4, <1>5
    <3>2. CASE x \in running /\ x # h
      <4>1. x.command # c
        BY <3>2, <2>2, <2>3, <1>4 DEF IInv, RunInv
      <4> QED
        BY <4>1, <3>2, <2>3, <1>1, <1>3, <1>4 DEF IInv, RunInv
    <3> QED
      BY <1>5, <3>1, <3>2
  <2> QED
    BY <1>5, <2>1, <2>4 DEF IInv, RunInv
<1>12. TruthInv'
  <2>1. \A d \in Command : \A x : Truthful(d, x) => Truthful(d, x)'
    <3> SUFFICES ASSUME NEW d \in Command, NEW x, Truthful(d, x) PROVE Truthful(d, x)'
      OBVIOUS
    <3>1. d = c => x \notin Response
      BY <1>4 DEF Truthful
    <3> QED
      BY <3>1, <1>1, <1>3, <1>4, <1>8, <1>9 DEF Truthful
  <2> QED
    BY <1>2, <2>1 DEF IInv, TruthInv, TypeOK
<1> QED
  BY <1>6, <1>7, <1>10, <1>11, <1>12 DEF IInv

\* The result is stored and sent, or neither.
LEMMA FinishInv ==
  ASSUME IInv, NEW h \in running, Finish(h)
  PROVE  IInv'
<1> USE DEF clientVars, history, bounds
<1> DEFINE c == h.command
           e == [entries EXCEPT ![c] = h.response]
           stored == owned /\ entries[c] # "absent"
<1>1. /\ h.stage = "handled" /\ running' = running \ {h}
      /\ UNCHANGED <<clientVars, wire, up, owned, restarting, history, bounds>>
      /\ \/ /\ ~stored
            /\ UNCHANGED <<entries, recordCount, file>>
         \/ /\ stored
            /\ \/ Save(Result(c, h.response), e, TRUE)
               \/ Save(Result(c, h.response), e, FALSE)
  BY DEF Finish, Save
<1>2. /\ h \in Activation /\ c \in Command /\ up /\ h.response \in Response
      /\ executed[c] = 1 /\ h.response = outcome[c] /\ pending[c] # "unsent"
  BY <1>1 DEF IInv, TypeOK, Activation, RunInv, DownInv, ReceiptInv, Started
<1>3. entries \in [Command -> Entry] /\ entries = file.meaning /\ file \in File
      /\ file.tail = NoTail /\ recordCount = file.lines /\ file.lines \in Nat
  BY <1>2 DEF IInv, TypeOK, JournalInv, File
<1>4. e \in [Command -> Entry]
  BY <1>2, <1>3 DEF Entry
<1>5. /\ file' \in File /\ file'.tail = NoTail /\ entries' = file'.meaning
      /\ recordCount' = file'.lines
      /\ entries' = entries \/ (stored /\ entries' = e)
  <2>1. CASE UNCHANGED <<entries, recordCount, file>>
    BY <2>1, <1>3
  <2>2. CASE stored /\ Save(Result(c, h.response), e, TRUE)
    BY <2>2, <1>4, RecordsOfNat DEF Save, Compacted, File, LastLine
  <2>3. CASE stored /\ Save(Result(c, h.response), e, FALSE)
    <3>1. Replay(file.meaning, Result(c, h.response)) = e
      BY <2>3, <1>3 DEF Replay, Result
    <3>2. file' = [meaning |-> e, lines |-> file.lines + 1, tail |-> NoTail]
      BY <2>3, <3>1, <1>3 DEF Save, Appended
    <3> QED
      BY <2>3, <3>2, <1>3, <1>4 DEF Save, File, LastLine
  <2> QED
    BY <1>1, <2>1, <2>2, <2>3
<1>6. \A d \in Command : file'.meaning[d] = file.meaning[d]
        \/ (d = c /\ file'.meaning[d] = h.response /\ file.meaning[d] # "absent")
  BY <1>3, <1>4, <1>5
<1>7. \A d \in Command : Started(d)' <=> Started(d)
  BY <1>1, <1>2 DEF Started
<1>8. \A d \in Command : NoCommandLine(d)' <=> NoCommandLine(d)
  BY <1>1 DEF NoCommandLine
<1>9. PICK r \in Answer \ {"none"} :
        /\ r # "rejected" /\ (r \in Response => r = h.response)
        /\ replies' = replies
             \/ (Owner[c] \in linked /\ replies' = replies \cup {[command |-> c, response |-> r]})
  <2>1. Write(c, h.socket, h.response) \/ Write(c, h.socket, "failure")
    BY DEF Finish
  <2>2. h.response \in Answer \ {"none"} /\ h.response # "rejected"
        /\ "failure" \in Answer \ {"none"} /\ "failure" \notin Response
    BY <1>2, CommandRecoveryAssumption DEF Answer
  <2> QED
    BY <2>1, <2>2 DEF Write
<1>10. TypeOK'
  <2>1. replies' \subseteq [command : Command, response : Answer \ {"none"}]
    BY <1>2, <1>9 DEF IInv, TypeOK
  <2>2. entries' \in [Command -> Entry] /\ recordCount' \in Nat
    BY <1>3, <1>4, <1>5 DEF File
  <2>3. running' \subseteq Activation
    BY <1>1 DEF IInv, TypeOK
  <2> QED
    BY <1>1, <1>5, <2>1, <2>2, <2>3 DEF IInv, TypeOK
<1>11. JournalInv' /\ DownInv' /\ WireInv'
  BY <1>1, <1>2, <1>5 DEF IInv, JournalInv, DownInv, WireInv
<1>12. RunInv'
  BY <1>1 DEF IInv, RunInv
<1>13. ReceiptInv'
  <2>1. h.response # "absent"
    BY <1>2, CommandRecoveryAssumption
  <2> QED
    BY <1>1, <1>6, <1>7, <1>8, <2>1 DEF IInv, ReceiptInv
<1>14. TruthInv'
  <2>1. \A d \in Command : \A x : Truthful(d, x) => Truthful(d, x)'
    BY <1>1, <1>7, <1>8 DEF Truthful
  <2>2. Truthful(c, h.response) /\ Truthful(c, r)
    BY <1>2, <1>9, CommandRecoveryAssumption DEF Truthful
  <2>3. \A d \in Command : Truthful(d, file.meaning[d])'
    BY <1>6, <2>1, <2>2 DEF IInv, TruthInv
  <2>4. ASSUME NEW m \in replies'
        PROVE  Truthful(m.command, m.response)' /\ Owner[m.command] \in linked
               /\ pending[m.command] # "unsent"
    <3>1. CASE m \in replies
      <4>1. m.command \in Command
        BY <3>1 DEF IInv, TypeOK
      <4> QED
        BY <4>1, <3>1, <2>1 DEF IInv, TruthInv
    <3>2. CASE m = [command |-> c, response |-> r] /\ Owner[c] \in linked
      BY <3>2, <1>2, <2>1, <2>2
    <3> QED
      BY <1>9, <3>1, <3>2
  <2> QED
    BY <1>1, <2>1, <2>3, <2>4 DEF IInv, TruthInv
<1> QED
  BY <1>10, <1>11, <1>12, <1>13, <1>14 DEF IInv

-----------------------------------------------------------------------------
(* DaemonClient.                                                           *)

\* A line appended to a wire is its last.
LEMMA AppendLine ==
  ASSUME NEW s \in Seq(Line), NEW line \in Line
  PROVE  /\ Append(s, line) \in Seq(Line)
         /\ \A k \in DOMAIN s : k \in Nat /\ k < Len(s) + 1
         /\ \A k \in DOMAIN Append(s, line) :
              \/ k \in DOMAIN s /\ Append(s, line)[k] = s[k]
              \/ k = Len(s) + 1 /\ Append(s, line)[k] = line
OBVIOUS

\* A step of a client leaves the journal and the runs as they are.
LEMMA ClientStep ==
  ASSUME IInv, UNCHANGED <<serverVars, file, history>>
  PROVE  /\ JournalInv' /\ RunInv'
         /\ \A c \in Command : Started(c)' <=> Started(c)
BY DEF IInv, JournalInv, RunInv, Started, serverVars, history

\* The first copy of a command.
LEMMA RequestInv ==
  ASSUME IInv, NEW c \in Command, Request(c)
  PROVE  IInv'
<1> USE DEF Request, serverVars, history, bounds
<1>1. /\ wire \in [Command -> Seq(Line)] /\ socket \in [Client -> Nat]
      /\ pending \in [Command -> {"unsent", "waiting", "reconnect", "done", "abandoned"}]
      /\ CommandLine(c) \in Line /\ Owner[c] \in Client
  BY CommandRecoveryAssumption DEF IInv, TypeOK, CommandLine, Line
<1>2. wire[c] \in Seq(Line) /\ wire'[c] = Append(wire[c], CommandLine(c))
  BY <1>1
<1>3. up /\ ~Started(c) /\ DOMAIN wire[c] = {} /\ \A m \in replies : m.command # c
  BY DEF IInv, DownInv, ReceiptInv, WireInv, TruthInv
<1>4. wire' \in [Command -> Seq(Line)]
  BY <1>1, <1>2, AppendLine
<1>5. \A k \in DOMAIN wire'[c] : k = Len(wire[c]) + 1 /\ wire'[c][k] = CommandLine(c)
  BY <1>1, <1>2, <1>3, AppendLine
<1>6. JournalInv' /\ RunInv' /\ \A d \in Command : Started(d)' <=> Started(d)
  BY ClientStep
<1>7. TypeOK'
  BY <1>1, <1>4 DEF IInv, TypeOK
<1>8. DownInv'
  BY <1>3 DEF DownInv
<1>9. WireInv'
  <2> SUFFICES ASSUME NEW d \in Command
               PROVE  /\ \A m, n \in DOMAIN wire'[d] :
                           m < n => IF wire'[d][m].type = "ack_result" THEN wire'[d][n].type = "ack_result"
                                    ELSE wire'[d][n].type = "command" => wire'[d][m].socket < wire'[d][n].socket
                      /\ \A m \in DOMAIN wire'[d] :
                           /\ wire'[d][m].type = "ack_result" => pending'[d] = "done"
                           /\ wire'[d][m].socket <= socket[Owner[d]]
                           /\ pending'[d] # "unsent"
    BY DEF WireInv
  <2>1. CASE d = c
    <3>1. Len(wire[c]) \in Nat /\ socket[Owner[c]] \in Nat
      BY <1>1, <1>2
    <3> QED
      BY <2>1, <3>1, <1>1, <1>5 DEF CommandLine
  <2>2. CASE d # c
    BY <2>2, <1>1 DEF IInv, WireInv
  <2> QED
    BY <2>1, <2>2
<1>10. \A d \in Command : d # c => (NoCommandLine(d)' <=> NoCommandLine(d))
  BY <1>1 DEF NoCommandLine
<1>11. ReceiptInv'
  BY <1>1, <1>3, <1>6, <1>10 DEF IInv, ReceiptInv
<1>12. TruthInv'
  <2>1. \A d \in Command : \A x : d # c /\ Truthful(d, x) => Truthful(d, x)'
    BY <1>6, <1>10 DEF Truthful
  <2>2. \A x : x # "rejected" /\ Truthful(c, x) => Truthful(c, x)'
    BY DEF Truthful
  <2>3. answer[c] # "rejected" /\ file.meaning[c] # "rejected"
    BY CommandRecoveryAssumption DEF IInv, TruthInv, TypeOK, File, Entry
  <2>4. \A d \in Command : Truthful(d, file.meaning[d])' /\ Truthful(d, answer[d])'
    BY <2>1, <2>2, <2>3 DEF IInv, TruthInv
  <2>5. \A m \in replies : m.command \in Command
    BY DEF IInv, TypeOK
  <2> QED
    BY <1>1, <1>3, <2>1, <2>4, <2>5 DEF IInv, TruthInv
<1> QED
  BY <1>6, <1>7, <1>8, <1>9, <1>11, <1>12 DEF IInv

\* A request that is given up sends nothing any more.
LEMMA GiveUpInv ==
  ASSUME IInv,
         UNCHANGED <<answer, linked, socket, wire, replies, serverVars, file, history, bounds>>,
         pending' \in [Command -> {"unsent", "waiting", "reconnect", "done", "abandoned"}],
         \A c \in Command :
           pending'[c] # pending[c] => pending[c] \notin {"unsent", "done"} /\ pending'[c] = "abandoned"
  PROVE  IInv'
<1> USE DEF serverVars, history, bounds
<1>1. JournalInv' /\ RunInv' /\ \A d \in Command : Started(d)' <=> Started(d)
  BY ClientStep
<1>2. \A d \in Command : NoCommandLine(d)' <=> NoCommandLine(d)
  BY DEF NoCommandLine
<1>3. TypeOK' /\ DownInv'
  BY DEF IInv, TypeOK, DownInv
<1>4. WireInv' /\ ReceiptInv'
  BY <1>1, <1>2 DEF IInv, WireInv, ReceiptInv
<1>5. TruthInv'
  <2>1. \A d \in Command : \A x : Truthful(d, x)' <=> Truthful(d, x)
    BY <1>1, <1>2 DEF Truthful
  <2>2. \A m \in replies : m.command \in Command
    BY DEF IInv, TypeOK
  <2> QED
    BY <2>1, <2>2 DEF IInv, TruthInv
<1> QED
  BY <1>1, <1>3, <1>4, <1>5 DEF IInv

\* The answer is kept and its acknowledgement is the last line.
LEMMA ReceiveInv ==
  ASSUME IInv, NEW c \in Command, Receive(c)
  PROVE  IInv'
<1> USE DEF serverVars, history, bounds
<1>1. PICK m \in replies :
        /\ m.command = c
        /\ replies' = replies \ {m}
        /\ \/ /\ pending[c] = "waiting"
              /\ pending' = [pending EXCEPT ![c] = "done"]
              /\ answer' = [answer EXCEPT ![c] = m.response]
              /\ wire' = [wire EXCEPT ![c] = Append(@, AckLine(c))]
           \/ UNCHANGED <<pending, answer, wire>>
        /\ UNCHANGED <<linked, socket, serverVars, file, history, bounds>>
  BY DEF Receive
<1>2. /\ wire \in [Command -> Seq(Line)] /\ socket \in [Client -> Nat]
      /\ pending \in [Command -> {"unsent", "waiting", "reconnect", "done", "abandoned"}]
      /\ answer \in [Command -> Answer]
      /\ AckLine(c) \in Line /\ Owner[c] \in Client /\ m.response \in Answer
      /\ Truthful(c, m.response)
  BY <1>1, CommandRecoveryAssumption DEF IInv, TypeOK, AckLine, Line, TruthInv
<1>3. JournalInv' /\ RunInv' /\ \A d \in Command : Started(d)' <=> Started(d)
  BY <1>1, ClientStep
<1>4. up
  BY <1>1 DEF IInv, DownInv
<1>5. CASE UNCHANGED <<pending, answer, wire>>
  <2>1. \A d \in Command : NoCommandLine(d)' <=> NoCommandLine(d)
    BY <1>5 DEF NoCommandLine
  <2>2. TypeOK' /\ DownInv' /\ WireInv' /\ ReceiptInv'
    BY <1>1, <1>3, <1>4, <1>5, <2>1 DEF IInv, TypeOK, DownInv, WireInv, ReceiptInv
  <2>3. \A d \in Command : \A x : Truthful(d, x)' <=> Truthful(d, x)
    BY <1>1, <1>3, <2>1 DEF Truthful
  <2>4. \A x \in replies : x.command \in Command
    BY DEF IInv, TypeOK
  <2>5. TruthInv'
    BY <1>1, <1>5, <2>3, <2>4 DEF IInv, TruthInv
  <2> QED
    BY <1>3, <2>2, <2>5 DEF IInv
<1>6. CASE /\ pending[c] = "waiting"
           /\ pending' = [pending EXCEPT ![c] = "done"]
           /\ answer' = [answer EXCEPT ![c] = m.response]
           /\ wire' = [wire EXCEPT ![c] = Append(@, AckLine(c))]
  <2>1. wire[c] \in Seq(Line) /\ wire'[c] = Append(wire[c], AckLine(c))
        /\ \A d \in Command : d # c => wire'[d] = wire[d]
    BY <1>2, <1>6
  <2>2. wire' \in [Command -> Seq(Line)]
    BY <1>2, <1>6, <2>1, AppendLine
  <2>3. /\ \A k \in DOMAIN wire[c] : k \in Nat /\ k < Len(wire[c]) + 1
        /\ \A k \in DOMAIN wire'[c] :
             \/ k \in DOMAIN wire[c] /\ wire'[c][k] = wire[c][k]
             \/ k = Len(wire[c]) + 1 /\ wire'[c][k] = AckLine(c)
    BY <1>2, <2>1, AppendLine
  <2>4. \A d \in Command : NoCommandLine(d) => NoCommandLine(d)'
    BY <2>1, <2>3 DEF NoCommandLine, AckLine
  <2>5. TypeOK' /\ DownInv'
    BY <1>1, <1>2, <1>4, <1>6, <2>2 DEF IInv, TypeOK, DownInv
  <2>6. WireInv'
    <3> SUFFICES ASSUME NEW d \in Command
               PROVE  /\ \A i, j \in DOMAIN wire'[d] :
                           i < j => IF wire'[d][i].type = "ack_result" THEN wire'[d][j].type = "ack_result"
                                    ELSE wire'[d][j].type = "command" => wire'[d][i].socket < wire'[d][j].socket
                      /\ \A i \in DOMAIN wire'[d] :
                           /\ wire'[d][i].type = "ack_result" => pending'[d] = "done"
                           /\ wire'[d][i].socket <= socket'[Owner[d]]
                           /\ pending'[d] # "unsent"
      BY DEF WireInv
    <3>1. CASE d = c
      <4>1. Len(wire[c]) \in Nat /\ socket[Owner[c]] \in Nat
        BY <1>2, <2>1
      <4>2. AckLine(c).type = "ack_result" /\ AckLine(c).socket = socket[Owner[c]]
        BY DEF AckLine
      <4>3. pending'[c] = "done" /\ socket' = socket
        BY <1>1, <1>2, <1>6
      <4>4. \A i, j \in DOMAIN wire'[c] : i < j => i \in DOMAIN wire[c] /\ wire'[c][i] = wire[c][i]
        BY <2>3, <4>1
      <4>5. WireInv
        BY DEF IInv
      <4>6. \A i \in DOMAIN wire'[c] : wire'[c][i].socket <= socket[Owner[c]]
        BY <2>3, <4>1, <4>2, <4>5 DEF WireInv
      <4>7. \A i, j \in DOMAIN wire'[c] :
               i < j => IF wire'[c][i].type = "ack_result" THEN wire'[c][j].type = "ack_result"
                        ELSE wire'[c][j].type = "command" => wire'[c][i].socket < wire'[c][j].socket
        BY <2>3, <4>2, <4>4, <4>5 DEF WireInv
      <4> QED
        BY <3>1, <4>3, <4>6, <4>7
    <3>2. CASE d # c
      BY <3>2, <1>1, <1>2, <1>6, <2>1 DEF IInv, WireInv
    <3> QED
      BY <3>1, <3>2
  <2>7. ReceiptInv'
    BY <1>1, <1>2, <1>3, <1>6, <2>4 DEF IInv, ReceiptInv
  <2>8. TruthInv'
    <3>1. \A d \in Command : \A x : Truthful(d, x) => Truthful(d, x)'
      BY <1>1, <1>3, <2>4 DEF Truthful
    <3>2. \A d \in Command : Truthful(d, file.meaning[d])' /\ Truthful(d, answer[d])'
      BY <1>1, <1>2, <1>6, <3>1 DEF IInv, TruthInv
    <3>3. \A d \in Command : pending'[d] # "done" => answer'[d] = "none"
      BY <1>2, <1>6 DEF IInv, TruthInv
    <3>4. \A x \in replies' : x \in replies /\ x.command \in Command
      BY <1>1 DEF IInv, TypeOK
    <3>5. \A x \in replies' : Truthful(x.command, x.response)' /\ Owner[x.command] \in linked'
                               /\ pending'[x.command] # "unsent"
      BY <1>1, <1>2, <1>6, <3>1, <3>4 DEF IInv, TruthInv
    <3> QED
      BY <3>2, <3>3, <3>5 DEF TruthInv
  <2> QED
    BY <1>3, <2>5, <2>6, <2>7, <2>8 DEF IInv
<1> QED
  BY <1>1, <1>5, <1>6

\* The copies a reconnection sends come from a later socket than any other.
LEMMA ReconnectInv ==
  ASSUME IInv, NEW cl \in Client, Reconnect(cl)
  PROVE  IInv'
<1> USE DEF serverVars, history, bounds
<1> DEFINE again(c) == Owner[c] = cl /\ pending[c] = "reconnect"
           line == [type |-> "command", socket |-> socket[cl] + 1]
<1>1. /\ up /\ cl \notin linked
      /\ linked' = linked \cup {cl}
      /\ socket' = [socket EXCEPT ![cl] = @ + 1]
      /\ pending' = [c \in Command |-> IF again(c) THEN "waiting" ELSE pending[c]]
      /\ wire' = [c \in Command |-> IF again(c) THEN Append(wire[c], line) ELSE wire[c]]
      /\ UNCHANGED <<answer, replies, serverVars, file, history, bounds>>
  BY DEF Reconnect
<1>2. /\ wire \in [Command -> Seq(Line)] /\ socket \in [Client -> Nat]
      /\ pending \in [Command -> {"unsent", "waiting", "reconnect", "done", "abandoned"}]
      /\ line \in Line /\ Owner \in [Command -> Client]
  BY CommandRecoveryAssumption DEF IInv, TypeOK, Line
<1>3. ASSUME NEW c \in Command, again(c)
      PROVE  /\ wire[c] \in Seq(Line) /\ wire'[c] = Append(wire[c], line)
             /\ Append(wire[c], line) \in Seq(Line)
             /\ \A k \in DOMAIN wire[c] : k \in Nat /\ k < Len(wire[c]) + 1
             /\ \A k \in DOMAIN wire'[c] :
                  \/ k \in DOMAIN wire[c] /\ wire'[c][k] = wire[c][k]
                  \/ k = Len(wire[c]) + 1 /\ wire'[c][k] = line
  BY <1>1, <1>2, <1>3, AppendLine
<1>4. wire' \in [Command -> Seq(Line)]
  BY <1>1, <1>2, <1>3
<1>5. JournalInv' /\ RunInv' /\ \A d \in Command : Started(d)' <=> Started(d)
  BY <1>1, ClientStep
<1>6. TypeOK' /\ DownInv'
  BY <1>1, <1>2, <1>4 DEF IInv, TypeOK, DownInv
<1>7. WireInv'
  <2> SUFFICES ASSUME NEW d \in Command
               PROVE  /\ \A i, j \in DOMAIN wire'[d] :
                           i < j => IF wire'[d][i].type = "ack_result" THEN wire'[d][j].type = "ack_result"
                                    ELSE wire'[d][j].type = "command" => wire'[d][i].socket < wire'[d][j].socket
                      /\ \A i \in DOMAIN wire'[d] :
                           /\ wire'[d][i].type = "ack_result" => pending'[d] = "done"
                           /\ wire'[d][i].socket <= socket'[Owner[d]]
                           /\ pending'[d] # "unsent"
    BY DEF WireInv
  <2>1. WireInv
    BY DEF IInv
  <2>2. \A i \in DOMAIN wire[d] : wire[d][i] \in Line
    BY <1>2, ElementOfSeq
  <2>3. CASE again(d)
    <3>1. \A i \in DOMAIN wire[d] : /\ wire[d][i].type = "command"
                                   /\ wire[d][i].socket \in Nat
                                   /\ wire[d][i].socket < socket[cl] + 1
      <4> SUFFICES ASSUME NEW i \in DOMAIN wire[d]
                   PROVE  /\ wire[d][i].type = "command"
                          /\ wire[d][i].socket \in Nat
                          /\ wire[d][i].socket < socket[cl] + 1
        OBVIOUS
      <4>1. wire[d][i].type # "ack_result" /\ wire[d][i].socket <= socket[cl]
        BY <2>1, <2>3 DEF WireInv
      <4>2. wire[d][i].type \in {"command", "ack_result"} /\ wire[d][i].socket \in Nat
            /\ socket[cl] \in Nat
        BY <2>2, <1>2 DEF Line
      <4> QED
        BY <4>1, <4>2
    <3>2. socket'[Owner[d]] = socket[cl] + 1 /\ socket[cl] \in Nat /\ pending'[d] = "waiting"
          /\ Len(wire[d]) \in Nat
      BY <1>1, <1>2, <2>3
    <3>3. line.type = "command" /\ line.socket = socket[cl] + 1
      OBVIOUS
    <3> HIDE DEF line
    <3>4. \A i \in DOMAIN wire'[d] : /\ wire'[d][i].type = "command"
                                    /\ wire'[d][i].socket <= socket[cl] + 1
      BY <1>3, <2>3, <3>1, <3>2, <3>3
    <3>5. \A i, j \in DOMAIN wire'[d] : i < j => wire'[d][i].socket < wire'[d][j].socket
      <4> SUFFICES ASSUME NEW i \in DOMAIN wire'[d], NEW j \in DOMAIN wire'[d], i < j
                   PROVE  wire'[d][i].socket < wire'[d][j].socket
        OBVIOUS
      <4>1. i \in DOMAIN wire[d] /\ wire'[d][i] = wire[d][i]
        BY <1>3, <2>3, <3>2
      <4>2. CASE j \in DOMAIN wire[d] /\ wire'[d][j] = wire[d][j]
        BY <4>1, <4>2, <2>1, <3>1 DEF WireInv
      <4>3. CASE wire'[d][j] = line
        BY <4>1, <4>3, <3>1, <3>3
      <4> QED
        BY <1>3, <2>3, <4>2, <4>3
    <3> QED
      BY <3>2, <3>4, <3>5
  <2>4. CASE ~again(d)
    <3>1. wire'[d] = wire[d] /\ pending'[d] = pending[d]
      BY <1>1, <2>4
    <3>2. socket'[Owner[d]] \in {socket[Owner[d]], socket[Owner[d]] + 1}
          /\ socket[Owner[d]] \in Nat
      BY <1>1, <1>2
    <3>3. \A i \in DOMAIN wire[d] : wire[d][i].socket \in Nat
      BY <2>2 DEF Line
    <3> QED
      BY <2>1, <3>1, <3>2, <3>3 DEF WireInv
  <2> QED
    BY <2>3, <2>4
<1>8. \A d \in Command : ~again(d) => (NoCommandLine(d)' <=> NoCommandLine(d))
  BY <1>1 DEF NoCommandLine
<1>9. ReceiptInv'
  BY <1>1, <1>5, <1>8 DEF IInv, ReceiptInv
<1>10. TruthInv'
  <2>1. \A d \in Command : \A x : ~again(d) /\ Truthful(d, x) => Truthful(d, x)'
    BY <1>1, <1>5, <1>8 DEF Truthful
  <2>2. \A d \in Command : \A x : x # "rejected" /\ Truthful(d, x) => Truthful(d, x)'
    BY <1>1 DEF Truthful
  <2>3. \A d \in Command : /\ again(d) => answer[d] # "rejected"
                          /\ file.meaning[d] # "rejected"
    BY CommandRecoveryAssumption DEF IInv, TruthInv, TypeOK, File, Entry
  <2>4. \A d \in Command : Truthful(d, file.meaning[d])' /\ Truthful(d, answer[d])'
    BY <1>1, <2>1, <2>2, <2>3 DEF IInv, TruthInv
  <2>5. \A m \in replies : m.command \in Command /\ ~again(m.command)
    BY <1>1 DEF IInv, TypeOK, TruthInv
  <2>6. \A m \in replies : Truthful(m.command, m.response)' /\ Owner[m.command] \in linked'
                           /\ pending'[m.command] # "unsent"
    BY <1>1, <2>1, <2>5 DEF IInv, TruthInv
  <2>7. \A d \in Command : pending'[d] # "done" => answer'[d] = "none"
    BY <1>1 DEF IInv, TruthInv
  <2> QED
    BY <1>1, <2>4, <2>6, <2>7 DEF TruthInv
<1> QED
  BY <1>5, <1>6, <1>7, <1>9, <1>10 DEF IInv

\* A lost socket shortens wires and drops replies.
LEMMA DisconnectInv ==
  ASSUME IInv, NEW cl \in Client, Disconnect(cl)
  PROVE  IInv'
<1> USE DEF serverVars, history
<1>1. PICK kept \in [{c \in Command : Owner[c] = cl} -> 0 .. MaxDrops + 2] :
        /\ \A c \in DOMAIN kept : kept[c] <= Len(wire[c])
        /\ wire' = [c \in Command |->
             IF c \in DOMAIN kept THEN SubSeq(wire[c], 1, kept[c]) ELSE wire[c]]
  BY DEF Disconnect
<1>2. /\ cl \in linked /\ linked' = linked \ {cl}
      /\ drops < MaxDrops /\ drops' = drops + 1
      /\ pending' = [c \in Command |-> IF Owner[c] \in {cl} /\ pending[c] = "waiting"
                                       THEN "reconnect" ELSE pending[c]]
      /\ replies' = {m \in replies : Owner[m.command] # cl}
      /\ UNCHANGED <<answer, socket, serverVars, file, history, crashes>>
  BY DEF Disconnect, Preserved
<1>3. /\ wire \in [Command -> Seq(Line)] /\ up
      /\ pending \in [Command -> {"unsent", "waiting", "reconnect", "done", "abandoned"}]
  BY <1>2 DEF IInv, TypeOK, DownInv
<1>4. ASSUME NEW c \in Command
      PROVE  /\ wire'[c] \in Seq(Line)
             /\ \A k \in DOMAIN wire'[c] : k \in DOMAIN wire[c] /\ wire'[c][k] = wire[c][k]
  <2>1. CASE c \in DOMAIN kept
    <3>1. PICK n \in Nat : n = kept[c] /\ n <= Len(wire[c])
      BY <2>1, <1>1, CommandRecoveryAssumption
    <3>2. wire'[c] = SubSeq(wire[c], 1, n) /\ wire[c] \in Seq(Line) /\ Len(wire[c]) \in Nat
          /\ DOMAIN wire[c] = 1 .. Len(wire[c])
      BY <1>1, <1>3, <2>1, <3>1
    <3>3. \A i \in 1 .. n : wire[c][i] \in Line
      BY <3>1, <3>2, ElementOfSeq
    <3>4. /\ wire'[c] \in Seq(Line)
          /\ Len(wire'[c]) = (IF 1 <= n THEN n - 1 + 1 ELSE 0)
          /\ \A i \in 1 .. n - 1 + 1 : wire'[c][i] = wire[c][1 + i - 1]
      BY <3>2, <3>3, SubSeqProperties
    <3>5. DOMAIN wire'[c] = 1 .. n
      BY <3>4
    <3> QED
      BY <3>1, <3>2, <3>4, <3>5
  <2>2. CASE c \notin DOMAIN kept
    BY <2>2, <1>1, <1>3
  <2> QED
    BY <2>1, <2>2
<1>5. JournalInv' /\ RunInv' /\ \A d \in Command : Started(d)' <=> Started(d)
  BY <1>2, ClientStep
<1>6. \A d \in Command : NoCommandLine(d) => NoCommandLine(d)'
  BY <1>4 DEF NoCommandLine
<1>7. \A d \in Command : /\ (pending'[d] = "done" <=> pending[d] = "done")
                        /\ (pending'[d] = "unsent" <=> pending[d] = "unsent")
  BY <1>2, <1>3
<1>8. TypeOK'
  <2>1. wire' \in [Command -> Seq(Line)]
    BY <1>1, <1>4
  <2>2. drops' \in 0 .. MaxDrops
    BY <1>2, CommandRecoveryAssumption DEF IInv, TypeOK
  <2> QED
    BY <1>2, <1>3, <2>1, <2>2 DEF IInv, TypeOK
<1>9. DownInv'
  BY <1>2, <1>3 DEF DownInv
<1>10. WireInv'
  <2> SUFFICES ASSUME NEW d \in Command
               PROVE  /\ \A i, j \in DOMAIN wire'[d] :
                           i < j => IF wire'[d][i].type = "ack_result" THEN wire'[d][j].type = "ack_result"
                                    ELSE wire'[d][j].type = "command" => wire'[d][i].socket < wire'[d][j].socket
                      /\ \A i \in DOMAIN wire'[d] :
                           /\ wire'[d][i].type = "ack_result" => pending'[d] = "done"
                           /\ wire'[d][i].socket <= socket'[Owner[d]]
                           /\ pending'[d] # "unsent"
    BY DEF WireInv
  <2>1. WireInv /\ socket' = socket
    BY <1>2 DEF IInv
  <2> QED
    BY <2>1, <1>4, <1>7 DEF WireInv
<1>11. ReceiptInv'
  BY <1>2, <1>5, <1>6, <1>7 DEF IInv, ReceiptInv
<1>12. TruthInv'
  <2>1. \A d \in Command : \A x : Truthful(d, x) => Truthful(d, x)'
    BY <1>2, <1>5, <1>6 DEF Truthful
  <2>2. \A m \in replies' : m \in replies /\ m.command \in Command /\ Owner[m.command] # cl
    BY <1>2 DEF IInv, TypeOK
  <2>3. \A m \in replies' : Truthful(m.command, m.response)' /\ Owner[m.command] \in linked'
                           /\ pending'[m.command] # "unsent"
    BY <1>2, <1>7, <2>1, <2>2 DEF IInv, TruthInv
  <2>4. \A d \in Command : Truthful(d, file.meaning[d])' /\ Truthful(d, answer[d])'
    BY <1>2, <2>1 DEF IInv, TruthInv
  <2> QED
    BY <1>2, <1>7, <2>3, <2>4 DEF IInv, TruthInv
<1> QED
  BY <1>5, <1>8, <1>9, <1>10, <1>11, <1>12 DEF IInv

-----------------------------------------------------------------------------
(* The process.                                                            *)

\* The flags of the process are not what the invariant is about.
LEMMA FlagInv ==
  ASSUME IInv,
         UNCHANGED <<clientVars, wire, replies, up, entries, recordCount, running, file, history, bounds>>,
         owned' \in BOOLEAN, restarting' \in BOOLEAN
  PROVE  IInv'
<1> USE DEF clientVars, history, bounds
<1>1. \A d \in Command : /\ (NoCommandLine(d)' <=> NoCommandLine(d))
                        /\ (Started(d)' <=> Started(d))
  BY DEF NoCommandLine, Started
<1>2. \A d \in Command : \A x : Truthful(d, x)' <=> Truthful(d, x)
  BY <1>1 DEF Truthful
<1>3. TypeOK' /\ JournalInv' /\ DownInv' /\ WireInv' /\ RunInv'
  BY DEF IInv, TypeOK, JournalInv, DownInv, WireInv, RunInv
<1>4. ReceiptInv'
  BY <1>1 DEF IInv, ReceiptInv
<1>5. TruthInv'
  <2>1. \A x \in replies : x.command \in Command
    BY DEF IInv, TypeOK
  <2> QED
    BY <1>2, <2>1 DEF IInv, TruthInv
<1> QED
  BY <1>3, <1>4, <1>5 DEF IInv

\* A crash leaves the journal, with or without the record it was appending.
LEMMA CrashInv ==
  ASSUME IInv, AdmitInOrder, ~TornWrites, Crash
  PROVE  IInv'
<1> USE DEF history
<1>1. /\ up /\ crashes < MaxCrashes /\ crashes' = crashes + 1
      /\ up' = FALSE /\ owned' = FALSE /\ restarting' = FALSE
      /\ entries' = Empty /\ recordCount' = 0 /\ running' = {} /\ linked' = {}
      /\ pending' = [c \in Command |-> IF Owner[c] \in Client /\ pending[c] = "waiting"
                                       THEN "reconnect" ELSE pending[c]]
      /\ wire' = [c \in Command |-> <<>>] /\ replies' = {}
      /\ UNCHANGED <<answer, socket, history, drops>>
  BY DEF Crash, Preserved
<1>2. /\ entries \in [Command -> Entry] /\ entries = file.meaning /\ file \in File
      /\ file.tail = NoTail /\ file.lines \in Nat
      /\ wire \in [Command -> Seq(Line)]
      /\ pending \in [Command -> {"unsent", "waiting", "reconnect", "done", "abandoned"}]
  BY <1>1 DEF IInv, TypeOK, JournalInv, File
<1>3. file' = file \/ \E rec \in Appending : file' = Appended(file, rec)
  BY DEF Crash, CutShort
<1>4. \/ file' = file
      \/ \E c \in Command :
           /\ \A d \in Command : d # c => file'.meaning[d] = file.meaning[d]
           /\ \/ file'.meaning[c] = "pending" /\ ~Started(c)
              \/ file'.meaning[c] = "absent" /\ pending[c] = "done"
              \/ \E h \in running : /\ h.stage = "handled" /\ h.command = c
                                    /\ file'.meaning[c] = h.response
           /\ file' \in File /\ file'.tail = NoTail
  <2> SUFFICES ASSUME NEW rec \in Appending, file' = Appended(file, rec)
               PROVE  \E c \in Command :
        /\ \A d \in Command : d # c => file'.meaning[d] = file.meaning[d]
        /\ \/ file'.meaning[c] = "pending" /\ ~Started(c)
           \/ file'.meaning[c] = "absent" /\ pending[c] = "done"
           \/ \E h \in running : /\ h.stage = "handled" /\ h.command = c
                                 /\ file'.meaning[c] = h.response
        /\ file' \in File /\ file'.tail = NoTail
    BY <1>3
  <2>1. file' = [meaning |-> Replay(file.meaning, rec), lines |-> file.lines + 1, tail |-> NoTail]
    BY <1>2 DEF Appended
  <2>2. ASSUME Replay(file.meaning, rec) \in [Command -> Entry]
        PROVE  file' \in File /\ file'.tail = NoTail /\ file'.meaning = Replay(file.meaning, rec)
    BY <1>2, <2>1, <2>2 DEF File, LastLine
  <2>3. CASE \E c \in Command : /\ rec = Received(c) /\ entries[c] = "absent"
                              /\ \E i \in Admissible(c) : wire[c][i].type = "command"
    <3>1. PICK c \in Command : /\ rec = Received(c) /\ entries[c] = "absent"
                             /\ \E i \in Admissible(c) : wire[c][i].type = "command"
      BY <2>3
    <3>2. ~Started(c)
      BY <1>2, <3>1 DEF IInv, ReceiptInv, NoCommandLine, Admissible
    <3>3. Replay(file.meaning, rec) = [file.meaning EXCEPT ![c] = "pending"]
      BY <3>1 DEF Replay, Received
    <3> QED
      BY <1>2, <2>2, <3>2, <3>3 DEF Entry
  <2>4. CASE \E c \in Command : /\ rec = Acknowledged(c)
                              /\ \E i \in Admissible(c) : wire[c][i].type = "ack_result"
    <3>1. PICK c \in Command : /\ rec = Acknowledged(c)
                             /\ \E i \in Admissible(c) : wire[c][i].type = "ack_result"
      BY <2>4
    <3>2. pending[c] = "done"
      BY <3>1 DEF IInv, WireInv, Admissible
    <3>3. Replay(file.meaning, rec) = [file.meaning EXCEPT ![c] = "absent"]
      BY <3>1 DEF Replay, Acknowledged
    <3> QED
      BY <1>2, <2>2, <3>2, <3>3 DEF Entry
  <2>5. CASE \E h \in running : /\ rec = Result(h.command, h.response) /\ h.stage = "handled"
                              /\ entries[h.command] # "absent"
    <3>1. PICK h \in running : /\ rec = Result(h.command, h.response) /\ h.stage = "handled"
                             /\ entries[h.command] # "absent"
      BY <2>5
    <3>2. h.command \in Command /\ h.response \in Response
      BY <3>1 DEF IInv, TypeOK, Activation, RunInv
    <3>3. Replay(file.meaning, rec) = [file.meaning EXCEPT ![h.command] = h.response]
      BY <1>2, <3>1, <3>2 DEF Replay, Result
    <3> QED
      <4>1. file'.meaning = [file.meaning EXCEPT ![h.command] = h.response]
            /\ file' \in File /\ file'.tail = NoTail
        BY <1>2, <2>2, <3>2, <3>3 DEF Entry
      <4>2. \A d \in Command : d # h.command => file'.meaning[d] = file.meaning[d]
        BY <1>2, <4>1
      <4>3. file'.meaning[h.command] = h.response /\ h.stage = "handled" /\ h \in running
        BY <1>2, <3>1, <3>2, <4>1
      <4> QED
        BY <3>2, <4>1, <4>2, <4>3
  <2> QED
    BY <2>3, <2>4, <2>5 DEF Appending
<1>5. \A d \in Command :
        \/ file'.meaning[d] = file.meaning[d]
        \/ file'.meaning[d] = "pending" /\ ~Started(d)
        \/ file'.meaning[d] = "absent" /\ pending[d] = "done"
        \/ \E h \in running : /\ h.stage = "handled" /\ h.command = d
                              /\ file'.meaning[d] = h.response
  BY <1>4
<1>6. file' \in File /\ file'.tail = NoTail
  BY <1>2, <1>4
<1>7. \A d \in Command : Started(d)' => Started(d)
  BY <1>1 DEF Started
<1>8. \A d \in Command : /\ NoCommandLine(d)'
                        /\ (pending'[d] = "done" <=> pending[d] = "done")
                        /\ (pending'[d] = "unsent" <=> pending[d] = "unsent")
  BY <1>1, <1>2 DEF NoCommandLine
<1>9. TypeOK'
  <2>1. crashes' \in 0 .. MaxCrashes
    BY <1>1, CommandRecoveryAssumption DEF IInv, TypeOK
  <2>2. Empty \in [Command -> Entry]
    BY DEF Empty, Entry
  <2>3. pending' \in [Command -> {"unsent", "waiting", "reconnect", "done", "abandoned"}]
        /\ wire' \in [Command -> Seq(Line)]
    BY <1>1, <1>2
  <2> QED
    BY <1>1, <1>6, <2>1, <2>2, <2>3 DEF IInv, TypeOK
<1>10. JournalInv' /\ DownInv' /\ RunInv'
  BY <1>1, <1>6 DEF IInv, JournalInv, DownInv, RunInv
<1>11. WireInv'
  BY <1>1 DEF WireInv
<1>12. ReceiptInv'
  <2> SUFFICES ASSUME NEW d \in Command, Started(d)'
               PROVE  /\ pending'[d] # "unsent"
                      /\ file'.meaning[d] # "absent" \/ pending'[d] = "done"
    BY <1>8 DEF ReceiptInv
  <2>1. /\ pending[d] # "unsent"
        /\ file.meaning[d] # "absent" \/ pending[d] = "done"
    BY <1>7 DEF IInv, ReceiptInv
  <2>2. \A h \in running : h.stage = "handled" => h.response # "absent"
    BY CommandRecoveryAssumption DEF IInv, RunInv
  <2> QED
    BY <1>5, <1>7, <1>8, <2>1, <2>2
<1>13. TruthInv'
  <2>1. \A d \in Command : \A x : Truthful(d, x) => Truthful(d, x)'
    BY <1>1, <1>7, <1>8 DEF Truthful
  <2>2. \A d \in Command : Truthful(d, "pending") /\ Truthful(d, "absent")
    BY CommandRecoveryAssumption DEF Truthful
  <2>3. \A h \in running : h.stage = "handled" => Truthful(h.command, h.response)
    BY CommandRecoveryAssumption DEF IInv, RunInv, Truthful
  <2>4. \A d \in Command : Truthful(d, file.meaning[d])'
    BY <1>5, <2>1, <2>2, <2>3 DEF IInv, TruthInv
  <2> QED
    BY <1>1, <1>8, <2>1, <2>4 DEF IInv, TruthInv
<1> QED
  BY <1>9, <1>10, <1>11, <1>12, <1>13 DEF IInv

\* The next process reads back what the file says.
LEMMA StartInv ==
  ASSUME IInv, Start
  PROVE  IInv'
<1> USE DEF Start, clientVars, history, bounds
<1>1. file \in File /\ file.tail = NoTail
  BY DEF IInv, TypeOK, JournalInv
<1>2. entries' = file.meaning /\ recordCount' = file.lines
  BY <1>1 DEF Loaded, LoadedCount
<1>3. \A d \in Command : /\ (NoCommandLine(d)' <=> NoCommandLine(d))
                        /\ (Started(d)' <=> Started(d))
  BY DEF NoCommandLine, Started
<1>4. \A d \in Command : \A x : Truthful(d, x)' <=> Truthful(d, x)
  BY <1>3 DEF Truthful
<1>5. TypeOK'
  BY <1>1, <1>2 DEF IInv, TypeOK, File
<1>6. JournalInv' /\ DownInv' /\ WireInv' /\ RunInv'
  BY <1>1, <1>2 DEF IInv, JournalInv, DownInv, WireInv, RunInv
<1>7. ReceiptInv'
  BY <1>3 DEF IInv, ReceiptInv
<1>8. TruthInv'
  <2>1. \A x \in replies : x.command \in Command
    BY DEF IInv, TypeOK
  <2> QED
    BY <1>4, <2>1 DEF IInv, TruthInv
<1> QED
  BY <1>5, <1>6, <1>7, <1>8 DEF IInv

-----------------------------------------------------------------------------
(* The theorems.                                                           *)

\* Every step preserves the inductive invariant.
LEMMA NextIInv ==
  ASSUME IInv, AdmitInOrder, ~TornWrites, [Next]_vars
  PROVE  IInv'
<1>1. ASSUME NEW c \in Command, Request(c) PROVE IInv'
  BY <1>1, RequestInv
<1>2. ASSUME NEW c \in Command, Timeout(c) PROVE IInv'
  BY <1>2, GiveUpInv DEF Timeout, IInv, TypeOK
<1>3. ASSUME NEW c \in Command, Receive(c) PROVE IInv'
  BY <1>3, ReceiveInv
<1>4. ASSUME NEW c \in Command, Handle(c) PROVE IInv'
  BY <1>4, RefuseStaleInv, AnswerFromJournalInv, RejectRestartingInv, BeginInv, AcknowledgeInv
     DEF Handle
<1>5. ASSUME NEW cl \in Client, GiveUp(cl) PROVE IInv'
  BY <1>5, GiveUpInv DEF GiveUp, IInv, TypeOK
<1>6. ASSUME NEW cl \in Client, Reconnect(cl) PROVE IInv'
  BY <1>6, ReconnectInv
<1>7. ASSUME NEW cl \in Client, Disconnect(cl) PROVE IInv'
  BY <1>7, DisconnectInv
<1>8. ASSUME NEW h \in running, Dispatch(h) PROVE IInv'
  BY <1>8, DispatchInv
<1>9. ASSUME NEW h \in running, Finish(h) PROVE IInv'
  BY <1>9, FinishInv
<1>10. CASE TurnRestart
  BY <1>10, FlagInv DEF TurnRestart, IInv, TypeOK
<1>11. CASE LoseOwnership
  BY <1>11, FlagInv DEF LoseOwnership, IInv, TypeOK
<1>12. CASE Crash
  BY <1>12, CrashInv
<1>13. CASE Start
  BY <1>13, StartInv
<1>14. CASE UNCHANGED vars
  BY <1>14, FlagInv DEF vars, serverVars, IInv, TypeOK
<1> QED
  BY <1>1, <1>2, <1>3, <1>4, <1>5, <1>6, <1>7, <1>8, <1>9, <1>10, <1>11, <1>12, <1>13, <1>14
     DEF Next

\* IInv holds in every reachable state.
THEOREM Invariance ==
  ASSUME AdmitInOrder, ~TornWrites
  PROVE  Spec => []IInv
<1>1. IInv /\ [Next]_vars => IInv'
  BY NextIInv
<1> QED
  BY InitIInv, <1>1, PTL DEF Spec

\* A command takes effect at most once (command-recovery-journal.ts:48-52).
THEOREM RunsAtMostOnce ==
  ASSUME AdmitInOrder, ~TornWrites
  PROVE  Spec => []AtMostOnce
<1>1. IInv => AtMostOnce
  BY DEF IInv, RunInv, AtMostOnce
<1> QED
  BY Invariance, <1>1, PTL

\* A reported result is the result of the run; a command reported as
\* rejected has not run.
THEOREM AnswersAreTruthful ==
  ASSUME AdmitInOrder, ~TornWrites
  PROVE  Spec => []AnswerTruthful
<1>1. IInv => AnswerTruthful
  BY DEF IInv, TruthInv, Truthful, AnswerTruthful, Started, TypeOK
<1> QED
  BY Invariance, <1>1, PTL

\* The memory of a running supervisor is what its file says.
THEOREM MemoryIsOnDisk ==
  ASSUME AdmitInOrder, ~TornWrites
  PROVE  Spec => []MemoryOnDisk
<1>1. IInv => MemoryOnDisk
  BY DEF IInv, JournalInv, MemoryOnDisk, Loaded, LoadedCount
<1> QED
  BY Invariance, <1>1, PTL

\* The supervisor, its journal and its clients implement CommandOnce.
THEOREM Refinement ==
  ASSUME AdmitInOrder, ~TornWrites
  PROVE  Spec => ImplementsOnce
<1>1. Init => Once!Init
  BY DEF Init, Once!Init
<1>2. IInv /\ [Next]_vars => [Once!Next]_(Once!vars)
  <2> SUFFICES ASSUME IInv, [Next]_vars PROVE [Once!Next]_(Once!vars)
    OBVIOUS
  <2>1. ASSUME NEW c \in Command, Receive(c) PROVE Once!Tell(c) \/ UNCHANGED Once!vars
    <3>1. PICK m \in replies :
            /\ m.command = c
            /\ \/ pending[c] = "waiting" /\ answer' = [answer EXCEPT ![c] = m.response]
               \/ UNCHANGED answer
            /\ UNCHANGED <<executed, outcome>>
      BY <2>1 DEF Receive, history
    <3>2. CASE UNCHANGED answer
      BY <3>1, <3>2 DEF Once!vars
    <3>3. CASE pending[c] = "waiting" /\ answer' = [answer EXCEPT ![c] = m.response]
      <4>1. answer[c] = "none" /\ Truthful(c, m.response) /\ m.response \in Answer \ {"none"}
        BY <3>1, <3>3 DEF IInv, TruthInv, TypeOK
      <4>2. m.response \in Once!Allowed(c)
        BY <4>1, CommandRecoveryAssumption DEF Once!Allowed, Truthful, Answer, Started, IInv, TypeOK
      <4> QED
        BY <3>1, <3>3, <4>1, <4>2 DEF Once!Tell
    <3> QED
      BY <3>1, <3>2, <3>3
  <2>2. ASSUME NEW h \in running, Dispatch(h) PROVE Once!Run(h.command) /\ h.command \in Command
    <3>1. h.command \in Command /\ executed[h.command] = 0 /\ Started(h.command)
      BY <2>2 DEF Dispatch, IInv, RunInv, TypeOK, Activation, Started
    <3>2. answer[h.command] # "rejected"
      BY <3>1 DEF IInv, TruthInv, Truthful
    <3>3. /\ executed' = [executed EXCEPT ![h.command] = @ + 1] /\ UNCHANGED answer
          /\ \E r \in Response : outcome' = [outcome EXCEPT ![h.command] = r]
      BY <2>2 DEF Dispatch, clientVars
    <3>4. executed' = [executed EXCEPT ![h.command] = 1]
      <4>1. executed[h.command] + 1 = 1
        BY <3>1
      <4> QED
        BY <3>3, <4>1
    <3> QED
      BY <3>1, <3>2, <3>3, <3>4 DEF Once!Run
  <2>3. ASSUME \/ \E c \in Command : Request(c) \/ Timeout(c) \/ Handle(c)
               \/ \E cl \in Client : GiveUp(cl) \/ Reconnect(cl) \/ Disconnect(cl)
               \/ \E h \in running : Finish(h)
               \/ TurnRestart \/ LoseOwnership \/ Crash \/ Start \/ UNCHANGED vars
        PROVE  UNCHANGED Once!vars
    BY <2>3 DEF Once!vars, Request, Timeout, Handle, RefuseStale, AnswerFromJournal,
       RejectRestarting, Begin, Acknowledge, GiveUp, Reconnect, Disconnect, Finish, TurnRestart,
       LoseOwnership, Crash, Start, vars, history, clientVars
  <2> QED
    BY <2>1, <2>2, <2>3 DEF Next, Once!Next
<1> QED
  BY <1>1, <1>2, Invariance, PTL DEF Spec, ImplementsOnce, Once!Spec

\* A request is done once it has its answer, which nothing takes away.
Answered == \A c \in Command : pending[c] = "done" => answer[c] # "none"

LEMMA NextAnswered ==
  ASSUME IInv, Answered, [Next]_vars
  PROVE  Answered'
<1> USE DEF Answered
<1>1. /\ pending \in [Command -> {"unsent", "waiting", "reconnect", "done", "abandoned"}]
      /\ answer \in [Command -> Answer]
      /\ \A m \in replies : m.response # "none"
  BY DEF IInv, TypeOK
<1>2. ASSUME NEW c \in Command, Receive(c) PROVE Answered'
  <2>1. PICK m \in replies :
          \/ /\ pending' = [pending EXCEPT ![c] = "done"]
             /\ answer' = [answer EXCEPT ![c] = m.response]
          \/ UNCHANGED <<pending, answer>>
    BY <1>2 DEF Receive
  <2> QED
    BY <1>1, <2>1
<1>3. ASSUME UNCHANGED answer, \A c \in Command : pending'[c] = "done" => pending[c] = "done"
      PROVE  Answered'
  BY <1>3
<1>4. ASSUME \/ \E c \in Command : Request(c) \/ Timeout(c) \/ Handle(c)
             \/ \E cl \in Client : GiveUp(cl) \/ Reconnect(cl) \/ Disconnect(cl)
             \/ \E h \in running : Dispatch(h) \/ Finish(h)
             \/ TurnRestart \/ LoseOwnership \/ Crash \/ Start \/ UNCHANGED vars
      PROVE  UNCHANGED answer /\ \A c \in Command : pending'[c] = "done" => pending[c] = "done"
  BY <1>1, <1>4 DEF Request, Timeout, Handle, RefuseStale, AnswerFromJournal, RejectRestarting,
     Begin, Acknowledge, GiveUp, Reconnect, Disconnect, Dispatch, Finish, TurnRestart,
     LoseOwnership, Crash, Start, Preserved, vars, clientVars
<1> QED
  BY <1>2, <1>3, <1>4 DEF Next

\* Only an acknowledgement takes an entry out of the file, whether it is
\* handled or cut off by a crash.
LEMMA NextForgets ==
  ASSUME IInv, AdmitInOrder, ~TornWrites, [Next]_vars, NEW c \in Command,
         file.meaning[c] # "absent", file'.meaning[c] = "absent"
  PROVE  pending[c] = "done"
<1>1. /\ entries \in [Command -> Entry] /\ file \in File /\ file.tail = NoTail
      /\ up => entries = file.meaning
  BY DEF IInv, TypeOK, JournalInv
<1>2. ASSUME NEW d \in Command, Handle(d) PROVE pending[c] = "done"
  <2>1. CASE Begin(d)
    <3>1. up /\ file' = Appended(file, Received(d))
      BY <2>1 DEF Begin, Admit, Save
    <3>2. file'.meaning = [file.meaning EXCEPT ![d] = "pending"]
      BY <1>1, <3>1 DEF Appended, Replay, Received
    <3> QED
      BY <1>1, <3>2 DEF File
  <2>2. CASE Acknowledge(d)
    <3>1. PICK i \in DOMAIN wire[d] :
            /\ up /\ wire[d][i].type = "ack_result"
            /\ \/ UNCHANGED file
               \/ file' = Compacted([entries EXCEPT ![d] = "absent"])
               \/ file' = Appended(file, Acknowledged(d))
      BY <2>2 DEF Acknowledge, Admit, Save
    <3>2. file'.meaning \in {file.meaning, [file.meaning EXCEPT ![d] = "absent"]}
      BY <1>1, <3>1 DEF Appended, Replay, Acknowledged, Compacted
    <3>3. pending[d] = "done"
      BY <3>1 DEF IInv, WireInv
    <3> QED
      BY <1>1, <3>2, <3>3 DEF File
  <2> QED
    BY <1>2, <2>1, <2>2 DEF Handle, RefuseStale, AnswerFromJournal, RejectRestarting
<1>3. ASSUME NEW h \in running, Finish(h) PROVE FALSE
  <2>1. h.command \in Command /\ h.response \in Response /\ h.stage = "handled" /\ up
    BY <1>3 DEF IInv, TypeOK, Activation, RunInv, DownInv, Finish
  <2>2. \/ UNCHANGED file
        \/ file' = Compacted([entries EXCEPT ![h.command] = h.response])
        \/ file' = Appended(file, Result(h.command, h.response))
    BY <1>3 DEF Finish, Save
  <2>3. file'.meaning \in {file.meaning, [file.meaning EXCEPT ![h.command] = h.response]}
    BY <1>1, <2>1, <2>2, CommandRecoveryAssumption DEF Appended, Replay, Result, Compacted
  <2> QED
    BY <1>1, <2>1, <2>3, CommandRecoveryAssumption DEF File
<1>4. CASE Crash
  <2>1. PICK rec \in Appending : file' = Appended(file, rec)
    BY <1>4 DEF Crash, CutShort
  <2>2. file'.meaning = Replay(file.meaning, rec)
    BY <1>1, <2>1 DEF Appended
  <2>3. CASE \E d \in Command : rec = Received(d)
    BY <1>1, <2>2, <2>3 DEF Received, Replay, File
  <2>4. CASE \E d \in Command : /\ rec = Acknowledged(d)
                                /\ \E i \in Admissible(d) : wire[d][i].type = "ack_result"
    <3>1. PICK d \in Command : /\ rec = Acknowledged(d) /\ pending[d] = "done"
      BY <2>4 DEF IInv, WireInv, Admissible
    <3> QED
      BY <1>1, <2>2, <3>1 DEF Acknowledged, Replay, File
  <2>5. CASE \E h \in running : rec = Result(h.command, h.response) /\ h.stage = "handled"
    <3>1. PICK h \in running : rec = Result(h.command, h.response) /\ h.stage = "handled"
      BY <2>5
    <3>2. h.command \in Command /\ h.response \in Response
      BY <3>1 DEF IInv, TypeOK, Activation, RunInv
    <3>3. file'.meaning \in {file.meaning, [file.meaning EXCEPT ![h.command] = h.response]}
      BY <1>1, <2>2, <3>1, <3>2, CommandRecoveryAssumption DEF Replay, Result
    <3> QED
      BY <1>1, <3>2, <3>3, CommandRecoveryAssumption DEF File
  <2> QED
    BY <2>1, <2>3, <2>4, <2>5 DEF Appending
<1>5. ASSUME UNCHANGED file PROVE FALSE
  BY <1>5
<1>6. ASSUME \/ \E d \in Command : Request(d) \/ Timeout(d) \/ Receive(d)
             \/ \E cl \in Client : GiveUp(cl) \/ Reconnect(cl) \/ Disconnect(cl)
             \/ \E h \in running : Dispatch(h)
             \/ TurnRestart \/ LoseOwnership \/ Start \/ UNCHANGED vars
      PROVE  UNCHANGED file
  BY <1>6 DEF Request, Timeout, Receive, GiveUp, Reconnect, Disconnect, Dispatch, TurnRestart,
     LoseOwnership, Start, vars
<1> QED
  BY <1>2, <1>3, <1>4, <1>5, <1>6 DEF Next

\* A command that has begun stays in the journal until its caller holds an
\* answer: whatever the file would give back is only given up for good once
\* nobody can ask for it again (command-recovery-journal.ts:48-52).
THEOREM ForgetsOnlyAnswered ==
  ASSUME AdmitInOrder, ~TornWrites
  PROVE  Spec => ForgottenOnlyWhenAnswered
<1> DEFINE Forgets == \A c \in Command :
             Loaded(file)[c] # "absent" /\ Loaded(file')[c] = "absent" => answer[c] # "none"
<1>1. Init => Answered
  BY DEF Init, Answered
<1>2. IInv /\ Answered /\ [Next]_vars => Answered'
  BY NextAnswered
<1>3. IInv /\ IInv' /\ Answered /\ [Next]_vars => Forgets
  <2>1. IInv => Loaded(file) = file.meaning
    BY DEF IInv, JournalInv, Loaded
  <2>2. IInv' => Loaded(file') = file'.meaning
    BY DEF IInv, JournalInv, Loaded
  <2> QED
    BY <2>1, <2>2, NextForgets DEF Answered
<1>4. Forgets => [Forgets]_vars
  OBVIOUS
<1>5. Spec => []Answered
  BY <1>1, <1>2, Invariance, PTL DEF Spec
<1> QED
  BY <1>3, <1>4, <1>5, Invariance, PTL DEF Spec, ForgottenOnlyWhenAnswered

=============================================================================
