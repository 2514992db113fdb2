------------------------ MODULE UpdateRestartProofs ------------------------
(***************************************************************************)
(* What holds of an update for every number of workers, inputs,            *)
(* coordinators and faults.                                                *)
(*                                                                         *)
(* UpdateInvariance is the inductive invariant IInv, one lemma per action. *)
(* A first step of each lemma covers the parts the action does not touch.  *)
(***************************************************************************)
EXTENDS UpdateRestart, TLAPS

USE UpdateAssumption DEF inputs, supervisor, workers, coordinator, bounds,
                         InPlace, Queue, AtWork, Active, Resides, Asked, Bound, Put, Idle, Answer,
                         Kept

\* A command that passes the gate is admitted only while nothing is asked of workers.
LEMMA SendKeeps ==
  ASSUME IInv, NEW i \in Input, Send(i)
  PROVE  IInv'
<1> USE DEF IInv
<1>1. Claims' /\ Rounds' /\ Steps'
  BY DEF Send, Rejected, RejectedDraining, Claims, Rounds, Steps
<1>2. TypeOK'
  BY DEF Send, Rejected, RejectedDraining, TypeOK
<1>3. Homes'
  BY DEF Send, Rejected, RejectedDraining, TypeOK, Homes
<1>4. Gate'
  BY DEF Send, Rejected, RejectedDraining, TypeOK, Gate
<1>5. Down'
  BY DEF Send, Rejected, RejectedDraining, TypeOK, Down
<1>6. Manifest'
  BY DEF Send, Rejected, RejectedDraining, TypeOK, Manifest
<1>7. Once'
  BY DEF Send, Rejected, RejectedDraining, TypeOK, Once, Untouched, InUse
<1>8. CheckpointExact'
  BY DEF Send, Rejected, RejectedDraining, TypeOK, CheckpointExact
<1>9. NothingLost'
  BY DEF Send, Rejected, RejectedDraining, TypeOK, NothingLost
<1> QED
  BY <1>1, <1>2, <1>3, <1>4, <1>5, <1>6, <1>7, <1>8, <1>9

\* A worker that is created begins idle and unclaimed.
LEMMA CreateKeeps ==
  ASSUME IInv, NEW i \in Input, Create(i)
  PROVE  IInv'
<1> USE DEF IInv
<1>1. Steps'
  BY DEF Create, Steps
<1>2. TypeOK'
  BY DEF Create, TypeOK
<1>3. Homes'
  BY DEF Create, TypeOK, Homes
<1>4. Claims'
  BY DEF Create, TypeOK, Claims
<1>5. Gate'
  BY DEF Create, TypeOK, Gate
<1>6. Down'
  BY DEF Create, TypeOK, Down
<1>7. Rounds'
  BY DEF Create, TypeOK, Gate, Down, Claims, Manifest, Steps, Rounds
<1>8. Manifest'
  BY DEF Create, TypeOK, Manifest
<1>9. Once'
  BY DEF Create, TypeOK, Once, Untouched, InUse
<1>10. CheckpointExact'
  BY DEF Create, TypeOK, CheckpointExact
<1>11. NothingLost'
  BY DEF Create, TypeOK, NothingLost
<1> QED
  BY <1>1, <1>2, <1>3, <1>4, <1>5, <1>6, <1>7, <1>8, <1>9, <1>10, <1>11

\* A command lands only on a worker that has not fenced.
LEMMA LandKeeps ==
  ASSUME IInv, NEW i \in Input, Land(i)
  PROVE  IInv'
<1> USE DEF IInv
<1>1. Claims' /\ Rounds' /\ Steps'
  BY DEF Land, Claims, Rounds, Steps
<1>2. TypeOK'
  BY DEF Land, TypeOK
<1>3. Homes'
  BY DEF Land, TypeOK, Homes
<1>4. Gate'
  BY DEF Land, TypeOK, Gate
<1>5. Down'
  BY DEF Land, TypeOK, Down
<1>6. Manifest'
  BY DEF Land, TypeOK, Manifest
<1>7. Once'
  BY DEF Land, TypeOK, Once, Untouched, InUse
<1>8. CheckpointExact'
  BY DEF Land, TypeOK, CheckpointExact
<1>9. NothingLost'
  BY DEF Land, TypeOK, NothingLost
<1> QED
  BY <1>1, <1>2, <1>3, <1>4, <1>5, <1>6, <1>7, <1>8, <1>9

\* A job is dispatched only by a worker outside a transaction.
LEMMA FireKeeps ==
  ASSUME IInv, NEW i \in Input, Fire(i)
  PROVE  IInv'
<1> USE DEF IInv
<1>1. Claims' /\ Rounds' /\ Steps'
  BY DEF Fire, FireWhileServing, Claims, Rounds, Steps
<1>2. TypeOK'
  BY DEF Fire, FireWhileServing, TypeOK
<1>3. Homes'
  BY DEF Fire, FireWhileServing, TypeOK, Homes
<1>4. Gate'
  BY DEF Fire, FireWhileServing, TypeOK, Gate
<1>5. Down'
  BY DEF Fire, FireWhileServing, TypeOK, Down
<1>6. Manifest'
  BY DEF Fire, FireWhileServing, TypeOK, Manifest
<1>7. Once'
  BY DEF Fire, FireWhileServing, TypeOK, Once, Untouched, InUse
<1>8. CheckpointExact'
  BY DEF Fire, FireWhileServing, TypeOK, CheckpointExact
<1>9. NothingLost'
  BY DEF Fire, FireWhileServing, TypeOK, NothingLost
<1> QED
  BY <1>1, <1>2, <1>3, <1>4, <1>5, <1>6, <1>7, <1>8, <1>9

\* What is at work becomes part of the queue of a worker that has no checkpoint.
LEMMA FinishKeeps ==
  ASSUME IInv, NEW i \in Input, Finish(i)
  PROVE  IInv'
<1> USE DEF IInv
<1>1. Claims' /\ Rounds' /\ Steps'
  BY DEF Finish, Claims, Rounds, Steps
<1>2. TypeOK'
  BY DEF Finish, TypeOK
<1>3. Homes'
  BY DEF Finish, TypeOK, Homes
<1>4. Gate'
  BY DEF Finish, TypeOK, Gate
<1>5. Down'
  BY DEF Finish, TypeOK, Down
<1>6. Manifest'
  BY DEF Finish, TypeOK, Manifest
<1>7. Once'
  BY DEF Finish, TypeOK, Once, Untouched, InUse
<1>8. CheckpointExact'
  BY DEF Finish, TypeOK, CheckpointExact
<1>9. NothingLost'
  BY DEF Finish, TypeOK, NothingLost
<1> QED
  BY <1>1, <1>2, <1>3, <1>4, <1>5, <1>6, <1>7, <1>8, <1>9

\* What runs is in no checkpoint of the manifest.
LEMMA RunKeeps ==
  ASSUME IInv, NEW i \in Input, Run(i)
  PROVE  IInv'
<1> USE DEF IInv
<1>1. Claims' /\ Rounds' /\ Steps'
  BY DEF Run, Claims, Rounds, Steps
<1>2. TypeOK'
  BY DEF Run, TypeOK
<1>3. Homes'
  BY DEF Run, TypeOK, Homes
<1>4. Gate'
  BY DEF Run, TypeOK, Gate
<1>5. Down'
  BY DEF Run, TypeOK, Down
<1>6. Manifest'
  BY DEF Run, TypeOK, Manifest
<1>7. Once'
  BY DEF Run, TypeOK, Rounds, Manifest, CheckpointExact, Steps, Homes, Down, Once,
       Untouched, InUse
<1>8. CheckpointExact'
  BY DEF Run, TypeOK, CheckpointExact
<1>9. NothingLost'
  BY DEF Run, TypeOK, NothingLost
<1> QED
  BY <1>1, <1>2, <1>3, <1>4, <1>5, <1>6, <1>7, <1>8, <1>9

\* The sweep begins outside an update.
LEMMA SweepBeginKeeps ==
  ASSUME IInv, SweepBegin
  PROVE  IInv'
<1> USE DEF IInv
<1>1. Homes' /\ Claims' /\ Rounds' /\ Steps' /\ Manifest' /\ Once' /\ CheckpointExact' /\ NothingLost'
  BY DEF SweepBegin, Homes, Claims, Rounds, Steps, Manifest, Once, Untouched, InUse,
       CheckpointExact, NothingLost
<1>2. TypeOK'
  BY DEF SweepBegin, TypeOK
<1>3. Gate'
  BY DEF SweepBegin, TypeOK, Gate
<1>4. Down'
  BY DEF SweepBegin, TypeOK, Down
<1> QED
  BY <1>1, <1>2, <1>3, <1>4

\* The sweep releases the commands before the preparation looks.
LEMMA SweepEndKeeps ==
  ASSUME IInv, SweepEnd
  PROVE  IInv'
<1> USE DEF IInv
<1>1. Claims'
  BY DEF SweepEnd, Claims
<1>2. TypeOK'
  BY DEF SweepEnd, TypeOK
<1>3. Homes'
  BY DEF SweepEnd, TypeOK, Homes
<1>4. Gate'
  BY DEF SweepEnd, TypeOK, Gate
<1>5. Down'
  BY DEF SweepEnd, TypeOK, Down
<1>6. Rounds'
  BY DEF SweepEnd, TypeOK, Rounds
<1>7. Steps'
  BY DEF SweepEnd, TypeOK, Steps
<1>8. Manifest'
  BY DEF SweepEnd, TypeOK, Manifest
<1>9. Once'
  BY DEF SweepEnd, TypeOK, Once, Untouched, InUse
<1>10. CheckpointExact'
  BY DEF SweepEnd, TypeOK, CheckpointExact
<1>11. NothingLost'
  BY DEF SweepEnd, TypeOK, NothingLost
<1> QED
  BY <1>1, <1>2, <1>3, <1>4, <1>5, <1>6, <1>7, <1>8, <1>9, <1>10, <1>11

\* The first wait changes the phase only.
LEMMA DrainKeeps ==
  ASSUME IInv, Drain
  PROVE  IInv'
<1> USE DEF IInv
<1>1. Homes' /\ Claims' /\ CheckpointExact' /\ NothingLost'
  BY DEF Drain, Homes, Claims, CheckpointExact, NothingLost
<1>2. TypeOK'
  BY DEF Drain, TypeOK
<1>3. Gate'
  BY DEF Drain, TypeOK, Gate
<1>4. Down'
  BY DEF Drain, TypeOK, Down
<1>5. Rounds'
  BY DEF Drain, TypeOK, Rounds
<1>6. Steps'
  BY DEF Drain, TypeOK, Steps
<1>7. Manifest'
  BY DEF Drain, TypeOK, Manifest
<1>8. Once'
  BY DEF Drain, TypeOK, Once, Untouched, InUse
<1> QED
  BY <1>1, <1>2, <1>3, <1>4, <1>5, <1>6, <1>7, <1>8

\* Nor does the fence change anything else.
LEMMA FenceKeeps ==
  ASSUME IInv, Fence
  PROVE  IInv'
<1> USE DEF IInv
<1>1. Homes' /\ Claims' /\ CheckpointExact' /\ NothingLost'
  BY DEF Fence, Homes, Claims, CheckpointExact, NothingLost
<1>2. TypeOK'
  BY DEF Fence, TypeOK
<1>3. Gate'
  BY DEF Fence, TypeOK, Gate
<1>4. Down'
  BY DEF Fence, TypeOK, Down
<1>5. Rounds'
  BY DEF Fence, TypeOK, Rounds
<1>6. Steps'
  BY DEF Fence, TypeOK, Steps
<1>7. Manifest'
  BY DEF Fence, TypeOK, Manifest
<1>8. Once'
  BY DEF Fence, TypeOK, Once, Untouched, InUse
<1> QED
  BY <1>1, <1>2, <1>3, <1>4, <1>5, <1>6, <1>7, <1>8

\* A preparation that fails before it asks leaves no manifest.
LEMMA DrainTimeoutKeeps ==
  ASSUME IInv, DrainTimeout
  PROVE  IInv'
<1> USE DEF IInv
<1>1. Homes' /\ CheckpointExact' /\ NothingLost'
  BY DEF DrainTimeout, Fail, Homes, CheckpointExact, NothingLost
<1>2. TypeOK'
  BY DEF DrainTimeout, Fail, TypeOK
<1>3. Claims'
  BY DEF DrainTimeout, Fail, TypeOK, Claims
<1>4. Gate'
  BY DEF DrainTimeout, Fail, TypeOK, Gate
<1>5. Down'
  BY DEF DrainTimeout, Fail, TypeOK, Down
<1>6. Rounds'
  BY DEF DrainTimeout, Fail, TypeOK, Rounds
<1>7. Steps'
  BY DEF DrainTimeout, Fail, TypeOK, Manifest, Down, Rounds, Steps
<1>8. Manifest'
  BY DEF DrainTimeout, Fail, TypeOK, Manifest
<1>9. Once'
  BY DEF DrainTimeout, Fail, TypeOK, Once, Untouched, InUse
<1> QED
  BY <1>1, <1>2, <1>3, <1>4, <1>5, <1>6, <1>7, <1>8, <1>9

\* The workers are asked when nothing is under way, so the residents are all of them.
LEMMA AskKeeps ==
  ASSUME IInv, Ask
  PROVE  IInv'
<1> USE DEF IInv
<1>1. Homes' /\ CheckpointExact' /\ NothingLost'
  BY DEF Ask, AskResidents, Request, Homes, CheckpointExact, NothingLost
<1>2. TypeOK'
  BY DEF Ask, AskResidents, Request, TypeOK
<1>3. Claims'
  BY DEF Ask, AskResidents, Request, TypeOK, Claims
<1>4. Gate'
  BY DEF Ask, AskResidents, Request, TypeOK, Gate
<1>5. Down'
  BY DEF Ask, AskResidents, Request, TypeOK, Down
<1>6. Rounds'
  BY DEF Ask, AskResidents, Request, TypeOK, Rounds
<1>7. Steps'
  BY DEF Ask, AskResidents, Request, TypeOK, Steps
<1>8. Manifest'
  BY DEF Ask, AskResidents, Request, TypeOK, Manifest
<1>9. Once'
  BY DEF Ask, AskResidents, Request, TypeOK, Once, Untouched, InUse
<1> QED
  BY <1>1, <1>2, <1>3, <1>4, <1>5, <1>6, <1>7, <1>8, <1>9

\* As DrainTimeout.
LEMMA UnavailableKeeps ==
  ASSUME IInv, Unavailable
  PROVE  IInv'
<1> USE DEF IInv
<1>1. Homes' /\ CheckpointExact' /\ NothingLost'
  BY DEF Unavailable, Fail, Homes, CheckpointExact, NothingLost
<1>2. TypeOK'
  BY DEF Unavailable, Fail, TypeOK
<1>3. Claims'
  BY DEF Unavailable, Fail, TypeOK, Claims
<1>4. Gate'
  BY DEF Unavailable, Fail, TypeOK, Gate
<1>5. Down'
  BY DEF Unavailable, Fail, TypeOK, Down
<1>6. Rounds'
  BY DEF Unavailable, Fail, TypeOK, Rounds
<1>7. Steps'
  BY DEF Unavailable, Fail, TypeOK, Manifest, Down, Rounds, Steps
<1>8. Manifest'
  BY DEF Unavailable, Fail, TypeOK, Manifest
<1>9. Once'
  BY DEF Unavailable, Fail, TypeOK, Once, Untouched, InUse
<1> QED
  BY <1>1, <1>2, <1>3, <1>4, <1>5, <1>6, <1>7, <1>8, <1>9

\* The supervisor gives up an answer.
LEMMA RequestTimeoutKeeps ==
  ASSUME IInv, NEW w \in Worker, RequestTimeout(w)
  PROVE  IInv'
<1> USE DEF IInv
<1>1. Homes' /\ Gate' /\ Down' /\ Steps' /\ Manifest' /\ Once' /\ CheckpointExact' /\ NothingLost'
  BY DEF RequestTimeout, Homes, Gate, Down, Steps, Manifest, Once, Untouched, InUse,
       CheckpointExact, NothingLost
<1>2. TypeOK'
  BY DEF RequestTimeout, TypeOK
<1>3. Claims'
  BY DEF RequestTimeout, TypeOK, Claims
<1>4. Rounds'
  BY DEF RequestTimeout, TypeOK, Rounds
<1> QED
  BY <1>1, <1>2, <1>3, <1>4

\* A refusal turns the round into a cancellation.
LEMMA PrepareFailedKeeps ==
  ASSUME IInv, PrepareFailed
  PROVE  IInv'
<1> USE DEF IInv
<1>1. Homes' /\ Claims' /\ CheckpointExact' /\ NothingLost'
  BY DEF PrepareFailed, Homes, Claims, CheckpointExact, NothingLost
<1>2. TypeOK'
  BY DEF PrepareFailed, TypeOK
<1>3. Gate'
  BY DEF PrepareFailed, TypeOK, Gate
<1>4. Down'
  BY DEF PrepareFailed, TypeOK, Down
<1>5. Rounds'
  BY DEF PrepareFailed, TypeOK, Rounds
<1>6. Steps'
  BY DEF PrepareFailed, TypeOK, Steps
<1>7. Manifest'
  BY DEF PrepareFailed, TypeOK, Manifest
<1>8. Once'
  BY DEF PrepareFailed, TypeOK, Once, Untouched, InUse
<1> QED
  BY <1>1, <1>2, <1>3, <1>4, <1>5, <1>6, <1>7, <1>8

\* The manifest is written of workers that are prepared, or spoiled.
LEMMA PersistKeeps ==
  ASSUME IInv, Persist
  PROVE  IInv'
<1> USE DEF IInv
<1>1. Homes' /\ CheckpointExact'
  BY DEF Persist, PersistAll, Settled, Refusal, Stale, Request, Homes, CheckpointExact
<1>2. TypeOK'
  BY DEF Persist, PersistAll, Settled, Refusal, Stale, Request, TypeOK
<1>3. Claims'
  BY DEF Persist, PersistAll, Settled, Refusal, Stale, Request, TypeOK, Claims
<1>4. Gate'
  BY DEF Persist, PersistAll, Settled, Refusal, Stale, Request, TypeOK, Gate
<1>5. Down'
  BY DEF Persist, PersistAll, Settled, Refusal, Stale, Request, TypeOK, Down
<1>6. Rounds'
  BY DEF Persist, PersistAll, Settled, Refusal, Stale, Request, TypeOK, Gate, Down,
       Claims, Manifest, Steps, Rounds
<1>7. Steps'
  BY DEF Persist, PersistAll, Settled, Refusal, Stale, Request, TypeOK, Steps
<1>8. Manifest'
  BY DEF Persist, PersistAll, Settled, Refusal, Stale, Request, TypeOK, Rounds, Claims,
       Steps, Down, Manifest
<1>9. Once'
  BY DEF Persist, PersistAll, Settled, Refusal, Stale, Request, TypeOK, Rounds,
       Manifest, CheckpointExact, Steps, Homes, Down, Once, Untouched, InUse
<1>10. NothingLost'
  BY DEF Persist, PersistAll, Settled, Refusal, Stale, Request, TypeOK, Rounds,
       Manifest, CheckpointExact, Steps, Homes, NothingLost
<1> QED
  BY <1>1, <1>2, <1>3, <1>4, <1>5, <1>6, <1>7, <1>8, <1>9, <1>10

\* A cancelled worker is idle again, and there is no manifest yet.
LEMMA CancelWorkerKeeps ==
  ASSUME IInv, NEW w \in Worker, CancelWorker(w)
  PROVE  IInv'
<1> USE DEF IInv
<1>1. Gate' /\ Steps' /\ NothingLost'
  BY DEF CancelWorker, Gate, Steps, NothingLost
<1>2. TypeOK'
  BY DEF CancelWorker, TypeOK
<1>3. Homes'
  BY DEF CancelWorker, TypeOK, Homes
<1>4. Claims'
  BY DEF CancelWorker, TypeOK, Claims
<1>5. Down'
  BY DEF CancelWorker, TypeOK, Down
<1>6. Rounds'
  BY DEF CancelWorker, TypeOK, Rounds
<1>7. Manifest'
  BY DEF CancelWorker, TypeOK, Manifest
<1>8. Once'
  BY DEF CancelWorker, TypeOK, Rounds, Manifest, CheckpointExact, Steps, Homes, Down,
       Once, Untouched, InUse
<1>9. CheckpointExact'
  BY DEF CancelWorker, TypeOK, CheckpointExact
<1> QED
  BY <1>1, <1>2, <1>3, <1>4, <1>5, <1>6, <1>7, <1>8, <1>9

\* As DrainTimeout.
LEMMA CancelledKeeps ==
  ASSUME IInv, Cancelled
  PROVE  IInv'
<1> USE DEF IInv
<1>1. Homes' /\ CheckpointExact' /\ NothingLost'
  BY DEF Cancelled, Fail, Homes, CheckpointExact, NothingLost
<1>2. TypeOK'
  BY DEF Cancelled, Fail, TypeOK
<1>3. Claims'
  BY DEF Cancelled, Fail, TypeOK, Claims
<1>4. Gate'
  BY DEF Cancelled, Fail, TypeOK, Gate
<1>5. Down'
  BY DEF Cancelled, Fail, TypeOK, Down
<1>6. Rounds'
  BY DEF Cancelled, Fail, TypeOK, Rounds
<1>7. Steps'
  BY DEF Cancelled, Fail, TypeOK, Manifest, Down, Rounds, Steps
<1>8. Manifest'
  BY DEF Cancelled, Fail, TypeOK, Manifest
<1>9. Once'
  BY DEF Cancelled, Fail, TypeOK, Once, Untouched, InUse
<1> QED
  BY <1>1, <1>2, <1>3, <1>4, <1>5, <1>6, <1>7, <1>8, <1>9

\* The commits are answered.
LEMMA CommittedKeeps ==
  ASSUME IInv, Committed
  PROVE  IInv'
<1> USE DEF IInv
<1>1. Homes' /\ Claims' /\ CheckpointExact' /\ NothingLost'
  BY DEF Committed, Homes, Claims, CheckpointExact, NothingLost
<1>2. TypeOK'
  BY DEF Committed, TypeOK
<1>3. Gate'
  BY DEF Committed, TypeOK, Gate
<1>4. Down'
  BY DEF Committed, TypeOK, Down
<1>5. Rounds'
  BY DEF Committed, TypeOK, Rounds
<1>6. Steps'
  BY DEF Committed, TypeOK, Steps
<1>7. Manifest'
  BY DEF Committed, TypeOK, Manifest
<1>8. Once'
  BY DEF Committed, TypeOK, Once, Untouched, InUse
<1> QED
  BY <1>1, <1>2, <1>3, <1>4, <1>5, <1>6, <1>7, <1>8

\* A worker that is stopped loses nothing that is not in its checkpoint.
LEMMA StopWorkerKeeps ==
  ASSUME IInv, NEW w \in Worker, StopWorker(w)
  PROVE  IInv'
<1> USE DEF IInv
<1>1. Steps'
  BY DEF StopWorker, Halt, Steps
<1>2. TypeOK'
  BY DEF StopWorker, Halt, TypeOK
<1>3. Homes'
  BY DEF StopWorker, Halt, TypeOK, Homes
<1>4. Claims'
  BY DEF StopWorker, Halt, TypeOK, Claims
<1>5. Gate'
  BY DEF StopWorker, Halt, TypeOK, Gate
<1>6. Down'
  BY DEF StopWorker, Halt, TypeOK, Down
<1>7. Rounds'
  BY DEF StopWorker, Halt, TypeOK, Rounds
<1>8. Manifest'
  BY DEF StopWorker, Halt, TypeOK, Rounds, Claims, Steps, Down, Manifest
<1>9. Once'
  BY DEF StopWorker, Halt, TypeOK, Rounds, Manifest, CheckpointExact, Steps, Homes,
       Down, Once, Untouched, InUse
<1>10. CheckpointExact'
  BY DEF StopWorker, Halt, TypeOK, CheckpointExact
<1>11. NothingLost'
  BY DEF StopWorker, Halt, TypeOK, Rounds, Manifest, CheckpointExact, Steps, Homes,
       NothingLost
<1> QED
  BY <1>1, <1>2, <1>3, <1>4, <1>5, <1>6, <1>7, <1>8, <1>9, <1>10, <1>11

\* The preparation ends when no worker runs.
LEMMA PreparedKeeps ==
  ASSUME IInv, Prepared
  PROVE  IInv'
<1> USE DEF IInv
<1>1. Homes' /\ CheckpointExact' /\ NothingLost'
  BY DEF Prepared, PreparedEarly, Homes, CheckpointExact, NothingLost
<1>2. TypeOK'
  BY DEF Prepared, PreparedEarly, TypeOK
<1>3. Claims'
  BY DEF Prepared, PreparedEarly, TypeOK, Claims
<1>4. Gate'
  BY DEF Prepared, PreparedEarly, TypeOK, Gate
<1>5. Down'
  BY DEF Prepared, PreparedEarly, TypeOK, Down
<1>6. Rounds'
  BY DEF Prepared, PreparedEarly, TypeOK, Gate, Down, Claims, Manifest, Steps, Rounds
<1>7. Steps'
  BY DEF Prepared, PreparedEarly, TypeOK, Steps
<1>8. Manifest'
  BY DEF Prepared, PreparedEarly, TypeOK, Rounds, Claims, Steps, Down, Manifest
<1>9. Once'
  BY DEF Prepared, PreparedEarly, TypeOK, Once, Untouched, InUse
<1> QED
  BY <1>1, <1>2, <1>3, <1>4, <1>5, <1>6, <1>7, <1>8, <1>9

\* A worker begins its transaction while there is no manifest.
LEMMA PrepareKeeps ==
  ASSUME IInv, NEW w \in Worker, Prepare(w)
  PROVE  IInv'
<1> USE DEF IInv
<1>1. Gate' /\ Steps' /\ NothingLost'
  BY DEF Prepare, Handle, Gate, Steps, NothingLost
<1>2. TypeOK'
  BY DEF Prepare, Handle, TypeOK
<1>3. Homes'
  BY DEF Prepare, Handle, TypeOK, Homes
<1>4. Claims'
  BY DEF Prepare, Handle, TypeOK, Claims
<1>5. Down'
  BY DEF Prepare, Handle, TypeOK, Down
<1>6. Rounds'
  BY DEF Prepare, Handle, TypeOK, Rounds
<1>7. Manifest'
  BY DEF Prepare, Handle, TypeOK, Manifest
<1>8. Once'
  BY DEF Prepare, Handle, TypeOK, Rounds, Manifest, CheckpointExact, Steps, Homes, Down,
       Once, Untouched, InUse
<1>9. CheckpointExact'
  BY DEF Prepare, Handle, TypeOK, CheckpointExact
<1> QED
  BY <1>1, <1>2, <1>3, <1>4, <1>5, <1>6, <1>7, <1>8, <1>9

\* The worker fences.
LEMMA FenceWorkerKeeps ==
  ASSUME IInv, NEW w \in Worker, FenceWorker(w)
  PROVE  IInv'
<1> USE DEF IInv
<1>1. Gate' /\ Steps' /\ NothingLost'
  BY DEF FenceWorker, Move, Gate, Steps, NothingLost
<1>2. TypeOK'
  BY DEF FenceWorker, Move, TypeOK
<1>3. Homes'
  BY DEF FenceWorker, Move, TypeOK, Homes
<1>4. Claims'
  BY DEF FenceWorker, Move, TypeOK, Claims
<1>5. Down'
  BY DEF FenceWorker, Move, TypeOK, Down
<1>6. Rounds'
  BY DEF FenceWorker, Move, TypeOK, Rounds
<1>7. Manifest'
  BY DEF FenceWorker, Move, TypeOK, Manifest
<1>8. Once'
  BY DEF FenceWorker, Move, TypeOK, Once, Untouched, InUse
<1>9. CheckpointExact'
  BY DEF FenceWorker, Move, TypeOK, CheckpointExact
<1> QED
  BY <1>1, <1>2, <1>3, <1>4, <1>5, <1>6, <1>7, <1>8, <1>9

\* The checkpoint is the queue, and nothing is at work.
LEMMA CheckpointKeeps ==
  ASSUME IInv, NEW w \in Worker, Checkpoint(w)
  PROVE  IInv'
<1> USE DEF IInv
<1>1. Gate' /\ Steps'
  BY DEF Checkpoint, Move, Gate, Steps
<1>2. TypeOK'
  BY DEF Checkpoint, Move, TypeOK
<1>3. Homes'
  BY DEF Checkpoint, Move, TypeOK, Homes
<1>4. Claims'
  BY DEF Checkpoint, Move, TypeOK, Claims
<1>5. Down'
  BY DEF Checkpoint, Move, TypeOK, Down
<1>6. Rounds'
  BY DEF Checkpoint, Move, TypeOK, Gate, Down, Claims, Manifest, Steps, Rounds
<1>7. Manifest'
  BY DEF Checkpoint, Move, TypeOK, Manifest
<1>8. Once'
  BY DEF Checkpoint, Move, TypeOK, Once, Untouched, InUse
<1>9. CheckpointExact'
  BY DEF Checkpoint, Move, TypeOK, CheckpointExact
<1>10. NothingLost'
  BY DEF Checkpoint, Move, TypeOK, Rounds, Manifest, CheckpointExact, Steps, Homes,
       NothingLost
<1> QED
  BY <1>1, <1>2, <1>3, <1>4, <1>5, <1>6, <1>7, <1>8, <1>9, <1>10

\* A checkpoint given up after the manifest is written is spoiled.
LEMMA DeadlineKeeps ==
  ASSUME IInv, NEW w \in Worker, Deadline(w)
  PROVE  IInv'
<1> USE DEF IInv
<1>1. Gate' /\ Steps'
  BY DEF Deadline, DeadlineIn, Spoil, Gate, Steps
<1>2. TypeOK'
  BY DEF Deadline, DeadlineIn, Spoil, TypeOK
<1>3. Homes'
  BY DEF Deadline, DeadlineIn, Spoil, TypeOK, Homes
<1>4. Claims'
  BY DEF Deadline, DeadlineIn, Spoil, TypeOK, Claims
<1>5. Down'
  BY DEF Deadline, DeadlineIn, Spoil, TypeOK, Down
<1>6. Rounds'
  BY DEF Deadline, DeadlineIn, Spoil, TypeOK, Rounds
<1>7. Manifest'
  BY DEF Deadline, DeadlineIn, Spoil, TypeOK, Manifest
<1>8. Once'
  BY DEF Deadline, DeadlineIn, Spoil, TypeOK, Rounds, Manifest, CheckpointExact, Steps,
       Homes, Down, Once, Untouched, InUse
<1>9. CheckpointExact'
  BY DEF Deadline, DeadlineIn, Spoil, TypeOK, CheckpointExact
<1>10. NothingLost'
  BY DEF Deadline, DeadlineIn, Spoil, TypeOK, NothingLost
<1> QED
  BY <1>1, <1>2, <1>3, <1>4, <1>5, <1>6, <1>7, <1>8, <1>9, <1>10

\* The worker begins its commit.
LEMMA PublishKeeps ==
  ASSUME IInv, NEW w \in Worker, Publish(w)
  PROVE  IInv'
<1> USE DEF IInv
<1>1. Gate' /\ Steps' /\ NothingLost'
  BY DEF Publish, Handle, Gate, Steps, NothingLost
<1>2. TypeOK'
  BY DEF Publish, Handle, TypeOK
<1>3. Homes'
  BY DEF Publish, Handle, TypeOK, Homes
<1>4. Claims'
  BY DEF Publish, Handle, TypeOK, Claims
<1>5. Down'
  BY DEF Publish, Handle, TypeOK, Down
<1>6. Rounds'
  BY DEF Publish, Handle, TypeOK, Rounds
<1>7. Manifest'
  BY DEF Publish, Handle, TypeOK, Manifest
<1>8. Once'
  BY DEF Publish, Handle, TypeOK, Once, Untouched, InUse
<1>9. CheckpointExact'
  BY DEF Publish, Handle, TypeOK, CheckpointExact
<1> QED
  BY <1>1, <1>2, <1>3, <1>4, <1>5, <1>6, <1>7, <1>8, <1>9

\* The queue of a closed session is its checkpoint.
LEMMA CloseSessionsKeeps ==
  ASSUME IInv, NEW w \in Worker, CloseSessions(w)
  PROVE  IInv'
<1> USE DEF IInv
<1>1. Steps'
  BY DEF CloseSessions, Move, Steps
<1>2. TypeOK'
  BY DEF CloseSessions, Move, TypeOK
<1>3. Homes'
  BY DEF CloseSessions, Move, TypeOK, CheckpointExact, Manifest, Steps, Homes
<1>4. Claims'
  BY DEF CloseSessions, Move, TypeOK, Claims
<1>5. Gate'
  BY DEF CloseSessions, Move, TypeOK, Gate
<1>6. Down'
  BY DEF CloseSessions, Move, TypeOK, Down
<1>7. Rounds'
  BY DEF CloseSessions, Move, TypeOK, Rounds
<1>8. Manifest'
  BY DEF CloseSessions, Move, TypeOK, Rounds, Claims, Steps, Down, Manifest
<1>9. Once'
  BY DEF CloseSessions, Move, TypeOK, Rounds, Manifest, CheckpointExact, Steps, Homes,
       Down, Once, Untouched, InUse
<1>10. CheckpointExact'
  BY DEF CloseSessions, Move, TypeOK, CheckpointExact
<1>11. NothingLost'
  BY DEF CloseSessions, Move, TypeOK, Rounds, Manifest, CheckpointExact, Steps, Homes,
       NothingLost
<1> QED
  BY <1>1, <1>2, <1>3, <1>4, <1>5, <1>6, <1>7, <1>8, <1>9, <1>10, <1>11

\* A commit that fails keeps the checkpoint or spoils it.
LEMMA CloseFailsKeeps ==
  ASSUME IInv, NEW w \in Worker, CloseFails(w)
  PROVE  IInv'
<1> USE DEF IInv
<1>1. Gate' /\ Steps'
  BY DEF CloseFails, Move, Spoil, Gate, Steps
<1>2. TypeOK'
  BY DEF CloseFails, Move, Spoil, TypeOK
<1>3. Homes'
  BY DEF CloseFails, Move, Spoil, TypeOK, Homes
<1>4. Claims'
  BY DEF CloseFails, Move, Spoil, TypeOK, Claims
<1>5. Down'
  BY DEF CloseFails, Move, Spoil, TypeOK, Down
<1>6. Rounds'
  BY DEF CloseFails, Move, Spoil, TypeOK, Rounds
<1>7. Manifest'
  BY DEF CloseFails, Move, Spoil, TypeOK, Manifest
<1>8. Once'
  BY DEF CloseFails, Move, Spoil, TypeOK, Rounds, Manifest, CheckpointExact, Steps,
       Homes, Down, Once, Untouched, InUse
<1>9. CheckpointExact'
  BY DEF CloseFails, Move, Spoil, TypeOK, CheckpointExact
<1>10. NothingLost'
  BY DEF CloseFails, Move, Spoil, TypeOK, NothingLost
<1> QED
  BY <1>1, <1>2, <1>3, <1>4, <1>5, <1>6, <1>7, <1>8, <1>9, <1>10

\* The owner of the transaction is gone.
LEMMA WorkerDisconnectsKeeps ==
  ASSUME IInv, NEW w \in Worker, WorkerDisconnects(w)
  PROVE  IInv'
<1> USE DEF IInv
<1>1. Gate' /\ Steps'
  BY DEF WorkerDisconnects, Spoil, Fault, Gate, Steps
<1>2. TypeOK'
  BY DEF WorkerDisconnects, Spoil, Fault, TypeOK
<1>3. Homes'
  BY DEF WorkerDisconnects, Spoil, Fault, TypeOK, Homes
<1>4. Claims'
  BY DEF WorkerDisconnects, Spoil, Fault, TypeOK, Claims
<1>5. Down'
  BY DEF WorkerDisconnects, Spoil, Fault, TypeOK, Down
<1>6. Rounds'
  BY DEF WorkerDisconnects, Spoil, Fault, TypeOK, Rounds
<1>7. Manifest'
  BY DEF WorkerDisconnects, Spoil, Fault, TypeOK, Manifest
<1>8. Once'
  BY DEF WorkerDisconnects, Spoil, Fault, TypeOK, Rounds, Manifest, CheckpointExact,
       Steps, Homes, Down, Once, Untouched, InUse
<1>9. CheckpointExact'
  BY DEF WorkerDisconnects, Spoil, Fault, TypeOK, CheckpointExact
<1>10. NothingLost'
  BY DEF WorkerDisconnects, Spoil, Fault, TypeOK, NothingLost
<1> QED
  BY <1>1, <1>2, <1>3, <1>4, <1>5, <1>6, <1>7, <1>8, <1>9, <1>10

\* What the supervisor forwarded goes on without it.
LEMMA SupervisorDisconnectsKeeps ==
  ASSUME IInv, NEW w \in Worker, SupervisorDisconnects(w)
  PROVE  IInv'
<1> USE DEF IInv
<1>1. Steps'
  BY DEF SupervisorDisconnects, Fault, Steps
<1>2. TypeOK'
  BY DEF SupervisorDisconnects, Fault, TypeOK
<1>3. Homes'
  BY DEF SupervisorDisconnects, Fault, TypeOK, Homes
<1>4. Claims'
  BY DEF SupervisorDisconnects, Fault, TypeOK, Claims
<1>5. Gate'
  BY DEF SupervisorDisconnects, Fault, TypeOK, Gate
<1>6. Down'
  BY DEF SupervisorDisconnects, Fault, TypeOK, Down
<1>7. Rounds'
  BY DEF SupervisorDisconnects, Fault, TypeOK, Rounds
<1>8. Manifest'
  BY DEF SupervisorDisconnects, Fault, TypeOK, Manifest
<1>9. Once'
  BY DEF SupervisorDisconnects, Fault, TypeOK, Once, Untouched, InUse
<1>10. CheckpointExact'
  BY DEF SupervisorDisconnects, Fault, TypeOK, CheckpointExact
<1>11. NothingLost'
  BY DEF SupervisorDisconnects, Fault, TypeOK, NothingLost
<1> QED
  BY <1>1, <1>2, <1>3, <1>4, <1>5, <1>6, <1>7, <1>8, <1>9, <1>10, <1>11

\* A new connection changes nothing else.
LEMMA ReconnectKeeps ==
  ASSUME IInv, NEW w \in Worker, Reconnect(w)
  PROVE  IInv'
<1> USE DEF IInv
<1>1. Homes' /\ Claims' /\ Gate' /\ Down' /\ Rounds' /\ Steps' /\ Manifest' /\ Once' /\ CheckpointExact' /\ NothingLost'
  BY DEF Reconnect, Homes, Claims, Gate, Down, Rounds, Steps, Manifest, Once, Untouched,
       InUse, CheckpointExact, NothingLost
<1>2. TypeOK'
  BY DEF Reconnect, TypeOK
<1> QED
  BY <1>1, <1>2

\* A coordinator removes a manifest only if it is not the first.
LEMMA BeginKeeps ==
  ASSUME IInv, Begin
  PROVE  IInv'
<1> USE DEF IInv
<1>1. Homes' /\ Claims' /\ CheckpointExact'
  BY DEF Begin, Homes, Claims, CheckpointExact
<1>2. TypeOK'
  BY DEF Begin, TypeOK
<1>3. Gate'
  BY DEF Begin, TypeOK, Gate
<1>4. Down'
  BY DEF Begin, TypeOK, Down
<1>5. Rounds'
  BY DEF Begin, TypeOK, Rounds
<1>6. Steps'
  BY DEF Begin, TypeOK, Steps
<1>7. Manifest'
  BY DEF Begin, TypeOK, Manifest
<1>8. Once'
  BY DEF Begin, TypeOK, Once, Untouched, InUse
<1>9. NothingLost'
  BY DEF Begin, TypeOK, Rounds, Manifest, CheckpointExact, Steps, Homes, NothingLost
<1> QED
  BY <1>1, <1>2, <1>3, <1>4, <1>5, <1>6, <1>7, <1>8, <1>9

\* The answer is lost.
LEMMA LoseAnswerKeeps ==
  ASSUME IInv, LoseAnswer
  PROVE  IInv'
<1> USE DEF IInv
<1>1. Homes' /\ Claims' /\ Gate' /\ Down' /\ Rounds' /\ CheckpointExact' /\ NothingLost'
  BY DEF LoseAnswer, Fault, Homes, Claims, Gate, Down, Rounds, CheckpointExact,
       NothingLost
<1>2. TypeOK'
  BY DEF LoseAnswer, Fault, TypeOK
<1>3. Steps'
  BY DEF LoseAnswer, Fault, TypeOK, Manifest, Down, Rounds, Steps
<1>4. Manifest'
  BY DEF LoseAnswer, Fault, TypeOK, Manifest
<1>5. Once'
  BY DEF LoseAnswer, Fault, TypeOK, Once, Untouched, InUse
<1> QED
  BY <1>1, <1>2, <1>3, <1>4, <1>5

\* Without an answer the first coordinator finds a manifest only of its own.
LEMMA FallbackKeeps ==
  ASSUME IInv, Fallback
  PROVE  IInv'
<1> USE DEF IInv
<1>1. Homes' /\ Claims' /\ Gate' /\ Down' /\ Rounds' /\ CheckpointExact' /\ NothingLost'
  BY DEF Fallback, Homes, Claims, Gate, Down, Rounds, CheckpointExact, NothingLost
<1>2. TypeOK'
  BY DEF Fallback, TypeOK
<1>3. Steps'
  BY DEF Fallback, TypeOK, Steps
<1>4. Manifest'
  BY DEF Fallback, TypeOK, Manifest
<1>5. Once'
  BY DEF Fallback, TypeOK, Once, Untouched, InUse
<1> QED
  BY <1>1, <1>2, <1>3, <1>4, <1>5

\* A shutdown is let through when no update is prepared or all workers are gone.
LEMMA ShutdownKeeps ==
  ASSUME IInv, Shutdown
  PROVE  IInv'
<1> USE DEF IInv
<1>1. TypeOK'
  BY DEF Shutdown, Halt, TypeOK
<1>2. Homes'
  BY DEF Shutdown, Halt, TypeOK, Homes
<1>3. Claims'
  BY DEF Shutdown, Halt, TypeOK, Claims
<1>4. Gate'
  BY DEF Shutdown, Halt, TypeOK, Gate
<1>5. Down'
  BY DEF Shutdown, Halt, TypeOK, Down
<1>6. Rounds'
  BY DEF Shutdown, Halt, TypeOK, Rounds
<1>7. Steps'
  BY DEF Shutdown, Halt, TypeOK, Steps
<1>8. Manifest'
  BY DEF Shutdown, Halt, TypeOK, Manifest
<1>9. Once'
  BY DEF Shutdown, Halt, TypeOK, Rounds, Manifest, CheckpointExact, Steps, Homes, Down,
       Once, Untouched, InUse
<1>10. CheckpointExact'
  BY DEF Shutdown, Halt, TypeOK, CheckpointExact
<1>11. NothingLost'
  BY DEF Shutdown, Halt, TypeOK, Rounds, Manifest, CheckpointExact, Steps, Homes,
       NothingLost
<1> QED
  BY <1>1, <1>2, <1>3, <1>4, <1>5, <1>6, <1>7, <1>8, <1>9, <1>10, <1>11

\* The shutdown is refused.
LEMMA ShutdownRefusedKeeps ==
  ASSUME IInv, ShutdownRefused
  PROVE  IInv'
<1> USE DEF IInv
<1>1. Homes' /\ Claims' /\ Gate' /\ Down' /\ Rounds' /\ CheckpointExact' /\ NothingLost'
  BY DEF ShutdownRefused, Homes, Claims, Gate, Down, Rounds, CheckpointExact,
       NothingLost
<1>2. TypeOK'
  BY DEF ShutdownRefused, TypeOK
<1>3. Steps'
  BY DEF ShutdownRefused, TypeOK, Steps
<1>4. Manifest'
  BY DEF ShutdownRefused, TypeOK, Manifest
<1>5. Once'
  BY DEF ShutdownRefused, TypeOK, Once, Untouched, InUse
<1> QED
  BY <1>1, <1>2, <1>3, <1>4, <1>5

\* Sessions that are not restored are reported.
LEMMA RefitKeeps ==
  ASSUME IInv, Refit
  PROVE  IInv'
<1> USE DEF IInv
<1>1. Homes' /\ Claims' /\ Gate' /\ Down' /\ CheckpointExact'
  BY DEF Refit, Homes, Claims, Gate, Down, CheckpointExact
<1>2. TypeOK'
  BY DEF Refit, TypeOK
<1>3. Rounds'
  BY DEF Refit, TypeOK, Rounds
<1>4. Steps'
  BY DEF Refit, TypeOK, Steps
<1>5. Manifest'
  BY DEF Refit, TypeOK, Manifest
<1>6. Once'
  BY DEF Refit, TypeOK, Once, Untouched, InUse
<1>7. NothingLost'
  BY DEF Refit, TypeOK, NothingLost
<1> QED
  BY <1>1, <1>2, <1>3, <1>4, <1>5, <1>6, <1>7

\* The successor starts with the manifest.
LEMMA StartDaemonKeeps ==
  ASSUME IInv, StartDaemon
  PROVE  IInv'
<1> USE DEF IInv
<1>1. Homes' /\ Claims' /\ Gate' /\ Rounds' /\ CheckpointExact' /\ NothingLost'
  BY DEF StartDaemon, Homes, Claims, Gate, Rounds, CheckpointExact, NothingLost
<1>2. TypeOK'
  BY DEF StartDaemon, TypeOK
<1>3. Down'
  BY DEF StartDaemon, TypeOK, Down
<1>4. Steps'
  BY DEF StartDaemon, TypeOK, Manifest, Down, Rounds, Steps
<1>5. Manifest'
  BY DEF StartDaemon, TypeOK, Manifest
<1>6. Once'
  BY DEF StartDaemon, TypeOK, Once, Untouched, InUse
<1> QED
  BY <1>1, <1>2, <1>3, <1>4, <1>5, <1>6

\* A restored session has no worker yet, and its inputs have not run.
LEMMA RestoreKeeps ==
  ASSUME IInv, NEW w \in Worker, Restore(w)
  PROVE  IInv'
<1> USE DEF IInv
<1>1. TypeOK'
  BY DEF Restore, TypeOK
<1>2. Homes'
  BY DEF Restore, TypeOK, CheckpointExact, Manifest, Steps, Homes
<1>3. Claims'
  BY DEF Restore, TypeOK, Claims
<1>4. Gate'
  BY DEF Restore, TypeOK, Gate
<1>5. Down'
  BY DEF Restore, TypeOK, Steps, Down
<1>6. Rounds'
  BY DEF Restore, TypeOK, Gate, Down, Claims, Manifest, Steps, Rounds
<1>7. Steps'
  BY DEF Restore, TypeOK, Steps
<1>8. Manifest'
  BY DEF Restore, TypeOK, Manifest
<1>9. Once'
  BY DEF Restore, TypeOK, Rounds, Manifest, CheckpointExact, Steps, Homes, Down, Once,
       Untouched, InUse
<1>10. CheckpointExact'
  BY DEF Restore, TypeOK, Manifest, Steps, Homes, Down, CheckpointExact
<1>11. NothingLost'
  BY DEF Restore, TypeOK, NothingLost
<1> QED
  BY <1>1, <1>2, <1>3, <1>4, <1>5, <1>6, <1>7, <1>8, <1>9, <1>10, <1>11

\* All sessions are restored or reported.
LEMMA RestoredKeeps ==
  ASSUME IInv, Restored
  PROVE  IInv'
<1> USE DEF IInv
<1>1. Homes' /\ Claims' /\ Gate' /\ Down' /\ CheckpointExact'
  BY DEF Restored, Homes, Claims, Gate, Down, CheckpointExact
<1>2. TypeOK'
  BY DEF Restored, TypeOK
<1>3. Rounds'
  BY DEF Restored, TypeOK, Gate, Down, Claims, Manifest, Steps, Rounds
<1>4. Steps'
  BY DEF Restored, TypeOK, Steps
<1>5. Manifest'
  BY DEF Restored, TypeOK, Manifest
<1>6. Once'
  BY DEF Restored, TypeOK, Once, Untouched, InUse
<1>7. NothingLost'
  BY DEF Restored, TypeOK, Rounds, Manifest, CheckpointExact, Steps, Homes, NothingLost
<1> QED
  BY <1>1, <1>2, <1>3, <1>4, <1>5, <1>6, <1>7

\* The manifest survives its coordinator.
LEMMA CoordinatorDiesKeeps ==
  ASSUME IInv, CoordinatorDies
  PROVE  IInv'
<1> USE DEF IInv
<1>1. Homes' /\ Claims' /\ Gate' /\ Down' /\ Rounds' /\ CheckpointExact' /\ NothingLost'
  BY DEF CoordinatorDies, Fault, Homes, Claims, Gate, Down, Rounds, CheckpointExact,
       NothingLost
<1>2. TypeOK'
  BY DEF CoordinatorDies, Fault, TypeOK
<1>3. Steps'
  BY DEF CoordinatorDies, Fault, TypeOK, Steps
<1>4. Manifest'
  BY DEF CoordinatorDies, Fault, TypeOK, Manifest
<1>5. Once'
  BY DEF CoordinatorDies, Fault, TypeOK, Once, Untouched, InUse
<1> QED
  BY <1>1, <1>2, <1>3, <1>4, <1>5

\* The initial states satisfy it.
LEMMA UpdateInit == Init => IInv
<1> SUFFICES ASSUME Init
             PROVE  IInv
  OBVIOUS
<1>1. TypeOK /\ Homes /\ Claims /\ Gate /\ Down
  BY DEF Init, TypeOK, Homes, Claims, Gate, Down
<1>2. Rounds /\ Steps /\ Manifest
  BY DEF Init, Rounds, Steps, Manifest
<1>3. Once /\ CheckpointExact /\ NothingLost
  BY DEF Init, Once, CheckpointExact, NothingLost
<1> QED
  BY <1>1, <1>2, <1>3 DEF IInv

\* A step that changes nothing keeps it.
LEMMA UpdateStutters ==
  ASSUME IInv, UNCHANGED vars
  PROVE  IInv'
<1> USE DEF IInv, vars
<1>1. TypeOK' /\ Homes' /\ Claims' /\ Gate' /\ Down'
  BY DEF TypeOK, Homes, Claims, Gate, Down
<1>2. Rounds' /\ Steps' /\ Manifest'
  BY DEF Rounds, Steps, Manifest
<1>3. Once' /\ CheckpointExact' /\ NothingLost'
  BY DEF Once, Untouched, InUse, CheckpointExact, NothingLost
<1> QED
  BY <1>1, <1>2, <1>3

\* Every step keeps it.
LEMMA UpdateStep ==
  ASSUME IInv, Next
  PROVE  IInv'
<1>1. ASSUME InputStep
      PROVE  IInv'
  BY <1>1, SendKeeps, CreateKeeps, LandKeeps, FireKeeps, FinishKeeps, RunKeeps,
       SweepBeginKeeps, SweepEndKeeps DEF InputStep
<1>2. ASSUME SupervisorStep
      PROVE  IInv'
  BY <1>2, DrainKeeps, FenceKeeps, DrainTimeoutKeeps, AskKeeps, UnavailableKeeps,
       RequestTimeoutKeeps, PrepareFailedKeeps, PersistKeeps, CancelWorkerKeeps,
       CancelledKeeps, CommittedKeeps, StopWorkerKeeps, PreparedKeeps DEF SupervisorStep
<1>3. ASSUME NEW w \in Worker, WorkerStep(w)
      PROVE  IInv'
  BY <1>3, PrepareKeeps, FenceWorkerKeeps, CheckpointKeeps, DeadlineKeeps, PublishKeeps,
       CloseSessionsKeeps, CloseFailsKeeps, WorkerDisconnectsKeeps,
       SupervisorDisconnectsKeeps, ReconnectKeeps DEF WorkerStep
<1>4. ASSUME CoordinatorStep
      PROVE  IInv'
  BY <1>4, BeginKeeps, LoseAnswerKeeps, FallbackKeeps, ShutdownKeeps,
       ShutdownRefusedKeeps, RefitKeeps, StartDaemonKeeps, RestoreKeeps, RestoredKeeps,
       CoordinatorDiesKeeps DEF CoordinatorStep
<1> QED
  BY <1>1, <1>2, <1>3, <1>4 DEF Next

\* In every reachable state of an update, whatever the workers, inputs, coordinators
\* and faults: the positions of the inputs, the requests, the phases, the manifest and
\* the checkpoints agree as IInv says.
THEOREM UpdateInvariance == Spec => []IInv
<1>1. IInv /\ [Next]_vars => IInv'
  BY UpdateStep, UpdateStutters
<1> QED
  BY UpdateInit, <1>1, PTL DEF Spec

\* What a session accepted is run, queued, or in the manifest, or its session was
\* reported, whatever breaks or times out; the exceptions are the workers that gave
\* their checkpoint up and what a second coordinator discards.
THEOREM AcceptedIsKept == Spec => []NothingLost
<1>1. IInv => NothingLost
  BY DEF IInv
<1> QED
  BY <1>1, UpdateInvariance, PTL

\* What a prepared worker has given away is what it has, until it closes.
THEOREM CheckpointIsQueue == Spec => []CheckpointExact
<1>1. IInv => CheckpointExact
  BY DEF IInv
<1> QED
  BY <1>1, UpdateInvariance, PTL

\* Nothing runs in the old daemon and again in the new one unless its worker gave the
\* checkpoint up.
THEOREM RestoredRunsOnce == Spec => []RunOnce
<1>1. IInv => RunOnce
  <2>1. ASSUME IInv, NEW i \in Input
        PROVE  runs[i] <= 1 \/ Of[i] \in spoiled
    BY <2>1 DEF IInv, Once, TypeOK
  <2> QED
    BY <2>1 DEF RunOnce
<1> QED
  BY <1>1, UpdateInvariance, PTL

\* After the manifest is written every worker that runs is in it, and the successful
\* answer leaves none.
THEOREM ManifestCoversAll == Spec => []NoStraggler
<1>1. IInv => NoStraggler
  BY DEF IInv, Rounds, NoStraggler
<1> QED
  BY <1>1, UpdateInvariance, PTL

=============================================================================
