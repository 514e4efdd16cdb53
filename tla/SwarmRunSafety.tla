--------------------------- MODULE SwarmRunSafety ---------------------------
(***************************************************************************)
(* What holds of the run row of SwarmRun, for every value of its           *)
(* constants: it implements the lifecycle of RunLifecycle and is paused    *)
(* only when nothing is under way, and an attempt of an earlier epoch has  *)
(* no effects.                                                             *)
(***************************************************************************)
EXTENDS SwarmRunProofs

-----------------------------------------------------------------------------
(* The steps of the run row *)

\* Steps that write the run row only through the checkpoint at their end.
Commits == Owner /\ CommitRun(run)

\* Every other step leaves the run row alone.
LEMMA RunSteps ==
  ASSUME [Next]_vars
  PROVE  \/ UNCHANGED run
         \/ Commits
         \/ \E n \in 1..WorkerCap : SetConcurrency(n)
         \/ Pause \/ Resume \/ Stop \/ Complete \/ Acquire \/ LeaseExpires
         \/ \E s \in SUBSET Works : Recover(s)
<1> USE DEF env, db, Commits
<1>1. CASE UNCHANGED vars
  BY <1>1 DEF vars
<1>2. ASSUME NEW p \in Plans, Plan(p) PROVE Commits
  BY <1>2 DEF Plan
<1>3. ASSUME NEW a \in Attempts, NEW w \in Works, NEW n \in Amounts, Assign(a, w, n) PROVE Commits
  BY <1>3 DEF Assign
<1>4. ASSUME NEW a \in Attempts, NEW n \in Amounts, StartCoordinator(a, n) PROVE Commits
  BY <1>4 DEF StartCoordinator
<1>5. ASSUME NEW a \in Attempts, PauseWorker(a) \/ ResumeWorker(a) \/ CancelWorker(a) PROVE Commits
  BY <1>5 DEF PauseWorker, ResumeWorker, CancelWorker, ControlWorker, Controlled, Current
<1>6. ASSUME NEW a \in Attempts, WorkerStarted(a) \/ ProcessStarted(a) \/ BeginTool(a) \/ Submit(a)
      PROVE  Commits \/ UNCHANGED run
  BY <1>6 DEF WorkerStarted, ProcessStarted, BeginTool, Submit, Current
<1>7. ASSUME NEW a \in Attempts, NEW r \in Requests, ReserveRequest(a, r) PROVE Commits
  BY <1>7 DEF ReserveRequest, Live, Current
<1>8. ASSUME NEW r \in Requests, StartRequest(r) PROVE Commits
  BY <1>8 DEF StartRequest, Live, Current
<1>9. ASSUME NEW r \in Requests, NEW o \in {"completed", "uncertain"}, SettleRequest(r, o) PROVE Commits
  BY <1>9 DEF SettleRequest, Settle, Current
<1>10. ASSUME NEW a \in Attempts, NEW o \in {"completed", "uncertain"}, EndTool(a, o) PROVE UNCHANGED run
  BY <1>10 DEF EndTool
<1>11. ASSUME NEW a \in Attempts, ProcessStopped(a) \/ NotLaunched(a) \/ ExecutionEnds(a) PROVE UNCHANGED run
  BY <1>11 DEF ProcessStopped, NotLaunched, ExecutionEnds
<1>12. ASSUME NEW a \in Attempts, NEW o, RecordStop(a, o) PROVE Commits
  BY <1>12 DEF RecordStop, Addressable
<1>13. ASSUME NEW a \in Attempts, NEW o, WorkerStopped(a, o) PROVE Commits
  BY <1>12, <1>13 DEF WorkerStopped
<1>14. ASSUME Checkpoint PROVE Commits
  BY <1>14 DEF Checkpoint
<1>15. ASSUME NEW a \in Attempts, AcceptResult(a) \/ Reject(a) PROVE Commits
  BY <1>15 DEF AcceptResult, Reject
<1>16. ASSUME NEW w \in Works, Retry(w) PROVE Commits
  BY <1>16 DEF Retry
<1>17. ASSUME NEW a \in Attempts, NEW s, InspectProcess(a, s) PROVE UNCHANGED run
  BY <1>17 DEF InspectProcess
<1>18. ASSUME ReconcileProcess PROVE Commits
  BY <1>18 DEF ReconcileProcess, Recovering
<1>19. ASSUME NEW a \in Attempts, RecoverStop(a) \/ ReconcileAction(a) PROVE Commits
  BY <1>12, <1>19 DEF RecoverStop, ReconcileAction, Recovering
<1>20. ASSUME NEW r \in Requests, NEW o, ReconcileRequest(r, o) PROVE Commits
  BY <1>20 DEF ReconcileRequest, Settle, Recovering
<1>21. ASSUME NEW e \in Epochs, HostCrash(e) PROVE UNCHANGED run
  BY <1>21 DEF HostCrash
<1>22. QED
  BY <1>1, <1>2, <1>3, <1>4, <1>5, <1>6, <1>7, <1>8, <1>9, <1>10, <1>11, <1>13, <1>14, <1>15,
     <1>16, <1>17, <1>18, <1>19, <1>20, <1>21 DEF Next

\* A checkpoint cancels only a stopping run that has nothing unresolved, and
\* pauses only a pausing run that has nothing under way.
LEMMA CheckpointedReason ==
  ASSUME NEW rn \in RunRows, NEW at, NEW rq
  PROVE  /\ Checkpointed(rn, at, rq).state # rn.state /\ rn.state = "stopping" => ~UnresolvedIn(at)
         /\ Checkpointed(rn, at, rq).state # rn.state /\ rn.state = "pausing" =>
              /\ \A r \in Requests : rq[r].state \notin {"started", "uncertain"}
              /\ \A a \in Attempts : ~ActOpen(at[a])
  BY DEF Checkpointed, RunRows

\* A run row that is only renamed to another state.
LEMMA RunMoved ==
  ASSUME NEW rn \in RunRows, NEW s \in RunStates
  PROVE  /\ [rn EXCEPT !.state = s] \in RunRows
         /\ [rn EXCEPT !.state = s].state = s
         /\ [rn EXCEPT !.state = s].epoch = rn.epoch
         /\ [rn EXCEPT !.state = s].live = rn.live
         /\ [rn EXCEPT !.state = s].stop = rn.stop
  BY DEF RunRows

-----------------------------------------------------------------------------
(* Refinement of the lifecycle *)

\* A run that is stopping was asked to stop.
Asked == run.state = "stopping" => run.stop

\* One transaction's checkpoint is a lifecycle step of its own, or none.
LEMMA CommitStep ==
  ASSUME TypeInv, Asked, Owner, NEW rn \in RunRows, CommitRun(rn),
         rn.state = run.state, rn.epoch = run.epoch, rn.live = run.live, rn.stop = run.stop
  PROVE  [Lifecycle!Next]_(Lifecycle!vars) /\ Asked'
<1>1. /\ run'.epoch = run.epoch /\ run'.live = run.live /\ run'.stop = run.stop
      /\ \/ run'.state = run.state
         \/ run.state = "pausing" /\ run'.state = "paused"
         \/ run.state = "stopping" /\ run'.state = "cancelled"
  BY CheckpointedShape DEF CommitRun
<1>2. CASE run'.state = run.state
  BY <1>1, <1>2 DEF Lifecycle!vars, Asked
<1>3. CASE run.state = "pausing" /\ run'.state = "paused"
  BY <1>1, <1>3 DEF Lifecycle!Next, Lifecycle!Drain, Lifecycle!Control, Owner, Asked
<1>4. CASE run.state = "stopping" /\ run'.state = "cancelled"
  BY <1>1, <1>4 DEF Lifecycle!Next, Lifecycle!Close, Lifecycle!Control, Owner, Asked
<1>5. QED
  BY <1>1, <1>2, <1>3, <1>4

\* A command that moves the run to s, then checkpoints it.
LEMMA MovedStep ==
  ASSUME TypeInv, NEW s \in RunStates, CommitRun([run EXCEPT !.state = s])
  PROVE  /\ run'.epoch = run.epoch /\ run'.live = run.live /\ run'.stop = run.stop
         /\ \/ run'.state = s
            \/ s = "pausing" /\ run'.state = "paused"
            \/ s = "stopping" /\ run'.state = "cancelled"
<1> DEFINE rn == [run EXCEPT !.state = s]
<1>1. /\ rn \in RunRows /\ rn.state = s /\ rn.epoch = run.epoch
      /\ rn.live = run.live /\ rn.stop = run.stop
  BY RunMoved DEF TypeInv, TypeOK
<1>2. run' = Checkpointed(rn, att', req')
  BY DEF CommitRun
<1> HIDE DEF rn
<1>3. QED
  BY <1>1, <1>2, CheckpointedShape

LEMMA LifecycleStep == TypeInv /\ Asked /\ [Next]_vars => [Lifecycle!Next]_(Lifecycle!vars) /\ Asked'
<1> SUFFICES ASSUME TypeInv, Asked, [Next]_vars
             PROVE  [Lifecycle!Next]_(Lifecycle!vars) /\ Asked'
  OBVIOUS
<1>0. run \in RunRows
  BY DEF TypeInv, TypeOK
<1>1. CASE UNCHANGED run
  BY <1>1 DEF Lifecycle!vars, Asked
<1>2. CASE Commits
  BY <1>0, <1>2, CommitStep DEF Commits
<1>3. ASSUME NEW n \in 1..WorkerCap, SetConcurrency(n)
      PROVE  [Lifecycle!Next]_(Lifecycle!vars) /\ Asked'
  <2> DEFINE rn == [run EXCEPT !.limit = n]
  <2>1. /\ rn \in RunRows /\ rn.state = run.state /\ rn.epoch = run.epoch
        /\ rn.live = run.live /\ rn.stop = run.stop
    BY <1>0 DEF RunRows
  <2>2. CommitRun(rn) /\ Owner
    BY <1>3 DEF SetConcurrency
  <2> HIDE DEF rn
  <2>3. QED
    BY <2>1, <2>2, CommitStep
<1>4. CASE Pause
  <2>1. run.live /\ run.state = "running"
    BY <1>4 DEF Pause, Owner, Admitting
  <2>2. /\ run'.epoch = run.epoch /\ run'.live = run.live /\ run'.stop = run.stop
        /\ run'.state \in {"pausing", "paused"}
    BY <1>4, MovedStep DEF Pause, RunStates
  <2>3. QED
    BY <2>1, <2>2 DEF Lifecycle!Next, Lifecycle!Pause, Lifecycle!Control, Asked
<1>5. CASE Resume
  <2>1. run.live /\ run.state = "paused"
    BY <1>5 DEF Resume, Owner
  <2>2. /\ run'.epoch = run.epoch /\ run'.live = run.live /\ run'.stop = run.stop
        /\ run'.state = "running"
    BY <1>5, MovedStep DEF Resume, RunStates
  <2>3. QED
    BY <2>1, <2>2 DEF Lifecycle!Next, Lifecycle!Resume, Lifecycle!Control, Asked
<1>6. CASE Stop
  <2> DEFINE s == IF run.state = "recovery_required" THEN run.state ELSE "stopping"
             rn == [run EXCEPT !.stop = TRUE, !.state = s]
  <2>1. run' = Checkpointed(rn, att', req') /\ run.live /\ run.state \notin Terminal
    BY <1>6 DEF Stop, CommitRun, Owner
  <2>2. s \in RunStates
    BY DEF RunStates
  <2>3. \/ s = "recovery_required" /\ run.state = "recovery_required"
        \/ s = "stopping" /\ run.state # "recovery_required"
    OBVIOUS
  <2> HIDE DEF s
  <2>4. /\ rn \in RunRows /\ rn.state = s /\ rn.epoch = run.epoch
        /\ rn.live = run.live /\ rn.stop = TRUE
    BY <1>0, <2>2 DEF RunRows
  <2> HIDE DEF rn
  <2>5. /\ run'.epoch = run.epoch /\ run'.live = run.live /\ run'.stop = TRUE
        /\ \/ run'.state = s
           \/ s = "stopping" /\ run'.state = "cancelled"
    <3>1. s # "pausing"
      BY <2>3
    <3>2. /\ Checkpointed(rn, att', req').epoch = rn.epoch
          /\ Checkpointed(rn, att', req').live = rn.live
          /\ Checkpointed(rn, att', req').stop = rn.stop
          /\ \/ Checkpointed(rn, att', req').state = rn.state
             \/ rn.state = "pausing" /\ Checkpointed(rn, att', req').state = "paused"
             \/ rn.state = "stopping" /\ Checkpointed(rn, att', req').state = "cancelled"
      BY <2>4, CheckpointedShape
    <3>3. QED
      BY <2>1, <2>4, <3>1, <3>2
  <2>6. QED
    BY <2>1, <2>3, <2>5 DEF Lifecycle!Next, Lifecycle!RequestStop, Lifecycle!Ended, Terminal, Asked
<1>7. CASE Complete
  <2>1. run.live /\ run.state = "running"
    BY <1>7 DEF Complete, Owner, Admitting
  <2>2. /\ run'.epoch = run.epoch /\ run'.live = run.live /\ run'.stop = run.stop
        /\ run'.state = "completed"
    BY <1>7, MovedStep DEF Complete, RunStates
  <2>3. QED
    BY <2>1, <2>2 DEF Lifecycle!Next, Lifecycle!Complete, Lifecycle!Control, Asked
<1>8. CASE Acquire
  <2>1. /\ run'.epoch = run.epoch + 1 /\ run'.live = TRUE
        /\ run'.state = "recovery_required" /\ run'.stop = run.stop
    BY <1>0, <1>8 DEF Acquire, RunRows
  <2>2. QED
    BY <1>8, <2>1 DEF Acquire, Lifecycle!Next, Lifecycle!TakeOver, Lifecycle!Ended, Terminal, Asked
<1>9. CASE LeaseExpires
  BY <1>0, <1>9 DEF LeaseExpires, RunRows, Lifecycle!Next, Lifecycle!Expire, Asked
<1>10. ASSUME NEW w \in SUBSET Works, Recover(w)
       PROVE  [Lifecycle!Next]_(Lifecycle!vars) /\ Asked'
  <2> DEFINE s == IF run.stop THEN "cancelled" ELSE "running"
  <2>1. /\ run.live /\ run.state = "recovery_required"
        /\ s \in RunStates /\ CommitRun([run EXCEPT !.state = s])
    BY <1>10 DEF Recover, Owner, RunStates
  <2>2. s \in {"cancelled", "running"}
    OBVIOUS
  <2>3. s = IF run.stop THEN "cancelled" ELSE "running"
    OBVIOUS
  <2> HIDE DEF s
  <2>4. /\ run'.epoch = run.epoch /\ run'.live = run.live /\ run'.stop = run.stop
        /\ run'.state = s
    BY <2>1, <2>2, MovedStep
  <2>5. QED
    BY <2>1, <2>3, <2>4 DEF Lifecycle!Next, Lifecycle!Recover, Lifecycle!Control, Asked
<1>11. QED
  BY <1>1, <1>2, <1>3, <1>4, <1>5, <1>6, <1>7, <1>8, <1>9, <1>10, RunSteps

\* The rows of a run implement its lifecycle, however many workers, requests
\* and epochs it has: every transaction of the supervisor is one step of the
\* lifecycle, or none.
THEOREM LifecycleRefinement == Spec => ImplementsLifecycle
<1>1. Init => Lifecycle!Init /\ Asked
  BY DEF Init, Lifecycle!Init, Asked
<1>2. Spec => []TypeInv
  BY TypeInit, TypeStep, PTL DEF Spec
<1>3. QED
  BY <1>1, <1>2, LifecycleStep, PTL DEF Spec, ImplementsLifecycle, Lifecycle!Spec

\* The lifecycle alone keeps a stopped run stopped.
LEMMA StopStep == StopIsFinal /\ [Lifecycle!Next]_(Lifecycle!vars) => StopIsFinal'
  BY DEF StopIsFinal, Lifecycle!vars, Lifecycle!Next, Lifecycle!Pause, Lifecycle!Drain,
         Lifecycle!Resume, Lifecycle!Complete, Lifecycle!Close, Lifecycle!RequestStop,
         Lifecycle!Recover, Lifecycle!Expire, Lifecycle!TakeOver, Lifecycle!Control, Lifecycle!Ended

\* A stop is never taken back: not by a resume, a completion, a takeover or the
\* recovery that follows it.
THEOREM StopFinal == Spec => []StopIsFinal
<1>1. Init => StopIsFinal
  BY DEF Init, StopIsFinal
<1>2. ImplementsLifecycle => [][Lifecycle!Next]_(Lifecycle!vars)
  BY PTL DEF ImplementsLifecycle, Lifecycle!Spec
<1>3. QED
  BY <1>1, <1>2, StopStep, LifecycleRefinement, PTL DEF Spec

-----------------------------------------------------------------------------
(* The end of a run *)

\* Every command that cancels or completes a run tests that nothing of it is
\* unresolved; what that means for its participants is shown with the accounts.
LEMMA EndStep ==
  TypeInv /\ Asked /\ [Next]_vars => (run.state \notin Terminal /\ run'.state \in Terminal => ~UnresolvedIn(att'))
<1> SUFFICES ASSUME TypeInv, Asked, [Next]_vars, run.state \notin Terminal, run'.state \in Terminal
             PROVE  ~UnresolvedIn(att')
  OBVIOUS
<1>0. run \in RunRows
  BY DEF TypeInv, TypeOK
<1>1. ASSUME NEW rn \in RunRows, rn.state \notin Terminal, CommitRun(rn) PROVE ~UnresolvedIn(att')
  <2>1. /\ Checkpointed(rn, att', req').state \in Terminal
        /\ \/ Checkpointed(rn, att', req').state = rn.state
           \/ rn.state = "pausing" /\ Checkpointed(rn, att', req').state = "paused"
           \/ rn.state = "stopping" /\ Checkpointed(rn, att', req').state = "cancelled"
    BY <1>1, CheckpointedShape DEF CommitRun
  <2>2. rn.state = "stopping" /\ Checkpointed(rn, att', req').state # rn.state
    BY <1>1, <2>1 DEF Terminal
  <2>3. QED
    BY <2>2, CheckpointedReason
<1>2. ASSUME NEW s \in RunStates \ Terminal, CommitRun([run EXCEPT !.state = s]) PROVE ~UnresolvedIn(att')
  BY <1>0, <1>1, <1>2, RunMoved
<1>3. CASE UNCHANGED run
  BY <1>3
<1>4. CASE Commits
  BY <1>0, <1>1, <1>4 DEF Commits
<1>5. ASSUME NEW n \in 1..WorkerCap, SetConcurrency(n) PROVE ~UnresolvedIn(att')
  <2> DEFINE rn == [run EXCEPT !.limit = n]
  <2>1. rn \in RunRows /\ rn.state = run.state
    BY <1>0 DEF RunRows
  <2>2. CommitRun(rn)
    BY <1>5 DEF SetConcurrency
  <2> HIDE DEF rn
  <2>3. QED
    BY <1>1, <2>1, <2>2
<1>6. CASE Pause
  BY <1>2, <1>6 DEF Pause, RunStates, Terminal
<1>7. CASE Resume
  BY <1>2, <1>7 DEF Resume, RunStates, Terminal
<1>8. CASE Stop
  <2> DEFINE s == IF run.state = "recovery_required" THEN run.state ELSE "stopping"
             rn == [run EXCEPT !.stop = TRUE, !.state = s]
  <2>1. s \in RunStates /\ s \notin Terminal /\ CommitRun(rn)
    BY <1>8 DEF RunStates, Stop, Terminal
  <2> HIDE DEF s
  <2>2. rn \in RunRows /\ rn.state = s
    BY <1>0, <2>1 DEF RunRows
  <2> HIDE DEF rn
  <2>3. QED
    BY <1>1, <2>1, <2>2
<1>9. CASE Complete
  BY <1>9 DEF Complete
<1>10. CASE Acquire \/ LeaseExpires
  BY <1>0, <1>10 DEF Acquire, LeaseExpires, RunRows, Terminal
<1>11. ASSUME NEW s \in SUBSET Works, Recover(s) PROVE ~UnresolvedIn(att')
  BY <1>11 DEF Recover
<1>12. QED
  BY <1>3, <1>4, <1>5, <1>6, <1>7, <1>8, <1>9, <1>10, <1>11, RunSteps

-----------------------------------------------------------------------------
(* Fencing *)

\* What a step does not do for an attempt of an earlier epoch: hand it off,
\* start its execution, admit a tool of it, or start a request of it.
NoHandoff(a)   == att'[a].sub = att[a].sub /\ (att[a].act # "admitted" => att'[a].act # "admitted")
NoExecution(a) == exec[a] \notin {"thread", "child"} => exec'[a] \notin {"thread", "child"}
NoRequestOf(a) == \A r \in RequestsOf(req, a) : req'[r].began = req[r].began
Inert(a) == NoHandoff(a) /\ NoExecution(a) /\ NoRequestOf(a)

Past == {a \in Made : att[a].epoch < run.epoch}

\* Rewriting one row with its submission and without a new admission is inert.
LEMMA RowInert ==
  ASSUME TypeInv, NEW b \in Attempts, NEW row,
         att' = [att EXCEPT ![b] = row],
         row.sub = att[b].sub, att[b].act # "admitted" => row.act # "admitted"
  PROVE  \A a \in Attempts : NoHandoff(a)
  BY DEF TypeInv, TypeOK, NoHandoff

\* Accounting is inert.
LEMMA AccountedInert ==
  ASSUME TypeInv, NEW b \in Attempts, NEW row \in AttemptRows, NEW rq,
         att' = [att EXCEPT ![b] = Refreshed(row, rq, b)],
         row.sub = att[b].sub, att[b].act # "admitted" => row.act # "admitted"
  PROVE  \A a \in Attempts : NoHandoff(a)
<1>1. Refreshed(row, rq, b).sub = row.sub /\ Refreshed(row, rq, b).act = row.act
  BY RefreshedShape
<1>2. QED
  BY <1>1, RowInert

\* A participant's own steps need the current epoch, so they concern another.
LEMMA ParticipantInert ==
  ASSUME TypeInv, NEW a \in Past
  PROVE  /\ \A b \in Attempts : WorkerStarted(b) \/ ProcessStarted(b) \/ BeginTool(b) \/ Submit(b) => Inert(a)
         /\ \A b \in Attempts, r \in Requests : ReserveRequest(b, r) => Inert(a)
         /\ \A r \in Requests : StartRequest(r) => Inert(a)
         /\ \A b \in Attempts, o \in {"completed", "uncertain"} : EndTool(b, o) => Inert(a)
<1> USE DEF env, db, Inert, NoHandoff, NoExecution, NoRequestOf
<1>0. /\ a \in Attempts /\ ~(att[a].epoch = run.epoch)
      /\ \A b \in Attempts : att[b] \in AttemptRows
      /\ \A r \in Requests : req[r] \in RequestRows
  BY DEF Past, Made, TypeInv, TypeOK, AttemptRows, RunRows, Epochs
<1>1. ASSUME NEW b \in Attempts, Current(b) PROVE b # a
  BY <1>0, <1>1 DEF Current
<1>2. ASSUME NEW b \in Attempts, WorkerStarted(b) PROVE Inert(a)
  BY <1>0, <1>1, <1>2 DEF WorkerStarted, TypeInv, TypeOK, RequestsOf
<1>3. ASSUME NEW b \in Attempts, ProcessStarted(b) \/ BeginTool(b) \/ Submit(b) PROVE Inert(a)
  BY <1>0, <1>1, <1>3 DEF ProcessStarted, BeginTool, Submit, Live, TypeInv, TypeOK, RequestsOf
<1>4. ASSUME NEW b \in Attempts, NEW r \in Requests, ReserveRequest(b, r) PROVE Inert(a)
  <2>1. req[r].att = 0 /\ r \notin RequestsOf(req, a)
    BY <1>0, <1>4 DEF ReserveRequest, RequestsOf, TypeInv, Keyed, Attempts
  <2>2. QED
    BY <1>0, <1>4, <2>1 DEF ReserveRequest, TypeInv, TypeOK, RequestsOf
<1>5. ASSUME NEW r \in Requests, StartRequest(r) PROVE Inert(a)
  <2>1. r \notin RequestsOf(req, a)
    BY <1>0, <1>1, <1>5 DEF StartRequest, Live, RequestsOf, TypeInv, Keyed, Current
  <2>2. QED
    BY <1>0, <1>5, <2>1 DEF StartRequest, TypeInv, TypeOK, RequestsOf
<1>6. ASSUME NEW b \in Attempts, NEW o \in {"completed", "uncertain"}, EndTool(b, o) PROVE Inert(a)
  BY <1>0, <1>1, <1>6 DEF EndTool, TypeInv, TypeOK, RequestsOf
<1>7. QED
  BY <1>2, <1>3, <1>4, <1>5, <1>6

\* Admitting other attempts, and controlling those of this epoch, is inert.
LEMMA OwnerInert ==
  ASSUME TypeInv, NEW a \in Past
  PROVE  /\ \A b \in Attempts, w \in Works, n \in Amounts : Assign(b, w, n) => Inert(a)
         /\ \A b \in Attempts, n \in Amounts : StartCoordinator(b, n) => Inert(a)
         /\ \A b \in Attempts, p, c \in BOOLEAN : ControlWorker(b, p, c) => Inert(a)
         /\ \A b \in Attempts : Reject(b) => Inert(a)
<1> USE DEF env, db, Inert, NoHandoff, NoExecution, NoRequestOf
<1>0. /\ a \in Attempts /\ att[a].state # "absent" /\ ~(att[a].epoch = run.epoch)
      /\ \A b \in Attempts : att[b] \in AttemptRows
  BY DEF Past, Made, TypeInv, TypeOK, AttemptRows, RunRows, Epochs
<1>1. ASSUME NEW b \in Attempts, NEW w \in Works, NEW n \in Amounts, Assign(b, w, n) PROVE Inert(a)
  BY <1>0, <1>1 DEF Assign, Fresh, TypeInv, TypeOK, RequestsOf
<1>2. ASSUME NEW b \in Attempts, NEW n \in Amounts, StartCoordinator(b, n) PROVE Inert(a)
  BY <1>0, <1>2 DEF StartCoordinator, Fresh, TypeInv, TypeOK, RequestsOf
<1>3. ASSUME NEW b \in Attempts, NEW p \in BOOLEAN, NEW c \in BOOLEAN, ControlWorker(b, p, c) PROVE Inert(a)
  BY <1>0, <1>3 DEF ControlWorker, Controlled, Current, TypeInv, TypeOK, RequestsOf
<1>4. ASSUME NEW b \in Attempts, Reject(b) PROVE Inert(a)
  BY <1>0, <1>4 DEF Reject, TypeInv, TypeOK, AttemptRows, RequestsOf
<1>5. QED
  BY <1>1, <1>2, <1>3, <1>4

\* What recovery says about the past is inert: it closes, and admits nothing.
LEMMA RecoveryInert ==
  ASSUME TypeInv, NEW a \in Past
  PROVE  /\ \A r \in Requests, o \in {"completed", "failed", "not_started", "uncertain"} :
              Settle(r, o) /\ req[r].state # "absent" => Inert(a)
         /\ \A b \in Attempts, o \in {"submitted", "completed", "failed", "cancelled"} :
              RecordStop(b, o) => Inert(a)
         /\ \A b \in Attempts : ReconcileAction(b) => Inert(a)
         /\ ReconcileProcess => Inert(a)
         /\ Acquire => Inert(a)
<1> USE DEF env, db
<1>0. /\ a \in Attempts /\ att[a].state # "absent"
      /\ \A b \in Attempts : att[b] \in AttemptRows
      /\ \A r \in Requests : req[r] \in RequestRows
  BY DEF Past, Made, TypeInv, TypeOK
<1>1. ASSUME NEW r \in Requests, NEW o \in {"completed", "failed", "not_started", "uncertain"},
             Settle(r, o), req[r].state # "absent"
      PROVE  Inert(a)
  <2>1. req[r].att \in Attempts
    BY <1>1 DEF TypeInv, Keyed
  <2>2. NoHandoff(a)
    BY <1>0, <1>1, <2>1, AccountedInert DEF Settle
  <2>3. NoExecution(a) /\ NoRequestOf(a)
    BY <1>0, <1>1 DEF Settle, NoExecution, NoRequestOf, RequestsOf, TypeInv, TypeOK, RequestRows
  <2>4. QED
    BY <2>2, <2>3 DEF Inert
<1>2. ASSUME NEW b \in Attempts, NEW o \in {"submitted", "completed", "failed", "cancelled"}, RecordStop(b, o)
      PROVE  Inert(a)
  <2> DEFINE act     == IF att[b].act = "admitted" THEN "uncertain" ELSE att[b].act
             unknown == \/ \E r \in RequestsOf(req', b) : req'[r].state = "uncertain"
                        \/ act = "uncertain" \/ ObsOpen(att[b])
             s       == IF unknown THEN "uncertain" ELSE o
             stopped == [att[b] EXCEPT !.state = s, !.proc = "stopped", !.act = act]
  <2>1. att' = [att EXCEPT ![b] = Refreshed(stopped, req', b)]
    BY <1>2 DEF RecordStop
  <2>2. act \in {"none", "completed", "uncertain"} /\ s \in AttemptStates
    BY <1>0 DEF AttemptRows, AttemptStates
  <2> HIDE DEF act, unknown, s
  <2>3. stopped \in AttemptRows /\ stopped.sub = att[b].sub /\ stopped.act = act
    BY <1>0, <2>2 DEF AttemptRows
  <2> HIDE DEF stopped
  <2>4. NoHandoff(a)
    BY <1>0, <2>1, <2>2, <2>3, AccountedInert
  <2>5. NoExecution(a) /\ NoRequestOf(a)
    BY <1>0, <1>2 DEF RecordStop, NoExecution, NoRequestOf, RequestsOf, RequestRows
  <2>6. QED
    BY <2>4, <2>5 DEF Inert
<1>3. ASSUME NEW b \in Attempts, ReconcileAction(b) PROVE Inert(a)
  <2> DEFINE row == [att[b] EXCEPT !.act = "completed"]
  <2>1. row \in AttemptRows /\ row.sub = att[b].sub /\ row.act = "completed"
    BY <1>0 DEF AttemptRows
  <2>2. att' = [att EXCEPT ![b] = Refreshed(row, req, b)] /\ UNCHANGED <<req, exec>>
    BY <1>3 DEF ReconcileAction
  <2> HIDE DEF row
  <2>3. NoHandoff(a)
    BY <1>0, <2>1, <2>2, AccountedInert
  <2>4. QED
    BY <2>2, <2>3 DEF Inert, NoExecution, NoRequestOf
<1>4. ASSUME ReconcileProcess PROVE Inert(a)
  <2> DEFINE b == seen.att
             noted == [att[b] EXCEPT !.obs = seen.state]
  <2>1. b \in Attempts /\ seen.state \in {"stopped", "unknown"}
    BY <1>4, BoundAssumption DEF ReconcileProcess, TypeInv, TypeOK, Attempts
  <2>2. noted \in AttemptRows /\ noted.sub = att[b].sub /\ noted.act = att[b].act
    BY <1>0, <2>1 DEF AttemptRows
  <2>3. att' = [att EXCEPT ![b] = Refreshed(noted, req, b)] /\ UNCHANGED <<req, exec>>
    BY <1>4 DEF ReconcileProcess
  <2> HIDE DEF b, noted
  <2>4. NoHandoff(a)
    BY <1>0, <2>1, <2>2, <2>3, AccountedInert
  <2>5. QED
    BY <2>3, <2>4 DEF Inert, NoExecution, NoRequestOf
<1>5. ASSUME Acquire PROVE Inert(a)
  <2>1. att'[a] = Fenced(att[a]) /\ UNCHANGED exec
    BY <1>0, <1>5 DEF Acquire
  <2>2. NoHandoff(a)
    BY <1>0, <2>1, FencedShape DEF NoHandoff
  <2>3. NoRequestOf(a)
    BY <1>0, <1>5 DEF Acquire, NoRequestOf, RequestsOf, RequestRows
  <2>4. QED
    BY <2>1, <2>2, <2>3 DEF Inert, NoExecution
<1>6. QED
  BY <1>1, <1>2, <1>3, <1>4, <1>5

\* No step has an effect in the name of an earlier epoch.
LEMMA InertStep == TypeInv /\ [Next]_vars => \A a \in Past : Inert(a)
<1> SUFFICES ASSUME TypeInv, [Next]_vars, NEW a \in Past PROVE Inert(a)
  OBVIOUS
<1> USE DEF env, db
<1>0. a \in Attempts /\ \A b \in Attempts : att[b].pause \in BOOLEAN
  BY DEF Past, Made, TypeInv, TypeOK, AttemptRows
<1>1. ASSUME UNCHANGED <<att, req>>, NoExecution(a) PROVE Inert(a)
  BY <1>1 DEF Inert, NoHandoff, NoRequestOf
<1>2. ASSUME UNCHANGED <<att, req, exec>> PROVE Inert(a)
  BY <1>1, <1>2 DEF NoExecution
<1>3. CASE UNCHANGED vars
  BY <1>2, <1>3 DEF vars
<1>4. ASSUME NEW p \in Plans, Plan(p) PROVE Inert(a)
  BY <1>2, <1>4 DEF Plan
<1>5. ASSUME NEW b \in Attempts, NEW w \in Works, NEW n \in Amounts, Assign(b, w, n) PROVE Inert(a)
  BY <1>5, OwnerInert
<1>6. ASSUME NEW b \in Attempts, NEW n \in Amounts, StartCoordinator(b, n) PROVE Inert(a)
  BY <1>6, OwnerInert
<1>7. ASSUME NEW n \in 1..WorkerCap, SetConcurrency(n) PROVE Inert(a)
  BY <1>2, <1>7 DEF SetConcurrency
<1>8. ASSUME NEW b \in Attempts, PauseWorker(b) \/ ResumeWorker(b) \/ CancelWorker(b) PROVE Inert(a)
  BY <1>0, <1>8, OwnerInert DEF PauseWorker, ResumeWorker, CancelWorker
<1>9. ASSUME NEW b \in Attempts, WorkerStarted(b) \/ ProcessStarted(b) \/ BeginTool(b) \/ Submit(b)
      PROVE  Inert(a)
  BY <1>9, ParticipantInert
<1>10. ASSUME NEW b \in Attempts, NEW r \in Requests, ReserveRequest(b, r) \/ StartRequest(r) PROVE Inert(a)
  BY <1>10, ParticipantInert
<1>11. ASSUME NEW r \in Requests, StartRequest(r) PROVE Inert(a)
  BY <1>11, ParticipantInert
<1>12. ASSUME NEW r \in Requests, NEW o \in {"completed", "uncertain"}, SettleRequest(r, o) PROVE Inert(a)
  BY <1>12, RecoveryInert DEF SettleRequest
<1>13. ASSUME NEW b \in Attempts, NEW o \in {"completed", "uncertain"}, EndTool(b, o) PROVE Inert(a)
  BY <1>13, ParticipantInert
<1>14. ASSUME NEW b \in Attempts, ProcessStopped(b) PROVE Inert(a)
  <2>1. [att[b] EXCEPT !.obs = "stopped"].sub = att[b].sub /\ [att[b] EXCEPT !.obs = "stopped"].act = att[b].act
    BY DEF TypeInv, TypeOK, AttemptRows
  <2>2. NoHandoff(a)
    BY <1>0, <1>14, <2>1, RowInert DEF ProcessStopped
  <2>3. QED
    BY <1>0, <1>14, <2>2 DEF ProcessStopped, Inert, NoExecution, NoRequestOf, TypeInv, TypeOK
<1>15. ASSUME NEW b \in Attempts, NotLaunched(b) \/ ExecutionEnds(b) PROVE Inert(a)
  BY <1>0, <1>1, <1>15 DEF NotLaunched, ExecutionEnds, NoExecution, TypeInv, TypeOK
<1>16. ASSUME NEW b \in Attempts, NEW o \in {"submitted", "completed", "failed", "cancelled"}, WorkerStopped(b, o)
       PROVE  Inert(a)
  BY <1>16, RecoveryInert DEF WorkerStopped
<1>17. CASE Pause \/ Resume \/ Stop \/ Checkpoint \/ Complete
  BY <1>2, <1>17 DEF Pause, Resume, Stop, Checkpoint, Complete
<1>18. ASSUME NEW b \in Attempts, AcceptResult(b) \/ Reject(b) PROVE Inert(a)
  BY <1>2, <1>18, OwnerInert DEF AcceptResult
<1>19. ASSUME NEW w \in Works, Retry(w) PROVE Inert(a)
  BY <1>2, <1>19 DEF Retry
<1>20. CASE Acquire \/ ReconcileProcess
  BY <1>20, RecoveryInert
<1>21. ASSUME NEW b \in Attempts, NEW s \in {"stopped", "unknown"}, InspectProcess(b, s) PROVE Inert(a)
  BY <1>2, <1>21 DEF InspectProcess
<1>22. ASSUME NEW b \in Attempts, RecoverStop(b) \/ ReconcileAction(b) PROVE Inert(a)
  BY <1>22, RecoveryInert DEF RecoverStop
<1>23. ASSUME NEW r \in Requests, NEW o \in {"completed", "failed", "not_started", "uncertain"},
              ReconcileRequest(r, o)
       PROVE  Inert(a)
  BY <1>23, RecoveryInert DEF ReconcileRequest
<1>24. ASSUME NEW s \in SUBSET Works, Recover(s) PROVE Inert(a)
  BY <1>2, <1>24 DEF Recover
<1>25. ASSUME NEW e \in Epochs, HostCrash(e) PROVE Inert(a)
  BY <1>0, <1>1, <1>25 DEF HostCrash, NoExecution
<1>26. CASE LeaseExpires
  BY <1>2, <1>26 DEF LeaseExpires
<1>27. QED
  BY <1>3, <1>4, <1>5, <1>6, <1>7, <1>8, <1>9, <1>10, <1>11, <1>12, <1>13, <1>14, <1>15, <1>16,
     <1>17, <1>18, <1>19, <1>20, <1>21, <1>22, <1>23, <1>24, <1>25, <1>26 DEF Next

\* Once a run is taken over, no worker of an earlier epoch starts a request,
\* a tool or an execution, or hands anything off, for any number of epochs,
\* workers and requests.
THEOREM Fencing == Spec => FencedIsInert
<1>1. Spec => []TypeInv
  BY TypeInit, TypeStep, PTL DEF Spec
<1>2. ASSUME \A a \in Past : Inert(a)
      PROVE  \A a \in Made : att[a].epoch < run.epoch =>
               /\ att'[a].sub = att[a].sub
               /\ a \notin Executing => exec'[a] \notin {"thread", "child"}
               /\ att[a].act # "admitted" => att'[a].act # "admitted"
               /\ \A r \in RequestsOf(req, a) : req'[r].began = req[r].began
  BY <1>2 DEF Past, Made, Inert, NoHandoff, NoExecution, NoRequestOf, Executing
<1>3. QED
  BY <1>1, <1>2, InertStep, PTL DEF Spec, FencedIsInert

-----------------------------------------------------------------------------
(* Pausing *)

\* Nothing is under way: what a checkpoint looks for before it pauses a run.
Quiet == /\ \A r \in Requests : req[r].state \notin {"started", "uncertain"}
         /\ \A a \in Attempts : ~ActOpen(att[a])
QuietInv == run.state = "paused" => Quiet

\* A run becomes paused only through a checkpoint, which has looked.
LEMMA PausedByCheckpoint ==
  ASSUME TypeInv, [Next]_vars, run.state # "paused", run'.state = "paused"
  PROVE  Quiet'
<1>0. run \in RunRows
  BY DEF TypeInv, TypeOK
<1>1. ASSUME NEW rn \in RunRows, rn.state # "paused", CommitRun(rn) PROVE Quiet'
  <2>1. /\ Checkpointed(rn, att', req').state = "paused"
        /\ \/ Checkpointed(rn, att', req').state = rn.state
           \/ rn.state = "pausing" /\ Checkpointed(rn, att', req').state = "paused"
           \/ rn.state = "stopping" /\ Checkpointed(rn, att', req').state = "cancelled"
    BY <1>1, CheckpointedShape DEF CommitRun
  <2>2. rn.state = "pausing" /\ Checkpointed(rn, att', req').state # rn.state
    BY <1>1, <2>1
  <2>3. QED
    BY <2>2, CheckpointedReason DEF Quiet
<1>2. ASSUME NEW s \in RunStates \ {"paused"}, CommitRun([run EXCEPT !.state = s]) PROVE Quiet'
  BY <1>0, <1>1, <1>2, RunMoved
<1>3. CASE UNCHANGED run
  BY <1>3
<1>4. CASE Commits
  BY <1>0, <1>1, <1>4 DEF Commits
<1>5. ASSUME NEW n \in 1..WorkerCap, SetConcurrency(n) PROVE Quiet'
  <2> DEFINE rn == [run EXCEPT !.limit = n]
  <2>1. rn \in RunRows /\ rn.state = run.state
    BY <1>0 DEF RunRows
  <2>2. CommitRun(rn)
    BY <1>5 DEF SetConcurrency
  <2> HIDE DEF rn
  <2>3. QED
    BY <1>1, <2>1, <2>2
<1>6. CASE Pause
  BY <1>2, <1>6 DEF Pause, RunStates
<1>7. CASE Resume
  BY <1>2, <1>7 DEF Resume, RunStates
<1>8. CASE Stop
  <2> DEFINE s == IF run.state = "recovery_required" THEN run.state ELSE "stopping"
             rn == [run EXCEPT !.stop = TRUE, !.state = s]
  <2>1. s \in RunStates /\ s # "paused" /\ CommitRun(rn)
    BY <1>8 DEF RunStates, Stop
  <2> HIDE DEF s
  <2>2. rn \in RunRows /\ rn.state = s
    BY <1>0, <2>1 DEF RunRows
  <2> HIDE DEF rn
  <2>3. QED
    BY <1>1, <2>1, <2>2
<1>9. CASE Complete
  BY <1>2, <1>9 DEF Complete, RunStates
<1>10. CASE Acquire \/ LeaseExpires
  BY <1>0, <1>10 DEF Acquire, LeaseExpires, RunRows
<1>11. ASSUME NEW w \in SUBSET Works, Recover(w) PROVE Quiet'
  <2> DEFINE s == IF run.stop THEN "cancelled" ELSE "running"
  <2>1. s \in RunStates \ {"paused"} /\ CommitRun([run EXCEPT !.state = s])
    BY <1>11 DEF Recover, RunStates
  <2> HIDE DEF s
  <2>2. QED
    BY <1>2, <2>1
<1>12. QED
  BY <1>3, <1>4, <1>5, <1>6, <1>7, <1>8, <1>9, <1>10, <1>11, RunSteps

\* While a run is paused its owner and its participants open nothing.
LEMMA QuietStep ==
  ASSUME TypeInv, [Next]_vars, run.state = "paused", run'.state = "paused", Quiet
  PROVE  Quiet'
<1> USE DEF env, db
<1>0. /\ \A b \in Attempts : att[b] \in AttemptRows
      /\ \A r \in Requests : req[r] \in RequestRows
      /\ ~Admitting
  BY DEF TypeInv, TypeOK, Admitting
<1>1. ASSUME UNCHANGED <<att, req>> PROVE Quiet'
  BY <1>1 DEF Quiet
<1>2. ASSUME NEW b \in Attempts, NEW row, att' = [att EXCEPT ![b] = row], row.act = att[b].act, UNCHANGED req
      PROVE  Quiet'
  BY <1>2 DEF Quiet, ActOpen, TypeInv, TypeOK
<1>3. ASSUME NEW a \in Attempts, NEW p \in BOOLEAN, NEW c \in BOOLEAN, ControlWorker(a, p, c) PROVE Quiet'
  <2>1. [att[a] EXCEPT !.pause = p, !.cancel = c].act = att[a].act
    BY <1>0 DEF AttemptRows
  <2>2. QED
    BY <1>2, <1>3, <2>1 DEF ControlWorker
<1>4. ASSUME NEW a \in Attempts, PauseWorker(a) \/ ResumeWorker(a) \/ CancelWorker(a) PROVE Quiet'
  <2>1. att[a].pause \in BOOLEAN
    BY <1>0 DEF AttemptRows
  <2>2. QED
    BY <1>3, <1>4, <2>1 DEF PauseWorker, ResumeWorker, CancelWorker
<1>5. ASSUME NEW a \in Attempts, Submit(a) PROVE Quiet'
  <2>1. [att[a] EXCEPT !.sub = work[att[a].work].rev].act = att[a].act
    BY <1>0 DEF AttemptRows
  <2>2. QED
    BY <1>2, <1>5, <2>1 DEF Submit
<1>6. ASSUME NEW a \in Attempts, ProcessStopped(a) PROVE Quiet'
  <2>1. [att[a] EXCEPT !.obs = "stopped"].act = att[a].act
    BY <1>0 DEF AttemptRows
  <2>2. QED
    BY <1>2, <1>6, <2>1 DEF ProcessStopped
<1>7. ASSUME NEW r \in Requests, NEW o \in {"completed", "uncertain"}, SettleRequest(r, o) PROVE FALSE
  BY <1>7 DEF SettleRequest, Quiet
<1>8. ASSUME NEW a \in Attempts, NEW o \in {"completed", "uncertain"}, EndTool(a, o) PROVE FALSE
  BY <1>8 DEF EndTool, Quiet, ActOpen
<1>9. ASSUME NEW a \in Attempts, NEW o \in {"submitted", "completed", "failed", "cancelled"}, RecordStop(a, o)
      PROVE  Quiet'
  <2> DEFINE act     == IF att[a].act = "admitted" THEN "uncertain" ELSE att[a].act
             unknown == \/ \E r \in RequestsOf(req', a) : req'[r].state = "uncertain"
                        \/ act = "uncertain" \/ ObsOpen(att[a])
             s       == IF unknown THEN "uncertain" ELSE o
             stopped == [att[a] EXCEPT !.state = s, !.proc = "stopped", !.act = act]
  <2>1. att' = [att EXCEPT ![a] = Refreshed(stopped, req', a)]
    BY <1>9 DEF RecordStop
  <2>2. act \in {"none", "completed"} /\ s \in AttemptStates
    BY <1>0 DEF AttemptRows, AttemptStates, Quiet, ActOpen
  <2> HIDE DEF act, unknown, s
  <2>3. stopped \in AttemptRows /\ stopped.act = act
    BY <1>0, <2>2 DEF AttemptRows
  <2> HIDE DEF stopped
  <2>4. Refreshed(stopped, req', a).act = act
    BY <2>3, RefreshedShape
  <2>5. \A b \in Attempts : ~ActOpen(att'[b])
    BY <2>1, <2>2, <2>4 DEF Quiet, ActOpen, TypeInv, TypeOK
  <2>6. \A r \in Requests : req'[r].state \notin {"started", "uncertain"}
    BY <1>0, <1>9 DEF RecordStop, Quiet, RequestRows
  <2>7. QED
    BY <2>5, <2>6 DEF Quiet
<1>10. ASSUME ReconcileProcess PROVE Quiet'
  <2> DEFINE b == seen.att
             noted == [att[b] EXCEPT !.obs = seen.state]
  <2>1. b \in Attempts /\ seen.state \in {"stopped", "unknown"}
    BY <1>10, BoundAssumption DEF ReconcileProcess, TypeInv, TypeOK, Attempts
  <2>2. noted \in AttemptRows /\ noted.act = att[b].act
    BY <1>0, <2>1 DEF AttemptRows
  <2>3. att' = [att EXCEPT ![b] = Refreshed(noted, req, b)] /\ UNCHANGED req
    BY <1>10 DEF ReconcileProcess
  <2> HIDE DEF b, noted
  <2>4. Refreshed(noted, req, b).act = att[b].act
    BY <2>2, RefreshedShape
  <2>5. QED
    BY <1>2, <2>1, <2>3, <2>4
<1>11. ASSUME NEW a \in Attempts, ReconcileAction(a) PROVE FALSE
  BY <1>11 DEF ReconcileAction, Quiet, ActOpen
<1>12. ASSUME NEW r \in Requests, NEW o, ReconcileRequest(r, o) PROVE FALSE
  BY <1>12 DEF ReconcileRequest, Quiet
<1>13. ASSUME Acquire PROVE FALSE
  BY <1>13 DEF Acquire, TypeInv, TypeOK, RunRows
<1>14. CASE UNCHANGED vars
  BY <1>1, <1>14 DEF vars
<1>15. ASSUME NEW a \in Attempts, NotLaunched(a) \/ ExecutionEnds(a) PROVE Quiet'
  BY <1>1, <1>15 DEF NotLaunched, ExecutionEnds
<1>16. ASSUME NEW a \in Attempts, AcceptResult(a) \/ Reject(a) PROVE FALSE
  BY <1>0, <1>16 DEF AcceptResult, Reject
<1>17. CASE Pause \/ Resume \/ Stop \/ Checkpoint \/ Complete \/ LeaseExpires
  BY <1>1, <1>17 DEF Pause, Resume, Stop, Checkpoint, Complete, LeaseExpires
<1>18. ASSUME NEW n \in 1..WorkerCap, SetConcurrency(n) PROVE Quiet'
  BY <1>1, <1>18 DEF SetConcurrency
<1>19. ASSUME NEW a \in Attempts, NEW s, InspectProcess(a, s) PROVE Quiet'
  BY <1>1, <1>19 DEF InspectProcess
<1>20. ASSUME NEW e \in Epochs, HostCrash(e) PROVE Quiet'
  BY <1>1, <1>20 DEF HostCrash
<1>21. ASSUME NEW s \in SUBSET Works, Recover(s) PROVE Quiet'
  BY <1>1, <1>21 DEF Recover
<1>22. ASSUME NEW a \in Attempts, NEW o \in {"submitted", "completed", "failed", "cancelled"},
              WorkerStopped(a, o)
       PROVE  Quiet'
  BY <1>9, <1>22 DEF WorkerStopped
<1>23. ASSUME NEW a \in Attempts, RecoverStop(a) PROVE Quiet'
  BY <1>9, <1>23 DEF RecoverStop
<1>24. QED
  BY <1>0, <1>4, <1>5, <1>6, <1>7, <1>8, <1>10, <1>11, <1>12, <1>13, <1>14, <1>15, <1>16, <1>17,
     <1>18, <1>19, <1>20, <1>21, <1>22, <1>23
     DEF Next, Plan, Assign, StartCoordinator, WorkerStarted, ProcessStarted, BeginTool,
         ReserveRequest, StartRequest, Live, Retry

\* A run that shows "paused" has no provider call and no tool under way, and
\* none whose outcome is unknown, whatever ends or is recovered meanwhile.
THEOREM PauseIsQuiet == Spec => []PausedIsQuiet
<1>1. Init => QuietInv
  BY DEF Init, QuietInv
<1>2. Spec => []TypeInv
  BY TypeInit, TypeStep, PTL DEF Spec
<1>3. TypeInv /\ QuietInv /\ [Next]_vars => QuietInv'
  BY PausedByCheckpoint, QuietStep DEF QuietInv
<1>4. QuietInv => PausedIsQuiet
  BY DEF QuietInv, Quiet, PausedIsQuiet, Made
<1>5. QED
  BY <1>1, <1>2, <1>3, <1>4, PTL DEF Spec
=============================================================================
