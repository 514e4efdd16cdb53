-------------------------- MODULE SwarmRunAttempts --------------------------
(***************************************************************************)
(* What the rows of SwarmRun say of its participants and its work, for     *)
(* every value of its constants: an attempt recorded as stopped does not   *)
(* execute, a work item is in the hands of one attempt at most, and it is  *)
(* handed out and accepted only on accepted dependencies.                  *)
(***************************************************************************)
EXTENDS SwarmRunSafety

-----------------------------------------------------------------------------
(* An attempt's row, and what really executes for it *)

\* The columns of one attempt agree with each other and with its execution x.
RowOK(row, x) ==
  /\ row.state = "absent" => row = NoAttempt /\ x = "none"
  /\ row.proc \in {"pending", "running"} <=> row.state \in {"leased", "running"}
  /\ row.proc = "unknown" => row.state = "uncertain"
  /\ row.proc = "stopped" => x \notin {"thread", "child"}
  /\ row.obs = "none" => x \in {"none", "thread", "closed"}
  /\ row.obs # "none" => x \in {"child", "ended", "closed"}
  /\ row.obs = "stopped" => x # "child"

\* An attempt belongs to an epoch of the run, and no thread outlives its app.
HostOK(a) == att[a].state # "absent" =>
  /\ att[a].epoch \in 1..run.epoch
  /\ ~hostUp[att[a].epoch] => exec[a] \notin {"none", "thread"}

\* A recovery owner that has seen a process gone has seen the truth.
SeenOK == seen.att # 0 => /\ att[seen.att].obs # "none"
                          /\ seen.state = "stopped" => exec[seen.att] # "child"

ExecInv == /\ \A a \in Attempts : RowOK(att[a], exec[a]) /\ HostOK(a)
           /\ SeenOK

\* Only a takeover moves the epoch.
LEMMA EpochKept ==
  ASSUME TypeInv, [Next]_vars
  PROVE  run'.epoch = run.epoch \/ Acquire
<1>0. run \in RunRows
  BY DEF TypeInv, TypeOK
<1>1. ASSUME NEW rn \in RunRows, rn.epoch = run.epoch, CommitRun(rn) PROVE run'.epoch = run.epoch
  BY <1>1, CheckpointedShape DEF CommitRun
<1>2. ASSUME NEW s \in RunStates, CommitRun([run EXCEPT !.state = s]) PROVE run'.epoch = run.epoch
  BY <1>0, <1>1, <1>2, RunMoved
<1>3. CASE UNCHANGED run \/ LeaseExpires
  BY <1>0, <1>3 DEF LeaseExpires, RunRows
<1>4. CASE Commits
  BY <1>0, <1>1, <1>4 DEF Commits
<1>5. ASSUME NEW n \in 1..WorkerCap, SetConcurrency(n) PROVE run'.epoch = run.epoch
  <2> DEFINE rn == [run EXCEPT !.limit = n]
  <2>1. rn \in RunRows /\ rn.epoch = run.epoch
    BY <1>0 DEF RunRows
  <2>2. CommitRun(rn)
    BY <1>5 DEF SetConcurrency
  <2> HIDE DEF rn
  <2>3. QED
    BY <1>1, <2>1, <2>2
<1>6. CASE Pause \/ Resume \/ Complete
  BY <1>2, <1>6 DEF Pause, Resume, Complete, RunStates
<1>7. CASE Stop
  <2> DEFINE s == IF run.state = "recovery_required" THEN run.state ELSE "stopping"
             rn == [run EXCEPT !.stop = TRUE, !.state = s]
  <2>1. s \in RunStates /\ CommitRun(rn)
    BY <1>7 DEF RunStates, Stop
  <2> HIDE DEF s
  <2>2. rn \in RunRows /\ rn.epoch = run.epoch
    BY <1>0, <2>1 DEF RunRows
  <2> HIDE DEF rn
  <2>3. QED
    BY <1>1, <2>1, <2>2
<1>8. ASSUME NEW w \in SUBSET Works, Recover(w) PROVE run'.epoch = run.epoch
  <2> DEFINE s == IF run.stop THEN "cancelled" ELSE "running"
  <2>1. s \in RunStates /\ CommitRun([run EXCEPT !.state = s])
    BY <1>8 DEF Recover, RunStates
  <2> HIDE DEF s
  <2>2. QED
    BY <1>2, <2>1
<1>9. QED
  BY <1>3, <1>4, <1>5, <1>6, <1>7, <1>8, RunSteps

\* What accounting makes of a row: it settles it exactly when nothing of it is
\* open, and then fails an attempt whose outcome was unknown until now.
LEMMA RefreshedCases ==
  ASSUME NEW row \in AttemptRows, NEW rq, NEW a
  PROVE  LET new == Refreshed(row, rq, a) IN
         \/ /\ row.proc = "stopped" /\ OpenOf(rq, a) = {} /\ ~ObsOpen(row)
            /\ new.resv = "settled" /\ new.used = Spent(rq, a)
            /\ new.state = IF row.state = "uncertain" /\ ~ActOpen(row) THEN "failed" ELSE row.state
         \/ new.resv = "uncertain" /\ new.state = row.state
         \/ new = row /\ ~(row.proc = "stopped" /\ OpenOf(rq, a) = {})
<1> DEFINE settled   == [row EXCEPT !.resv = "settled", !.used = Spent(rq, a)]
           uncertain == [row EXCEPT !.resv = "uncertain", !.used = 0]
           closed    == [settled EXCEPT !.state = "failed"]
<1>0. Spent(rq, a) \in Nat
  BY SpentNat
<1>1. settled.resv = "settled" /\ settled.used = Spent(rq, a) /\ settled.state = row.state
  BY <1>0 DEF AttemptRows
<1>2. closed.resv = "settled" /\ closed.used = Spent(rq, a) /\ closed.state = "failed"
  BY <1>0 DEF AttemptRows, AttemptStates
<1>3. uncertain.resv = "uncertain" /\ uncertain.state = row.state
  BY DEF AttemptRows
<1>4. Refreshed(row, rq, a) =
        IF ObsOpen(row) /\ row.proc \in {"stopped", "unknown"} THEN uncertain
        ELSE IF row.proc = "stopped" /\ OpenOf(rq, a) = {}
        THEN IF row.state = "uncertain" /\ ~ActOpen(row) THEN closed ELSE settled
        ELSE IF \E r \in OpenOf(rq, a) : rq[r].state = "uncertain" THEN uncertain
        ELSE row
  BY DEF Refreshed
<1> HIDE DEF settled, uncertain, closed
<1>5. QED
  BY <1>1, <1>2, <1>3, <1>4

\* So accounting leaves a row that agrees with its execution.
LEMMA RefreshedOK ==
  ASSUME NEW row \in AttemptRows, NEW rq, NEW a, NEW x, RowOK(row, x), row.state # "absent"
  PROVE  RowOK(Refreshed(row, rq, a), x)
<1> DEFINE new == Refreshed(row, rq, a)
<1>1. /\ new.proc = row.proc /\ new.obs = row.obs
      /\ new.state = row.state \/ (row.state = "uncertain" /\ row.proc = "stopped" /\ new.state = "failed")
  BY RefreshedShape, RefreshedCases
<1> HIDE DEF new
<1>2. RowOK(new, x)
  BY <1>1 DEF RowOK
<1>3. QED
  BY <1>2 DEF new

\* A step that writes one attempt's row and execution, under one epoch.
LEMMA OneRow ==
  ASSUME TypeInv, ExecInv, NEW a \in Attempts, NEW row, NEW x,
         att' = [att EXCEPT ![a] = row], exec' = [exec EXCEPT ![a] = x],
         RowOK(row, x), row.state # "absent",
         att[a].state # "absent" => row.epoch = att[a].epoch,
         att[a].state = "absent" => row.epoch = run.epoch /\ hostUp[run.epoch],
         x \in {"none", "thread"} => exec[a] \in {"none", "thread"},
         x = "child" => exec[a] = "child" \/ att[a].obs = "none",
         row.obs = "none" => att[a].obs = "none",
         run'.epoch = run.epoch, hostUp' = hostUp, seen' \in {seen, NoSight}
  PROVE  ExecInv'
<1>1. att'[a] = row /\ exec'[a] = x /\ \A b \in Attempts \ {a} : att'[b] = att[b] /\ exec'[b] = exec[b]
  BY DEF TypeInv, TypeOK
<1>2. \A b \in Attempts : RowOK(att'[b], exec'[b])
  BY <1>1 DEF ExecInv
<1>3. \A b \in Attempts : HostOK(b)'
  <2>1. HostOK(a)'
    BY <1>1 DEF ExecInv, HostOK, TypeInv, TypeOK, RunRows, Epochs
  <2>2. ASSUME NEW b \in Attempts \ {a} PROVE HostOK(b)'
    BY <1>1 DEF ExecInv, HostOK
  <2>3. QED
    BY <2>1, <2>2
<1>4. SeenOK'
  <2>1. CASE seen'.att = 0
    BY <2>1 DEF SeenOK
  <2>2. CASE seen' = seen /\ seen.att # 0
    <3>1. seen.att \in Attempts /\ att[seen.att].obs # "none" /\ (seen.state = "stopped" => exec[seen.att] # "child")
      BY <2>2, BoundAssumption DEF ExecInv, SeenOK, TypeInv, TypeOK, Attempts
    <3>2. QED
      BY <1>1, <2>2, <3>1 DEF SeenOK
  <2>3. QED
    BY <2>1, <2>2 DEF NoSight
<1>5. QED
  BY <1>2, <1>3, <1>4 DEF ExecInv, RowOK

\* Nothing about executions moves.
LEMMA NoRow ==
  ASSUME TypeInv, ExecInv, UNCHANGED <<att, exec, hostUp>>, run'.epoch = run.epoch,
         seen' \in {seen, NoSight}
  PROVE  ExecInv'
  BY DEF ExecInv, HostOK, SeenOK, RowOK, NoSight

\* A command that writes one attempt's row and accounts for it.
LEMMA OneAccounted ==
  ASSUME TypeInv, ExecInv, NEW a \in Attempts, NEW row \in AttemptRows, NEW rq,
         att' = [att EXCEPT ![a] = Refreshed(row, rq, a)], UNCHANGED <<exec, hostUp>>,
         RowOK(row, exec[a]), row.state # "absent", att[a].state # "absent",
         row.epoch = att[a].epoch, row.obs = "none" => att[a].obs = "none",
         run'.epoch = run.epoch, seen' \in {seen, NoSight}
  PROVE  ExecInv'
<1> DEFINE new == Refreshed(row, rq, a)
<1>1. RowOK(new, exec[a])
  BY RefreshedOK
<1>2. new.state # "absent" /\ new.epoch = row.epoch /\ new.obs = row.obs
  BY RefreshedShape
<1>3. att' = [att EXCEPT ![a] = new] /\ exec' = [exec EXCEPT ![a] = exec[a]]
  BY DEF TypeInv, TypeOK
<1> HIDE DEF new
<1>4. QED
  BY <1>1, <1>2, <1>3, OneRow

\* What a grant inserts.
LEMMA GrantedRow ==
  ASSUME NEW k, NEW w, NEW n
  PROVE  LET row == Granted(k, w, n) IN
         /\ row.state = "leased" /\ row.kind = k /\ row.work = w /\ row.epoch = run.epoch
         /\ row.proc = "pending" /\ row.obs = "none" /\ row.act = "none" /\ row.sub = 0
         /\ row.amount = n /\ row.resv = "reserved" /\ row.used = 0
  BY DEF Granted, NoAttempt

\* The columns that identify an attempt, and those of its accounting.
Same(new, row) == /\ new \in AttemptRows
                  /\ new.kind = row.kind /\ new.work = row.work /\ new.epoch = row.epoch
                  /\ new.resv = row.resv /\ new.used = row.used /\ new.amount = row.amount

\* What the steps of one participant leave in its row.
LEMMA StartedRow ==
  ASSUME NEW row \in AttemptRows
  PROVE  LET new == [row EXCEPT !.state = "running", !.proc = "running"] IN
         /\ Same(new, row) /\ new.state = "running" /\ new.proc = "running"
         /\ new.obs = row.obs /\ new.act = row.act /\ new.sub = row.sub
  BY DEF AttemptRows, AttemptStates, Same

LEMMA ObservedRow ==
  ASSUME NEW row \in AttemptRows, NEW o \in {"started", "stopped", "unknown"}
  PROVE  LET new == [row EXCEPT !.obs = o] IN
         /\ Same(new, row) /\ new.obs = o
         /\ new.state = row.state /\ new.proc = row.proc /\ new.act = row.act /\ new.sub = row.sub
  BY DEF AttemptRows, Same

LEMMA ActedRow ==
  ASSUME NEW row \in AttemptRows, NEW c \in {"admitted", "completed", "uncertain"}
  PROVE  LET new == [row EXCEPT !.act = c] IN
         /\ Same(new, row) /\ new.act = c
         /\ new.state = row.state /\ new.proc = row.proc /\ new.obs = row.obs /\ new.sub = row.sub
  BY DEF AttemptRows, Same

LEMMA SubmittedRow ==
  ASSUME NEW row \in AttemptRows, NEW n \in Nat
  PROVE  LET new == [row EXCEPT !.sub = n] IN
         /\ Same(new, row) /\ new.sub = n
         /\ new.state = row.state /\ new.proc = row.proc /\ new.obs = row.obs /\ new.act = row.act
  BY DEF AttemptRows, Same

LEMMA RejectedRow ==
  ASSUME NEW row \in AttemptRows
  PROVE  LET new == [row EXCEPT !.state = "failed"] IN
         /\ Same(new, row) /\ new.state = "failed" /\ new.proc = row.proc
         /\ new.obs = row.obs /\ new.act = row.act /\ new.sub = row.sub
  BY DEF AttemptRows, AttemptStates, Same

\* What a report of an end writes: the row it accounts for, and the work item.
StopWrites(a, o, row) ==
  /\ att' = [att EXCEPT ![a] = Refreshed(row, req', a)]
  /\ work' = IF att[a].kind = "worker"
             THEN [work EXCEPT ![att[a].work].state = Refreshed(row, req', a).state] ELSE work
  /\ row.proc = "stopped" /\ row.state \in {"uncertain", o} /\ row.obs = att[a].obs
  /\ row.kind = att[a].kind /\ row.work = att[a].work /\ row.epoch = att[a].epoch
  /\ row.amount = att[a].amount /\ row.sub = att[a].sub /\ row.resv = att[a].resv
  /\ row.act = IF att[a].act = "admitted" THEN "uncertain" ELSE att[a].act

LEMMA StopRow ==
  ASSUME TypeInv, NEW a \in Attempts, NEW o \in {"submitted", "completed", "failed", "cancelled"},
         RecordStop(a, o)
  PROVE  \E row \in AttemptRows : StopWrites(a, o, row)
<1> DEFINE act     == IF att[a].act = "admitted" THEN "uncertain" ELSE att[a].act
           unknown == \/ \E r \in RequestsOf(req', a) : req'[r].state = "uncertain"
                      \/ act = "uncertain" \/ ObsOpen(att[a])
           s       == IF unknown THEN "uncertain" ELSE o
           stopped == [att[a] EXCEPT !.state = s, !.proc = "stopped", !.act = act]
<1>1. /\ att' = [att EXCEPT ![a] = Refreshed(stopped, req', a)]
      /\ work' = IF att[a].kind = "worker"
                 THEN [work EXCEPT ![att[a].work].state = Refreshed(stopped, req', a).state] ELSE work
  BY DEF RecordStop
<1>2. /\ att[a] \in AttemptRows /\ act \in {"none", "admitted", "completed", "uncertain"}
      /\ s \in AttemptStates /\ s \in {"uncertain", o}
  BY DEF TypeInv, TypeOK, AttemptRows, AttemptStates
<1>3. act = IF att[a].act = "admitted" THEN "uncertain" ELSE att[a].act
  OBVIOUS
<1> HIDE DEF act, unknown, s
<1>4. /\ stopped \in AttemptRows /\ stopped.state = s /\ stopped.proc = "stopped" /\ stopped.act = act
      /\ stopped.obs = att[a].obs /\ stopped.kind = att[a].kind /\ stopped.work = att[a].work
      /\ stopped.epoch = att[a].epoch /\ stopped.amount = att[a].amount /\ stopped.sub = att[a].sub
      /\ stopped.resv = att[a].resv
  BY <1>2 DEF AttemptRows
<1> HIDE DEF stopped
<1>5. QED
  BY <1>1, <1>2, <1>3, <1>4 DEF StopWrites

\* A command that writes one attempt's row and leaves executions alone.
LEMMA OneRowStill ==
  ASSUME TypeInv, ExecInv, NEW a \in Attempts, NEW row,
         att' = [att EXCEPT ![a] = row], UNCHANGED <<exec, hostUp>>,
         RowOK(row, exec[a]), row.state # "absent",
         att[a].state # "absent" => row.epoch = att[a].epoch,
         att[a].state = "absent" => row.epoch = run.epoch /\ hostUp[run.epoch],
         row.obs = "none" => att[a].obs = "none",
         run'.epoch = run.epoch, seen' \in {seen, NoSight}
  PROVE  ExecInv'
<1>1. exec' = [exec EXCEPT ![a] = exec[a]]
  BY DEF TypeInv, TypeOK
<1>2. QED
  BY <1>1, OneRow

\* No step makes a row disagree with what executes: the owner's commands,
LEMMA ExecOwner ==
  ASSUME TypeInv, ExecInv, run'.epoch = run.epoch
  PROVE  /\ \A a \in Attempts, w \in Works, n \in Amounts : Assign(a, w, n) => ExecInv'
         /\ \A a \in Attempts, n \in Amounts : StartCoordinator(a, n) => ExecInv'
         /\ \A a \in Attempts, p, c \in BOOLEAN : ControlWorker(a, p, c) => ExecInv'
         /\ \A a \in Attempts : Reject(a) => ExecInv'
<1> USE DEF env
<1>0. \A a \in Attempts : att[a] \in AttemptRows /\ RowOK(att[a], exec[a])
  BY DEF TypeInv, TypeOK, ExecInv
<1>1. ASSUME NEW a \in Attempts, NEW row, att' = [att EXCEPT ![a] = row], UNCHANGED <<exec, hostUp>>,
             att[a].state = "absent", row.state = "leased", row.proc = "pending", row.obs = "none",
             row.epoch = run.epoch, Owner, seen' = seen
      PROVE  ExecInv'
  <2>1. exec[a] = "none" /\ att[a].obs = "none"
    BY <1>0, <1>1 DEF RowOK, NoAttempt
  <2>2. RowOK(row, exec[a])
    BY <1>1, <2>1 DEF RowOK
  <2>3. QED
    BY <1>1, <2>1, <2>2, OneRowStill DEF Owner
<1>2. ASSUME NEW a \in Attempts, NEW w \in Works, NEW n \in Amounts, Assign(a, w, n) PROVE ExecInv'
  <2> DEFINE row == Granted("worker", w, n)
  <2>1. row.state = "leased" /\ row.proc = "pending" /\ row.obs = "none" /\ row.epoch = run.epoch
    BY GrantedRow
  <2>2. att' = [att EXCEPT ![a] = row]
    BY <1>2 DEF Assign
  <2> HIDE DEF row
  <2>3. QED
    BY <1>1, <1>2, <2>1, <2>2 DEF Assign, Fresh
<1>3. ASSUME NEW a \in Attempts, NEW n \in Amounts, StartCoordinator(a, n) PROVE ExecInv'
  <2> DEFINE row == Granted("coordinator", NoWork, n)
  <2>1. row.state = "leased" /\ row.proc = "pending" /\ row.obs = "none" /\ row.epoch = run.epoch
    BY GrantedRow
  <2>2. att' = [att EXCEPT ![a] = row]
    BY <1>3 DEF StartCoordinator
  <2> HIDE DEF row
  <2>3. QED
    BY <1>1, <1>3, <2>1, <2>2 DEF StartCoordinator, Fresh
<1>4. ASSUME NEW a \in Attempts, NEW p \in BOOLEAN, NEW c \in BOOLEAN, ControlWorker(a, p, c) PROVE ExecInv'
  <2> DEFINE row == [att[a] EXCEPT !.pause = p, !.cancel = c]
  <2>1. /\ row.state = att[a].state /\ row.proc = att[a].proc /\ row.obs = att[a].obs
        /\ row.epoch = att[a].epoch
    BY <1>0 DEF AttemptRows
  <2>2. att' = [att EXCEPT ![a] = row] /\ att[a].state # "absent"
    BY <1>4 DEF ControlWorker, Controlled
  <2> HIDE DEF row
  <2>3. RowOK(row, exec[a])
    BY <1>0, <2>1, <2>2 DEF RowOK
  <2>4. QED
    BY <1>4, <2>1, <2>2, <2>3, OneRowStill DEF ControlWorker
<1>5. ASSUME NEW a \in Attempts, Reject(a) PROVE ExecInv'
  <2> DEFINE row == [att[a] EXCEPT !.state = "failed"]
  <2>1. /\ row.state = "failed" /\ row.proc = att[a].proc /\ row.obs = att[a].obs
        /\ row.epoch = att[a].epoch
    BY <1>0, RejectedRow DEF Same
  <2>2. att' = [att EXCEPT ![a] = row] /\ att[a].state = "submitted"
    BY <1>5 DEF Reject
  <2> HIDE DEF row
  <2>3. RowOK(row, exec[a])
    BY <1>0, <2>1, <2>2 DEF RowOK, TypeInv, TypeOK, AttemptRows
  <2>4. QED
    BY <1>5, <2>1, <2>2, <2>3, OneRowStill DEF Reject
<1>6. QED
  BY <1>2, <1>3, <1>4, <1>5

\* what participants and their host do,
LEMMA ExecParticipant ==
  ASSUME TypeInv, ExecInv, run'.epoch = run.epoch
  PROVE  /\ \A a \in Attempts : WorkerStarted(a) \/ ProcessStarted(a) => ExecInv'
         /\ \A a \in Attempts : BeginTool(a) \/ Submit(a) => ExecInv'
         /\ \A a \in Attempts, o \in {"completed", "uncertain"} : EndTool(a, o) => ExecInv'
         /\ \A a \in Attempts : ProcessStopped(a) \/ NotLaunched(a) \/ ExecutionEnds(a) => ExecInv'
<1> USE DEF env, db
<1>0. \A a \in Attempts : att[a] \in AttemptRows /\ RowOK(att[a], exec[a]) /\ HostOK(a)
  BY DEF TypeInv, TypeOK, ExecInv
<1>1. ASSUME NEW a \in Attempts, WorkerStarted(a) PROVE ExecInv'
  <2> DEFINE row == [att[a] EXCEPT !.state = "running", !.proc = "running"]
  <2>1. /\ row.state = "running" /\ row.proc = "running" /\ row.obs = att[a].obs
        /\ row.epoch = att[a].epoch
    BY <1>0, StartedRow DEF Same
  <2>2. att' = [att EXCEPT ![a] = row] /\ exec' = [exec EXCEPT ![a] = "thread"] /\ exec[a] = "none"
    BY <1>1 DEF WorkerStarted
  <2> HIDE DEF row
  <2>3. RowOK(row, "thread")
    BY <1>0, <2>1, <2>2 DEF RowOK
  <2>4. QED
    BY <1>1, <2>1, <2>2, <2>3, OneRow DEF WorkerStarted
<1>2. ASSUME NEW a \in Attempts, ProcessStarted(a) PROVE ExecInv'
  <2> DEFINE row == [att[a] EXCEPT !.obs = "started"]
  <2>1. /\ row.state = att[a].state /\ row.proc = att[a].proc /\ row.obs = "started"
        /\ row.epoch = att[a].epoch
    BY <1>0, ObservedRow DEF Same
  <2>2. /\ att' = [att EXCEPT ![a] = row] /\ exec' = [exec EXCEPT ![a] = "child"] /\ exec[a] = "thread"
        /\ att[a].state \in {"leased", "running"} /\ att[a].obs = "none"
    BY <1>2 DEF ProcessStarted
  <2> HIDE DEF row
  <2>3. RowOK(row, "child")
    BY <1>0, <2>1, <2>2 DEF RowOK
  <2>4. QED
    BY <1>2, <2>1, <2>2, <2>3, OneRow DEF ProcessStarted
<1>3. ASSUME NEW a \in Attempts, NEW c \in {"admitted", "completed", "uncertain"},
             att' = [att EXCEPT ![a].act = c], UNCHANGED <<exec, hostUp, seen>>, att[a].state # "absent"
      PROVE  ExecInv'
  <2> DEFINE row == [att[a] EXCEPT !.act = c]
  <2>1. /\ row.state = att[a].state /\ row.proc = att[a].proc /\ row.obs = att[a].obs
        /\ row.epoch = att[a].epoch
    BY <1>0, ActedRow DEF Same
  <2>2. att' = [att EXCEPT ![a] = row]
    BY <1>3
  <2> HIDE DEF row
  <2>3. RowOK(row, exec[a])
    BY <1>0, <1>3, <2>1 DEF RowOK
  <2>4. QED
    BY <1>3, <2>1, <2>2, <2>3, OneRowStill
<1>4. ASSUME NEW a \in Attempts, Submit(a) PROVE ExecInv'
  <2> DEFINE row == [att[a] EXCEPT !.sub = work[att[a].work].rev]
  <2>1. work[att[a].work].rev \in Nat
    BY <1>4, BoundAssumption DEF Submit, Current, TypeInv, Keyed, TypeOK, WorkRows
  <2>2. /\ row.state = att[a].state /\ row.proc = att[a].proc /\ row.obs = att[a].obs
        /\ row.epoch = att[a].epoch
    BY <1>0, <2>1, SubmittedRow DEF Same
  <2>3. att' = [att EXCEPT ![a] = row] /\ att[a].state # "absent"
    BY <1>4 DEF Submit, Current
  <2> HIDE DEF row
  <2>4. RowOK(row, exec[a])
    BY <1>0, <2>2, <2>3 DEF RowOK
  <2>5. QED
    BY <1>4, <2>2, <2>3, <2>4, OneRowStill DEF Submit
<1>5. ASSUME NEW a \in Attempts, ProcessStopped(a) PROVE ExecInv'
  <2> DEFINE row == [att[a] EXCEPT !.obs = "stopped"]
  <2>1. /\ row.state = att[a].state /\ row.proc = att[a].proc /\ row.obs = "stopped"
        /\ row.epoch = att[a].epoch
    BY <1>0, ObservedRow DEF Same
  <2>2. /\ att' = [att EXCEPT ![a] = row] /\ exec' = [exec EXCEPT ![a] = "closed"] /\ exec[a] = "ended"
        /\ att[a].state # "absent"
    BY <1>0, <1>5 DEF ProcessStopped, RowOK
  <2> HIDE DEF row
  <2>3. RowOK(row, "closed")
    BY <1>0, <2>1, <2>2 DEF RowOK
  <2>4. QED
    BY <1>5, <2>1, <2>2, <2>3, OneRow DEF ProcessStopped
<1>6. ASSUME NEW a \in Attempts, NotLaunched(a) \/ ExecutionEnds(a) PROVE ExecInv'
  <2>1. PICK x \in {"ended", "closed"} :
          /\ exec' = [exec EXCEPT ![a] = x]
          /\ \/ exec[a] = "child" /\ x = "ended"
             \/ exec[a] \in {"none", "thread"} /\ x = "closed"
    BY <1>6 DEF NotLaunched, ExecutionEnds
  <2>2. att[a].state # "absent" /\ RowOK(att[a], x)
    BY <1>0, <1>6, <2>1 DEF RowOK, NotLaunched, ExecutionEnds
  <2>3. att' = [att EXCEPT ![a] = att[a]] /\ UNCHANGED <<run, hostUp, seen>>
    BY <1>6 DEF NotLaunched, ExecutionEnds, TypeInv, TypeOK
  <2>4. QED
    BY <2>1, <2>2, <2>3, OneRow
<1>7. QED
  BY <1>1, <1>2, <1>3, <1>4, <1>5, <1>6 DEF BeginTool, Live, Current, EndTool

\* What a takeover makes of each column.
LEMMA FencedFields ==
  ASSUME NEW row \in AttemptRows
  PROVE  LET open == row.proc \in {"pending", "running"} IN
         /\ Fenced(row).state = IF open THEN "uncertain" ELSE row.state
         /\ Fenced(row).proc = IF open THEN "unknown" ELSE row.proc
         /\ Fenced(row).obs = IF row.obs = "started" THEN "unknown" ELSE row.obs
         /\ Fenced(row).act = IF row.act = "admitted" THEN "uncertain" ELSE row.act
         /\ Fenced(row).resv = IF row.resv = "reserved" THEN "uncertain" ELSE row.resv
         /\ Fenced(row).used = row.used
<1> DEFINE open == row.proc \in {"pending", "running"}
           s == IF open THEN "uncertain" ELSE row.state
           p == IF open THEN "unknown" ELSE row.proc
           o == IF row.obs = "started" THEN "unknown" ELSE row.obs
           c == IF row.act = "admitted" THEN "uncertain" ELSE row.act
           v == IF row.resv = "reserved" THEN "uncertain" ELSE row.resv
<1>1. Fenced(row) = [row EXCEPT !.state = s, !.proc = p, !.obs = o, !.act = c, !.resv = v]
  BY DEF Fenced
<1> HIDE DEF s, p, o, c, v
<1>2. /\ Fenced(row).state = s /\ Fenced(row).proc = p /\ Fenced(row).obs = o
      /\ Fenced(row).act = c /\ Fenced(row).resv = v /\ Fenced(row).used = row.used
  BY <1>1 DEF AttemptRows
<1>3. QED
  BY <1>2 DEF s, p, o, c, v

\* what is settled and recovered,
LEMMA ExecRecovery ==
  ASSUME TypeInv, ExecInv
  PROVE  /\ \A r \in Requests, o \in {"completed", "failed", "not_started", "uncertain"} :
              Settle(r, o) /\ req[r].state # "absent" /\ att[req[r].att].state # "absent"
                /\ run'.epoch = run.epoch => ExecInv'
         /\ \A a \in Attempts, o \in {"submitted", "completed", "failed", "cancelled"} :
              WorkerStopped(a, o) /\ run'.epoch = run.epoch => ExecInv'
         /\ \A a \in Attempts : RecoverStop(a) /\ run'.epoch = run.epoch => ExecInv'
         /\ \A a \in Attempts : ReconcileAction(a) /\ run'.epoch = run.epoch => ExecInv'
         /\ ReconcileProcess /\ run'.epoch = run.epoch => ExecInv'
         /\ Acquire => ExecInv'
<1> USE DEF env, db
<1>0. \A a \in Attempts : att[a] \in AttemptRows /\ RowOK(att[a], exec[a]) /\ HostOK(a)
  BY DEF TypeInv, TypeOK, ExecInv
<1>1. ASSUME NEW r \in Requests, NEW o \in {"completed", "failed", "not_started", "uncertain"},
             Settle(r, o), req[r].state # "absent", att[req[r].att].state # "absent",
             run'.epoch = run.epoch
      PROVE  ExecInv'
  <2>1. req[r].att \in Attempts
    BY <1>1 DEF TypeInv, Keyed
  <2>2. QED
    BY <1>0, <1>1, <2>1, OneAccounted DEF Settle
<1>2. ASSUME NEW a \in Attempts, NEW o \in {"submitted", "completed", "failed", "cancelled"},
             RecordStop(a, o), exec[a] \notin {"thread", "child"}, run'.epoch = run.epoch
      PROVE  ExecInv'
  <2>1. PICK row \in AttemptRows : StopWrites(a, o, row)
    BY <1>2, StopRow
  <2>2. att[a].state # "absent" /\ UNCHANGED <<exec, hostUp, seen>>
    BY <1>2 DEF RecordStop, Addressable
  <2>3. RowOK(row, exec[a]) /\ row.state # "absent"
    BY <1>0, <1>2, <2>1 DEF RowOK, StopWrites
  <2>4. /\ att' = [att EXCEPT ![a] = Refreshed(row, req', a)]
        /\ row.obs = att[a].obs /\ row.epoch = att[a].epoch
    BY <2>1 DEF StopWrites
  <2>5. QED
    BY <1>2, <2>2, <2>3, <2>4, OneAccounted
<1>3. ASSUME NEW a \in Attempts, RecoverStop(a), run'.epoch = run.epoch PROVE ExecInv'
  <2>1. exec[a] \notin {"thread", "child"}
    BY <1>0, <1>3 DEF RecoverStop, Made, RowOK, HostOK
  <2>2. QED
    BY <1>2, <1>3, <2>1 DEF RecoverStop
<1>4. ASSUME NEW a \in Attempts, ReconcileAction(a), run'.epoch = run.epoch PROVE ExecInv'
  <2> DEFINE row == [att[a] EXCEPT !.act = "completed"]
  <2>1. /\ row \in AttemptRows /\ row.state = att[a].state /\ row.proc = att[a].proc
        /\ row.obs = att[a].obs /\ row.epoch = att[a].epoch
    BY <1>0, ActedRow DEF Same
  <2>2. att' = [att EXCEPT ![a] = Refreshed(row, req, a)] /\ att[a].state # "absent"
    BY <1>4 DEF ReconcileAction, Addressable
  <2> HIDE DEF row
  <2>3. RowOK(row, exec[a])
    BY <1>0, <2>1, <2>2 DEF RowOK
  <2>4. QED
    BY <1>4, <2>1, <2>2, <2>3, OneAccounted DEF ReconcileAction
<1>5. ASSUME ReconcileProcess, run'.epoch = run.epoch PROVE ExecInv'
  <2> DEFINE a == seen.att
             row == [att[a] EXCEPT !.obs = seen.state]
  <2>1. a \in Attempts /\ seen.state \in {"stopped", "unknown"}
    BY <1>5, BoundAssumption DEF ReconcileProcess, TypeInv, TypeOK, Attempts
  <2>2. att[a] \in AttemptRows
    BY <1>0, <2>1
  <2>3. /\ row \in AttemptRows /\ row.state = att[a].state /\ row.proc = att[a].proc
        /\ row.obs = seen.state /\ row.epoch = att[a].epoch
    BY <2>1, <2>2 DEF AttemptRows
  <2>4. att[a].obs # "none" /\ (seen.state = "stopped" => exec[a] # "child")
    BY <1>5 DEF ReconcileProcess, ExecInv, SeenOK
  <2>5. att' = [att EXCEPT ![a] = Refreshed(row, req, a)] /\ seen' = NoSight
    BY <1>5 DEF ReconcileProcess
  <2> HIDE DEF a, row
  <2>6. att[a].state # "absent"
    BY <1>0, <2>1, <2>4 DEF RowOK, NoAttempt
  <2>7. RowOK(row, exec[a])
    BY <1>0, <2>1, <2>3, <2>4, <2>6 DEF RowOK
  <2>8. QED
    BY <1>5, <2>1, <2>3, <2>5, <2>6, <2>7, OneAccounted DEF ReconcileProcess
<1>6. ASSUME Acquire PROVE ExecInv'
  <2>1. /\ \A a \in Attempts : att'[a] = IF att[a].state = "absent" THEN att[a] ELSE Fenced(att[a])
        /\ exec' = exec /\ seen' = NoSight /\ run'.epoch = run.epoch + 1
        /\ \A e \in Epochs : hostUp[e] => hostUp'[e]
    BY <1>6 DEF Acquire, TypeInv, TypeOK, RunRows
  <2>2. ASSUME NEW a \in Attempts PROVE RowOK(att'[a], exec'[a])
    <3>1. CASE att[a].state = "absent"
      BY <1>0, <2>1, <3>1
    <3>2. CASE att[a].state # "absent"
      BY <1>0, <2>1, <3>2, FencedFields DEF RowOK
    <3>3. QED
      BY <3>1, <3>2
  <2>3. ASSUME NEW a \in Attempts PROVE HostOK(a)'
    <3>1. att'[a].epoch = att[a].epoch /\ (att'[a].state # "absent" => att[a].state # "absent")
      BY <1>0, <2>1, FencedShape
    <3>2. att[a].state # "absent" => att[a].epoch \in 1..run.epoch /\ run.epoch \in Epochs
      BY <1>0 DEF HostOK, TypeInv, TypeOK, RunRows
    <3>3. att[a].state # "absent" => att[a].epoch \in 1..(run.epoch + 1) /\ att[a].epoch \in Epochs
      BY <3>2, BoundAssumption DEF Epochs
    <3>4. QED
      BY <1>0, <2>1, <3>1, <3>3 DEF HostOK
  <2>4. SeenOK'
    BY <2>1 DEF SeenOK, NoSight
  <2>5. QED
    BY <2>2, <2>3, <2>4 DEF ExecInv, RowOK
<1>7. QED
  BY <1>1, <1>2, <1>3, <1>4, <1>5, <1>6 DEF WorkerStopped

\* and what happens outside the database.
LEMMA ExecWorld ==
  ASSUME TypeInv, ExecInv
  PROVE  /\ \A a \in Attempts, s \in {"stopped", "unknown"} : InspectProcess(a, s) => ExecInv'
         /\ \A e \in Epochs : HostCrash(e) => ExecInv'
<1> USE DEF env, db
<1>0. \A a \in Attempts : att[a] \in AttemptRows /\ RowOK(att[a], exec[a]) /\ HostOK(a)
  BY DEF TypeInv, TypeOK, ExecInv
<1>1. ASSUME NEW a \in Attempts, NEW s \in {"stopped", "unknown"}, InspectProcess(a, s) PROVE ExecInv'
  BY <1>0, <1>1 DEF InspectProcess, ExecInv, HostOK, SeenOK, RowOK
<1>2. ASSUME NEW e \in Epochs, HostCrash(e) PROVE ExecInv'
  <2>1. /\ \A a \in Attempts : exec'[a] = IF att[a].epoch = e /\ exec[a] \in {"none", "thread"}
                                          THEN "closed" ELSE exec[a]
        /\ UNCHANGED <<run, att>> /\ seen' \in {seen, NoSight}
        /\ \A f \in Epochs \ {e} : hostUp'[f] = hostUp[f]
    BY <1>2 DEF HostCrash, TypeInv, TypeOK
  <2>2. ASSUME NEW a \in Attempts PROVE RowOK(att[a], exec'[a])
    <3>1. att[a].state = "absent" => att[a].epoch # e
      BY <1>0 DEF RowOK, NoAttempt, Epochs
    <3>2. QED
      BY <1>0, <2>1, <3>1 DEF RowOK
  <2>3. ASSUME NEW a \in Attempts PROVE HostOK(a)'
    <3>1. att[a].state # "absent" => att[a].epoch \in Epochs
      BY <1>0, BoundAssumption DEF HostOK, TypeInv, TypeOK, RunRows, Epochs
    <3>2. QED
      BY <1>0, <2>1, <3>1 DEF HostOK
  <2>4. SeenOK'
    <3>1. CASE seen' = NoSight
      BY <3>1 DEF SeenOK, NoSight
    <3>2. CASE seen' = seen /\ seen.att # 0
      <4>1. seen.att \in Attempts
        BY <3>2, BoundAssumption DEF TypeInv, TypeOK, Attempts
      <4>2. QED
        BY <2>1, <3>2, <4>1 DEF ExecInv, SeenOK
    <3>3. QED
      BY <2>1, <3>1, <3>2 DEF SeenOK
  <2>5. QED
    BY <2>1, <2>2, <2>3, <2>4 DEF ExecInv, RowOK
<1>3. QED
  BY <1>1, <1>2

LEMMA ExecStep == TypeInv /\ ExecInv /\ [Next]_vars => ExecInv'
<1> SUFFICES ASSUME TypeInv, ExecInv, [Next]_vars PROVE ExecInv'
  OBVIOUS
<1> USE DEF env, db
<1>0. run'.epoch = run.epoch \/ Acquire
  BY EpochKept
<1>1. CASE Acquire
  BY <1>1, ExecRecovery
<1>2. CASE run'.epoch = run.epoch
  <2> USE <1>2
  <2>1. ASSUME UNCHANGED <<att, exec, hostUp, seen>> PROVE ExecInv'
    BY <2>1, NoRow
  <2>2. CASE UNCHANGED vars
    BY <2>1, <2>2 DEF vars
  <2>3. ASSUME NEW a \in Attempts, PauseWorker(a) \/ ResumeWorker(a) \/ CancelWorker(a) PROVE ExecInv'
    <3>1. att[a].pause \in BOOLEAN
      BY DEF TypeInv, TypeOK, AttemptRows
    <3>2. QED
      BY <2>3, <3>1, ExecOwner DEF PauseWorker, ResumeWorker, CancelWorker
  <2>4. ASSUME NEW r \in Requests, NEW o \in {"completed", "uncertain"}, SettleRequest(r, o) PROVE ExecInv'
    BY <2>4, ExecRecovery DEF SettleRequest, Current
  <2>5. ASSUME NEW r \in Requests, NEW o \in {"completed", "failed", "not_started", "uncertain"},
               ReconcileRequest(r, o)
        PROVE  ExecInv'
    BY <2>5, ExecRecovery DEF ReconcileRequest, Addressable
  <2>6. ASSUME NEW p \in Plans, Plan(p) PROVE ExecInv'
    BY <2>1, <2>6 DEF Plan
  <2>7. ASSUME NEW a \in Attempts, NEW r \in Requests, ReserveRequest(a, r) \/ StartRequest(r) PROVE ExecInv'
    BY <2>1, <2>7 DEF ReserveRequest, StartRequest
  <2>8. ASSUME NEW r \in Requests, StartRequest(r) PROVE ExecInv'
    BY <2>1, <2>8 DEF StartRequest
  <2>9. ASSUME NEW n \in 1..WorkerCap, SetConcurrency(n) PROVE ExecInv'
    BY <2>1, <2>9 DEF SetConcurrency
  <2>10. CASE Pause \/ Resume \/ Stop \/ Checkpoint \/ Complete \/ LeaseExpires
    BY <2>1, <2>10 DEF Pause, Resume, Stop, Checkpoint, Complete, LeaseExpires
  <2>11. ASSUME NEW a \in Attempts, AcceptResult(a) PROVE ExecInv'
    BY <2>1, <2>11 DEF AcceptResult
  <2>12. ASSUME NEW w \in Works, Retry(w) PROVE ExecInv'
    BY <2>1, <2>12 DEF Retry
  <2>13. ASSUME NEW s \in SUBSET Works, Recover(s) PROVE ExecInv'
    BY <2>1, <2>13 DEF Recover
  <2>14. ASSUME NEW a \in Attempts, WorkerStarted(a) \/ ProcessStarted(a) \/ BeginTool(a) \/ Submit(a)
         PROVE  ExecInv'
    BY <2>14, ExecParticipant
  <2>15. ASSUME NEW a \in Attempts, NEW o \in {"completed", "uncertain"}, EndTool(a, o) PROVE ExecInv'
    BY <2>15, ExecParticipant
  <2>16. ASSUME NEW a \in Attempts, ProcessStopped(a) \/ NotLaunched(a) \/ ExecutionEnds(a) PROVE ExecInv'
    BY <2>16, ExecParticipant
  <2>17. ASSUME NEW a \in Attempts, NEW w \in Works, NEW n \in Amounts, Assign(a, w, n) PROVE ExecInv'
    BY <2>17, ExecOwner
  <2>18. ASSUME NEW a \in Attempts, NEW n \in Amounts, StartCoordinator(a, n) PROVE ExecInv'
    BY <2>18, ExecOwner
  <2>19. ASSUME NEW a \in Attempts, Reject(a) PROVE ExecInv'
    BY <2>19, ExecOwner
  <2>20. ASSUME NEW a \in Attempts, NEW o \in {"submitted", "completed", "failed", "cancelled"},
                WorkerStopped(a, o)
         PROVE  ExecInv'
    BY <2>20, ExecRecovery
  <2>21. ASSUME NEW a \in Attempts, RecoverStop(a) \/ ReconcileAction(a) PROVE ExecInv'
    BY <2>21, ExecRecovery
  <2>22. CASE ReconcileProcess
    BY <2>22, ExecRecovery
  <2>23. ASSUME NEW a \in Attempts, NEW s \in {"stopped", "unknown"}, InspectProcess(a, s) PROVE ExecInv'
    BY <2>23, ExecWorld
  <2>24. ASSUME NEW e \in Epochs, HostCrash(e) PROVE ExecInv'
    BY <2>24, ExecWorld
  <2>25. QED
    BY <1>1, <2>2, <2>3, <2>4, <2>5, <2>6, <2>7, <2>8, <2>9, <2>10, <2>11, <2>12, <2>13, <2>14,
       <2>15, <2>16, <2>17, <2>18, <2>19, <2>20, <2>21, <2>22, <2>23, <2>24 DEF Next
<1>3. QED
  BY <1>0, <1>1, <1>2

LEMMA ExecInit == Init => ExecInv
  BY DEF Init, ExecInv, RowOK, HostOK, SeenOK, NoAttempt, NoSight

\* An attempt that the database calls stopped does not execute, whatever apps
\* crash, leases lapse and owners are told by the process table.
THEOREM StoppedIsOver == Spec => []StoppedMeansStopped
<1>1. Spec => []TypeInv
  BY TypeInit, TypeStep, PTL DEF Spec
<1>2. ExecInv => StoppedMeansStopped
  BY DEF ExecInv, RowOK, StoppedMeansStopped, Executing, Made
<1>3. QED
  BY <1>1, <1>2, ExecInit, ExecStep, PTL DEF Spec

-----------------------------------------------------------------------------
(* A work item, and the attempts made at it *)

\* Only a worker has an item of its own.
KindOK == \A a \in Attempts : att[a].kind = "coordinator" => att[a].work = NoWork

\* At most one attempt at a time holds an item, and the item shows its state.
OneActive == \A a, b \in Attempts :
  /\ att[a].kind = "worker" /\ att[a].state \in Active
  /\ att[b].kind = "worker" /\ att[b].state \in Active
  /\ att[a].work = att[b].work
  => a = b
ActiveMirrored == \A a \in Attempts :
  att[a].kind = "worker" /\ att[a].state \in Active => work[att[a].work].state = att[a].state
ActiveHeld == \A w \in Works : work[w].state \in Active =>
  \E a \in Attempts : att[a].kind = "worker" /\ att[a].work = w /\ att[a].state = work[w].state

\* An item that is past waiting was attempted, hence keeps its specification,
\* and an item the plan does not know never was.
Idle  == {"absent", "pending", "ready", "cancelled"}
Tried == \A w \in Works : work[w].state \notin Idle => \E a \in Made : att[a].work = w
Untried == \A w \in Works : work[w].state = "absent" => \A a \in Made : att[a].work # w

WorkInv == KindOK /\ OneActive /\ ActiveMirrored /\ ActiveHeld /\ Tried /\ Untried
           /\ DependenciesFirst /\ AcceptedIsCurrent

\* A step that leaves an attempt in its state, and what it handed off in place.
Keeps(a) == /\ att'[a].kind = att[a].kind /\ att'[a].work = att[a].work
            /\ att'[a].state = att[a].state
            /\ att[a].proc = "stopped" => att'[a].proc = "stopped" /\ att'[a].sub = att[a].sub

LEMMA WorkKept ==
  ASSUME TypeInv, WorkInv, work' = work, \A a \in Attempts : Keeps(a)
  PROVE  WorkInv'
<1>1. Made' = Made
  BY DEF Made, Keeps
<1>2. KindOK' /\ OneActive' /\ ActiveMirrored'
  BY DEF WorkInv, KindOK, OneActive, ActiveMirrored, Keeps
<1>3. ActiveHeld'
  BY DEF WorkInv, ActiveHeld, Keeps
<1>4. Tried' /\ Untried'
  BY <1>1 DEF WorkInv, Tried, Untried, Made, Keeps
<1>5. DependenciesFirst' /\ AcceptedIsCurrent'
  BY <1>1 DEF WorkInv, DependenciesFirst, AcceptedIsCurrent, Made, Keeps
<1>6. QED
  BY <1>2, <1>3, <1>4, <1>5 DEF WorkInv

\* A step that moves an attempt which holds its item, and the item with it; or
\* the owner's rejection of what an attempt submitted.
LEMMA WorkMoved ==
  ASSUME TypeInv, WorkInv, NEW a \in Attempts, NEW new, att' = [att EXCEPT ![a] = new],
         new.kind = att[a].kind, new.work = att[a].work, new.state \in AttemptStates \ {"absent"},
         work' = IF att[a].kind = "worker" THEN [work EXCEPT ![att[a].work].state = new.state] ELSE work,
         \/ att[a].state \in Active
         \/ /\ att[a].kind = "worker" /\ att[a].state = "submitted"
            /\ work[att[a].work].state = "submitted" /\ new.state = "failed"
  PROVE  WorkInv'
<1> DEFINE w == att[a].work
<1>0. /\ att'[a] = new /\ \A b \in Attempts \ {a} : att'[b] = att[b]
      /\ att[a].state # "absent" /\ new.state # "accepted"
      /\ att[a].kind \in {"worker", "coordinator"}
  BY DEF TypeInv, TypeOK, AttemptRows, AttemptStates, Active
<1>1. Made' = Made
  BY <1>0 DEF Made
<1>2. CASE att[a].kind = "worker"
  <2>1. /\ w \in Works /\ work[w].state \in Active \cup {"submitted"}
        /\ \A v \in Works \ {w} : work'[v] = work[v]
        /\ work'[w].state = new.state /\ work'[w].deps = work[w].deps
    BY <1>0, <1>2 DEF WorkInv, ActiveMirrored, TypeInv, TypeOK, Keyed, WorkRows
  <2>2. \A b \in Attempts \ {a} : att[b].kind = "worker" /\ att[b].state \in Active => att[b].work # w
    BY <1>2 DEF WorkInv, OneActive, ActiveMirrored, Active
  <2>3. KindOK'
    BY <1>0 DEF WorkInv, KindOK
  <2>4. OneActive'
    BY <1>0, <2>2 DEF WorkInv, OneActive
  <2>5. ActiveMirrored'
    BY <1>0, <2>1, <2>2 DEF WorkInv, ActiveMirrored, TypeInv, Keyed, Active
  <2>6. ActiveHeld'
    BY <1>0, <1>2, <2>1 DEF WorkInv, ActiveHeld
  <2>7. Tried'
    BY <1>0, <1>1, <2>1 DEF WorkInv, Tried, Made
  <2>8. Untried'
    BY <1>0, <1>1, <2>1 DEF WorkInv, Untried, Made
  <2>9. DependenciesFirst'
    BY <2>1, <1>0 DEF WorkInv, DependenciesFirst, TypeInv, TypeOK, WorkRows, Active
  <2>10. AcceptedIsCurrent'
    <3> SUFFICES ASSUME NEW v \in Works, work'[v].state = "accepted"
                 PROVE  \E b \in Made' : /\ att'[b].work = v /\ att'[b].state = "submitted"
                                         /\ att'[b].sub = work'[v].rev /\ att'[b].proc = "stopped"
      BY DEF AcceptedIsCurrent
    <3>1. v # w /\ work'[v] = work[v]
      BY <1>0, <2>1
    <3>2. PICK b \in Made : /\ att[b].work = v /\ att[b].state = "submitted"
                            /\ att[b].sub = work[v].rev /\ att[b].proc = "stopped"
      BY <3>1 DEF WorkInv, AcceptedIsCurrent
    <3>3. att'[b] = att[b]
      BY <1>0, <3>1, <3>2 DEF Made
    <3>4. QED
      BY <1>1, <3>1, <3>2, <3>3
  <2>11. QED
    BY <2>3, <2>4, <2>5, <2>6, <2>7, <2>8, <2>9, <2>10 DEF WorkInv
<1>3. CASE att[a].kind = "coordinator"
  <2>1. work' = work /\ att[a].work \notin Works
    BY <1>3, NoWorkAssumption DEF WorkInv, KindOK
  <2>2. KindOK' /\ OneActive' /\ ActiveMirrored'
    BY <1>0, <1>3, <2>1 DEF WorkInv, KindOK, OneActive, ActiveMirrored
  <2>3. ActiveHeld'
    BY <1>0, <1>3, <2>1 DEF WorkInv, ActiveHeld
  <2>4. Tried' /\ Untried'
    BY <1>0, <1>1, <2>1 DEF WorkInv, Tried, Untried, Made
  <2>5. DependenciesFirst'
    BY <2>1 DEF WorkInv, DependenciesFirst
  <2>6. AcceptedIsCurrent'
    <3>1. \A b \in Made : att[b].work \in Works => att'[b] = att[b]
      BY <1>0, <2>1 DEF Made
    <3>2. QED
      BY <1>1, <2>1, <3>1 DEF WorkInv, AcceptedIsCurrent
  <2>7. QED
    BY <2>2, <2>3, <2>4, <2>5, <2>6 DEF WorkInv
<1>4. QED
  BY <1>0, <1>2, <1>3

\* A grant: the item was ready, so no attempt holds it, and what it depends on
\* is accepted.
LEMMA WorkGranted ==
  ASSUME TypeInv, WorkInv
  PROVE  /\ \A a \in Attempts, w \in Works, n \in Amounts : Assign(a, w, n) => WorkInv'
         /\ \A a \in Attempts, n \in Amounts : StartCoordinator(a, n) => WorkInv'
<1>1. ASSUME NEW a \in Attempts, NEW w \in Works, NEW n \in Amounts, Assign(a, w, n) PROVE WorkInv'
  <2> DEFINE row == Granted("worker", w, n)
  <2>1. /\ att'[a] = row /\ \A b \in Attempts \ {a} : att'[b] = att[b]
        /\ att[a].state = "absent" /\ work[w].state = "ready"
        /\ \A v \in Works \ {w} : work'[v] = work[v]
        /\ work'[w].state = "leased" /\ work'[w].deps = work[w].deps
    BY <1>1 DEF Assign, Fresh, TypeInv, TypeOK, WorkRows
  <2>2. row.state = "leased" /\ row.kind = "worker" /\ row.work = w
    BY GrantedRow
  <2> HIDE DEF row
  <2>3. Made' = Made \cup {a} /\ a \notin Made
    BY <2>1, <2>2 DEF Made
  <2>4. \A b \in Attempts : att[b].kind = "worker" /\ att[b].state \in Active => att[b].work # w /\ b # a
    BY <2>1 DEF WorkInv, ActiveMirrored, Active
  <2>5. KindOK' /\ OneActive'
    BY <2>1, <2>2, <2>4 DEF WorkInv, KindOK, OneActive
  <2>6. ActiveMirrored'
    BY <2>1, <2>2, <2>4 DEF WorkInv, ActiveMirrored, TypeInv, Keyed, Active
  <2>7. ActiveHeld'
    BY <2>1, <2>2, <2>4 DEF WorkInv, ActiveHeld, Active
  <2>8. Tried' /\ Untried'
    BY <2>1, <2>2, <2>3 DEF WorkInv, Tried, Untried, Made
  <2>9. DependenciesFirst'
    BY <2>1 DEF WorkInv, DependenciesFirst, TypeInv, TypeOK, WorkRows
  <2>10. AcceptedIsCurrent'
    BY <2>1, <2>3 DEF WorkInv, AcceptedIsCurrent, Made
  <2>11. QED
    BY <2>5, <2>6, <2>7, <2>8, <2>9, <2>10 DEF WorkInv
<1>2. ASSUME NEW a \in Attempts, NEW n \in Amounts, StartCoordinator(a, n) PROVE WorkInv'
  <2> DEFINE row == Granted("coordinator", NoWork, n)
  <2>1. /\ att'[a] = row /\ \A b \in Attempts \ {a} : att'[b] = att[b]
        /\ att[a].state = "absent" /\ work' = work
    BY <1>2 DEF StartCoordinator, Fresh, TypeInv, TypeOK
  <2>2. row.state = "leased" /\ row.kind = "coordinator" /\ row.work = NoWork
    BY GrantedRow
  <2> HIDE DEF row
  <2>3. Made' = Made \cup {a} /\ a \notin Made
    BY <2>1, <2>2 DEF Made
  <2>4. KindOK' /\ OneActive' /\ ActiveMirrored'
    BY <2>1, <2>2 DEF WorkInv, KindOK, OneActive, ActiveMirrored
  <2>5. ActiveHeld'
    BY <2>1, <2>2 DEF WorkInv, ActiveHeld, Active
  <2>6. Tried' /\ Untried'
    BY <2>1, <2>2, <2>3, NoWorkAssumption DEF WorkInv, Tried, Untried, Made
  <2>7. DependenciesFirst'
    BY <2>1 DEF WorkInv, DependenciesFirst
  <2>8. AcceptedIsCurrent'
    BY <2>1, <2>3 DEF WorkInv, AcceptedIsCurrent, Made
  <2>9. QED
    BY <2>4, <2>5, <2>6, <2>7, <2>8 DEF WorkInv
<1>3. QED
  BY <1>1, <1>2

\* What the readiness pass makes of each item.
LEMMA ReadyFields ==
  ASSUME NEW wk \in [Works -> WorkRows], NEW w \in Works
  PROVE  /\ Ready(wk)[w].deps = wk[w].deps /\ Ready(wk)[w].rev = wk[w].rev
         /\ Ready(wk)[w].state = IF wk[w].state \in {"pending", "ready"}
                                 THEN IF \E d \in wk[w].deps : wk[d].state # "accepted"
                                      THEN "pending" ELSE "ready"
                                 ELSE wk[w].state
<1> DEFINE s == IF \E d \in wk[w].deps : wk[d].state # "accepted" THEN "pending" ELSE "ready"
<1>1. Ready(wk)[w] = IF wk[w].state \in {"pending", "ready"} THEN [wk[w] EXCEPT !.state = s] ELSE wk[w]
  BY DEF Ready
<1> HIDE DEF s
<1>2. wk[w] \in WorkRows
  OBVIOUS
<1>3. [wk[w] EXCEPT !.state = s].deps = wk[w].deps /\ [wk[w] EXCEPT !.state = s].rev = wk[w].rev
      /\ [wk[w] EXCEPT !.state = s].state = s
  BY <1>2 DEF WorkRows
<1>4. QED
  BY <1>1, <1>3 DEF s

\* A step that replans or decides on items without an attempt at hand: what is
\* held stays, what is accepted stays, what moves was idle or comes to rest, and
\* only an item that is waiting may be respecified.
Decides(wk) == \A w \in Works :
  /\ work[w].state \in Active \/ wk[w].state \in Active => wk[w].state = work[w].state
  /\ wk[w].state \notin Idle => work[w].state \notin Idle /\ wk[w].deps = work[w].deps
                                /\ wk[w].rev = work[w].rev
  /\ wk[w].state = "absent" => work[w].state = "absent"
  /\ work[w].state = "accepted" => wk[w].state = "accepted"

LEMMA WorkDecided ==
  ASSUME TypeInv, WorkInv, att' = att, NEW wk \in [Works -> WorkRows], Decides(wk), work' = Ready(wk),
         \A w \in Works : wk[w].state = "accepted" /\ work[w].state # "accepted" =>
           \E a \in Made : /\ att[a].work = w /\ att[a].state = "submitted"
                           /\ att[a].sub = work[w].rev /\ att[a].proc = "stopped"
  PROVE  WorkInv'
<1>1. /\ Made' = Made
      /\ \A w \in Works :
           /\ work'[w].deps = wk[w].deps /\ work'[w].rev = wk[w].rev
           /\ work'[w].state \notin {"pending", "ready"} => work'[w].state = wk[w].state
           /\ wk[w].state \notin {"pending", "ready"} => work'[w].state = wk[w].state
           /\ work'[w].state = "ready" => \A d \in wk[w].deps : wk[d].state = "accepted"
           /\ wk[w].deps \subseteq Works
  BY ReadyFields DEF Made, WorkRows
<1>2. KindOK' /\ OneActive'
  BY DEF WorkInv, KindOK, OneActive
<1>3. \A w \in Works : work[w].state \in Active \/ work'[w].state \in Active => work'[w].state = work[w].state
  BY <1>1 DEF Decides, Active
<1>4. ActiveMirrored' /\ ActiveHeld'
  BY <1>3 DEF WorkInv, ActiveMirrored, ActiveHeld, TypeInv, Keyed, Active
<1>5. Tried' /\ Untried'
  BY <1>1 DEF WorkInv, Tried, Untried, Decides, Idle
<1>6. DependenciesFirst'
  <2> SUFFICES ASSUME NEW w \in Works, work'[w].state \notin {"absent", "pending", "cancelled"},
                      NEW d \in work'[w].deps
               PROVE  work'[d].state = "accepted"
    BY DEF DependenciesFirst
  <2>1. d \in Works /\ d \in wk[w].deps
    BY <1>1
  <2>2. wk[d].state = "accepted"
    <3>1. CASE work'[w].state = "ready"
      BY <1>1, <2>1, <3>1
    <3>2. CASE work'[w].state # "ready"
      <4>1. wk[w].state \notin Idle
        BY <1>1, <3>2 DEF Idle
      <4>2. work[w].state \notin Idle /\ d \in work[w].deps
        BY <2>1, <4>1 DEF Decides
      <4>3. work[d].state = "accepted"
        BY <4>2 DEF WorkInv, DependenciesFirst, Idle
      <4>4. QED
        BY <2>1, <4>3 DEF Decides
    <3>3. QED
      BY <3>1, <3>2
  <2>3. QED
    BY <1>1, <2>1, <2>2
<1>7. AcceptedIsCurrent'
  <2>1. \A w \in Works : work'[w].state = "accepted" => wk[w].state = "accepted" /\ work'[w].rev = work[w].rev
    BY <1>1 DEF Decides, Idle
  <2>2. QED
    BY <1>1, <2>1 DEF WorkInv, AcceptedIsCurrent
<1>8. QED
  BY <1>2, <1>4, <1>5, <1>6, <1>7 DEF WorkInv

\* The owner's decisions on items.
LEMMA WorkOwner ==
  ASSUME TypeInv, WorkInv
  PROVE  /\ \A p \in Plans : Plan(p) => WorkInv'
         /\ \A w \in Works : Retry(w) => WorkInv'
         /\ \A s \in SUBSET Works : Recover(s) => WorkInv'
         /\ \A a \in Attempts : AcceptResult(a) => WorkInv'
         /\ Stop => WorkInv'
<1>0. work \in [Works -> WorkRows] /\ \A w \in Works : work[w] \in WorkRows
  BY DEF TypeInv, TypeOK
<1>1. ASSUME NEW p \in Plans, Plan(p) PROVE WorkInv'
  <2>1. DOMAIN p \subseteq Works /\ \A w \in DOMAIN p : p[w] \subseteq Works
    BY PlansAssumption
  <2>2. \A w \in Works : /\ Planned(p)[w] \in WorkRows
                         /\ work[w].state # "absent" => Planned(p)[w].state = work[w].state
                         /\ work[w].state = "absent" => Planned(p)[w].state \in {"absent", "pending"}
                         /\ Planned(p)[w].deps # work[w].deps \/ Planned(p)[w].rev # work[w].rev =>
                              work[w].state = "absent" \/ \A a \in Made : att[a].work # w
    <3> SUFFICES ASSUME NEW w \in Works, w \in DOMAIN p
                 PROVE  /\ Planned(p)[w] \in WorkRows
                        /\ work[w].state # "absent" => Planned(p)[w].state = work[w].state
                        /\ work[w].state = "absent" => Planned(p)[w].state = "pending"
                        /\ Planned(p)[w].deps # work[w].deps \/ Planned(p)[w].rev # work[w].rev =>
                             work[w].state = "absent" \/ \A a \in Made : att[a].work # w
      BY <1>0 DEF Planned
    <3>1. CASE work[w].state = "absent"
      BY <2>1, <3>1, BoundAssumption DEF Planned, WorkRows, WorkStates
    <3>2. CASE work[w].state # "absent" /\ work[w].deps = p[w]
      BY <1>0, <3>2 DEF Planned
    <3>3. CASE work[w].state # "absent" /\ work[w].deps # p[w]
      <4>1. work[w].rev < MaxRevision /\ \A a \in Made : att[a].work # w
        BY <1>1, <3>3 DEF Plan, PlanAllowed, Present
      <4>2. work[w].rev + 1 \in 1..MaxRevision
        BY <1>0, <4>1, BoundAssumption DEF WorkRows
      <4>3. Planned(p)[w] = [work[w] EXCEPT !.deps = p[w], !.rev = @ + 1]
        BY <3>3 DEF Planned
      <4>4. [work[w] EXCEPT !.deps = p[w], !.rev = @ + 1] \in WorkRows
            /\ [work[w] EXCEPT !.deps = p[w], !.rev = @ + 1].state = work[w].state
        <5>1. work[w] \in WorkRows /\ p[w] \in SUBSET Works
          BY <1>0, <2>1
        <5>2. QED
          BY <4>2, <5>1 DEF WorkRows
      <4>5. QED
        BY <3>3, <4>1, <4>3, <4>4
    <3>4. QED
      BY <3>1, <3>2, <3>3
  <2>3. Planned(p) \in [Works -> WorkRows]
    BY <2>2 DEF Planned
  <2>4. Decides(Planned(p))
    BY <2>2 DEF Decides, WorkInv, Tried, Idle, Active
  <2>5. \A w \in Works : Planned(p)[w].state = "accepted" => work[w].state = "accepted"
    BY <2>2
  <2>6. work' = Ready(Planned(p)) /\ att' = att
    BY <1>1 DEF Plan
  <2>7. QED
    BY <2>3, <2>4, <2>5, <2>6, WorkDecided
<1>2. ASSUME NEW w \in Works, Retry(w) PROVE WorkInv'
  <2> DEFINE wk == [work EXCEPT ![w].state = "pending"]
  <2>1. wk \in [Works -> WorkRows]
    BY <1>0, WorkMovedType DEF WorkStates
  <2>2. /\ wk[w].state = "pending" /\ \A v \in Works \ {w} : wk[v] = work[v]
        /\ work[w].state \in {"failed", "cancelled"} /\ work' = Ready(wk) /\ att' = att
    BY <1>0, <1>2 DEF Retry, WorkRows
  <2> HIDE DEF wk
  <2>3. Decides(wk) /\ \A v \in Works : wk[v].state = "accepted" => work[v].state = "accepted"
    BY <2>2 DEF Decides, Active, Idle
  <2>4. QED
    BY <2>1, <2>2, <2>3, WorkDecided
<1>3. ASSUME NEW s \in SUBSET Works, Recover(s) PROVE WorkInv'
  <2> DEFINE wk == [w \in Works |-> IF w \in s THEN [work[w] EXCEPT !.state = "pending"] ELSE work[w]]
  <2>1. wk \in [Works -> WorkRows]
    BY <1>0 DEF WorkRows, WorkStates
  <2>2. att' = att /\ (work' = work \/ (/\ work' = Ready(wk)
                                        /\ \A w \in s : work[w].state \in {"failed", "cancelled"}))
    BY <1>3 DEF Recover
  <2>3. \A w \in Works : IF w \in s THEN wk[w].state = "pending" ELSE wk[w] = work[w]
    BY <1>0 DEF WorkRows
  <2> HIDE DEF wk
  <2>4. CASE work' = work
    BY <2>2, <2>4, WorkKept DEF Keeps
  <2>5. CASE work' = Ready(wk) /\ \A w \in s : work[w].state \in {"failed", "cancelled"}
    <3>1. Decides(wk) /\ \A v \in Works : wk[v].state = "accepted" => work[v].state = "accepted"
      BY <2>3, <2>5 DEF Decides, Active, Idle
    <3>2. QED
      BY <2>1, <2>2, <2>5, <3>1, WorkDecided
  <2>6. QED
    BY <2>2, <2>4, <2>5
<1>4. ASSUME NEW a \in Attempts, AcceptResult(a) PROVE WorkInv'
  <2> DEFINE w == att[a].work
             wk == [work EXCEPT ![w].state = "accepted"]
  <2>1. /\ a \in Made /\ w \in Works /\ work[w].state = "submitted" /\ att' = att /\ work' = Ready(wk)
        /\ att[a].state = "submitted" /\ att[a].sub = work[w].rev /\ att[a].proc = "stopped"
    BY <1>4 DEF AcceptResult, Resolved, Made, TypeInv, Keyed
  <2>2. wk \in [Works -> WorkRows]
    BY <1>0, WorkMovedType DEF WorkStates
  <2>3. wk[w].state = "accepted" /\ wk[w].deps = work[w].deps /\ wk[w].rev = work[w].rev
        /\ \A v \in Works \ {w} : wk[v] = work[v]
    BY <1>0, <2>1 DEF WorkRows
  <2> HIDE DEF w, wk
  <2>4. Decides(wk)
    BY <2>1, <2>3 DEF Decides, Active, Idle
  <2>5. \A v \in Works : wk[v].state = "accepted" /\ work[v].state # "accepted" => v = w
    BY <2>3
  <2>6. QED
    BY <2>1, <2>2, <2>4, <2>5, WorkDecided DEF w
<1>5. ASSUME Stop PROVE WorkInv'
  <2>1. /\ att' = att /\ Made' = Made
        /\ \A w \in Works : /\ work'[w].deps = work[w].deps /\ work'[w].rev = work[w].rev
                            /\ work'[w].state = IF work[w].state \in {"ready", "pending"}
                                                THEN "cancelled" ELSE work[w].state
    BY <1>0, <1>5 DEF Stop, WorkRows, Made
  <2>2. KindOK' /\ OneActive' /\ ActiveMirrored'
    BY <2>1 DEF WorkInv, KindOK, OneActive, ActiveMirrored, TypeInv, Keyed, Active
  <2>3. ActiveHeld' /\ Tried' /\ Untried'
    BY <2>1 DEF WorkInv, ActiveHeld, Tried, Untried, Active, Idle
  <2>4. DependenciesFirst'
    BY <1>0, <2>1 DEF WorkInv, DependenciesFirst, WorkRows
  <2>5. AcceptedIsCurrent'
    BY <2>1 DEF WorkInv, AcceptedIsCurrent
  <2>6. QED
    BY <2>2, <2>3, <2>4, <2>5 DEF WorkInv
<1>6. QED
  BY <1>1, <1>2, <1>3, <1>4, <1>5

\* A command that accounts for an attempt it does not otherwise move.
LEMMA WorkAccounted ==
  ASSUME TypeInv, WorkInv, NEW a \in Attempts, NEW row \in AttemptRows, NEW rq,
         att' = [att EXCEPT ![a] = Refreshed(row, rq, a)],
         work' = WorkAfter(work, att[a], Refreshed(row, rq, a)),
         row.state = att[a].state, row.kind = att[a].kind, row.work = att[a].work,
         row.proc = att[a].proc, row.sub = att[a].sub
  PROVE  WorkInv'
<1> DEFINE new == Refreshed(row, rq, a)
<1>1. /\ new.state = row.state \/ (row.state = "uncertain" /\ new.state = "failed")
      /\ new.kind = row.kind /\ new.work = row.work /\ new.proc = row.proc /\ new.sub = row.sub
  BY RefreshedShape
<1>2. att' = [att EXCEPT ![a] = new] /\ work' = WorkAfter(work, att[a], new)
  OBVIOUS
<1> HIDE DEF new
<1>3. CASE new.state = att[a].state
  <2>1. work' = work /\ \A b \in Attempts : Keeps(b)
    BY <1>1, <1>2, <1>3 DEF WorkAfter, Keeps, TypeInv, TypeOK
  <2>2. QED
    BY <2>1, WorkKept
<1>4. CASE new.state # att[a].state
  <2>1. new.state = "failed" /\ att[a].state \in Active
    BY <1>1, <1>4 DEF Active
  <2>2. work' = IF att[a].kind = "worker" THEN [work EXCEPT ![att[a].work].state = new.state] ELSE work
    BY <1>2, <1>4 DEF WorkAfter
  <2>3. /\ new.kind = att[a].kind /\ new.work = att[a].work
        /\ new.state \in AttemptStates \ {"absent"}
    BY <1>1, <2>1 DEF AttemptStates
  <2>4. QED
    BY <1>2, <2>1, <2>2, <2>3, WorkMoved
<1>5. QED
  BY <1>3, <1>4

\* A takeover fences attempts and items alike.
LEMMA WorkFenced ==
  ASSUME TypeInv, ExecInv, WorkInv, Acquire
  PROVE  WorkInv'
<1>0. /\ \A a \in Attempts : att[a] \in AttemptRows /\ RowOK(att[a], exec[a])
      /\ \A w \in Works : work[w] \in WorkRows
  BY DEF TypeInv, TypeOK, ExecInv
<1>1. \A a \in Attempts :
        /\ att'[a].kind = att[a].kind /\ att'[a].work = att[a].work /\ att'[a].sub = att[a].sub
        /\ att'[a].state = IF att[a].state \in {"leased", "running"} THEN "uncertain" ELSE att[a].state
        /\ att[a].proc = "stopped" => att'[a].proc = "stopped"
  <2> TAKE a \in Attempts
  <2>1. CASE att[a].state = "absent"
    BY <2>1 DEF Acquire
  <2>2. CASE att[a].state # "absent"
    <3>1. att'[a] = Fenced(att[a])
      BY <2>2 DEF Acquire
    <3>2. QED
      BY <1>0, <3>1, FencedFields, FencedShape DEF RowOK
  <2>3. QED
    BY <2>1, <2>2
<1>2. \A w \in Works :
        /\ work'[w].deps = work[w].deps /\ work'[w].rev = work[w].rev
        /\ work'[w].state = IF work[w].state \in {"leased", "running"} THEN "uncertain" ELSE work[w].state
  BY <1>0 DEF Acquire, WorkRows
<1>3. Made' = Made
  BY <1>1 DEF Made
<1>4. KindOK' /\ OneActive'
  BY <1>1 DEF WorkInv, KindOK, OneActive, Active
<1>5. ActiveMirrored'
  BY <1>1, <1>2 DEF WorkInv, ActiveMirrored, TypeInv, Keyed, Active
<1>6. ActiveHeld'
  <2> SUFFICES ASSUME NEW w \in Works, work'[w].state \in Active
               PROVE  \E a \in Attempts : att'[a].kind = "worker" /\ att'[a].work = w
                                          /\ att'[a].state = work'[w].state
    BY DEF ActiveHeld
  <2>1. work[w].state \in Active
    BY <1>2 DEF Active
  <2>2. PICK a \in Attempts : att[a].kind = "worker" /\ att[a].work = w /\ att[a].state = work[w].state
    BY <2>1 DEF WorkInv, ActiveHeld
  <2>3. QED
    BY <1>1, <1>2, <2>2
<1>7. Tried' /\ Untried'
  BY <1>1, <1>2, <1>3 DEF WorkInv, Tried, Untried, Idle, Made
<1>8. DependenciesFirst'
  BY <1>0, <1>2 DEF WorkInv, DependenciesFirst, WorkRows
<1>9. AcceptedIsCurrent'
  BY <1>1, <1>2, <1>3 DEF WorkInv, AcceptedIsCurrent, Made
<1>10. QED
  BY <1>4, <1>5, <1>6, <1>7, <1>8, <1>9 DEF WorkInv

\* No step loses track of who holds an item: what participants do,
LEMMA WorkParticipant ==
  ASSUME TypeInv, ExecInv, WorkInv
  PROVE  /\ \A a \in Attempts : WorkerStarted(a) \/ ProcessStarted(a) => WorkInv'
         /\ \A a \in Attempts : BeginTool(a) \/ Submit(a) => WorkInv'
         /\ \A a \in Attempts, o \in {"completed", "uncertain"} : EndTool(a, o) => WorkInv'
         /\ \A a \in Attempts : ProcessStopped(a) \/ NotLaunched(a) \/ ExecutionEnds(a) => WorkInv'
         /\ \A a \in Attempts, p, c \in BOOLEAN : ControlWorker(a, p, c) => WorkInv'
<1> USE DEF env, db
<1>0. \A a \in Attempts : att[a] \in AttemptRows /\ RowOK(att[a], exec[a])
  BY DEF TypeInv, TypeOK, ExecInv
<1>1. ASSUME NEW a \in Attempts, NEW row, att' = [att EXCEPT ![a] = row], work' = work,
             Same(row, att[a]), row.state = att[a].state, row.proc = att[a].proc,
             row.sub = att[a].sub \/ att[a].proc # "stopped"
      PROVE  WorkInv'
  BY <1>1, WorkKept DEF Keeps, Same, TypeInv, TypeOK
<1>2. ASSUME NEW a \in Attempts, WorkerStarted(a) PROVE WorkInv'
  <2> DEFINE row == [att[a] EXCEPT !.state = "running", !.proc = "running"]
  <2>1. Same(row, att[a]) /\ row.state = "running"
    BY <1>0, StartedRow
  <2>2. /\ att' = [att EXCEPT ![a] = row] /\ work' = WorkAfter(work, att[a], row)
        /\ att[a].state = "leased"
    BY <1>2 DEF WorkerStarted, TypeInv, TypeOK
  <2> HIDE DEF row
  <2>3. /\ row.kind = att[a].kind /\ row.work = att[a].work /\ att[a].state \in Active
        /\ row.state \in AttemptStates \ {"absent"}
    BY <2>1, <2>2 DEF Same, AttemptStates, Active
  <2>4. work' = IF att[a].kind = "worker" THEN [work EXCEPT ![att[a].work].state = row.state] ELSE work
    BY <2>1, <2>2 DEF WorkAfter
  <2>5. QED
    BY <2>2, <2>3, <2>4, WorkMoved
<1>3. ASSUME NEW a \in Attempts, NEW o \in {"started", "stopped", "unknown"},
             att' = [att EXCEPT ![a].obs = o], work' = work
      PROVE  WorkInv'
  <2> DEFINE row == [att[a] EXCEPT !.obs = o]
  <2>1. Same(row, att[a]) /\ row.state = att[a].state /\ row.proc = att[a].proc /\ row.sub = att[a].sub
    BY <1>0, ObservedRow
  <2>2. att' = [att EXCEPT ![a] = row]
    BY <1>3
  <2> HIDE DEF row
  <2>3. QED
    BY <1>1, <1>3, <2>1, <2>2
<1>4. ASSUME NEW a \in Attempts, NEW c \in {"admitted", "completed", "uncertain"},
             att' = [att EXCEPT ![a].act = c], work' = work
      PROVE  WorkInv'
  <2> DEFINE row == [att[a] EXCEPT !.act = c]
  <2>1. Same(row, att[a]) /\ row.state = att[a].state /\ row.proc = att[a].proc /\ row.sub = att[a].sub
    BY <1>0, ActedRow
  <2>2. att' = [att EXCEPT ![a] = row]
    BY <1>4
  <2> HIDE DEF row
  <2>3. QED
    BY <1>1, <1>4, <2>1, <2>2
<1>5. ASSUME NEW a \in Attempts, Submit(a) PROVE WorkInv'
  <2> DEFINE row == [att[a] EXCEPT !.sub = work[att[a].work].rev]
  <2>1. work[att[a].work].rev \in Nat
    BY <1>5, BoundAssumption DEF Submit, Current, TypeInv, Keyed, TypeOK, WorkRows
  <2>2. Same(row, att[a]) /\ row.state = att[a].state /\ row.proc = att[a].proc
    BY <1>0, <2>1, SubmittedRow
  <2>3. att' = [att EXCEPT ![a] = row] /\ work' = work /\ att[a].proc # "stopped"
    BY <1>5 DEF Submit
  <2> HIDE DEF row
  <2>4. QED
    BY <1>1, <2>2, <2>3
<1>6. ASSUME NEW a \in Attempts, NEW p \in BOOLEAN, NEW c \in BOOLEAN, ControlWorker(a, p, c) PROVE WorkInv'
  <2> DEFINE row == [att[a] EXCEPT !.pause = p, !.cancel = c]
  <2>1. Same(row, att[a]) /\ row.state = att[a].state /\ row.proc = att[a].proc /\ row.sub = att[a].sub
    BY <1>0 DEF AttemptRows, Same
  <2>2. att' = [att EXCEPT ![a] = row] /\ work' = work
    BY <1>6 DEF ControlWorker
  <2> HIDE DEF row
  <2>3. QED
    BY <1>1, <2>1, <2>2
<1>7. ASSUME NEW a \in Attempts, NotLaunched(a) \/ ExecutionEnds(a) PROVE WorkInv'
  BY <1>7, WorkKept DEF NotLaunched, ExecutionEnds, Keeps
<1>8. QED
  BY <1>2, <1>3, <1>4, <1>5, <1>6, <1>7 DEF ProcessStarted, BeginTool, EndTool, ProcessStopped

\* and what is settled, reported, rejected and recovered.
LEMMA WorkRecovery ==
  ASSUME TypeInv, ExecInv, WorkInv
  PROVE  /\ \A r \in Requests, o \in {"completed", "failed", "not_started", "uncertain"} :
              Settle(r, o) /\ req[r].state # "absent" => WorkInv'
         /\ \A a \in Attempts, o \in {"submitted", "completed", "failed", "cancelled"} :
              RecordStop(a, o) => WorkInv'
         /\ \A a \in Attempts : ReconcileAction(a) \/ Reject(a) => WorkInv'
         /\ ReconcileProcess => WorkInv'
<1>0. \A a \in Attempts : att[a] \in AttemptRows /\ RowOK(att[a], exec[a])
  BY DEF TypeInv, TypeOK, ExecInv
<1>1. ASSUME NEW r \in Requests, NEW o \in {"completed", "failed", "not_started", "uncertain"},
             Settle(r, o), req[r].state # "absent"
      PROVE  WorkInv'
  <2>1. req[r].att \in Attempts
    BY <1>1 DEF TypeInv, Keyed
  <2>2. /\ att' = [att EXCEPT ![req[r].att] = Refreshed(att[req[r].att], req', req[r].att)]
        /\ work' = WorkAfter(work, att[req[r].att], Refreshed(att[req[r].att], req', req[r].att))
    BY <1>1, <2>1 DEF Settle, TypeInv, TypeOK
  <2>3. QED
    BY <1>0, <2>1, <2>2, WorkAccounted
<1>2. ASSUME NEW a \in Attempts, NEW o \in {"submitted", "completed", "failed", "cancelled"}, RecordStop(a, o)
      PROVE  WorkInv'
  <2>1. PICK row \in AttemptRows : StopWrites(a, o, row)
    BY <1>2, StopRow
  <2> DEFINE new == Refreshed(row, req', a)
  <2>2. /\ new.state = row.state \/ (row.state = "uncertain" /\ new.state = "failed")
        /\ new.kind = row.kind /\ new.work = row.work
    BY RefreshedShape
  <2>3. /\ att' = [att EXCEPT ![a] = new]
        /\ work' = IF att[a].kind = "worker" THEN [work EXCEPT ![att[a].work].state = new.state] ELSE work
        /\ row.kind = att[a].kind /\ row.work = att[a].work /\ row.state \in {"uncertain", o}
    BY <2>1 DEF StopWrites
  <2> HIDE DEF new
  <2>4. /\ new.kind = att[a].kind /\ new.work = att[a].work /\ new.state \in AttemptStates \ {"absent"}
    BY <2>2, <2>3 DEF AttemptStates
  <2>5. att[a].state \in Active
    BY <1>0, <1>2 DEF RecordStop, RowOK, Active, AttemptRows
  <2>6. QED
    BY <2>3, <2>4, <2>5, WorkMoved
<1>3. ASSUME NEW a \in Attempts, ReconcileAction(a) PROVE WorkInv'
  <2> DEFINE row == [att[a] EXCEPT !.act = "completed"]
  <2>1. /\ Same(row, att[a]) /\ row.state = att[a].state /\ row.proc = att[a].proc
        /\ row.sub = att[a].sub
    BY <1>0, ActedRow
  <2>2. /\ att' = [att EXCEPT ![a] = Refreshed(row, req, a)]
        /\ work' = WorkAfter(work, att[a], Refreshed(row, req, a))
    BY <1>3 DEF ReconcileAction
  <2> HIDE DEF row
  <2>3. QED
    BY <2>1, <2>2, WorkAccounted DEF Same
<1>4. ASSUME NEW a \in Attempts, Reject(a) PROVE WorkInv'
  <2> DEFINE row == [att[a] EXCEPT !.state = "failed"]
  <2>1. Same(row, att[a]) /\ row.state = "failed"
    BY <1>0, RejectedRow
  <2>2. /\ att' = [att EXCEPT ![a] = row] /\ work' = [work EXCEPT ![att[a].work].state = "failed"]
        /\ att[a].kind = "worker" /\ att[a].state = "submitted" /\ work[att[a].work].state = "submitted"
    BY <1>4 DEF Reject
  <2> HIDE DEF row
  <2>3. /\ row.kind = att[a].kind /\ row.work = att[a].work /\ row.state \in AttemptStates \ {"absent"}
        /\ work' = IF att[a].kind = "worker" THEN [work EXCEPT ![att[a].work].state = row.state] ELSE work
    BY <2>1, <2>2 DEF Same, AttemptStates
  <2>4. QED
    BY <2>1, <2>2, <2>3, WorkMoved
<1>5. ASSUME ReconcileProcess PROVE WorkInv'
  <2> DEFINE a == seen.att
             row == [att[a] EXCEPT !.obs = seen.state]
  <2>1. a \in Attempts /\ seen.state \in {"stopped", "unknown"}
    BY <1>5, BoundAssumption DEF ReconcileProcess, TypeInv, TypeOK, Attempts
  <2>2. att[a] \in AttemptRows
    BY <1>0, <2>1
  <2>3. /\ row \in AttemptRows /\ row.state = att[a].state /\ row.proc = att[a].proc
        /\ row.kind = att[a].kind /\ row.work = att[a].work /\ row.sub = att[a].sub
    BY <2>1, <2>2 DEF AttemptRows
  <2>4. /\ att' = [att EXCEPT ![a] = Refreshed(row, req, a)]
        /\ work' = WorkAfter(work, att[a], Refreshed(row, req, a))
    BY <1>5 DEF ReconcileProcess
  <2> HIDE DEF a, row
  <2>5. QED
    BY <2>1, <2>3, <2>4, WorkAccounted
<1>6. QED
  BY <1>1, <1>2, <1>3, <1>4, <1>5

LEMMA WorkStep == TypeInv /\ ExecInv /\ WorkInv /\ [Next]_vars => WorkInv'
<1> SUFFICES ASSUME TypeInv, ExecInv, WorkInv, [Next]_vars PROVE WorkInv'
  OBVIOUS
<1> USE DEF env, db
<1>1. ASSUME UNCHANGED <<work, att>> PROVE WorkInv'
  BY <1>1, WorkKept DEF Keeps
<1>2. CASE UNCHANGED vars
  BY <1>1, <1>2 DEF vars
<1>3. ASSUME NEW p \in Plans, Plan(p) PROVE WorkInv'
  BY <1>3, WorkOwner
<1>4. ASSUME NEW a \in Attempts, NEW w \in Works, NEW n \in Amounts, Assign(a, w, n) PROVE WorkInv'
  BY <1>4, WorkGranted
<1>5. ASSUME NEW a \in Attempts, NEW n \in Amounts, StartCoordinator(a, n) PROVE WorkInv'
  BY <1>5, WorkGranted
<1>6. ASSUME NEW n \in 1..WorkerCap, SetConcurrency(n) PROVE WorkInv'
  BY <1>1, <1>6 DEF SetConcurrency
<1>7. ASSUME NEW a \in Attempts, PauseWorker(a) \/ ResumeWorker(a) \/ CancelWorker(a) PROVE WorkInv'
  <2>1. att[a].pause \in BOOLEAN
    BY DEF TypeInv, TypeOK, AttemptRows
  <2>2. QED
    BY <1>7, <2>1, WorkParticipant DEF PauseWorker, ResumeWorker, CancelWorker
<1>8. ASSUME NEW a \in Attempts, WorkerStarted(a) \/ ProcessStarted(a) \/ BeginTool(a) \/ Submit(a)
      PROVE  WorkInv'
  BY <1>8, WorkParticipant
<1>9. ASSUME NEW a \in Attempts, NEW r \in Requests, ReserveRequest(a, r) PROVE WorkInv'
  BY <1>1, <1>9 DEF ReserveRequest
<1>10. ASSUME NEW r \in Requests, StartRequest(r) PROVE WorkInv'
  BY <1>1, <1>10 DEF StartRequest
<1>11. ASSUME NEW r \in Requests, NEW o \in {"completed", "uncertain"}, SettleRequest(r, o) PROVE WorkInv'
  BY <1>11, WorkRecovery DEF SettleRequest
<1>12. ASSUME NEW a \in Attempts, NEW o \in {"completed", "uncertain"}, EndTool(a, o) PROVE WorkInv'
  BY <1>12, WorkParticipant
<1>13. ASSUME NEW a \in Attempts, ProcessStopped(a) \/ NotLaunched(a) \/ ExecutionEnds(a) PROVE WorkInv'
  BY <1>13, WorkParticipant
<1>14. ASSUME NEW a \in Attempts, NEW o \in {"submitted", "completed", "failed", "cancelled"},
              WorkerStopped(a, o)
       PROVE  WorkInv'
  BY <1>14, WorkRecovery DEF WorkerStopped
<1>15. CASE Pause \/ Resume \/ Checkpoint \/ Complete \/ LeaseExpires
  BY <1>1, <1>15 DEF Pause, Resume, Checkpoint, Complete, LeaseExpires
<1>16. CASE Stop
  BY <1>16, WorkOwner
<1>17. ASSUME NEW a \in Attempts, AcceptResult(a) \/ Reject(a) PROVE WorkInv'
  BY <1>17, WorkOwner, WorkRecovery
<1>18. ASSUME NEW w \in Works, Retry(w) PROVE WorkInv'
  BY <1>18, WorkOwner
<1>19. CASE Acquire
  BY <1>19, WorkFenced
<1>20. ASSUME NEW a \in Attempts, NEW s \in {"stopped", "unknown"}, InspectProcess(a, s) PROVE WorkInv'
  BY <1>1, <1>20 DEF InspectProcess
<1>21. CASE ReconcileProcess
  BY <1>21, WorkRecovery
<1>22. ASSUME NEW a \in Attempts, RecoverStop(a) \/ ReconcileAction(a) PROVE WorkInv'
  BY <1>22, WorkRecovery DEF RecoverStop
<1>23. ASSUME NEW r \in Requests, NEW o \in {"completed", "failed", "not_started", "uncertain"},
              ReconcileRequest(r, o)
       PROVE  WorkInv'
  BY <1>23, WorkRecovery DEF ReconcileRequest
<1>24. ASSUME NEW s \in SUBSET Works, Recover(s) PROVE WorkInv'
  BY <1>24, WorkOwner
<1>25. ASSUME NEW e \in Epochs, HostCrash(e) PROVE WorkInv'
  BY <1>1, <1>25 DEF HostCrash
<1>26. QED
  BY <1>2, <1>3, <1>4, <1>5, <1>6, <1>7, <1>8, <1>9, <1>10, <1>11, <1>12, <1>13, <1>14, <1>15,
     <1>16, <1>17, <1>18, <1>19, <1>20, <1>21, <1>22, <1>23, <1>24, <1>25 DEF Next

LEMMA WorkInit == Init => WorkInv
<1> SUFFICES ASSUME Init PROVE WorkInv
  OBVIOUS
<1>1. /\ \A a \in Attempts : att[a].state = "absent" /\ att[a].kind = "worker"
      /\ \A w \in Works : work[w].state = "absent"
  BY DEF Init, NoAttempt
<1>2. QED
  BY <1>1 DEF WorkInv, KindOK, OneActive, ActiveMirrored, ActiveHeld, Tried, Untried, Made, Active, Idle,
     DependenciesFirst, AcceptedIsCurrent

LEMMA WorkHeld == Spec => [](TypeInv /\ ExecInv /\ WorkInv)
  BY TypeInit, TypeStep, ExecInit, ExecStep, WorkInit, WorkStep, PTL DEF Spec

\* An item in the hands of a worker is in the hands of exactly one attempt,
\* whose state it shows: through takeovers, late reports and retries no item is
\* orphaned and none is handed out twice.
THEOREM WorkMirrored == Spec => []WorkMirrorsAttempt
<1>1. ASSUME TypeInv, WorkInv PROVE WorkMirrorsAttempt
  <2>1. ASSUME NEW w \in Works, work[w].state \in Active
        PROVE  Cardinality({a \in Made : att[a].work = w /\ att[a].state = work[w].state}) = 1
    <3> DEFINE holders == {a \in Made : att[a].work = w /\ att[a].state = work[w].state}
    <3>1. PICK a \in Attempts : att[a].kind = "worker" /\ att[a].work = w /\ att[a].state = work[w].state
      BY <1>1, <2>1 DEF WorkInv, ActiveHeld
    <3>2. \A b \in holders : att[b].kind = "worker" /\ att[b].state \in Active
      BY <1>1, <2>1, NoWorkAssumption DEF WorkInv, KindOK, Made, TypeInv, TypeOK, AttemptRows
    <3>3. holders \subseteq {a}
      BY <1>1, <2>1, <3>1, <3>2 DEF WorkInv, OneActive, Made
    <3>4. a \in holders
      BY <2>1, <3>1 DEF Made, Active
    <3> HIDE DEF holders
    <3>5. Cardinality(holders) = 1
      BY <3>3, <3>4, FS_Singleton
    <3>6. QED
      BY <3>5 DEF holders
  <2>2. \A a \in Made : att[a].kind = "worker" /\ att[a].state \in Active =>
          work[att[a].work].state = att[a].state
    BY <1>1 DEF WorkInv, ActiveMirrored, Made
  <2>3. QED
    BY <2>1, <2>2 DEF WorkMirrorsAttempt
<1>2. QED
  BY <1>1, WorkHeld, PTL

\* Two participants never execute for one item at once: what executes is not
\* recorded as stopped, so it still holds its item, fenced or not.
THEOREM OneExecution == Spec => []OneExecutionPerWork
<1>1. ASSUME TypeInv, ExecInv, WorkInv PROVE OneExecutionPerWork
  <2>1. \A a \in Executing : a \in Attempts /\ att[a].state \in Active
    BY <1>1 DEF ExecInv, RowOK, Executing, Active, TypeInv, TypeOK, AttemptRows
  <2>2. QED
    BY <1>1, <2>1 DEF WorkInv, OneActive, OneExecutionPerWork
<1>2. QED
  BY <1>1, WorkHeld, PTL

\* Work is handed out, run and accepted only on accepted dependencies.
THEOREM Dependencies == Spec => []DependenciesFirst
<1>1. WorkInv => DependenciesFirst
  BY DEF WorkInv
<1>2. QED
  BY <1>1, WorkHeld, PTL

\* An accepted item rests on a terminated attempt that submitted against the
\* specification the item still has.
THEOREM AcceptedCurrent == Spec => []AcceptedIsCurrent
<1>1. WorkInv => AcceptedIsCurrent
  BY DEF WorkInv
<1>2. QED
  BY <1>1, WorkHeld, PTL
=============================================================================
