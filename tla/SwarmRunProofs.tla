--------------------------- MODULE SwarmRunProofs ---------------------------
(***************************************************************************)
(* Theorems about SwarmRun, for every value of its constants.              *)
(***************************************************************************)
EXTENDS SwarmRun, FiniteSetTheorems, TLAPS

-----------------------------------------------------------------------------
(* The operators the actions are built from *)

\* The checkpoint of a transaction moves a draining run to its resting state
\* and touches nothing else of the run row.
LEMMA CheckpointedShape ==
  ASSUME NEW rn \in RunRows, NEW at, NEW rq
  PROVE  /\ Checkpointed(rn, at, rq) \in RunRows
         /\ Checkpointed(rn, at, rq).epoch = rn.epoch
         /\ Checkpointed(rn, at, rq).live = rn.live
         /\ Checkpointed(rn, at, rq).stop = rn.stop
         /\ Checkpointed(rn, at, rq).limit = rn.limit
         /\ \/ Checkpointed(rn, at, rq).state = rn.state
            \/ rn.state = "pausing" /\ Checkpointed(rn, at, rq).state = "paused"
            \/ rn.state = "stopping" /\ Checkpointed(rn, at, rq).state = "cancelled"
  BY DEF Checkpointed, RunRows, RunStates

\* What an attempt has spent is a number.
LEMMA SpentNat == ASSUME NEW rq, NEW a PROVE Spent(rq, a) \in Nat
<1> DEFINE S == {r \in RequestsOf(rq, a) : rq[r].state \in {"completed", "failed"}}
<1>1. IsFiniteSet(Requests)
  BY BoundAssumption, FS_Interval DEF Requests
<1>2. IsFiniteSet(S)
  BY <1>1, FS_Subset DEF RequestsOf
<1>3. QED
  BY <1>2, FS_CardinalityType DEF Spent

\* Accounting never moves an attempt, except that an uncertain one whose
\* effects are all known is failed.
LEMMA RefreshedShape ==
  ASSUME NEW row \in AttemptRows, NEW rq, NEW a
  PROVE  /\ Refreshed(row, rq, a) \in AttemptRows
         /\ Refreshed(row, rq, a).state = row.state \/ (row.state = "uncertain" /\ Refreshed(row, rq, a).state = "failed")
         /\ Refreshed(row, rq, a).kind = row.kind
         /\ Refreshed(row, rq, a).work = row.work
         /\ Refreshed(row, rq, a).epoch = row.epoch
         /\ Refreshed(row, rq, a).proc = row.proc
         /\ Refreshed(row, rq, a).obs = row.obs
         /\ Refreshed(row, rq, a).act = row.act
         /\ Refreshed(row, rq, a).amount = row.amount
         /\ Refreshed(row, rq, a).sub = row.sub
<1> DEFINE settled   == [row EXCEPT !.resv = "settled", !.used = Spent(rq, a)]
           uncertain == [row EXCEPT !.resv = "uncertain", !.used = 0]
           closed    == [settled EXCEPT !.state = "failed"]
<1>1. Spent(rq, a) \in Nat
  BY SpentNat
<1>2. settled \in AttemptRows /\ uncertain \in AttemptRows /\ closed \in AttemptRows
  BY <1>1 DEF AttemptRows, AttemptStates
<1>3. \/ Refreshed(row, rq, a) \in {row, settled, uncertain}
      \/ row.state = "uncertain" /\ Refreshed(row, rq, a) = closed
  BY DEF Refreshed
<1>4. \A new \in {row, settled, uncertain} : new.state = row.state
  BY DEF AttemptRows
<1>5. closed.state = "failed"
  BY <1>2 DEF AttemptRows
<1>6. \A new \in {row, settled, uncertain, closed} :
         /\ new.kind = row.kind /\ new.work = row.work /\ new.epoch = row.epoch
         /\ new.proc = row.proc /\ new.obs = row.obs /\ new.act = row.act
         /\ new.amount = row.amount /\ new.sub = row.sub
  BY DEF AttemptRows
<1> HIDE DEF settled, uncertain, closed
<1>7. QED
  BY <1>2, <1>3, <1>4, <1>5, <1>6

\* Fencing an attempt leaves a row the schema allows.
LEMMA FencedShape ==
  ASSUME NEW row \in AttemptRows
  PROVE  /\ Fenced(row) \in AttemptRows
         /\ Fenced(row).state \in {row.state, "uncertain"}
         /\ Fenced(row).kind = row.kind /\ Fenced(row).work = row.work
         /\ Fenced(row).epoch = row.epoch /\ Fenced(row).amount = row.amount
         /\ Fenced(row).sub = row.sub /\ Fenced(row).proc \notin {"pending", "running"}
         /\ Fenced(row).act # "admitted"
<1> DEFINE open == row.proc \in {"pending", "running"}
           s == IF open THEN "uncertain" ELSE row.state
           p == IF open THEN "unknown" ELSE row.proc
           o == IF row.obs = "started" THEN "unknown" ELSE row.obs
           c == IF row.act = "admitted" THEN "uncertain" ELSE row.act
           v == IF row.resv = "reserved" THEN "uncertain" ELSE row.resv
<1>1. Fenced(row) = [row EXCEPT !.state = s, !.proc = p, !.obs = o, !.act = c, !.resv = v]
  BY DEF Fenced
<1>2. s \in AttemptStates /\ s \in {row.state, "uncertain"}
  BY DEF AttemptRows, AttemptStates
<1>3. p \in {"stopped", "unknown"}
  BY DEF AttemptRows
<1>4. o \in {"none", "started", "stopped", "unknown"}
  BY DEF AttemptRows
<1>5. c \in {"none", "completed", "uncertain"}
  BY DEF AttemptRows
<1>6. v \in {"reserved", "settled", "uncertain"}
  BY DEF AttemptRows
<1> HIDE DEF s, p, o, c, v
<1>7. [row EXCEPT !.state = s, !.proc = p, !.obs = o, !.act = c, !.resv = v] \in AttemptRows
  BY <1>2, <1>3, <1>4, <1>5, <1>6 DEF AttemptRows
<1>8. /\ Fenced(row).state = s /\ Fenced(row).proc = p /\ Fenced(row).act = c
      /\ Fenced(row).kind = row.kind /\ Fenced(row).work = row.work
      /\ Fenced(row).epoch = row.epoch /\ Fenced(row).amount = row.amount
      /\ Fenced(row).sub = row.sub
  BY <1>1 DEF AttemptRows
<1>9. QED
  BY <1>1, <1>2, <1>3, <1>5, <1>7, <1>8

\* The readiness pass keeps every item's specification.
LEMMA ReadyType ==
  ASSUME NEW wk \in [Works -> WorkRows]
  PROVE  Ready(wk) \in [Works -> WorkRows]
  BY DEF Ready, WorkRows, WorkStates

\* Moving one item to another state keeps the items' type.
LEMMA WorkMovedType ==
  ASSUME NEW wk \in [Works -> WorkRows], NEW k, NEW s \in WorkStates
  PROVE  [wk EXCEPT ![k].state = s] \in [Works -> WorkRows]
<1>1. ASSUME k \in Works PROVE [wk[k] EXCEPT !.state = s] \in WorkRows
  BY <1>1 DEF WorkRows
<1>2. CASE k \in Works
  BY <1>1, <1>2
<1>3. CASE k \notin Works
  BY <1>3
<1>4. QED
  BY <1>2, <1>3

\* So does a work item that follows its attempt.
LEMMA WorkAfterType ==
  ASSUME NEW wk \in [Works -> WorkRows], NEW row, NEW new,
         new.state # row.state /\ row.kind = "worker" => new.state \in WorkStates
  PROVE  WorkAfter(wk, row, new) \in [Works -> WorkRows]
<1>1. CASE new.state # row.state /\ row.kind = "worker"
  BY <1>1, WorkMovedType DEF WorkAfter
<1>2. CASE ~(new.state # row.state /\ row.kind = "worker")
  BY <1>2 DEF WorkAfter
<1>3. QED
  BY <1>1, <1>2

\* Every work item that changes with its accounting is failed, a state of items.
LEMMA RefreshedWork ==
  ASSUME NEW wk \in [Works -> WorkRows], NEW row \in AttemptRows, NEW rq, NEW a
  PROVE  WorkAfter(wk, row, Refreshed(row, rq, a)) \in [Works -> WorkRows]
<1>1. Refreshed(row, rq, a).state # row.state => Refreshed(row, rq, a).state = "failed"
  BY RefreshedShape
<1>2. QED
  BY <1>1, WorkAfterType DEF WorkStates

-----------------------------------------------------------------------------
(* Type correctness *)

\* A worker has an item and a request has an attempt: what the foreign keys
\* of the schema say, and what makes the types inductive.
Keyed ==
  /\ \A a \in Attempts : att[a].state # "absent" /\ att[a].kind = "worker" => att[a].work \in Works
  /\ \A r \in Requests : IF req[r].state = "absent" THEN req[r].att = 0 ELSE req[r].att \in Attempts

TypeInv == TypeOK /\ Keyed

\* An attempt whose row moves, or a run row that commits, keeps its type.
LEMMA CommitType ==
  ASSUME NEW rn \in RunRows, CommitRun(rn)
  PROVE  run' \in RunRows
  BY CheckpointedShape DEF CommitRun

\* Planning, admission and the owner's controls keep the types.
LEMMA OwnerTypes ==
  ASSUME TypeOK
  PROVE  /\ \A p \in Plans : Plan(p) => TypeOK'
         /\ \A a \in Attempts, w \in Works, n \in Amounts : Assign(a, w, n) => TypeOK'
         /\ \A a \in Attempts, n \in Amounts : StartCoordinator(a, n) => TypeOK'
         /\ \A n \in 1..WorkerCap : SetConcurrency(n) => TypeOK'
         /\ \A a \in Attempts, pause, cancel \in BOOLEAN : ControlWorker(a, pause, cancel) => TypeOK'
<1> USE DEF env
<1>1. ASSUME NEW p \in Plans, Plan(p) PROVE TypeOK'
  <2>1. \A w \in Works : Planned(p)[w] \in WorkRows
    <3> SUFFICES ASSUME NEW w \in Works PROVE Planned(p)[w] \in WorkRows
      OBVIOUS
    <3>1. work[w] \in WorkRows /\ 1 \in 1..MaxRevision /\ (w \in DOMAIN p => p[w] \in SUBSET Works)
      BY PlansAssumption, BoundAssumption DEF TypeOK
    <3>2. CASE w \notin DOMAIN p \/ (work[w].state # "absent" /\ work[w].deps = p[w])
      BY <3>1, <3>2 DEF Planned
    <3>3. CASE w \in DOMAIN p /\ work[w].state = "absent"
      BY <3>1, <3>3 DEF Planned, WorkRows, WorkStates
    <3>4. CASE w \in DOMAIN p /\ work[w].state # "absent" /\ work[w].deps # p[w]
      <4>1. work[w].rev + 1 \in 1..MaxRevision
        BY <1>1, <3>1, <3>4, BoundAssumption DEF Plan, PlanAllowed, Present, WorkRows
      <4>2. [work[w] EXCEPT !.deps = p[w], !.rev = work[w].rev + 1] \in WorkRows
        BY <3>1, <3>4, <4>1 DEF WorkRows
      <4>3. QED
        BY <3>4, <4>2 DEF Planned
    <3>5. QED
      BY <3>2, <3>3, <3>4
  <2>2. work' \in [Works -> WorkRows]
    <3>1. Planned(p) \in [Works -> WorkRows]
      BY <2>1 DEF Planned
    <3>2. QED
      BY <1>1, <3>1, ReadyType DEF Plan
  <2>3. run' \in RunRows
    BY <1>1, CommitType DEF Plan, TypeOK
  <2>4. QED
    BY <1>1, <2>2, <2>3 DEF Plan, TypeOK
<1>2. ASSUME NEW a \in Attempts, NEW kind \in {"worker", "coordinator"},
             NEW w \in Works \cup {NoWork}, NEW n \in Amounts
      PROVE  Granted(kind, w, n) \in AttemptRows
  <2>1. run.epoch \in 0..MaxEpoch /\ n \in Nat
    BY BoundAssumption, LimitAssumption DEF TypeOK, RunRows, Epochs
  <2>2. NoAttempt \in AttemptRows
    BY BoundAssumption DEF NoAttempt, AttemptRows, AttemptStates
  <2>3. QED
    BY <2>1, <2>2 DEF Granted, AttemptRows, AttemptStates
<1>3. ASSUME NEW a \in Attempts, NEW w \in Works, NEW n \in Amounts, Assign(a, w, n) PROVE TypeOK'
  <2>1. att' \in [Attempts -> AttemptRows]
    BY <1>2, <1>3 DEF Assign, TypeOK
  <2>2. work' \in [Works -> WorkRows]
    BY <1>3, WorkMovedType DEF Assign, TypeOK, WorkStates
  <2>3. QED
    BY <1>3, <2>1, <2>2, CommitType DEF Assign, TypeOK
<1>4. ASSUME NEW a \in Attempts, NEW n \in Amounts, StartCoordinator(a, n) PROVE TypeOK'
  BY <1>2, <1>4, CommitType DEF StartCoordinator, TypeOK
<1>5. ASSUME NEW n \in 1..WorkerCap, SetConcurrency(n) PROVE TypeOK'
  <2>1. [run EXCEPT !.limit = n] \in RunRows
    BY DEF TypeOK, RunRows
  <2>2. QED
    BY <1>5, <2>1, CommitType DEF SetConcurrency, TypeOK
<1>6. ASSUME NEW a \in Attempts, NEW pause \in BOOLEAN, NEW cancel \in BOOLEAN, ControlWorker(a, pause, cancel)
      PROVE  TypeOK'
  <2>0. att[a] \in AttemptRows
    BY DEF TypeOK
  <2>1. [att[a] EXCEPT !.pause = pause, !.cancel = cancel] \in AttemptRows
    BY <2>0 DEF AttemptRows
  <2>2. att' \in [Attempts -> AttemptRows]
    BY <1>6, <2>1 DEF ControlWorker, TypeOK
  <2>3. QED
    BY <1>6, <2>2, CommitType DEF ControlWorker, TypeOK
<1>7. QED
  BY <1>1, <1>3, <1>4, <1>5, <1>6

\* What a participant and its runner record keeps the types.
LEMMA ParticipantTypes ==
  ASSUME TypeInv
  PROVE  /\ \A a \in Attempts : WorkerStarted(a) => TypeOK'
         /\ \A a \in Attempts : ProcessStarted(a) => TypeOK'
         /\ \A a \in Attempts : BeginTool(a) => TypeOK'
         /\ \A a \in Attempts, o \in {"completed", "uncertain"} : EndTool(a, o) => TypeOK'
         /\ \A a \in Attempts : Submit(a) => TypeOK'
         /\ \A a \in Attempts : ProcessStopped(a) => TypeOK'
         /\ \A a \in Attempts : NotLaunched(a) => TypeOK'
<1> USE DEF env, db
<1>0. \A a \in Attempts : att[a] \in AttemptRows
  BY DEF TypeInv, TypeOK
<1>1. ASSUME NEW a \in Attempts, WorkerStarted(a) PROVE TypeOK'
  <2>1. [att[a] EXCEPT !.state = "running", !.proc = "running"] \in AttemptRows
    BY <1>0 DEF AttemptRows, AttemptStates
  <2>2. att' \in [Attempts -> AttemptRows] /\ att'[a].state = "running"
    BY <1>1, <2>1 DEF WorkerStarted, TypeInv, TypeOK, AttemptRows
  <2>3. work' \in [Works -> WorkRows]
    BY <1>1, <2>2, WorkAfterType DEF WorkerStarted, TypeInv, TypeOK, WorkStates
  <2>4. exec' \in [Attempts -> ExecStates]
    BY <1>1 DEF WorkerStarted, TypeInv, TypeOK, ExecStates
  <2>5. QED
    BY <1>1, <2>2, <2>3, <2>4, CommitType DEF WorkerStarted, TypeInv, TypeOK
<1>2. ASSUME NEW a \in Attempts, ProcessStarted(a) PROVE TypeOK'
  <2>1. [att[a] EXCEPT !.obs = "started"] \in AttemptRows
    BY <1>0 DEF AttemptRows
  <2>2. QED
    BY <1>2, <2>1 DEF ProcessStarted, TypeInv, TypeOK, ExecStates
<1>3. ASSUME NEW a \in Attempts, BeginTool(a) PROVE TypeOK'
  <2>1. [att[a] EXCEPT !.act = "admitted"] \in AttemptRows
    BY <1>0 DEF AttemptRows
  <2>2. QED
    BY <1>3, <2>1 DEF BeginTool, TypeInv, TypeOK
<1>4. ASSUME NEW a \in Attempts, NEW o \in {"completed", "uncertain"}, EndTool(a, o) PROVE TypeOK'
  <2>1. [att[a] EXCEPT !.act = o] \in AttemptRows
    BY <1>0 DEF AttemptRows
  <2>2. QED
    BY <1>4, <2>1 DEF EndTool, TypeInv, TypeOK
<1>5. ASSUME NEW a \in Attempts, Submit(a) PROVE TypeOK'
  <2>1. work[att[a].work].rev \in Nat
    BY <1>5, BoundAssumption DEF Submit, Current, TypeInv, Keyed, TypeOK, WorkRows
  <2>2. [att[a] EXCEPT !.sub = work[att[a].work].rev] \in AttemptRows
    BY <1>0, <2>1 DEF AttemptRows
  <2>3. att' \in [Attempts -> AttemptRows]
    BY <1>5, <2>2 DEF Submit, TypeInv, TypeOK
  <2>4. QED
    BY <1>5, <2>3, CommitType DEF Submit, TypeInv, TypeOK
<1>6. ASSUME NEW a \in Attempts, ProcessStopped(a) PROVE TypeOK'
  <2>1. [att[a] EXCEPT !.obs = "stopped"] \in AttemptRows
    BY <1>0 DEF AttemptRows
  <2>2. QED
    BY <1>6, <2>1 DEF ProcessStopped, TypeInv, TypeOK, ExecStates
<1>7. ASSUME NEW a \in Attempts, NotLaunched(a) PROVE TypeOK'
  BY <1>7 DEF NotLaunched, TypeInv, TypeOK, ExecStates
<1>8. QED
  BY <1>1, <1>2, <1>3, <1>4, <1>5, <1>6, <1>7

\* A change to one attempt's accounting, followed by its work item, keeps the
\* types of both.
LEMMA AccountedType ==
  ASSUME TypeOK, NEW a \in Attempts, NEW row \in AttemptRows, NEW rq,
         row.state = att[a].state,
         att' = [att EXCEPT ![a] = Refreshed(row, rq, a)],
         work' = WorkAfter(work, att[a], Refreshed(row, rq, a))
  PROVE  att' \in [Attempts -> AttemptRows] /\ work' \in [Works -> WorkRows]
<1>1. Refreshed(row, rq, a) \in AttemptRows
  BY RefreshedShape
<1>2. Refreshed(row, rq, a).state # att[a].state => Refreshed(row, rq, a).state = "failed"
  BY RefreshedShape
<1>3. att' \in [Attempts -> AttemptRows]
  BY <1>1 DEF TypeOK
<1>4. work' \in [Works -> WorkRows]
  BY <1>2, WorkAfterType DEF TypeOK, WorkStates
<1>5. QED
  BY <1>3, <1>4

\* Reserving, starting and settling requests keeps the types.
LEMMA RequestTypes ==
  ASSUME TypeInv
  PROVE  /\ \A a \in Attempts, r \in Requests : ReserveRequest(a, r) => TypeOK'
         /\ \A r \in Requests : StartRequest(r) => TypeOK'
         /\ \A r \in Requests, o \in {"completed", "failed", "not_started", "uncertain"} :
              Settle(r, o) /\ req[r].state # "absent" /\ UNCHANGED seen => TypeOK'
<1> USE DEF env
<1>1. ASSUME NEW a \in Attempts, NEW r \in Requests, ReserveRequest(a, r) PROVE TypeOK'
  <2>1. [state |-> "reserved", att |-> a, began |-> FALSE] \in RequestRows
    BY BoundAssumption DEF RequestRows, RequestStates, Attempts
  <2>2. req' \in [Requests -> RequestRows]
    BY <1>1, <2>1 DEF ReserveRequest, TypeInv, TypeOK
  <2>3. QED
    BY <1>1, <2>2, CommitType DEF ReserveRequest, TypeInv, TypeOK
<1>2. ASSUME NEW r \in Requests, StartRequest(r) PROVE TypeOK'
  <2>0. req[r] \in RequestRows
    BY DEF TypeInv, TypeOK
  <2>1. [req[r] EXCEPT !.state = "started", !.began = TRUE] \in RequestRows
    BY <2>0 DEF RequestRows, RequestStates
  <2>2. req' \in [Requests -> RequestRows]
    BY <1>2, <2>1 DEF StartRequest, TypeInv, TypeOK
  <2>3. QED
    BY <1>2, <2>2, CommitType DEF StartRequest, TypeInv, TypeOK
<1>3. ASSUME NEW r \in Requests, NEW o \in {"completed", "failed", "not_started", "uncertain"},
             Settle(r, o), req[r].state # "absent"
      PROVE  TypeOK'
  <2>0. req[r] \in RequestRows /\ req[r].att \in Attempts
    BY <1>3 DEF TypeInv, Keyed, TypeOK
  <2>1. [req[r] EXCEPT !.state = o] \in RequestRows
    BY <2>0 DEF RequestRows, RequestStates
  <2>2. req' \in [Requests -> RequestRows]
    BY <1>3, <2>1 DEF Settle, TypeInv, TypeOK
  <2>3. att'[req[r].att] = Refreshed(att[req[r].att], req', req[r].att)
    BY <1>3, <2>0 DEF Settle, TypeInv, TypeOK
  <2>4. att' \in [Attempts -> AttemptRows] /\ work' \in [Works -> WorkRows]
    BY <1>3, <2>0, <2>3, AccountedType DEF Settle, TypeInv, TypeOK
  <2>5. QED
    BY <1>3, <2>2, <2>4, CommitType DEF Settle, TypeInv, TypeOK
<1>4. QED
  BY <1>1, <1>2, <1>3

\* Recording that a participant has stopped keeps the types.
LEMMA StopTypes ==
  ASSUME TypeInv, NEW a \in Attempts,
         NEW o \in {"submitted", "completed", "failed", "cancelled"}, RecordStop(a, o)
  PROVE  TypeOK'
<1> DEFINE act     == IF att[a].act = "admitted" THEN "uncertain" ELSE att[a].act
           unknown == \/ \E r \in RequestsOf(req', a) : req'[r].state = "uncertain"
                      \/ act = "uncertain" \/ ObsOpen(att[a])
           s       == IF unknown THEN "uncertain" ELSE o
           stopped == [att[a] EXCEPT !.state = s, !.proc = "stopped", !.act = act]
           final   == Refreshed(stopped, req', a)
<1>1. /\ att' = [att EXCEPT ![a] = final]
      /\ work' = IF att[a].kind = "worker" THEN [work EXCEPT ![att[a].work].state = final.state] ELSE work
  BY DEF RecordStop
<1>2. att[a] \in AttemptRows /\ act \in {"none", "admitted", "completed", "uncertain"}
  BY DEF TypeInv, TypeOK, AttemptRows
<1>3. s \in AttemptStates /\ (att[a].kind = "worker" => s \in {"uncertain", "submitted", "failed", "cancelled"})
  BY DEF RecordStop, Outcomes, AttemptStates
<1> HIDE DEF act, unknown, s
<1>4. stopped \in AttemptRows /\ stopped.state = s
  BY <1>2, <1>3 DEF AttemptRows
<1> HIDE DEF stopped
<1>5. final \in AttemptRows /\ (final.state = s \/ final.state = "failed")
  BY <1>4, RefreshedShape
<1> HIDE DEF final
<1>6. att' \in [Attempts -> AttemptRows]
  BY <1>1, <1>5 DEF TypeInv, TypeOK
<1>7. work' \in [Works -> WorkRows]
  BY <1>1, <1>3, <1>5, WorkMovedType DEF TypeInv, TypeOK, WorkStates
<1>8. req' \in [Requests -> RequestRows]
  BY DEF RecordStop, TypeInv, TypeOK, RequestRows, RequestStates
<1>9. QED
  BY <1>6, <1>7, <1>8, CommitType DEF RecordStop, TypeInv, TypeOK, env

\* The owner's decisions on the run and on results keep the types.
LEMMA DecisionTypes ==
  ASSUME TypeInv
  PROVE  /\ Pause \/ Resume \/ Stop \/ Checkpoint \/ Complete => TypeOK'
         /\ \A a \in Attempts : AcceptResult(a) \/ Reject(a) => TypeOK'
         /\ \A w \in Works : Retry(w) => TypeOK'
<1> USE DEF env
<1>0. \A s \in RunStates : [run EXCEPT !.state = s] \in RunRows
  BY DEF TypeInv, TypeOK, RunRows
<1>1. ASSUME Pause PROVE TypeOK'
  BY <1>0, <1>1, CommitType DEF Pause, TypeInv, TypeOK, RunStates
<1>2. ASSUME Resume PROVE TypeOK'
  BY <1>0, <1>2, CommitType DEF Resume, TypeInv, TypeOK, RunStates
<1>3. ASSUME Stop PROVE TypeOK'
  <2> DEFINE s == IF run.state = "recovery_required" THEN run.state ELSE "stopping"
  <2>1. s \in RunStates
    BY DEF RunStates
  <2>2. run' = Checkpointed([run EXCEPT !.stop = TRUE, !.state = s], att', req')
    BY <1>3 DEF Stop, CommitRun
  <2> HIDE DEF s
  <2>3. [run EXCEPT !.stop = TRUE, !.state = s] \in RunRows
    BY <2>1 DEF TypeInv, TypeOK, RunRows
  <2>4. run' \in RunRows
    BY <2>2, <2>3, CheckpointedShape
  <2>5. work' \in [Works -> WorkRows]
    BY <1>3 DEF Stop, TypeInv, TypeOK, WorkRows, WorkStates
  <2>6. QED
    BY <1>3, <2>4, <2>5 DEF Stop, TypeInv, TypeOK
<1>4. ASSUME Checkpoint PROVE TypeOK'
  BY <1>4, CommitType DEF Checkpoint, TypeInv, TypeOK
<1>5. ASSUME Complete PROVE TypeOK'
  BY <1>0, <1>5, CommitType DEF Complete, TypeInv, TypeOK, RunStates
<1>6. ASSUME NEW a \in Attempts, AcceptResult(a) PROVE TypeOK'
  <2>1. work' \in [Works -> WorkRows]
    BY <1>6, WorkMovedType, ReadyType DEF AcceptResult, TypeInv, TypeOK, WorkStates
  <2>2. QED
    BY <1>6, <2>1, CommitType DEF AcceptResult, TypeInv, TypeOK
<1>7. ASSUME NEW a \in Attempts, Reject(a) PROVE TypeOK'
  <2>1. work' \in [Works -> WorkRows]
    BY <1>7, WorkMovedType DEF Reject, TypeInv, TypeOK, WorkStates
  <2>2. att[a] \in AttemptRows
    BY DEF TypeInv, TypeOK
  <2>3. [att[a] EXCEPT !.state = "failed"] \in AttemptRows
    BY <2>2 DEF AttemptRows, AttemptStates
  <2>4. att' \in [Attempts -> AttemptRows]
    BY <1>7, <2>3 DEF Reject, TypeInv, TypeOK
  <2>5. QED
    BY <1>7, <2>1, <2>4, CommitType DEF Reject, TypeInv, TypeOK
<1>8. ASSUME NEW w \in Works, Retry(w) PROVE TypeOK'
  <2>1. work' \in [Works -> WorkRows]
    BY <1>8, WorkMovedType, ReadyType DEF Retry, TypeInv, TypeOK, WorkStates
  <2>2. QED
    BY <1>8, <2>1, CommitType DEF Retry, TypeInv, TypeOK
<1>9. QED
  BY <1>1, <1>2, <1>3, <1>4, <1>5, <1>6, <1>7, <1>8

\* Taking a run over, and reconciling it, keeps the types.
LEMMA RecoveryTypes ==
  ASSUME TypeInv
  PROVE  /\ Acquire => TypeOK'
         /\ \A a \in Attempts, s \in {"stopped", "unknown"} : InspectProcess(a, s) => TypeOK'
         /\ ReconcileProcess => TypeOK'
         /\ \A a \in Attempts : RecoverStop(a) \/ ReconcileAction(a) => TypeOK'
         /\ \A s \in SUBSET Works : Recover(s) => TypeOK'
<1> USE DEF env, db
<1>0. \A a \in Attempts : att[a] \in AttemptRows
  BY DEF TypeInv, TypeOK
<1>1. ASSUME Acquire PROVE TypeOK'
  <2>1. run' \in RunRows
    <3>1. run \in RunRows /\ run.epoch + 1 \in Epochs /\ "recovery_required" \in RunStates
      BY <1>1, BoundAssumption DEF Acquire, TypeInv, TypeOK, RunRows, RunStates, Epochs
    <3>2. run' = [run EXCEPT !.epoch = run.epoch + 1, !.live = TRUE, !.state = "recovery_required"]
      BY <1>1 DEF Acquire
    <3>3. QED
      BY <3>1, <3>2 DEF RunRows
  <2>2. att' \in [Attempts -> AttemptRows]
    BY <1>0, <1>1, FencedShape DEF Acquire
  <2>3. work' \in [Works -> WorkRows]
    BY <1>1 DEF Acquire, TypeInv, TypeOK, WorkRows, WorkStates
  <2>4. req' \in [Requests -> RequestRows]
    BY <1>1 DEF Acquire, TypeInv, TypeOK, RequestRows, RequestStates
  <2>5. seen' \in [att : 0..MaxAttempts, state : {"stopped", "unknown"}]
    BY <1>1, BoundAssumption DEF Acquire, NoSight
  <2>6. QED
    BY <1>1, <2>1, <2>2, <2>3, <2>4, <2>5 DEF Acquire, TypeInv, TypeOK
<1>2. ASSUME NEW a \in Attempts, NEW s \in {"stopped", "unknown"}, InspectProcess(a, s) PROVE TypeOK'
  BY <1>2, BoundAssumption DEF InspectProcess, TypeInv, TypeOK, Attempts
<1>3. ASSUME ReconcileProcess PROVE TypeOK'
  <2> DEFINE a == seen.att
             noted == [att[a] EXCEPT !.obs = seen.state]
  <2>1. a \in Attempts /\ seen.state \in {"stopped", "unknown"}
    BY <1>3, BoundAssumption DEF ReconcileProcess, TypeInv, TypeOK, Attempts
  <2>2. att[a] \in AttemptRows
    BY <1>0, <2>1
  <2>3. noted \in AttemptRows /\ noted.state = att[a].state
    BY <2>1, <2>2 DEF AttemptRows
  <2>4. /\ att' = [att EXCEPT ![a] = Refreshed(noted, req, a)]
        /\ work' = WorkAfter(work, att[a], Refreshed(noted, req, a))
    BY <1>3 DEF ReconcileProcess
  <2> HIDE DEF a, noted
  <2>5. att' \in [Attempts -> AttemptRows] /\ work' \in [Works -> WorkRows]
    BY <2>1, <2>3, <2>4, AccountedType DEF TypeInv
  <2>6. seen' \in [att : 0..MaxAttempts, state : {"stopped", "unknown"}]
    BY <1>3, BoundAssumption DEF ReconcileProcess, NoSight
  <2>7. QED
    BY <1>3, <2>5, <2>6, CommitType DEF ReconcileProcess, TypeInv, TypeOK
<1>4. ASSUME NEW a \in Attempts, RecoverStop(a) PROVE TypeOK'
  BY <1>4, StopTypes DEF RecoverStop
<1>5. ASSUME NEW a \in Attempts, ReconcileAction(a) PROVE TypeOK'
  <2> DEFINE row == [att[a] EXCEPT !.act = "completed"]
  <2>1. row \in AttemptRows /\ row.state = att[a].state
    BY <1>0 DEF AttemptRows
  <2>2. /\ att' = [att EXCEPT ![a] = Refreshed(row, req, a)]
        /\ work' = WorkAfter(work, att[a], Refreshed(row, req, a))
    BY <1>5 DEF ReconcileAction
  <2> HIDE DEF row
  <2>3. att' \in [Attempts -> AttemptRows] /\ work' \in [Works -> WorkRows]
    BY <2>1, <2>2, AccountedType DEF TypeInv
  <2>4. QED
    BY <1>5, <2>3, CommitType DEF ReconcileAction, TypeInv, TypeOK
<1>6. ASSUME NEW s \in SUBSET Works, Recover(s) PROVE TypeOK'
  <2> DEFINE retried == [w \in Works |-> IF w \in s THEN [work[w] EXCEPT !.state = "pending"] ELSE work[w]]
  <2>1. retried \in [Works -> WorkRows]
    BY DEF TypeInv, TypeOK, WorkRows, WorkStates
  <2>2. work' = work \/ work' = Ready(retried)
    BY <1>6 DEF Recover
  <2> HIDE DEF retried
  <2>3. work' \in [Works -> WorkRows]
    BY <2>1, <2>2, ReadyType DEF TypeInv, TypeOK
  <2> DEFINE next == IF run.stop THEN "cancelled" ELSE "running"
  <2>4. next \in RunStates /\ CommitRun([run EXCEPT !.state = next])
    BY <1>6 DEF Recover, RunStates
  <2> HIDE DEF next
  <2>5. [run EXCEPT !.state = next] \in RunRows
    BY <2>4 DEF TypeInv, TypeOK, RunRows
  <2>6. run' \in RunRows
    BY <2>4, <2>5, CommitType
  <2>7. QED
    BY <1>6, <2>3, <2>6 DEF Recover, TypeInv, TypeOK
<1>7. QED
  BY <1>1, <1>2, <1>3, <1>4, <1>5, <1>6

\* Crashes, lapses and ends of executions keep the types.
LEMMA WorldTypes ==
  ASSUME TypeInv
  PROVE  /\ \A a \in Attempts : ExecutionEnds(a) => TypeOK'
         /\ \A e \in Epochs : HostCrash(e) => TypeOK'
         /\ LeaseExpires => TypeOK'
<1> USE DEF env, db
<1>1. ASSUME NEW a \in Attempts, ExecutionEnds(a) PROVE TypeOK'
  BY <1>1 DEF ExecutionEnds, TypeInv, TypeOK, ExecStates
<1>2. ASSUME NEW e \in Epochs, HostCrash(e) PROVE TypeOK'
  <2>1. exec' \in [Attempts -> ExecStates] /\ hostUp' \in [Epochs -> BOOLEAN]
    BY <1>2 DEF HostCrash, TypeInv, TypeOK, ExecStates
  <2>2. seen' \in [att : 0..MaxAttempts, state : {"stopped", "unknown"}]
    BY <1>2, BoundAssumption DEF HostCrash, NoSight, TypeInv, TypeOK
  <2>3. QED
    BY <1>2, <2>1, <2>2 DEF HostCrash, TypeInv, TypeOK
<1>3. ASSUME LeaseExpires PROVE TypeOK'
  BY <1>3 DEF LeaseExpires, TypeInv, TypeOK, RunRows
<1>4. QED
  BY <1>1, <1>2, <1>3

-----------------------------------------------------------------------------
(* Identity columns *)

\* Rows are inserted, never deleted, and keep what identifies them.
Kept(a) == /\ att[a].state = "absent" <=> att'[a].state = "absent"
           /\ att'[a].kind = att[a].kind /\ att'[a].work = att[a].work
           /\ att'[a].epoch = att[a].epoch /\ att'[a].amount = att[a].amount
RequestKept(r) == /\ req[r].state = "absent" <=> req'[r].state = "absent"
                  /\ req'[r].att = req[r].att
RowsKept == (\A a \in Attempts : Kept(a)) /\ (\A r \in Requests : RequestKept(r))

LEMMA KeptSuffices ==
  ASSUME Keyed, RowsKept
  PROVE  Keyed'
  BY DEF Keyed, RowsKept, Kept, RequestKept, Attempts, Requests

\* Accounting writes one row, and keeps its identity.
LEMMA AccountedKept ==
  ASSUME TypeOK, NEW a \in Attempts, NEW row \in AttemptRows, NEW rq,
         att' = [att EXCEPT ![a] = Refreshed(row, rq, a)],
         row.state = "absent" <=> att[a].state = "absent",
         row.kind = att[a].kind, row.work = att[a].work,
         row.epoch = att[a].epoch, row.amount = att[a].amount
  PROVE  \A b \in Attempts : Kept(b)
<1> DEFINE new == Refreshed(row, rq, a)
<1>1. /\ new \in AttemptRows
      /\ new.state = row.state \/ (row.state = "uncertain" /\ new.state = "failed")
      /\ new.kind = row.kind /\ new.work = row.work
      /\ new.epoch = row.epoch /\ new.amount = row.amount
  BY RefreshedShape
<1>2. att' = [att EXCEPT ![a] = new]
  OBVIOUS
<1> HIDE DEF new
<1>3. /\ new.state = "absent" <=> att[a].state = "absent"
      /\ new.kind = att[a].kind /\ new.work = att[a].work
      /\ new.epoch = att[a].epoch /\ new.amount = att[a].amount
  BY <1>1
<1>4. QED
  BY <1>2, <1>3 DEF TypeOK, Kept

\* The steps of participants, and of their hosts, keep all rows.
LEMMA ParticipantKeeps ==
  ASSUME TypeInv
  PROVE  /\ \A a \in Attempts : WorkerStarted(a) => RowsKept
         /\ \A a \in Attempts : ProcessStarted(a) \/ BeginTool(a) \/ Submit(a) => RowsKept
         /\ \A a \in Attempts, o \in {"completed", "uncertain"} : EndTool(a, o) => RowsKept
         /\ \A a \in Attempts : ProcessStopped(a) \/ NotLaunched(a) \/ ExecutionEnds(a) => RowsKept
         /\ \A a \in Attempts, p, c \in BOOLEAN : ControlWorker(a, p, c) => RowsKept
         /\ \A r \in Requests : StartRequest(r) => RowsKept
<1> USE DEF env, db
<1>0. /\ \A a \in Attempts : att[a] \in AttemptRows
      /\ \A r \in Requests : req[r] \in RequestRows
  BY DEF TypeInv, TypeOK
<1>1. ASSUME NEW a \in Attempts, WorkerStarted(a) PROVE RowsKept
  BY <1>0, <1>1 DEF WorkerStarted, RowsKept, Kept, RequestKept, TypeInv, TypeOK, AttemptRows
<1>2. ASSUME NEW a \in Attempts, ProcessStarted(a) \/ BeginTool(a) \/ Submit(a) PROVE RowsKept
  BY <1>0, <1>2 DEF ProcessStarted, BeginTool, Submit, RowsKept, Kept, RequestKept, TypeInv, TypeOK, AttemptRows
<1>3. ASSUME NEW a \in Attempts, NEW o \in {"completed", "uncertain"}, EndTool(a, o) PROVE RowsKept
  BY <1>0, <1>3 DEF EndTool, RowsKept, Kept, RequestKept, TypeInv, TypeOK, AttemptRows
<1>4. ASSUME NEW a \in Attempts, ProcessStopped(a) \/ NotLaunched(a) \/ ExecutionEnds(a) PROVE RowsKept
  BY <1>0, <1>4 DEF ProcessStopped, NotLaunched, ExecutionEnds, RowsKept, Kept, RequestKept, TypeInv, TypeOK, AttemptRows
<1>5. ASSUME NEW a \in Attempts, NEW p \in BOOLEAN, NEW c \in BOOLEAN, ControlWorker(a, p, c) PROVE RowsKept
  BY <1>0, <1>5 DEF ControlWorker, RowsKept, Kept, RequestKept, TypeInv, TypeOK, AttemptRows
<1>6. ASSUME NEW r \in Requests, StartRequest(r) PROVE RowsKept
  BY <1>0, <1>6 DEF StartRequest, RowsKept, Kept, RequestKept, TypeInv, TypeOK, RequestRows
<1>7. QED
  BY <1>1, <1>2, <1>3, <1>4, <1>5, <1>6

\* So do the decisions of the owner and the steps of a recovery.
LEMMA OwnerKeeps ==
  ASSUME TypeInv
  PROVE  /\ \A a \in Attempts : AcceptResult(a) \/ Reject(a) => RowsKept
         /\ \A r \in Requests, o \in {"completed", "failed", "not_started", "uncertain"} :
              Settle(r, o) /\ req[r].state # "absent" => RowsKept
         /\ \A a \in Attempts, o \in {"submitted", "completed", "failed", "cancelled"} :
              RecordStop(a, o) => RowsKept
         /\ \A a \in Attempts : ReconcileAction(a) => RowsKept
         /\ ReconcileProcess => RowsKept
         /\ Acquire => RowsKept
<1> USE DEF env, db
<1>0. /\ \A a \in Attempts : att[a] \in AttemptRows
      /\ \A r \in Requests : req[r] \in RequestRows
  BY DEF TypeInv, TypeOK
<1>1. ASSUME NEW a \in Attempts, AcceptResult(a) \/ Reject(a) PROVE RowsKept
  BY <1>0, <1>1 DEF AcceptResult, Reject, RowsKept, Kept, RequestKept, TypeInv, TypeOK, AttemptRows
<1>2. ASSUME NEW r \in Requests, NEW o \in {"completed", "failed", "not_started", "uncertain"},
             Settle(r, o), req[r].state # "absent"
      PROVE  RowsKept
  <2>1. req[r].att \in Attempts
    BY <1>2 DEF TypeInv, Keyed
  <2>2. \A b \in Attempts : Kept(b)
    BY <1>0, <1>2, <2>1, AccountedKept DEF Settle, TypeInv
  <2>3. \A q \in Requests : RequestKept(q)
    BY <1>0, <1>2 DEF Settle, RequestKept, TypeInv, TypeOK, RequestRows
  <2>4. QED
    BY <2>2, <2>3 DEF RowsKept
<1>3. ASSUME NEW a \in Attempts, NEW o \in {"submitted", "completed", "failed", "cancelled"}, RecordStop(a, o)
      PROVE  RowsKept
  <2> DEFINE act     == IF att[a].act = "admitted" THEN "uncertain" ELSE att[a].act
             unknown == \/ \E r \in RequestsOf(req', a) : req'[r].state = "uncertain"
                        \/ act = "uncertain" \/ ObsOpen(att[a])
             s       == IF unknown THEN "uncertain" ELSE o
             stopped == [att[a] EXCEPT !.state = s, !.proc = "stopped", !.act = act]
  <2>1. att' = [att EXCEPT ![a] = Refreshed(stopped, req', a)]
    BY <1>3 DEF RecordStop
  <2>2. act \in {"none", "admitted", "completed", "uncertain"} /\ s \in AttemptStates /\ s # "absent"
    BY <1>0 DEF AttemptRows, AttemptStates
  <2> HIDE DEF act, unknown, s
  <2>3. /\ stopped \in AttemptRows /\ stopped.state = s
        /\ stopped.kind = att[a].kind /\ stopped.work = att[a].work
        /\ stopped.epoch = att[a].epoch /\ stopped.amount = att[a].amount
    BY <1>0, <2>2 DEF AttemptRows
  <2> HIDE DEF stopped
  <2>4. att[a].state # "absent"
    BY <1>3 DEF RecordStop, Addressable
  <2>5. \A b \in Attempts : Kept(b)
    BY <2>1, <2>2, <2>3, <2>4, AccountedKept DEF TypeInv
  <2>6. \A q \in Requests : RequestKept(q)
    BY <1>0, <1>3 DEF RecordStop, RequestKept, RequestRows
  <2>7. QED
    BY <2>5, <2>6 DEF RowsKept
<1>4. ASSUME NEW a \in Attempts, ReconcileAction(a) PROVE RowsKept
  <2> DEFINE row == [att[a] EXCEPT !.act = "completed"]
  <2>1. /\ row \in AttemptRows /\ row.state = att[a].state
        /\ row.kind = att[a].kind /\ row.work = att[a].work
        /\ row.epoch = att[a].epoch /\ row.amount = att[a].amount
    BY <1>0 DEF AttemptRows
  <2>2. att' = [att EXCEPT ![a] = Refreshed(row, req, a)] /\ UNCHANGED req
    BY <1>4 DEF ReconcileAction
  <2> HIDE DEF row
  <2>3. \A b \in Attempts : Kept(b)
    BY <2>1, <2>2, AccountedKept DEF TypeInv
  <2>4. QED
    BY <2>2, <2>3 DEF RowsKept, RequestKept
<1>5. ASSUME ReconcileProcess PROVE RowsKept
  <2> DEFINE a == seen.att
             noted == [att[a] EXCEPT !.obs = seen.state]
  <2>1. a \in Attempts /\ seen.state \in {"stopped", "unknown"}
    BY <1>5, BoundAssumption DEF ReconcileProcess, TypeInv, TypeOK, Attempts
  <2>2. /\ noted \in AttemptRows /\ noted.state = att[a].state
        /\ noted.kind = att[a].kind /\ noted.work = att[a].work
        /\ noted.epoch = att[a].epoch /\ noted.amount = att[a].amount
    BY <1>0, <2>1 DEF AttemptRows
  <2>3. att' = [att EXCEPT ![a] = Refreshed(noted, req, a)] /\ UNCHANGED req
    BY <1>5 DEF ReconcileProcess
  <2> HIDE DEF a, noted
  <2>4. \A b \in Attempts : Kept(b)
    BY <2>1, <2>2, <2>3, AccountedKept DEF TypeInv
  <2>5. QED
    BY <2>3, <2>4 DEF RowsKept, RequestKept
<1>6. ASSUME Acquire PROVE RowsKept
  <2>1. \A a \in Attempts : Kept(a)
    <3> SUFFICES ASSUME NEW a \in Attempts PROVE Kept(a)
      OBVIOUS
    <3>1. att[a] \in AttemptRows /\ att'[a] = IF att[a].state = "absent" THEN att[a] ELSE Fenced(att[a])
      BY <1>0, <1>6 DEF Acquire
    <3>2. QED
      BY <3>1, FencedShape DEF Kept
  <2>2. \A r \in Requests : RequestKept(r)
    BY <1>0, <1>6 DEF Acquire, RequestKept, RequestRows
  <2>3. QED
    BY <2>1, <2>2 DEF RowsKept
<1>7. QED
  BY <1>1, <1>2, <1>3, <1>4, <1>5, <1>6

\* The three commands that insert a row give it its key.
LEMMA InsertedKeyed ==
  ASSUME TypeInv
  PROVE  /\ \A a \in Attempts, w \in Works, n \in Amounts : Assign(a, w, n) => Keyed'
         /\ \A a \in Attempts, n \in Amounts : StartCoordinator(a, n) => Keyed'
         /\ \A a \in Attempts, r \in Requests : ReserveRequest(a, r) => Keyed'
<1>0. NoAttempt \in AttemptRows
  BY BoundAssumption DEF NoAttempt, AttemptRows, AttemptStates
<1>1. ASSUME NEW k, NEW w, NEW n PROVE Granted(k, w, n).kind = k /\ Granted(k, w, n).work = w
  BY <1>0 DEF Granted, AttemptRows
<1>2. ASSUME NEW a \in Attempts, NEW w \in Works, NEW n \in Amounts, Assign(a, w, n) PROVE Keyed'
  <2>1. att' = [att EXCEPT ![a] = Granted("worker", w, n)] /\ req' = req
    BY <1>2 DEF Assign
  <2>2. QED
    BY <1>1, <2>1 DEF Keyed, TypeInv, TypeOK, Attempts
<1>3. ASSUME NEW a \in Attempts, NEW n \in Amounts, StartCoordinator(a, n) PROVE Keyed'
  <2>1. att' = [att EXCEPT ![a] = Granted("coordinator", NoWork, n)] /\ req' = req
    BY <1>3 DEF StartCoordinator
  <2>2. QED
    BY <1>1, <2>1 DEF Keyed, TypeInv, TypeOK, Attempts
<1>4. ASSUME NEW a \in Attempts, NEW r \in Requests, ReserveRequest(a, r) PROVE Keyed'
  BY <1>4 DEF ReserveRequest, Keyed, TypeInv, TypeOK, Attempts
<1>5. QED
  BY <1>2, <1>3, <1>4

\* Every step keeps the types and the keys.
LEMMA TypeStep == TypeInv /\ [Next]_vars => TypeInv'
<1> SUFFICES ASSUME TypeInv, [Next]_vars PROVE TypeInv'
  OBVIOUS
<1> USE DEF env, db
<1>1. CASE UNCHANGED vars
  BY <1>1 DEF vars, TypeInv, TypeOK, Keyed
<1>2. ASSUME UNCHANGED <<att, req>> PROVE Keyed'
  BY <1>2 DEF TypeInv, Keyed
<1>3. ASSUME NEW p \in Plans, Plan(p) PROVE TypeInv'
  BY <1>2, <1>3, OwnerTypes DEF TypeInv, Plan
<1>4. ASSUME NEW a \in Attempts, NEW w \in Works, NEW n \in Amounts, Assign(a, w, n) PROVE TypeInv'
  BY <1>4, OwnerTypes, InsertedKeyed DEF TypeInv
<1>5. ASSUME NEW a \in Attempts, NEW n \in Amounts, StartCoordinator(a, n) PROVE TypeInv'
  BY <1>5, OwnerTypes, InsertedKeyed DEF TypeInv
<1>6. ASSUME NEW n \in 1..WorkerCap, SetConcurrency(n) PROVE TypeInv'
  BY <1>2, <1>6, OwnerTypes DEF TypeInv, SetConcurrency
<1>7. ASSUME NEW a \in Attempts, NEW p \in BOOLEAN, NEW c \in BOOLEAN, ControlWorker(a, p, c) PROVE TypeInv'
  BY <1>7, OwnerTypes, ParticipantKeeps, KeptSuffices DEF TypeInv
<1>8. ASSUME NEW a \in Attempts, PauseWorker(a) \/ ResumeWorker(a) \/ CancelWorker(a) PROVE TypeInv'
  <2>1. att[a].pause \in BOOLEAN
    BY DEF TypeInv, TypeOK, AttemptRows
  <2>2. QED
    BY <1>7, <1>8, <2>1 DEF PauseWorker, ResumeWorker, CancelWorker
<1>9. ASSUME NEW a \in Attempts, WorkerStarted(a) \/ ProcessStarted(a) \/ BeginTool(a) \/ Submit(a)
      PROVE  TypeInv'
  BY <1>9, ParticipantTypes, ParticipantKeeps, KeptSuffices DEF TypeInv
<1>10. ASSUME NEW a \in Attempts, NEW r \in Requests, ReserveRequest(a, r) PROVE TypeInv'
  BY <1>10, RequestTypes, InsertedKeyed DEF TypeInv
<1>11. ASSUME NEW r \in Requests, StartRequest(r) PROVE TypeInv'
  BY <1>11, RequestTypes, ParticipantKeeps, KeptSuffices DEF TypeInv
<1>12. ASSUME NEW r \in Requests, NEW o \in {"completed", "failed", "not_started", "uncertain"},
              Settle(r, o), req[r].state # "absent", UNCHANGED seen
       PROVE  TypeInv'
  BY <1>12, RequestTypes, OwnerKeeps, KeptSuffices DEF TypeInv
<1>13. ASSUME NEW r \in Requests, NEW o \in {"completed", "uncertain"}, SettleRequest(r, o) PROVE TypeInv'
  BY <1>12, <1>13 DEF SettleRequest, Settle
<1>14. ASSUME NEW a \in Attempts, NEW o \in {"completed", "uncertain"}, EndTool(a, o) PROVE TypeInv'
  BY <1>14, ParticipantTypes, ParticipantKeeps, KeptSuffices DEF TypeInv
<1>15. ASSUME NEW a \in Attempts, ProcessStopped(a) \/ NotLaunched(a) \/ ExecutionEnds(a) PROVE TypeInv'
  BY <1>15, ParticipantTypes, WorldTypes, ParticipantKeeps, KeptSuffices DEF TypeInv
<1>16. ASSUME NEW a \in Attempts, NEW o \in {"submitted", "completed", "failed", "cancelled"}, RecordStop(a, o)
       PROVE  TypeInv'
  BY <1>16, StopTypes, OwnerKeeps, KeptSuffices DEF TypeInv
<1>17. ASSUME NEW a \in Attempts, NEW o \in {"submitted", "completed", "failed", "cancelled"}, WorkerStopped(a, o)
       PROVE  TypeInv'
  BY <1>16, <1>17 DEF WorkerStopped
<1>18. ASSUME Pause \/ Resume \/ Stop \/ Checkpoint \/ Complete PROVE TypeInv'
  BY <1>2, <1>18, DecisionTypes DEF TypeInv, Pause, Resume, Stop, Checkpoint, Complete
<1>19. ASSUME NEW a \in Attempts, AcceptResult(a) \/ Reject(a) PROVE TypeInv'
  BY <1>19, DecisionTypes, OwnerKeeps, KeptSuffices DEF TypeInv
<1>20. ASSUME NEW w \in Works, Retry(w) PROVE TypeInv'
  BY <1>2, <1>20, DecisionTypes DEF TypeInv, Retry
<1>21. ASSUME Acquire \/ ReconcileProcess PROVE TypeInv'
  BY <1>21, RecoveryTypes, OwnerKeeps, KeptSuffices DEF TypeInv
<1>22. ASSUME NEW a \in Attempts, NEW s \in {"stopped", "unknown"}, InspectProcess(a, s) PROVE TypeInv'
  BY <1>2, <1>22, RecoveryTypes DEF TypeInv, InspectProcess
<1>23. ASSUME NEW a \in Attempts, RecoverStop(a) PROVE TypeInv'
  BY <1>16, <1>23 DEF RecoverStop
<1>24. ASSUME NEW a \in Attempts, ReconcileAction(a) PROVE TypeInv'
  BY <1>24, RecoveryTypes, OwnerKeeps, KeptSuffices DEF TypeInv
<1>25. ASSUME NEW r \in Requests, NEW o \in {"completed", "failed", "not_started", "uncertain"},
              ReconcileRequest(r, o)
       PROVE  TypeInv'
  BY <1>12, <1>25 DEF ReconcileRequest, Settle
<1>26. ASSUME NEW s \in SUBSET Works, Recover(s) PROVE TypeInv'
  BY <1>2, <1>26, RecoveryTypes DEF TypeInv, Recover
<1>27. ASSUME NEW e \in Epochs, HostCrash(e) PROVE TypeInv'
  BY <1>2, <1>27, WorldTypes DEF TypeInv, HostCrash
<1>28. ASSUME LeaseExpires PROVE TypeInv'
  BY <1>2, <1>28, WorldTypes DEF TypeInv, LeaseExpires
<1>29. QED
  BY <1>1, <1>3, <1>4, <1>5, <1>6, <1>8, <1>9, <1>10, <1>11, <1>13, <1>14, <1>15, <1>17, <1>18,
     <1>19, <1>20, <1>21, <1>22, <1>23, <1>24, <1>25, <1>26, <1>27, <1>28 DEF Next

LEMMA TypeInit == Init => TypeInv
<1> SUFFICES ASSUME Init PROVE TypeInv
  OBVIOUS
<1>1. run \in RunRows
  BY BoundAssumption, CapAssumption DEF Init, RunRows, RunStates, Epochs
<1>2. work \in [Works -> WorkRows]
  BY BoundAssumption DEF Init, WorkRows, WorkStates
<1>3. att \in [Attempts -> AttemptRows] /\ \A a \in Attempts : att[a].state = "absent"
  BY BoundAssumption DEF Init, NoAttempt, AttemptRows, AttemptStates
<1>4. req \in [Requests -> RequestRows] /\ \A r \in Requests : req[r].state = "absent" /\ req[r].att = 0
  BY BoundAssumption DEF Init, NoRequest, RequestRows, RequestStates
<1>5. seen \in [att : 0..MaxAttempts, state : {"stopped", "unknown"}]
  BY BoundAssumption DEF Init, NoSight
<1>6. exec \in [Attempts -> ExecStates] /\ hostUp \in [Epochs -> BOOLEAN]
  BY DEF Init, ExecStates
<1>7. QED
  BY <1>1, <1>2, <1>3, <1>4, <1>5, <1>6 DEF TypeInv, TypeOK, Keyed

\* The rows of a run keep their types, whatever its workers, requests and
\* supervisors do, and the keys of the schema hold: a worker's attempt has a work
\* item, and a request that was made belongs to an attempt of the run.
THEOREM TypeCorrect == Spec => [](TypeOK /\ Keyed)
<1>1. QED
  BY TypeInit, TypeStep, PTL DEF Spec, TypeInv
=============================================================================
