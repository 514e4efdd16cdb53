------------------------------ MODULE SwarmRun ------------------------------
(***************************************************************************)
(* One durable team run: the rows a supervisor keeps in SQLite for a run,  *)
(* its work items, its attempts with their request allowance, its model    *)
(* requests and its tool actions, together with the app processes and      *)
(* participant processes those rows speak about.                           *)
(*                                                                         *)
(* Every command of lumi/engine/swarming/supervisor.py is one BEGIN        *)
(* IMMEDIATE transaction, so it is one action here; what lies between two  *)
(* transactions (a crash, a lapse of the lease, another command) is a step *)
(* of its own.  The teams of this module only read: their assignments have *)
(* no write roots, hence no writer worktree and no integration row.        *)
(*                                                                         *)
(* A command is identified with the epoch whose authority it carries.  The *)
(* supervisor of epoch e is the one that acquired it, so "the command's    *)
(* authority is current" is "e is the run's epoch and its lease is live".  *)
(***************************************************************************)
EXTENDS Naturals, FiniteSets

CONSTANTS
  Works,          \* identities of work items
  Plans,          \* the plans an owner may send: functions [set of works -> set of works]
  RequestLimit,   \* runs.request_limit: request units the owner granted to the run
  WorkerCap,      \* policy max_workers: the most workers at a time
  Amounts,        \* request allowances an assignment may ask for
  Features,       \* the optional inputs of an instance, a subset of AllFeatures
  NoWork,         \* the work of a coordinator
  MaxAttempts,    \* bound: attempts per run
  MaxRequests,    \* bound: model requests per run
  MaxEpoch,       \* bound: ownership epochs
  MaxRevision     \* bound: revisions of a work item's specification

ASSUME LimitAssumption == RequestLimit \in Nat /\ Amounts \subseteq Nat \ {0}
ASSUME CapAssumption == WorkerCap \in Nat \ {0}
ASSUME BoundAssumption == /\ MaxAttempts \in Nat /\ MaxRequests \in Nat
                          /\ MaxEpoch \in Nat \ {0} /\ MaxRevision \in Nat \ {0}
ASSUME NoWorkAssumption == NoWork \notin Works
ASSUME PlansAssumption == \A p \in Plans : /\ DOMAIN p \subseteq Works
                                           /\ \A w \in DOMAIN p : p[w] \subseteq Works

\* coordinator: planning participants; controls: pause, resume and cancel of one
\* participant; tools: tool actions; children: participants in child processes;
\* pause: pause and resume of the run; reobserve: the owner asks again about a
\* process that is recorded as stopped.
AllFeatures == {"coordinator", "controls", "tools", "children", "pause", "reobserve"}
ASSUME FeatureAssumption == Features \subseteq AllFeatures

VARIABLES
  run,    \* the runs row
  work,   \* work_items and work_dependencies
  att,    \* attempts, with their reservation, submission, action and process observation
  req,    \* model_requests, with the start event of each
  exec,   \* what really executes for an attempt
  hostUp, \* whether the app process that owns an epoch is alive
  seen    \* the OS observation a recovery owner has read and not yet committed

db   == <<run, work, att, req>>
env  == <<exec, hostUp>>
vars == <<run, work, att, req, exec, hostUp, seen>>

Attempts == 1..MaxAttempts
Requests == 1..MaxRequests
Epochs   == 1..MaxEpoch

RunStates == {"running", "pausing", "paused", "stopping", "recovery_required",
              "cancelled", "completed", "failed"}
Terminal  == {"cancelled", "completed", "failed"}
WorkStates == {"absent", "pending", "ready", "leased", "running", "submitted",
               "accepted", "failed", "cancelled", "uncertain"}
AttemptStates == {"absent", "leased", "running", "submitted", "completed",
                  "failed", "cancelled", "uncertain"}
RequestStates == {"absent", "reserved", "started", "completed", "failed",
                  "not_started", "uncertain"}
\* Not yet launched; running in a thread of the app, or in a child process of
\* its own; a child that ended and was not yet seen to; and over.
ExecStates == {"none", "thread", "child", "ended", "closed"}
Open   == {"reserved", "started", "uncertain"}    \* requests whose use is unknown
Active == {"leased", "running", "uncertain"}      \* attempts that hold their work item

\* live says that lease_until lies in the future, limit is worker_limit.
RunRows == [state : RunStates, epoch : Epochs, live : BOOLEAN, stop : BOOLEAN,
            limit : 1..WorkerCap]

\* The columns of an attempt and of the rows that belong to it alone.  A
\* dispatch row says what proc says (pending, started, finished, uncertain).
AttemptRows ==
  [state : AttemptStates, kind : {"worker", "coordinator"}, work : Works \cup {NoWork},
   epoch : 0..MaxEpoch,
   proc : {"pending", "running", "stopped", "unknown"},
   obs : {"none", "started", "stopped", "unknown"},
   pause : BOOLEAN, cancel : BOOLEAN,
   amount : Nat, resv : {"reserved", "settled", "uncertain"}, used : Nat,
   sub : Nat,    \* submissions.work_revision, 0 without a submission
   act : {"none", "admitted", "completed", "uncertain"}]

WorkRows == [state : WorkStates, deps : SUBSET Works, rev : 1..MaxRevision]
\* began is the start event of the request, which no later state erases.
RequestRows == [state : RequestStates, att : 0..MaxAttempts, began : BOOLEAN]

NoAttempt == [state |-> "absent", kind |-> "worker", work |-> NoWork, epoch |-> 0,
              proc |-> "stopped", obs |-> "none", pause |-> FALSE, cancel |-> FALSE,
              amount |-> 0, resv |-> "settled", used |-> 0, sub |-> 0, act |-> "none"]
NoRequest == [state |-> "absent", att |-> 0, began |-> FALSE]
NoSight   == [att |-> 0, state |-> "unknown"]

TypeOK ==
  /\ run \in RunRows
  /\ work \in [Works -> WorkRows]
  /\ att \in [Attempts -> AttemptRows]
  /\ req \in [Requests -> RequestRows]
  /\ exec \in [Attempts -> ExecStates]
  /\ hostUp \in [Epochs -> BOOLEAN]
  /\ seen \in [att : 0..MaxAttempts, state : {"stopped", "unknown"}]

\* SwarmSupervisor.create: the owner of epoch 1 holds the first lease.
Init ==
  /\ run = [state |-> "running", epoch |-> 1, live |-> TRUE, stop |-> FALSE, limit |-> WorkerCap]
  /\ work = [w \in Works |-> [state |-> "absent", deps |-> {}, rev |-> 1]]
  /\ att = [a \in Attempts |-> NoAttempt]
  /\ req = [r \in Requests |-> NoRequest]
  /\ exec = [a \in Attempts |-> "none"]
  /\ hostUp = [e \in Epochs |-> e = 1]
  /\ seen = NoSight

-----------------------------------------------------------------------------
(* Reading the rows *)

Present      == {w \in Works : work[w].state # "absent"}
Made         == {a \in Attempts : att[a].state # "absent"}
RequestsOf(rq, a) == {r \in Requests : rq[r].att = a}

\* What an attempt's requests have spent, and what they may still spend
\* (SUM(used), and SUM(CASE WHEN used IS NULL THEN 1 ELSE used END)).
Spent(rq, a) == Cardinality({r \in RequestsOf(rq, a) : rq[r].state \in {"completed", "failed"}})
Held(rq, a)  == Cardinality({r \in RequestsOf(rq, a) : rq[r].state # "not_started"})
OpenOf(rq, a) == {r \in RequestsOf(rq, a) : rq[r].state \in Open}
\* SwarmStore._allocated: a settled reservation counts what it used.
Allocation(a) == IF att[a].resv = "settled" THEN att[a].used ELSE att[a].amount
\* The sum over the run, as the number of units of allowance its attempts hold.
Allocated == Cardinality(UNION {{a} \X (1..Allocation(a)) : a \in Attempts})

\* SwarmStore._authority and the _attempt of a worker's own context.
Owner == run.live /\ hostUp[run.epoch]
Current(a) == Owner /\ att[a].state # "absent" /\ att[a].epoch = run.epoch
Admitting == run.state = "running"
AttemptAdmitting(a) == ~att[a].cancel /\ ~att[a].pause
\* Mutant: recovery may not touch history either.
CurrentOnly(a) == Owner /\ att[a].state # "absent" /\ att[a].epoch = run.epoch

\* SwarmSupervisor._attempt: history may be touched only during recovery.
Addressable(a) == /\ Owner
                  /\ att[a].state # "absent"
                  /\ att[a].epoch = run.epoch \/ run.state = "recovery_required"

\* Rows of the supervisor's capacity query.
Unfinished == {a \in Made : att[a].state \in Active \/ att[a].proc # "stopped"}

ObsOpen(row) == row.obs \notin {"none", "stopped"}
ActOpen(row) == row.act \in {"admitted", "uncertain"}

\* SwarmSupervisor._resolved_attempt
Resolved(a) == /\ att[a].proc = "stopped" /\ att[a].resv = "settled"
               /\ OpenOf(req, a) = {} /\ ~ActOpen(att[a]) /\ ~ObsOpen(att[a])
\* Mutant: only processes count, an open request or action does not.
UnresolvedProcessIn(at) == \E a \in Attempts : at[a].state # "absent" /\ at[a].proc # "stopped"

\* SwarmSupervisor._unresolved, over rows that are about to be written
UnresolvedIn(at) == \E a \in Attempts :
  /\ at[a].state # "absent"
  /\ \/ at[a].proc # "stopped" \/ at[a].resv # "settled" \/ ActOpen(at[a]) \/ ObsOpen(at[a])

\* Mutant: a pause does not wait for unknown outcomes and tools.
PausedOnStarted(rn, at, rq) ==
  IF rn.state = "pausing" /\ \A r \in Requests : rq[r].state # "started"
  THEN [rn EXCEPT !.state = "paused"]
  ELSE IF rn.state = "stopping" /\ ~UnresolvedIn(at)
  THEN [rn EXCEPT !.state = "cancelled"]
  ELSE rn

\* Mutant: a pause waits for reserved requests, which a pause keeps reserved.
PausedWithoutReservation(rn, at, rq) ==
  IF rn.state = "pausing" /\ \A r \in Requests : rq[r].state \notin Open
  THEN [rn EXCEPT !.state = "paused"]
  ELSE IF rn.state = "stopping" /\ ~UnresolvedIn(at)
  THEN [rn EXCEPT !.state = "cancelled"]
  ELSE rn

\* SwarmSupervisor._control_checkpoint: the tail of every transaction.
Checkpointed(rn, at, rq) ==
  IF /\ rn.state = "pausing"
     /\ \A r \in Requests : rq[r].state \notin {"started", "uncertain"}
     /\ \A a \in Attempts : ~ActOpen(at[a])
  THEN [rn EXCEPT !.state = "paused"]
  ELSE IF rn.state = "stopping" /\ ~UnresolvedIn(at)
  THEN [rn EXCEPT !.state = "cancelled"]
  ELSE rn
\* Mutant: a stopped process settles its allowance, open requests or not.
SettledOnStop(row, rq, a) ==
  IF row.proc = "stopped" THEN [row EXCEPT !.resv = "settled", !.used = Spent(rq, a)] ELSE row

\* Mutant: an uncertain reservation is never settled again.
UncertainForGood(row, rq, a) ==
  IF row.resv = "uncertain" THEN row
  ELSE IF row.proc = "stopped" /\ OpenOf(rq, a) = {}
  THEN [row EXCEPT !.resv = "settled", !.used = Spent(rq, a)]
  ELSE row

\* SwarmSupervisor._refresh_reservation: accounting follows what is observed.
Refreshed(row, rq, a) ==
  LET settled   == [row EXCEPT !.resv = "settled", !.used = Spent(rq, a)]
      uncertain == [row EXCEPT !.resv = "uncertain", !.used = 0]
  IN IF ObsOpen(row) /\ row.proc \in {"stopped", "unknown"} THEN uncertain
     ELSE IF row.proc = "stopped" /\ OpenOf(rq, a) = {}
     THEN IF row.state = "uncertain" /\ ~ActOpen(row)
          THEN [settled EXCEPT !.state = "failed"] ELSE settled
     ELSE IF \E r \in OpenOf(rq, a) : rq[r].state = "uncertain" THEN uncertain
     ELSE row
\* Mutant: only the attempt's row moves.
WorkUnchanged(wk, row, new) == wk

\* A worker's row and its work item move together.
WorkAfter(wk, row, new) ==
  IF new.state # row.state /\ row.kind = "worker"
  THEN [wk EXCEPT ![row.work].state = new.state] ELSE wk
\* Mutant: an item that was ready once stays ready.
ReadyForGood(wk) == [w \in Works |->
  IF wk[w].state = "pending" /\ \A d \in wk[w].deps : wk[d].state = "accepted"
  THEN [wk[w] EXCEPT !.state = "ready"] ELSE wk[w]]

\* SwarmSupervisor._readiness
Ready(wk) == [w \in Works |->
  IF wk[w].state \in {"pending", "ready"}
  THEN [wk[w] EXCEPT !.state = IF \E d \in wk[w].deps : wk[d].state # "accepted"
                               THEN "pending" ELSE "ready"]
  ELSE wk[w]]

\* Commit the run row of a command, then its checkpoint.
CommitRun(rn) == run' = Checkpointed(rn, att', req')
-----------------------------------------------------------------------------
(* Planning and admission, by the owner *)

Acyclic(p) == \A s \in SUBSET DOMAIN p : s # {} => \E w \in s : p[w] \cap s = {}
\* Mutant: an attempted item may get a new specification.
RevisedAllowed(p) ==
  /\ \A w \in DOMAIN p : p[w] \subseteq DOMAIN p
  /\ Acyclic(p) /\ Present \subseteq DOMAIN p
  /\ \A w \in Present : p[w] # work[w].deps => work[w].rev < MaxRevision

\* SwarmSupervisor._plan: p becomes the whole graph.  It keeps every known
\* item, and an item that was ever attempted keeps its specification.
PlanAllowed(p) ==
  /\ \A w \in DOMAIN p : p[w] \subseteq DOMAIN p
  /\ Acyclic(p)
  /\ Present \subseteq DOMAIN p
  /\ \A w \in Present : p[w] # work[w].deps =>
        /\ \A a \in Made : att[a].work # w
        /\ work[w].rev < MaxRevision

Planned(p) == [w \in Works |->
  IF w \notin DOMAIN p THEN work[w]
  ELSE IF work[w].state = "absent" THEN [state |-> "pending", deps |-> p[w], rev |-> 1]
  ELSE IF work[w].deps = p[w] THEN work[w]
  ELSE [work[w] EXCEPT !.deps = p[w], !.rev = @ + 1]]

Plan(p) ==
  /\ Owner /\ Admitting
  /\ DOMAIN p # {} /\ PlanAllowed(p)
  /\ work' = Ready(Planned(p))
  /\ UNCHANGED <<att, req, env, seen>>
  /\ CommitRun(run)

\* The attempt, reservation and dispatch rows a grant inserts.
Granted(kind, w, n) == [NoAttempt EXCEPT !.state = "leased", !.kind = kind, !.work = w,
                          !.epoch = run.epoch, !.proc = "pending",
                          !.amount = n, !.resv = "reserved"]
Fresh(a) == att[a].state = "absent" /\ \A b \in 1..(a - 1) : att[b].state # "absent"

\* SwarmSupervisor._assign
Assign(a, w, n) ==
  /\ Owner /\ Admitting
  /\ Fresh(a)
  /\ work[w].state = "ready"
  /\ Cardinality({b \in Unfinished : att[b].kind = "worker"}) < run.limit
  /\ n + Allocated <= RequestLimit
  /\ att' = [att EXCEPT ![a] = Granted("worker", w, n)]
  /\ work' = [work EXCEPT ![w].state = "leased"]
  /\ UNCHANGED <<req, env, seen>>
  /\ CommitRun(run)

\* SwarmSupervisor._start_coordinator: a participant without work of its own.
StartCoordinator(a, n) ==
  /\ "coordinator" \in Features
  /\ Owner /\ Admitting
  /\ Fresh(a)
  /\ \A b \in Unfinished : att[b].kind # "coordinator"
  /\ n + Allocated <= RequestLimit
  /\ att' = [att EXCEPT ![a] = Granted("coordinator", NoWork, n)]
  /\ UNCHANGED <<work, req, env, seen>>
  /\ CommitRun(run)

SetConcurrency(n) ==
  /\ Owner /\ run.state \in {"running", "pausing", "paused"}
  /\ UNCHANGED <<work, att, req, env, seen>>
  /\ CommitRun([run EXCEPT !.limit = n])

\* SwarmSupervisor._controlled_attempt
Controlled(a) == /\ "controls" \in Features
                 /\ Current(a) /\ run.state \in {"running", "pausing", "paused"}
                 /\ att[a].state \in {"leased", "running"}
                 /\ att[a].proc \in {"pending", "running"}

ControlWorker(a, pause, cancel) ==
  /\ Controlled(a)
  /\ att' = [att EXCEPT ![a].pause = pause, ![a].cancel = cancel]
  /\ UNCHANGED <<work, req, env, seen>>
  /\ CommitRun(run)

PauseWorker(a)  == ~att[a].cancel /\ ControlWorker(a, TRUE, FALSE)
ResumeWorker(a) == ~att[a].cancel /\ ControlWorker(a, FALSE, FALSE)
CancelWorker(a) == ControlWorker(a, att[a].pause, TRUE)

-----------------------------------------------------------------------------
(* Execution, by the app process that owns the attempt's epoch *)
\* SwarmSupervisor._worker_started, sent by the worker's own thread.
WorkerStarted(a) ==
  /\ Current(a) /\ Admitting /\ AttemptAdmitting(a)
  /\ att[a].state = "leased" /\ att[a].proc = "pending"
  /\ exec[a] = "none"
  /\ att' = [att EXCEPT ![a].state = "running", ![a].proc = "running"]
  /\ work' = WorkAfter(work, att[a], att'[a])
  /\ exec' = [exec EXCEPT ![a] = "thread"]
  /\ UNCHANGED <<req, hostUp, seen>>
  /\ CommitRun(run)

\* ProcessObservations.started: the suspended child runs once its identity is
\* committed.  There is no command and no checkpoint in this transaction.
ProcessStarted(a) ==
  /\ "children" \in Features
  /\ Current(a) /\ Admitting
  /\ att[a].state \in {"leased", "running"} /\ att[a].obs = "none"
  /\ exec[a] = "thread"
  /\ att' = [att EXCEPT ![a].obs = "started"]
  /\ exec' = [exec EXCEPT ![a] = "child"]
  /\ UNCHANGED <<run, work, req, hostUp, seen>>

\* SwarmExecutionGuard._live: what every new effect of a participant needs.
Live(a) == /\ Current(a) /\ Admitting /\ AttemptAdmitting(a)
           /\ att[a].state = "running" /\ att[a].proc = "running"
           /\ att[a].resv = "reserved"
           /\ exec[a] \in {"thread", "child"}

\* SwarmExecutionGuard.begin_request up to its reservation: nothing of the
\* attempt is open, and the attempt's allowance covers one more request.
ReserveRequest(a, r) ==
  /\ Live(a)
  /\ OpenOf(req, a) = {} /\ ~ActOpen(att[a])
  /\ req[r].state = "absent" /\ \A q \in 1..(r - 1) : req[q].state # "absent"
  /\ Held(req, a) < att[a].amount
  /\ req' = [req EXCEPT ![r] = [state |-> "reserved", att |-> a, began |-> FALSE]]
  /\ UNCHANGED <<work, att, env, seen>>
  /\ CommitRun(run)

\* SwarmSupervisor._start_request; the event it writes is never rewritten.
StartRequest(r) ==
  /\ req[r].state = "reserved"
  /\ Live(req[r].att)
  /\ req' = [req EXCEPT ![r].state = "started", ![r].began = TRUE]
  /\ UNCHANGED <<work, att, env, seen>>
  /\ CommitRun(run)
\* Mutant: the owner may declare a request that began as never started.
Refundable(r, outcome) == /\ outcome = "completed" => req[r].began
                          /\ outcome = "failed" => req[r].state # "reserved"

\* SwarmSupervisor._settle: what may be said of a request, given its past.
Sayable(r, outcome) ==
  /\ outcome = "not_started" => ~req[r].began
  /\ outcome = "completed" => req[r].began
  /\ outcome = "failed" => req[r].state # "reserved"

Settle(r, outcome) ==
  LET a == req[r].att IN
  /\ Sayable(r, outcome)
  /\ req' = [req EXCEPT ![r].state = outcome]
  /\ att' = [att EXCEPT ![a] = Refreshed(att[a], req', a)]
  /\ work' = WorkAfter(work, att[a], att'[a])
  /\ UNCHANGED <<env, seen>>
  /\ CommitRun(run)

\* SwarmExecutionGuard.end_request, with SwarmSupervisor._settle_request
SettleRequest(r, outcome) ==
  /\ req[r].state = "started"
  /\ Current(req[r].att) /\ exec[req[r].att] \in {"thread", "child"}
  /\ Settle(r, outcome)

\* SwarmExecutionGuard.begin_tool: a tool needs a completed request.
BeginTool(a) ==
  /\ "tools" \in Features
  /\ Live(a)
  /\ \E r \in RequestsOf(req, a) : req[r].state = "completed"
  /\ ~ActOpen(att[a])
  /\ att' = [att EXCEPT ![a].act = "admitted"]
  /\ UNCHANGED <<run, work, req, env, seen>>

\* SwarmExecutionGuard.end_tool; its checkpoint is a command of its own.
EndTool(a, outcome) ==
  /\ Current(a) /\ exec[a] \in {"thread", "child"}
  /\ att[a].act = "admitted"
  /\ att' = [att EXCEPT ![a].act = outcome]
  /\ UNCHANGED <<run, work, req, env, seen>>

\* SwarmSupervisor._submit
Submit(a) ==
  /\ Current(a) /\ att[a].kind = "worker"
  /\ att[a].state \in {"leased", "running"} /\ att[a].sub = 0
  /\ att[a].proc = "running"   \* the senders: its tool, or its runner once it ended
  /\ exec[a] \in {"thread", "child", "closed"}
  /\ att' = [att EXCEPT ![a].sub = work[att[a].work].rev]
  /\ UNCHANGED <<work, req, env, seen>>
  /\ CommitRun(run)

\* ProcessObservations.stopped: the host saw its own child end.  It needs no
\* live authority, and neither refreshes accounting nor checkpoints the run.
ProcessStopped(a) ==
  /\ exec[a] = "ended" /\ hostUp[att[a].epoch]
  /\ exec' = [exec EXCEPT ![a] = "closed"]
  /\ att' = [att EXCEPT ![a].obs = "stopped"]
  /\ UNCHANGED <<run, work, req, hostUp, seen>>

Outcomes(a) == {"failed", "cancelled"} \cup
               (IF att[a].kind = "coordinator" THEN {"completed"}
                ELSE IF att[a].sub > 0 THEN {"submitted"} ELSE {})

\* SwarmSupervisor._worker_stopped: a request that never started is known
\* unused only now; one that started, or an open action, is not.
RecordStop(a, outcome) ==
  /\ Addressable(a) /\ att[a].proc # "stopped"
  /\ outcome \in Outcomes(a)
  /\ req' = [r \in Requests |->
       IF req[r].att # a THEN req[r]
       ELSE IF req[r].state = "reserved" THEN [req[r] EXCEPT !.state = "not_started"]
       ELSE IF req[r].state = "started" THEN [req[r] EXCEPT !.state = "uncertain"]
       ELSE req[r]]
  /\ LET act     == IF att[a].act = "admitted" THEN "uncertain" ELSE att[a].act
         unknown == \/ \E r \in RequestsOf(req', a) : req'[r].state = "uncertain"
                    \/ act = "uncertain" \/ ObsOpen(att[a])
         stopped == [att[a] EXCEPT !.state = IF unknown THEN "uncertain" ELSE outcome,
                                   !.proc = "stopped", !.act = act]
         final   == Refreshed(stopped, req', a)
     IN /\ att' = [att EXCEPT ![a] = final]
        /\ work' = IF att[a].kind = "worker"
                   THEN [work EXCEPT ![att[a].work].state = final.state] ELSE work
  /\ UNCHANGED <<env, seen>>
  /\ CommitRun(run)
\* Mutant: the runner reports a participant it did not join.
StoppedUnjoined(a, outcome) == Current(a) /\ RecordStop(a, outcome)

\* SwarmWorkerRunner reports a participant it has joined; a participant that
\* was never launched is reported by the scheduler, and never launched later.
WorkerStopped(a, outcome) ==
  /\ Current(a)
  /\ exec[a] = "closed"
  /\ RecordStop(a, outcome)

\* SwarmScheduler._not_launched, or a thread that ends at its first boundary.
NotLaunched(a) ==
  /\ att[a].state # "absent" /\ exec[a] = "none" /\ hostUp[att[a].epoch]
  /\ exec' = [exec EXCEPT ![a] = "closed"]
  /\ UNCHANGED <<db, hostUp, seen>>

-----------------------------------------------------------------------------
(* Owner decisions on the run and on results *)

Pause ==
  /\ "pause" \in Features
  /\ Owner /\ Admitting
  /\ UNCHANGED <<work, att, req, env, seen>>
  /\ CommitRun([run EXCEPT !.state = "pausing"])

Resume ==
  /\ Owner /\ run.state = "paused"
  /\ \A a \in Made : att[a].resv # "uncertain"
  /\ UNCHANGED <<work, att, req, env, seen>>
  /\ CommitRun([run EXCEPT !.state = "running"])

\* Mutant: a stop during recovery is drained at once.
StopInRecovery ==
  /\ Owner /\ run.state \notin Terminal
  /\ UNCHANGED <<work, att, req, env, seen>>
  /\ CommitRun([run EXCEPT !.stop = TRUE, !.state = "stopping"])

\* SwarmSupervisor._stop: what waits is cancelled, what runs is drained, and
\* what is under recovery stays there.
Stop ==
  /\ Owner /\ run.state \notin Terminal
  /\ work' = [w \in Works |-> IF work[w].state \in {"ready", "pending"}
                              THEN [work[w] EXCEPT !.state = "cancelled"] ELSE work[w]]
  /\ UNCHANGED <<att, req, env, seen>>
  /\ CommitRun([run EXCEPT !.stop = TRUE,
                           !.state = IF @ = "recovery_required" THEN @ ELSE "stopping"])

\* The checkpoint command, and the renewal of a live lease, whose checkpoint
\* is all it does to these rows.
Checkpoint ==
  /\ Owner
  /\ run # Checkpointed(run, att, req)
  /\ UNCHANGED <<work, att, req, env, seen>>
  /\ CommitRun(run)

\* A coordinator that planned no work may have answered: its proposal, which is
\* not kept here, can be accepted once it completed after a completed request.
Answered == \E a \in Made :
  /\ att[a].kind = "coordinator" /\ att[a].state = "completed"
  /\ \E r \in RequestsOf(req, a) : req[r].state = "completed"

\* SwarmSupervisor._complete
Complete ==
  /\ Owner /\ Admitting
  /\ Present # {} \/ Answered
  /\ \A w \in Present : work[w].state = "accepted"
  /\ ~UnresolvedIn(att)
  /\ UNCHANGED <<work, att, req, env, seen>>
  /\ CommitRun([run EXCEPT !.state = "completed"])

\* SwarmSupervisor._review_read_result and _accept_under_grant
AcceptResult(a) ==
  /\ Owner /\ Admitting
  /\ att[a].state = "submitted" /\ att[a].kind = "worker" /\ Resolved(a)
  /\ work[att[a].work].state = "submitted" /\ att[a].sub = work[att[a].work].rev
  /\ work' = Ready([work EXCEPT ![att[a].work].state = "accepted"])
  /\ UNCHANGED <<att, req, env, seen>>
  /\ CommitRun(run)

\* SwarmSupervisor._repairable
Repairable(w) == \A a \in Made : att[a].work = w => Resolved(a)
Reject(a) ==
  /\ Owner /\ (Admitting \/ run.state = "recovery_required")
  /\ att[a].state = "submitted" /\ att[a].kind = "worker"
  /\ work[att[a].work].state = "submitted"
  /\ Repairable(att[a].work)
  /\ att' = [att EXCEPT ![a].state = "failed"]
  /\ work' = [work EXCEPT ![att[a].work].state = "failed"]
  /\ UNCHANGED <<req, env, seen>>
  /\ CommitRun(run)

Retry(w) ==
  /\ Owner /\ Admitting
  /\ work[w].state \in {"failed", "cancelled"} /\ Repairable(w)
  /\ work' = Ready([work EXCEPT ![w].state = "pending"])
  /\ UNCHANGED <<att, req, env, seen>>
  /\ CommitRun(run)

-----------------------------------------------------------------------------
(* Taking over an expired lease, and recovery *)
\* Mutant: the state of the attempt is written into its process column.
FencedProcess(row) ==
  [row EXCEPT !.state = IF row.proc \in {"pending", "running"} THEN "uncertain" ELSE @,
              !.proc  = IF @ \in {"pending", "running"} THEN "uncertain" ELSE @,
              !.resv  = IF @ = "reserved" THEN "uncertain" ELSE @]

\* SwarmSupervisor.acquire: fence the old epoch, keep everything unresolved.
Fenced(row) ==
  LET open == row.proc \in {"pending", "running"} IN
  [row EXCEPT !.state = IF open THEN "uncertain" ELSE @,
              !.proc  = IF open THEN "unknown" ELSE @,
              !.obs   = IF @ = "started" THEN "unknown" ELSE @,
              !.act   = IF @ = "admitted" THEN "uncertain" ELSE @,
              !.resv  = IF @ = "reserved" THEN "uncertain" ELSE @]

Acquire ==
  /\ run.epoch < MaxEpoch /\ ~run.live /\ run.state \notin Terminal
  /\ run' = [run EXCEPT !.epoch = @ + 1, !.live = TRUE, !.state = "recovery_required"]
  /\ att' = [a \in Attempts |-> IF att[a].state = "absent" THEN att[a] ELSE Fenced(att[a])]
  /\ work' = [w \in Works |-> IF work[w].state \in {"leased", "running"}
                              THEN [work[w] EXCEPT !.state = "uncertain"] ELSE work[w]]
  /\ req' = [r \in Requests |-> IF req[r].state \in {"reserved", "started"}
                                THEN [req[r] EXCEPT !.state = "uncertain"] ELSE req[r]]
  /\ hostUp' = [hostUp EXCEPT ![run.epoch + 1] = TRUE]
  /\ seen' = NoSight
  /\ UNCHANGED exec

\* SwarmRecovery holds a run it took over: epochs after the first.
Recovering == Owner /\ run.epoch > 1

\* ProcessObservations.inspect reads the process table before, and outside,
\* the transaction that stores the answer.  A process that is gone may also
\* be unreadable, or its identity in use by another.
InspectProcess(a, answer) ==
  /\ Recovering /\ seen = NoSight /\ att[a].obs # "none"
  /\ att[a].obs = "stopped" => "reobserve" \in Features
  /\ answer = "stopped" => exec[a] # "child"
  /\ seen' = [att |-> a, state |-> answer]
  /\ UNCHANGED <<db, env>>

\* ProcessObservations.reconcile
ReconcileProcess ==
  LET a == seen.att IN
  /\ Recovering /\ a # 0
  /\ LET noted == [att[a] EXCEPT !.obs = seen.state]
         final == Refreshed(noted, req, a)
     IN /\ att' = [att EXCEPT ![a] = final]
        /\ work' = WorkAfter(work, att[a], final)
  /\ seen' = NoSight
  /\ UNCHANGED <<req, env>>
  /\ CommitRun(run)
\* Mutant: a participant without a child process is taken to be gone.
RecoverThread(a) ==
  /\ Recovering /\ a \in Made
  /\ att[a].obs \in {"stopped", "none"}
  /\ RecordStop(a, IF run.stop THEN "cancelled" ELSE "failed")

\* The end of SwarmRecovery.reconcile_process: a stopped child, or a thread
\* whose app process is gone.
RecoverStop(a) ==
  /\ Recovering /\ a \in Made
  /\ att[a].obs = "stopped" \/ (att[a].obs = "none" /\ ~hostUp[att[a].epoch])
  /\ RecordStop(a, IF run.stop THEN "cancelled" ELSE "failed")

\* SwarmSupervisor._reconcile_request, through SwarmRecovery.command
ReconcileRequest(r, outcome) ==
  /\ Recovering /\ req[r].state = "uncertain" /\ Addressable(req[r].att)
  /\ Settle(r, outcome)

\* SwarmSupervisor._reconcile_action, through SwarmRecovery.command
ReconcileAction(a) ==
  /\ Recovering /\ Addressable(a)
  /\ att[a].act = "uncertain" /\ att[a].proc = "stopped"
  /\ LET final == Refreshed([att[a] EXCEPT !.act = "completed"], req, a)
     IN /\ att' = [att EXCEPT ![a] = final]
        /\ work' = WorkAfter(work, att[a], final)
  /\ UNCHANGED <<req, env, seen>>
  /\ CommitRun(run)
\* SwarmSupervisor._recover: leave recovery once nothing is unresolved.
Recover(retry) ==
  /\ Owner /\ run.state = "recovery_required"
  /\ ~UnresolvedIn(att)
  /\ IF run.stop
     THEN /\ retry = {}
          /\ work' = work
     ELSE /\ \A w \in retry : work[w].state \in {"failed", "cancelled"}
          /\ work' = Ready([w \in Works |-> IF w \in retry THEN [work[w] EXCEPT !.state = "pending"]
                                            ELSE work[w]])
  /\ UNCHANGED <<att, req, env, seen>>
  /\ CommitRun([run EXCEPT !.state = IF run.stop THEN "cancelled" ELSE "running"])

-----------------------------------------------------------------------------
(* The world outside the database *)

\* A participant drains, fails or is cancelled.  Its child is seen to end by
\* the host only afterwards.
ExecutionEnds(a) ==
  /\ exec[a] \in {"thread", "child"}
  /\ exec' = [exec EXCEPT ![a] = IF @ = "child" THEN "ended" ELSE "closed"]
  /\ UNCHANGED <<db, hostUp, seen>>

\* The app process of an epoch dies: its threads end with it and no waiting
\* thread starts, while a child process lives on.
HostCrash(e) ==
  /\ e < MaxEpoch /\ hostUp[e]
  /\ hostUp' = [hostUp EXCEPT ![e] = FALSE]
  /\ exec' = [a \in Attempts |-> IF att[a].epoch = e /\ exec[a] \in {"none", "thread"}
                                 THEN "closed" ELSE exec[a]]
  /\ seen' = IF e = run.epoch THEN NoSight ELSE seen
  /\ UNCHANGED db

\* The lease lapses: its owner crashed, hung or slept past it.
LeaseExpires ==
  /\ run.epoch < MaxEpoch /\ run.live
  /\ run' = [run EXCEPT !.live = FALSE]
  /\ UNCHANGED <<work, att, req, env, seen>>

Next ==
  \/ \E p \in Plans : Plan(p)
  \/ \E a \in Attempts, w \in Works, n \in Amounts : Assign(a, w, n)
  \/ \E a \in Attempts, n \in Amounts : StartCoordinator(a, n)
  \/ \E n \in 1..WorkerCap : SetConcurrency(n)
  \/ \E a \in Attempts : PauseWorker(a) \/ ResumeWorker(a) \/ CancelWorker(a)
  \/ \E a \in Attempts : WorkerStarted(a) \/ ProcessStarted(a) \/ BeginTool(a) \/ Submit(a)
  \/ \E a \in Attempts, r \in Requests : ReserveRequest(a, r)
  \/ \E r \in Requests : StartRequest(r)
  \/ \E r \in Requests, o \in {"completed", "uncertain"} : SettleRequest(r, o)
  \/ \E a \in Attempts, o \in {"completed", "uncertain"} : EndTool(a, o)
  \/ \E a \in Attempts : ProcessStopped(a) \/ NotLaunched(a)
  \/ \E a \in Attempts, o \in {"submitted", "completed", "failed", "cancelled"} : WorkerStopped(a, o)
  \/ Pause \/ Resume \/ Stop \/ Checkpoint \/ Complete
  \/ \E a \in Attempts : AcceptResult(a) \/ Reject(a)
  \/ \E w \in Works : Retry(w)
  \/ Acquire
  \/ \E a \in Attempts, s \in {"stopped", "unknown"} : InspectProcess(a, s)
  \/ ReconcileProcess
  \/ \E a \in Attempts : RecoverStop(a) \/ ReconcileAction(a)
  \/ \E r \in Requests, o \in {"completed", "failed", "not_started", "uncertain"} : ReconcileRequest(r, o)
  \/ \E s \in SUBSET Works : Recover(s)
  \/ \E a \in Attempts : ExecutionEnds(a)
  \/ \E e \in Epochs : HostCrash(e)
  \/ LeaseExpires

Spec == Init /\ [][Next]_vars

\* What the code keeps doing by itself.  A participant whose admission is
\* closed for good ends and is reported (a paused one waits); requests and
\* tools return; the owner renews, and so checkpoints, its lease; and the lease
\* of a dead owner lapses.
SchedulingFairness ==
  /\ \A a \in Attempts :
       /\ WF_vars((run.stop \/ att[a].epoch < run.epoch) /\ ExecutionEnds(a))
       /\ WF_vars(ProcessStopped(a)) /\ WF_vars(run.stop /\ NotLaunched(a))
       /\ WF_vars(\E o \in {"submitted", "completed", "failed", "cancelled"} : WorkerStopped(a, o))
       /\ WF_vars(\E o \in {"completed", "uncertain"} : EndTool(a, o))
  /\ \A r \in Requests : WF_vars(\E o \in {"completed", "uncertain"} : SettleRequest(r, o))
  /\ WF_vars(Checkpoint) /\ WF_vars(ReconcileProcess)
  /\ WF_vars(~hostUp[run.epoch] /\ LeaseExpires)

\* What a person must do for a run that lost its owner: open it again, close
\* the app that lost it, inspect until the process table answers, state an
\* outcome for what stayed unknown, and end the recovery.
OwnerFairness ==
  /\ WF_vars(Acquire) /\ WF_vars(Recover({}))
  /\ WF_vars(\E e \in 1..(run.epoch - 1) : HostCrash(e))
  /\ \A a \in Attempts : /\ SF_vars(InspectProcess(a, "stopped"))
                         /\ WF_vars(RecoverStop(a)) /\ WF_vars(ReconcileAction(a))
  /\ \A r \in Requests :
       WF_vars(\E o \in {"completed", "failed", "not_started"} : ReconcileRequest(r, o))

Fairness == SchedulingFairness /\ OwnerFairness

FairSpec == Spec /\ Fairness

-----------------------------------------------------------------------------
(* Safety *)

Executing == {a \in Attempts : exec[a] \in {"thread", "child"}}

\* The run never invokes a provider more often than its request limit, nor an
\* attempt more often than its allowance: a request that started is never
\* refunded, whatever crash, takeover or reconciliation lies in between.
Invoked == {r \in Requests : req[r].began \/ req[r].state \in {"completed", "failed"}}
SpendWithinLimit ==
  /\ Cardinality(Invoked) <= RequestLimit
  /\ \A a \in Made : Cardinality(Invoked \cap RequestsOf(req, a)) <= att[a].amount

\* A settled reservation is the exact sum of its requests, none of which can
\* still change: allowance returned to the run is really unused.
SettledIsExact == \A a \in Made : att[a].resv = "settled" =>
  OpenOf(req, a) = {} /\ att[a].used = Spent(req, a) /\ att[a].proc = "stopped"

\* Two participants never execute for one work item at once, even when the
\* first was fenced and lives on as an orphan while the item is retried.
OneExecutionPerWork == \A a, b \in Executing :
  att[a].kind = "worker" /\ att[b].kind = "worker" /\ att[a].work = att[b].work => a = b

\* An attempt that is recorded as stopped does not execute: takeover, expiry
\* and late reports never turn a guess into a termination.
StoppedMeansStopped == \A a \in Made : att[a].proc = "stopped" => a \notin Executing

\* A work item in the hands of a worker mirrors exactly one attempt.
WorkMirrorsAttempt ==
  /\ \A w \in Works : work[w].state \in Active =>
       Cardinality({a \in Made : att[a].work = w /\ att[a].state = work[w].state}) = 1
  /\ \A a \in Made : att[a].kind = "worker" /\ att[a].state \in Active =>
       work[att[a].work].state = att[a].state

\* Work is handed out, run and accepted only on accepted dependencies, across
\* replanning, retries and recovery.
DependenciesFirst == \A w \in Works :
  work[w].state \notin {"absent", "pending", "cancelled"} =>
    \A d \in work[w].deps : work[d].state = "accepted"

\* An accepted item rests on a terminated attempt that submitted against the
\* specification the item still has.
AcceptedIsCurrent == \A w \in Works : work[w].state = "accepted" =>
  \E a \in Made : /\ att[a].work = w /\ att[a].state = "submitted"
                  /\ att[a].sub = work[w].rev /\ att[a].proc = "stopped"

\* A run shows "paused" only when no provider call and no tool is under way
\* and none was left with an unknown outcome.
PausedIsQuiet == run.state = "paused" =>
  /\ \A r \in Requests : req[r].state \notin {"started", "uncertain"}
  /\ \A a \in Made : ~ActOpen(att[a])

\* A stopped run never admits work again, not even through a takeover.
StopIsFinal == run.stop => run.state \in {"stopping", "recovery_required", "cancelled"}

\* A run that left recovery knows what its earlier epochs did: none of their
\* processes, attempts, requests or tool actions has an unknown outcome.  Their
\* allowance is another matter: a repeated observation of a child may take that
\* up again.
PastIsKnown == run.state \notin {"recovery_required"} =>
  \A a \in Made : att[a].epoch < run.epoch =>
    /\ att[a].proc = "stopped" /\ att[a].state \notin Active
    /\ OpenOf(req, a) = {} /\ ~ActOpen(att[a])

\* docs/swarming-contracts.md, invariant 1: the same remaining allowance is
\* never allocated twice.
AllowanceAllocatedOnce == Allocated <= RequestLimit

(* Action properties *)

\* Only the current epoch causes effects: a fenced attempt starts no request,
\* no execution, no tool and hands nothing off.
FencedIsInert == [][\A a \in Made : att[a].epoch < run.epoch =>
  /\ att'[a].sub = att[a].sub
  /\ a \notin Executing => exec'[a] \notin {"thread", "child"}
  /\ att[a].act # "admitted" => att'[a].act # "admitted"
  /\ \A r \in RequestsOf(req, a) : req'[r].began = req[r].began]_vars

\* A run that is shown cancelled or completed is over outside its rows too: none
\* of its participants executes, recorded as such or not, and none of its
\* attempts, requests and tools waits for an outcome.  The step that ends it finds
\* it fully accounted for, every allowance settled at what its requests used and
\* every child seen to stop; later only a repeated observation of a child may
\* take an account up again (ProcessObservations.reconcile).
EndsResolved == run'.state \in Terminal => \A a \in Made' :
  /\ exec'[a] \notin {"thread", "child"}
  /\ att'[a].proc = "stopped" /\ att'[a].state \in {"submitted", "completed", "failed", "cancelled"}
  /\ \A r \in Requests : req'[r].att = a => req'[r].state \in {"completed", "failed", "not_started"}
  /\ att'[a].act \in {"none", "completed"}
  /\ run.state \notin Terminal =>
       /\ att'[a].obs \in {"none", "stopped"}
       /\ att'[a].resv = "settled" /\ att'[a].used = Spent(req', a)
EndIsResolved == [][EndsResolved]_vars

(* Liveness *)

\* Something whose outcome only a recovery owner may state.
LeftUnknown == (\E r \in Requests : req[r].state = "uncertain")
            \/ (\E a \in Attempts : att[a].act = "uncertain")

\* Once stop is requested the run is cancelled, however often its owner is
\* lost on the way: only an outcome left unknown in the epoch that produced it
\* keeps the run stopping, since that epoch has no command to settle it.
StopTerminates == run.stop ~> run.state = "cancelled" \/ (run.epoch = 1 /\ LeftUnknown)

\* A pause is reached without any other command: the requests and tools that
\* were under way return, and the next checkpoint finds the run quiet.
PauseReached == run.state = "pausing" ~> run.state # "pausing" \/ LeftUnknown

\* The recovery of a lost run ends: it is cancelled, or it runs again.
RecoveryTerminates == run.state = "recovery_required" /\ run.epoch = MaxEpoch
  ~> run.state # "recovery_required"

-----------------------------------------------------------------------------
(* Refinement *)

Lifecycle == INSTANCE RunLifecycle
  WITH state <- run.state, stop <- run.stop, epoch <- run.epoch, live <- run.live

\* The rows of a run implement the run's lifecycle: with all its workers,
\* checkpoints and recoveries the state column moves only along the lifecycle,
\* under a live lease, and the epoch only forward over an expired one.
ImplementsLifecycle == Lifecycle!Spec
=============================================================================
