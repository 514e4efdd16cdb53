-------------------------- MODULE SwarmIntegration --------------------------
(***************************************************************************)
(* How the work of a team's writers reaches the person's checkout.         *)
(*                                                                         *)
(* A writer works in a worktree of its own; finished results are combined  *)
(* in a candidate, which is checked and, once a person approves, merged    *)
(* into the checkout.  Each of these effects is recorded as an intent, run *)
(* by a gated child process, and recorded again as an outcome, by a thread *)
(* that holds the lock of the repository.  Between any two of those steps  *)
(* the app may die, its lease lapse and another app take the run over, the *)
(* run be paused or stopped, or the person move the checkout.              *)
(*                                                                         *)
(* SwarmRun says what attempts, requests and commands do; of an attempt    *)
(* only what integration reads is kept here, and the owner of an epoch is  *)
(* the app process that acquired it.  An effect's processes (a writer and  *)
(* a check have several, one after the other) are the last of them, those  *)
(* before it having been seen to stop.                                     *)
(***************************************************************************)
EXTENDS Naturals, FiniteSets

CONSTANTS
  Writers,       \* identities of writer worktrees, one per attempt
  Candidates,    \* identities of integration candidates
  Keys,          \* the declared checks of a candidate
  Approvals,     \* identities of approved applications
  Slots,         \* bound: jobs (threads, with their operation row) at a time
  MaxEpoch,      \* bound: ownership epochs
  Features,      \* optional inputs: "pause", "own" (the person's own commits),
                 \* "parallel" (jobs of one epoch at the same time), "refusals"
                 \* (an observation may fail for any reason)
  Root, Own      \* commits: where the checkout starts, and the person's own

None == "none"   \* no value

ASSUME NamesAssumption == /\ Root # Own /\ {Root, Own} \cap Candidates = {}
                          /\ Keys # {} /\ None \notin Slots \cup Candidates
ASSUME EpochAssumption == MaxEpoch \in Nat \ {0}

VARIABLES
  run,    \* the runs row: state, stop_requested, epoch, and whether the lease is live
  hostUp, \* whether the app process that owns an epoch is alive
  att,    \* the attempt of each writer, as far as integration reads it
  eff,    \* the integration tables, each row with its process row and process
  plan,   \* what a candidate combines, and on which commit
  target, \* integration_applications.candidate_id
  job,    \* integration_operations, and the threads that run them
  lock,   \* the holder of the repository lock
  head,   \* HEAD of the person's checkout
  moves   \* history: how often an approval's Git moved the checkout

vars == <<run, hostUp, att, eff, plan, target, job, lock, head, moves>>

Epochs == 1..MaxEpoch

\* An effect is a row of writer_worktrees, integration_candidates,
\* integration_checks (the latest receipt of a check) or integration_applications.
Effect(kind, of, key) == [kind |-> kind, of |-> of, key |-> key]
WriterOf(w)    == Effect("writer", w, None)
CandidateOf(c) == Effect("candidate", c, None)
CheckOf(c, k)  == Effect("check", c, k)
ApplyOf(x)     == Effect("application", x, None)
Effects == {WriterOf(w) : w \in Writers} \cup {CandidateOf(c) : c \in Candidates}
           \cup {CheckOf(c, k) : c \in Candidates, k \in Keys} \cup {ApplyOf(x) : x \in Approvals}
NoEffect == Effect(None, None, None)

Commits == Candidates \cup {Root, Own}

\* IntegrationProcesses._ACTIVE
Active(kind) == CASE kind = "writer"      -> {"creating", "finalizing"}
                  [] kind = "candidate"   -> {"preparing"}
                  [] kind = "check"       -> {"running"}
                  [] kind = "application" -> {"applying"}
Pending(e) == eff[e].state \in Active(e.kind) \cup {"uncertain"}

EffectStates == {"absent", "creating", "active", "finalizing", "ready", "rejected",
                 "preparing", "conflict", "verified", "superseded", "running", "passed",
                 "input_changed", "timed_out", "cancelled", "not_started", "applying", "applied",
                 "not_applied", "failed", "uncertain"}
\* closed is stopped or not_started.  Two fields are no columns: alive, of a child
\* that has its argv and has not ended; and the history passed, of a check whose
\* last recorded outcome, in an earlier receipt, is "passed".
EffectRows == [state : EffectStates, epoch : 0..MaxEpoch, invoked : BOOLEAN, alive : BOOLEAN,
               passed : BOOLEAN, proc : {"none", "intent", "invoked", "unknown", "closed"}]
NoRow == [state |-> "absent", epoch |-> 0, invoked |-> FALSE, alive |-> FALSE,
          passed |-> FALSE, proc |-> "none"]

Observations == {"reconcile", "settle", "operation"}
Kinds     == {"create", "finalize", "prepare", "check", "apply"} \cup Observations
Unsettled == {"queued", "running", "uncertain"}
Stages    == {"queued", "waiting", "holding", "read", "intended", "launched", "invoked",
              "returned", "failing", "looking", "looked", "inspected", "finishing", "ended"}
WriterSteps == {"create", "finalize"}
\* row is None for a writer's steps, which run on a worker's or the scheduler's
\* thread; on is the effect, and made whether this job recorded its intent;
\* other is the operation to reconcile; saw the HEAD a thread has read; told the
\* outcome it has to report, or None if it must ask the row of its effect.
Jobs == [kind : Kinds, on : Effects \cup {NoEffect}, made : BOOLEAN, other : Slots \cup {None},
         epoch : 0..MaxEpoch, row : {None, "completed", "failed", "cancelled"} \cup Unsettled,
         stage : Stages, saw : Commits, told : EffectStates \cup {None, "completed"}]
NoJob == [kind |-> "operation", on |-> NoEffect, made |-> FALSE, other |-> None, epoch |-> 0,
          row |-> None, stage |-> "ended", saw |-> Root, told |-> None]

Terminal == {"cancelled", "completed", "failed"}
RunRows  == [state : {"running", "pausing", "paused", "stopping", "recovery_required"} \cup Terminal,
             stop : BOOLEAN, epoch : Epochs, live : BOOLEAN]

TypeOK ==
  /\ run \in RunRows /\ hostUp \in [Epochs -> BOOLEAN]
  /\ att \in [Writers -> [state : {"absent", "running", "submitted", "accepted", "failed"},
                          base : Commits]]
  /\ eff \in [Effects -> EffectRows]
  /\ plan \in [Candidates -> [members : SUBSET Writers, base : Commits, line : SUBSET Commits]]
  /\ target \in [Approvals -> Candidates \cup {None}]
  /\ job \in [Slots -> Jobs]
  /\ lock \in Slots \cup {None}
  /\ head \in Commits
  /\ moves \in [Approvals -> Nat]

Init ==
  /\ run = [state |-> "running", stop |-> FALSE, epoch |-> 1, live |-> TRUE]
  /\ hostUp = [e \in Epochs |-> e = 1]
  /\ att = [w \in Writers |-> [state |-> "absent", base |-> Root]]
  /\ eff = [e \in Effects |-> NoRow]
  /\ plan = [c \in Candidates |-> [members |-> {}, base |-> Root, line |-> {}]]
  /\ target = [x \in Approvals |-> None]
  /\ job = [s \in Slots |-> NoJob]
  /\ lock = None /\ head = Root
  /\ moves = [x \in Approvals |-> 0]

-----------------------------------------------------------------------------
(* Reading the rows *)

\* SwarmStore._authority and _admitting, for the app process of epoch e
Authority(e) == run.live /\ run.epoch = e
Admitting(e) == Authority(e) /\ run.state = "running"
Owner == run.live /\ hostUp[run.epoch]

\* What is left of a job whose thread has ended: its row, while that is open.
Left(j) == IF j.row \in Unsettled
           THEN [NoJob EXCEPT !.kind = j.kind, !.on = j.on, !.made = j.made, !.epoch = j.epoch, !.row = j.row]
           ELSE NoJob

Alive(s)   == job[s].stage # "ended"
Mine(s)    == eff[job[s].on]
Settled(s, state) == LET j == [job[s] EXCEPT !.row = state] IN IF Alive(s) THEN j ELSE Left(j)
\* The last outcome recorded for a check is "passed": its latest receipt is, or was
\* left at its intent by a check that ran again.
Passed(row) == row.state = "passed" \/ (row.state = "running" /\ row.passed)
Busy(e)    == \E s \in Slots : Alive(s) /\ job[s].on = e
Open(row)  == row.proc \notin {"none", "closed"}

EffectUnresolved(ef, e) == Open(ef[e]) \/ ef[e].state \in Active(e.kind) \cup {"uncertain"}

\* Mutant: once its processes have stopped, nothing of integration is open.
UnresolvedProcesses(ef, jb) == \E e \in Effects : Open(ef[e])

\* SwarmSupervisor._integration_unresolved, over rows about to be written
IntegrationUnresolved(ef, jb) == \/ \E e \in Effects : EffectUnresolved(ef, e)
                                 \/ \E s \in Slots : jb[s].row \in Unsettled

\* SwarmSupervisor._unresolved
Unresolved(ef, at, jb) == \/ IntegrationUnresolved(ef, jb)
                          \/ \E w \in Writers : at[w].state = "running"

\* SwarmSupervisor._control_checkpoint
Checkpointed(rn, ef, at, jb) ==
  IF rn.state = "pausing" /\ ~IntegrationUnresolved(ef, jb) THEN [rn EXCEPT !.state = "paused"]
  ELSE IF rn.state = "stopping" /\ ~Unresolved(ef, at, jb) THEN [rn EXCEPT !.state = "cancelled"]
  ELSE rn

\* The end of a transaction that checkpoints if the condition holds.
Commit(rn, checkpoint) == run' = IF checkpoint THEN Checkpointed(rn, eff', att', job') ELSE rn

Goes(s, stage) == job' = [job EXCEPT ![s].stage = stage]
\* Leaving the repository lock.
Leaves(s, stage) == Goes(s, stage) /\ lock' = IF lock = s THEN None ELSE lock
-----------------------------------------------------------------------------

(* Asking for an effect *)

\* A slot is used again once its thread is gone and its row is settled.
Idle(s) == ~Alive(s) /\ job[s].row \notin Unsettled /\ \A t \in Slots : Alive(t) => job[t].other # s

\* Bound: a job takes the first idle slot.  Without "parallel" the threads of one
\* epoch take turns; only a merge is asked for beside a row of its epoch that is
\* still open, that of a check; and the next owner is left a slot.
Free(s, kind) ==
  /\ Owner /\ Idle(s) /\ s = CHOOSE t \in Slots : Idle(t)
  /\ "parallel" \in Features \/ \A t \in {u \in Slots : job[u].epoch = run.epoch} :
       /\ ~Alive(t)
       /\ job[t].row \in Unsettled => /\ kind = "apply" /\ job[t].kind = "check" /\ Pending(job[t].on)
                                      /\ \E u \in Slots \ {s} : Idle(u)

NewJob(kind, e, t, row, stage) ==
  [NoJob EXCEPT !.kind = kind, !.on = e, !.other = t, !.epoch = run.epoch, !.row = row, !.stage = stage]

\* The thread that runs a writer's step calls SwarmIntegration itself: the
\* scheduler before it launches the attempt, the worker once its agent is done.
StartWriterStep(s, kind, w) ==
  /\ Idle(s) /\ Owner /\ ~Busy(WriterOf(w))
  /\ CASE kind = "create"   -> Admitting(run.epoch) /\ att[w].state = "absent"
       [] kind = "finalize" -> att[w].state = "running" /\ eff[WriterOf(w)].epoch = run.epoch
  /\ att' = [att EXCEPT ![w].state = "running"]
  /\ job' = [job EXCEPT ![s] = NewJob(kind, WriterOf(w), None, None, "waiting")]
  /\ UNCHANGED <<run, hostUp, eff, plan, target, lock, head, moves>>

\* IntegrationWorkflow._validate_records, for each kind of operation
Valid(kind, e, t) ==
  CASE kind = "prepare"   -> e.kind = "candidate" /\ eff[e].state = "absent"
    [] kind = "check"     -> /\ e.kind = "check"
                             /\ eff[CandidateOf(e.of)].epoch = run.epoch
                             /\ eff[CandidateOf(e.of)].state \in {"ready", "failed", "verified"}
                             /\ ~Pending(e)   \* bound: one receipt of a check is open
    [] kind = "apply"     -> e.kind = "application" /\ eff[e].state = "absent"
    [] kind = "reconcile" -> e.kind = "application" /\ eff[e].state # "absent"
    [] kind = "settle"    -> /\ e # NoEffect /\ eff[e].state # "absent" /\ eff[e].epoch < run.epoch
                             /\ EffectUnresolved(eff, e)   \* bound: nobody asks about the others
    [] kind = "operation" -> /\ job[t].row \in Unsettled /\ job[t].epoch < run.epoch
                             /\ e = IF job[t].made THEN job[t].on ELSE NoEffect

\* IntegrationWorkflow.submit.  members is what a candidate is to combine, c the
\* candidate an approval is for.
Submit(s, kind, e, t, members, c) ==
  /\ Idle(s) /\ Owner
  /\ kind \notin Observations => Admitting(run.epoch) /\ ~Busy(e)
  /\ Valid(kind, e, t)
  /\ IF kind = "prepare"
     THEN /\ members # {}
          /\ \A w \in members : eff[WriterOf(w)].state = "ready" /\ eff[WriterOf(w)].epoch = run.epoch
          /\ plan' = [plan EXCEPT ![e.of].members = members]
     ELSE members = {} /\ plan' = plan
  /\ IF kind = "apply"
     THEN /\ c \in Candidates /\ target[e.of] = None
          /\ eff[CandidateOf(c)].state = "verified" /\ eff[CandidateOf(c)].epoch = run.epoch
          /\ target' = [target EXCEPT ![e.of] = c]
     ELSE c = None /\ target' = target
  /\ job' = [job EXCEPT ![s] = NewJob(kind, e, t, "queued", "queued")]
  /\ UNCHANGED <<run, hostUp, att, eff, lock, head, moves>>

\* The first transaction of IntegrationWorkflow._run
Begin(s) ==
  /\ job[s].stage = "queued"
  /\ Authority(job[s].epoch)
  /\ job[s].kind \notin Observations => run.state = "running"
  /\ job' = [job EXCEPT ![s].row = IF @ = "queued" THEN "running" ELSE @,
                        ![s].stage = IF job[s].kind \in {"settle", "operation"}
                                     THEN "looking" ELSE "waiting"]
  /\ UNCHANGED <<run, hostUp, att, eff, plan, target, lock, head, moves>>

\* What an observation finds in its way: its authority is gone, the lock is
\* taken, a child lives, or the effect is still nobody's to judge.
Obstructed(s) ==
  \/ job[s].stage # "waiting" /\ ~Authority(job[s].epoch)
  \/ /\ job[s].kind = "reconcile" /\ job[s].stage = "holding"
     /\ Pending(job[s].on) /\ Mine(s).epoch = job[s].epoch /\ Open(Mine(s))
  \/ /\ job[s].stage = "looking" /\ job[s].on # NoEffect
     /\ Mine(s).alive \/ \E t \in Slots : job[t].stage = "launched" /\ job[t].on = job[s].on
  \/ job[s].stage = "looked" /\ Mine(s).epoch >= job[s].epoch
  \/ job[s].kind = "operation" /\ job[s].stage = "inspected" /\ job[s].on # NoEffect /\ Pending(job[s].on)

\* A job ends before its effect has an intent: its admission, its lock, its
\* inputs, the checkout, the approval's time or the OS refused it.
Refuse(s) ==
  /\ job[s].stage \in {"queued", "waiting", "holding", "read", "looking", "looked", "inspected"}
  /\ job[s].stage = "queued" => ~Authority(job[s].epoch) \/ run.state # "running"
  /\ job[s].stage = "waiting" => lock # None
  /\ job[s].kind \in Observations /\ "refusals" \notin Features => job[s].stage = "waiting" \/ Obstructed(s)
  /\ job' = [job EXCEPT ![s].stage = "finishing",
                        ![s].told = IF job[s].kind = "reconcile" THEN None ELSE "failed"]
  /\ lock' = IF lock = s THEN None ELSE lock
  /\ UNCHANGED <<run, hostUp, att, eff, plan, target, head, moves>>

\* SwarmIntegration._repository_lock
TakeLock(s) ==
  /\ job[s].stage = "waiting" /\ lock = None
  /\ lock' = s
  /\ Goes(s, "holding")
  /\ UNCHANGED <<run, hostUp, att, eff, plan, target, head, moves>>

-----------------------------------------------------------------------------
(* Running an effect, by the holder of the lock *)

\* SwarmIntegration.apply reads the checkout before, and outside, its intent.
ReadCheckout(s) ==
  /\ job[s].kind = "apply" /\ job[s].stage = "holding"
  /\ head = plan[target[job[s].on.of]].base
  /\ Goes(s, "read")
  /\ UNCHANGED <<run, hostUp, att, eff, plan, target, lock, head, moves>>

\* What each effect asks of the rows when its intent is recorded.
Intendable(s) ==
  LET e == job[s].on IN
  CASE job[s].kind = "create"   -> eff[e].state = "absent" /\ att[e.of].state = "running"
    [] job[s].kind = "finalize" -> eff[e].state = "active" /\ eff[e].epoch = job[s].epoch
    [] job[s].kind = "prepare"  ->
         \A w \in plan[e.of].members :
           /\ eff[WriterOf(w)].state = "ready" /\ eff[WriterOf(w)].epoch = job[s].epoch
           /\ att[w].state = "submitted"   \* and stopped, accounted for, its actions resolved
           /\ ~Open(eff[WriterOf(w)])
           /\ \A v \in plan[e.of].members : att[v].base = att[w].base
    [] job[s].kind = "check"    ->
         /\ eff[CandidateOf(e.of)].state \in {"ready", "failed", "verified"}
         /\ eff[CandidateOf(e.of)].epoch = job[s].epoch
    [] job[s].kind = "apply"    ->
         /\ eff[CandidateOf(target[e.of])].state = "verified"
         /\ eff[CandidateOf(target[e.of])].epoch = job[s].epoch

\* The transaction that records the intent of an effect.
Intend(s, state) ==
  LET e == job[s].on IN
  /\ job[s].stage = IF job[s].kind = "apply" THEN "read" ELSE "holding"
  /\ job[s].kind \notin Observations
  /\ Admitting(job[s].epoch)
  /\ Intendable(s)
  /\ state \in Active(e.kind)
  /\ e.kind = "writer" => state = IF job[s].kind = "create" THEN "creating" ELSE "finalizing"
  /\ eff' = [eff EXCEPT ![e] = [NoRow EXCEPT !.state = state, !.epoch = job[s].epoch,
                                             !.passed = Passed(eff[e])]]
  \* A worktree starts at the clean checkout, a candidate at its writers' base.
  \* Bound: no writer starts on a commit of the person's own.
  /\ IF job[s].kind = "create"
     THEN head # Own /\ att' = [att EXCEPT ![e.of].base = head]
     ELSE att' = att
  /\ IF job[s].kind = "prepare"
     THEN LET base == att[CHOOSE w \in plan[e.of].members : TRUE].base
              line == IF base \in Candidates THEN plan[base].line ELSE {}
          IN plan' = [plan EXCEPT ![e.of].base = base, ![e.of].line = {base} \cup line]
     ELSE plan' = plan
  /\ job' = [job EXCEPT ![s].stage = "intended", ![s].made = TRUE]
  /\ UNCHANGED <<run, hostUp, target, lock, head, moves>>

\* The first check of SwarmIntegration.finalize_writer finds a path outside the grant.
RejectPaths(s) ==
  /\ job[s].kind = "finalize" /\ job[s].stage = "holding"
  /\ Admitting(job[s].epoch) /\ Intendable(s)
  /\ eff' = [eff EXCEPT ![job[s].on].state = "rejected"]
  /\ Leaves(s, "finishing")
  /\ UNCHANGED <<hostUp, att, plan, target, head, moves>>
  /\ Commit(run, TRUE)

\* IntegrationProcesses.intent and owned: a helper without argv.
Launch(s) ==
  /\ job[s].stage = "intended" /\ Admitting(job[s].epoch)
  /\ Mine(s).epoch = job[s].epoch /\ Mine(s).state \in Active(job[s].on.kind)
  /\ eff' = [eff EXCEPT ![job[s].on].proc = "intent"]
  /\ Goes(s, "launched")
  /\ UNCHANGED <<run, hostUp, att, plan, target, lock, head, moves>>

\* Mutant: what the launch checked is not checked again.
InvokedUnchecked(s) ==
  /\ job[s].stage = "launched"
  /\ eff' = [eff EXCEPT ![job[s].on].proc = "invoked", ![job[s].on].invoked = TRUE,
                        ![job[s].on].alive = TRUE]
  /\ Goes(s, "invoked")
  /\ UNCHANGED <<run, hostUp, att, plan, target, lock, head, moves>>

\* IntegrationProcesses.invoke, after which the helper gets its argv.
Invoke(s) ==
  /\ job[s].stage = "launched" /\ Admitting(job[s].epoch)
  /\ Mine(s).proc = "intent" /\ Mine(s).state \in Active(job[s].on.kind)
  /\ eff' = [eff EXCEPT ![job[s].on].proc = "invoked", ![job[s].on].invoked = TRUE,
                        ![job[s].on].alive = TRUE]
  /\ Goes(s, "invoked")
  /\ UNCHANGED <<run, hostUp, att, plan, target, lock, head, moves>>

\* The child ends: its command took effect or not.  git merge --ff-only moves
\* the checkout only forward, along the line of the target.
ChildEnds(e, works) ==
  /\ eff[e].alive
  /\ eff' = [eff EXCEPT ![e].alive = FALSE]
  /\ IF e.kind = "application" /\ works /\ head \in plan[target[e.of]].line
     THEN head' = target[e.of] /\ moves' = [moves EXCEPT ![e.of] = @ + 1]
     ELSE UNCHANGED <<head, moves>>
  /\ UNCHANGED <<run, hostUp, att, plan, target, job, lock>>

\* IntegrationProcesses.stopped or not_started, in the finally of
\* SwarmIntegration._execute.  It needs no authority.
SeenToStop(s, told, stage) ==
  /\ eff' = [eff EXCEPT ![job[s].on].proc = "closed"]
  /\ job' = [job EXCEPT ![s].stage = stage, ![s].told = told]
  /\ UNCHANGED <<hostUp, att, plan, target, lock, head, moves>>
  /\ Commit(run, TRUE)

\* Mutant: Git said that it merged.
ResultsOfGit(s) == IF job[s].kind = "apply" THEN {"applied"} ELSE {"active", "ready", "passed", "failed"}

\* What a child that ended may have done.
Results(s) ==
  CASE job[s].kind = "create"   -> {"active"}
    [] job[s].kind = "finalize" -> {"ready"}
    [] job[s].kind = "prepare"  -> {"ready", "conflict"}
    [] job[s].kind = "check"    -> {"passed", "failed", "input_changed", "timed_out", "cancelled"}
    [] job[s].kind = "apply"    -> IF head = target[job[s].on.of] THEN {"applied"} ELSE {}

Return(s, result) ==
  /\ job[s].stage = "invoked" /\ ~Mine(s).alive
  /\ result \in Results(s)
  /\ SeenToStop(s, result, "returned")

\* Mutant: whatever comes back is an outcome.
ReturnedAnyway(s) ==
  /\ job[s].stage = "invoked" /\ ~Mine(s).alive
  /\ SeenToStop(s, None, "returned")

\* Git failed, its output was incomplete, or a monitor saw admission close.
ReturnError(s) ==
  /\ job[s].stage = "invoked" /\ ~Mine(s).alive
  /\ SeenToStop(s, None, "failing")

\* The end of the helper is not confirmed, or cannot be recorded: its process row
\* stays as it is, and its child may live on.
NotSeenToStop(s) ==
  /\ job[s].stage \in {"launched", "invoked"}
  /\ Goes(s, "failing")
  /\ UNCHANGED <<run, hostUp, att, eff, plan, target, lock, head, moves>>

\* A helper that never got its argv is joined and closed.
Abort(s) ==
  \/ /\ job[s].stage = "launched"
     /\ SeenToStop(s, None, "failing")
  \/ /\ job[s].stage = "intended"
     /\ Goes(s, "failing")
     /\ UNCHANGED <<run, hostUp, att, eff, plan, target, lock, head, moves>>

\* The latest receipt of every declared check is passed.
AllPassed(ef, e, result) == \A k \in Keys :
  (IF k = e.key THEN result ELSE ef[CheckOf(e.of, k)].state) = "passed"

\* The rows the outcome of an effect is written to.
WithOutcome(ef, e, result) ==
  LET done == [ef EXCEPT ![e].state = result] IN
  CASE e.kind = "check" ->
         [done EXCEPT ![CandidateOf(e.of)].state =
            IF AllPassed(ef, e, result) THEN "verified" ELSE "failed"]
    [] e.kind = "application" -> [done EXCEPT ![CandidateOf(target[e.of])].state = "applied"]
    [] OTHER -> done

\* SwarmIntegration._outcome, and the outcome transactions of run_check and apply
Record(s) ==
  /\ job[s].stage = "returned" /\ Admitting(job[s].epoch)
  /\ eff' = WithOutcome(eff, job[s].on, job[s].told)
  /\ Leaves(s, "finishing")
  /\ UNCHANGED <<hostUp, att, plan, target, head, moves>>
  /\ Commit(run, TRUE)

RecordDenied(s) ==
  /\ job[s].stage = "returned" /\ ~Admitting(job[s].epoch)
  /\ job' = [job EXCEPT ![s].stage = "failing", ![s].told = None]
  /\ UNCHANGED <<run, hostUp, att, eff, plan, target, lock, head, moves>>

-----------------------------------------------------------------------------
(* An effect whose outcome is not known *)

\* A new owner's disposition of an effect stands against its old owner's failure.
SettledByAnother(e, epoch) == run.epoch # epoch /\ ~Pending(e)

\* Mutant: an interrupted check says nothing of its candidate.
InterruptedAlone(s, closed) ==
  LET e     == job[s].on
      over  == Authority(job[s].epoch) /\ ~Open(eff[e])
      known == closed \/ (eff[e].proc = "closed" /\ ~eff[e].invoked)
  IN IF SettledByAnother(e, job[s].epoch) THEN eff
     ELSE [eff EXCEPT ![e].state = CASE e.kind = "check" /\ over /\ known -> "cancelled"
                                     [] e.kind \in {"writer", "candidate"} /\ over -> "failed"
                                     [] OTHER -> "uncertain"]

\* The exception paths of SwarmIntegration._outcome, run_check and apply: what
\* the current owner knows to be over is failed or cancelled, the rest uncertain.
\* closed says that the exception was a refused admission.
Interrupted(s, closed) ==
  LET e     == job[s].on
      fresh == Authority(job[s].epoch)
      known == fresh /\ ~Open(eff[e]) /\ (closed \/ (eff[e].proc = "closed" /\ ~eff[e].invoked))
      cand  == CandidateOf(e.of)
  IN IF SettledByAnother(e, job[s].epoch) THEN eff
     ELSE CASE e.kind = "check" ->
                 [eff EXCEPT ![e].state = IF known THEN "cancelled" ELSE "uncertain",
                             ![cand].state = IF known THEN "failed" ELSE "uncertain"]
            [] e.kind = "application" -> [eff EXCEPT ![e].state = IF Pending(e) THEN "uncertain" ELSE @]
            [] OTHER -> [eff EXCEPT ![e].state = IF fresh /\ ~Open(eff[e]) THEN "failed" ELSE "uncertain"]

\* recorded is FALSE if this transaction fails too: the row stays as it is.
Fail(s, closed, recorded) ==
  /\ job[s].stage = "failing"
  /\ closed => run.state # "running" /\ job[s].on.kind = "check"
  /\ eff' = IF recorded THEN Interrupted(s, closed) ELSE eff
  /\ Leaves(s, "finishing")
  /\ UNCHANGED <<hostUp, att, plan, target, head, moves>>
  /\ Commit(run, recorded /\ job[s].on.kind # "application" /\ Authority(job[s].epoch))

\* IntegrationWorkflow._state
StateOf(effect) ==
  IF effect \in {"ready", "verified", "passed", "applied", "completed"} THEN "completed"
  ELSE IF effect \in {"conflict", "failed", "not_applied", "input_changed", "timed_out"} THEN "failed"
  ELSE IF effect \in {"cancelled", "not_started", "superseded"} THEN "cancelled"
  ELSE "uncertain"

\* What IntegrationWorkflow._finish writes: nobody but the current owner knows.
Reported(s) ==
  IF ~Authority(job[s].epoch) THEN "uncertain"
  ELSE StateOf(IF job[s].told # None THEN job[s].told ELSE Mine(s).state)

\* The observer of an application settles the operations that asked for it.
Siblings(s) ==
  IF job[s].kind = "reconcile" /\ Authority(job[s].epoch) /\ job[s].told \in {"applied", "not_applied"}
  THEN {t \in Slots \ {s} : /\ job[t].kind \in {"apply", "reconcile"} /\ job[t].on = job[s].on
                            /\ job[t].row \in Unsettled}
  ELSE {}

\* IntegrationWorkflow._finish; if it fails the thread just ends, and the row
\* stays as it is.
Finish(s, recorded) ==
  LET state == Reported(s)
      mine  == recorded /\ job[s].row \in Unsettled IN
  /\ job[s].stage = "finishing"
  /\ job' = [t \in Slots |->
       IF t = s THEN Left([job[s] EXCEPT !.row = IF mine THEN state ELSE @])
       ELSE IF mine /\ t \in Siblings(s) THEN Settled(t, state)
       ELSE job[t]]
  /\ UNCHANGED <<hostUp, att, eff, plan, target, lock, head, moves>>
  /\ Commit(run, mine /\ Authority(job[s].epoch))

-----------------------------------------------------------------------------
(* Observing what an earlier step left behind *)

\* SwarmIntegration.reconcile_application, up to its inspection of the processes
InspectApplication(s) ==
  LET e == job[s].on IN
  /\ job[s].kind = "reconcile" /\ job[s].stage = "holding"
  /\ Authority(job[s].epoch)
  /\ IF ~Pending(e)
     THEN job' = [job EXCEPT ![s].stage = "finishing", ![s].told = eff[e].state]
     ELSE IF eff[e].epoch = job[s].epoch
     THEN ~Open(eff[e]) /\ Goes(s, "inspected")
     ELSE Goes(s, "looking")
  /\ lock' = IF Pending(e) THEN lock ELSE None
  /\ UNCHANGED <<run, hostUp, att, eff, plan, target, head, moves>>

\* Mutant: the processes of a fenced owner are taken to be gone.
LookedFenced(s) ==
  /\ job[s].stage = "looking" /\ job[s].on # NoEffect
  /\ job[s].kind = "operation" => Pending(job[s].on)
  /\ Goes(s, "looked")
  /\ UNCHANGED <<run, hostUp, att, eff, plan, target, lock, head, moves>>

\* IntegrationProcesses.inspect_effect asks the OS, before and outside the
\* transaction that stores the answer; a live child is refused.  A helper that
\* waits for its argv is seen to live or, before it is owned, not to have started.
Look(s) ==
  /\ job[s].stage = "looking" /\ job[s].on # NoEffect
  /\ job[s].kind = "operation" => Pending(job[s].on)
  /\ ~Mine(s).alive
  /\ Goes(s, "looked")
  /\ UNCHANGED <<run, hostUp, att, eff, plan, target, lock, head, moves>>

\* Mutant: only a missing effect needs no look.
NothingWithoutEffect(s) ==
  /\ job[s].kind = "operation" /\ job[s].stage = "looking" /\ job[s].on = NoEffect
  /\ Goes(s, "inspected")
  /\ UNCHANGED <<run, hostUp, att, eff, plan, target, lock, head, moves>>

\* IntegrationWorkflow._reconcile_operation of an operation whose effect never
\* got its intent, or is settled.
NothingToLookAt(s) ==
  /\ job[s].kind = "operation" /\ job[s].stage = "looking"
  /\ job[s].on # NoEffect => ~Pending(job[s].on)
  /\ Goes(s, "inspected")
  /\ UNCHANGED <<run, hostUp, att, eff, plan, target, lock, head, moves>>

\* What a closed process says of its effect: nothing of an application, and
\* that anything else is lost.
Abandoned(ef, e) ==
  LET closed == [ef EXCEPT ![e].proc = IF @ = "none" THEN @ ELSE "closed"]
      cand   == CandidateOf(e.of)
  IN IF ~Pending(e) \/ e.kind = "application" THEN closed
     ELSE IF e.kind = "check"
     THEN [closed EXCEPT ![e].state = IF ef[e].invoked THEN "cancelled" ELSE "not_started",
                         ![cand].state = IF @ = "applied" THEN @ ELSE "failed"]
     ELSE [closed EXCEPT ![e].state = "failed"]

\* IntegrationProcesses.reconcile_effect
ReconcileEffect(s) ==
  LET e == job[s].on IN
  /\ job[s].stage = "looked" /\ Authority(job[s].epoch)
  /\ eff[e].epoch < job[s].epoch
  /\ eff' = Abandoned(eff, e)
  /\ job' = IF job[s].kind = "settle"
            THEN [job EXCEPT ![s].stage = "finishing", ![s].told = "completed"]
            ELSE [job EXCEPT ![s].stage = "inspected"]
  /\ UNCHANGED <<hostUp, att, plan, target, lock, head, moves>>
  /\ Commit(run, TRUE)

\* The rest of IntegrationWorkflow._reconcile_operation
ReconcileOperation(s) ==
  LET t     == job[s].other
      state == IF job[s].on = NoEffect THEN "cancelled" ELSE StateOf(Mine(s).state) IN
  /\ job[s].kind = "operation" /\ job[s].stage = "inspected"
  /\ Authority(job[s].epoch)
  /\ job[t].row \in Unsettled => state # "uncertain"
  /\ job' = [job EXCEPT ![t] = IF @.row \in Unsettled THEN Settled(t, state) ELSE @,
                        ![s].stage = "finishing", ![s].told = "completed"]
  /\ UNCHANGED <<run, hostUp, att, eff, plan, target, lock, head, moves>>

\* The rest of SwarmIntegration.reconcile_application: HEAD is read, and then
\* the outcome is recorded.
ReadHead(s) ==
  /\ job[s].kind = "reconcile" /\ job[s].stage = "inspected"
  /\ job' = [job EXCEPT ![s].stage = "read", ![s].saw = head]
  /\ UNCHANGED <<run, hostUp, att, eff, plan, target, lock, head, moves>>

RecordApplication(s) ==
  LET e     == job[s].on
      c     == target[e.of]
      state == IF job[s].saw = c THEN "applied"
               ELSE IF job[s].saw = plan[c].base THEN "not_applied" ELSE "uncertain"
  IN
  /\ job[s].kind = "reconcile" /\ job[s].stage = "read"
  /\ Authority(job[s].epoch)
  /\ eff' = IF state = "applied"
            THEN [eff EXCEPT ![e].state = state, ![CandidateOf(c)].state = "applied"]
            ELSE [eff EXCEPT ![e].state = state]
  /\ job' = [job EXCEPT ![s].stage = "finishing", ![s].told = state]
  /\ lock' = None
  /\ UNCHANGED <<hostUp, att, plan, target, head, moves>>
  /\ Commit(run, TRUE)

-----------------------------------------------------------------------------
(* Decisions on results and on the run *)

Rows == <<hostUp, eff, plan, target, job, lock, head, moves>>

SubmitResult(w) ==
  /\ Owner /\ att[w].state = "running"
  /\ eff[WriterOf(w)].state = "ready" /\ eff[WriterOf(w)].epoch = run.epoch
  /\ att' = [att EXCEPT ![w].state = "submitted"]
  /\ UNCHANGED Rows /\ Commit(run, TRUE)

\* An attempt fails, is cancelled, or is found stopped by a recovery owner.
AttemptFails(w) ==
  /\ Owner /\ att[w].state = "running" /\ ~Busy(WriterOf(w))
  /\ att' = [att EXCEPT ![w].state = "failed"]
  /\ UNCHANGED Rows /\ Commit(run, TRUE)

ReceiptsOf(c) == {CheckOf(c, k) : k \in Keys}
ApplicationsOf(c) == {ApplyOf(x) : x \in {y \in Approvals : target[y] = c}}
\* SwarmSupervisor._related_workflow_unresolved and _candidate_process_unresolved,
\* with the states of the candidate's own effects
Unquiet(c) ==
  \/ \E e \in {CandidateOf(c)} \cup ReceiptsOf(c) \cup ApplicationsOf(c) : EffectUnresolved(eff, e)
  \/ \E s \in Slots : /\ job[s].row \in Unsettled /\ job[s].kind \in {"check", "apply"}
                      /\ (IF job[s].kind = "apply" THEN target[job[s].on.of] ELSE job[s].on.of) = c
PreparingWith(w) == \E s \in Slots : /\ job[s].row \in Unsettled /\ job[s].kind = "prepare"
                                     /\ w \in plan[job[s].on.of].members
WithWriter(w) == {c \in Candidates : w \in plan[c].members /\ eff[CandidateOf(c)].state # "absent"}

\* Mutant: an applied candidate is evidence enough.
AppliedIsEnough(w, c) == /\ att[w].state = "submitted" /\ w \in plan[c].members
                         /\ eff[CandidateOf(c)].state \in {"verified", "applied"}

\* SwarmSupervisor._writer_acceptance_binding
AcceptanceBinding(w, c) ==
  /\ att[w].state \in {"submitted", "accepted"}
  /\ w \in plan[c].members /\ eff[CandidateOf(c)].state = "applied"
  /\ eff[CandidateOf(c)].epoch = eff[WriterOf(w)].epoch
  /\ \A v \in plan[c].members :
       /\ att[v].state \in {"submitted", "accepted"} /\ eff[WriterOf(v)].state = "ready"
       /\ eff[WriterOf(v)].epoch = eff[CandidateOf(c)].epoch /\ ~PreparingWith(v)
       /\ \A d \in WithWriter(v) : ~Unquiet(d)
  /\ \A e \in ReceiptsOf(c) : eff[e].state = "passed"
  /\ \E e \in ApplicationsOf(c) : eff[e].state = "applied"

\* SwarmSupervisor._record_writer_acceptance
AcceptWriter(w, c) ==
  /\ Owner /\ run.state = "running"
  /\ att[w].state = "submitted" /\ AcceptanceBinding(w, c)
  /\ att' = [att EXCEPT ![w].state = "accepted"]
  /\ UNCHANGED Rows /\ Commit(run, TRUE)

\* SwarmSupervisor._reject with _repairable: its candidates are superseded.
Reject(w) ==
  /\ Owner /\ run.state \in {"running", "recovery_required"}
  /\ att[w].state = "submitted" /\ ~PreparingWith(w)
  /\ ~EffectUnresolved(eff, WriterOf(w))
  /\ \A c \in WithWriter(w) :
       /\ ~Unquiet(c) /\ eff[CandidateOf(c)].state # "applied"
       /\ \A e \in ApplicationsOf(c) : eff[e].state # "applied"
  /\ att' = [att EXCEPT ![w].state = "failed"]
  /\ eff' = [e \in Effects |-> IF e.kind = "candidate" /\ e.of \in WithWriter(w)
                               THEN [eff[e] EXCEPT !.state = "superseded"] ELSE eff[e]]
  /\ UNCHANGED <<hostUp, plan, target, job, lock, head, moves>>
  /\ Commit(run, TRUE)

Control(rn) == UNCHANGED <<att, Rows>> /\ Commit(rn, TRUE)

Pause  == "pause" \in Features /\ Owner /\ run.state = "running" /\ Control([run EXCEPT !.state = "pausing"])
Resume == Owner /\ run.state = "paused" /\ Control([run EXCEPT !.state = "running"])
Stop   == /\ Owner /\ run.state \notin Terminal
          /\ Control([run EXCEPT !.stop = TRUE,
                                 !.state = IF @ = "recovery_required" THEN @ ELSE "stopping"])

\* SwarmSupervisor._complete revalidates every acceptance.
Complete ==
  /\ Owner /\ run.state = "running"
  /\ \E w \in Writers : att[w].state = "accepted"
  /\ \A w \in Writers : att[w].state \in {"absent", "accepted", "failed"}
  /\ \A w \in Writers : att[w].state = "accepted" => \E c \in Candidates : AcceptanceBinding(w, c)
  /\ ~Unresolved(eff, att, job)
  /\ Control([run EXCEPT !.state = "completed"])

Recover ==
  /\ Owner /\ run.state = "recovery_required" /\ ~Unresolved(eff, att, job)
  /\ Control([run EXCEPT !.state = IF run.stop THEN "cancelled" ELSE "running"])

\* The checkpoint command finds nothing left to do: every transaction that
\* resolves work has moved the run on already.

\* SwarmSupervisor.acquire, on the tables of integration
FencedEffect(e) ==
  [eff[e] EXCEPT !.state = IF @ \in Active(e.kind) THEN "uncertain" ELSE @,
                 !.proc  = IF @ \in {"intent", "invoked"} THEN "unknown" ELSE @]

Acquire ==
  /\ run.epoch < MaxEpoch /\ ~run.live /\ run.state \notin Terminal
  /\ run' = [run EXCEPT !.epoch = @ + 1, !.live = TRUE, !.state = "recovery_required"]
  /\ hostUp' = [hostUp EXCEPT ![run.epoch + 1] = TRUE]
  /\ eff' = [e \in Effects |-> FencedEffect(e)]
  /\ job' = [s \in Slots |-> IF job[s].row \in {"queued", "running"}
                             THEN [job[s] EXCEPT !.row = "uncertain"] ELSE job[s]]
  /\ UNCHANGED <<att, plan, target, lock, head, moves>>

-----------------------------------------------------------------------------
(* The world outside the database *)

LeaseExpires == /\ run.epoch < MaxEpoch /\ run.live
                /\ run' = [run EXCEPT !.live = FALSE]
                /\ UNCHANGED <<att, Rows>>

\* The app process of an epoch dies: its threads end and the OS releases their
\* lock, while a child lives on until its job object is closed.
HostCrash(e) ==
  /\ e < MaxEpoch /\ hostUp[e]
  /\ hostUp' = [hostUp EXCEPT ![e] = FALSE]
  /\ job' = [s \in Slots |-> IF job[s].epoch = e THEN Left(job[s]) ELSE job[s]]
  /\ lock' = IF lock # None /\ job[lock].epoch = e THEN None ELSE lock
  /\ UNCHANGED <<run, att, eff, plan, target, head, moves>>

\* The person commits, or resets the checkout to a commit it has been at.
PersonMoves(to) ==
  /\ to # head
  /\ to \in {Root} \cup (IF "own" \in Features THEN {Own} ELSE {}) \cup {target[x] : x \in {y \in Approvals : moves[y] > 0}}
  /\ head' = to
  /\ UNCHANGED <<run, hostUp, att, eff, plan, target, job, lock, moves>>

Steps(s) ==
  \/ Begin(s) \/ TakeLock(s) \/ Refuse(s) \/ ReadCheckout(s)
  \/ \E state \in EffectStates : Intend(s, state)
  \/ RejectPaths(s) \/ Launch(s) \/ Invoke(s) \/ Abort(s)
  \/ \E result \in EffectStates : Return(s, result)
  \/ ReturnError(s) \/ NotSeenToStop(s) \/ Record(s) \/ RecordDenied(s)
  \/ \E closed \in BOOLEAN : Fail(s, closed, TRUE)
  \/ InspectApplication(s) \/ Look(s) \/ NothingToLookAt(s) \/ ReconcileEffect(s)
  \/ ReconcileOperation(s) \/ ReadHead(s) \/ RecordApplication(s)
  \/ Finish(s, TRUE)

Next ==
  \/ \E s \in Slots, kind \in WriterSteps :
       Free(s, kind) /\ \E w \in Writers : StartWriterStep(s, kind, w)
  \/ \E s \in Slots, kind \in Kinds \ WriterSteps :
       /\ Free(s, kind)
       /\ \E e \in Effects \cup {NoEffect}, t \in IF kind = "operation" THEN Slots ELSE {None},
             members \in SUBSET Writers, c \in Candidates \cup {None} :
            Submit(s, kind, e, t, members, c)
  \/ \E s \in Slots : Steps(s) \/ Fail(s, FALSE, FALSE) \/ Finish(s, FALSE)
  \/ \E e \in Effects, works \in BOOLEAN : ChildEnds(e, works)
  \/ \E w \in Writers : SubmitResult(w) \/ AttemptFails(w) \/ Reject(w)
  \/ \E w \in Writers, c \in Candidates : AcceptWriter(w, c)
  \/ Pause \/ Resume \/ Stop \/ Complete \/ Recover \/ Acquire
  \/ LeaseExpires
  \/ \E e \in Epochs : HostCrash(e)
  \/ \E to \in Commits : PersonMoves(to)

Spec == Init /\ [][Next]_vars

\* What the code does by itself: a thread takes its steps, and a child ends.
ThreadFairness ==
  /\ \A s \in Slots : WF_vars(Steps(s))
  /\ \A e \in Effects : WF_vars(\E works \in BOOLEAN : ChildEnds(e, works))

\* An owner who keeps asking about every effect and operation that is open.
Ask(s, kind) ==
  Free(s, kind) /\ \E e \in Effects \cup {NoEffect}, t \in IF kind = "operation" THEN Slots ELSE {None} :
    (kind = "reconcile" => e # NoEffect /\ Pending(e)) /\ Submit(s, kind, e, t, {}, None)
OwnerFairness ==
  /\ \A kind \in Observations : SF_vars(\E s \in Slots : Ask(s, kind))
  /\ WF_vars(\E w \in Writers : AttemptFails(w))
  /\ SF_vars(Recover)

FairSpec == Spec /\ ThreadFairness /\ OwnerFairness

-----------------------------------------------------------------------------
(* Safety *)

\* An approval moves the person's checkout at most once, and never after its
\* application was recorded as settled: no late or orphaned Git process of a
\* fenced owner comes back to an application somebody has already judged.
MovesOnlyWhilePending == [][\A x \in Approvals : moves'[x] # moves[x] =>
  moves[x] = 0 /\ Pending(ApplyOf(x))]_vars

\* The command that moves the checkout is given its argv only for a candidate
\* whose every declared check has "passed" as its last recorded outcome, whatever
\* else was asked for, went wrong or was taken over since.  The outcome is that of
\* the latest receipt, except for a check that ran again and could record neither
\* its outcome nor its failure: its receipt is left "running" and its candidate
\* verified, and the merge then goes by the receipt before it.  A receipt that is
\* uncertain, cancelled or failed never lets a merge through.
MergesOnlyWhatPassed == [][\A x \in Approvals :
  eff'[ApplyOf(x)].invoked /\ ~eff[ApplyOf(x)].invoked =>
    \A k \in Keys : Passed(eff[CheckOf(target[x], k)])]_vars

\* An application recorded as applied is one whose target the checkout has been
\* at, by some approval of the same candidate.
AppliedWasThere == \A x \in Approvals : eff[ApplyOf(x)].state = "applied" =>
  \E y \in Approvals : target[y] = target[x] /\ moves[y] > 0

\* Accepted work has reached the checkout.
AcceptedWasThere == \A w \in Writers : att[w].state = "accepted" =>
  \E x \in Approvals : moves[x] > 0 /\ w \in plan[target[x]].members

\* A run that has ended is over outside the database too: no child of an effect
\* runs, and no effect is open, nor does a late thread open it again.  What may
\* still be asked for is an observation, of what is settled.
TerminalIsQuiet == run.state \in Terminal =>
  /\ \A e \in Effects : ~eff[e].alive /\ ~EffectUnresolved(eff, e)
  /\ \A s \in Slots : job[s].row \in Unsettled => job[s].kind \in Observations

\* (Liveness) Whatever a takeover finds half done, in the tables, among the
\* processes or in the checkout, the commands of the new owner can settle it and
\* end the recovery.  Two things wait for somebody: a checkout that is at neither
\* end of a merge of unknown outcome, and an operation of the new owner itself
\* whose outcome its app could not record, which waits for the next owner.
Elsewhere == \E x \in Approvals : /\ Pending(ApplyOf(x))
                                  /\ head \notin {target[x], plan[target[x]].base}
LeftOpen  == \E s \in Slots : ~Alive(s) /\ job[s].row \in Unsettled /\ job[s].epoch = run.epoch
RecoveryTerminates == run.state = "recovery_required" ~>
  (run.state # "recovery_required" \/ Elsewhere \/ LeftOpen)

\* The run row, whatever integration does, implements the run's lifecycle: the
\* reports of late threads, which need no authority, move it only when a live
\* owner could.
Lifecycle == INSTANCE RunLifecycle
  WITH state <- run.state, stop <- run.stop, epoch <- run.epoch, live <- run.live
ImplementsLifecycle == Lifecycle!Spec
=============================================================================
