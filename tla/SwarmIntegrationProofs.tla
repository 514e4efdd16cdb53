----------------------- MODULE SwarmIntegrationProofs -----------------------
(***************************************************************************)
(* Proofs about SwarmIntegration: the types of its rows, what the rows of  *)
(* an application say about the person's checkout, what a merge goes by,   *)
(* that an ended run is over, and that the run row keeps to its lifecycle, *)
(* for any number of writers, candidates, checks, approvals, jobs and      *)
(* epochs.                                                                 *)
(***************************************************************************)
EXTENDS SwarmIntegration, TLAPS

-----------------------------------------------------------------------------
(* Effects and rows *)

LEMMA EffectNames ==
  /\ \A w \in Writers : WriterOf(w) \in Effects /\ WriterOf(w).kind = "writer" /\ WriterOf(w).of = w
  /\ \A c \in Candidates : /\ CandidateOf(c) \in Effects /\ CandidateOf(c).kind = "candidate"
                           /\ CandidateOf(c).of = c
  /\ \A c \in Candidates, k \in Keys :
       /\ CheckOf(c, k) \in Effects /\ CheckOf(c, k).kind = "check"
       /\ CheckOf(c, k).of = c /\ CheckOf(c, k).key = k
  /\ \A x \in Approvals : ApplyOf(x) \in Effects /\ ApplyOf(x).kind = "application" /\ ApplyOf(x).of = x
<1>1. \A w \in Writers : WriterOf(w) \in Effects /\ WriterOf(w).kind = "writer" /\ WriterOf(w).of = w
  BY DEF Effects, WriterOf, Effect
<1>2. \A c \in Candidates : /\ CandidateOf(c) \in Effects /\ CandidateOf(c).kind = "candidate"
                             /\ CandidateOf(c).of = c
  BY DEF Effects, CandidateOf, Effect
<1>3. ASSUME NEW c \in Candidates, NEW k \in Keys
      PROVE  /\ CheckOf(c, k) \in Effects /\ CheckOf(c, k).kind = "check"
             /\ CheckOf(c, k).of = c /\ CheckOf(c, k).key = k
  BY DEF Effects, CheckOf, Effect
<1>4. \A x \in Approvals : ApplyOf(x) \in Effects /\ ApplyOf(x).kind = "application" /\ ApplyOf(x).of = x
  BY DEF Effects, ApplyOf, Effect
<1>5. QED
  BY <1>1, <1>2, <1>3, <1>4

LEMMA EffectKinds ==
  ASSUME NEW e \in Effects
  PROVE  /\ e.kind \in {"writer", "candidate", "check", "application"}
         /\ e.kind = "writer" => e.of \in Writers /\ e = WriterOf(e.of)
         /\ e.kind = "candidate" => e.of \in Candidates /\ e = CandidateOf(e.of)
         /\ e.kind = "check" => e.of \in Candidates /\ e.key \in Keys /\ e = CheckOf(e.of, e.key)
         /\ e.kind = "application" => e.of \in Approvals /\ e = ApplyOf(e.of)
         /\ e # NoEffect
  BY DEF Effects, WriterOf, CandidateOf, CheckOf, ApplyOf, Effect, NoEffect, None

\* The end of a transaction moves the run on at most when nothing is left open.
LEMMA Committed ==
  ASSUME NEW rn \in RunRows, NEW b \in BOOLEAN, Commit(rn, b)
  PROVE  /\ run' \in RunRows
         /\ run'.epoch = rn.epoch /\ run'.live = rn.live /\ run'.stop = rn.stop
         /\ \/ run'.state = rn.state
            \/ b /\ rn.state = "pausing" /\ run'.state = "paused" /\ ~IntegrationUnresolved(eff', job')
            \/ b /\ rn.state = "stopping" /\ run'.state = "cancelled" /\ ~Unresolved(eff', att', job')
         /\ b /\ rn.state = "pausing" /\ ~IntegrationUnresolved(eff', job') => run'.state = "paused"
         /\ b /\ rn.state = "stopping" /\ ~Unresolved(eff', att', job') => run'.state = "cancelled"
<1>1. /\ IntegrationUnresolved(eff', job') \in BOOLEAN
      /\ Unresolved(eff', att', job') \in BOOLEAN
  BY DEF IntegrationUnresolved, Unresolved
<1>2. QED
  BY <1>1 DEF Commit, Checkpointed, RunRows, Terminal

-----------------------------------------------------------------------------
(* Threads *)

\* What a step of a thread leaves of its job, and of those of the others.
SameJob(s) == /\ job'[s].kind = job[s].kind /\ job'[s].on = job[s].on
              /\ job'[s].other = job[s].other /\ job'[s].epoch = job[s].epoch
Turned(s, stage) ==
  /\ job' \in [Slots -> Jobs]
  /\ SameJob(s) /\ job'[s].stage = stage
  /\ \A t \in Slots : t # s => job'[t] = job[t]

LEMMA TurnStage ==
  ASSUME TypeOK, NEW s \in Slots, NEW stage \in Stages, job' = [job EXCEPT ![s].stage = stage]
  PROVE  /\ Turned(s, stage) /\ job'[s].made = job[s].made /\ job'[s].row = job[s].row
         /\ job'[s].told = job[s].told /\ job'[s].saw = job[s].saw
  BY DEF TypeOK, Jobs, Turned, SameJob

LEMMA TurnTold ==
  ASSUME TypeOK, NEW s \in Slots, NEW stage \in Stages, NEW told \in EffectStates \cup {None, "completed"},
         job' = [job EXCEPT ![s].stage = stage, ![s].told = told]
  PROVE  /\ Turned(s, stage) /\ job'[s].made = job[s].made /\ job'[s].row = job[s].row
         /\ job'[s].told = told /\ job'[s].saw = job[s].saw
  BY DEF TypeOK, Jobs, Turned, SameJob

LEMMA TurnSaw ==
  ASSUME TypeOK, NEW s \in Slots, NEW stage \in Stages, NEW saw \in Commits,
         job' = [job EXCEPT ![s].stage = stage, ![s].saw = saw]
  PROVE  /\ Turned(s, stage) /\ job'[s].made = job[s].made /\ job'[s].row = job[s].row
         /\ job'[s].told = job[s].told /\ job'[s].saw = saw
  BY DEF TypeOK, Jobs, Turned, SameJob

LEMMA TurnMade ==
  ASSUME TypeOK, NEW s \in Slots, NEW stage \in Stages,
         job' = [job EXCEPT ![s].stage = stage, ![s].made = TRUE]
  PROVE  /\ Turned(s, stage) /\ job'[s].row = job[s].row
         /\ job'[s].told = job[s].told /\ job'[s].saw = job[s].saw
  BY DEF TypeOK, Jobs, Turned, SameJob

LEMMA TurnRow ==
  ASSUME TypeOK, NEW s \in Slots, NEW stage \in Stages,
         NEW row \in {None, "completed", "failed", "cancelled"} \cup Unsettled,
         job' = [job EXCEPT ![s].row = row, ![s].stage = stage]
  PROVE  /\ Turned(s, stage) /\ job'[s].made = job[s].made /\ job'[s].row = row
         /\ job'[s].told = job[s].told /\ job'[s].saw = job[s].saw
  BY DEF TypeOK, Jobs, Turned, SameJob

-----------------------------------------------------------------------------
(* The invariant of effects and threads *)

\* Stages between an intent and its outcome, and those of a holder of the lock.
Underway == {"intended", "launched", "invoked", "returned", "failing"}
Unlocked == {"queued", "waiting", "finishing", "ended"}
Told(kind) ==
  CASE kind = "create"   -> {"active"}
    [] kind = "finalize" -> {"ready"}
    [] kind = "prepare"  -> {"ready", "conflict"}
    [] kind = "check"    -> {"passed", "failed", "input_changed", "timed_out", "cancelled"}
    [] kind = "apply"    -> {"applied"}
    [] OTHER -> {}

\* The effect a job is about suits its kind, and what it is to do is decided.
Suits(s) ==
  /\ job[s].kind \in WriterSteps => job[s].on.kind = "writer"
  /\ job[s].kind = "prepare" => job[s].on.kind = "candidate" /\ plan[job[s].on.of].members # {}
  /\ job[s].kind = "check" => job[s].on.kind = "check"
  /\ job[s].kind \in {"apply", "reconcile"} =>
       job[s].on.kind = "application" /\ target[job[s].on.of] \in Candidates
  /\ job[s].kind = "settle" => job[s].on # NoEffect

\* A thread runs an effect, or observes one, only as the holder of the lock.
Stands(s) ==
  /\ job[s].stage \in Underway => job[s].kind \notin Observations
  /\ job[s].stage = "looked" => job[s].on # NoEffect
  /\ job[s].stage = "returned" => job[s].told \in Told(job[s].kind)
  /\ job[s].kind \in {"settle", "operation"} => job[s].stage \notin {"waiting", "holding", "read"}
  /\ job[s].stage \notin Unlocked /\ job[s].kind \notin {"settle", "operation"} => lock = s
  /\ job[s].epoch <= run.epoch

\* What the thread of an effect knows of its row.
Follows(s) == job[s].stage \in Underway =>
  /\ eff[job[s].on].state # "absent" /\ eff[job[s].on].epoch = job[s].epoch
  /\ job[s].epoch = run.epoch => Pending(job[s].on)
  /\ job[s].stage = "intended" => eff[job[s].on].proc = "none"
  /\ job[s].stage = "launched" => ~eff[job[s].on].invoked
  /\ job[s].stage = "returned" => ~Open(eff[job[s].on])

\* A candidate is prepared, and an approval used, once.
Unbegun(s) ==
  /\ job[s].kind \in {"prepare", "apply"} /\ job[s].stage \in {"queued", "waiting", "holding", "read"} =>
       eff[job[s].on].state = "absent"

\* What an observer knows of the row it is about to judge.
Observes(s) ==
  /\ job[s].stage = "looked" /\ eff[job[s].on].epoch < job[s].epoch => ~eff[job[s].on].alive
  /\ job[s].kind = "reconcile" /\ job[s].stage \in {"looking", "looked", "inspected", "read"} =>
       Pending(job[s].on)
  /\ job[s].kind = "reconcile" /\ job[s].stage \in {"inspected", "read"} => ~Open(eff[job[s].on])

\* Until its child has its argv, what an approval is for stays verified.
Approved(s) ==
  job[s].kind = "apply" /\ job[s].stage \in {"intended", "launched"} /\ job[s].epoch = run.epoch =>
    /\ eff[CandidateOf(target[job[s].on.of])].state = "verified"
    /\ eff[CandidateOf(target[job[s].on.of])].epoch = job[s].epoch

\* The checkout was at a candidate, as somebody who read its HEAD knows.
Reached(c) == \E y \in Approvals : target[y] = c /\ moves[y] > 0
Saw(s) ==
  /\ job[s].saw \in Candidates => Reached(job[s].saw)
  /\ job[s].stage = "returned" /\ job[s].kind = "apply" => Reached(target[job[s].on.of])

JobInv(s) == Suits(s) /\ Stands(s) /\ Follows(s) /\ Unbegun(s) /\ Observes(s) /\ Approved(s) /\ Saw(s)

\* No two threads run the same effect.
Works(s) == Alive(s) /\ job[s].kind \notin Observations
Alone == \A s, t \in Slots : s # t /\ Works(s) /\ Works(t) => job[s].on # job[t].on

\* A child lives only with an open process row, once it has been invoked.
RowOK(e) ==
  /\ eff[e].state = "absent" => eff[e] = NoRow
  /\ eff[e].alive => eff[e].proc \in {"invoked", "unknown"} /\ eff[e].invoked
  /\ eff[e].proc \in {"none", "intent"} => ~eff[e].invoked
  /\ e.kind = "application" /\ Open(eff[e]) => Pending(e)
  /\ eff[e].epoch <= run.epoch
RowsOK == \A e \in Effects : RowOK(e)

\* A check belongs to a candidate of its epoch, an application to one there is.
ChecksOK == \A c \in Candidates, k \in Keys : eff[CheckOf(c, k)].state # "absent" =>
  /\ eff[CandidateOf(c)].state # "absent" /\ eff[CheckOf(c, k)].epoch = eff[CandidateOf(c)].epoch
TargetsOK == \A x \in Approvals :
  /\ target[x] \in Candidates => eff[CandidateOf(target[x])].state # "absent"
  /\ eff[ApplyOf(x)].state # "absent" => target[x] \in Candidates

HeadOK == head \in Candidates => Reached(head)

\* Accepted work was in the checkout, and its candidate is not combined anew.
AcceptedOK == \A w \in Writers : att[w].state = "accepted" =>
  \E x \in Approvals : moves[x] > 0 /\ target[x] \in Candidates /\ w \in plan[target[x]].members

\* An approval moves the checkout with the one child it ever has.
MovedOnce == \A x \in Approvals : moves[x] > 0 => eff[ApplyOf(x)].invoked /\ ~eff[ApplyOf(x)].alive

\* Of a verified candidate every check last passed, but a takeover makes one that
\* was left running uncertain.
Vouched(c, k) == \/ Passed(eff[CheckOf(c, k)])
                 \/ eff[CheckOf(c, k)].state = "uncertain" /\ eff[CandidateOf(c)].epoch < run.epoch
VerifiedOK == \A c \in Candidates : eff[CandidateOf(c)].state = "verified" => \A k \in Keys : Vouched(c, k)

World == /\ TypeOK /\ RowsOK /\ ChecksOK /\ TargetsOK /\ HeadOK
         /\ AppliedWasThere /\ AcceptedOK /\ MovedOnce /\ VerifiedOK

Inv == World /\ (\A s \in Slots : JobInv(s)) /\ Alone

-----------------------------------------------------------------------------
(* Steps of a thread that leave every table alone *)

SameThread(t) == SameJob(t) /\ job'[t].stage = job[t].stage /\ job'[t].told = job[t].told
                 /\ job'[t].saw = job[t].saw
Same == /\ UNCHANGED <<eff, plan, target, moves>> /\ run' \in RunRows /\ run'.epoch = run.epoch

LEMMA ThreadKept ==
  ASSUME Inv, Same, NEW t \in Slots, SameThread(t), Alive(t) /\ lock = t => lock' = t
  PROVE  JobInv(t)'
<1> USE DEF SameThread, SameJob, Same
<1>0. JobInv(t)
  BY DEF Inv
<1>1. Suits(t)' /\ Stands(t)'
  BY <1>0 DEF JobInv, Suits, Stands, Alive, Unlocked
<1>2. Follows(t)' /\ Observes(t)' /\ Unbegun(t)'
  BY <1>0 DEF JobInv, Follows, Observes, Unbegun, Pending
<1>3. Approved(t)' /\ Saw(t)'
  BY <1>0 DEF JobInv, Approved, Saw, Reached
<1>4. QED
  BY <1>1, <1>2, <1>3 DEF JobInv

LEMMA WorldKept ==
  ASSUME Inv, Same, UNCHANGED <<att, head>>, TypeOK'
  PROVE  World'
<1> USE DEF Same
<1>1. RowsOK' /\ ChecksOK' /\ TargetsOK' /\ VerifiedOK'
  BY DEF Inv, World, RowsOK, RowOK, ChecksOK, TargetsOK, VerifiedOK, Vouched, Pending
<1>2. HeadOK' /\ AppliedWasThere' /\ AcceptedOK' /\ MovedOnce'
  BY DEF Inv, World, HeadOK, Reached, AppliedWasThere, AcceptedOK, MovedOnce
<1>3. QED
  BY <1>1, <1>2 DEF World

LEMMA ThreadTurns ==
  ASSUME Inv, Same, UNCHANGED <<hostUp, att, head>>, NEW s \in Slots, NEW stage \in Stages, Turned(s, stage),
         lock' \in Slots \cup {None}, \A t \in Slots : t # s /\ lock = t => lock' = t,
         JobInv(s)', Works(s)' => Works(s)
  PROVE  Inv'
<1>1. TypeOK'
  BY DEF Inv, World, TypeOK, Same, Turned
<1>2. \A t \in Slots : t # s => JobInv(t)'
  BY ThreadKept DEF Turned, SameThread, SameJob
<1>3. Alone'
  BY DEF Inv, Alone, Works, Alive, Turned, SameJob
<1>4. QED
  BY <1>1, <1>2, <1>3, WorldKept DEF Inv

\* What is to be shown of the thread itself.
LEMMA OwnTurn ==
  ASSUME Inv, Same, NEW s \in Slots, NEW stage \in Stages, Turned(s, stage), Stands(s)', Observes(s)', Saw(s)',
         stage \notin Underway \/ stage = job[s].stage \/ (stage = "failing" /\ job[s].stage \in Underway),
         stage \in {"queued", "waiting", "holding", "read"} /\ job[s].kind \in {"prepare", "apply"} =>
           job[s].stage \in {"queued", "waiting", "holding", "read"}
  PROVE  JobInv(s)'
<1> USE DEF Turned, SameJob, Same
<1>0. JobInv(s)
  BY DEF Inv
<1>1. Suits(s)'
  BY <1>0 DEF JobInv, Suits
<1>2. Follows(s)'
  BY <1>0 DEF JobInv, Follows, Underway, Pending, Open
<1>3. Unbegun(s)' /\ Approved(s)'
  BY <1>0 DEF JobInv, Unbegun, Approved, Underway
<1>4. QED
  BY <1>1, <1>2, <1>3 DEF JobInv

LEMMA QuietSteps ==
  ASSUME Inv, NEW s \in Slots,
         \/ Begin(s) \/ TakeLock(s) \/ Refuse(s) \/ ReadCheckout(s) \/ RecordDenied(s)
         \/ InspectApplication(s) \/ Look(s) \/ NothingToLookAt(s) \/ ReadHead(s) \/ NotSeenToStop(s)
  PROVE  Inv'
<1> USE DEF Unlocked, Underway, Stages
<1>0. TypeOK /\ JobInv(s) /\ run \in RunRows /\ job[s] \in Jobs /\ head \in Commits /\ lock \in Slots \cup {None}
  BY DEF Inv, World, TypeOK
<1>1. CASE Begin(s)
  <2> DEFINE row == IF job[s].row = "queued" THEN "running" ELSE job[s].row
             stage == IF job[s].kind \in {"settle", "operation"} THEN "looking" ELSE "waiting"
  <2>1. job' = [job EXCEPT ![s].row = row, ![s].stage = stage]
    BY <1>1 DEF Begin
  <2>2. row \in {None, "completed", "failed", "cancelled"} \cup Unsettled /\ stage \in Stages
    BY <1>0 DEF Jobs, Unsettled
  <2>3. stage \in {"looking", "waiting"} /\ (stage = "looking" => job[s].kind \in {"settle", "operation"})
    OBVIOUS
  <2>4. stage = "waiting" => job[s].kind \notin {"settle", "operation"}
    OBVIOUS
  <2> HIDE DEF row, stage
  <2>5. Turned(s, stage) /\ job'[s].told = job[s].told /\ job'[s].saw = job[s].saw
    BY <1>0, <2>1, <2>2, TurnRow
  <2>6. Same /\ UNCHANGED <<hostUp, att, head, lock>> /\ job[s].stage = "queued"
    BY <1>0, <1>1 DEF Begin, Same
  <2>7. Stands(s)' /\ Observes(s)' /\ Saw(s)'
    BY <1>0, <2>3, <2>4, <2>5, <2>6 DEF Same, Turned, SameJob, JobInv, Stands, Observes, Saw, Reached, Observations
  <2>8. JobInv(s)'
    BY <2>2, <2>3, <2>5, <2>6, <2>7, OwnTurn
  <2>9. QED
    BY <1>0, <2>2, <2>5, <2>6, <2>8, ThreadTurns DEF Turned, SameJob, Works, Alive
<1>2. CASE TakeLock(s)
  <2>1. Turned(s, "holding") /\ job'[s].told = job[s].told /\ job'[s].saw = job[s].saw
    BY <1>0, <1>2, TurnStage DEF TakeLock, Goes
  <2>2. Same /\ UNCHANGED <<hostUp, att, head>> /\ job[s].stage = "waiting" /\ lock = None /\ lock' = s
    BY <1>0, <1>2 DEF TakeLock, Same
  <2>3. Stands(s)' /\ Observes(s)' /\ Saw(s)'
    BY <1>0, <2>1, <2>2 DEF Same, Turned, SameJob, JobInv, Stands, Observes, Saw, Reached
  <2>4. JobInv(s)'
    BY <2>1, <2>2, <2>3, OwnTurn
  <2>5. QED
    BY <1>0, <2>1, <2>2, <2>4, ThreadTurns, NamesAssumption DEF Turned, SameJob, Works, Alive
<1>3. CASE Refuse(s)
  <2> DEFINE told == IF job[s].kind = "reconcile" THEN None ELSE "failed"
  <2>1. Turned(s, "finishing") /\ job'[s].saw = job[s].saw
    BY <1>0, <1>3, TurnTold DEF Refuse, EffectStates
  <2>2. Same /\ UNCHANGED <<hostUp, att, head>> /\ lock' \in {lock, None} /\ (lock' # lock => lock = s)
    BY <1>0, <1>3 DEF Refuse, Same
  <2>3. Stands(s)' /\ Observes(s)' /\ Saw(s)'
    BY <1>0, <2>1, <2>2 DEF Same, Turned, SameJob, JobInv, Stands, Observes, Saw, Reached
  <2>4. JobInv(s)'
    BY <2>1, <2>2, <2>3, OwnTurn
  <2>5. QED
    BY <1>0, <1>3, <2>1, <2>2, <2>4, ThreadTurns DEF Refuse, Turned, SameJob, Works, Alive
<1>4. CASE ReadCheckout(s)
  <2>1. Turned(s, "read") /\ job'[s].told = job[s].told /\ job'[s].saw = job[s].saw
    BY <1>0, <1>4, TurnStage DEF ReadCheckout, Goes
  <2>2. /\ Same /\ UNCHANGED <<hostUp, att, head, lock>>
        /\ job[s].stage = "holding" /\ job[s].kind = "apply"
    BY <1>0, <1>4 DEF ReadCheckout, Same
  <2>3. Stands(s)' /\ Observes(s)' /\ Saw(s)'
    BY <1>0, <2>1, <2>2 DEF Same, Turned, SameJob, JobInv, Stands, Observes, Saw, Reached
  <2>4. JobInv(s)'
    BY <2>1, <2>2, <2>3, OwnTurn
  <2>5. QED
    BY <1>0, <2>1, <2>2, <2>4, ThreadTurns DEF Turned, SameJob, Works, Alive
<1>5. CASE RecordDenied(s)
  <2>1. Turned(s, "failing") /\ job'[s].saw = job[s].saw
    BY <1>0, <1>5, TurnTold DEF RecordDenied
  <2>2. Same /\ UNCHANGED <<hostUp, att, head, lock>> /\ job[s].stage = "returned"
    BY <1>0, <1>5 DEF RecordDenied, Same
  <2>3. Stands(s)' /\ Observes(s)' /\ Saw(s)'
    BY <1>0, <2>1, <2>2 DEF Same, Turned, SameJob, JobInv, Stands, Observes, Saw, Reached, Observations
  <2>4. JobInv(s)'
    BY <2>1, <2>2, <2>3, OwnTurn
  <2>5. QED
    BY <1>0, <2>1, <2>2, <2>4, ThreadTurns DEF Turned, SameJob, Works, Alive
<1>6. CASE InspectApplication(s)
  <2>1. /\ Same /\ UNCHANGED <<hostUp, att, head>> /\ job[s].stage = "holding" /\ job[s].kind = "reconcile"
        /\ lock' \in {lock, None} /\ (lock' # lock => ~Pending(job[s].on))
    BY <1>0, <1>6 DEF InspectApplication, Same
  <2>2. lock = s /\ job[s].on \in Effects
    BY <1>0, <2>1 DEF JobInv, Stands, Suits, Jobs, NoEffect, Effect, None
  <2>3. PICK stage \in {"finishing", "inspected", "looking"} :
          /\ Turned(s, stage) /\ job'[s].saw = job[s].saw
          /\ stage # "finishing" => Pending(job[s].on)
          /\ stage = "inspected" => ~Open(eff[job[s].on])
    <3>1. CASE ~Pending(job[s].on)
      <4>1. eff[job[s].on].state \in EffectStates
        BY <1>0, <2>2 DEF TypeOK, EffectRows
      <4>2. job' = [job EXCEPT ![s].stage = "finishing", ![s].told = eff[job[s].on].state]
        BY <1>6, <3>1 DEF InspectApplication
      <4>3. Turned(s, "finishing") /\ job'[s].saw = job[s].saw
        <5> DEFINE told == eff[job[s].on].state
        <5>1. told \in EffectStates \cup {None, "completed"}
          BY <4>1
        <5> HIDE DEF told
        <5>2. job' = [job EXCEPT ![s].stage = "finishing", ![s].told = told]
          BY <4>2 DEF told
        <5>3. QED
          BY <1>0, <5>1, <5>2, TurnTold
      <4>4. QED
        BY <3>1, <4>3
    <3>2. CASE Pending(job[s].on)
      BY <1>0, <1>6, <3>2, TurnStage DEF InspectApplication, Goes
    <3>3. QED
      BY <3>1, <3>2
  <2>4. Stands(s)' /\ Observes(s)' /\ Saw(s)'
    <3>1. Observes(s)'
      BY <2>1, <2>3 DEF Same, Turned, SameJob, Observes, Pending
    <3>2. Stands(s)' /\ Saw(s)'
      BY <1>0, <2>1, <2>2, <2>3 DEF Same, Turned, SameJob, JobInv, Stands, Saw, Reached
    <3>3. QED
      BY <3>1, <3>2
  <2>5. JobInv(s)'
    BY <2>1, <2>3, <2>4, OwnTurn
  <2>6. QED
    BY <1>0, <2>1, <2>2, <2>3, <2>5, ThreadTurns DEF Turned, SameJob, Works, Alive
<1>7. CASE Look(s)
  <2>1. Turned(s, "looked") /\ job'[s].told = job[s].told /\ job'[s].saw = job[s].saw
    BY <1>0, <1>7, TurnStage DEF Look, Goes
  <2>2. /\ Same /\ UNCHANGED <<hostUp, att, head, lock>> /\ job[s].stage = "looking"
        /\ job[s].on # NoEffect /\ ~eff[job[s].on].alive
    BY <1>0, <1>7 DEF Look, Same, Mine
  <2>3. Stands(s)' /\ Saw(s)'
    BY <1>0, <2>1, <2>2 DEF Same, Turned, SameJob, JobInv, Stands, Saw, Reached
  <2>4. Observes(s)'
    BY <1>0, <2>1, <2>2 DEF Same, Turned, SameJob, JobInv, Observes, Pending
  <2>5. JobInv(s)'
    BY <2>1, <2>2, <2>3, <2>4, OwnTurn
  <2>6. QED
    BY <1>0, <2>1, <2>2, <2>5, ThreadTurns DEF Turned, SameJob, Works, Alive
<1>8. CASE NothingToLookAt(s)
  <2>1. Turned(s, "inspected") /\ job'[s].told = job[s].told /\ job'[s].saw = job[s].saw
    BY <1>0, <1>8, TurnStage DEF NothingToLookAt, Goes
  <2>2. /\ Same /\ UNCHANGED <<hostUp, att, head, lock>>
        /\ job[s].stage = "looking" /\ job[s].kind = "operation"
    BY <1>0, <1>8 DEF NothingToLookAt, Same
  <2>3. Stands(s)' /\ Observes(s)' /\ Saw(s)'
    BY <1>0, <2>1, <2>2 DEF Same, Turned, SameJob, JobInv, Stands, Observes, Saw, Reached
  <2>4. JobInv(s)'
    BY <2>1, <2>2, <2>3, OwnTurn
  <2>5. QED
    BY <1>0, <2>1, <2>2, <2>4, ThreadTurns DEF Turned, SameJob, Works, Alive
<1>9. CASE ReadHead(s)
  <2>1. Turned(s, "read") /\ job'[s].saw = head
    BY <1>0, <1>9, TurnSaw DEF ReadHead
  <2>2. /\ Same /\ UNCHANGED <<hostUp, att, head, lock>>
        /\ job[s].stage = "inspected" /\ job[s].kind = "reconcile"
    BY <1>0, <1>9 DEF ReadHead, Same
  <2>3. Stands(s)' /\ Saw(s)'
    BY <1>0, <2>1, <2>2 DEF Same, Turned, SameJob, JobInv, Stands, Saw, Reached, Inv, World, HeadOK
  <2>4. Observes(s)'
    BY <1>0, <2>1, <2>2 DEF Same, Turned, SameJob, JobInv, Observes, Pending
  <2>5. JobInv(s)'
    BY <2>1, <2>2, <2>3, <2>4, OwnTurn
  <2>6. QED
    BY <1>0, <2>1, <2>2, <2>5, ThreadTurns DEF Turned, SameJob, Works, Alive
<1>10. CASE NotSeenToStop(s)
  <2>1. Turned(s, "failing") /\ job'[s].told = job[s].told /\ job'[s].saw = job[s].saw
    BY <1>0, <1>10, TurnStage DEF NotSeenToStop, Goes
  <2>2. Same /\ UNCHANGED <<hostUp, att, head, lock>> /\ job[s].stage \in {"launched", "invoked"}
    BY <1>0, <1>10 DEF NotSeenToStop, Same
  <2>3. Stands(s)' /\ Observes(s)' /\ Saw(s)'
    BY <1>0, <2>1, <2>2 DEF Same, Turned, SameJob, JobInv, Stands, Observes, Saw, Reached, Observations
  <2>4. JobInv(s)'
    BY <2>1, <2>2, <2>3, OwnTurn
  <2>5. QED
    BY <1>0, <2>1, <2>2, <2>4, ThreadTurns DEF Turned, SameJob, Works, Alive
<1>11. QED
  BY <1>1, <1>2, <1>3, <1>4, <1>5, <1>6, <1>7, <1>8, <1>9, <1>10

-----------------------------------------------------------------------------
(* The end of a thread, and of operations *)

\* What is left of a job of which the thread is gone.
Gone(t) ==
  /\ job'[t].stage = "ended" /\ job'[t].saw = Root
  /\ \/ job'[t].kind = job[t].kind /\ job'[t].on = job[t].on /\ job'[t].epoch = job[t].epoch
     \/ job'[t].kind = "operation" /\ job'[t].epoch = 0

LEMMA LeftGone ==
  ASSUME NEW j \in Jobs
  PROVE  /\ Left(j) \in Jobs /\ Left(j).stage = "ended" /\ Left(j).saw = Root
         /\ \/ Left(j).kind = j.kind /\ Left(j).on = j.on /\ Left(j).epoch = j.epoch
            \/ Left(j).kind = "operation" /\ Left(j).epoch = 0
         /\ Left(j).row \in Unsettled => Left(j).row = j.row /\ Left(j).kind = j.kind
         /\ j.row \in Unsettled => Left(j).row = j.row
<1>0. MaxEpoch \in Nat
  BY EpochAssumption
<1>1. NoJob \in Jobs
  BY <1>0 DEF NoJob, Jobs, Kinds, Observations, Stages, EffectStates, Commits, NoEffect
<1>2. CASE j.row \in Unsettled
  BY <1>1, <1>2 DEF Left, NoJob, Jobs, Stages, Commits
<1>3. CASE j.row \notin Unsettled
  BY <1>1, <1>3 DEF Left, NoJob, Unsettled, None
<1>4. QED
  BY <1>2, <1>3

\* A thread that is gone, or is about to finish, holds nothing.
LEMMA ThreadGone ==
  ASSUME Inv, NEW t \in Slots, Gone(t) \/ (SameJob(t) /\ job'[t].stage = "finishing" /\ job'[t].saw = job[t].saw),
         run' \in RunRows, run'.epoch >= run.epoch, UNCHANGED <<target, moves>>,
         \A c \in Candidates : plan[c].members # {} => plan'[c].members # {}
  PROVE  JobInv(t)'
<1>0. /\ JobInv(t) /\ run \in RunRows /\ job[t] \in Jobs /\ run.epoch \in Nat /\ run'.epoch \in Nat
      /\ job[t].epoch \in Nat
  BY EpochAssumption DEF Inv, World, TypeOK, RunRows, Epochs, Jobs
<1> USE DEF SameJob, Gone
<1>1. Suits(t)'
  BY <1>0, EffectKinds DEF JobInv, Suits, WriterSteps, Jobs, NoEffect, Effect, None
<1>2. Stands(t)'
  BY <1>0 DEF JobInv, Stands, Underway, Unlocked
<1>3. Saw(t)'
  BY <1>0, NamesAssumption DEF JobInv, Saw, Reached
<1>4. Follows(t)' /\ Observes(t)' /\ Unbegun(t)' /\ Approved(t)'
  BY DEF Follows, Observes, Unbegun, Approved, Underway
<1>5. QED
  BY <1>1, <1>2, <1>3, <1>4 DEF JobInv

LEMMA ThreadsEnd ==
  ASSUME Inv, Same, UNCHANGED <<att, head>>, job' \in [Slots -> Jobs],
         hostUp' \in [Epochs -> BOOLEAN], lock' \in Slots \cup {None},
         \A t \in Slots : Alive(t) /\ SameThread(t) /\ lock = t => lock' = t,
         \A t \in Slots : \/ SameThread(t) \/ Gone(t)
                          \/ SameJob(t) /\ Alive(t) /\ job'[t].stage = "finishing" /\ job'[t].saw = job[t].saw
  PROVE  Inv'
<1>1. TypeOK'
  BY DEF Inv, World, TypeOK, Same
<1>2. \A t \in Slots : JobInv(t)'
  <2> TAKE t \in Slots
  <2>0. run.epoch \in Nat
    BY EpochAssumption DEF Inv, World, TypeOK, RunRows, Epochs
  <2>1. CASE SameThread(t)
    BY <2>1, ThreadKept
  <2>2. CASE ~SameThread(t)
    BY <2>0, <2>2, ThreadGone DEF Same
  <2>3. QED
    BY <2>1, <2>2
<1>3. Alone'
  BY DEF Inv, Alone, Works, Alive, SameThread, SameJob, Gone
<1>4. QED
  BY <1>1, <1>2, <1>3, WorldKept DEF Inv

LEMMA SettledThread ==
  ASSUME TypeOK, NEW t \in Slots, NEW state \in {"completed", "failed", "cancelled", "uncertain"},
         job'[t] = Settled(t, state)
  PROVE  /\ Settled(t, state) \in Jobs /\ (SameThread(t) \/ Gone(t))
         /\ Alive(t) => job'[t].row = state
         /\ job'[t].row \in Unsettled => state = "uncertain" /\ job'[t].kind = job[t].kind
         /\ state = "uncertain" => job'[t].row = "uncertain"
<1>0. job[t] \in Jobs
  BY DEF TypeOK
<1> DEFINE j == [job[t] EXCEPT !.row = state]
<1>1. /\ j \in Jobs /\ j.kind = job[t].kind /\ j.on = job[t].on /\ j.epoch = job[t].epoch /\ j.other = job[t].other
      /\ j.stage = job[t].stage /\ j.told = job[t].told /\ j.saw = job[t].saw /\ j.row = state
  BY <1>0 DEF Jobs, Unsettled
<1>2. job'[t] = IF Alive(t) THEN j ELSE Left(j)
  BY DEF Settled
<1> HIDE DEF j
<1>3. CASE Alive(t)
  BY <1>1, <1>2, <1>3 DEF SameThread, SameJob, Unsettled
<1>4. CASE ~Alive(t)
  BY <1>1, <1>2, <1>4, LeftGone DEF Gone, Unsettled
<1>5. QED
  BY <1>3, <1>4

LEMMA Outcomes == ASSUME NEW x PROVE StateOf(x) \in {"completed", "failed", "cancelled", "uncertain"}
  BY DEF StateOf

LEMMA FinishRows ==
  ASSUME TypeOK, NEW s \in Slots, NEW recorded \in BOOLEAN, Finish(s, recorded)
  PROVE  /\ job' \in [Slots -> Jobs] /\ Gone(s)
         /\ \A t \in Slots : t # s => SameThread(t) \/ Gone(t)
         /\ \A t \in Slots : job'[t].row \in Unsettled => job[t].row \in Unsettled /\ job'[t].kind = job[t].kind
         /\ ~(recorded /\ job[s].row \in Unsettled /\ Authority(job[s].epoch)) =>
              \A t \in Slots : job[t].row \in Unsettled => job'[t].row \in Unsettled
<1> DEFINE mine == recorded /\ job[s].row \in Unsettled
           row == IF mine THEN Reported(s) ELSE job[s].row
           j == [job[s] EXCEPT !.row = row]
<1>0. \A t \in Slots : job[t] \in Jobs
  BY DEF TypeOK
<1>1. Reported(s) \in {"completed", "failed", "cancelled", "uncertain"}
  BY Outcomes DEF Reported
<1>2. /\ job'[s] = Left(j)
      /\ \A t \in Slots : t # s => job'[t] = IF mine /\ t \in Siblings(s) THEN Settled(t, Reported(s)) ELSE job[t]
      /\ job' = [t \in Slots |-> job'[t]]
  BY DEF Finish
<1>3. /\ j \in Jobs /\ j.kind = job[s].kind /\ j.on = job[s].on /\ j.epoch = job[s].epoch /\ j.row = row
      /\ row \in Unsettled => job[s].row \in Unsettled
      /\ job[s].row \in Unsettled /\ ~(mine /\ Authority(job[s].epoch)) => row \in Unsettled
  BY <1>0, <1>1 DEF Jobs, Unsettled, Reported
<1> HIDE DEF row, j
<1>4. Gone(s) /\ job'[s] \in Jobs /\ (job'[s].row \in Unsettled => job[s].row \in Unsettled /\ job'[s].kind = job[s].kind)
      /\ (job[s].row \in Unsettled /\ ~(mine /\ Authority(job[s].epoch)) => job'[s].row \in Unsettled)
  BY <1>2, <1>3, LeftGone DEF Gone
<1>5. ASSUME NEW t \in Slots, t # s
      PROVE  /\ job'[t] \in Jobs /\ (SameThread(t) \/ Gone(t))
             /\ job'[t].row \in Unsettled => job[t].row \in Unsettled /\ job'[t].kind = job[t].kind
             /\ job[t].row \in Unsettled /\ ~(mine /\ Authority(job[s].epoch)) => job'[t].row \in Unsettled
  <2>1. CASE mine /\ t \in Siblings(s)
    <3>1. job'[t] = Settled(t, Reported(s)) /\ job[t].row \in Unsettled /\ Authority(job[s].epoch)
      BY <1>2, <1>5, <2>1 DEF Siblings
    <3>2. QED
      BY <1>1, <2>1, <3>1, SettledThread
  <2>2. CASE ~(mine /\ t \in Siblings(s))
    BY <1>0, <1>2, <1>5, <2>2 DEF SameThread, SameJob
  <2>3. QED
    BY <2>1, <2>2
<1>6. QED
  BY <1>2, <1>4, <1>5

LEMMA FinishInv ==
  ASSUME Inv, NEW s \in Slots, NEW recorded \in BOOLEAN, Finish(s, recorded)
  PROVE  Inv'
<1>0. TypeOK /\ run \in RunRows
  BY DEF Inv, World, TypeOK
<1> DEFINE b == recorded /\ job[s].row \in Unsettled /\ Authority(job[s].epoch)
<1>1. b \in BOOLEAN /\ Commit(run, b) /\ UNCHANGED <<hostUp, att, eff, plan, target, lock, head, moves>>
  BY DEF Finish
<1> HIDE DEF b
<1>2. Same
  BY <1>0, <1>1, Committed DEF Same
<1>3. QED
  BY <1>0, <1>1, <1>2, FinishRows, ThreadsEnd DEF TypeOK

\* What the observer of an operation writes to it and to its own job.
LEMMA OperationRows ==
  ASSUME TypeOK, NEW s \in Slots, ReconcileOperation(s)
  PROVE  /\ job' \in [Slots -> Jobs] /\ run' = run
         /\ UNCHANGED <<hostUp, att, eff, plan, target, lock, head, moves>>
         /\ SameJob(s) /\ Alive(s) /\ job'[s].stage = "finishing" /\ job'[s].saw = job[s].saw
         /\ job[s].row \in Unsettled /\ job[s].other # s => job'[s].row = job[s].row
         /\ \A t \in Slots : t # s => SameThread(t) \/ Gone(t)
         /\ \A t \in Slots : job'[t].row \in Unsettled => job[t].row \in Unsettled /\ job'[t].kind = job[t].kind
<1> DEFINE t == job[s].other
           state == IF job[s].on = NoEffect THEN "cancelled" ELSE StateOf(Mine(s).state)
           to == IF job[t].row \in Unsettled THEN Settled(t, state) ELSE job[t]
<1>0. \A u \in Slots : job[u] \in Jobs
  BY DEF TypeOK
<1>1. state \in {"completed", "failed", "cancelled", "uncertain"}
  BY Outcomes
<1>2. /\ job' = [job EXCEPT ![t] = to, ![s].stage = "finishing", ![s].told = "completed"]
      /\ UNCHANGED <<run, hostUp, att, eff, plan, target, lock, head, moves>>
      /\ job[s].stage = "inspected" /\ (job[t].row \in Unsettled => state # "uncertain")
  BY DEF ReconcileOperation
<1> DEFINE base == IF t = s THEN to ELSE job[s]
<1>3. /\ job'[s] = [base EXCEPT !.stage = "finishing", !.told = "completed"]
      /\ t \in Slots /\ t # s => job'[t] = to
      /\ \A u \in Slots : u # s /\ u # t => job'[u] = job[u]
      /\ job' = [u \in Slots |-> job'[u]]
  BY <1>2 DEF TypeOK
<1> HIDE DEF state
<1>4. /\ base \in Jobs /\ base.kind = job[s].kind /\ base.on = job[s].on /\ base.other = job[s].other
      /\ base.epoch = job[s].epoch /\ base.saw = job[s].saw
      /\ base.row \in Unsettled => job[s].row \in Unsettled
      /\ t # s => base = job[s]
  BY <1>0, <1>1, <1>2 DEF Settled, Alive, Jobs, Unsettled
<1> HIDE DEF base
<1>5. /\ SameJob(s) /\ Alive(s) /\ job'[s].stage = "finishing" /\ job'[s].saw = job[s].saw /\ job'[s] \in Jobs
      /\ job'[s].row = base.row /\ job'[s].kind = job[s].kind
  BY <1>2, <1>3, <1>4 DEF SameJob, Alive, Jobs, Stages
<1>6. ASSUME NEW u \in Slots, u # s
      PROVE  /\ job'[u] \in Jobs /\ (SameThread(u) \/ Gone(u))
             /\ job'[u].row \in Unsettled => job[u].row \in Unsettled /\ job'[u].kind = job[u].kind
  <2>1. CASE u = t /\ job[t].row \in Unsettled
    <3>1. job'[u] = Settled(u, state)
      BY <1>3, <1>6, <2>1
    <3>2. QED
      BY <1>1, <2>1, <3>1, SettledThread
  <2>2. CASE ~(u = t /\ job[t].row \in Unsettled)
    BY <1>0, <1>3, <1>6, <2>2 DEF SameThread, SameJob
  <2>3. QED
    BY <2>1, <2>2
<1>7. QED
  BY <1>2, <1>3, <1>4, <1>5, <1>6

LEMMA OperationInv ==
  ASSUME Inv, NEW s \in Slots, ReconcileOperation(s)
  PROVE  Inv'
<1>0. TypeOK /\ run \in RunRows
  BY DEF Inv, World, TypeOK
<1>1. Same
  BY <1>0, OperationRows DEF Same
<1>2. QED
  BY <1>0, <1>1, OperationRows, ThreadsEnd DEF TypeOK

-----------------------------------------------------------------------------
(* Steps of the holder of the lock *)

OldRow(e) == eff'[e].state = eff[e].state /\ eff'[e].epoch = eff[e].epoch /\ eff'[e].passed = eff[e].passed
\* What no step does to the tables: candidates and approvals stay what they
\* are, and only the current owner starts anything.
Gentle ==
  /\ run' \in RunRows /\ run'.epoch = run.epoch
  /\ UNCHANGED <<target, moves>> /\ \A c \in Candidates : plan'[c].members = plan[c].members
  /\ \A e \in Effects : /\ eff'[e].epoch = eff[e].epoch \/ eff'[e].epoch = run.epoch
                        /\ eff'[e].alive /\ ~eff[e].alive => eff'[e].epoch = run.epoch

LEMMA Numbers ==
  ASSUME TypeOK
  PROVE  /\ run.epoch \in Nat /\ \A s \in Slots : job[s] \in Jobs /\ job[s].epoch \in Nat
         /\ \A e \in Effects : eff[e] \in EffectRows /\ eff[e].epoch \in Nat
  BY EpochAssumption DEF TypeOK, RunRows, Epochs, Jobs, EffectRows

LEMMA OnEffect ==
  ASSUME Inv, NEW s \in Slots, job[s].kind \notin {"settle", "operation"} \/ job[s].stage = "looked"
  PROVE  job[s].on \in Effects
<1>1. JobInv(s) /\ job[s].on \in Effects \cup {NoEffect} /\ job[s].kind \in Kinds
  BY DEF Inv, World, TypeOK, Jobs
<1>2. QED
  BY <1>1 DEF JobInv, Suits, Stands, Kinds, WriterSteps, Observations, NoEffect, Effect, None

LEMMA OthersWait ==
  ASSUME Inv, Gentle, NEW s \in Slots, lock = s,
         NEW t \in Slots, t # s, SameThread(t),
         \A e \in Effects : eff[e].state = "absent" /\ eff'[e].state # "absent" => e = job[s].on /\ Works(s)
  PROVE  JobInv(t)'
<1> USE DEF SameThread, SameJob, Gentle
<1>0. JobInv(t) /\ TypeOK
  BY DEF Inv, World
<1>1. job[t].stage \in Unlocked \/ job[t].kind \in {"settle", "operation"}
  BY <1>0 DEF JobInv, Stands
<1>2. Suits(t)'
  <2>1. job[t].kind = "prepare" => job[t].on.of \in Candidates
    BY <1>0, OnEffect, EffectKinds DEF JobInv, Suits
  <2>2. QED
    BY <1>0, <2>1 DEF JobInv, Suits
<1>3. Stands(t)'
  BY <1>0, <1>1 DEF JobInv, Stands
<1>4. job[t].stage \notin Underway
  BY <1>0, <1>1 DEF JobInv, Stands, Unlocked, Underway, Observations
<1>5. Unbegun(t)'
  <2>1. ASSUME job[t].kind \in {"prepare", "apply"}, job[t].stage \in {"queued", "waiting", "holding", "read"}
        PROVE  eff'[job[t].on].state = "absent"
    <3>1. job[t].on \in Effects /\ eff[job[t].on].state = "absent" /\ Works(t)
      BY <1>0, <2>1, OnEffect DEF JobInv, Unbegun, Works, Alive, Observations
    <3>2. Works(s) => job[t].on # job[s].on
      BY <3>1 DEF Inv, Alone
    <3>3. QED
      BY <3>1, <3>2
  <2>2. QED
    BY <2>1 DEF Unbegun
<1>6. Observes(t)'
  <2>1. ~(job[t].kind = "reconcile" /\ job[t].stage \in {"looking", "looked", "inspected", "read"})
    BY <1>1 DEF Unlocked
  <2>2. ASSUME job[t].stage = "looked", eff'[job[t].on].epoch < job[t].epoch PROVE ~eff'[job[t].on].alive
    <3>1. job[t].on \in Effects
      BY <2>2, OnEffect
    <3>2. job[t].epoch <= run.epoch /\ (eff[job[t].on].epoch < job[t].epoch => ~eff[job[t].on].alive)
      BY <1>0, <2>2 DEF JobInv, Stands, Observes
    <3>3. QED
      BY <1>0, <2>2, <3>1, <3>2, Numbers
  <2>3. QED
    BY <2>1, <2>2 DEF Observes
<1>7. Follows(t)' /\ Approved(t)'
  BY <1>4 DEF Follows, Approved, Underway
<1>8. Saw(t)'
  BY <1>0 DEF JobInv, Saw, Reached
<1>9. QED
  BY <1>2, <1>3, <1>5, <1>6, <1>7, <1>8 DEF JobInv

LEMMA HolderTurns ==
  ASSUME Inv, Gentle, NEW s \in Slots, NEW stage \in Stages, Turned(s, stage), lock = s,
         \A e \in Effects : eff[e].state = "absent" /\ eff'[e].state # "absent" => e = job[s].on /\ Works(s),
         World', JobInv(s)', Alive(s)
  PROVE  Inv'
<1>1. \A t \in Slots : t # s => JobInv(t)'
  BY OthersWait DEF Turned, SameThread, SameJob
<1>2. Alone'
  BY DEF Inv, Alone, Works, Alive, Turned, SameJob
<1>3. QED
  BY <1>1, <1>2 DEF Inv

\* Tables of which states move at most between those of an effect there is.
LEMMA WorldMoves ==
  ASSUME Inv, Gentle, TypeOK', RowsOK', VerifiedOK', UNCHANGED head,
         \A w \in Writers : att'[w].state = "accepted" => att[w].state = "accepted",
         \A e \in Effects : /\ eff'[e].epoch = eff[e].epoch
                            /\ eff'[e].state = "absent" <=> eff[e].state = "absent"
                            /\ eff[e].invoked => eff'[e].invoked
                            /\ eff'[e].alive /\ ~eff[e].alive => ~eff[e].invoked,
         \A x \in Approvals : eff'[ApplyOf(x)].state = "applied" =>
           eff[ApplyOf(x)].state = "applied" \/ Reached(target[x])
  PROVE  World'
<1> USE DEF Gentle, Inv, World
<1>1. ChecksOK' /\ TargetsOK'
  BY EffectNames DEF ChecksOK, TargetsOK
<1>2. HeadOK' /\ AppliedWasThere'
  BY DEF HeadOK, Reached, AppliedWasThere
<1>3. AcceptedOK'
  BY DEF AcceptedOK
<1>4. MovedOnce'
  BY EffectNames DEF MovedOnce
<1>5. QED
  BY <1>1, <1>2, <1>3, <1>4

-----------------------------------------------------------------------------
(* The process of an effect *)

\* Only the process of e changes.
ProcessOf(e) ==
  /\ eff' \in [Effects -> EffectRows] /\ \A d \in Effects : d # e => eff'[d] = eff[d]
  /\ OldRow(e)

LEMMA ProcessWorld ==
  ASSUME Inv, Gentle, NEW e \in Effects, ProcessOf(e), RowOK(e)', UNCHANGED <<hostUp, att, plan, head>>,
         job' \in [Slots -> Jobs], lock' \in Slots \cup {None},
         eff[e].invoked => eff'[e].invoked, eff'[e].alive /\ ~eff[e].alive => ~eff[e].invoked
  PROVE  World'
<1> USE DEF ProcessOf, OldRow
<1>1. TypeOK'
  BY DEF Inv, World, TypeOK, Gentle
<1>2. RowsOK'
  BY DEF Inv, World, RowsOK, RowOK, Gentle, Pending
<1>3. VerifiedOK'
  <2>1. \A d \in Effects : /\ eff'[d].state = eff[d].state /\ eff'[d].epoch = eff[d].epoch
                           /\ eff'[d].passed = eff[d].passed
    OBVIOUS
  <2>2. run'.epoch = run.epoch
    BY DEF Gentle
  <2>3. QED
    BY <2>1, <2>2, EffectNames DEF Inv, World, VerifiedOK, Vouched, Passed
<1>4. \A x \in Approvals : eff'[ApplyOf(x)].state = eff[ApplyOf(x)].state
  BY EffectNames
<1>5. \A d \in Effects : /\ eff'[d].epoch = eff[d].epoch
                         /\ eff'[d].state = "absent" <=> eff[d].state = "absent"
                         /\ eff[d].invoked => eff'[d].invoked
                         /\ eff'[d].alive /\ ~eff[d].alive => ~eff[d].invoked
  OBVIOUS
<1>6. QED
  BY <1>1, <1>2, <1>3, <1>4, <1>5, WorldMoves

LEMMA UnderwayFacts ==
  ASSUME Inv, NEW s \in Slots, job[s].stage \in Underway
  PROVE  /\ lock = s /\ job[s].on \in Effects /\ job[s].kind \notin Observations /\ Works(s) /\ Alive(s)
         /\ eff[job[s].on] \in EffectRows /\ RowOK(job[s].on) /\ JobInv(s) /\ TypeOK
<1>1. JobInv(s) /\ TypeOK /\ RowsOK
  BY DEF Inv, World
<1>2. lock = s /\ job[s].kind \notin Observations
  BY <1>1 DEF JobInv, Stands, Underway, Unlocked, Observations
<1>3. job[s].on \in Effects
  BY <1>2, OnEffect DEF Observations
<1>4. QED
  BY <1>1, <1>2, <1>3, Numbers DEF RowsOK, Works, Alive, Underway

LEMMA LaunchInv ==
  ASSUME Inv, NEW s \in Slots, Launch(s)
  PROVE  Inv'
<1> DEFINE e == job[s].on
<1>1. /\ job[s].stage = "intended" /\ Mine(s).epoch = job[s].epoch /\ eff[e].state \in Active(e.kind)
      /\ eff' = [eff EXCEPT ![e].proc = "intent"] /\ job' = [job EXCEPT ![s].stage = "launched"]
      /\ UNCHANGED <<run, hostUp, att, plan, target, lock, head, moves>>
  BY DEF Launch, Goes, Mine
<1>2. /\ lock = s /\ e \in Effects /\ eff[e] \in EffectRows /\ RowOK(e) /\ JobInv(s) /\ TypeOK /\ Alive(s)
      /\ job[s].kind \notin Observations
  BY <1>1, UnderwayFacts DEF Underway
<1>3. Turned(s, "launched") /\ job'[s].told = job[s].told /\ job'[s].saw = job[s].saw
  BY <1>1, <1>2, TurnStage DEF Stages
<1>4. /\ ProcessOf(e) /\ eff'[e].proc = "intent" /\ eff'[e].alive = eff[e].alive
      /\ eff'[e].invoked = eff[e].invoked
  BY <1>1, <1>2 DEF ProcessOf, OldRow, TypeOK, EffectRows
<1>5. ~eff[e].invoked /\ ~eff[e].alive /\ eff[e].state # "absent"
  BY <1>1, <1>2 DEF JobInv, Follows, Underway, RowOK
<1>6. Gentle
  BY <1>1, <1>2, <1>4 DEF Gentle, TypeOK, ProcessOf, OldRow
<1>7. RowOK(e)'
  BY <1>1, <1>2, <1>4, <1>5 DEF RowOK, ProcessOf, OldRow, Pending
<1>8. World'
  BY <1>1, <1>2, <1>3, <1>4, <1>5, <1>6, <1>7, ProcessWorld DEF Turned, TypeOK
<1>9. JobInv(s)'
  <2> USE DEF Turned, SameJob, ProcessOf, OldRow
  <2>1. Suits(s)' /\ Saw(s)'
    BY <1>1, <1>2, <1>3 DEF JobInv, Suits, Saw, Reached
  <2>2. Stands(s)'
    BY <1>1, <1>2, <1>3 DEF JobInv, Stands, Underway, Observations
  <2>3. Follows(s)'
    BY <1>1, <1>2, <1>3, <1>4, <1>5 DEF JobInv, Follows, Underway, Pending
  <2>4. Unbegun(s)' /\ Observes(s)'
    BY <1>3 DEF Unbegun, Observes
  <2>5. Approved(s)'
    <3>1. ASSUME job[s].kind = "apply"
          PROVE  eff'[CandidateOf(target[e.of])] = eff[CandidateOf(target[e.of])]
      BY <1>2, <1>4, <3>1, EffectNames DEF JobInv, Suits
    <3>2. QED
      BY <1>1, <1>2, <1>3, <3>1 DEF JobInv, Approved
  <2>6. QED
    BY <2>1, <2>2, <2>3, <2>4, <2>5 DEF JobInv
<1>10. QED
  BY <1>1, <1>2, <1>3, <1>4, <1>6, <1>8, <1>9, HolderTurns DEF Stages, ProcessOf, OldRow

LEMMA InvokeInv ==
  ASSUME Inv, NEW s \in Slots, Invoke(s)
  PROVE  Inv'
<1> DEFINE e == job[s].on
<1>1. /\ job[s].stage = "launched" /\ eff[e].state \in Active(e.kind) /\ run.epoch = job[s].epoch
      /\ eff' = [eff EXCEPT ![e].proc = "invoked", ![e].invoked = TRUE, ![e].alive = TRUE]
      /\ job' = [job EXCEPT ![s].stage = "invoked"]
      /\ UNCHANGED <<run, hostUp, att, plan, target, lock, head, moves>>
  BY DEF Invoke, Goes, Mine, Admitting, Authority
<1>2. /\ lock = s /\ e \in Effects /\ eff[e] \in EffectRows /\ RowOK(e) /\ JobInv(s) /\ TypeOK /\ Alive(s)
      /\ job[s].kind \notin Observations
  BY <1>1, UnderwayFacts DEF Underway
<1>3. Turned(s, "invoked") /\ job'[s].told = job[s].told /\ job'[s].saw = job[s].saw
  BY <1>1, <1>2, TurnStage DEF Stages
<1>4. ProcessOf(e) /\ eff'[e].proc = "invoked" /\ eff'[e].alive /\ eff'[e].invoked
  BY <1>1, <1>2 DEF ProcessOf, OldRow, TypeOK, EffectRows
<1>5. ~eff[e].invoked /\ ~eff[e].alive /\ eff[e].state # "absent" /\ eff[e].epoch = run.epoch
  BY <1>1, <1>2 DEF JobInv, Follows, Underway, RowOK
<1>6. Gentle
  BY <1>1, <1>2, <1>4, <1>5 DEF Gentle, TypeOK, ProcessOf, OldRow
<1>7. RowOK(e)'
  BY <1>1, <1>2, <1>4, <1>5 DEF RowOK, ProcessOf, OldRow, Pending
<1>8. World'
  BY <1>1, <1>2, <1>3, <1>4, <1>5, <1>6, <1>7, ProcessWorld DEF Turned, TypeOK
<1>9. JobInv(s)'
  <2> USE DEF Turned, SameJob, ProcessOf, OldRow
  <2>1. Suits(s)' /\ Saw(s)'
    BY <1>1, <1>2, <1>3 DEF JobInv, Suits, Saw, Reached
  <2>2. Stands(s)'
    BY <1>1, <1>2, <1>3 DEF JobInv, Stands, Underway, Observations
  <2>3. Follows(s)'
    BY <1>1, <1>2, <1>3, <1>4, <1>5 DEF JobInv, Follows, Underway, Pending
  <2>4. Unbegun(s)' /\ Observes(s)' /\ Approved(s)'
    BY <1>3 DEF Unbegun, Observes, Approved
  <2>5. QED
    BY <2>1, <2>2, <2>3, <2>4 DEF JobInv
<1>10. \A d \in Effects : eff[d].state = "absent" => eff'[d].state = "absent"
  BY <1>4 DEF ProcessOf, OldRow
<1>11. QED
  BY <1>2, <1>3, <1>6, <1>8, <1>9, <1>10, HolderTurns DEF Stages

LEMMA StopInv ==
  ASSUME Inv, NEW s \in Slots, NEW told \in EffectStates \cup {None}, NEW stage \in {"returned", "failing"},
         SeenToStop(s, told, stage), job[s].stage \in {"launched", "invoked"}, ~eff[job[s].on].alive,
         stage = "returned" => told \in Told(job[s].kind) /\ (job[s].kind = "apply" => head = target[job[s].on.of])
  PROVE  Inv'
<1> DEFINE e == job[s].on
<1>1. /\ eff' = [eff EXCEPT ![e].proc = "closed"]
      /\ job' = [job EXCEPT ![s].stage = stage, ![s].told = told]
      /\ UNCHANGED <<hostUp, att, plan, target, lock, head, moves>> /\ Commit(run, TRUE)
  BY DEF SeenToStop
<1>2. /\ lock = s /\ e \in Effects /\ eff[e] \in EffectRows /\ RowOK(e) /\ JobInv(s) /\ TypeOK /\ Alive(s)
      /\ job[s].kind \notin Observations
  BY UnderwayFacts DEF Underway
<1>3. Turned(s, stage) /\ job'[s].told = told /\ job'[s].saw = job[s].saw
  <2>1. told \in EffectStates \cup {None, "completed"} /\ stage \in Stages
    BY DEF Stages
  <2>2. TypeOK /\ job' = [job EXCEPT ![s].stage = stage, ![s].told = told]
    BY <1>1, <1>2
  <2>3. QED
    BY <2>1, <2>2, TurnTold
<1>4. ProcessOf(e) /\ eff'[e].proc = "closed" /\ ~eff'[e].alive /\ eff'[e].invoked = eff[e].invoked
  BY <1>1, <1>2 DEF ProcessOf, OldRow, TypeOK, EffectRows
<1>5. run' \in RunRows /\ run'.epoch = run.epoch
  BY <1>1, <1>2, Committed DEF TypeOK
<1>6. Gentle
  BY <1>1, <1>4, <1>5 DEF Gentle, ProcessOf, OldRow
<1>7. eff[e].state # "absent"
  BY <1>2 DEF JobInv, Follows, Underway
<1>8. RowOK(e)'
  BY <1>2, <1>3, <1>4, <1>5, <1>7 DEF RowOK, ProcessOf, OldRow, Pending, Open, Turned, SameJob
<1>9. World'
  BY <1>1, <1>2, <1>3, <1>4, <1>6, <1>8, ProcessWorld DEF Turned, TypeOK
<1>10. JobInv(s)'
  <2> USE DEF Turned, SameJob, ProcessOf, OldRow
  <2>1. Suits(s)'
    BY <1>1, <1>2, <1>3 DEF JobInv, Suits
  <2>2. Stands(s)'
    BY <1>1, <1>2, <1>3, <1>5 DEF JobInv, Stands, Underway, Observations
  <2>3. Follows(s)'
    BY <1>2, <1>3, <1>4, <1>5 DEF JobInv, Follows, Underway, Pending, Open
  <2>4. Unbegun(s)' /\ Observes(s)' /\ Approved(s)'
    BY <1>3 DEF Unbegun, Observes, Approved
  <2>5. Saw(s)'
    <3>1. stage = "returned" /\ job[s].kind = "apply" => Reached(target[e.of])
      BY <1>2 DEF JobInv, Suits, Inv, World, HeadOK
    <3>2. QED
      BY <1>1, <1>2, <1>3, <3>1 DEF JobInv, Saw, Reached
  <2>6. QED
    BY <2>1, <2>2, <2>3, <2>4, <2>5 DEF JobInv
<1>11. QED
  <2>1. \A d \in Effects : eff[d].state = "absent" => eff'[d].state = "absent"
    BY <1>4 DEF ProcessOf, OldRow
  <2>2. QED
    BY <1>2, <1>3, <1>6, <1>9, <1>10, <2>1, HolderTurns DEF Stages

LEMMA ProcessSteps ==
  ASSUME Inv, NEW s \in Slots,
         (\E result \in EffectStates : Return(s, result)) \/ ReturnError(s) \/ Abort(s)
  PROVE  Inv'
<1>1. ASSUME NEW result \in EffectStates, Return(s, result) PROVE Inv'
  <2>1. /\ job[s].stage = "invoked" /\ ~eff[job[s].on].alive
        /\ result \in Results(s) /\ SeenToStop(s, result, "returned")
    BY <1>1 DEF Return, Mine
  <2>2. job[s].kind \in Kinds /\ job[s].kind \notin Observations
    BY <2>1, UnderwayFacts DEF Underway, TypeOK, Jobs
  <2>3. result \in Told(job[s].kind) /\ (job[s].kind = "apply" => head = target[job[s].on.of])
    BY <2>1, <2>2 DEF Results, Told, Kinds
  <2>4. QED
    BY <2>1, <2>3, StopInv
<1>2. CASE ReturnError(s)
  BY <1>2, StopInv DEF ReturnError, Mine
<1>3. CASE job[s].stage = "launched" /\ SeenToStop(s, None, "failing")
  <2>1. ~eff[job[s].on].alive
    BY <1>3, UnderwayFacts DEF Underway, JobInv, Follows, RowOK
  <2>2. QED
    BY <1>3, <2>1, StopInv
<1>4. CASE /\ job[s].stage = "intended" /\ Goes(s, "failing")
           /\ UNCHANGED <<run, hostUp, att, eff, plan, target, lock, head, moves>>
  <2>0. TypeOK /\ JobInv(s) /\ run \in RunRows
    BY DEF Inv, World, TypeOK
  <2>1. Turned(s, "failing") /\ job'[s].told = job[s].told /\ job'[s].saw = job[s].saw
    BY <1>4, <2>0, TurnStage DEF Goes, Stages
  <2>2. Same /\ UNCHANGED <<hostUp, att, head, lock>>
    BY <1>4, <2>0 DEF Same
  <2>3. Stands(s)' /\ Observes(s)' /\ Saw(s)'
    BY <1>4, <2>0, <2>1, <2>2
       DEF Same, Turned, SameJob, JobInv, Stands, Observes, Saw, Reached, Underway, Unlocked, Observations
  <2>4. JobInv(s)'
    BY <1>4, <2>1, <2>2, <2>3, OwnTurn DEF Stages, Underway
  <2>5. QED
    BY <1>4, <2>0, <2>1, <2>2, <2>4, ThreadTurns DEF Turned, SameJob, Works, Alive, Stages, TypeOK
<1>5. QED
  BY <1>1, <1>2, <1>3, <1>4 DEF Abort

-----------------------------------------------------------------------------
(* The outcome of an effect *)

\* Only states of effects that are there change, and an application with an
\* open process keeps waiting for its outcome.
OnlyStates ==
  /\ eff' \in [Effects -> EffectRows]
  /\ \A d \in Effects :
       /\ eff'[d].epoch = eff[d].epoch /\ eff'[d].proc = eff[d].proc
       /\ eff'[d].invoked = eff[d].invoked /\ eff'[d].alive = eff[d].alive /\ eff'[d].passed = eff[d].passed
       /\ eff[d].state = "absent" => eff'[d] = eff[d]
       /\ eff[d].state # "absent" => eff'[d].state # "absent"
       /\ d.kind = "application" /\ Open(eff[d]) => eff'[d].state = eff[d].state \/ eff'[d].state = "uncertain"
  /\ \A x \in Approvals : eff'[ApplyOf(x)].state = "applied" =>
       eff[ApplyOf(x)].state = "applied" \/ Reached(target[x])

LEMMA StatesWorld ==
  ASSUME Inv, OnlyStates, VerifiedOK', UNCHANGED <<hostUp, plan, target, head, moves>>,
         att' \in [Writers -> [state : {"absent", "running", "submitted", "accepted", "failed"}, base : Commits]],
         \A w \in Writers : att'[w].state = "accepted" => att[w].state = "accepted",
         run' \in RunRows, run'.epoch = run.epoch, job' \in [Slots -> Jobs], lock' \in Slots \cup {None}
  PROVE  World' /\ Gentle
<1> USE DEF OnlyStates
<1>1. TypeOK'
  BY DEF Inv, World, TypeOK
<1>2. RowsOK'
  <2> SUFFICES ASSUME NEW e \in Effects PROVE RowOK(e)'
    BY DEF RowsOK
  <2>1. RowOK(e)
    BY DEF Inv, World, RowsOK
  <2>2. e.kind = "application" /\ Open(eff'[e]) => Pending(e)'
    BY <2>1 DEF RowOK, Open, Pending
  <2>3. QED
    BY <2>1, <2>2 DEF RowOK
<1>3. Gentle
  BY DEF Gentle
<1>4. QED
  BY <1>1, <1>2, <1>3, WorldMoves

LEMMA OutcomeInv ==
  ASSUME Inv, NEW s \in Slots, lock = s, Alive(s), OnlyStates, VerifiedOK',
         UNCHANGED <<hostUp, att, plan, target, head, moves>>, lock' \in {lock, None},
         run' \in RunRows, run'.epoch = run.epoch, Turned(s, "finishing"), job'[s].saw = job[s].saw
  PROVE  Inv'
<1>0. TypeOK /\ run.epoch \in Nat
  BY Numbers DEF Inv, World
<1>1. World' /\ Gentle
  BY <1>0, StatesWorld DEF TypeOK, Turned
<1>2. JobInv(s)'
  BY <1>0, ThreadGone DEF Turned
<1>3. \A d \in Effects : eff[d].state = "absent" => eff'[d].state = "absent"
  BY DEF OnlyStates
<1>4. QED
  BY <1>1, <1>2, <1>3, HolderTurns DEF Stages

\* A step that writes the state of one effect that is no check and no candidate
\* that a check may have verified.
Write(e, state) == eff' = [eff EXCEPT ![e].state = state]

LEMMA OneState ==
  ASSUME TypeOK, VerifiedOK, run'.epoch = run.epoch,
         NEW e \in Effects, NEW state \in EffectStates, eff[e].state # "absent", state # "absent",
         Write(e, state), e.kind # "check", e.kind = "candidate" => state # "verified",
         e.kind = "application" => /\ state = "applied" => Reached(target[e.of])
                                   /\ Open(eff[e]) => state \in {eff[e].state, "uncertain"}
  PROVE  OnlyStates /\ VerifiedOK'
<1>1. /\ eff' \in [Effects -> EffectRows] /\ \A d \in Effects : d # e => eff'[d] = eff[d]
      /\ eff'[e].state = state /\ eff'[e].epoch = eff[e].epoch /\ eff'[e].proc = eff[e].proc
      /\ eff'[e].invoked = eff[e].invoked /\ eff'[e].alive = eff[e].alive /\ eff'[e].passed = eff[e].passed
  BY DEF TypeOK, EffectRows, Write
<1>2. \A x \in Approvals : eff'[ApplyOf(x)].state = "applied" =>
        eff[ApplyOf(x)].state = "applied" \/ Reached(target[x])
  BY <1>1, EffectNames
<1>3. OnlyStates
  BY <1>1, <1>2 DEF OnlyStates
<1>4. VerifiedOK'
  <2>1. \A c \in Candidates, k \in Keys : eff'[CheckOf(c, k)] = eff[CheckOf(c, k)]
    BY <1>1, EffectNames
  <2>2. \A c \in Candidates : /\ eff'[CandidateOf(c)].state = "verified" => eff[CandidateOf(c)].state = "verified"
                              /\ eff'[CandidateOf(c)].epoch = eff[CandidateOf(c)].epoch
    BY <1>1, EffectNames
  <2>3. QED
    BY <2>1, <2>2 DEF VerifiedOK, Vouched
<1>5. QED
  BY <1>3, <1>4

\* Writing the states of two rows.
Writes(e, state, d, to) == eff' = [eff EXCEPT ![e].state = state, ![d].state = to]

LEMMA WriteTwo ==
  ASSUME eff \in [Effects -> EffectRows], NEW e \in Effects, NEW d \in Effects, d # e,
         NEW state \in EffectStates, NEW to \in EffectStates, Writes(e, state, d, to)
  PROVE  /\ eff' \in [Effects -> EffectRows]
         /\ \A b \in Effects : b # e /\ b # d => eff'[b] = eff[b]
         /\ eff'[e] = [eff[e] EXCEPT !.state = state]
         /\ eff'[d] = [eff[d] EXCEPT !.state = to]
<1>0. eff' = [eff EXCEPT ![e].state = state, ![d].state = to]
  BY DEF Writes
<1>1. eff' = [b \in Effects |-> eff'[b]]
  BY <1>0
<1>2. \A b \in Effects : b # e /\ b # d => eff'[b] = eff[b]
  BY <1>0
<1>3. eff'[e] = [eff[e] EXCEPT !.state = state]
  BY <1>0
<1>4. eff'[d] = [eff[d] EXCEPT !.state = to]
  BY <1>0
<1>5. eff'[e] \in EffectRows /\ eff'[d] \in EffectRows
  BY <1>3, <1>4 DEF EffectRows
<1>6. QED
  BY <1>1, <1>2, <1>3, <1>4, <1>5

\* A step that writes the state of a check or an application and of its candidate.
LEMMA TwoStates ==
  ASSUME TypeOK, VerifiedOK, run'.epoch = run.epoch, NEW e \in Effects, NEW c \in Candidates,
         NEW state \in EffectStates, NEW to \in EffectStates,
         eff[e].state # "absent", eff[CandidateOf(c)].state # "absent", state # "absent", to # "absent",
         Writes(e, state, CandidateOf(c), to),
         (e.kind = "check" /\ e.of = c) \/ e.kind = "application",
         to = "verified" => \A k \in Keys : (IF CheckOf(c, k) = e THEN state ELSE eff[CheckOf(c, k)].state) = "passed",
         e.kind = "application" => /\ state = "applied" => Reached(target[e.of])
                                   /\ Open(eff[e]) => state \in {eff[e].state, "uncertain"}
  PROVE  OnlyStates /\ VerifiedOK'
<1>0. CandidateOf(c) # e /\ CandidateOf(c) \in Effects /\ CandidateOf(c).kind = "candidate"
  BY EffectNames
<1> DEFINE cand == CandidateOf(c)
<1>a. /\ eff' \in [Effects -> EffectRows] /\ eff[e] \in EffectRows /\ eff[cand] \in EffectRows
      /\ \A d \in Effects : d # e /\ d # cand => eff'[d] = eff[d]
      /\ eff'[e] = [eff[e] EXCEPT !.state = state] /\ eff'[cand] = [eff[cand] EXCEPT !.state = to]
  <2>1. eff \in [Effects -> EffectRows] /\ cand \in Effects /\ cand # e
    BY <1>0 DEF TypeOK
  <2>2. Writes(e, state, cand, to)
    OBVIOUS
  <2> HIDE DEF cand
  <2>3. QED
    BY <2>1, <2>2, WriteTwo
<1>1. /\ eff' \in [Effects -> EffectRows]
      /\ \A d \in Effects : d # e /\ d # CandidateOf(c) => eff'[d] = eff[d]
      /\ eff'[e].state = state /\ eff'[e].epoch = eff[e].epoch /\ eff'[e].proc = eff[e].proc
      /\ eff'[e].invoked = eff[e].invoked /\ eff'[e].alive = eff[e].alive /\ eff'[e].passed = eff[e].passed
  BY <1>a DEF EffectRows
<1>2. /\ eff'[CandidateOf(c)].state = to /\ eff'[CandidateOf(c)].epoch = eff[CandidateOf(c)].epoch
      /\ eff'[CandidateOf(c)].proc = eff[CandidateOf(c)].proc
      /\ eff'[CandidateOf(c)].invoked = eff[CandidateOf(c)].invoked
      /\ eff'[CandidateOf(c)].alive = eff[CandidateOf(c)].alive
      /\ eff'[CandidateOf(c)].passed = eff[CandidateOf(c)].passed
  BY <1>a DEF EffectRows
<1>3. \A x \in Approvals : eff'[ApplyOf(x)].state = "applied" =>
        eff[ApplyOf(x)].state = "applied" \/ Reached(target[x])
  BY <1>0, <1>1, EffectNames
<1>4. OnlyStates
  BY <1>0, <1>1, <1>2, <1>3 DEF OnlyStates
<1>5. VerifiedOK'
  <2> SUFFICES ASSUME NEW d \in Candidates, eff'[CandidateOf(d)].state = "verified", NEW k \in Keys
               PROVE  Vouched(d, k)'
    BY DEF VerifiedOK
  <2>1. CASE d = c
    <3>1. CheckOf(c, k) \in Effects /\ CheckOf(c, k) # CandidateOf(c)
      BY EffectNames
    <3>2. to = "verified"
      BY <1>2, <2>1
    <3>3. eff'[CheckOf(c, k)].state = IF CheckOf(c, k) = e THEN state ELSE eff[CheckOf(c, k)].state
      BY <1>1, <3>1
    <3>4. QED
      BY <2>1, <3>2, <3>3 DEF Vouched, Passed
  <2>2. CASE d # c
    <3>1. CandidateOf(d) # CandidateOf(c) /\ CandidateOf(d) # e /\ CheckOf(d, k) # e
          /\ CheckOf(d, k) # CandidateOf(c) /\ CheckOf(d, k) \in Effects /\ CandidateOf(d) \in Effects
      BY <2>2, EffectNames
    <3>2. eff'[CandidateOf(d)] = eff[CandidateOf(d)] /\ eff'[CheckOf(d, k)] = eff[CheckOf(d, k)]
      BY <1>1, <3>1
    <3>3. QED
      BY <3>2 DEF VerifiedOK, Vouched
  <2>3. QED
    BY <2>1, <2>2
<1>6. QED
  BY <1>4, <1>5

LEMMA NoState ==
  ASSUME Inv, UNCHANGED eff, run'.epoch = run.epoch
  PROVE  OnlyStates /\ VerifiedOK'
  BY DEF Inv, World, TypeOK, OnlyStates, VerifiedOK, Vouched

\* What a thread that has run an effect knows when it comes to its outcome.
LEMMA OutcomeFacts ==
  ASSUME Inv, NEW s \in Slots, job[s].stage \in {"returned", "failing"}
  PROVE  LET e == job[s].on IN
         /\ TypeOK /\ VerifiedOK /\ run \in RunRows /\ lock = s /\ e \in Effects /\ Alive(s)
         /\ eff[e].state # "absent" /\ (job[s].stage = "returned" => ~Open(eff[e]))
         /\ job[s].epoch = run.epoch => Pending(e)
         /\ job[s].kind \in {"create", "finalize", "prepare", "check", "apply"}
         /\ e.kind = CASE job[s].kind = "prepare" -> "candidate"
                       [] job[s].kind = "check" -> "check"
                       [] job[s].kind = "apply" -> "application"
                       [] OTHER -> "writer"
         /\ e.kind = "check" => /\ e.of \in Candidates /\ e.key \in Keys /\ e = CheckOf(e.of, e.key)
                                /\ eff[CandidateOf(e.of)].state # "absent"
         /\ e.kind = "application" => /\ e.of \in Approvals /\ target[e.of] \in Candidates
                                      /\ eff[CandidateOf(target[e.of])].state # "absent"
<1> DEFINE e == job[s].on
<1>1. /\ lock = s /\ e \in Effects /\ job[s].kind \notin Observations /\ Alive(s) /\ JobInv(s) /\ TypeOK
      /\ VerifiedOK /\ ChecksOK /\ TargetsOK
  BY UnderwayFacts DEF Underway, Inv, World
<1>2. /\ job[s].kind \in {"create", "finalize", "prepare", "check", "apply"} /\ run \in RunRows
  BY <1>1 DEF TypeOK, Jobs, Kinds
<1>3. /\ eff[e].state # "absent" /\ (job[s].stage = "returned" => ~Open(eff[e]))
      /\ job[s].epoch = run.epoch => Pending(e)
  BY <1>1 DEF JobInv, Follows, Underway
<1>4. /\ e.kind = "check" => /\ e.of \in Candidates /\ e.key \in Keys /\ e = CheckOf(e.of, e.key)
      /\ e.kind = "application" => e.of \in Approvals /\ e = ApplyOf(e.of)
  BY <1>1, EffectKinds
<1>5. job[s].kind = "apply" => target[e.of] \in Candidates
  BY <1>1 DEF JobInv, Suits
<1>6. e.kind = CASE job[s].kind = "prepare" -> "candidate"
                 [] job[s].kind = "check" -> "check"
                 [] job[s].kind = "apply" -> "application"
                 [] OTHER -> "writer"
  BY <1>1, <1>2 DEF JobInv, Suits, WriterSteps
<1>7. e.kind = "application" => job[s].kind = "apply"
  BY <1>2, <1>6
<1>8. QED
  BY <1>1, <1>2, <1>3, <1>4, <1>5, <1>6, <1>7 DEF ChecksOK, TargetsOK

LEMMA RecordInv ==
  ASSUME Inv, NEW s \in Slots, Record(s)
  PROVE  Inv' /\ OnlyStates
<1> DEFINE e == job[s].on
           told == job[s].told
<1>1. /\ job[s].stage = "returned" /\ eff' = WithOutcome(eff, e, told)
      /\ job' = [job EXCEPT ![s].stage = "finishing"] /\ lock' \in {lock, None}
      /\ UNCHANGED <<hostUp, att, plan, target, head, moves>> /\ Commit(run, TRUE)
  BY DEF Record, Leaves, Goes
<1>2. /\ TypeOK /\ VerifiedOK /\ run \in RunRows /\ lock = s /\ e \in Effects /\ Alive(s)
      /\ eff[e].state # "absent" /\ ~Open(eff[e])
      /\ job[s].kind \in {"create", "finalize", "prepare", "check", "apply"}
      /\ e.kind = CASE job[s].kind = "prepare" -> "candidate"
                    [] job[s].kind = "check" -> "check"
                    [] job[s].kind = "apply" -> "application"
                    [] OTHER -> "writer"
  BY <1>1, OutcomeFacts
<1>3. told \in Told(job[s].kind) /\ (job[s].kind = "apply" => Reached(target[e.of]))
  BY <1>1 DEF Inv, JobInv, Stands, Saw
<1>4. told \in EffectStates /\ told # "absent" /\ told # "verified" /\ (job[s].kind = "apply" => told = "applied")
  BY <1>2, <1>3 DEF Told, EffectStates
<1>7. run' \in RunRows /\ run'.epoch = run.epoch
  BY <1>1, <1>2, Committed
<1>5. OnlyStates /\ VerifiedOK'
  <2>1. CASE e.kind = "check"
    <3> DEFINE c == e.of
               to == IF AllPassed(eff, e, told) THEN "verified" ELSE "failed"
    <3>1. c \in Candidates /\ e = CheckOf(c, e.key) /\ e.key \in Keys /\ eff[CandidateOf(c)].state # "absent"
      BY <1>1, <2>1, OutcomeFacts
    <3>2. Writes(e, told, CandidateOf(c), to)
      BY <1>1, <2>1 DEF WithOutcome, Writes
    <3>3. to \in EffectStates /\ to # "absent"
      BY DEF EffectStates
    <3>4. ASSUME to = "verified", NEW k \in Keys
          PROVE  (IF CheckOf(c, k) = e THEN told ELSE eff[CheckOf(c, k)].state) = "passed"
      <4>1. (IF k = e.key THEN told ELSE eff[CheckOf(c, k)].state) = "passed"
        BY <3>4 DEF AllPassed
      <4>2. CheckOf(c, k) = e <=> k = e.key
        BY <3>1, EffectNames
      <4>3. QED
        BY <4>1, <4>2
    <3> HIDE DEF to, c
    <3>5. e.of = c
      BY DEF c
    <3> HIDE DEF told, e
    <3>6. QED
      BY <1>7, <1>2, <1>4, <2>1, <3>1, <3>2, <3>3, <3>4, <3>5, TwoStates
  <2>2. CASE e.kind = "application"
    <3> DEFINE c == target[e.of]
    <3>1. c \in Candidates /\ eff[CandidateOf(c)].state # "absent"
      BY <1>1, <2>2, OutcomeFacts
    <3>2. told = "applied" /\ Reached(target[e.of])
      BY <1>2, <1>3, <1>4, <2>2
    <3>3. Writes(e, told, CandidateOf(c), "applied") /\ "applied" \in EffectStates
      BY <1>1, <2>2 DEF WithOutcome, Writes, EffectStates
    <3> HIDE DEF c, told, e
    <3>4. QED
      BY <1>7, <1>2, <1>4, <2>2, <3>1, <3>2, <3>3, TwoStates
  <2>3. CASE e.kind \notin {"check", "application"}
    <3>1. Write(e, told)
      BY <1>1, <2>3 DEF WithOutcome, Write
    <3> HIDE DEF told, e
    <3>2. QED
      BY <1>7, <1>2, <1>4, <2>3, <3>1, OneState
  <2>4. QED
    BY <2>1, <2>2, <2>3
<1>6. Turned(s, "finishing") /\ job'[s].saw = job[s].saw
  BY <1>1, <1>2, TurnStage DEF Stages
<1>8. QED
  BY <1>1, <1>2, <1>5, <1>6, <1>7, OutcomeInv

LEMMA RejectPathsInv ==
  ASSUME Inv, NEW s \in Slots, RejectPaths(s)
  PROVE  Inv' /\ OnlyStates
<1> DEFINE e == job[s].on
<1>1. /\ job[s].kind = "finalize" /\ job[s].stage = "holding" /\ eff[e].state = "active" /\ Write(e, "rejected")
      /\ job' = [job EXCEPT ![s].stage = "finishing"] /\ lock' \in {lock, None}
      /\ UNCHANGED <<hostUp, att, plan, target, head, moves>> /\ Commit(run, TRUE)
  BY DEF RejectPaths, Leaves, Goes, Intendable, Write
<1>2. /\ TypeOK /\ VerifiedOK /\ run \in RunRows /\ JobInv(s) /\ e \in Effects
  BY <1>1, OnEffect DEF Inv, World, TypeOK
<1>3. lock = s /\ Alive(s) /\ e.kind = "writer"
  BY <1>1, <1>2 DEF JobInv, Stands, Suits, Unlocked, Alive, WriterSteps
<1>6. run' \in RunRows /\ run'.epoch = run.epoch
  BY <1>1, <1>2, Committed
<1>4. OnlyStates /\ VerifiedOK'
  <2> HIDE DEF e
  <2>1. "rejected" \in EffectStates
    BY DEF EffectStates
  <2>2. QED
    BY <1>6, <1>1, <1>2, <1>3, <2>1, OneState
<1>5. Turned(s, "finishing") /\ job'[s].saw = job[s].saw
  BY <1>1, <1>2, TurnStage DEF Stages
<1>7. QED
  BY <1>1, <1>2, <1>3, <1>4, <1>5, <1>6, OutcomeInv

LEMMA FailInv ==
  ASSUME Inv, NEW s \in Slots, NEW closed \in BOOLEAN, NEW recorded \in BOOLEAN, Fail(s, closed, recorded)
  PROVE  Inv' /\ OnlyStates
<1> DEFINE e == job[s].on
           b == recorded /\ job[s].on.kind # "application" /\ Authority(job[s].epoch)
<1>1. /\ job[s].stage = "failing" /\ eff' = (IF recorded THEN Interrupted(s, closed) ELSE eff)
      /\ job' = [job EXCEPT ![s].stage = "finishing"] /\ lock' \in {lock, None}
      /\ UNCHANGED <<hostUp, att, plan, target, head, moves>> /\ b \in BOOLEAN /\ Commit(run, b)
  BY DEF Fail, Leaves, Goes
<1>2. /\ TypeOK /\ VerifiedOK /\ run \in RunRows /\ lock = s /\ e \in Effects /\ Alive(s)
      /\ eff[e].state # "absent" /\ (job[s].epoch = run.epoch => Pending(e))
  BY <1>1, OutcomeFacts
<1>5. run' \in RunRows /\ run'.epoch = run.epoch
  <2> HIDE DEF b
  <2>1. QED
    BY <1>1, <1>2, Committed
<1>3. OnlyStates /\ VerifiedOK'
  <2>1. CASE eff' = eff
    BY <1>5, <2>1, NoState
  <2>2. CASE recorded /\ ~SettledByAnother(e, job[s].epoch) /\ e.kind = "check"
    <3> DEFINE known == Authority(job[s].epoch) /\ ~Open(eff[e]) /\ (closed \/ (eff[e].proc = "closed" /\ ~eff[e].invoked))
               state == IF known THEN "cancelled" ELSE "uncertain"
               to == IF known THEN "failed" ELSE "uncertain"
               c == e.of
    <3>1. c \in Candidates /\ eff[CandidateOf(c)].state # "absent"
      BY <1>1, <2>2, OutcomeFacts
    <3>2. Writes(e, state, CandidateOf(c), to)
      BY <1>1, <2>2 DEF Interrupted, Writes
    <3>3. /\ state \in EffectStates /\ state # "absent" /\ to \in EffectStates /\ to # "absent" /\ to # "verified"
          /\ e.of = c
      BY DEF EffectStates
    <3> HIDE DEF known, state, to, c, e
    <3>4. QED
      BY <1>5, <1>2, <2>2, <3>1, <3>2, <3>3, TwoStates
  <2>3. CASE recorded /\ ~SettledByAnother(e, job[s].epoch) /\ e.kind = "application"
    <3>1. Pending(e)
      BY <1>2, <2>3 DEF SettledByAnother
    <3>2. Write(e, "uncertain") /\ "uncertain" \in EffectStates
      BY <1>1, <2>3, <3>1 DEF Interrupted, Write, EffectStates
    <3> HIDE DEF e
    <3>3. QED
      BY <1>5, <1>2, <2>3, <3>2, OneState
  <2>4. CASE recorded /\ ~SettledByAnother(e, job[s].epoch) /\ e.kind \notin {"check", "application"}
    <3> DEFINE state == IF Authority(job[s].epoch) /\ ~Open(eff[e]) THEN "failed" ELSE "uncertain"
    <3>1. Write(e, state)
      BY <1>1, <2>4 DEF Interrupted, Write
    <3>2. state \in EffectStates /\ state # "absent" /\ state # "verified"
      BY DEF EffectStates
    <3> HIDE DEF state, e
    <3>3. QED
      BY <1>5, <1>2, <2>4, <3>1, <3>2, OneState
  <2>5. QED
    <3>1. recorded /\ SettledByAnother(e, job[s].epoch) => eff' = eff
      BY <1>1 DEF Interrupted
    <3>2. ~recorded => eff' = eff
      BY <1>1
    <3>3. QED
      BY <2>1, <2>2, <2>3, <2>4, <3>1, <3>2
<1>4. Turned(s, "finishing") /\ job'[s].saw = job[s].saw
  BY <1>1, <1>2, TurnStage DEF Stages
<1>6. QED
  BY <1>1, <1>2, <1>3, <1>4, <1>5, OutcomeInv

LEMMA RecordApplicationInv ==
  ASSUME Inv, NEW s \in Slots, RecordApplication(s)
  PROVE  Inv' /\ OnlyStates
<1> DEFINE e == job[s].on
           c == target[e.of]
           state == IF job[s].saw = c THEN "applied"
                    ELSE IF job[s].saw = plan[c].base THEN "not_applied" ELSE "uncertain"
<1>1. /\ job[s].kind = "reconcile" /\ job[s].stage = "read"
      /\ IF state = "applied" THEN Writes(e, state, CandidateOf(c), "applied") ELSE Write(e, state)
      /\ job' = [job EXCEPT ![s].stage = "finishing", ![s].told = state] /\ lock' = None
      /\ UNCHANGED <<hostUp, att, plan, target, head, moves>> /\ Commit(run, TRUE)
  BY DEF RecordApplication, Write, Writes
<1>2. /\ TypeOK /\ VerifiedOK /\ TargetsOK /\ run \in RunRows /\ JobInv(s) /\ e \in Effects
  BY <1>1, OnEffect DEF Inv, World, TypeOK
<1>3. lock = s /\ Alive(s) /\ e.kind = "application" /\ c \in Candidates /\ Pending(e) /\ ~Open(eff[e])
  BY <1>1, <1>2 DEF JobInv, Stands, Suits, Observes, Unlocked, Alive
<1>4. eff[e].state # "absent" /\ eff[CandidateOf(c)].state # "absent"
  BY <1>2, <1>3, EffectKinds DEF Pending, Active, TargetsOK
<1>5. state = "applied" => Reached(target[e.of])
  BY <1>2, <1>3 DEF JobInv, Saw
<1>6. state \in {"applied", "not_applied", "uncertain"} /\ c = target[e.of]
  OBVIOUS
<1>7. /\ state \in EffectStates /\ state # "absent" /\ state # "verified"
      /\ "applied" \in EffectStates /\ state \in EffectStates \cup {None, "completed"}
  BY <1>6 DEF EffectStates
<1> HIDE DEF state, c
<1>10. run' \in RunRows /\ run'.epoch = run.epoch
  BY <1>1, <1>2, Committed
<1>8. OnlyStates /\ VerifiedOK'
  <2> HIDE DEF e
  <2>1. CASE state = "applied"
    <3>1. Writes(e, state, CandidateOf(c), "applied")
      BY <1>1, <2>1
    <3>2. QED
      BY <1>10, <1>2, <1>3, <1>4, <1>5, <1>7, <3>1, TwoStates
  <2>2. CASE state # "applied"
    <3>1. Write(e, state)
      BY <1>1, <2>2
    <3>2. QED
      BY <1>10, <1>2, <1>3, <1>4, <1>5, <1>7, <3>1, OneState
  <2>3. QED
    BY <2>1, <2>2
<1>9. Turned(s, "finishing") /\ job'[s].saw = job[s].saw
  <2>1. job' = [job EXCEPT ![s].stage = "finishing", ![s].told = state]
    BY <1>1
  <2>2. QED
    BY <1>2, <1>7, <2>1, TurnTold DEF Stages
<1>11. QED
  BY <1>1, <1>2, <1>3, <1>8, <1>9, <1>10, OutcomeInv

-----------------------------------------------------------------------------
(* The judgement of an effect of an earlier owner *)

\* Its process is closed, and it and the candidate of a check are given up.
Judged(e) ==
  /\ eff' \in [Effects -> EffectRows] /\ ~Open(eff'[e])
  /\ \A d \in Effects :
       /\ eff'[d].epoch = eff[d].epoch /\ eff'[d].invoked = eff[d].invoked /\ eff'[d].alive = eff[d].alive
       /\ eff'[d].passed = eff[d].passed
       /\ eff'[d].proc = eff[d].proc \/ (d = e /\ eff[d].proc # "none" /\ eff'[d].proc = "closed")
       /\ eff'[d].state = "absent" <=> eff[d].state = "absent"
       /\ eff[d].epoch # eff[e].epoch => eff'[d] = eff[d]
       /\ d.kind = "application" => eff'[d].state = eff[d].state
       /\ eff'[d].state = "verified" => eff[d].state = "verified"
       /\ eff'[d].state = eff[d].state \/ eff'[d].state \in {"failed", "cancelled", "not_started"}
  /\ \A c \in Candidates, k \in Keys : eff'[CheckOf(c, k)].state # eff[CheckOf(c, k)].state =>
       eff'[CandidateOf(c)].state # "verified"

LEMMA JudgedEffect ==
  ASSUME TypeOK, ChecksOK, NEW e \in Effects, eff' = Abandoned(eff, e)
  PROVE  Judged(e)
<1> DEFINE closed == [eff EXCEPT ![e].proc = IF @ = "none" THEN @ ELSE "closed"]
           cand == CandidateOf(e.of)
           lost == IF eff[e].invoked THEN "cancelled" ELSE "not_started"
<1>0. eff \in [Effects -> EffectRows] /\ eff[e] \in EffectRows
  BY DEF TypeOK
<1>1. /\ closed \in [Effects -> EffectRows] /\ \A d \in Effects : d # e => closed[d] = eff[d]
      /\ closed[e].proc = (IF eff[e].proc = "none" THEN "none" ELSE "closed")
      /\ closed[e].epoch = eff[e].epoch /\ closed[e].invoked = eff[e].invoked
      /\ closed[e].alive = eff[e].alive /\ closed[e].state = eff[e].state /\ closed[e].passed = eff[e].passed
  BY <1>0 DEF EffectRows
<1>2. eff' = IF ~Pending(e) \/ e.kind = "application" THEN closed
             ELSE IF e.kind = "check"
             THEN [closed EXCEPT ![e].state = lost, ![cand].state = IF @ = "applied" THEN @ ELSE "failed"]
             ELSE [closed EXCEPT ![e].state = "failed"]
  BY DEF Abandoned
<1> HIDE DEF closed
<1>3. CASE ~Pending(e) \/ e.kind = "application"
  <2>1. eff' = closed
    BY <1>2, <1>3
  <2>2. \A d \in Effects : eff'[d].state = eff[d].state
    BY <1>1, <2>1
  <2>3. \A c \in Candidates, k \in Keys : eff'[CheckOf(c, k)].state = eff[CheckOf(c, k)].state
    BY <2>2, EffectNames
  <2>4. QED
    BY <1>1, <2>1, <2>2, <2>3 DEF Judged, Open
<1>4. CASE Pending(e) /\ e.kind = "check"
  <2>1. /\ e.of \in Candidates /\ e.key \in Keys /\ e = CheckOf(e.of, e.key) /\ cand \in Effects /\ cand # e
        /\ cand.kind = "candidate"
    BY <1>4, EffectKinds, EffectNames
  <2>2. eff[e].state # "absent"
    BY <1>4 DEF Pending, Active
  <2>3. eff[cand].state # "absent" /\ eff[e].epoch = eff[cand].epoch
    BY <2>1, <2>2 DEF ChecksOK
  <2> DEFINE to == IF eff[cand].state = "applied" THEN eff[cand].state ELSE "failed"
  <2>4. eff' = [closed EXCEPT ![e].state = lost, ![cand].state = IF @ = "applied" THEN @ ELSE "failed"]
    BY <1>2, <1>4
  <2>5. lost \in {"cancelled", "not_started"} /\ to \in {"applied", "failed"} /\ lost \in EffectStates
        /\ to \in EffectStates /\ (to = "applied" => eff[cand].state = "applied")
    BY DEF EffectStates
  <2> HIDE DEF cand, lost
  <2>6. eff'[e] = [closed[e] EXCEPT !.state = lost]
    BY <1>1, <2>1, <2>4
  <2>7. eff'[cand] = [closed[cand] EXCEPT !.state = IF @ = "applied" THEN @ ELSE "failed"]
    BY <1>1, <2>1, <2>4
  <2>8. \A d \in Effects : d # e /\ d # cand => eff'[d] = eff[d]
    BY <1>1, <2>1, <2>4
  <2>9. eff' = [d \in Effects |-> eff'[d]]
    BY <1>1, <2>4
  <2>10. closed[cand] = eff[cand] /\ eff[cand] \in EffectRows /\ closed[e] \in EffectRows
    BY <1>0, <1>1, <2>1
  <2>11. /\ eff'[cand] \in EffectRows /\ eff'[cand].epoch = eff[cand].epoch /\ eff'[cand].invoked = eff[cand].invoked
         /\ eff'[cand].alive = eff[cand].alive /\ eff'[cand].proc = eff[cand].proc /\ eff'[cand].state = to
         /\ eff'[cand].passed = eff[cand].passed
    BY <2>5, <2>7, <2>10 DEF EffectRows
  <2>12. /\ eff'[e] \in EffectRows /\ eff'[e].epoch = eff[e].epoch /\ eff'[e].invoked = eff[e].invoked
         /\ eff'[e].alive = eff[e].alive /\ eff'[e].proc = closed[e].proc /\ eff'[e].state = lost
         /\ eff'[e].passed = eff[e].passed
    BY <1>1, <2>5, <2>6, <2>10 DEF EffectRows
  <2>13. eff' \in [Effects -> EffectRows]
    BY <1>0, <2>8, <2>9, <2>11, <2>12
  <2>14. \A c \in Candidates, k \in Keys : eff'[CheckOf(c, k)].state # eff[CheckOf(c, k)].state =>
           eff'[CandidateOf(c)].state # "verified"
    <3> SUFFICES ASSUME NEW c \in Candidates, NEW k \in Keys, eff'[CheckOf(c, k)].state # eff[CheckOf(c, k)].state
                 PROVE  eff'[CandidateOf(c)].state # "verified"
      OBVIOUS
    <3>1. CheckOf(c, k) \in Effects /\ CheckOf(c, k) # cand /\ CheckOf(c, k).of = c
      BY <2>1, EffectNames
    <3>2. CheckOf(c, k) = e
      BY <2>8, <3>1
    <3>3. CandidateOf(c) = cand
      BY <3>1, <3>2 DEF cand
    <3>4. QED
      BY <2>5, <2>11, <3>3
  <2> HIDE DEF to
  <2>15. /\ ~Open(eff'[e])
         /\ \A d \in Effects :
              /\ eff'[d].epoch = eff[d].epoch /\ eff'[d].invoked = eff[d].invoked /\ eff'[d].alive = eff[d].alive
              /\ eff'[d].passed = eff[d].passed
              /\ eff'[d].proc = eff[d].proc \/ (d = e /\ eff[d].proc # "none" /\ eff'[d].proc = "closed")
    BY <1>1, <2>8, <2>11, <2>12 DEF Open
  <2>16. \A d \in Effects :
           /\ eff'[d].state = "absent" <=> eff[d].state = "absent"
           /\ eff[d].epoch # eff[e].epoch => eff'[d] = eff[d]
           /\ d.kind = "application" => eff'[d].state = eff[d].state
           /\ eff'[d].state = "verified" => eff[d].state = "verified"
           /\ eff'[d].state = eff[d].state \/ eff'[d].state \in {"failed", "cancelled", "not_started"}
    BY <1>4, <2>1, <2>2, <2>3, <2>5, <2>8, <2>11, <2>12
  <2>17. QED
    BY <2>13, <2>14, <2>15, <2>16 DEF Judged
<1>5. CASE Pending(e) /\ e.kind \notin {"check", "application"}
  <2>1. eff' = [closed EXCEPT ![e].state = "failed"] /\ "failed" \in EffectStates
    BY <1>2, <1>5 DEF EffectStates
  <2>2. /\ eff' \in [Effects -> EffectRows] /\ \A d \in Effects : d # e => eff'[d] = eff[d]
        /\ eff'[e].proc = closed[e].proc /\ eff'[e].epoch = eff[e].epoch /\ eff'[e].invoked = eff[e].invoked
        /\ eff'[e].alive = eff[e].alive /\ eff'[e].passed = eff[e].passed /\ eff'[e].state = "failed"
    BY <1>1, <2>1 DEF EffectRows
  <2>3. eff[e].state # "absent"
    BY <1>5, EffectKinds DEF Pending, Active
  <2>4. \A c \in Candidates, k \in Keys : eff'[CheckOf(c, k)].state = eff[CheckOf(c, k)].state
    BY <1>5, <2>2, EffectNames
  <2>5. QED
    BY <1>1, <1>5, <2>2, <2>3, <2>4 DEF Judged, Open
<1>6. QED
  BY <1>3, <1>4, <1>5

LEMMA JudgedWorld ==
  ASSUME Inv, NEW e \in Effects, Judged(e), ~eff[e].alive, UNCHANGED <<hostUp, att, plan, target, lock, head, moves>>,
         job' \in [Slots -> Jobs], run' \in RunRows, run'.epoch = run.epoch
  PROVE  World'
<1> USE DEF Judged
<1>1. TypeOK' /\ Gentle
  BY DEF Inv, World, TypeOK, Gentle
<1>2. RowsOK'
  <2> SUFFICES ASSUME NEW d \in Effects PROVE RowOK(d)'
    BY DEF RowsOK
  <2>1. RowOK(d)
    BY DEF Inv, World, RowsOK
  <2>2. CASE d = e
    BY <2>1, <2>2 DEF RowOK, Open, EffectRows, NoRow
  <2>3. CASE d # e
    BY <2>1, <2>3 DEF RowOK, Open, Pending, EffectRows, NoRow
  <2>4. QED
    BY <2>2, <2>3
<1>3. VerifiedOK'
  <2> SUFFICES ASSUME NEW c \in Candidates, eff'[CandidateOf(c)].state = "verified", NEW k \in Keys
               PROVE  Vouched(c, k)'
    BY DEF VerifiedOK
  <2>1. CandidateOf(c) \in Effects /\ CheckOf(c, k) \in Effects
    BY EffectNames
  <2>2. eff[CandidateOf(c)].state = "verified" /\ eff'[CandidateOf(c)].epoch = eff[CandidateOf(c)].epoch
    BY <2>1
  <2>3. eff'[CheckOf(c, k)].state = eff[CheckOf(c, k)].state /\ eff'[CheckOf(c, k)].passed = eff[CheckOf(c, k)].passed
    BY <2>1
  <2>4. Vouched(c, k)
    BY <2>2 DEF Inv, World, VerifiedOK
  <2>5. QED
    BY <2>2, <2>3, <2>4 DEF Vouched, Passed
<1>4. \A x \in Approvals : eff'[ApplyOf(x)].state = eff[ApplyOf(x)].state
  BY EffectNames
<1>5. QED
  BY <1>1, <1>2, <1>3, <1>4, WorldMoves

\* Threads of the current epoch are about other rows, and what an earlier one
\* still knows of the row stays true of it.
LEMMA JudgedThread ==
  ASSUME Inv, NEW e \in Effects, Judged(e), eff[e].epoch # run.epoch, UNCHANGED <<plan, target, moves>>,
         run'.epoch = run.epoch, NEW t \in Slots, SameThread(t), lock' = lock
  PROVE  JobInv(t)'
<1> USE DEF SameThread, SameJob
<1>0. JobInv(t) /\ TypeOK
  BY DEF Inv, World
<1>1. Suits(t)' /\ Stands(t)' /\ Saw(t)'
  BY <1>0 DEF JobInv, Suits, Stands, Saw, Reached
<1>2. job[t].kind \notin {"settle", "operation"} \/ job[t].stage = "looked" => job[t].on \in Effects
  BY OnEffect
<1>3. Follows(t)'
  <2> SUFFICES ASSUME job[t].stage \in Underway PROVE Follows(t)'
    BY DEF Follows
  <2>1. job[t].on \in Effects
    BY UnderwayFacts
  <2> DEFINE d == job[t].on
  <2>2. /\ eff[d].state # "absent" /\ eff[d].epoch = job[t].epoch
        /\ job[t].epoch = run.epoch => Pending(d)
        /\ job[t].stage = "intended" => eff[d].proc = "none"
        /\ job[t].stage = "launched" => ~eff[d].invoked
        /\ job[t].stage = "returned" => ~Open(eff[d])
    BY <1>0 DEF JobInv, Follows
  <2>3. job[t].epoch = run.epoch => eff'[d] = eff[d]
    BY <2>1, <2>2 DEF Judged
  <2>4. eff'[d].state # "absent" /\ eff'[d].epoch = job[t].epoch /\ eff'[d].invoked = eff[d].invoked
    BY <2>1, <2>2 DEF Judged
  <2>5. eff[d].proc \in {"none", "closed"} => eff'[d].proc = eff[d].proc \/ (eff[d].proc # "none" /\ eff'[d].proc = "closed")
    BY <2>1 DEF Judged
  <2>6. QED
    BY <2>2, <2>3, <2>4, <2>5 DEF Follows, Pending, Open
<1>4. Unbegun(t)'
  BY <1>0, <1>2 DEF JobInv, Unbegun, Judged
<1>5. Observes(t)'
  <2>1. job[t].kind = "reconcile" => job[t].on.kind = "application"
    BY <1>0 DEF JobInv, Suits
  <2>2. job[t].kind = "reconcile" => (Pending(job[t].on)' <=> Pending(job[t].on))
    BY <1>2, <2>1 DEF Judged, Pending
  <2>3. job[t].on \in Effects /\ ~Open(eff[job[t].on]) => ~Open(eff'[job[t].on])
    BY DEF Judged, Open
  <2>4. job[t].on \in Effects =>
          eff'[job[t].on].epoch = eff[job[t].on].epoch /\ eff'[job[t].on].alive = eff[job[t].on].alive
    BY DEF Judged
  <2>5. QED
    BY <1>0, <1>2, <2>2, <2>3, <2>4 DEF JobInv, Observes
<1>6. Approved(t)'
  <2> SUFFICES ASSUME job[t].kind = "apply", job[t].stage \in {"intended", "launched"}, job[t].epoch = run.epoch
               PROVE  eff'[CandidateOf(target[job[t].on.of])] = eff[CandidateOf(target[job[t].on.of])]
    BY <1>0 DEF JobInv, Approved
  <2>1. CandidateOf(target[job[t].on.of]) \in Effects
    BY <1>0, EffectNames DEF JobInv, Suits
  <2>2. eff[CandidateOf(target[job[t].on.of])].epoch = run.epoch
    BY <1>0 DEF JobInv, Approved
  <2>3. QED
    BY <2>1, <2>2 DEF Judged
<1>7. QED
  BY <1>1, <1>3, <1>4, <1>5, <1>6 DEF JobInv

LEMMA ReconcileEffectInv ==
  ASSUME Inv, NEW s \in Slots, ReconcileEffect(s)
  PROVE  Inv'
<1> DEFINE e == job[s].on
           stage == IF job[s].kind = "settle" THEN "finishing" ELSE "inspected"
<1>1. /\ job[s].stage = "looked" /\ run.epoch = job[s].epoch /\ eff[e].epoch < job[s].epoch
      /\ eff' = Abandoned(eff, e)
      /\ UNCHANGED <<hostUp, att, plan, target, lock, head, moves>> /\ Commit(run, TRUE)
  BY DEF ReconcileEffect, Authority
<1>2. /\ TypeOK /\ ChecksOK /\ run \in RunRows /\ JobInv(s) /\ e \in Effects /\ Inv
  BY <1>1, OnEffect DEF Inv, World, TypeOK
<1>3. Judged(e) /\ ~eff[e].alive /\ eff[e].epoch # run.epoch
  BY <1>1, <1>2, JudgedEffect, Numbers DEF JobInv, Observes
<1>4. Turned(s, stage) /\ job'[s].saw = job[s].saw
  <2>1. CASE job[s].kind = "settle"
    BY <1>2, <2>1, TurnTold DEF ReconcileEffect, Stages
  <2>2. CASE job[s].kind # "settle"
    BY <1>2, <2>2, TurnStage DEF ReconcileEffect, Stages
  <2>3. QED
    BY <2>1, <2>2
<1>5. run' \in RunRows /\ run'.epoch = run.epoch
  BY <1>1, <1>2, Committed
<1>6. World'
  <2>1. job' \in [Slots -> Jobs] /\ UNCHANGED <<hostUp, att, plan, target, lock, head, moves>>
    BY <1>1, <1>4 DEF Turned
  <2> HIDE DEF e
  <2>2. QED
    BY <1>2, <1>3, <1>5, <2>1, JudgedWorld
<1>7. ASSUME NEW t \in Slots, t # s PROVE JobInv(t)'
  <2>1. SameThread(t)
    BY <1>4, <1>7 DEF Turned, SameThread, SameJob
  <2>2. UNCHANGED <<plan, target, moves>> /\ lock' = lock
    BY <1>1
  <2> HIDE DEF e
  <2>3. QED
    BY <1>2, <1>3, <1>5, <2>1, <2>2, JudgedThread
<1>8. JobInv(s)'
  <2> USE DEF Turned, SameJob
  <2>1. Suits(s)' /\ Saw(s)'
    BY <1>1, <1>2, <1>4 DEF JobInv, Suits, Saw, Reached
  <2>2. Stands(s)'
    BY <1>1, <1>2, <1>4, <1>5 DEF JobInv, Stands, Underway, Unlocked
  <2>3. Follows(s)' /\ Unbegun(s)' /\ Approved(s)'
    BY <1>4 DEF Follows, Unbegun, Approved, Underway
  <2>4. Observes(s)'
    <3>1. job[s].kind = "reconcile" => Pending(e) /\ e.kind = "application"
      BY <1>1, <1>2 DEF JobInv, Observes, Suits
    <3>2. eff'[e].state = eff[e].state \/ e.kind # "application"
      BY <1>2, <1>3 DEF Judged
    <3>3. ~Open(eff'[e])
      BY <1>3 DEF Judged
    <3>4. QED
      BY <1>4, <3>1, <3>2, <3>3 DEF Observes, Pending
  <2>5. QED
    BY <2>1, <2>2, <2>3, <2>4 DEF JobInv
<1>9. Alone'
  BY <1>1, <1>2, <1>4 DEF Inv, Alone, Works, Alive, Turned, SameJob
<1>10. QED
  BY <1>6, <1>7, <1>8, <1>9 DEF Inv

-----------------------------------------------------------------------------
(* New jobs *)

\* An approval that moved the checkout has had its intent.
LEMMA MovedIsThere ==
  ASSUME Inv, NEW x \in Approvals, moves[x] > 0
  PROVE  eff[ApplyOf(x)].state # "absent"
  BY EffectNames DEF Inv, World, MovedOnce, RowsOK, RowOK, NoRow

LEMMA NewJobFields ==
  ASSUME TypeOK, NEW kind \in Kinds, NEW e \in Effects \cup {NoEffect}, NEW t \in Slots \cup {None},
         NEW row \in {None, "queued"}, NEW stage \in {"queued", "waiting"}
  PROVE  LET j == NewJob(kind, e, t, row, stage) IN
         /\ j \in Jobs /\ j.kind = kind /\ j.on = e /\ j.other = t /\ j.epoch = run.epoch /\ j.row = row
         /\ j.stage = stage /\ j.saw = Root
<1>1. run.epoch \in 0..MaxEpoch
  BY EpochAssumption DEF TypeOK, RunRows, Epochs
<1>2. QED
  BY <1>1 DEF NewJob, NoJob, Jobs, Stages, Unsettled, Commits

\* What a request for an effect may change of plans and approvals.
Extends ==
  /\ \A c \in Candidates : plan[c].members # {} => plan'[c].members # {}
  /\ \A x \in Approvals : /\ target[x] \in Candidates => target'[x] \in Candidates
                          /\ eff[ApplyOf(x)].state # "absent" => target'[x] = target[x]

LEMMA ThreadExtended ==
  ASSUME Inv, Extends, UNCHANGED <<run, eff, lock, moves>>, NEW t \in Slots, job'[t] = job[t]
  PROVE  JobInv(t)'
<1>0. JobInv(t)
  BY DEF Inv
<1>1. job[t].kind \notin {"settle", "operation"} => job[t].on \in Effects
  BY OnEffect
<1>2. Suits(t)'
  <2>1. job[t].kind = "prepare" => job[t].on.of \in Candidates
    BY <1>0, <1>1, EffectKinds DEF JobInv, Suits
  <2>2. job[t].kind \in {"apply", "reconcile"} => job[t].on.of \in Approvals
    BY <1>0, <1>1, EffectKinds DEF JobInv, Suits
  <2>3. QED
    BY <1>0, <2>1, <2>2 DEF JobInv, Suits, Extends
<1>3. Stands(t)' /\ Follows(t)' /\ Unbegun(t)' /\ Observes(t)'
  BY <1>0 DEF JobInv, Stands, Follows, Unbegun, Observes, Pending
<1>4. \A c : Reached(c) => Reached(c)'
  BY MovedIsThere DEF Reached, Extends
<1>5. job[t].kind = "apply" /\ job[t].stage \in Underway => target'[job[t].on.of] = target[job[t].on.of]
  <2> SUFFICES ASSUME job[t].kind = "apply", job[t].stage \in Underway
               PROVE  target'[job[t].on.of] = target[job[t].on.of]
    OBVIOUS
  <2>1. job[t].on.of \in Approvals /\ job[t].on = ApplyOf(job[t].on.of)
    BY <1>0, <1>1, EffectKinds DEF JobInv, Suits
  <2>2. eff[job[t].on].state # "absent"
    BY <1>0 DEF JobInv, Follows
  <2>3. QED
    BY <2>1, <2>2 DEF Extends
<1>6. Approved(t)' /\ Saw(t)'
  BY <1>0, <1>4, <1>5 DEF JobInv, Approved, Saw, Underway
<1>7. QED
  BY <1>2, <1>3, <1>6 DEF JobInv

LEMMA Starts ==
  ASSUME Inv, Extends, UNCHANGED <<run, eff, lock, moves>>, World', NEW s \in Slots, ~Alive(s),
         NEW kind \in Kinds, NEW e \in Effects \cup {NoEffect}, NEW t \in Slots \cup {None},
         NEW row \in {None, "queued"}, NEW stage \in {"queued", "waiting"},
         job' = [job EXCEPT ![s] = NewJob(kind, e, t, row, stage)],
         kind \notin Observations => ~Busy(e),
         stage = "waiting" => kind \in WriterSteps,
         Suits(s)', kind \in {"prepare", "apply"} => eff[e].state = "absent"
  PROVE  Inv'
<1>1. /\ job'[s].kind = kind /\ job'[s].on = e /\ job'[s].epoch = run.epoch /\ job'[s].stage = stage
      /\ job'[s].saw = Root /\ \A u \in Slots : u # s => job'[u] = job[u]
  <2> DEFINE j == NewJob(kind, e, t, row, stage)
  <2>0. TypeOK
    BY DEF Inv, World
  <2>1. j.kind = kind /\ j.on = e /\ j.epoch = run.epoch /\ j.stage = stage /\ j.saw = Root
    BY <2>0, NewJobFields
  <2>2. job \in [Slots -> Jobs] /\ job' = [job EXCEPT ![s] = j]
    BY <2>0 DEF TypeOK
  <2> HIDE DEF j
  <2>3. QED
    BY <2>1, <2>2
<1>2. \A u \in Slots : u # s => JobInv(u)'
  BY <1>1, ThreadExtended
<1>3. run.epoch \in Nat
  BY Numbers DEF Inv, World
<1>4. JobInv(s)'
  <2>1. Stands(s)'
    BY <1>1, <1>3 DEF Stands, Underway, Unlocked, WriterSteps
  <2>2. Follows(s)' /\ Observes(s)' /\ Approved(s)' /\ Unbegun(s)'
    BY <1>1 DEF Follows, Observes, Approved, Unbegun, Underway
  <2>3. Saw(s)'
    BY <1>1, NamesAssumption DEF Saw
  <2>4. QED
    BY <2>1, <2>2, <2>3 DEF JobInv
<1>5. Alone'
  BY <1>1 DEF Inv, Alone, Works, Alive, Busy
<1>6. QED
  BY <1>2, <1>4, <1>5 DEF Inv

LEMMA StartInv ==
  ASSUME Inv, NEW s \in Slots, NEW kind \in WriterSteps, NEW w \in Writers, StartWriterStep(s, kind, w)
  PROVE  Inv'
<1>1. /\ ~Alive(s) /\ ~Busy(WriterOf(w)) /\ att' = [att EXCEPT ![w].state = "running"]
      /\ job' = [job EXCEPT ![s] = NewJob(kind, WriterOf(w), None, None, "waiting")]
      /\ UNCHANGED <<run, hostUp, eff, plan, target, lock, head, moves>>
  BY DEF StartWriterStep, Idle
<1>2. WriterOf(w) \in Effects /\ WriterOf(w).kind = "writer" /\ kind \in Kinds
  BY EffectNames DEF WriterSteps, Kinds
<1>3. TypeOK /\ run \in RunRows
  BY DEF Inv, World, TypeOK
<1>4. job' \in [Slots -> Jobs] /\ job'[s].kind = kind /\ job'[s].on = WriterOf(w)
  <2>1. \A r \in {None, "queued"}, g \in {"queued", "waiting"} :
          LET j == NewJob(kind, WriterOf(w), None, r, g) IN j \in Jobs /\ j.kind = kind /\ j.on = WriterOf(w)
    BY <1>2, <1>3, NewJobFields
  <2>2. QED
    BY <1>1, <1>3, <2>1 DEF TypeOK
<1>5. /\ \A v \in Writers : att'[v].state = "accepted" => att[v].state = "accepted"
      /\ att' \in [Writers -> [state : {"absent", "running", "submitted", "accepted", "failed"}, base : Commits]]
  BY <1>1, <1>3 DEF TypeOK
<1>6. OnlyStates /\ VerifiedOK'
  BY <1>1, NoState
<1>7. World'
  BY <1>1, <1>3, <1>4, <1>5, <1>6, StatesWorld DEF TypeOK
<1>8. Suits(s)'
  BY <1>2, <1>4 DEF Suits, WriterSteps
<1>9. Extends
  BY <1>1 DEF Extends
<1>10. QED
  BY <1>1, <1>2, <1>7, <1>8, <1>9, Starts DEF WriterSteps

LEMMA SubmitInv ==
  ASSUME Inv, NEW s \in Slots, NEW kind \in Kinds \ WriterSteps, NEW e \in Effects \cup {NoEffect},
         NEW t \in Slots \cup {None}, NEW members \in SUBSET Writers, NEW c \in Candidates \cup {None},
         Submit(s, kind, e, t, members, c)
  PROVE  Inv'
<1>1. /\ ~Alive(s) /\ (kind \notin Observations => ~Busy(e)) /\ Valid(kind, e, t)
      /\ job' = [job EXCEPT ![s] = NewJob(kind, e, t, "queued", "queued")]
      /\ UNCHANGED <<run, hostUp, att, eff, lock, head, moves>>
  BY DEF Submit, Idle
<1>2. /\ kind = "prepare" => members # {} /\ plan' = [plan EXCEPT ![e.of].members = members]
      /\ kind # "prepare" => plan' = plan
  BY DEF Submit
<1>3. /\ kind = "apply" => /\ c \in Candidates /\ target[e.of] = None /\ eff[CandidateOf(c)].state = "verified"
                           /\ target' = [target EXCEPT ![e.of] = c]
      /\ kind # "apply" => target' = target
  BY DEF Submit
<1>4. TypeOK /\ run \in RunRows /\ RowsOK /\ TargetsOK /\ None \notin Candidates
  BY NamesAssumption DEF Inv, World, TypeOK
<1>5. kind = "prepare" => e \in Effects /\ e.kind = "candidate" /\ e.of \in Candidates /\ e = CandidateOf(e.of)
                          /\ eff[e].state = "absent"
  BY <1>1, EffectKinds DEF Valid, NoEffect, Effect, None
<1>6. kind = "apply" => e \in Effects /\ e.kind = "application" /\ e.of \in Approvals /\ e = ApplyOf(e.of)
                        /\ eff[e].state = "absent"
  BY <1>1, EffectKinds DEF Valid, NoEffect, Effect, None
<1>7. /\ plan' \in [Candidates -> [members : SUBSET Writers, base : Commits, line : SUBSET Commits]]
      /\ \A d \in Candidates : eff[CandidateOf(d)].state # "absent" => plan'[d] = plan[d]
      /\ \A d \in Candidates : plan[d].members # {} => plan'[d].members # {}
      /\ kind = "prepare" => plan'[e.of].members # {}
  <2>1. CASE kind = "prepare"
    <3> DEFINE m == e.of
    <3>1. m \in Candidates /\ eff[CandidateOf(m)].state = "absent" /\ members # {}
      BY <1>2, <1>5, <2>1
    <3>2. plan' = [plan EXCEPT ![m].members = members]
      BY <1>2, <2>1
    <3>3. plan \in [Candidates -> [members : SUBSET Writers, base : Commits, line : SUBSET Commits]]
      BY <1>4 DEF TypeOK
    <3> HIDE DEF m
    <3>4. /\ plan' \in [Candidates -> [members : SUBSET Writers, base : Commits, line : SUBSET Commits]]
          /\ \A d \in Candidates : d # m => plan'[d] = plan[d]
          /\ plan'[m].members = members
      BY <3>1, <3>2, <3>3
    <3>5. QED
      BY <3>1, <3>4 DEF m
  <2>2. CASE kind # "prepare"
    BY <1>2, <1>4, <2>2 DEF TypeOK
  <2>3. QED
    BY <2>1, <2>2
<1>8. /\ target' \in [Approvals -> Candidates \cup {None}]
      /\ \A x \in Approvals : /\ target[x] \in Candidates => target'[x] = target[x]
                              /\ eff[ApplyOf(x)].state # "absent" => target'[x] = target[x]
                              /\ target'[x] # target[x] => eff[CandidateOf(target'[x])].state = "verified"
      /\ kind = "apply" => target'[e.of] \in Candidates
  <2>1. CASE kind = "apply"
    <3> DEFINE x == e.of
    <3>1. /\ x \in Approvals /\ eff[ApplyOf(x)].state = "absent" /\ target[x] = None
          /\ c \in Candidates /\ eff[CandidateOf(c)].state = "verified"
      BY <1>3, <1>6, <2>1
    <3>2. target' = [target EXCEPT ![x] = c]
      BY <1>3, <2>1
    <3>3. target \in [Approvals -> Candidates \cup {None}]
      BY <1>4 DEF TypeOK
    <3> HIDE DEF x
    <3>4. /\ target' \in [Approvals -> Candidates \cup {None}] /\ target'[x] = c
          /\ \A y \in Approvals : y # x => target'[y] = target[y]
      BY <3>1, <3>2, <3>3
    <3>5. QED
      BY <1>4, <3>1, <3>4 DEF x
  <2>2. CASE kind # "apply"
    BY <1>3, <1>4, <2>2 DEF TypeOK
  <2>3. QED
    BY <2>1, <2>2
<1>9. Extends
  BY <1>7, <1>8 DEF Extends
<1>10. job' \in [Slots -> Jobs] /\ job'[s].kind = kind /\ job'[s].on = e
  <2> DEFINE j == NewJob(kind, e, t, "queued", "queued")
  <2>1. j \in Jobs /\ j.kind = kind /\ j.on = e
    BY <1>4, NewJobFields
  <2> HIDE DEF j
  <2>2. job \in [Slots -> Jobs] /\ job' = [job EXCEPT ![s] = j]
    BY <1>1, <1>4 DEF TypeOK, j
  <2>3. QED
    BY <2>1, <2>2
<1>11. World'
  <2>1. TypeOK'
    BY <1>1, <1>4, <1>7, <1>8, <1>10 DEF TypeOK
  <2>2. RowsOK' /\ ChecksOK' /\ MovedOnce' /\ VerifiedOK'
    BY <1>1 DEF Inv, World, RowsOK, RowOK, Pending, ChecksOK, MovedOnce, VerifiedOK, Vouched
  <2>3. TargetsOK'
    BY <1>1, <1>4, <1>8 DEF TargetsOK
  <2>4. \A x \in Approvals : moves[x] > 0 => target'[x] = target[x]
    BY <1>8, MovedIsThere
  <2>5. HeadOK' /\ AppliedWasThere'
    BY <1>1, <1>8, <2>4 DEF Inv, World, HeadOK, Reached, AppliedWasThere
  <2>6. AcceptedOK'
    <3> SUFFICES ASSUME NEW w \in Writers, att[w].state = "accepted"
                 PROVE  \E x \in Approvals : moves[x] > 0 /\ target'[x] \in Candidates /\ w \in plan'[target'[x]].members
      BY <1>1 DEF AcceptedOK
    <3>1. PICK x \in Approvals : moves[x] > 0 /\ target[x] \in Candidates /\ w \in plan[target[x]].members
      BY DEF Inv, World, AcceptedOK
    <3>2. target'[x] = target[x] /\ plan'[target[x]] = plan[target[x]]
      BY <1>4, <1>7, <2>4, <3>1 DEF TargetsOK
    <3>3. QED
      BY <3>1, <3>2
  <2>7. QED
    BY <2>1, <2>2, <2>3, <2>5, <2>6 DEF World
<1>12. Suits(s)'
  <2>1. kind = "check" => e.kind = "check"
    BY <1>1 DEF Valid
  <2>2. kind = "settle" => e # NoEffect
    BY <1>1 DEF Valid
  <2>3. kind = "reconcile" => e.kind = "application" /\ target'[e.of] \in Candidates
    <3> SUFFICES ASSUME kind = "reconcile" PROVE e.kind = "application" /\ target'[e.of] \in Candidates
      OBVIOUS
    <3>1. e.kind = "application" /\ eff[e].state # "absent"
      BY <1>1 DEF Valid
    <3>2. e \in Effects /\ e.of \in Approvals /\ e = ApplyOf(e.of)
      BY <3>1, EffectKinds DEF NoEffect, Effect, None
    <3>3. QED
      BY <1>4, <1>8, <3>1, <3>2 DEF TargetsOK
  <2>4. QED
    BY <1>5, <1>6, <1>7, <1>8, <1>10, <2>1, <2>2, <2>3 DEF Suits
<1>13. QED
  <2>1. kind \in Kinds /\ (kind \in {"prepare", "apply"} => eff[e].state = "absent")
    BY <1>5, <1>6
  <2>2. UNCHANGED <<run, eff, lock, moves>>
    BY <1>1
  <2>3. QED
    BY <1>1, <1>9, <1>11, <1>12, <2>1, <2>2, Starts

-----------------------------------------------------------------------------
(* The intent of an effect *)

\* What a thread about to record its intent knows.
LEMMA IntendFacts ==
  ASSUME Inv, NEW s \in Slots, NEW state \in EffectStates, Intend(s, state)
  PROVE  LET e == job[s].on IN
         /\ TypeOK /\ run \in RunRows /\ JobInv(s) /\ lock = s /\ Alive(s) /\ e \in Effects /\ Works(s)
         /\ job[s].kind \in {"create", "finalize", "prepare", "check", "apply"} /\ job[s].epoch = run.epoch
         /\ job[s].stage \in {"holding", "read"}
         /\ state \in Active(e.kind)
         /\ job[s].kind \in WriterSteps => e.kind = "writer"
         /\ job[s].kind = "prepare" => /\ e.kind = "candidate" /\ e.of \in Candidates /\ e = CandidateOf(e.of)
                                       /\ eff[e].state = "absent" /\ plan[e.of].members # {}
         /\ job[s].kind = "check" => /\ e.kind = "check" /\ e.of \in Candidates /\ e.key \in Keys
                                     /\ e = CheckOf(e.of, e.key) /\ eff[CandidateOf(e.of)].state # "absent"
                                     /\ eff[CandidateOf(e.of)].epoch = run.epoch
         /\ job[s].kind = "apply" => /\ e.kind = "application" /\ e.of \in Approvals /\ e = ApplyOf(e.of)
                                     /\ eff[e].state = "absent" /\ target[e.of] \in Candidates
                                     /\ eff[CandidateOf(target[e.of])].state = "verified"
                                     /\ eff[CandidateOf(target[e.of])].epoch = run.epoch
<1> DEFINE e == job[s].on
<1>1. /\ job[s].stage \in {"holding", "read"} /\ job[s].kind \notin Observations
      /\ job[s].epoch = run.epoch /\ state \in Active(e.kind)
  BY DEF Intend, Admitting, Authority
<1>2. TypeOK /\ run \in RunRows /\ JobInv(s) /\ e \in Effects
  BY <1>1, OnEffect DEF Inv, World, TypeOK, Observations
<1>3. job[s].kind \in {"create", "finalize", "prepare", "check", "apply"}
  BY <1>1, <1>2 DEF TypeOK, Jobs, Kinds
<1>4. lock = s /\ Alive(s) /\ Works(s)
  BY <1>1, <1>2, <1>3 DEF JobInv, Stands, Unlocked, Works, Alive
<1>5. job[s].kind \in WriterSteps => e.kind = "writer"
  BY <1>2 DEF JobInv, Suits
<1>6. job[s].kind = "prepare" => /\ e.kind = "candidate" /\ e.of \in Candidates /\ e = CandidateOf(e.of)
                                 /\ eff[e].state = "absent" /\ plan[e.of].members # {}
  BY <1>1, <1>2, EffectKinds DEF JobInv, Suits, Unbegun
<1>7. Intendable(s)
  BY DEF Intend
<1>8. job[s].kind = "check" => /\ e.kind = "check" /\ e.of \in Candidates /\ e.key \in Keys
                               /\ e = CheckOf(e.of, e.key) /\ eff[CandidateOf(e.of)].state # "absent"
                               /\ eff[CandidateOf(e.of)].epoch = run.epoch
  <2> SUFFICES ASSUME job[s].kind = "check"
               PROVE  /\ e.kind = "check" /\ e.of \in Candidates /\ e.key \in Keys
                      /\ e = CheckOf(e.of, e.key) /\ eff[CandidateOf(e.of)].state # "absent"
                      /\ eff[CandidateOf(e.of)].epoch = run.epoch
    OBVIOUS
  <2>1. e.kind = "check" /\ e.of \in Candidates /\ e.key \in Keys /\ e = CheckOf(e.of, e.key)
    BY <1>2, EffectKinds DEF JobInv, Suits
  <2>2. eff[CandidateOf(e.of)].state \in {"ready", "failed", "verified"} /\ eff[CandidateOf(e.of)].epoch = job[s].epoch
    BY <1>7 DEF Intendable
  <2>3. QED
    BY <1>1, <2>1, <2>2
<1>9. job[s].kind = "apply" => /\ e.kind = "application" /\ e.of \in Approvals /\ e = ApplyOf(e.of)
                               /\ eff[e].state = "absent" /\ target[e.of] \in Candidates
                               /\ eff[CandidateOf(target[e.of])].state = "verified"
                               /\ eff[CandidateOf(target[e.of])].epoch = run.epoch
  <2> SUFFICES ASSUME job[s].kind = "apply"
               PROVE  /\ e.kind = "application" /\ e.of \in Approvals /\ e = ApplyOf(e.of)
                      /\ eff[e].state = "absent" /\ target[e.of] \in Candidates
                      /\ eff[CandidateOf(target[e.of])].state = "verified"
                      /\ eff[CandidateOf(target[e.of])].epoch = run.epoch
    OBVIOUS
  <2>1. /\ e.kind = "application" /\ e.of \in Approvals /\ e = ApplyOf(e.of) /\ target[e.of] \in Candidates
        /\ eff[e].state = "absent"
    BY <1>1, <1>2, EffectKinds DEF JobInv, Suits, Unbegun
  <2>2. eff[CandidateOf(target[e.of])].state = "verified" /\ eff[CandidateOf(target[e.of])].epoch = job[s].epoch
    BY <1>7 DEF Intendable
  <2>3. QED
    BY <1>1, <2>1, <2>2
<1>10. QED
  BY <1>1, <1>2, <1>3, <1>4, <1>5, <1>6, <1>8, <1>9

LEMMA IntendTables ==
  ASSUME Inv, NEW s \in Slots, NEW state \in EffectStates, Intend(s, state)
  PROVE  LET e == job[s].on IN
         /\ eff' \in [Effects -> EffectRows] /\ \A d \in Effects : d # e => eff'[d] = eff[d]
         /\ eff'[e].state = state /\ eff'[e].epoch = run.epoch /\ eff'[e].proc = "none"
         /\ ~eff'[e].invoked /\ ~eff'[e].alive /\ eff'[e].passed = Passed(eff[e])
         /\ att' \in [Writers -> [state : {"absent", "running", "submitted", "accepted", "failed"}, base : Commits]]
         /\ \A w \in Writers : att'[w].state = att[w].state
         /\ plan' \in [Candidates -> [members : SUBSET Writers, base : Commits, line : SUBSET Commits]]
         /\ \A c \in Candidates : plan'[c].members = plan[c].members
<1> DEFINE e == job[s].on
<1>0. /\ TypeOK /\ run \in RunRows /\ e \in Effects /\ job[s].epoch = run.epoch
      /\ job[s].kind = "prepare" => e.of \in Candidates /\ plan[e.of].members # {}
  BY IntendFacts
<1>1. eff' = [eff EXCEPT ![e] = [NoRow EXCEPT !.state = state, !.epoch = job[s].epoch, !.passed = Passed(eff[e])]]
  BY DEF Intend
<1>2. /\ eff' \in [Effects -> EffectRows] /\ \A d \in Effects : d # e => eff'[d] = eff[d]
      /\ eff'[e].state = state /\ eff'[e].epoch = run.epoch /\ eff'[e].proc = "none"
      /\ ~eff'[e].invoked /\ ~eff'[e].alive /\ eff'[e].passed = Passed(eff[e])
  <2> DEFINE last == Passed(eff[e])
             row == [NoRow EXCEPT !.state = state, !.epoch = job[s].epoch, !.passed = last]
  <2>0. last \in BOOLEAN
    BY DEF Passed
  <2> HIDE DEF last
  <2>1. run.epoch \in 0..MaxEpoch /\ eff \in [Effects -> EffectRows]
    BY <1>0, EpochAssumption DEF RunRows, Epochs, TypeOK
  <2>2. /\ row \in EffectRows /\ row.state = state /\ row.epoch = run.epoch /\ row.proc = "none"
        /\ ~row.invoked /\ ~row.alive /\ row.passed = last
    BY <1>0, <2>0, <2>1 DEF NoRow, EffectRows
  <2>3. eff' = [eff EXCEPT ![e] = row]
    BY <1>1 DEF last
  <2> HIDE DEF row
  <2>4. /\ eff' \in [Effects -> EffectRows] /\ \A d \in Effects : d # e => eff'[d] = eff[d]
        /\ eff'[e] = row
    BY <1>0, <2>1, <2>2, <2>3
  <2>5. eff'[e].passed = last
    BY <2>2, <2>4
  <2>6. QED
    BY <2>2, <2>4, <2>5 DEF last
<1>3. /\ att' \in [Writers -> [state : {"absent", "running", "submitted", "accepted", "failed"}, base : Commits]]
      /\ \A w \in Writers : att'[w].state = att[w].state
  <2> DEFINE w == e.of
             Attempts == [state : {"absent", "running", "submitted", "accepted", "failed"}, base : Commits]
  <2>1. att' = att \/ att' = [att EXCEPT ![w].base = head]
    BY DEF Intend
  <2>2. att \in [Writers -> Attempts] /\ head \in Commits
    BY <1>0 DEF TypeOK
  <2> HIDE DEF w
  <2>3. CASE att' = att
    BY <2>2, <2>3
  <2>4. CASE att' = [att EXCEPT ![w].base = head]
    BY <2>2, <2>4
  <2>5. QED
    BY <2>1, <2>3, <2>4
<1>4. /\ plan' \in [Candidates -> [members : SUBSET Writers, base : Commits, line : SUBSET Commits]]
      /\ \A c \in Candidates : plan'[c].members = plan[c].members
  <2>1. CASE job[s].kind # "prepare"
    BY <1>0, <2>1 DEF Intend, TypeOK
  <2>2. CASE job[s].kind = "prepare"
    <3> DEFINE m == e.of
               v == CHOOSE w \in plan[m].members : TRUE
               base == att[v].base
               line == {base} \cup IF base \in Candidates THEN plan[base].line ELSE {}
    <3>1. plan' = [plan EXCEPT ![m].base = base, ![m].line = line]
      BY <2>2 DEF Intend
    <3>2. m \in Candidates /\ v \in plan[m].members
      BY <1>0, <2>2
    <3>3. plan \in [Candidates -> [members : SUBSET Writers, base : Commits, line : SUBSET Commits]]
      BY <1>0 DEF TypeOK
    <3>4. v \in Writers
      BY <3>2, <3>3
    <3>5. base \in Commits
      BY <1>0, <3>4 DEF TypeOK
    <3>6. line \in SUBSET Commits
      BY <3>3, <3>5
    <3> HIDE DEF m, base, line
    <3>7. QED
      BY <3>1, <3>2, <3>3, <3>5, <3>6
  <2>3. QED
    BY <2>1, <2>2
<1>5. QED
  BY <1>2, <1>3, <1>4

LEMMA IntendWorld ==
  ASSUME Inv, NEW s \in Slots, NEW state \in EffectStates, Intend(s, state)
  PROVE  World' /\ Gentle
<1> DEFINE e == job[s].on
<1>1. /\ eff' \in [Effects -> EffectRows] /\ \A d \in Effects : d # e => eff'[d] = eff[d]
      /\ eff'[e].state = state /\ eff'[e].epoch = run.epoch /\ eff'[e].proc = "none"
      /\ ~eff'[e].invoked /\ ~eff'[e].alive /\ eff'[e].passed = Passed(eff[e])
      /\ att' \in [Writers -> [state : {"absent", "running", "submitted", "accepted", "failed"}, base : Commits]]
      /\ \A w \in Writers : att'[w].state = att[w].state
      /\ plan' \in [Candidates -> [members : SUBSET Writers, base : Commits, line : SUBSET Commits]]
      /\ \A c \in Candidates : plan'[c].members = plan[c].members
  BY IntendTables
<1>2. /\ TypeOK /\ run \in RunRows /\ e \in Effects /\ state \in Active(e.kind)
      /\ job[s].kind \in {"create", "finalize", "prepare", "check", "apply"}
      /\ job[s].kind \in WriterSteps => e.kind = "writer"
  BY IntendFacts
<1>3. job[s].kind = "prepare" => /\ e.kind = "candidate" /\ e.of \in Candidates /\ e = CandidateOf(e.of)
                                 /\ eff[e].state = "absent"
  BY IntendFacts
<1>4. job[s].kind = "check" => /\ e.kind = "check" /\ e.of \in Candidates /\ e.key \in Keys
                               /\ e = CheckOf(e.of, e.key) /\ eff[CandidateOf(e.of)].state # "absent"
                               /\ eff[CandidateOf(e.of)].epoch = run.epoch
  BY IntendFacts
<1>5. job[s].kind = "apply" => /\ e.kind = "application" /\ e.of \in Approvals /\ e = ApplyOf(e.of)
                               /\ eff[e].state = "absent" /\ target[e.of] \in Candidates
                               /\ eff[CandidateOf(target[e.of])].state = "verified"
  BY IntendFacts
<1>6. UNCHANGED <<run, hostUp, target, lock, head, moves>> /\ job' = [job EXCEPT ![s].stage = "intended", ![s].made = TRUE]
  BY DEF Intend
<1>7. run.epoch \in Nat /\ RowsOK /\ ChecksOK /\ TargetsOK /\ VerifiedOK /\ MovedOnce /\ AppliedWasThere
  BY Numbers DEF Inv, World
<1>8. /\ e.kind = CASE job[s].kind = "prepare" -> "candidate"
                    [] job[s].kind = "check" -> "check"
                    [] job[s].kind = "apply" -> "application"
                    [] OTHER -> "writer"
      /\ state # "absent" /\ state # "verified" /\ state # "applied"
      /\ e.kind = "check" => state = "running"
  <2>1. e.kind = CASE job[s].kind = "prepare" -> "candidate"
                    [] job[s].kind = "check" -> "check"
                    [] job[s].kind = "apply" -> "application"
                    [] OTHER -> "writer"
    BY <1>2, <1>3, <1>4, <1>5 DEF WriterSteps
  <2>2. e.kind \in {"writer", "candidate", "check", "application"}
    BY <1>2, EffectKinds
  <2>3. QED
    BY <1>2, <2>1, <2>2 DEF Active
<1>9. e.kind = "candidate" => job[s].kind = "prepare"
  BY <1>2, <1>8
<1>10. e.kind = "check" => job[s].kind = "check"
  BY <1>2, <1>8
<1>11. e.kind = "application" => job[s].kind = "apply"
  BY <1>2, <1>8
<1> HIDE DEF e
<1>12. TypeOK'
  <2>1. job' \in [Slots -> Jobs]
    BY <1>2, <1>6, TurnMade DEF Turned, Stages
  <2>2. QED
    BY <1>1, <1>2, <1>6, <2>1 DEF TypeOK
<1>13. RowsOK'
  <2> SUFFICES ASSUME NEW d \in Effects PROVE RowOK(d)'
    BY DEF RowsOK
  <2>1. CASE d = e
    BY <1>1, <1>2, <1>6, <1>7, <1>8, <2>1 DEF RowOK, Pending, Open
  <2>2. CASE d # e
    BY <1>1, <1>6, <1>7, <2>2 DEF RowsOK, RowOK, Pending, Open
  <2>3. QED
    BY <2>1, <2>2
<1>14. ChecksOK'
  <2> SUFFICES ASSUME NEW c \in Candidates, NEW k \in Keys, eff'[CheckOf(c, k)].state # "absent"
               PROVE  eff'[CandidateOf(c)].state # "absent" /\ eff'[CheckOf(c, k)].epoch = eff'[CandidateOf(c)].epoch
    BY DEF ChecksOK
  <2>0. /\ CheckOf(c, k) \in Effects /\ CheckOf(c, k).kind = "check" /\ CheckOf(c, k).of = c
        /\ CandidateOf(c) \in Effects /\ CandidateOf(c).kind = "candidate"
    BY EffectNames
  <2>1. CASE e = CheckOf(c, k)
    <3>1. CandidateOf(c) # e /\ e.of = c /\ e.kind = "check"
      BY <2>0, <2>1
    <3>2. QED
      BY <1>1, <1>4, <1>10, <2>0, <2>1, <3>1
  <2>2. CASE e = CandidateOf(c)
    <3>1. CheckOf(c, k) # e /\ eff[e].state = "absent"
      BY <1>3, <1>9, <2>0, <2>2
    <3>2. eff[CheckOf(c, k)].state # "absent"
      BY <1>1, <2>0, <3>1
    <3>3. QED
      BY <1>7, <2>2, <3>1, <3>2 DEF ChecksOK
  <2>3. CASE e # CheckOf(c, k) /\ e # CandidateOf(c)
    BY <1>1, <1>7, <2>0, <2>3 DEF ChecksOK
  <2>4. QED
    BY <2>1, <2>2, <2>3
<1>15. TargetsOK'
  <2> SUFFICES ASSUME NEW x \in Approvals
               PROVE  /\ target[x] \in Candidates => eff'[CandidateOf(target[x])].state # "absent"
                      /\ eff'[ApplyOf(x)].state # "absent" => target[x] \in Candidates
    BY <1>6 DEF TargetsOK
  <2>1. target[x] \in Candidates => eff'[CandidateOf(target[x])].state # "absent"
    BY <1>1, <1>7, <1>8, EffectNames DEF TargetsOK
  <2>2. eff'[ApplyOf(x)].state # "absent" => target[x] \in Candidates
    BY <1>1, <1>5, <1>7, <1>11, EffectNames DEF TargetsOK
  <2>3. QED
    BY <2>1, <2>2
<1>16. HeadOK' /\ AppliedWasThere' /\ AcceptedOK'
  <2>1. HeadOK' /\ AcceptedOK'
    BY <1>1, <1>6 DEF Inv, World, HeadOK, Reached, AcceptedOK
  <2>2. \A x \in Approvals : eff'[ApplyOf(x)].state = "applied" => eff[ApplyOf(x)].state = "applied"
    BY <1>1, <1>8, EffectNames
  <2>3. QED
    BY <1>6, <1>7, <2>1, <2>2 DEF AppliedWasThere
<1>17. MovedOnce'
  <2> SUFFICES ASSUME NEW x \in Approvals, moves[x] > 0 PROVE eff'[ApplyOf(x)] = eff[ApplyOf(x)]
    BY <1>6, <1>7 DEF MovedOnce
  <2>1. ApplyOf(x) # e
    BY <1>5, <1>11, MovedIsThere, EffectNames
  <2>2. QED
    BY <1>1, <2>1, EffectNames
<1>18. VerifiedOK'
  <2> SUFFICES ASSUME NEW c \in Candidates, NEW k \in Keys, eff'[CandidateOf(c)].state = "verified"
               PROVE  Vouched(c, k)'
    BY DEF VerifiedOK
  <2>0. /\ CheckOf(c, k) \in Effects /\ CheckOf(c, k).kind = "check" /\ CheckOf(c, k).of = c
        /\ CandidateOf(c) \in Effects
    BY EffectNames
  <2>1. CandidateOf(c) # e /\ eff[CandidateOf(c)].state = "verified"
    BY <1>1, <1>8, <2>0
  <2>2. Vouched(c, k) /\ eff'[CandidateOf(c)] = eff[CandidateOf(c)]
    BY <1>1, <1>7, <2>0, <2>1 DEF VerifiedOK
  <2>3. CASE e = CheckOf(c, k)
    <3>1. eff[CandidateOf(c)].epoch = run.epoch /\ eff'[e].state = "running"
      BY <1>1, <1>4, <1>8, <1>10, <2>0, <2>3
    <3>2. Passed(eff[e])
      BY <1>7, <2>2, <2>3, <3>1 DEF Vouched
    <3>3. eff'[e].passed
      BY <1>1, <3>2
    <3>4. QED
      BY <2>3, <3>1, <3>3 DEF Vouched, Passed
  <2>4. CASE e # CheckOf(c, k)
    <3>1. eff'[CheckOf(c, k)] = eff[CheckOf(c, k)] /\ run' = run
      BY <1>1, <1>6, <2>0, <2>4
    <3>2. QED
      BY <2>2, <3>1 DEF Vouched
  <2>5. QED
    BY <2>3, <2>4
<1>19. Gentle
  BY <1>1, <1>2, <1>6 DEF Gentle
<1>20. QED
  BY <1>12, <1>13, <1>14, <1>15, <1>16, <1>17, <1>18, <1>19 DEF World

LEMMA IntendInv ==
  ASSUME Inv, NEW s \in Slots, NEW state \in EffectStates, Intend(s, state)
  PROVE  Inv'
<1> DEFINE e == job[s].on
<1>1. World' /\ Gentle
  BY IntendWorld
<1>2. /\ \A d \in Effects : d # e => eff'[d] = eff[d]
      /\ eff'[e].state = state /\ eff'[e].epoch = run.epoch /\ eff'[e].proc = "none"
  BY IntendTables
<1>3. /\ TypeOK /\ run \in RunRows /\ JobInv(s) /\ lock = s /\ Alive(s) /\ e \in Effects /\ Works(s)
      /\ job[s].kind \in {"create", "finalize", "prepare", "check", "apply"} /\ job[s].epoch = run.epoch
      /\ state \in Active(e.kind)
  BY IntendFacts
<1>4. job[s].kind = "apply" => /\ e.kind = "application" /\ target[e.of] \in Candidates
                               /\ eff[CandidateOf(target[e.of])].state = "verified"
                               /\ eff[CandidateOf(target[e.of])].epoch = run.epoch
  BY IntendFacts
<1>5. /\ UNCHANGED <<run, hostUp, target, lock, head, moves>>
      /\ job' = [job EXCEPT ![s].stage = "intended", ![s].made = TRUE]
  BY DEF Intend
<1>6. Turned(s, "intended") /\ job'[s].saw = job[s].saw
  BY <1>3, <1>5, TurnMade DEF Stages
<1>7. JobInv(s)'
  <2> USE DEF Turned, SameJob
  <2>1. Suits(s)'
    <3>1. job[s].kind = "prepare" => e.of \in Candidates
      BY IntendFacts
    <3>2. QED
      BY <1>1, <1>3, <1>5, <1>6, <3>1 DEF JobInv, Suits, Gentle
  <2>2. Stands(s)'
    BY <1>3, <1>5, <1>6 DEF JobInv, Stands, Underway, Observations
  <2>3. Follows(s)'
    <3>1. state # "absent" /\ state \in Active(e.kind) \cup {"uncertain"}
      BY <1>3, EffectKinds DEF Active
    <3>2. QED
      BY <1>2, <1>3, <1>5, <1>6, <3>1 DEF Follows, Pending, Underway
  <2>4. Unbegun(s)' /\ Observes(s)'
    BY <1>6 DEF Unbegun, Observes
  <2>5. Approved(s)'
    <3>1. job[s].kind = "apply" => eff'[CandidateOf(target[e.of])] = eff[CandidateOf(target[e.of])]
      BY <1>2, <1>4, EffectNames
    <3>2. QED
      BY <1>3, <1>4, <1>5, <1>6, <3>1 DEF Approved
  <2>6. Saw(s)'
    BY <1>3, <1>5, <1>6 DEF JobInv, Saw, Reached
  <2>7. QED
    BY <2>1, <2>2, <2>3, <2>4, <2>5, <2>6 DEF JobInv
<1>8. \A d \in Effects : eff[d].state = "absent" /\ eff'[d].state # "absent" => d = e /\ Works(s)
  BY <1>2, <1>3
<1>9. QED
  BY <1>1, <1>3, <1>6, <1>7, <1>8, HolderTurns DEF Stages

-----------------------------------------------------------------------------
(* Decisions on results and on the run *)

\* Steps that touch no effect and no thread.
LEMMA OutsideInv ==
  ASSUME Inv, Same, UNCHANGED <<hostUp, job, lock>>, head' \in Commits, HeadOK', AcceptedOK',
         att' \in [Writers -> [state : {"absent", "running", "submitted", "accepted", "failed"}, base : Commits]]
  PROVE  Inv'
<1> USE DEF Same
<1>1. TypeOK'
  BY DEF Inv, World, TypeOK
<1>2. RowsOK' /\ ChecksOK' /\ TargetsOK' /\ VerifiedOK' /\ AppliedWasThere' /\ MovedOnce'
  BY DEF Inv, World, RowsOK, RowOK, ChecksOK, TargetsOK, VerifiedOK, Vouched, Pending, AppliedWasThere, MovedOnce
<1>3. \A t \in Slots : JobInv(t)'
  BY ThreadKept DEF SameThread, SameJob
<1>4. Alone'
  BY DEF Inv, Alone, Works, Alive
<1>5. QED
  BY <1>1, <1>2, <1>3, <1>4 DEF Inv, World

LEMMA AttemptInv ==
  ASSUME Inv, NEW w \in Writers, NEW state \in {"submitted", "failed", "accepted"},
         att' = [att EXCEPT ![w].state = state], UNCHANGED Rows, Commit(run, TRUE),
         state = "accepted" => \E x \in Approvals : /\ moves[x] > 0 /\ target[x] \in Candidates
                                                    /\ w \in plan[target[x]].members
  PROVE  Inv'
<1>0. TypeOK /\ run \in RunRows /\ AcceptedOK /\ HeadOK
  BY DEF Inv, World, TypeOK
<1>1. UNCHANGED <<hostUp, eff, plan, target, job, lock, head, moves>>
  BY DEF Rows
<1>2. /\ att' \in [Writers -> [state : {"absent", "running", "submitted", "accepted", "failed"}, base : Commits]]
      /\ \A v \in Writers : v # w => att'[v] = att[v]
      /\ att'[w].state = state
  BY <1>0 DEF TypeOK
<1>3. Same
  BY <1>0, <1>1, Committed DEF Same
<1>4. AcceptedOK'
  BY <1>0, <1>1, <1>2 DEF AcceptedOK
<1>5. HeadOK' /\ head' \in Commits
  BY <1>0, <1>1 DEF HeadOK, Reached, TypeOK
<1>6. QED
  BY <1>1, <1>2, <1>3, <1>4, <1>5, OutsideInv

LEMMA DecisionSteps ==
  ASSUME Inv, NEW w \in Writers,
         SubmitResult(w) \/ AttemptFails(w) \/ \E c \in Candidates : AcceptWriter(w, c)
  PROVE  Inv'
<1>1. CASE SubmitResult(w)
  BY <1>1, AttemptInv DEF SubmitResult
<1>2. CASE AttemptFails(w)
  BY <1>2, AttemptInv DEF AttemptFails
<1>3. ASSUME NEW c \in Candidates, AcceptWriter(w, c) PROVE Inv'
  <2>1. /\ att' = [att EXCEPT ![w].state = "accepted"] /\ UNCHANGED Rows /\ Commit(run, TRUE)
        /\ AcceptanceBinding(w, c)
    BY <1>3 DEF AcceptWriter
  <2>2. w \in plan[c].members /\ \E e \in ApplicationsOf(c) : eff[e].state = "applied"
    BY <2>1 DEF AcceptanceBinding
  <2>3. PICK x \in Approvals : target[x] = c /\ eff[ApplyOf(x)].state = "applied"
    BY <2>2 DEF ApplicationsOf
  <2>4. PICK y \in Approvals : target[y] = c /\ moves[y] > 0
    BY <2>3 DEF Inv, World, AppliedWasThere
  <2>5. QED
    BY <2>1, <2>2, <2>4, AttemptInv
<1>4. QED
  BY <1>1, <1>2, <1>3

LEMMA ControlInv ==
  ASSUME Inv, NEW rn \in RunRows, rn.epoch = run.epoch, Control(rn)
  PROVE  Inv'
<1>0. TypeOK /\ AcceptedOK /\ HeadOK
  BY DEF Inv, World
<1>1. UNCHANGED <<hostUp, att, eff, plan, target, job, lock, head, moves>> /\ Commit(rn, TRUE)
  BY DEF Control, Rows
<1>2. Same
  BY <1>1, Committed DEF Same
<1>3. AcceptedOK' /\ HeadOK' /\ head' \in Commits /\ att' = att
  BY <1>0, <1>1 DEF AcceptedOK, HeadOK, Reached, TypeOK
<1>4. QED
  BY <1>0, <1>1, <1>2, <1>3, OutsideInv DEF TypeOK

\* The run row a command asks for.
LEMMA ControlRow ==
  ASSUME run \in RunRows, Pause \/ Resume \/ Stop \/ Complete \/ Recover
  PROVE  \E rn \in RunRows : rn.epoch = run.epoch /\ Control(rn)
<1> USE DEF RunRows, Terminal
<1>1. CASE Pause
  <2>1. [run EXCEPT !.state = "pausing"] \in RunRows
    OBVIOUS
  <2>2. QED
    BY <1>1, <2>1 DEF Pause
<1>2. CASE Resume
  <2>1. [run EXCEPT !.state = "running"] \in RunRows
    OBVIOUS
  <2>2. QED
    BY <1>2, <2>1 DEF Resume
<1>3. CASE Stop
  <2> DEFINE rn == [run EXCEPT !.stop = TRUE, !.state = IF @ = "recovery_required" THEN @ ELSE "stopping"]
  <2>1. rn \in RunRows /\ rn.epoch = run.epoch
    OBVIOUS
  <2>2. Control(rn)
    BY <1>3 DEF Stop
  <2> HIDE DEF rn
  <2>3. QED
    BY <2>1, <2>2
<1>4. CASE Complete
  <2>1. [run EXCEPT !.state = "completed"] \in RunRows
    OBVIOUS
  <2>2. QED
    BY <1>4, <2>1 DEF Complete
<1>5. CASE Recover
  <2> DEFINE rn == [run EXCEPT !.state = IF run.stop THEN "cancelled" ELSE "running"]
  <2>1. rn \in RunRows /\ rn.epoch = run.epoch
    OBVIOUS
  <2>2. Control(rn)
    BY <1>5 DEF Recover
  <2> HIDE DEF rn
  <2>3. QED
    BY <2>1, <2>2
<1>6. QED
  BY <1>1, <1>2, <1>3, <1>4, <1>5

\* A result goes back for repair only when nobody is busy with its candidates.
LEMMA RejectRows ==
  ASSUME Inv, NEW w \in Writers, Reject(w)
  PROVE  /\ eff' \in [Effects -> EffectRows]
         /\ \A d \in Effects :
              \/ eff'[d] = eff[d]
              \/ /\ d.kind = "candidate" /\ ~Pending(d) /\ eff[d].state # "absent"
                 /\ eff'[d] = [eff[d] EXCEPT !.state = "superseded"]
                 /\ \A x \in Approvals : target[x] = d.of => ~Pending(ApplyOf(x))
<1>0. eff \in [Effects -> EffectRows]
  BY DEF Inv, World, TypeOK
<1>1. eff' = [e \in Effects |-> IF e.kind = "candidate" /\ e.of \in WithWriter(w)
                                THEN [eff[e] EXCEPT !.state = "superseded"] ELSE eff[e]]
  BY DEF Reject
<1>2. ASSUME NEW d \in Effects, d.kind = "candidate", d.of \in WithWriter(w)
      PROVE  /\ ~Pending(d) /\ eff[d].state # "absent"
             /\ \A x \in Approvals : target[x] = d.of => ~Pending(ApplyOf(x))
  <2>1. ~Unquiet(d.of) /\ d = CandidateOf(d.of) /\ eff[CandidateOf(d.of)].state # "absent"
    BY <1>2, EffectKinds DEF Reject, WithWriter
  <2>2. ~EffectUnresolved(eff, CandidateOf(d.of))
    BY <2>1 DEF Unquiet
  <2>3. ASSUME NEW x \in Approvals, target[x] = d.of PROVE ~EffectUnresolved(eff, ApplyOf(x))
    <3>1. ApplyOf(x) \in ApplicationsOf(d.of)
      BY <2>3 DEF ApplicationsOf
    <3>2. QED
      BY <2>1, <3>1 DEF Unquiet
  <2>4. QED
    BY <2>1, <2>2, <2>3 DEF EffectUnresolved, Pending
<1>3. ASSUME NEW d \in Effects PROVE [eff[d] EXCEPT !.state = "superseded"] \in EffectRows
  <2>1. eff[d] \in EffectRows /\ "superseded" \in EffectStates
    BY <1>0 DEF EffectStates
  <2>2. QED
    BY <2>1 DEF EffectRows
<1>4. QED
  BY <1>0, <1>1, <1>2, <1>3

LEMMA RejectInv ==
  ASSUME Inv, NEW w \in Writers, Reject(w)
  PROVE  Inv' /\ OnlyStates
<1>0. TypeOK /\ run \in RunRows /\ AppliedWasThere /\ VerifiedOK
  BY DEF Inv, World, TypeOK
<1>1. /\ att' = [att EXCEPT ![w].state = "failed"]
      /\ UNCHANGED <<hostUp, plan, target, job, lock, head, moves>> /\ Commit(run, TRUE)
  BY DEF Reject
<1>2. run' \in RunRows /\ run'.epoch = run.epoch
  BY <1>0, <1>1, Committed
<1>3. /\ att' \in [Writers -> [state : {"absent", "running", "submitted", "accepted", "failed"}, base : Commits]]
      /\ \A v \in Writers : att'[v].state = "accepted" => att[v].state = "accepted"
  BY <1>0, <1>1 DEF TypeOK
<1>4. /\ eff' \in [Effects -> EffectRows]
      /\ \A d \in Effects :
           /\ eff'[d].epoch = eff[d].epoch /\ eff'[d].proc = eff[d].proc
           /\ eff'[d].invoked = eff[d].invoked /\ eff'[d].alive = eff[d].alive /\ eff'[d].passed = eff[d].passed
           /\ eff'[d] = eff[d] \/ (d.kind = "candidate" /\ ~Pending(d) /\ eff[d].state # "absent"
                                   /\ eff'[d].state = "superseded")
  <2>1. eff' \in [Effects -> EffectRows]
    BY RejectRows
  <2>2. ASSUME NEW d \in Effects
        PROVE  /\ eff'[d].epoch = eff[d].epoch /\ eff'[d].proc = eff[d].proc
               /\ eff'[d].invoked = eff[d].invoked /\ eff'[d].alive = eff[d].alive
               /\ eff'[d].passed = eff[d].passed
               /\ eff'[d] = eff[d] \/ (d.kind = "candidate" /\ ~Pending(d) /\ eff[d].state # "absent"
                                       /\ eff'[d].state = "superseded")
    <3>1. \/ eff'[d] = eff[d]
          \/ /\ d.kind = "candidate" /\ ~Pending(d) /\ eff[d].state # "absent"
             /\ eff'[d] = [eff[d] EXCEPT !.state = "superseded"]
      BY RejectRows
    <3>2. eff[d] \in EffectRows
      BY <1>0 DEF TypeOK
    <3>3. QED
      BY <3>1, <3>2 DEF EffectRows
  <2>3. QED
    BY <2>1, <2>2
<1>5. OnlyStates
  <2>1. \A x \in Approvals : eff'[ApplyOf(x)].state = "applied" => eff[ApplyOf(x)].state = "applied"
    BY <1>4, EffectNames
  <2>2. QED
    BY <1>4, <2>1 DEF OnlyStates
<1>6. VerifiedOK'
  <2>1. \A c \in Candidates, k \in Keys : eff'[CheckOf(c, k)] = eff[CheckOf(c, k)]
    BY <1>4, EffectNames
  <2>2. \A c \in Candidates : /\ eff'[CandidateOf(c)].epoch = eff[CandidateOf(c)].epoch
                              /\ eff'[CandidateOf(c)].state = "verified" => eff[CandidateOf(c)].state = "verified"
    BY <1>4, EffectNames
  <2>3. ASSUME NEW c \in Candidates, NEW k \in Keys, eff'[CandidateOf(c)].state = "verified"
        PROVE  Vouched(c, k)'
    <3>1. Vouched(c, k)
      BY <1>0, <2>2, <2>3 DEF VerifiedOK
    <3>2. QED
      BY <1>2, <2>1, <2>2, <3>1 DEF Vouched, Passed
  <2>4. QED
    BY <2>3 DEF VerifiedOK
<1>7. World'
  BY <1>0, <1>1, <1>2, <1>3, <1>5, <1>6, StatesWorld DEF TypeOK
<1>8. ASSUME NEW t \in Slots PROVE JobInv(t)'
  <2>0. JobInv(t)
    BY DEF Inv
  <2>1. Suits(t)' /\ Stands(t)' /\ Saw(t)'
    BY <1>1, <1>2, <2>0 DEF JobInv, Suits, Stands, Saw, Reached
  <2>2. job[t].kind \notin {"settle", "operation"} \/ job[t].stage = "looked" => job[t].on \in Effects
    BY OnEffect
  <2>3. Follows(t)'
    <3> SUFFICES ASSUME job[t].stage \in Underway PROVE Follows(t)'
      BY <1>1 DEF Follows
    <3>1. job[t].on \in Effects
      BY UnderwayFacts
    <3>2. job[t].epoch = run.epoch => eff'[job[t].on] = eff[job[t].on]
      BY <1>4, <2>0, <3>1 DEF JobInv, Follows
    <3>3. /\ eff'[job[t].on].state # "absent" /\ eff'[job[t].on].epoch = eff[job[t].on].epoch
          /\ eff'[job[t].on].proc = eff[job[t].on].proc /\ eff'[job[t].on].invoked = eff[job[t].on].invoked
      BY <1>4, <2>0, <3>1 DEF JobInv, Follows
    <3>4. QED
      BY <1>1, <1>2, <2>0, <3>2, <3>3 DEF JobInv, Follows, Pending, Open
  <2>4. Unbegun(t)'
    BY <1>1, <1>4, <2>0, <2>2 DEF JobInv, Unbegun
  <2>5. Observes(t)'
    <3>1. job[t].kind = "reconcile" => job[t].on \in Effects /\ eff'[job[t].on] = eff[job[t].on]
      BY <1>4, <2>0, <2>2 DEF JobInv, Suits
    <3>2. job[t].stage = "looked" => /\ eff'[job[t].on].epoch = eff[job[t].on].epoch
                                     /\ eff'[job[t].on].alive = eff[job[t].on].alive
      BY <1>4, <2>2
    <3>3. QED
      BY <1>1, <2>0, <3>1, <3>2 DEF JobInv, Observes, Pending
  <2>6. Approved(t)'
    <3> SUFFICES ASSUME job[t].kind = "apply", job[t].stage \in {"intended", "launched"}, job[t].epoch = run.epoch
                 PROVE  eff'[CandidateOf(target[job[t].on.of])] = eff[CandidateOf(target[job[t].on.of])]
      BY <1>1, <1>2, <2>0 DEF JobInv, Approved
    <3> DEFINE x == job[t].on.of
    <3>1. x \in Approvals /\ job[t].on = ApplyOf(x) /\ target[x] \in Candidates /\ Pending(ApplyOf(x))
      BY <2>0, <2>2, EffectKinds DEF JobInv, Suits, Follows, Underway
    <3>2. CandidateOf(target[x]) \in Effects /\ CandidateOf(target[x]).of = target[x]
      BY <3>1, EffectNames
    <3>3. QED
      BY <3>1, <3>2, RejectRows
  <2>7. QED
    BY <2>1, <2>3, <2>4, <2>5, <2>6 DEF JobInv
<1>9. Alone'
  BY <1>1 DEF Inv, Alone, Works, Alive
<1>10. QED
  BY <1>5, <1>7, <1>8, <1>9 DEF Inv

-----------------------------------------------------------------------------
(* Takeover, crashes, and what happens outside the database *)

LEMMA AcquireInv ==
  ASSUME Inv, Acquire
  PROVE  Inv'
<1>0. TypeOK /\ run \in RunRows /\ run.epoch \in Nat /\ \A s \in Slots : job[s] \in Jobs /\ job[s].epoch \in Nat
  BY Numbers DEF Inv, World, TypeOK
<1>1. /\ run.epoch < MaxEpoch
      /\ run' = [run EXCEPT !.epoch = @ + 1, !.live = TRUE, !.state = "recovery_required"]
      /\ hostUp' = [hostUp EXCEPT ![run.epoch + 1] = TRUE]
      /\ eff' = [e \in Effects |-> FencedEffect(e)]
      /\ job' = [s \in Slots |-> IF job[s].row \in {"queued", "running"}
                                 THEN [job[s] EXCEPT !.row = "uncertain"] ELSE job[s]]
      /\ UNCHANGED <<att, plan, target, lock, head, moves>>
  BY DEF Acquire
<1>2. run' \in RunRows /\ run'.epoch = run.epoch + 1
  <2>1. run.epoch + 1 \in Epochs
    BY <1>0, <1>1, EpochAssumption DEF RunRows, Epochs
  <2>2. run' = [run EXCEPT !.epoch = run.epoch + 1, !.live = TRUE, !.state = "recovery_required"]
    BY <1>1
  <2> DEFINE n == run.epoch + 1
  <2> HIDE DEF n
  <2>3. n \in Epochs /\ run' = [run EXCEPT !.epoch = n, !.live = TRUE, !.state = "recovery_required"]
    BY <2>1, <2>2 DEF n
  <2>4. run' \in RunRows /\ run'.epoch = n
    BY <1>0, <2>3 DEF RunRows
  <2>5. QED
    BY <2>4 DEF n
<1>3. ASSUME NEW d \in Effects
      PROVE  /\ eff'[d] \in EffectRows /\ eff'[d].epoch = eff[d].epoch /\ eff'[d].invoked = eff[d].invoked
             /\ eff'[d].alive = eff[d].alive /\ eff'[d].passed = eff[d].passed
             /\ eff'[d].state = IF eff[d].state \in Active(d.kind) THEN "uncertain" ELSE eff[d].state
             /\ eff'[d].proc = IF eff[d].proc \in {"intent", "invoked"} THEN "unknown" ELSE eff[d].proc
  <2>1. eff[d] \in EffectRows
    BY <1>0 DEF TypeOK
  <2>2. eff'[d] = FencedEffect(d)
    BY <1>1
  <2>3. QED
    BY <2>1, <2>2 DEF FencedEffect, EffectRows, EffectStates
<1>4. \A d \in Effects : /\ eff'[d].state = "absent" <=> eff[d].state = "absent"
                         /\ Pending(d)' <=> Pending(d)
                         /\ ~Open(eff[d]) => eff'[d].proc = eff[d].proc
                         /\ eff'[d].state = eff[d].state \/ (Pending(d) /\ eff'[d].state = "uncertain")
  <2> TAKE d \in Effects
  <2>1. "absent" \notin Active(d.kind)
    BY EffectKinds DEF Active
  <2>2. QED
    BY <1>3, <2>1 DEF Pending, Open
<1>5. ASSUME NEW t \in Slots PROVE job'[t] \in Jobs /\ SameThread(t)
  <2>1. job'[t] = IF job[t].row \in {"queued", "running"} THEN [job[t] EXCEPT !.row = "uncertain"] ELSE job[t]
    BY <1>1
  <2>2. QED
    BY <1>0, <2>1 DEF SameThread, SameJob, Jobs, Unsettled
<1>6. World'
  <2>1. TypeOK'
    <3>1. eff' \in [Effects -> EffectRows]
      BY <1>1, <1>3
    <3>2. job' \in [Slots -> Jobs]
      BY <1>1, <1>5
    <3>3. QED
      BY <1>0, <1>1, <1>2, <3>1, <3>2 DEF TypeOK
  <2>2. RowsOK'
    <3> SUFFICES ASSUME NEW d \in Effects PROVE RowOK(d)'
      BY DEF RowsOK
    <3>1. RowOK(d) /\ eff[d].epoch \in Nat
      BY <1>0, Numbers DEF Inv, World, RowsOK
    <3>2. eff'[d].state = "absent" => eff'[d] = NoRow
      BY <1>3, <1>4, <3>1 DEF RowOK, NoRow, EffectRows
    <3>3. d.kind = "application" /\ Open(eff'[d]) => Pending(d)'
      BY <1>3, <1>4, <3>1 DEF RowOK, Open
    <3>4. QED
      BY <1>0, <1>2, <1>3, <3>1, <3>2, <3>3 DEF RowOK
  <2>3. ChecksOK' /\ TargetsOK'
    BY <1>1, <1>3, <1>4, EffectNames DEF Inv, World, ChecksOK, TargetsOK
  <2>4. HeadOK' /\ AcceptedOK'
    BY <1>1 DEF Inv, World, HeadOK, Reached, AcceptedOK
  <2>5. AppliedWasThere'
    <3>1. \A x \in Approvals : eff'[ApplyOf(x)].state = "applied" => eff[ApplyOf(x)].state = "applied"
      BY <1>4, EffectNames
    <3>2. QED
      BY <1>1, <3>1 DEF Inv, World, AppliedWasThere
  <2>6. MovedOnce'
    BY <1>1, <1>3, EffectNames DEF Inv, World, MovedOnce
  <2>7. VerifiedOK'
    <3> SUFFICES ASSUME NEW c \in Candidates, NEW k \in Keys, eff'[CandidateOf(c)].state = "verified"
                 PROVE  Vouched(c, k)'
      BY DEF VerifiedOK
    <3>0. /\ CandidateOf(c) \in Effects /\ CheckOf(c, k) \in Effects /\ CheckOf(c, k).kind = "check"
          /\ eff[CandidateOf(c)].epoch \in Nat /\ RowOK(CandidateOf(c))
      BY <1>0, EffectNames, Numbers DEF Inv, World, RowsOK
    <3>1. eff[CandidateOf(c)].state = "verified" /\ eff'[CandidateOf(c)].epoch = eff[CandidateOf(c)].epoch
      BY <1>3, <1>4, <3>0
    <3>2. eff'[CandidateOf(c)].epoch < run'.epoch
      BY <1>0, <1>2, <3>0, <3>1 DEF RowOK
    <3>3. Vouched(c, k)
      BY <3>1 DEF Inv, World, VerifiedOK
    <3>4. eff'[CheckOf(c, k)].state \in {"passed", "uncertain"}
      BY <1>3, <3>0, <3>3 DEF Vouched, Passed, Active
    <3>5. QED
      BY <3>2, <3>4 DEF Vouched, Passed
  <2>8. QED
    BY <2>1, <2>2, <2>3, <2>4, <2>5, <2>6, <2>7 DEF World
<1>7. ASSUME NEW t \in Slots PROVE JobInv(t)'
  <2>0. JobInv(t) /\ SameThread(t)
    BY <1>5 DEF Inv
  <2> USE DEF SameThread, SameJob
  <2>1. Suits(t)' /\ Saw(t)'
    BY <1>1, <2>0 DEF JobInv, Suits, Saw, Reached
  <2>2. Stands(t)' /\ job[t].epoch # run'.epoch
    BY <1>0, <1>1, <1>2, <2>0 DEF JobInv, Stands
  <2>3. job[t].kind \notin {"settle", "operation"} \/ job[t].stage = "looked" => job[t].on \in Effects
    BY OnEffect
  <2>4. Follows(t)'
    <3> SUFFICES ASSUME job[t].stage \in Underway PROVE Follows(t)'
      BY <2>0 DEF Follows
    <3>1. job[t].on \in Effects
      BY UnderwayFacts
    <3>2. /\ eff'[job[t].on].state # "absent" /\ eff'[job[t].on].epoch = job[t].epoch
          /\ eff'[job[t].on].invoked = eff[job[t].on].invoked
      BY <1>3, <1>4, <2>0, <3>1 DEF JobInv, Follows
    <3>3. ~Open(eff[job[t].on]) => eff'[job[t].on].proc = eff[job[t].on].proc
      BY <1>4, <3>1
    <3>4. QED
      BY <2>0, <2>2, <3>2, <3>3 DEF JobInv, Follows, Open
  <2>5. Unbegun(t)'
    BY <1>4, <2>0, <2>3 DEF JobInv, Unbegun
  <2>6. Observes(t)'
    <3>1. job[t].stage = "looked" => /\ eff'[job[t].on].epoch = eff[job[t].on].epoch
                                     /\ eff'[job[t].on].alive = eff[job[t].on].alive
      BY <1>3, <2>3
    <3>2. job[t].kind = "reconcile" => /\ Pending(job[t].on)' <=> Pending(job[t].on)
                                       /\ ~Open(eff[job[t].on]) => ~Open(eff'[job[t].on])
      <4> SUFFICES ASSUME job[t].kind = "reconcile"
                   PROVE  /\ Pending(job[t].on)' <=> Pending(job[t].on)
                          /\ ~Open(eff[job[t].on]) => ~Open(eff'[job[t].on])
        OBVIOUS
      <4>1. job[t].on \in Effects /\ job'[t].on = job[t].on
        BY <2>0, <2>3
      <4>2. QED
        BY <1>4, <4>1 DEF Open, Pending
    <3>3. QED
      BY <2>0, <3>1, <3>2 DEF JobInv, Observes
  <2>7. Approved(t)'
    BY <2>0, <2>2 DEF Approved
  <2>8. QED
    BY <2>1, <2>2, <2>4, <2>5, <2>6, <2>7 DEF JobInv
<1>8. Alone'
  BY <1>5 DEF Inv, Alone, Works, Alive, SameThread, SameJob
<1>9. QED
  BY <1>6, <1>7, <1>8 DEF Inv

LEMMA CrashInv ==
  ASSUME Inv, NEW h \in Epochs, HostCrash(h)
  PROVE  Inv'
<1>0. TypeOK /\ run \in RunRows
  BY DEF Inv, World, TypeOK
<1>1. /\ hostUp' = [hostUp EXCEPT ![h] = FALSE]
      /\ job' = [s \in Slots |-> IF job[s].epoch = h THEN Left(job[s]) ELSE job[s]]
      /\ lock' = (IF lock # None /\ job[lock].epoch = h THEN None ELSE lock)
      /\ UNCHANGED <<run, att, eff, plan, target, head, moves>>
  BY DEF HostCrash
<1>2. Same
  BY <1>0, <1>1 DEF Same
<1>3. ASSUME NEW t \in Slots
      PROVE  /\ job'[t] \in Jobs /\ (SameThread(t) \/ Gone(t))
             /\ Alive(t) /\ SameThread(t) => job[t].epoch # h
  <2>1. job[t] \in Jobs /\ job'[t] = IF job[t].epoch = h THEN Left(job[t]) ELSE job[t]
    BY <1>0, <1>1 DEF TypeOK
  <2>2. QED
    BY <2>1, LeftGone DEF SameThread, SameJob, Gone, Alive
<1>4. \A t \in Slots : Alive(t) /\ SameThread(t) /\ lock = t => lock' = t
  BY <1>1, <1>3
<1>5. /\ job' \in [Slots -> Jobs] /\ hostUp' \in [Epochs -> BOOLEAN] /\ lock' \in Slots \cup {None}
  BY <1>0, <1>1, <1>3 DEF TypeOK
<1>6. QED
  BY <1>1, <1>2, <1>3, <1>4, <1>5, ThreadsEnd

LEMMA OutsideSteps ==
  ASSUME Inv, LeaseExpires \/ \E to \in Commits : PersonMoves(to)
  PROVE  Inv'
<1>0. TypeOK /\ run \in RunRows /\ AcceptedOK /\ HeadOK
  BY DEF Inv, World, TypeOK
<1>1. CASE LeaseExpires
  <2>1. run' = [run EXCEPT !.live = FALSE] /\ UNCHANGED <<att, hostUp, eff, plan, target, job, lock, head, moves>>
    BY <1>1 DEF LeaseExpires, Rows
  <2>2. Same
    BY <1>0, <2>1 DEF Same, RunRows
  <2>3. AcceptedOK' /\ HeadOK' /\ head' \in Commits /\ att' = att
    BY <1>0, <2>1 DEF AcceptedOK, HeadOK, Reached, TypeOK
  <2>4. QED
    BY <1>0, <2>1, <2>2, <2>3, OutsideInv DEF TypeOK
<1>2. ASSUME NEW to \in Commits, PersonMoves(to) PROVE Inv'
  <2>1. /\ head' = to /\ UNCHANGED <<run, hostUp, att, eff, plan, target, job, lock, moves>>
        /\ to \in {Root, Own} \cup {target[x] : x \in {y \in Approvals : moves[y] > 0}}
    BY <1>2 DEF PersonMoves
  <2>2. Same
    BY <1>0, <2>1 DEF Same
  <2>3. HeadOK'
    BY <2>1, NamesAssumption DEF HeadOK, Reached
  <2>4. AcceptedOK' /\ head' \in Commits /\ att' = att
    BY <1>0, <2>1 DEF AcceptedOK
  <2>5. QED
    BY <1>0, <2>1, <2>2, <2>3, <2>4, OutsideInv DEF TypeOK
<1>3. QED
  BY <1>1, <1>2

LEMMA ChildInv ==
  ASSUME Inv, NEW e \in Effects, NEW works \in BOOLEAN, ChildEnds(e, works)
  PROVE  Inv'
<1>0. TypeOK /\ run \in RunRows /\ RowOK(e) /\ TargetsOK
  BY DEF Inv, World, TypeOK, RowsOK
<1>1. /\ eff[e].alive /\ eff' = [eff EXCEPT ![e].alive = FALSE]
      /\ UNCHANGED <<run, hostUp, att, plan, target, job, lock>>
  BY DEF ChildEnds
<1>2. /\ eff' \in [Effects -> EffectRows] /\ \A d \in Effects : d # e => eff'[d] = eff[d]
      /\ eff'[e].state = eff[e].state /\ eff'[e].epoch = eff[e].epoch /\ eff'[e].proc = eff[e].proc
      /\ eff'[e].invoked = eff[e].invoked /\ eff'[e].passed = eff[e].passed /\ ~eff'[e].alive
  BY <1>0, <1>1 DEF TypeOK, EffectRows
<1>3. eff[e].state # "absent" /\ eff[e].invoked
  BY <1>0, <1>1 DEF RowOK, NoRow
<1>4. \/ UNCHANGED <<head, moves>>
      \/ /\ e.kind = "application" /\ e.of \in Approvals /\ e = ApplyOf(e.of) /\ target[e.of] \in Candidates
         /\ head' = target[e.of] /\ moves' = [moves EXCEPT ![e.of] = @ + 1]
  BY <1>0, <1>3, EffectKinds DEF ChildEnds, TargetsOK
<1>5. /\ moves' \in [Approvals -> Nat] /\ \A x \in Approvals : moves[x] > 0 => moves'[x] > 0
      /\ \A x \in Approvals : moves'[x] > 0 => moves[x] > 0 \/ ApplyOf(x) = e
      /\ head' \in Commits
      /\ head' # head => \E x \in Approvals : target[x] = head' /\ moves'[x] > 0
  <2>0. moves \in [Approvals -> Nat] /\ head \in Commits
    BY <1>0 DEF TypeOK
  <2>1. CASE UNCHANGED <<head, moves>>
    BY <2>0, <2>1
  <2>2. CASE /\ e.kind = "application" /\ e.of \in Approvals /\ e = ApplyOf(e.of) /\ target[e.of] \in Candidates
             /\ head' = target[e.of] /\ moves' = [moves EXCEPT ![e.of] = @ + 1]
    <3> DEFINE x == e.of
    <3>1. x \in Approvals /\ e = ApplyOf(x) /\ moves' = [moves EXCEPT ![x] = @ + 1] /\ head' = target[x]
          /\ target[x] \in Commits
      BY <2>2 DEF Commits
    <3> HIDE DEF x
    <3>2. moves'[x] > 0 /\ moves' \in [Approvals -> Nat] /\ \A y \in Approvals : y # x => moves'[y] = moves[y]
      BY <2>0, <3>1
    <3>3. QED
      BY <3>1, <3>2
  <2>3. QED
    BY <1>4, <2>1, <2>2
<1>6. \A d \in Effects : /\ eff'[d].state = eff[d].state /\ eff'[d].epoch = eff[d].epoch /\ eff'[d].proc = eff[d].proc
                         /\ eff'[d].invoked = eff[d].invoked /\ (eff'[d].alive => eff[d].alive)
                         /\ eff'[d].passed = eff[d].passed
  BY <1>2
<1>7. World'
  <2>1. TypeOK'
    BY <1>0, <1>1, <1>2, <1>5 DEF TypeOK
  <2>2. RowsOK'
    <3> SUFFICES ASSUME NEW d \in Effects PROVE RowOK(d)'
      BY DEF RowsOK
    <3>1. RowOK(d)
      BY DEF Inv, World, RowsOK
    <3>2. eff'[d].state = "absent" => eff'[d] = NoRow
      BY <1>2, <1>3, <3>1 DEF RowOK
    <3>3. QED
      BY <1>1, <1>6, <3>1, <3>2 DEF RowOK, Open, Pending
  <2>3. ChecksOK' /\ TargetsOK' /\ VerifiedOK'
    BY <1>1, <1>6, EffectNames DEF Inv, World, ChecksOK, TargetsOK, VerifiedOK, Vouched, Passed
  <2>4. HeadOK' /\ AcceptedOK'
    BY <1>1, <1>5 DEF Inv, World, HeadOK, Reached, AcceptedOK
  <2>5. AppliedWasThere'
    BY <1>1, <1>5, <1>6, EffectNames DEF Inv, World, AppliedWasThere
  <2>6. MovedOnce'
    <3> SUFFICES ASSUME NEW x \in Approvals, moves'[x] > 0
                 PROVE  eff'[ApplyOf(x)].invoked /\ ~eff'[ApplyOf(x)].alive
      BY DEF MovedOnce
    <3>1. CASE ApplyOf(x) = e
      BY <1>2, <1>3, <3>1
    <3>2. CASE ApplyOf(x) # e
      BY <1>2, <1>5, <3>2, EffectNames DEF Inv, World, MovedOnce
    <3>3. QED
      BY <3>1, <3>2
  <2>7. QED
    BY <2>1, <2>2, <2>3, <2>4, <2>5, <2>6 DEF World
<1>8. ASSUME NEW t \in Slots PROVE JobInv(t)'
  <2>0. JobInv(t)
    BY DEF Inv
  <2>1. Suits(t)' /\ Stands(t)'
    BY <1>1, <2>0 DEF JobInv, Suits, Stands
  <2>2. job[t].kind \notin {"settle", "operation"} \/ job[t].stage = "looked" => job[t].on \in Effects
    BY OnEffect
  <2>3. job[t].stage \in Underway => job[t].on \in Effects
    BY UnderwayFacts
  <2>4. Follows(t)'
    BY <1>1, <1>6, <2>0, <2>3 DEF JobInv, Follows, Pending, Open
  <2>5. Unbegun(t)'
    BY <1>1, <1>6, <2>0, <2>2 DEF JobInv, Unbegun
  <2>6. Observes(t)'
    BY <1>1, <1>6, <2>0, <2>2 DEF JobInv, Observes, Pending, Open
  <2>7. Approved(t)'
    <3>1. job[t].kind = "apply" => CandidateOf(target[job[t].on.of]) \in Effects
      BY <2>0, EffectNames DEF JobInv, Suits
    <3>2. QED
      BY <1>1, <1>6, <2>0, <3>1 DEF JobInv, Approved
  <2>8. Saw(t)'
    <3>1. \A c : Reached(c) => Reached(c)'
      BY <1>1, <1>5 DEF Reached
    <3>2. QED
      BY <1>1, <2>0, <3>1 DEF JobInv, Saw
  <2>9. QED
    BY <2>1, <2>4, <2>5, <2>6, <2>7, <2>8 DEF JobInv
<1>9. Alone'
  BY <1>1 DEF Inv, Alone, Works, Alive
<1>10. QED
  BY <1>7, <1>8, <1>9 DEF Inv

-----------------------------------------------------------------------------
(* The invariant of the specification *)

LEMMA InvInit == Init => Inv
<1> SUFFICES ASSUME Init PROVE Inv
  OBVIOUS
<1>0. /\ run = [state |-> "running", stop |-> FALSE, epoch |-> 1, live |-> TRUE]
      /\ hostUp = [e \in Epochs |-> e = 1] /\ att = [w \in Writers |-> [state |-> "absent", base |-> Root]]
      /\ eff = [e \in Effects |-> NoRow] /\ job = [s \in Slots |-> NoJob]
      /\ plan = [c \in Candidates |-> [members |-> {}, base |-> Root, line |-> {}]]
      /\ target = [x \in Approvals |-> None] /\ moves = [x \in Approvals |-> 0] /\ lock = None /\ head = Root
  BY DEF Init
<1>1. NoRow \in EffectRows /\ NoJob \in Jobs /\ Root \in Commits /\ 1 \in Epochs /\ 0 \in 0..MaxEpoch
  BY EpochAssumption DEF NoRow, EffectRows, EffectStates, NoJob, Jobs, Kinds, Observations, Stages, Commits, Epochs
<1>2. TypeOK
  <2>1. run \in RunRows
    BY <1>0, <1>1 DEF RunRows
  <2>2. /\ hostUp \in [Epochs -> BOOLEAN] /\ eff \in [Effects -> EffectRows] /\ job \in [Slots -> Jobs]
        /\ att \in [Writers -> [state : {"absent", "running", "submitted", "accepted", "failed"}, base : Commits]]
    BY <1>0, <1>1
  <2>3. /\ plan \in [Candidates -> [members : SUBSET Writers, base : Commits, line : SUBSET Commits]]
        /\ target \in [Approvals -> Candidates \cup {None}] /\ moves \in [Approvals -> Nat]
        /\ lock \in Slots \cup {None} /\ head \in Commits
    BY <1>0, <1>1
  <2>4. QED
    BY <2>1, <2>2, <2>3 DEF TypeOK
<1>3. \A e \in Effects : eff[e] = NoRow
  BY <1>0
<1>4. \A e \in Effects : eff[e].state = "absent" /\ ~eff[e].alive /\ ~eff[e].invoked /\ ~Open(eff[e]) /\ eff[e].epoch = 0
  BY <1>3 DEF NoRow, Open
<1>5. RowsOK
  BY <1>0, <1>3, <1>4 DEF RowsOK, RowOK
<1>6. ChecksOK /\ TargetsOK /\ VerifiedOK /\ AppliedWasThere
  BY <1>0, <1>4, EffectNames, NamesAssumption DEF ChecksOK, TargetsOK, VerifiedOK, AppliedWasThere
<1>7. HeadOK /\ AcceptedOK /\ MovedOnce
  BY <1>0, NamesAssumption DEF HeadOK, AcceptedOK, MovedOnce
<1>8. \A s \in Slots : job[s].stage = "ended" /\ job[s].kind = "operation" /\ job[s].epoch = 0 /\ job[s].saw = Root
  BY <1>0 DEF NoJob
<1>9. \A s \in Slots : JobInv(s)
  <2> TAKE s \in Slots
  <2>1. Suits(s) /\ Stands(s)
    BY <1>0, <1>8 DEF Suits, Stands, Underway, Unlocked, WriterSteps
  <2>2. Follows(s) /\ Unbegun(s) /\ Observes(s) /\ Approved(s)
    BY <1>8 DEF Follows, Unbegun, Observes, Approved, Underway
  <2>3. Saw(s)
    BY <1>8, NamesAssumption DEF Saw
  <2>4. QED
    BY <2>1, <2>2, <2>3 DEF JobInv
<1>10. Alone
  BY <1>8 DEF Alone, Works, Alive
<1>11. QED
  BY <1>2, <1>5, <1>6, <1>7, <1>9, <1>10 DEF Inv, World

LEMMA StepsInv ==
  ASSUME Inv, NEW s \in Slots, Steps(s) \/ Fail(s, FALSE, FALSE) \/ Finish(s, FALSE)
  PROVE  Inv'
<1>1. CASE \/ Begin(s) \/ TakeLock(s) \/ Refuse(s) \/ ReadCheckout(s) \/ RecordDenied(s)
           \/ InspectApplication(s) \/ Look(s) \/ NothingToLookAt(s) \/ ReadHead(s) \/ NotSeenToStop(s)
  BY <1>1, QuietSteps
<1>2. CASE \E state \in EffectStates : Intend(s, state)
  BY <1>2, IntendInv
<1>3. CASE RejectPaths(s) \/ Launch(s) \/ Invoke(s) \/ Record(s)
  BY <1>3, RejectPathsInv, LaunchInv, InvokeInv, RecordInv
<1>4. CASE (\E result \in EffectStates : Return(s, result)) \/ ReturnError(s) \/ Abort(s)
  BY <1>4, ProcessSteps
<1>5. CASE (\E closed \in BOOLEAN : Fail(s, closed, TRUE)) \/ Fail(s, FALSE, FALSE)
  BY <1>5, FailInv
<1>6. CASE ReconcileEffect(s) \/ ReconcileOperation(s) \/ RecordApplication(s)
  BY <1>6, ReconcileEffectInv, OperationInv, RecordApplicationInv
<1>7. CASE Finish(s, TRUE) \/ Finish(s, FALSE)
  BY <1>7, FinishInv
<1>8. QED
  BY <1>1, <1>2, <1>3, <1>4, <1>5, <1>6, <1>7 DEF Steps

\* The steps of the whole, with what a job is asked for in one place.
LEMMA NextSteps ==
  ASSUME [Next]_vars
  PROVE  \/ \E s \in Slots, w \in Writers, kind \in WriterSteps : StartWriterStep(s, kind, w)
         \/ \E s \in Slots, kind \in Kinds \ WriterSteps, e \in Effects \cup {NoEffect}, t \in Slots \cup {None},
              members \in SUBSET Writers, c \in Candidates \cup {None} :
              (kind = "operation" => t \in Slots) /\ Submit(s, kind, e, t, members, c)
         \/ \E s \in Slots : Steps(s) \/ Fail(s, FALSE, FALSE) \/ Finish(s, FALSE)
         \/ \E e \in Effects, works \in BOOLEAN : ChildEnds(e, works)
         \/ \E w \in Writers : SubmitResult(w) \/ AttemptFails(w) \/ Reject(w) \/ \E c \in Candidates : AcceptWriter(w, c)
         \/ Pause \/ Resume \/ Stop \/ Complete \/ Recover
         \/ Acquire \/ LeaseExpires \/ (\E h \in Epochs : HostCrash(h)) \/ (\E to \in Commits : PersonMoves(to))
         \/ UNCHANGED vars
<1>1. ASSUME NEW s \in Slots, NEW kind \in Kinds \ WriterSteps, NEW e \in Effects \cup {NoEffect},
             NEW t \in IF kind = "operation" THEN Slots ELSE {None},
             NEW members \in SUBSET Writers, NEW c \in Candidates \cup {None}, Submit(s, kind, e, t, members, c)
      PROVE  /\ t \in Slots \cup {None}
             /\ (kind = "operation" => t \in Slots) /\ Submit(s, kind, e, t, members, c)
  BY <1>1
<1>2. QED
  BY <1>1 DEF Next

LEMMA InvNext == Inv /\ [Next]_vars => Inv'
<1> SUFFICES ASSUME Inv, [Next]_vars PROVE Inv'
  OBVIOUS
<1>0. run \in RunRows
  BY DEF Inv, World, TypeOK
<1>1. CASE \E s \in Slots, w \in Writers, kind \in WriterSteps : StartWriterStep(s, kind, w)
  BY <1>1, StartInv
<1>2. CASE \E s \in Slots, kind \in Kinds \ WriterSteps, e \in Effects \cup {NoEffect}, t \in Slots \cup {None},
              members \in SUBSET Writers, c \in Candidates \cup {None} :
                (kind = "operation" => t \in Slots) /\ Submit(s, kind, e, t, members, c)
  BY <1>2, SubmitInv
<1>3. CASE \E s \in Slots : Steps(s) \/ Fail(s, FALSE, FALSE) \/ Finish(s, FALSE)
  BY <1>3, StepsInv
<1>4. CASE \E e \in Effects, works \in BOOLEAN : ChildEnds(e, works)
  BY <1>4, ChildInv
<1>5. CASE \E w \in Writers : SubmitResult(w) \/ AttemptFails(w) \/ Reject(w) \/ \E c \in Candidates : AcceptWriter(w, c)
  BY <1>5, DecisionSteps, RejectInv
<1>6. CASE Pause \/ Resume \/ Stop \/ Complete \/ Recover
  BY <1>0, <1>6, ControlRow, ControlInv
<1>7. CASE Acquire \/ LeaseExpires \/ (\E h \in Epochs : HostCrash(h)) \/ (\E to \in Commits : PersonMoves(to))
  BY <1>7, AcquireInv, OutsideSteps, CrashInv
<1>8. CASE UNCHANGED vars
  <2>1. Same /\ UNCHANGED <<hostUp, job, lock, head, att>>
    BY <1>0, <1>8 DEF Same, vars
  <2>2. HeadOK' /\ AcceptedOK' /\ TypeOK
    BY <1>8 DEF vars, Inv, World, HeadOK, Reached, AcceptedOK
  <2>3. QED
    BY <2>1, <2>2, OutsideInv DEF TypeOK
<1>9. QED
  BY <1>1, <1>2, <1>3, <1>4, <1>5, <1>6, <1>7, <1>8, NextSteps

LEMMA Invariance == Spec => []Inv
<1>1. QED
  BY InvInit, InvNext, PTL DEF Spec

\* Every row, job and commit keeps its type, in whatever order owners, threads,
\* children and the person take their steps.
THEOREM TypeCorrect == Spec => []TypeOK
<1>1. Inv => TypeOK
  BY DEF Inv, World
<1>2. QED
  BY <1>1, Invariance, PTL

\* reconcile_application and apply record an application as applied only if the
\* checkout has been at its target.
THEOREM AppliedThere == Spec => []AppliedWasThere
<1>1. Inv => AppliedWasThere
  BY DEF Inv, World
<1>2. QED
  BY <1>1, Invariance, PTL

\* _record_writer_acceptance accepts only work that has reached the checkout.
THEOREM AcceptedThere == Spec => []AcceptedWasThere
<1>1. Inv => AcceptedWasThere
  BY DEF Inv, World, AcceptedOK, AcceptedWasThere
<1>2. QED
  BY <1>1, Invariance, PTL

-----------------------------------------------------------------------------
(* What a step may do to the checkout *)

LEMMA StepsMoveNothing ==
  ASSUME NEW s \in Slots, Steps(s) \/ Fail(s, FALSE, FALSE) \/ Finish(s, FALSE)
  PROVE  moves' = moves
<1>1. CASE \/ Begin(s) \/ TakeLock(s) \/ Refuse(s) \/ ReadCheckout(s) \/ RecordDenied(s)
           \/ InspectApplication(s) \/ Look(s) \/ NothingToLookAt(s) \/ ReadHead(s) \/ NotSeenToStop(s)
  BY <1>1 DEF Begin, TakeLock, Refuse, ReadCheckout, RecordDenied, InspectApplication, Look, NothingToLookAt, ReadHead,
              NotSeenToStop
<1>2. CASE (\E state \in EffectStates : Intend(s, state)) \/ RejectPaths(s) \/ Launch(s) \/ Invoke(s) \/ Record(s)
  BY <1>2 DEF Intend, RejectPaths, Launch, Invoke, Record
<1>3. CASE (\E result \in EffectStates : Return(s, result)) \/ ReturnError(s) \/ Abort(s)
  BY <1>3 DEF Return, ReturnError, Abort, SeenToStop
<1>4. CASE (\E closed \in BOOLEAN : Fail(s, closed, TRUE)) \/ Fail(s, FALSE, FALSE)
  BY <1>4 DEF Fail
<1>5. CASE ReconcileEffect(s) \/ ReconcileOperation(s) \/ RecordApplication(s)
  BY <1>5 DEF ReconcileEffect, ReconcileOperation, RecordApplication
<1>6. CASE Finish(s, TRUE) \/ Finish(s, FALSE)
  BY <1>6 DEF Finish
<1>7. QED
  BY <1>1, <1>2, <1>3, <1>4, <1>5, <1>6 DEF Steps

LEMMA OnlyChildrenMove ==
  ASSUME [Next]_vars
  PROVE  moves' = moves \/ \E e \in Effects, works \in BOOLEAN : ChildEnds(e, works)
<1>1. CASE \E s \in Slots, w \in Writers, kind \in WriterSteps : StartWriterStep(s, kind, w)
  BY <1>1 DEF StartWriterStep
<1>2. CASE \E s \in Slots, kind \in Kinds \ WriterSteps, e \in Effects \cup {NoEffect}, t \in Slots \cup {None},
              members \in SUBSET Writers, c \in Candidates \cup {None} :
                (kind = "operation" => t \in Slots) /\ Submit(s, kind, e, t, members, c)
  BY <1>2 DEF Submit
<1>3. CASE \E s \in Slots : Steps(s) \/ Fail(s, FALSE, FALSE) \/ Finish(s, FALSE)
  BY <1>3, StepsMoveNothing
<1>4. CASE \E w \in Writers : SubmitResult(w) \/ AttemptFails(w) \/ Reject(w) \/ \E c \in Candidates : AcceptWriter(w, c)
  BY <1>4 DEF SubmitResult, AttemptFails, Reject, AcceptWriter, Rows
<1>5. CASE Pause \/ Resume \/ Stop \/ Complete \/ Recover
  BY <1>5 DEF Pause, Resume, Stop, Complete, Recover, Control, Rows
<1>6. CASE Acquire \/ LeaseExpires \/ (\E h \in Epochs : HostCrash(h)) \/ (\E to \in Commits : PersonMoves(to))
  BY <1>6 DEF Acquire, LeaseExpires, HostCrash, PersonMoves, Rows
<1>7. CASE UNCHANGED vars
  BY <1>7 DEF vars
<1>8. QED
  BY <1>1, <1>2, <1>3, <1>4, <1>5, <1>6, <1>7, NextSteps

\* Git moves the checkout for an approval at most once, and only while its
\* application is open: a child that lives has an open process row, and the one
\* child an approval ever has is gone once it has moved anything.
THEOREM MovesPending == Spec => MovesOnlyWhilePending
<1>1. ASSUME Inv, [Next]_vars, NEW x \in Approvals, moves'[x] # moves[x]
      PROVE  moves[x] = 0 /\ Pending(ApplyOf(x))
  <2>1. PICK e \in Effects, works \in BOOLEAN : ChildEnds(e, works)
    BY <1>1, OnlyChildrenMove
  <2>2. /\ eff[e].alive /\ e.kind = "application" /\ moves' = [moves EXCEPT ![e.of] = @ + 1]
    BY <1>1, <2>1 DEF ChildEnds
  <2>3. e = ApplyOf(x) /\ moves \in [Approvals -> Nat]
    BY <1>1, <2>2, EffectKinds DEF Inv, World, TypeOK
  <2>4. Open(eff[e]) /\ RowOK(e)
    BY <1>1, <2>2 DEF Inv, World, RowsOK, RowOK, Open
  <2>5. ~(moves[x] > 0)
    BY <1>1, <2>2, <2>3 DEF Inv, World, MovedOnce
  <2>6. QED
    BY <2>2, <2>3, <2>4, <2>5 DEF RowOK
<1>2. Inv /\ [Next]_vars => [\A x \in Approvals : moves'[x] # moves[x] => moves[x] = 0 /\ Pending(ApplyOf(x))]_vars
  BY <1>1
<1>3. QED
  BY <1>2, Invariance, PTL DEF Spec, MovesOnlyWhilePending

\* A command is given its argv by Invoke alone.
LEMMA StepsInvoke ==
  ASSUME Inv, NEW s \in Slots, Steps(s) \/ Fail(s, FALSE, FALSE) \/ Finish(s, FALSE), ~Invoke(s),
         NEW d \in Effects, eff'[d].invoked
  PROVE  eff[d].invoked
<1>0. TypeOK /\ ChecksOK
  BY DEF Inv, World
<1>1. CASE \/ Begin(s) \/ TakeLock(s) \/ Refuse(s) \/ ReadCheckout(s) \/ RecordDenied(s)
           \/ InspectApplication(s) \/ Look(s) \/ NothingToLookAt(s) \/ ReadHead(s) \/ NotSeenToStop(s)
  BY <1>1 DEF Begin, TakeLock, Refuse, ReadCheckout, RecordDenied, InspectApplication, Look, NothingToLookAt, ReadHead,
              NotSeenToStop
<1>2. CASE \E state \in EffectStates : Intend(s, state)
  BY <1>2, IntendTables
<1>3. CASE \/ RejectPaths(s) \/ Record(s) \/ RecordApplication(s)
           \/ (\E closed \in BOOLEAN : Fail(s, closed, TRUE)) \/ Fail(s, FALSE, FALSE)
  <2>1. OnlyStates
    BY <1>3, RejectPathsInv, RecordInv, RecordApplicationInv, FailInv
  <2>2. QED
    BY <2>1 DEF OnlyStates
<1>4. CASE Launch(s) \/ (\E result \in EffectStates : Return(s, result)) \/ ReturnError(s) \/ Abort(s)
  <2>1. eff' = eff \/ \E proc \in {"intent", "closed"} : eff' = [eff EXCEPT ![job[s].on].proc = proc]
    BY <1>4 DEF Launch, Return, ReturnError, Abort, SeenToStop
  <2>2. eff \in [Effects -> EffectRows]
    BY <1>0 DEF TypeOK
  <2>3. QED
    BY <2>1, <2>2 DEF EffectRows
<1>5. CASE ReconcileEffect(s)
  <2>1. job[s].on \in Effects /\ eff' = Abandoned(eff, job[s].on)
    BY <1>5, OnEffect DEF ReconcileEffect
  <2>2. Judged(job[s].on)
    BY <1>0, <2>1, JudgedEffect
  <2>3. QED
    BY <2>2 DEF Judged
<1>6. CASE ReconcileOperation(s) \/ Finish(s, TRUE) \/ Finish(s, FALSE)
  BY <1>6 DEF ReconcileOperation, Finish
<1>7. QED
  BY <1>1, <1>2, <1>3, <1>4, <1>5, <1>6 DEF Steps

LEMMA OnlyInvoke ==
  ASSUME Inv, [Next]_vars, NEW d \in Effects, eff'[d].invoked, ~eff[d].invoked
  PROVE  \E s \in Slots : Invoke(s)
<1>0. eff \in [Effects -> EffectRows]
  BY DEF Inv, World, TypeOK
<1>1. CASE \E s \in Slots, w \in Writers, kind \in WriterSteps : StartWriterStep(s, kind, w)
  BY <1>1 DEF StartWriterStep
<1>2. CASE \E s \in Slots, kind \in Kinds \ WriterSteps, e \in Effects \cup {NoEffect}, t \in Slots \cup {None},
              members \in SUBSET Writers, c \in Candidates \cup {None} :
                (kind = "operation" => t \in Slots) /\ Submit(s, kind, e, t, members, c)
  BY <1>2 DEF Submit
<1>3. CASE \E s \in Slots : Steps(s) \/ Fail(s, FALSE, FALSE) \/ Finish(s, FALSE)
  BY <1>3, StepsInvoke
<1>4. CASE \E e \in Effects, works \in BOOLEAN : ChildEnds(e, works)
  BY <1>0, <1>4 DEF ChildEnds, EffectRows
<1>5. CASE \E w \in Writers : SubmitResult(w) \/ AttemptFails(w) \/ Reject(w) \/ \E c \in Candidates : AcceptWriter(w, c)
  BY <1>5, RejectInv DEF SubmitResult, AttemptFails, AcceptWriter, Rows, OnlyStates
<1>6. CASE Pause \/ Resume \/ Stop \/ Complete \/ Recover
  BY <1>6 DEF Pause, Resume, Stop, Complete, Recover, Control, Rows
<1>7. CASE Acquire
  <2>1. eff'[d] = FencedEffect(d) /\ eff[d] \in EffectRows
    BY <1>0, <1>7 DEF Acquire
  <2>2. QED
    BY <2>1 DEF FencedEffect, EffectRows
<1>8. CASE LeaseExpires \/ (\E h \in Epochs : HostCrash(h)) \/ (\E to \in Commits : PersonMoves(to))
  BY <1>8 DEF LeaseExpires, HostCrash, PersonMoves, Rows
<1>9. CASE UNCHANGED vars
  BY <1>9 DEF vars
<1>10. QED
  BY <1>1, <1>2, <1>3, <1>4, <1>5, <1>6, <1>7, <1>8, <1>9, NextSteps

\* The merge of an approval is given its argv only for a candidate of which the
\* last recorded outcome of every declared check is "passed": that of its latest
\* receipt or, if a check that ran again recorded neither its outcome nor its
\* failure and left that one "running", of the receipt before.
THEOREM MergesPassed == Spec => MergesOnlyWhatPassed
<1>1. ASSUME Inv, [Next]_vars, NEW x \in Approvals, eff'[ApplyOf(x)].invoked, ~eff[ApplyOf(x)].invoked, NEW k \in Keys
      PROVE  Passed(eff[CheckOf(target[x], k)])
  <2>0. ApplyOf(x) \in Effects /\ ApplyOf(x).kind = "application" /\ ApplyOf(x).of = x
    BY EffectNames
  <2>1. PICK s \in Slots : Invoke(s)
    BY <1>1, <2>0, OnlyInvoke
  <2>2. /\ job[s].stage = "launched" /\ run.epoch = job[s].epoch
        /\ eff' = [eff EXCEPT ![job[s].on].proc = "invoked", ![job[s].on].invoked = TRUE, ![job[s].on].alive = TRUE]
    BY <2>1 DEF Invoke, Admitting, Authority
  <2>3. job[s].on \in Effects /\ JobInv(s) /\ job[s].kind \notin Observations /\ TypeOK
    BY <1>1, <2>2, UnderwayFacts DEF Underway
  <2>4. ApplyOf(x) # job[s].on => eff'[ApplyOf(x)] = eff[ApplyOf(x)]
    BY <2>0, <2>2, <2>3 DEF TypeOK
  <2>5. job[s].on = ApplyOf(x)
    BY <1>1, <2>4
  <2>6. job[s].kind = "apply"
    BY <2>0, <2>3, <2>5 DEF JobInv, Suits, TypeOK, Jobs, Kinds, WriterSteps
  <2>7. /\ eff[CandidateOf(target[x])].state = "verified" /\ target[x] \in Candidates
        /\ eff[CandidateOf(target[x])].epoch = run.epoch
    BY <2>0, <2>2, <2>3, <2>5, <2>6 DEF JobInv, Approved, Suits
  <2>8. run.epoch \in Nat
    BY <1>1, Numbers DEF Inv, World
  <2>9. QED
    BY <1>1, <2>7, <2>8 DEF Inv, World, VerifiedOK, Vouched
<1>2. Inv /\ [Next]_vars => [\A x \in Approvals :
         eff'[ApplyOf(x)].invoked /\ ~eff[ApplyOf(x)].invoked =>
           \A k \in Keys : Passed(eff[CheckOf(target[x], k)])]_vars
  BY <1>1
<1>3. QED
  BY <1>2, Invariance, PTL DEF Spec, MergesOnlyWhatPassed

-----------------------------------------------------------------------------
(* What a step may open *)

Undecided == {"creating", "finalizing", "preparing", "running", "applying", "uncertain"}

\* An effect that is open after a step was open before it, was given up with
\* one that was (the candidate of a check), or has just had its intent.
Opens(d) ==
  \/ \E b \in Effects : EffectUnresolved(eff, b) /\ eff'[d].epoch = eff[b].epoch
  \/ Admitting(run.epoch) /\ run' = run /\ eff'[d].epoch = run.epoch

LEMMA OpenBefore ==
  ASSUME NEW d \in Effects, eff'[d].epoch = eff[d].epoch, Open(eff'[d]) => Open(eff[d]),
         eff'[d].state = eff[d].state \/ eff'[d].state \notin Undecided \/ Pending(d),
         EffectUnresolved(eff', d)
  PROVE  Opens(d)
<1>1. Active(d.kind) \cup {"uncertain"} \subseteq Undecided
  BY EffectKinds DEF Active, Undecided
<1>2. EffectUnresolved(eff, d)
  BY <1>1 DEF EffectUnresolved, Pending
<1>3. QED
  BY <1>2 DEF Opens

LEMMA StatesOpen ==
  ASSUME OnlyStates, NEW d \in Effects,
         eff'[d].state = eff[d].state \/ eff'[d].state \notin Undecided \/ Pending(d),
         EffectUnresolved(eff', d)
  PROVE  Opens(d)
<1>1. eff'[d].epoch = eff[d].epoch /\ eff'[d].proc = eff[d].proc
  BY DEF OnlyStates
<1>2. Open(eff'[d]) => Open(eff[d])
  BY <1>1 DEF Open
<1>3. QED
  BY <1>1, <1>2, OpenBefore

LEMMA SameOpen == ASSUME NEW d \in Effects, eff'[d] = eff[d], EffectUnresolved(eff', d) PROVE Opens(d)
  BY OpenBefore

LEMMA WriteOne ==
  ASSUME eff \in [Effects -> EffectRows], NEW e \in Effects, NEW state \in EffectStates, Write(e, state)
  PROVE  eff'[e].state = state /\ \A d \in Effects : d # e => eff'[d] = eff[d]
  BY DEF Write, EffectRows

LEMMA WriteStates ==
  ASSUME eff \in [Effects -> EffectRows], NEW e \in Effects, NEW d \in Effects, d # e,
         NEW state \in EffectStates, NEW to \in EffectStates, Writes(e, state, d, to)
  PROVE  eff'[e].state = state /\ eff'[d].state = to /\ \A b \in Effects : b # e /\ b # d => eff'[b] = eff[b]
<1>1. eff'[e] = [eff[e] EXCEPT !.state = state] /\ eff'[d] = [eff[d] EXCEPT !.state = to]
      /\ \A b \in Effects : b # e /\ b # d => eff'[b] = eff[b]
  BY WriteTwo
<1>2. eff[e] \in EffectRows /\ eff[d] \in EffectRows
  OBVIOUS
<1>3. QED
  BY <1>1, <1>2 DEF EffectRows

\* An outcome decides.
LEMMA RecordStates ==
  ASSUME Inv, NEW s \in Slots, Record(s), NEW d \in Effects
  PROVE  eff'[d].state = eff[d].state \/ eff'[d].state \notin Undecided
<1> DEFINE e == job[s].on
           told == job[s].told
<1>1. job[s].stage = "returned" /\ eff' = WithOutcome(eff, e, told)
  BY DEF Record
<1>2. /\ TypeOK /\ e \in Effects /\ job[s].kind \in {"create", "finalize", "prepare", "check", "apply"}
  BY <1>1, OutcomeFacts
<1>3. told \in Told(job[s].kind)
  BY <1>1 DEF Inv, JobInv, Stands
<1>4. told \in EffectStates /\ told \notin Undecided
  BY <1>2, <1>3 DEF Told, EffectStates, Undecided
<1>5. eff \in [Effects -> EffectRows]
  BY <1>2 DEF TypeOK
<1>6. CASE e.kind = "check"
  <2> DEFINE c == CandidateOf(e.of)
             to == IF AllPassed(eff, e, told) THEN "verified" ELSE "failed"
  <2>1. c \in Effects /\ c # e
    BY <1>2, <1>6, EffectKinds, EffectNames
  <2>2. Writes(e, told, c, to)
    BY <1>1, <1>6 DEF WithOutcome, Writes
  <2>3. to \in EffectStates /\ to \notin Undecided
    BY DEF EffectStates, Undecided
  <2> HIDE DEF to, c, told, e
  <2>4. QED
    BY <1>2, <1>4, <1>5, <2>1, <2>2, <2>3, WriteStates
<1>7. CASE e.kind = "application"
  <2> DEFINE c == CandidateOf(target[e.of])
  <2>1. c \in Effects /\ c # e
    BY <1>1, <1>7, OutcomeFacts, EffectNames
  <2>2. Writes(e, told, c, "applied")
    BY <1>1, <1>7 DEF WithOutcome, Writes
  <2>3. "applied" \in EffectStates /\ "applied" \notin Undecided
    BY DEF EffectStates, Undecided
  <2> HIDE DEF c, told, e
  <2>4. QED
    BY <1>2, <1>4, <1>5, <2>1, <2>2, <2>3, WriteStates
<1>8. CASE e.kind \notin {"check", "application"}
  <2>1. Write(e, told)
    BY <1>1, <1>8 DEF WithOutcome, Write
  <2> HIDE DEF told, e
  <2>2. QED
    BY <1>2, <1>4, <1>5, <2>1, WriteOne
<1>9. QED
  BY <1>6, <1>7, <1>8

\* What fails without the authority of its owner is uncertain, and what another
\* has settled is left alone.
LEMMA FailStates ==
  ASSUME Inv, NEW s \in Slots, NEW closed \in BOOLEAN, NEW recorded \in BOOLEAN, Fail(s, closed, recorded)
  PROVE  \/ eff' = eff
         \/ /\ recorded /\ Pending(job[s].on) /\ job[s].on \in Effects
            /\ \A d \in Effects :
                 \/ eff'[d] = eff[d]
                 \/ /\ eff[d].epoch = eff[job[s].on].epoch
                    /\ ~Authority(job[s].epoch) \/ job[s].on.kind = "application" => eff'[d].state = "uncertain"
<1> DEFINE e == job[s].on
<1>1. job[s].stage = "failing" /\ eff' = (IF recorded THEN Interrupted(s, closed) ELSE eff)
  BY DEF Fail
<1>2. /\ TypeOK /\ e \in Effects /\ eff[e].state # "absent" /\ (job[s].epoch = run.epoch => Pending(e))
  BY <1>1, OutcomeFacts
<1>3. eff \in [Effects -> EffectRows] /\ ChecksOK
  BY <1>2 DEF TypeOK, Inv, World
<1>4. CASE ~recorded \/ SettledByAnother(e, job[s].epoch)
  BY <1>1, <1>4 DEF Interrupted
<1>5. ASSUME recorded, ~SettledByAnother(e, job[s].epoch)
      PROVE  /\ Pending(e)
             /\ \A d \in Effects :
                  \/ eff'[d] = eff[d]
                  \/ /\ eff[d].epoch = eff[e].epoch
                     /\ ~Authority(job[s].epoch) \/ e.kind = "application" => eff'[d].state = "uncertain"
  <2>0. Pending(e)
    BY <1>2, <1>5 DEF SettledByAnother
  <2>1. CASE e.kind = "check"
    <3> DEFINE known == Authority(job[s].epoch) /\ ~Open(eff[e]) /\ (closed \/ (eff[e].proc = "closed" /\ ~eff[e].invoked))
               state == IF known THEN "cancelled" ELSE "uncertain"
               to == IF known THEN "failed" ELSE "uncertain"
               c == CandidateOf(e.of)
    <3>1. c \in Effects /\ c # e /\ eff[c].epoch = eff[e].epoch
      BY <1>2, <1>3, <2>1, EffectKinds, EffectNames DEF ChecksOK
    <3>2. Writes(e, state, c, to)
      BY <1>1, <1>5, <2>1 DEF Interrupted, Writes
    <3>3. /\ state \in EffectStates /\ to \in EffectStates
          /\ ~Authority(job[s].epoch) => state = "uncertain" /\ to = "uncertain"
      BY DEF EffectStates
    <3> HIDE DEF known, state, to, c, e
    <3>4. QED
      BY <1>2, <1>3, <2>0, <2>1, <3>1, <3>2, <3>3, WriteStates
  <2>2. CASE e.kind = "application"
    <3>1. Write(e, "uncertain") /\ "uncertain" \in EffectStates
      BY <1>1, <1>5, <2>0, <2>2 DEF Interrupted, Write, EffectStates
    <3> HIDE DEF e
    <3>2. QED
      BY <1>2, <1>3, <2>0, <2>2, <3>1, WriteOne
  <2>3. CASE e.kind \notin {"check", "application"}
    <3> DEFINE state == IF Authority(job[s].epoch) /\ ~Open(eff[e]) THEN "failed" ELSE "uncertain"
    <3>1. Write(e, state)
      BY <1>1, <1>5, <2>3 DEF Interrupted, Write
    <3>2. state \in EffectStates /\ (~Authority(job[s].epoch) => state = "uncertain")
      BY DEF EffectStates
    <3> HIDE DEF state, e
    <3>3. QED
      BY <1>2, <1>3, <2>0, <2>3, <3>1, <3>2, WriteOne
  <2>4. QED
    BY <2>1, <2>2, <2>3
<1>6. QED
  BY <1>2, <1>4, <1>5

LEMMA RecordApplicationStates ==
  ASSUME Inv, NEW s \in Slots, RecordApplication(s)
  PROVE  /\ job[s].on \in Effects /\ Pending(job[s].on)
         /\ \A d \in Effects : d # job[s].on => eff'[d] = eff[d] \/ eff'[d].state = "applied"
<1> DEFINE e == job[s].on
           c == target[e.of]
           state == IF job[s].saw = c THEN "applied"
                    ELSE IF job[s].saw = plan[c].base THEN "not_applied" ELSE "uncertain"
<1>1. /\ job[s].kind = "reconcile" /\ job[s].stage = "read"
      /\ IF state = "applied" THEN Writes(e, state, CandidateOf(c), "applied") ELSE Write(e, state)
  BY DEF RecordApplication, Write, Writes
<1>2. /\ TypeOK /\ JobInv(s) /\ e \in Effects
  BY <1>1, OnEffect DEF Inv, World
<1>3. e.kind = "application" /\ c \in Candidates /\ Pending(e)
  BY <1>1, <1>2 DEF JobInv, Suits, Observes
<1>4. eff \in [Effects -> EffectRows] /\ CandidateOf(c) \in Effects /\ CandidateOf(c) # e
  BY <1>2, <1>3, EffectNames DEF TypeOK
<1>5. state \in EffectStates /\ "applied" \in EffectStates
  BY DEF EffectStates
<1> HIDE DEF state, c, e
<1>6. \A d \in Effects : d # e => eff'[d] = eff[d] \/ eff'[d].state = "applied"
  <2>1. CASE state = "applied"
    BY <1>1, <1>2, <1>4, <1>5, <2>1, WriteStates
  <2>2. CASE state # "applied"
    BY <1>1, <1>2, <1>4, <1>5, <2>2, WriteOne
  <2>3. QED
    BY <2>1, <2>2
<1>7. QED
  BY <1>2, <1>3, <1>6 DEF e

\* A process that stops opens nothing, and one that starts belongs to an open
\* effect.
LEMMA ProcessStates ==
  ASSUME Inv, NEW s \in Slots,
         Launch(s) \/ Invoke(s) \/ (\E result \in EffectStates : Return(s, result)) \/ ReturnError(s) \/ Abort(s)
  PROVE  /\ job[s].on \in Effects
         /\ \A d \in Effects :
              /\ d # job[s].on => eff'[d] = eff[d]
              /\ eff'[d].state = eff[d].state /\ eff'[d].epoch = eff[d].epoch
         /\ Pending(job[s].on) \/ (Open(eff'[job[s].on]) => Open(eff[job[s].on]))
<1>1. job[s].stage \in Underway
  BY DEF Launch, Invoke, Return, ReturnError, Abort, Underway
<1>2. job[s].on \in Effects /\ eff \in [Effects -> EffectRows]
  BY <1>1, UnderwayFacts DEF TypeOK
<1>3. CASE Launch(s)
  <2>1. eff' = [eff EXCEPT ![job[s].on].proc = "intent"] /\ Pending(job[s].on)
    BY <1>3 DEF Launch, Mine, Pending
  <2>2. QED
    BY <1>2, <2>1 DEF EffectRows
<1>4. CASE Invoke(s)
  <2>1. /\ eff' = [eff EXCEPT ![job[s].on].proc = "invoked", ![job[s].on].invoked = TRUE, ![job[s].on].alive = TRUE]
        /\ Pending(job[s].on)
    BY <1>4 DEF Invoke, Mine, Pending
  <2>2. QED
    BY <1>2, <2>1 DEF EffectRows
<1>5. CASE (\E result \in EffectStates : Return(s, result)) \/ ReturnError(s) \/ Abort(s)
  <2>1. eff' = eff \/ eff' = [eff EXCEPT ![job[s].on].proc = "closed"]
    BY <1>5 DEF Return, ReturnError, Abort, SeenToStop
  <2>2. QED
    BY <1>2, <2>1 DEF EffectRows, Open
<1>6. QED
  BY <1>3, <1>4, <1>5

LEMMA StepsOpen ==
  ASSUME Inv, NEW s \in Slots, Steps(s) \/ Fail(s, FALSE, FALSE) \/ Finish(s, FALSE),
         NEW d \in Effects, EffectUnresolved(eff', d)
  PROVE  Opens(d)
<1> DEFINE e == job[s].on
<1>0. TypeOK /\ ChecksOK
  BY DEF Inv, World
<1>1. CASE \/ Begin(s) \/ TakeLock(s) \/ Refuse(s) \/ ReadCheckout(s) \/ RecordDenied(s)
           \/ InspectApplication(s) \/ Look(s) \/ NothingToLookAt(s) \/ ReadHead(s) \/ NotSeenToStop(s)
           \/ ReconcileOperation(s) \/ Finish(s, TRUE) \/ Finish(s, FALSE)
  <2>1. eff' = eff
    BY <1>1 DEF Begin, TakeLock, Refuse, ReadCheckout, RecordDenied, InspectApplication, Look, NothingToLookAt,
                ReadHead, NotSeenToStop, ReconcileOperation, Finish
  <2>2. QED
    BY <2>1, SameOpen
<1>2. ASSUME NEW state \in EffectStates, Intend(s, state) PROVE Opens(d)
  <2>1. Admitting(job[s].epoch) /\ run' = run
    BY <1>2 DEF Intend
  <2>2. /\ job[s].epoch = run.epoch /\ eff'[e].epoch = run.epoch /\ (d # e => eff'[d] = eff[d])
    BY <1>2, IntendFacts, IntendTables
  <2>3. QED
    BY <2>1, <2>2, SameOpen DEF Opens
<1>3. CASE Launch(s) \/ Invoke(s) \/ (\E result \in EffectStates : Return(s, result)) \/ ReturnError(s) \/ Abort(s)
  <2>1. eff'[d].state = eff[d].state /\ eff'[d].epoch = eff[d].epoch
    BY <1>3, ProcessStates
  <2>2. Pending(d) \/ (Open(eff'[d]) => Open(eff[d]))
    BY <1>3, ProcessStates
  <2>3. EffectUnresolved(eff, d)
    BY <2>1, <2>2 DEF EffectUnresolved, Pending
  <2>4. QED
    BY <2>1, <2>3 DEF Opens
<1>4. CASE RejectPaths(s)
  <2>1. OnlyStates /\ e \in Effects /\ Write(e, "rejected") /\ "rejected" \in EffectStates /\ "rejected" \notin Undecided
    BY <1>4, RejectPathsInv, OnEffect DEF RejectPaths, Write, EffectStates, Undecided
  <2>2. eff'[d].state = eff[d].state \/ eff'[d].state \notin Undecided
    <3>1. eff \in [Effects -> EffectRows]
      BY <1>0 DEF TypeOK
    <3> HIDE DEF e
    <3>2. QED
      BY <2>1, <3>1, WriteOne
  <2>3. QED
    BY <2>1, <2>2, StatesOpen
<1>5. CASE Record(s)
  <2>1. OnlyStates
    BY <1>5, RecordInv
  <2>2. QED
    BY <1>5, <2>1, RecordStates, StatesOpen
<1>6. ASSUME NEW closed \in BOOLEAN, NEW recorded \in BOOLEAN, Fail(s, closed, recorded) PROVE Opens(d)
  <2>1. OnlyStates
    BY <1>6, FailInv
  <2>2. CASE eff'[d] = eff[d]
    BY <2>2, SameOpen
  <2>3. CASE eff'[d] # eff[d]
    <3>1. Pending(e) /\ e \in Effects /\ eff[d].epoch = eff[e].epoch
      BY <1>6, <2>3, FailStates
    <3>2. EffectUnresolved(eff, e) /\ eff'[d].epoch = eff[e].epoch
      BY <2>1, <3>1 DEF OnlyStates, EffectUnresolved, Pending
    <3>3. QED
      BY <3>1, <3>2 DEF Opens
  <2>4. QED
    BY <2>2, <2>3
<1>7. CASE RecordApplication(s)
  <2>1. OnlyStates
    BY <1>7, RecordApplicationInv
  <2>2. Pending(d) \/ eff'[d] = eff[d] \/ eff'[d].state = "applied"
    BY <1>7, RecordApplicationStates
  <2>3. eff'[d].state = eff[d].state \/ eff'[d].state \notin Undecided \/ Pending(d)
    BY <2>2 DEF Undecided
  <2>4. QED
    BY <2>1, <2>3, StatesOpen
<1>8. CASE ReconcileEffect(s)
  <2>1. e \in Effects /\ eff' = Abandoned(eff, e)
    BY <1>8, OnEffect DEF ReconcileEffect
  <2>2. Judged(e)
    BY <1>0, <2>1, JudgedEffect
  <2>3. /\ eff'[d].epoch = eff[d].epoch /\ (Open(eff'[d]) => Open(eff[d]))
        /\ eff'[d].state = eff[d].state \/ eff'[d].state \notin Undecided
    BY <2>2 DEF Judged, Open, Undecided
  <2>4. QED
    BY <2>3, OpenBefore
<1>9. QED
  BY <1>1, <1>2, <1>3, <1>4, <1>5, <1>6, <1>7, <1>8 DEF Steps

LEMMA Opening ==
  ASSUME Inv, [Next]_vars, NEW d \in Effects, EffectUnresolved(eff', d)
  PROVE  Opens(d)
<1>0. eff \in [Effects -> EffectRows]
  BY DEF Inv, World, TypeOK
<1>1. CASE \E s \in Slots, w \in Writers, kind \in WriterSteps : StartWriterStep(s, kind, w)
  BY <1>1, SameOpen DEF StartWriterStep
<1>2. CASE \E s \in Slots, kind \in Kinds \ WriterSteps, e \in Effects \cup {NoEffect}, t \in Slots \cup {None},
              members \in SUBSET Writers, c \in Candidates \cup {None} :
                (kind = "operation" => t \in Slots) /\ Submit(s, kind, e, t, members, c)
  BY <1>2, SameOpen DEF Submit
<1>3. CASE \E s \in Slots : Steps(s) \/ Fail(s, FALSE, FALSE) \/ Finish(s, FALSE)
  BY <1>3, StepsOpen
<1>4. ASSUME NEW e \in Effects, NEW works \in BOOLEAN, ChildEnds(e, works) PROVE Opens(d)
  <2>1. eff' = [eff EXCEPT ![e].alive = FALSE]
    BY <1>4 DEF ChildEnds
  <2>2. eff'[d].epoch = eff[d].epoch /\ eff'[d].state = eff[d].state /\ eff'[d].proc = eff[d].proc
    BY <1>0, <2>1 DEF EffectRows
  <2>3. QED
    BY <2>2, OpenBefore DEF Open
<1>5. CASE \E w \in Writers : SubmitResult(w) \/ AttemptFails(w) \/ Reject(w) \/ \E c \in Candidates : AcceptWriter(w, c)
  <2>1. CASE \E w \in Writers : SubmitResult(w) \/ AttemptFails(w) \/ \E c \in Candidates : AcceptWriter(w, c)
    BY <2>1, SameOpen DEF SubmitResult, AttemptFails, AcceptWriter, Rows
  <2>2. ASSUME NEW w \in Writers, Reject(w) PROVE Opens(d)
    <3>1. CASE eff'[d] = eff[d]
      BY <3>1, SameOpen
    <3>2. CASE eff'[d] = [eff[d] EXCEPT !.state = "superseded"]
      <4>1. eff[d] \in EffectRows
        BY <1>0
      <4>2. eff'[d].epoch = eff[d].epoch /\ eff'[d].proc = eff[d].proc /\ eff'[d].state = "superseded"
        BY <3>2, <4>1 DEF EffectRows
      <4>3. eff'[d].state \notin Undecided
        BY <4>2 DEF Undecided
      <4>4. QED
        BY <4>2, <4>3, OpenBefore DEF Open
    <3>3. QED
      BY <2>2, <3>1, <3>2, RejectRows
  <2>3. QED
    BY <1>5, <2>1, <2>2
<1>6. CASE Pause \/ Resume \/ Stop \/ Complete \/ Recover
  BY <1>6, SameOpen DEF Pause, Resume, Stop, Complete, Recover, Control, Rows
<1>7. CASE Acquire
  <2>1. eff'[d] = FencedEffect(d) /\ eff[d] \in EffectRows
    BY <1>0, <1>7 DEF Acquire
  <2>2. /\ eff'[d].epoch = eff[d].epoch /\ (Open(eff'[d]) => Open(eff[d]))
        /\ eff'[d].state = eff[d].state \/ Pending(d)
    BY <2>1 DEF FencedEffect, EffectRows, Open, Pending
  <2>3. QED
    BY <2>2, OpenBefore
<1>8. CASE LeaseExpires \/ (\E h \in Epochs : HostCrash(h)) \/ (\E to \in Commits : PersonMoves(to))
  BY <1>8, SameOpen DEF LeaseExpires, HostCrash, PersonMoves, Rows
<1>9. CASE UNCHANGED vars
  BY <1>9, SameOpen DEF vars
<1>10. QED
  BY <1>1, <1>2, <1>3, <1>4, <1>5, <1>6, <1>7, <1>8, <1>9, NextSteps

-----------------------------------------------------------------------------
(* What a step does to the operations *)

JobKept(t) == /\ SameJob(t) /\ (job'[t].stage # "ended" => Alive(t))
              /\ job'[t].row \in Unsettled <=> job[t].row \in Unsettled

LEMMA TurnedKept ==
  ASSUME NEW s \in Slots, NEW stage \in Stages, Turned(s, stage), Alive(s),
         job'[s].row \in Unsettled <=> job[s].row \in Unsettled
  PROVE  \A t \in Slots : JobKept(t)
  BY DEF Turned, SameJob, JobKept, Alive

\* Only the two steps that settle operations settle any.
LEMMA StepsJobs ==
  ASSUME Inv, NEW s \in Slots, Steps(s) \/ Fail(s, FALSE, FALSE)
  PROVE  (\A t \in Slots : JobKept(t)) \/ ReconcileOperation(s) \/ Finish(s, TRUE)
<1>0. TypeOK
  BY DEF Inv, World
<1>1. ASSUME NEW stage \in Stages, job' = [job EXCEPT ![s].stage = stage], Alive(s)
      PROVE  \A t \in Slots : JobKept(t)
  BY <1>0, <1>1, TurnStage, TurnedKept
<1>2. ASSUME NEW stage \in Stages, NEW told \in EffectStates \cup {None, "completed"},
             job' = [job EXCEPT ![s].stage = stage, ![s].told = told], Alive(s)
      PROVE  \A t \in Slots : JobKept(t)
  BY <1>0, <1>2, TurnTold, TurnedKept
<1>3. CASE \/ TakeLock(s) \/ ReadCheckout(s) \/ RejectPaths(s) \/ Launch(s) \/ Invoke(s) \/ Record(s)
           \/ NotSeenToStop(s) \/ Look(s) \/ NothingToLookAt(s)
           \/ (\E closed \in BOOLEAN : Fail(s, closed, TRUE)) \/ Fail(s, FALSE, FALSE)
  <2>1. Alive(s) /\ \E stage \in Stages : job' = [job EXCEPT ![s].stage = stage]
    BY <1>3 DEF TakeLock, ReadCheckout, RejectPaths, Launch, Invoke, Record, NotSeenToStop, Look, NothingToLookAt, Fail, Goes,
                Leaves, Alive, Stages
  <2>2. QED
    BY Zenon, <1>1, <2>1
<1>4. CASE Refuse(s) \/ RecordDenied(s) \/ (\E result \in EffectStates : Return(s, result)) \/ ReturnError(s)
  <2>1. Alive(s) /\ \E stage \in Stages, told \in EffectStates \cup {None, "completed"} :
          job' = [job EXCEPT ![s].stage = stage, ![s].told = told]
    BY <1>4 DEF Refuse, RecordDenied, Return, ReturnError, SeenToStop, Alive, Stages, EffectStates
  <2>2. QED
    BY Zenon, <1>2, <2>1
<1>5. CASE Abort(s)
  <2>1. CASE job[s].stage = "launched" /\ SeenToStop(s, None, "failing")
    BY <1>2, <2>1 DEF SeenToStop, Alive, Stages
  <2>2. CASE job[s].stage = "intended" /\ Goes(s, "failing")
    BY <1>1, <2>2 DEF Goes, Alive, Stages
  <2>3. QED
    BY <1>5, <2>1, <2>2 DEF Abort
<1>6. CASE Begin(s)
  <2> DEFINE row == IF job[s].row = "queued" THEN "running" ELSE job[s].row
             stage == IF job[s].kind \in {"settle", "operation"} THEN "looking" ELSE "waiting"
  <2>1. job' = [job EXCEPT ![s].row = row, ![s].stage = stage]
    BY <1>6 DEF Begin
  <2>2. row \in {None, "completed", "failed", "cancelled"} \cup Unsettled /\ stage \in Stages
    BY <1>0 DEF TypeOK, Jobs, Unsettled, Stages
  <2>3. row \in Unsettled <=> job[s].row \in Unsettled
    BY DEF Unsettled
  <2>4. Alive(s)
    BY <1>6 DEF Begin, Alive
  <2> HIDE DEF row, stage
  <2>5. QED
    BY Zenon, <1>0, <2>1, <2>2, <2>3, <2>4, TurnRow, TurnedKept
<1>7. ASSUME NEW state \in EffectStates, Intend(s, state) PROVE \A t \in Slots : JobKept(t)
  <2>1. job' = [job EXCEPT ![s].stage = "intended", ![s].made = TRUE] /\ Alive(s) /\ "intended" \in Stages
    BY <1>7, IntendFacts DEF Intend, Stages
  <2>2. QED
    BY <1>0, <2>1, TurnMade, TurnedKept
<1>8. CASE InspectApplication(s)
  <2>1. Alive(s) /\ job[s].on \in Effects
    BY <1>8, OnEffect DEF InspectApplication, Alive
  <2>2. eff[job[s].on].state \in EffectStates \cup {None, "completed"}
    BY <1>0, <2>1 DEF TypeOK, EffectRows
  <2>3. CASE Pending(job[s].on)
    BY <1>1, <1>8, <2>1, <2>3 DEF InspectApplication, Goes, Stages
  <2>4. CASE ~Pending(job[s].on)
    <3> DEFINE told == eff[job[s].on].state
    <3>1. job' = [job EXCEPT ![s].stage = "finishing", ![s].told = told] /\ "finishing" \in Stages
      BY <1>8, <2>4 DEF InspectApplication, Stages
    <3>2. told \in EffectStates \cup {None, "completed"}
      BY <2>2
    <3> HIDE DEF told
    <3>3. QED
      BY <1>2, <2>1, <3>1, <3>2
  <2>5. QED
    BY <2>3, <2>4
<1>9. CASE ReconcileEffect(s)
  <2>1. CASE job[s].kind = "settle"
    BY <1>2, <1>9, <2>1 DEF ReconcileEffect, Alive, Stages
  <2>2. CASE job[s].kind # "settle"
    BY <1>1, <1>9, <2>2 DEF ReconcileEffect, Alive, Stages
  <2>3. QED
    BY <2>1, <2>2
<1>10. CASE ReadHead(s)
  <2>1. job' = [job EXCEPT ![s].stage = "read", ![s].saw = head] /\ Alive(s) /\ "read" \in Stages /\ head \in Commits
    BY <1>0, <1>10 DEF ReadHead, Alive, Stages, TypeOK
  <2>2. QED
    BY <1>0, <2>1, TurnSaw, TurnedKept
<1>11. CASE RecordApplication(s)
  <2>1. PICK state \in {"applied", "not_applied", "uncertain"} :
          job' = [job EXCEPT ![s].stage = "finishing", ![s].told = state]
    BY <1>11 DEF RecordApplication
  <2>2. state \in EffectStates \cup {None, "completed"} /\ Alive(s) /\ "finishing" \in Stages
    BY <1>11 DEF EffectStates, RecordApplication, Alive, Stages
  <2>3. QED
    BY Zenon, <1>2, <2>1, <2>2
<1>12. QED
  BY <1>3, <1>4, <1>5, <1>6, <1>7, <1>8, <1>9, <1>10, <1>11 DEF Steps

\* Rows of operations are opened by the owner who asks for them.
LEMMA RowsOpening ==
  ASSUME Inv, [Next]_vars, NEW t \in Slots, job'[t].row \in Unsettled
  PROVE  \/ job[t].row \in Unsettled /\ job'[t].kind = job[t].kind
         \/ run' = run /\ (job'[t].kind \in Observations \/ Admitting(run.epoch))
<1>0. TypeOK
  BY DEF Inv, World
<1>1. ASSUME NEW s \in Slots, NEW w \in Writers, NEW kind \in WriterSteps, StartWriterStep(s, kind, w)
      PROVE  job'[t] = job[t]
  <2>1. job' = [job EXCEPT ![s] = NewJob(kind, WriterOf(w), None, None, "waiting")]
    BY <1>1 DEF StartWriterStep
  <2>2. t = s => job'[t].row = None
    BY <1>0, <2>1 DEF TypeOK, NewJob, NoJob
  <2>3. QED
    BY <1>0, <2>1, <2>2 DEF TypeOK, Unsettled, None
<1>2. ASSUME NEW s \in Slots, NEW kind \in Kinds \ WriterSteps, NEW e \in Effects \cup {NoEffect},
             NEW o \in Slots \cup {None}, NEW members \in SUBSET Writers, NEW c \in Candidates \cup {None},
             Submit(s, kind, e, o, members, c)
      PROVE  job'[t] = job[t] \/ (run' = run /\ (job'[t].kind \in Observations \/ Admitting(run.epoch)))
  <2>1. /\ job' = [job EXCEPT ![s] = NewJob(kind, e, o, "queued", "queued")] /\ run' = run
        /\ kind \notin Observations => Admitting(run.epoch)
    BY <1>2 DEF Submit
  <2>2. t = s => job'[t].kind = kind
    BY <1>0, <2>1 DEF TypeOK, NewJob, NoJob
  <2>3. QED
    BY <1>0, <2>1, <2>2 DEF TypeOK
<1>3. ASSUME NEW s \in Slots, Steps(s) \/ Fail(s, FALSE, FALSE) \/ Finish(s, FALSE)
      PROVE  job[t].row \in Unsettled /\ job'[t].kind = job[t].kind
  <2>1. CASE \A u \in Slots : JobKept(u)
    BY <2>1 DEF JobKept, SameJob
  <2>2. CASE ReconcileOperation(s) \/ Finish(s, TRUE) \/ Finish(s, FALSE)
    BY <1>0, <2>2, OperationRows, FinishRows
  <2>3. QED
    BY <1>3, <2>1, <2>2, StepsJobs
<1>4. CASE \E e \in Effects, works \in BOOLEAN : ChildEnds(e, works)
  BY <1>4 DEF ChildEnds
<1>5. CASE \E w \in Writers : SubmitResult(w) \/ AttemptFails(w) \/ Reject(w) \/ \E c \in Candidates : AcceptWriter(w, c)
  BY <1>5 DEF SubmitResult, AttemptFails, Reject, AcceptWriter, Rows
<1>6. CASE Pause \/ Resume \/ Stop \/ Complete \/ Recover
  BY <1>6 DEF Pause, Resume, Stop, Complete, Recover, Control, Rows
<1>7. CASE Acquire
  <2>1. job'[t] = IF job[t].row \in {"queued", "running"} THEN [job[t] EXCEPT !.row = "uncertain"] ELSE job[t]
    BY <1>7 DEF Acquire
  <2>2. job[t] \in Jobs
    BY <1>0 DEF TypeOK
  <2>3. QED
    BY <2>1, <2>2 DEF Jobs, Unsettled
<1>8. ASSUME NEW h \in Epochs, HostCrash(h) PROVE job[t].row \in Unsettled /\ job'[t].kind = job[t].kind
  <2>1. job'[t] = (IF job[t].epoch = h THEN Left(job[t]) ELSE job[t]) /\ job[t] \in Jobs
    BY <1>0, <1>8 DEF HostCrash, TypeOK
  <2>2. QED
    BY <2>1, LeftGone
<1>9. CASE LeaseExpires \/ (\E to \in Commits : PersonMoves(to)) \/ UNCHANGED vars
  BY <1>9 DEF LeaseExpires, PersonMoves, Rows, vars
<1>10. QED
  BY <1>1, <1>2, <1>3, <1>4, <1>5, <1>6, <1>7, <1>8, <1>9, NextSteps

-----------------------------------------------------------------------------
(* The run row *)

\* An ended run is over in the tables of integration.
Ended == run.state \in Terminal =>
  /\ \A e \in Effects : ~EffectUnresolved(eff, e)
  /\ \A s \in Slots : job[s].row \in Unsettled => job[s].kind \in Observations

\* Recovery ends only when what earlier owners began is settled.
PastSettled == run.state # "recovery_required" =>
  \A e \in Effects : EffectUnresolved(eff, e) => eff[e].epoch = run.epoch

\* A run waits to pause or to stop only for something that is open.
Draining ==
  /\ run.state = "pausing" => IntegrationUnresolved(eff, job)
  /\ run.state = "stopping" => run.stop /\ Unresolved(eff, att, job)

\* Who settles an operation is itself an open operation, of a later owner.
Operation(s) == Alive(s) /\ job[s].kind = "operation" =>
  /\ job[s].other \in Slots /\ job[job[s].other].epoch < job[s].epoch
  /\ job[s].epoch = run.epoch => job[s].row \in Unsettled
Operations == \A s \in Slots : Operation(s)

RunInv == Ended /\ PastSettled /\ Draining /\ Operations

\* A step that settles nothing.
Keeps ==
  /\ \A e \in Effects : EffectUnresolved(eff, e) => EffectUnresolved(eff', e)
  /\ (\E s \in Slots : job[s].row \in Unsettled) => \E s \in Slots : job'[s].row \in Unsettled
  /\ \A w \in Writers : att[w].state = "running" => att'[w].state = "running"

LEMMA KeepsOpen ==
  ASSUME Keeps
  PROVE  /\ IntegrationUnresolved(eff, job) => IntegrationUnresolved(eff', job')
         /\ Unresolved(eff, att, job) => Unresolved(eff', att', job')
<1>1. IntegrationUnresolved(eff, job) => IntegrationUnresolved(eff', job')
  BY DEF Keeps, IntegrationUnresolved
<1>2. QED
  BY <1>1 DEF Keeps, Unresolved

\* A checkpoint that settles nothing leaves the run as it is.
LEMMA KeepsRun ==
  ASSUME run \in RunRows, Draining, NEW b \in BOOLEAN, Commit(run, b),
         run.state \in {"pausing", "stopping"} => Keeps
  PROVE  run' = run
<1>1. /\ run.state = "pausing" => IntegrationUnresolved(eff', job')
      /\ run.state = "stopping" => Unresolved(eff', att', job')
  BY KeepsOpen DEF Draining
<1>2. QED
  BY <1>1 DEF Commit, Checkpointed

LEMMA StepsCommit ==
  ASSUME NEW s \in Slots, Steps(s) \/ Fail(s, FALSE, FALSE) \/ Finish(s, FALSE)
  PROVE  \E b \in BOOLEAN : Commit(run, b)
<1>0. run' = run => Commit(run, FALSE)
  BY DEF Commit
<1>1. CASE \/ Begin(s) \/ TakeLock(s) \/ Refuse(s) \/ ReadCheckout(s) \/ RecordDenied(s)
           \/ InspectApplication(s) \/ Look(s) \/ NothingToLookAt(s) \/ ReadHead(s) \/ NotSeenToStop(s)
           \/ ReconcileOperation(s)
           \/ (\E state \in EffectStates : Intend(s, state)) \/ Launch(s) \/ Invoke(s)
  BY <1>0, <1>1 DEF Begin, TakeLock, Refuse, ReadCheckout, RecordDenied, InspectApplication, Look, NothingToLookAt,
                    ReadHead, NotSeenToStop, ReconcileOperation, Intend, Launch, Invoke
<1>2. CASE \/ RejectPaths(s) \/ Record(s) \/ ReconcileEffect(s) \/ RecordApplication(s)
           \/ (\E result \in EffectStates : Return(s, result)) \/ ReturnError(s) \/ Abort(s)
  BY <1>0, <1>2 DEF RejectPaths, Record, ReconcileEffect, RecordApplication, Return, ReturnError, Abort, SeenToStop
<1>3. ASSUME NEW closed \in BOOLEAN, NEW recorded \in BOOLEAN, Fail(s, closed, recorded)
      PROVE  \E b \in BOOLEAN : Commit(run, b)
  <2> DEFINE b == recorded /\ job[s].on.kind # "application" /\ Authority(job[s].epoch)
  <2>1. b \in BOOLEAN /\ Commit(run, b)
    BY <1>3 DEF Fail
  <2> HIDE DEF b
  <2>2. QED
    BY <2>1
<1>4. ASSUME NEW recorded \in BOOLEAN, Finish(s, recorded) PROVE \E b \in BOOLEAN : Commit(run, b)
  <2> DEFINE b == recorded /\ job[s].row \in Unsettled /\ Authority(job[s].epoch)
  <2>1. b \in BOOLEAN /\ Commit(run, b)
    BY <1>4 DEF Finish
  <2> HIDE DEF b
  <2>2. QED
    BY <2>1
<1>5. QED
  BY Zenon, <1>1, <1>2, <1>3, <1>4 DEF Steps

\* What a thread reports without being the owner settles nothing the run waits for.
LEMMA StepsRun ==
  ASSUME Inv, PastSettled, Operations, run.state \in {"pausing", "stopping"},
         NEW s \in Slots, Steps(s) \/ Fail(s, FALSE, FALSE) \/ Finish(s, FALSE)
  PROVE  Keeps \/ (run.live /\ Commit(run, TRUE))
<1> DEFINE e == job[s].on
<1>0. TypeOK
  BY DEF Inv, World
<1>1. ASSUME \A t \in Slots : JobKept(t), UNCHANGED att,
             \A d \in Effects : EffectUnresolved(eff, d) => EffectUnresolved(eff', d)
      PROVE  Keeps
  BY <1>1 DEF Keeps, JobKept
<1>2. CASE ReconcileOperation(s)
  <2>1. UNCHANGED <<att, eff>> /\ job[s].kind = "operation" /\ Alive(s) /\ job[s].epoch = run.epoch
    BY <1>2 DEF ReconcileOperation, Authority, Alive
  <2>2. job[s].other # s /\ job[s].row \in Unsettled
    BY <1>0, <2>1, Numbers DEF Operations, Operation
  <2>3. job'[s].row \in Unsettled
    BY <1>0, <1>2, <2>2, OperationRows
  <2>4. QED
    BY <2>1, <2>3 DEF Keeps
<1>3. ASSUME NEW recorded \in BOOLEAN, Finish(s, recorded) PROVE Keeps \/ (run.live /\ Commit(run, TRUE))
  <2>1. CASE recorded /\ job[s].row \in Unsettled /\ Authority(job[s].epoch)
    <3>1. Commit(run, (recorded /\ job[s].row \in Unsettled) /\ Authority(job[s].epoch))
      BY <1>3 DEF Finish
    <3>2. QED
      BY <2>1, <3>1 DEF Authority, Commit
  <2>2. CASE ~(recorded /\ job[s].row \in Unsettled /\ Authority(job[s].epoch))
    <3>1. UNCHANGED <<att, eff>>
      BY <1>3 DEF Finish
    <3>2. \A t \in Slots : job[t].row \in Unsettled => job'[t].row \in Unsettled
      BY <1>0, <1>3, <2>2, FinishRows
    <3>3. QED
      BY <3>1, <3>2 DEF Keeps
  <2>3. QED
    BY <2>1, <2>2
<1>4. CASE \/ Begin(s) \/ TakeLock(s) \/ Refuse(s) \/ ReadCheckout(s) \/ RecordDenied(s)
           \/ InspectApplication(s) \/ Look(s) \/ NothingToLookAt(s) \/ ReadHead(s) \/ NotSeenToStop(s)
  <2>1. UNCHANGED <<att, eff>> /\ Steps(s)
    BY <1>4 DEF Begin, TakeLock, Refuse, ReadCheckout, RecordDenied, InspectApplication, Look, NothingToLookAt,
                ReadHead, NotSeenToStop, Steps
  <2>2. (\A t \in Slots : JobKept(t)) \/ ReconcileOperation(s) \/ Finish(s, TRUE)
    BY <2>1, StepsJobs
  <2>3. QED
    BY <1>1, <1>2, <1>3, <2>1, <2>2
<1>5. CASE (\E state \in EffectStates : Intend(s, state)) \/ RejectPaths(s) \/ Launch(s) \/ Invoke(s) \/ Record(s)
  BY <1>5 DEF Intend, RejectPaths, Launch, Invoke, Record, Admitting
<1>6. CASE (\E result \in EffectStates : Return(s, result)) \/ ReturnError(s) \/ Abort(s)
  <2>1. /\ job[s].stage \in Underway /\ UNCHANGED att /\ ~ReconcileOperation(s) /\ ~Finish(s, TRUE) /\ Steps(s)
    BY <1>6 DEF Return, ReturnError, Abort, SeenToStop, Underway, ReconcileOperation, Finish, Steps
  <2>2. JobInv(s) /\ e \in Effects
    BY <2>1, UnderwayFacts
  <2>3. \A d \in Effects : (d # e => eff'[d] = eff[d]) /\ eff'[d].state = eff[d].state
    BY <1>6, ProcessStates
  <2>4. EffectUnresolved(eff, e) => EffectUnresolved(eff', e)
    <3>1. CASE Pending(e)
      BY <2>2, <2>3, <3>1 DEF Pending, EffectUnresolved
    <3>2. CASE ~Pending(e)
      <4>1. eff[e].epoch # run.epoch
        BY <2>1, <2>2, <3>2 DEF JobInv, Follows
      <4>2. ~EffectUnresolved(eff, e)
        BY <2>2, <4>1 DEF PastSettled
      <4>3. QED
        BY <4>2
    <3>3. QED
      BY <3>1, <3>2
  <2>5. \A d \in Effects : EffectUnresolved(eff, d) => EffectUnresolved(eff', d)
    BY <2>3, <2>4 DEF EffectUnresolved
  <2>6. QED
    BY <1>1, <2>1, <2>5, StepsJobs
<1>7. ASSUME NEW closed \in BOOLEAN, NEW recorded \in BOOLEAN, Fail(s, closed, recorded),
             Steps(s) \/ Fail(s, FALSE, FALSE)
      PROVE  Keeps \/ (run.live /\ Commit(run, TRUE))
  <2>1. CASE recorded /\ e.kind # "application" /\ Authority(job[s].epoch)
    <3>1. Commit(run, recorded /\ job[s].on.kind # "application" /\ Authority(job[s].epoch))
      BY <1>7 DEF Fail
    <3>2. QED
      BY <2>1, <3>1 DEF Authority, Commit
  <2>2. CASE ~(recorded /\ e.kind # "application" /\ Authority(job[s].epoch))
    <3>1. OnlyStates
      BY <1>7, FailInv
    <3>2. \A d \in Effects : eff'[d] = eff[d] \/ eff'[d].state = "uncertain"
      BY <1>7, <2>2, FailStates
    <3>3. \A d \in Effects : EffectUnresolved(eff, d) => EffectUnresolved(eff', d)
      BY <3>2 DEF EffectUnresolved
    <3>4. UNCHANGED att /\ ~ReconcileOperation(s) /\ ~Finish(s, TRUE)
      BY <1>7 DEF Fail, ReconcileOperation, Finish
    <3>5. QED
      BY <1>1, <1>7, <3>3, <3>4, StepsJobs
  <2>3. QED
    BY <2>1, <2>2
<1>8. CASE ReconcileEffect(s) \/ RecordApplication(s)
  BY <1>8 DEF ReconcileEffect, RecordApplication, Authority
<1>9. QED
  BY <1>4, <1>5, <1>6, <1>7, <1>8, <1>2, <1>3 DEF Steps


\* How a step of the whole moves the run.
Moves ==
  \/ run' = run /\ (run.state \in {"pausing", "stopping"} => Keeps)
  \/ run.live /\ Commit(run, TRUE)
  \/ Pause \/ Resume \/ Stop \/ Complete \/ Recover \/ Acquire \/ LeaseExpires

LEMMA RunMoves == ASSUME Inv, RunInv, [Next]_vars PROVE Moves
<1>0. TypeOK /\ run \in RunRows
  BY DEF Inv, World, TypeOK
<1>1. ASSUME NEW s \in Slots, NEW w \in Writers, NEW kind \in WriterSteps, StartWriterStep(s, kind, w)
      PROVE  Moves
  <2>1. /\ run' = run /\ eff' = eff /\ att' = [att EXCEPT ![w].state = "running"] /\ job[s].row \notin Unsettled
        /\ job' = [job EXCEPT ![s] = NewJob(kind, WriterOf(w), None, None, "waiting")]
    BY <1>1 DEF StartWriterStep, Idle
  <2>2. \A v \in Writers : att[v].state = "running" => att'[v].state = "running"
    BY <1>0, <2>1 DEF TypeOK
  <2>3. \A u \in Slots : job[u].row \in Unsettled => job'[u].row \in Unsettled
    BY <1>0, <2>1 DEF TypeOK
  <2>4. Keeps
    BY <2>1, <2>2, <2>3 DEF Keeps
  <2>5. QED
    BY <2>1, <2>4 DEF Moves
<1>2. ASSUME NEW s \in Slots, NEW kind \in Kinds \ WriterSteps, NEW e \in Effects \cup {NoEffect},
             NEW o \in Slots \cup {None}, NEW members \in SUBSET Writers, NEW c \in Candidates \cup {None},
             Submit(s, kind, e, o, members, c)
      PROVE  Moves
  <2>1. /\ run' = run /\ eff' = eff /\ att' = att /\ job[s].row \notin Unsettled
        /\ job' = [job EXCEPT ![s] = NewJob(kind, e, o, "queued", "queued")]
    BY <1>2 DEF Submit, Idle
  <2>2. \A u \in Slots : job[u].row \in Unsettled => job'[u].row \in Unsettled
    BY <1>0, <2>1 DEF TypeOK
  <2>3. Keeps
    BY <2>1, <2>2 DEF Keeps
  <2>4. QED
    BY <2>1, <2>3 DEF Moves
<1>3. ASSUME NEW s \in Slots, Steps(s) \/ Fail(s, FALSE, FALSE) \/ Finish(s, FALSE)
      PROVE  Moves
  <2>1. PICK b \in BOOLEAN : Commit(run, b)
    BY <1>3, StepsCommit
  <2>2. CASE run.state \in {"pausing", "stopping"} => Keeps
    BY <1>0, <2>1, <2>2, KeepsRun DEF RunInv, Moves
  <2>3. CASE run.state \in {"pausing", "stopping"} /\ ~Keeps
    BY <1>3, <2>3, StepsRun DEF RunInv, Moves
  <2>4. QED
    BY <2>2, <2>3
<1>4. ASSUME NEW e \in Effects, NEW works \in BOOLEAN, ChildEnds(e, works) PROVE Moves
  <2>1. eff' = [eff EXCEPT ![e].alive = FALSE] /\ UNCHANGED <<run, att, job>>
    BY <1>4 DEF ChildEnds
  <2>2. \A d \in Effects : eff'[d].state = eff[d].state /\ eff'[d].proc = eff[d].proc
    BY <1>0, <2>1 DEF TypeOK, EffectRows
  <2>3. \A d \in Effects : EffectUnresolved(eff, d) => EffectUnresolved(eff', d)
    BY <2>2 DEF EffectUnresolved, Open
  <2>4. Keeps
    BY <2>1, <2>3 DEF Keeps
  <2>5. QED
    BY <2>1, <2>4 DEF Moves
<1>5. CASE \E w \in Writers : SubmitResult(w) \/ AttemptFails(w) \/ Reject(w) \/ \E c \in Candidates : AcceptWriter(w, c)
  BY <1>5 DEF SubmitResult, AttemptFails, Reject, AcceptWriter, Owner, Moves
<1>6. CASE Pause \/ Resume \/ Stop \/ Complete \/ Recover \/ Acquire \/ LeaseExpires
  BY <1>6 DEF Moves
<1>7. ASSUME NEW h \in Epochs, HostCrash(h) PROVE Moves
  <2>1. UNCHANGED <<run, att, eff>>
    BY <1>7 DEF HostCrash
  <2>2. ASSUME NEW u \in Slots, job[u].row \in Unsettled PROVE job'[u].row \in Unsettled
    <3>1. job'[u] = (IF job[u].epoch = h THEN Left(job[u]) ELSE job[u]) /\ job[u] \in Jobs
      BY <1>0, <1>7 DEF HostCrash, TypeOK
    <3>2. QED
      BY <2>2, <3>1, LeftGone
  <2>3. Keeps
    BY <2>1, <2>2 DEF Keeps
  <2>4. QED
    BY <2>1, <2>3 DEF Moves
<1>8. CASE (\E to \in Commits : PersonMoves(to)) \/ UNCHANGED vars
  <2>1. UNCHANGED <<run, att, eff, job>>
    BY <1>8 DEF PersonMoves, vars
  <2>2. QED
    BY <2>1 DEF Keeps, Moves
<1>9. QED
  BY <1>1, <1>2, <1>3, <1>4, <1>5, <1>6, <1>7, <1>8, NextSteps


-----------------------------------------------------------------------------
(* Who settles operations *)

LEMMA OperationKept ==
  ASSUME Inv, NEW t \in Slots, Operation(t), SameJob(t), Alive(t)' => Alive(t),
         job'[t].epoch = run'.epoch => job[t].epoch = run.epoch,
         \A u \in Slots : job'[u].epoch \in Nat /\ (u = job[t].other => job'[u].epoch <= job[u].epoch),
         Alive(t) /\ job[t].kind = "operation" /\ job[t].epoch = run.epoch /\ job[t].row \in Unsettled =>
           job'[t].row \in Unsettled
  PROVE  Operation(t)'
<1>0. \A u \in Slots : job[u].epoch \in Nat
  BY Numbers DEF Inv, World
<1>1. SUFFICES ASSUME Alive(t)', job'[t].kind = "operation"
               PROVE  /\ job'[t].other \in Slots /\ job'[job'[t].other].epoch < job'[t].epoch
                      /\ job'[t].epoch = run'.epoch => job'[t].row \in Unsettled
  BY DEF Operation
<1>2. /\ job[t].other \in Slots /\ job[job[t].other].epoch < job[t].epoch
      /\ job[t].epoch = run.epoch => job[t].row \in Unsettled
  BY <1>1 DEF Operation, SameJob
<1>3. job'[t].other = job[t].other /\ job'[t].epoch = job[t].epoch
  BY DEF SameJob
<1>4. QED
  BY <1>0, <1>1, <1>2, <1>3 DEF SameJob

\* Threads that leave keep nothing.
LEMMA OperationsKept ==
  ASSUME Inv, Operations, run'.epoch = run.epoch,
         \A u \in Slots : (SameJob(u) /\ (Alive(u)' => Alive(u))) \/ Gone(u),
         \A u \in Slots : Alive(u)' /\ job[u].kind = "operation" /\ job[u].epoch = run.epoch /\ job[u].row \in Unsettled =>
           job'[u].row \in Unsettled
  PROVE  Operations'
<1>0. \A u \in Slots : job[u].epoch \in Nat
  BY Numbers DEF Inv, World
<1>1. \A u \in Slots : job'[u].epoch \in Nat /\ job'[u].epoch <= job[u].epoch
  BY <1>0 DEF SameJob, Gone
<1>2. ASSUME NEW t \in Slots PROVE Operation(t)'
  <2>1. CASE Alive(t)'
    <3>1. SameJob(t) /\ (Alive(t)' => Alive(t))
      BY <2>1 DEF Gone, Alive
    <3>2. QED
      BY <1>1, <2>1, <3>1, OperationKept DEF Operations, SameJob
  <2>2. CASE ~Alive(t)'
    BY <2>2 DEF Operation
  <2>3. QED
    BY <2>1, <2>2
<1>3. QED
  BY <1>2 DEF Operations

LEMMA OperationsReconcile ==
  ASSUME Inv, Operations, NEW s \in Slots, ReconcileOperation(s)
  PROVE  Operations'
<1>0. TypeOK
  BY DEF Inv, World
<1> DEFINE o == job[s].other
<1>1. job[s].kind = "operation" /\ Alive(s) /\ job[s].epoch = run.epoch
  BY DEF ReconcileOperation, Authority, Alive
<1>2. o \in Slots /\ job[o].epoch < run.epoch /\ o # s
  BY <1>0, <1>1, Numbers DEF Operations, Operation
<1>3. \A u \in Slots : u # s /\ u # o => job'[u] = job[u]
  BY <1>0 DEF ReconcileOperation, TypeOK
<1> HIDE DEF o
<1>4. \A u \in Slots : (SameJob(u) /\ (Alive(u)' => Alive(u))) \/ Gone(u)
  BY <1>0, OperationRows DEF SameThread, Alive
<1>5. job[s].row \in Unsettled => job'[s].row \in Unsettled
  BY <1>0, <1>2, OperationRows DEF o
<1>6. \A u \in Slots : job[u].epoch = run.epoch /\ job[u].row \in Unsettled => job'[u].row \in Unsettled
  BY <1>0, <1>2, <1>3, <1>5, Numbers
<1>7. run'.epoch = run.epoch
  BY <1>0, OperationRows
<1>8. QED
  BY <1>4, <1>6, <1>7, OperationsKept

LEMMA OperationsFinish ==
  ASSUME Inv, Operations, NEW s \in Slots, NEW recorded \in BOOLEAN, Finish(s, recorded)
  PROVE  Operations'
<1>0. TypeOK /\ run \in RunRows
  BY DEF Inv, World, TypeOK
<1> DEFINE mine == recorded /\ job[s].row \in Unsettled
<1>1. /\ job'[s].stage = "ended"
      /\ \A t \in Slots : t # s => job'[t] = IF mine /\ t \in Siblings(s) THEN Settled(t, Reported(s)) ELSE job[t]
  BY <1>0, FinishRows DEF Finish, Gone
<1>2. \A u \in Slots : (SameJob(u) /\ (Alive(u)' => Alive(u))) \/ Gone(u)
  BY <1>0, FinishRows DEF SameThread, Alive
<1>3. ASSUME NEW u \in Slots, Alive(u)', job[u].kind = "operation", job[u].row \in Unsettled
      PROVE  job'[u].row \in Unsettled
  <2>1. u # s /\ u \notin Siblings(s)
    BY <1>1, <1>3 DEF Alive, Siblings
  <2>2. QED
    BY <1>1, <1>3, <2>1
<1>4. run'.epoch = run.epoch
  <2>1. PICK b \in BOOLEAN : Commit(run, b)
    BY StepsCommit, <1>0 DEF Finish
  <2>2. QED
    BY <1>0, <2>1, Committed
<1>5. QED
  BY <1>2, <1>3, <1>4, OperationsKept

LEMMA OperationsStart ==
  ASSUME Inv, Operations, NEW s \in Slots, Idle(s), run' = run, NEW kind \in Kinds, NEW e \in Effects \cup {NoEffect},
         NEW o \in Slots \cup {None}, NEW row \in {None, "queued"}, NEW stage \in {"queued", "waiting"},
         job' = [job EXCEPT ![s] = NewJob(kind, e, o, row, stage)],
         kind = "operation" => /\ o \in Slots /\ job[o].row \in Unsettled /\ job[o].epoch < run.epoch
                               /\ row = "queued"
  PROVE  Operations'
<1>0. TypeOK
  BY DEF Inv, World
<1> DEFINE j == NewJob(kind, e, o, row, stage)
<1>1. j.kind = kind /\ j.other = o /\ j.epoch = run.epoch /\ j.row = row
  BY <1>0, NewJobFields
<1>2. job'[s] = j /\ \A u \in Slots : u # s => job'[u] = job[u]
  BY <1>0 DEF TypeOK
<1> HIDE DEF j
<1>3. Operation(s)'
  <2>1. kind = "operation" => o # s
    BY DEF Idle
  <2>2. QED
    BY <1>1, <1>2, <2>1 DEF Operation, Unsettled
<1>4. ASSUME NEW t \in Slots, t # s PROVE Operation(t)'
  <2>1. job'[t] = job[t] /\ Operation(t) /\ (Alive(t) => job[t].other # s)
    BY <1>2, <1>4 DEF Operations, Idle
  <2>2. QED
    BY <1>2, <2>1 DEF Operation, Alive
<1>5. QED
  BY <1>3, <1>4 DEF Operations

LEMMA OperationsNext == ASSUME Inv, RunInv, [Next]_vars PROVE Operations'
<1>0. TypeOK /\ run \in RunRows /\ Operations
  BY DEF Inv, World, TypeOK, RunInv
<1>1. ASSUME NEW s \in Slots, NEW w \in Writers, NEW kind \in WriterSteps, StartWriterStep(s, kind, w)
      PROVE  Operations'
  <2>1. /\ Idle(s) /\ run' = run /\ job' = [job EXCEPT ![s] = NewJob(kind, WriterOf(w), None, None, "waiting")]
        /\ kind \in Kinds /\ kind # "operation" /\ WriterOf(w) \in Effects
    BY <1>1, EffectNames DEF StartWriterStep, WriterSteps, Kinds
  <2>2. QED
    BY <1>0, <2>1, OperationsStart
<1>2. ASSUME NEW s \in Slots, NEW kind \in Kinds \ WriterSteps, NEW e \in Effects \cup {NoEffect},
             NEW o \in Slots \cup {None}, NEW members \in SUBSET Writers, NEW c \in Candidates \cup {None},
             kind = "operation" => o \in Slots, Submit(s, kind, e, o, members, c)
      PROVE  Operations'
  <2>1. /\ Idle(s) /\ run' = run /\ job' = [job EXCEPT ![s] = NewJob(kind, e, o, "queued", "queued")]
        /\ kind = "operation" => job[o].row \in Unsettled /\ job[o].epoch < run.epoch
    BY <1>2 DEF Submit, Valid
  <2>2. QED
    BY <1>0, <1>2, <2>1, OperationsStart
<1>3. ASSUME NEW s \in Slots, Steps(s) \/ Fail(s, FALSE, FALSE) \/ Finish(s, FALSE)
      PROVE  Operations'
  <2>1. CASE ReconcileOperation(s) \/ Finish(s, TRUE) \/ Finish(s, FALSE)
    BY <1>0, <2>1, OperationsReconcile, OperationsFinish
  <2>2. CASE \A u \in Slots : JobKept(u)
    <3>1. PICK b \in BOOLEAN : Commit(run, b)
      BY <1>3, StepsCommit
    <3>2. run'.epoch = run.epoch
      BY <1>0, <3>1, Committed
    <3>3. QED
      BY <1>0, <2>2, <3>2, OperationsKept DEF JobKept, Alive
  <2>3. QED
    BY <1>3, <2>1, <2>2, StepsJobs
<1>4. ASSUME UNCHANGED job, run'.epoch = run.epoch PROVE Operations'
  BY <1>0, <1>4 DEF Operations, Operation, Alive
<1>5. CASE \E w \in Writers : SubmitResult(w) \/ AttemptFails(w) \/ Reject(w) \/ \E c \in Candidates : AcceptWriter(w, c)
  <2>1. UNCHANGED job /\ Commit(run, TRUE)
    BY <1>5 DEF SubmitResult, AttemptFails, Reject, AcceptWriter, Rows
  <2>2. QED
    BY <1>0, <1>4, <2>1, Committed
<1>6. CASE Pause \/ Resume \/ Stop \/ Complete \/ Recover
  <2>1. PICK rn \in RunRows : rn.epoch = run.epoch /\ Control(rn)
    BY <1>0, <1>6, ControlRow
  <2>2. QED
    BY <1>4, <2>1, Committed DEF Control, Rows
<1>7. CASE Acquire
  <2>1. run'.epoch = run.epoch + 1
    BY <1>0, <1>7 DEF Acquire, RunRows
  <2>2. ASSUME NEW u \in Slots
        PROVE  /\ SameJob(u) /\ (Alive(u)' => Alive(u)) /\ job'[u].epoch \in Nat /\ job'[u].epoch <= job[u].epoch
               /\ job'[u].epoch # run'.epoch /\ (job[u].row \in Unsettled => job'[u].row \in Unsettled)
    <3>1. job'[u] = (IF job[u].row \in {"queued", "running"} THEN [job[u] EXCEPT !.row = "uncertain"] ELSE job[u])
          /\ job[u] \in Jobs
      BY <1>0, <1>7, Numbers DEF Acquire
    <3>2. SameJob(u) /\ (Alive(u)' => Alive(u)) /\ (job[u].row \in Unsettled => job'[u].row \in Unsettled)
      BY <3>1 DEF SameJob, Alive, Jobs, Unsettled
    <3>3. job[u].epoch \in Nat /\ job[u].epoch <= run.epoch /\ run.epoch \in Nat
      BY <1>0, Numbers DEF Inv, JobInv, Stands
    <3>4. QED
      BY <2>1, <3>2, <3>3 DEF SameJob
  <2>3. QED
    BY <1>0, <2>2, OperationKept DEF Operations
<1>8. ASSUME NEW h \in Epochs, HostCrash(h) PROVE Operations'
  <2>1. ASSUME NEW u \in Slots PROVE job'[u] = job[u] \/ Gone(u)
    <3>1. job'[u] = (IF job[u].epoch = h THEN Left(job[u]) ELSE job[u]) /\ job[u] \in Jobs
      BY <1>0, <1>8 DEF HostCrash, TypeOK
    <3>2. QED
      BY <3>1, LeftGone DEF Gone
  <2>2. \A u \in Slots : (SameJob(u) /\ (Alive(u)' => Alive(u))) \/ Gone(u)
    BY <2>1 DEF SameJob, Alive
  <2>3. \A u \in Slots : Alive(u)' => job'[u] = job[u]
    BY <2>1 DEF Gone, Alive
  <2>4. QED
    BY <1>0, <1>8, <2>2, <2>3, OperationsKept DEF HostCrash
<1>9. CASE LeaseExpires \/ (\E to \in Commits : PersonMoves(to)) \/ UNCHANGED vars
           \/ (\E e \in Effects, works \in BOOLEAN : ChildEnds(e, works))
  <2>1. UNCHANGED job /\ (run' = run \/ run' = [run EXCEPT !.live = FALSE])
    BY <1>9 DEF LeaseExpires, PersonMoves, ChildEnds, vars, Rows
  <2>2. QED
    BY <1>0, <1>4, <2>1 DEF RunRows
<1>10. QED
  BY <1>1, <1>2, <1>3, <1>5, <1>6, <1>7, <1>8, <1>9, NextSteps


-----------------------------------------------------------------------------
(* The run row is invariantly in step with the tables *)

LEMMA Uncovered == ~IntegrationUnresolved(eff', job') =>
                     /\ \A e \in Effects : ~EffectUnresolved(eff', e)
                     /\ \A s \in Slots : job'[s].row \notin Unsettled
  BY DEF IntegrationUnresolved

\* What the commands of the owner make of the run.
LEMMA ControlRun ==
  ASSUME run \in RunRows, Draining, Pause \/ Resume \/ Stop \/ Complete \/ Recover
  PROVE  /\ Draining' /\ UNCHANGED <<att, eff, job>> /\ run'.epoch = run.epoch /\ run'.live = run.live /\ run.live
         /\ run.state \notin Terminal /\ run' \in RunRows
         /\ run'.state \in Terminal => ~IntegrationUnresolved(eff', job')
         /\ run.state = "recovery_required" /\ run'.state # "recovery_required" => ~IntegrationUnresolved(eff', job')
         /\ [Lifecycle!Next]_(Lifecycle!vars)
<1> USE DEF RunRows, Terminal
<1>0. UNCHANGED <<att, eff, job>> /\ run.live /\ run.state \notin Terminal
  BY DEF Pause, Resume, Stop, Complete, Recover, Control, Rows, Owner
<1>1. Unresolved(eff', att', job') \/ ~IntegrationUnresolved(eff', job')
  BY DEF Unresolved
<1>2. CASE Pause
  <2> DEFINE rn == [run EXCEPT !.state = "pausing"]
  <2>1. rn \in RunRows /\ Commit(rn, TRUE) /\ rn.state = "pausing" /\ rn.stop = run.stop /\ rn.epoch = run.epoch
        /\ rn.live = run.live /\ run.state = "running"
    BY <1>2 DEF Pause, Control
  <2> HIDE DEF rn
  <2>2. /\ (run'.state = "pausing" /\ IntegrationUnresolved(eff', job')) \/ run'.state = "paused"
        /\ run'.stop = run.stop /\ run'.epoch = run.epoch /\ run'.live = run.live /\ run' \in RunRows
    BY <2>1, Committed
  <2>3. QED
    BY <1>0, <2>1, <2>2 DEF Draining, Lifecycle!Next, Lifecycle!vars, Lifecycle!Pause, Lifecycle!Control
<1>3. CASE Resume
  <2> DEFINE rn == [run EXCEPT !.state = "running"]
  <2>1. rn \in RunRows /\ Commit(rn, TRUE) /\ rn.state = "running" /\ rn.stop = run.stop /\ rn.epoch = run.epoch
        /\ rn.live = run.live /\ run.state = "paused"
    BY <1>3 DEF Resume, Control
  <2> HIDE DEF rn
  <2>2. /\ run'.state = "running"
        /\ run'.stop = run.stop /\ run'.epoch = run.epoch /\ run'.live = run.live /\ run' \in RunRows
    BY <2>1, Committed
  <2>3. QED
    BY <1>0, <2>1, <2>2 DEF Draining, Lifecycle!Next, Lifecycle!vars, Lifecycle!Resume, Lifecycle!Control
<1>4. CASE Stop
  <2> DEFINE rn == [run EXCEPT !.stop = TRUE, !.state = IF @ = "recovery_required" THEN @ ELSE "stopping"]
  <2>1. rn \in RunRows /\ Commit(rn, TRUE) /\ rn.stop = TRUE /\ rn.epoch = run.epoch /\ rn.live = run.live
        /\ rn.state = (IF run.state = "recovery_required" THEN "recovery_required" ELSE "stopping")
    BY <1>4 DEF Stop, Control
  <2> HIDE DEF rn
  <2>2. /\ run'.stop = TRUE /\ run'.epoch = run.epoch /\ run'.live = run.live /\ run' \in RunRows
        /\ run.state = "recovery_required" => run'.state = "recovery_required"
        /\ run.state # "recovery_required" =>
             \/ run'.state = "stopping" /\ Unresolved(eff', att', job')
             \/ run'.state = "cancelled" /\ ~Unresolved(eff', att', job')
    BY <2>1, Committed
  <2>3. Draining' /\ (run'.state \in Terminal => ~IntegrationUnresolved(eff', job'))
        /\ (run.state = "recovery_required" /\ run'.state # "recovery_required" => ~IntegrationUnresolved(eff', job'))
    BY <1>0, <1>1, <2>2 DEF Draining
  <2>4. Lifecycle!RequestStop
    BY <1>0, <2>2 DEF Lifecycle!RequestStop, Lifecycle!Ended
  <2>5. QED
    BY <1>0, <2>2, <2>3, <2>4 DEF Lifecycle!Next, Lifecycle!vars
<1>5. CASE Complete
  <2> DEFINE rn == [run EXCEPT !.state = "completed"]
  <2>1. rn \in RunRows /\ Commit(rn, TRUE) /\ rn.state = "completed" /\ rn.stop = run.stop /\ rn.epoch = run.epoch
        /\ rn.live = run.live /\ run.state = "running" /\ ~Unresolved(eff, att, job)
    BY <1>5 DEF Complete, Control
  <2> HIDE DEF rn
  <2>2. /\ run'.state = "completed"
        /\ run'.stop = run.stop /\ run'.epoch = run.epoch /\ run'.live = run.live /\ run' \in RunRows
    BY <2>1, Committed
  <2>3. ~IntegrationUnresolved(eff', job')
    BY <1>0, <2>1 DEF Unresolved
  <2>4. QED
    BY <1>0, <2>1, <2>2, <2>3 DEF Draining, Lifecycle!Next, Lifecycle!vars, Lifecycle!Complete, Lifecycle!Control
<1>6. CASE Recover
  <2> DEFINE rn == [run EXCEPT !.state = IF run.stop THEN "cancelled" ELSE "running"]
  <2>1. rn \in RunRows /\ Commit(rn, TRUE) /\ rn.stop = run.stop /\ rn.epoch = run.epoch
        /\ rn.state = (IF run.stop THEN "cancelled" ELSE "running")
        /\ rn.live = run.live /\ run.state = "recovery_required" /\ ~Unresolved(eff, att, job)
    BY <1>6 DEF Recover, Control
  <2> HIDE DEF rn
  <2>2. /\ run'.state = (IF run.stop THEN "cancelled" ELSE "running")
        /\ run'.stop = run.stop /\ run'.epoch = run.epoch /\ run'.live = run.live /\ run' \in RunRows
    BY <2>1, Committed
  <2>3. ~IntegrationUnresolved(eff', job')
    BY <1>0, <2>1 DEF Unresolved
  <2>4. Draining'
    BY <2>2 DEF Draining
  <2>5. Lifecycle!Recover
    BY <1>0, <2>1, <2>2 DEF Lifecycle!Recover, Lifecycle!Control
  <2>6. QED
    BY <1>0, <2>1, <2>2, <2>3, <2>4, <2>5 DEF Lifecycle!Next, Lifecycle!vars
<1>7. QED
  BY <1>2, <1>3, <1>4, <1>5, <1>6

\* The run row after a step, whoever took it.
LEMMA RunStep ==
  ASSUME Inv, RunInv, [Next]_vars
  PROVE  /\ Draining'
         /\ run'.state = "recovery_required" \/ run'.epoch = run.epoch
         /\ run'.state \in Terminal => run.state \in Terminal \/ ~IntegrationUnresolved(eff', job')
         /\ run.state = "recovery_required" /\ run'.state # "recovery_required" => ~IntegrationUnresolved(eff', job')
         /\ [Lifecycle!Next]_(Lifecycle!vars)
<1> USE DEF RunRows, Terminal
<1>0. run \in RunRows /\ Draining
  BY DEF Inv, World, TypeOK, RunInv
<1>1. CASE run' = run /\ (run.state \in {"pausing", "stopping"} => Keeps)
  <2>1. Draining'
    BY <1>0, <1>1, KeepsOpen DEF Draining
  <2>2. QED
    BY <1>1, <2>1 DEF Lifecycle!vars
<1>2. CASE run.live /\ Commit(run, TRUE)
  <2>1. /\ run'.stop = run.stop /\ run'.epoch = run.epoch /\ run'.live = run.live
        /\ \/ run'.state = run.state
           \/ run.state = "pausing" /\ run'.state = "paused" /\ ~IntegrationUnresolved(eff', job')
           \/ run.state = "stopping" /\ run'.state = "cancelled" /\ ~Unresolved(eff', att', job')
        /\ run.state = "pausing" /\ ~IntegrationUnresolved(eff', job') => run'.state = "paused"
        /\ run.state = "stopping" /\ ~Unresolved(eff', att', job') => run'.state = "cancelled"
    BY <1>0, <1>2, Committed
  <2>2. Draining' /\ (~Unresolved(eff', att', job') => ~IntegrationUnresolved(eff', job'))
    BY <1>0, <2>1 DEF Draining, Unresolved
  <2>3. [Lifecycle!Next]_(Lifecycle!vars)
    BY <1>0, <1>2, <2>1 DEF Draining, Lifecycle!Next, Lifecycle!vars, Lifecycle!Drain, Lifecycle!Close, Lifecycle!Control
  <2>4. QED
    BY <2>1, <2>2, <2>3
<1>3. CASE Pause \/ Resume \/ Stop \/ Complete \/ Recover
  BY <1>0, <1>3, ControlRun
<1>4. CASE Acquire
  <2>1. /\ run'.state = "recovery_required" /\ run'.epoch = run.epoch + 1 /\ run'.live = TRUE /\ run'.stop = run.stop
        /\ ~run.live /\ run.state \notin Terminal
    BY <1>0, <1>4 DEF Acquire
  <2>2. QED
    BY <2>1 DEF Draining, Lifecycle!Next, Lifecycle!vars, Lifecycle!TakeOver, Lifecycle!Ended
<1>5. CASE LeaseExpires
  <2>1. /\ run'.state = run.state /\ run'.epoch = run.epoch /\ run'.live = FALSE /\ run'.stop = run.stop
        /\ run.live /\ UNCHANGED <<att, eff, job>>
    BY <1>0, <1>5 DEF LeaseExpires, Rows
  <2>2. IntegrationUnresolved(eff', job') = IntegrationUnresolved(eff, job)
        /\ Unresolved(eff', att', job') = Unresolved(eff, att, job)
    BY <2>1
  <2>3. Draining'
    BY <1>0, <2>1, <2>2 DEF Draining
  <2>4. QED
    BY <2>1, <2>3 DEF Lifecycle!Next, Lifecycle!vars, Lifecycle!Expire
<1>6. QED
  BY <1>1, <1>2, <1>3, <1>4, <1>5, RunMoves DEF Moves

LEMMA RunInvNext == ASSUME Inv, RunInv, [Next]_vars PROVE RunInv'
<1>1. PastSettled'
  <2>1. SUFFICES ASSUME run'.state # "recovery_required", NEW d \in Effects, EffectUnresolved(eff', d)
                 PROVE  eff'[d].epoch = run'.epoch
    BY DEF PastSettled
  <2>2. run.state # "recovery_required" /\ run'.epoch = run.epoch
    BY <2>1, RunStep, Uncovered
  <2>3. Opens(d)
    BY <2>1, Opening
  <2>4. QED
    BY <2>2, <2>3 DEF Opens, RunInv, PastSettled
<1>2. Ended'
  <2>1. SUFFICES ASSUME run'.state \in Terminal
                 PROVE  /\ \A e \in Effects : ~EffectUnresolved(eff', e)
                        /\ \A s \in Slots : job'[s].row \in Unsettled => job'[s].kind \in Observations
    BY DEF Ended
  <2>2. CASE ~IntegrationUnresolved(eff', job')
    BY <2>2, Uncovered
  <2>3. CASE run.state \in Terminal
    <3>1. ~Admitting(run.epoch)
      BY <2>3 DEF Admitting, Terminal
    <3>2. ASSUME NEW d \in Effects, EffectUnresolved(eff', d) PROVE FALSE
      BY <2>3, <3>1, <3>2, Opening DEF Opens, RunInv, Ended
    <3>3. ASSUME NEW t \in Slots, job'[t].row \in Unsettled PROVE job'[t].kind \in Observations
      BY <2>3, <3>1, <3>3, RowsOpening DEF RunInv, Ended
    <3>4. QED
      BY <3>2, <3>3
  <2>4. QED
    BY <2>1, <2>2, <2>3, RunStep
<1>3. QED
  BY <1>1, <1>2, RunStep, OperationsNext DEF RunInv

LEMMA RunInvInit == Init => RunInv
<1> SUFFICES ASSUME Init PROVE RunInv
  OBVIOUS
<1>1. run.state = "running"
  BY DEF Init
<1>2. \A s \in Slots : ~Alive(s)
  BY DEF Init, Alive, NoJob
<1>3. \A e \in Effects : ~EffectUnresolved(eff, e)
  BY EffectKinds DEF Init, EffectUnresolved, Open, NoRow, Active
<1>4. QED
  BY <1>1, <1>2, <1>3 DEF RunInv, Ended, PastSettled, Draining, Operations, Operation, Terminal

LEMMA RunInvariance == Spec => [](Inv /\ RunInv)
<1>1. Inv /\ RunInv /\ [Next]_vars => (Inv /\ RunInv)'
  BY InvNext, RunInvNext
<1>2. QED
  BY <1>1, InvInit, RunInvInit, PTL DEF Spec

\* A run that has ended is over: no child of an effect runs, no effect is open
\* and no late thread opens one again; only observations may still be asked for.
THEOREM EndedIsQuiet == Spec => []TerminalIsQuiet
<1>1. ASSUME Inv, RunInv PROVE TerminalIsQuiet
  <2>1. \A e \in Effects : eff[e].alive => EffectUnresolved(eff, e)
    BY <1>1 DEF Inv, World, RowsOK, RowOK, EffectUnresolved, Open
  <2>2. QED
    BY <1>1, <2>1 DEF RunInv, Ended, TerminalIsQuiet
<1>2. QED
  BY <1>1, RunInvariance, PTL

\* Whatever threads, children and owners of integration do, and in whatever
\* order, the run row keeps to the lifecycle: a thread that reports without
\* being the owner never moves it.
THEOREM IntegrationLifecycle == Spec => ImplementsLifecycle
<1>1. Init => Lifecycle!Init
  BY DEF Init, Lifecycle!Init
<1>2. Inv /\ RunInv /\ [Next]_vars => [Lifecycle!Next]_(Lifecycle!vars)
  BY RunStep
<1>3. QED
  BY <1>1, <1>2, RunInvariance, PTL DEF Spec, ImplementsLifecycle, Lifecycle!Spec
=============================================================================
