--------------------------- MODULE SwarmAuthority ---------------------------
(***************************************************************************)
(* Who may command a run.  Several app processes share the database of a   *)
(* run; one of them owns it through a lease on an epoch.  A person's       *)
(* command carries an identity and the revision of the snapshot it was     *)
(* decided on, and may reach an owner late, twice, or after a takeover; an *)
(* acknowledgement may be lost after its transaction committed.            *)
(*                                                                         *)
(* SwarmRun says what the commands do.  Here a command is only its kind,   *)
(* and what is at stake is that it is applied at most once, by the owner,  *)
(* to the run its author saw, and dispatches at most once.                 *)
(***************************************************************************)
EXTENDS Naturals, FiniteSets

CONSTANTS
  Apps,        \* app processes that open the run
  Original,    \* the app that created the run
  Keys,        \* identities of persons' commands
  Kinds,       \* the kinds of command they send
  LeaseTime,   \* runs.lease_seconds, in ticks
  LostAcks,    \* whether an answer may be lost after its commit
  MaxTime,     \* bound: ticks of the clock
  MaxEpoch,    \* bound: ownership epochs
  MaxRevision, \* bound: committed revisions
  MaxObjects   \* bound: recovery owners one app creates

AllKinds == {"launch", "pause", "resume", "stop", "complete", "recover", "edit"}

ASSUME AppsAssumption == Original \in Apps /\ Kinds \subseteq AllKinds
ASSUME LeaseAssumption == LeaseTime \in Nat \ {0} /\ LostAcks \in BOOLEAN
ASSUME BoundAssumption == /\ MaxTime \in Nat /\ MaxEpoch \in Nat \ {0}
                          /\ MaxRevision \in Nat /\ MaxObjects \in Nat

VARIABLES
  clock,    \* SwarmStore.clock
  row,      \* the runs row
  journal,  \* the commands table, of persons' commands: <<supervisor, key>>
  grants,   \* the commands table, of takeovers
  app,      \* what each app process holds in memory of the run
  msg,      \* persons' commands, as composed
  todo,     \* dispatches an app owes to a first commit it saw acknowledged
  applied,  \* history: commits of each key
  launched, \* history: executions each key has started
  changes,  \* history: commits that changed what a decision may rest on
  view      \* history: changes, as of the snapshot a command was composed from

table   == <<row, journal, grants>>
history == <<applied, launched, changes, view>>
vars    == <<clock, row, journal, grants, app, msg, todo, applied, launched, changes, view>>

Terminal == {"cancelled", "completed", "failed"}
States   == {"running", "pausing", "paused", "stopping", "recovery_required"} \cup Terminal

\* The supervisor identities an app makes: one per runner or recovery owner.
Sups == Apps \X (0..MaxObjects)
NoMsg == [kind |-> "edit", rev |-> MaxRevision + 1]

TypeOK ==
  /\ clock \in 0..MaxTime
  /\ row \in [state : States, stop : BOOLEAN, epoch : 1..MaxEpoch, owner : Sups,
              until : 0..(MaxTime + LeaseTime), revision : 0..MaxRevision]
  /\ journal \subseteq Sups \X Keys
  /\ grants \subseteq [sup : Sups, expected : 1..MaxEpoch]
  /\ app \in [Apps -> [object : 0..MaxObjects, expected : 0..MaxEpoch, epoch : 0..MaxEpoch,
                       runner : BOOLEAN]]
  /\ msg \in [Keys -> [kind : AllKinds, rev : 0..(MaxRevision + 1)]]
  /\ todo \subseteq Apps \X Keys
  /\ applied \in [Keys -> Nat] /\ launched \in [Keys -> Nat]
  /\ changes \in Nat /\ view \in [Keys -> Nat]

\* SwarmSupervisor.create, by the app whose runner starts the team.
Init ==
  /\ clock = 0
  /\ row = [state |-> "running", stop |-> FALSE, epoch |-> 1, owner |-> <<Original, 0>>,
            until |-> LeaseTime, revision |-> 0]
  /\ journal = {} /\ grants = {}
  /\ app = [p \in Apps |-> [object |-> 0, expected |-> 0,
                            epoch |-> IF p = Original THEN 1 ELSE 0, runner |-> p = Original]]
  /\ msg = [k \in Keys |-> NoMsg] /\ todo = {}
  /\ applied = [k \in Keys |-> 0] /\ launched = [k \in Keys |-> 0]
  /\ changes = 0 /\ view = [k \in Keys |-> 0]

-----------------------------------------------------------------------------
Sup(p) == <<p, app[p].object>>

\* SwarmStore._authority
Authority(p) == /\ app[p].epoch = row.epoch /\ row.owner = Sup(p)
                /\ row.until > clock

\* What a command of each kind needs.
Allowed(kind) == CASE kind \in {"launch", "pause", "complete"} -> row.state = "running"
                   [] kind = "resume"  -> row.state = "paused"
                   [] kind = "recover" -> row.state = "recovery_required"
                   [] OTHER            -> row.state \notin Terminal

\* Mutant: a stop closes admission during recovery too.
StopsAlways(kind) == CASE kind = "pause"    -> "pausing"
                       [] kind = "resume"   -> "running"
                       [] kind = "complete" -> "completed"
                       [] kind = "recover"  -> IF row.stop THEN "cancelled" ELSE "running"
                       [] kind = "stop"     -> "stopping"
                       [] OTHER             -> row.state

\* Mutant: the state is named as the button is.
NamedAsAsked(kind) == IF kind = "stop" THEN "stopped" ELSE row.state

\* The state a command of each kind asks for.
Asked(kind) == CASE kind = "pause"    -> "pausing"
                 [] kind = "resume"   -> "running"
                 [] kind = "complete" -> "completed"
                 [] kind = "recover"  -> IF row.stop THEN "cancelled" ELSE "running"
                 [] kind = "stop" /\ row.state # "recovery_required" -> "stopping"
                 [] OTHER             -> row.state

\* SwarmSupervisor._control_checkpoint, on a run that is quiet or not.
Checkpointed(state, quiet) ==
  IF quiet /\ state = "pausing" THEN "paused"
  ELSE IF quiet /\ state = "stopping" THEN "cancelled" ELSE state

\* A person reads a snapshot, decides, and the client gives the decision an
\* identity and the snapshot's revision, for good.
Compose(k, kind) ==
  /\ msg[k] = NoMsg
  /\ msg' = [msg EXCEPT ![k] = [kind |-> kind, rev |-> row.revision]]
  /\ view' = [view EXCEPT ![k] = changes]
  /\ UNCHANGED <<clock, table, app, todo, applied, launched, changes>>

\* Mutant: the identity alone is checked.
OnTime(k) == row.revision >= msg[k].rev

\* The revision check of SwarmSupervisor.handle_once
Matches(k) == row.revision = msg[k].rev

\* Mutant: any receipt of a dispatching command is a permit to launch.
AnyReceipt(fresh, ack, kind) == ack /\ kind = "launch"

\* Only the first commit, seen by its own caller, may dispatch.
Dispatches(fresh, ack, kind) == fresh /\ ack /\ kind = "launch"

\* SwarmSupervisor.handle_once on a person's command, any number of times: the
\* first commit changes the run; a replay only answers with its receipt.
Deliver(k, p, quiet, ack) ==
  LET fresh == <<Sup(p), k>> \notin journal
      kind  == msg[k].kind
  IN
  /\ msg[k] # NoMsg /\ (ack \/ LostAcks)
  /\ Authority(p)
  /\ IF fresh
     THEN /\ Matches(k) /\ Allowed(kind) /\ row.revision < MaxRevision
          /\ row' = [row EXCEPT !.state = Checkpointed(Asked(kind), quiet),
                                !.stop = @ \/ kind = "stop", !.revision = @ + 1]
          /\ journal' = journal \cup {<<Sup(p), k>>}
          /\ applied' = [applied EXCEPT ![k] = @ + 1]
          /\ changes' = changes + 1
          \* service._continue_recovered: the recovery owner becomes a runner.
          /\ app' = IF kind = "recover" /\ ack THEN [app EXCEPT ![p].runner = TRUE] ELSE app
     ELSE UNCHANGED <<row, journal, applied, changes, app>>
  /\ todo' = IF Dispatches(fresh, ack, kind) THEN todo \cup {<<p, k>>} ELSE todo
  /\ UNCHANGED <<clock, grants, msg, launched, view>>

\* The dispatch, on the app's own thread: its first transaction
\* (worker_started) needs an authority that is still current and a run that
\* still admits.
Launch(p, k) ==
  /\ <<p, k>> \in todo
  /\ todo' = todo \ {<<p, k>>}
  /\ launched' = IF Authority(p) /\ row.state = "running"
                 THEN [launched EXCEPT ![k] = @ + 1] ELSE launched
  /\ UNCHANGED <<clock, table, app, msg, applied, changes, view>>

\* A command of the owner's own threads (a worker, the scheduler), which read
\* the revision themselves and retry on a conflict.
Work(p, quiet) ==
  /\ "edit" \in Kinds
  /\ Authority(p) /\ row.state \notin Terminal /\ row.revision < MaxRevision
  /\ row' = [row EXCEPT !.state = Checkpointed(@, quiet), !.revision = @ + 1]
  /\ changes' = changes + 1
  /\ UNCHANGED <<clock, journal, grants, app, msg, todo, applied, launched, view>>

\* Mutant: a renewal never counts as a change.
RenewedQuietly(old, new) == FALSE

\* A renewal keeps the revision unless its checkpoint moved the run on.
Revises(old, new) == old # new

\* SwarmSupervisor._renew, by the maintenance thread of the owner.
Renew(p, quiet) ==
  LET state == Checkpointed(row.state, quiet)
      moved == row.state # state
  IN
  /\ Authority(p) /\ row.state \notin Terminal
  /\ moved => row.revision < MaxRevision
  /\ row' = [row EXCEPT !.until = clock + LeaseTime, !.state = state,
                        !.revision = IF Revises(row.state, state) THEN @ + 1 ELSE @]
  /\ changes' = IF moved THEN changes + 1 ELSE changes
  /\ UNCHANGED <<clock, journal, grants, app, msg, todo, applied, launched, view>>

-----------------------------------------------------------------------------
(* Takeover: the "recover" action of the desktop service, SwarmRecovery.acquire
   and SwarmSupervisor.acquire *)

\* An app keeps its recovery owner, and with it the identity and the expected
\* epoch of its takeover, until that owner is known to have acquired an epoch.
Captured(p) ==
  IF app[p].epoch = 0 /\ app[p].expected # 0 THEN app[p]
  ELSE [object |-> app[p].object + 1, expected |-> row.epoch, epoch |-> 0, runner |-> FALSE]

\* Mutant: an expired lease is enough, whichever epoch was expected.
AnyExpired(owner) == row.until <= clock /\ row.state \notin Terminal

\* What SwarmSupervisor.acquire asks of the run.
Acquirable(owner) == /\ row.epoch = owner.expected
                     /\ row.until <= clock /\ row.state \notin Terminal

\* Mutant: a retried takeover finds no receipt of the first.
NeverGranted(sup, expected) == FALSE

Granted(sup, expected) == [sup |-> sup, expected |-> expected] \in grants

TakeOver(p, ack) ==
  LET owner == Captured(p)
      sup   == <<p, owner.object>>
      knows == [owner EXCEPT !.epoch = owner.expected + 1]
  IN
  /\ ~app[p].runner /\ ~Authority(p) /\ (ack \/ LostAcks)
  /\ owner.object <= MaxObjects
  /\ IF Granted(sup, owner.expected)
     THEN \* The replay of a takeover that committed: it never renews.
          /\ row.epoch = owner.expected + 1 /\ row.owner = sup /\ row.until > clock
          /\ app' = [app EXCEPT ![p] = IF ack THEN knows ELSE owner]
          /\ UNCHANGED <<table, changes>>
     ELSE IF Acquirable(owner)
     THEN /\ row.epoch < MaxEpoch /\ row.revision < MaxRevision
          /\ row' = [row EXCEPT !.state = "recovery_required", !.epoch = @ + 1, !.owner = sup,
                                !.until = clock + LeaseTime, !.revision = @ + 1]
          /\ grants' = grants \cup {[sup |-> sup, expected |-> owner.expected]}
          /\ changes' = changes + 1
          /\ app' = [app EXCEPT ![p] = IF ack THEN knows ELSE owner]
          /\ UNCHANGED journal
     ELSE \* Refused; the captured owner stays.
          /\ app' = [app EXCEPT ![p] = owner]
          /\ UNCHANGED <<table, changes>>
  /\ UNCHANGED <<clock, msg, todo, applied, launched, view>>

-----------------------------------------------------------------------------
Tick == /\ clock < MaxTime
        /\ clock' = clock + 1
        /\ UNCHANGED <<table, app, msg, todo, history>>

\* An app process ends and is opened again: its memory of the run is gone.
Restart(p) ==
  /\ app[p].epoch # 0 \/ app[p].expected # 0
  /\ app' = [app EXCEPT ![p].expected = 0, ![p].epoch = 0, ![p].runner = FALSE]
  /\ todo' = {d \in todo : d[1] # p}
  /\ UNCHANGED <<clock, table, msg, history>>

Next ==
  \/ \E k \in Keys, kind \in Kinds : Compose(k, kind)
  \/ \E k \in Keys, p \in Apps, quiet, ack \in BOOLEAN : Deliver(k, p, quiet, ack)
  \/ \E k \in Keys, p \in Apps : Launch(p, k)
  \/ \E p \in Apps, quiet \in BOOLEAN : Work(p, quiet) \/ Renew(p, quiet)
  \/ \E p \in Apps, ack \in BOOLEAN : TakeOver(p, ack)
  \/ \E p \in Apps : Restart(p)
  \/ Tick

Spec == Init /\ [][Next]_vars

\* The owner of an interrupted team keeps asking every open app for it.
FairSpec == Spec /\ WF_vars(Tick) /\ \A p \in Apps : WF_vars(TakeOver(p, TRUE))

-----------------------------------------------------------------------------
(* Safety *)

\* A command is applied at most once, however often it is sent: a replay to the
\* same owner meets its receipt, and one to a later owner, who has no receipt,
\* a run whose revision has moved on.
AppliedOnce == \A k \in Keys : applied[k] <= 1

\* A dispatching command starts at most one execution, and none without its
\* commit: replays, lost answers, crashes and takeovers only lose the launch.
LaunchedOnce == \A k \in Keys : launched[k] <= applied[k] /\ launched[k] <= 1

\* Two apps never believe they acquired the same epoch, whatever takeovers were
\* refused, retried or lost on the way.
OneAppPerEpoch == \A p, q \in Apps :
  app[p].epoch # 0 /\ app[p].epoch = app[q].epoch => p = q

\* A person's command changes the run only as the snapshot showed it that the
\* client composed it from: nothing was decided, taken over or concluded in
\* between, while a lease renewal does not get in its way.  (swarm_view.js sends
\* five kinds of decision once more after a conflict, from a fresh snapshot and
\* under a fresh identity: that is another command here.)
DecidedOnWhatIsSeen == [][\A k \in Keys : applied'[k] # applied[k] => view[k] = changes]_vars

(* Liveness *)

Expired == row.until <= clock /\ row.state \notin Terminal

\* docs/swarming.md, "Take over expired team": an app that does not run the
\* team itself can take an expired run over (as far as the bounds go).
ExpiredCanBeTaken == \A p \in Apps :
  Expired /\ ~app[p].runner ~>
    \/ ~Expired \/ app[p].runner
    \/ row.epoch = MaxEpoch \/ row.revision = MaxRevision \/ app[p].object = MaxObjects

\* A takeover whose answer was lost is learned of by asking again, under the
\* same identity and without another epoch, while its lease lasts.
LostTakeoverIsLearned == \A p \in Apps :
  app[p].epoch = 0 /\ app[p].expected # 0 /\ row.owner = Sup(p) ~>
    \/ app[p].epoch = row.epoch \/ row.until <= clock \/ row.owner # Sup(p) \/ app[p].expected = 0

-----------------------------------------------------------------------------
(* Refinement *)

Lifecycle == INSTANCE RunLifecycle
  WITH state <- row.state, stop <- row.stop, epoch <- row.epoch, live <- row.until > clock

\* Competing owners, replays and lost answers leave the run on its lifecycle.
ImplementsLifecycle == Lifecycle!Spec
=============================================================================
