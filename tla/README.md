# Lumi agent teams and missions in TLA+

Lumi (`lumi/`) is a desktop client for coding agents. Its largest piece of protocol is
`lumi/engine/swarming/`: *teams*, in which one app process supervises several model-driven
participants over a shared SQLite database, through crashes, takeovers by other app processes,
lost answers and a person's pause, stop and recovery; with writers whose work is checked and merged
into the person's checkout, and, in an organization, a server that counts what a team uses. Next to
the teams stand *autonomous missions* (`lumi/gui/autonomous_loop.py`), a daemon that works through
a roadmap until its criteria have converged. This directory specifies these cores, checks them with
TLC and proves their most important properties with TLAPS.

    tlc -workers 2 -config SwarmRun_takeover.cfg MCSwarmRun.tla
    for m in SwarmRunProofs SwarmRunSafety SwarmRunAttempts SwarmRunAccounting \
             SwarmAuthorityProofs SwarmIntegrationProofs ManagedJournalProofs MissionDaemonProofs
    do tlapm $m.tla; done

| module | what it is |
|---|---|
| `RunLifecycle` | abstract: the life of a run as anyone watching it sees it |
| `SwarmRun` | the rows of one run, its participants and its app processes; implements `RunLifecycle` |
| `SwarmAuthority` | competing app processes, a person's commands, replays and takeovers; implements `RunLifecycle` |
| `SwarmIntegration` | writers' work on its way to the person's checkout; implements `RunLifecycle` |
| `ManagedLedger` | abstract: what a managed team owes an organization's server, and may do in return |
| `ManagedJournal` | what a managed team asks an organization's server for, and reports to it; implements `ManagedLedger` |
| `MissionDaemon` | an autonomous mission: daemon, sub-mission, monitor, person, files |
| `MCSwarmRun`, `MCSwarmAuthority`, `MCSwarmIntegration`, `MCManagedJournal`, `MCMissionDaemon` | the constants' values for TLC |
| `SwarmRunProofs` | type correctness of `SwarmRun`, and the lemmas about its operators |
| `SwarmRunSafety` | refinement, fencing, and what a paused run guarantees |
| `SwarmRunAttempts` | what the rows say of participants and of their work, plans included |
| `SwarmRunAccounting` | exact settlement, spending within every grant, and what the end of recovery and of a run know |
| `SwarmAuthorityProofs` | the safety of `SwarmAuthority`, and its refinement |
| `SwarmIntegrationProofs` | the safety of `SwarmIntegration` at the checkout and at the run's end, and its refinement |
| `ManagedJournalProofs` | the safety of `ManagedJournal`, and its refinement |
| `MissionDaemonProofs` | the safety of `MissionDaemon` |

## 1. Inventory

Paths are relative to `lumi/`. "Hard" names what makes a component hard to test; the full list of
hazards, each at its line, is in `PROJECT.json`.

### Teams (`engine/swarming/`)

**Run store** (`store.py`, `models.py`). State: one SQLite file per user with the tables `runs`,
`work_items`, `work_dependencies`, `attempts`, `reservations`, `dispatches`, `model_requests`,
`submissions`, `action_receipts`, `process_observations`, `commands` (a journal of results),
`events`, and the tables of messages, artifacts and integration. Operations: read snapshots, pages
of events, check authority (`_authority`: epoch, supervisor, lease), check admission, find the
receipt of a repeated command. Every write is one `BEGIN IMMEDIATE` transaction. Correct when only
the holder of a live lease writes, and every receipt names the one effect it stands for.

**Supervisor** (`supervisor.py`). No state of its own: some thirty kinds of command, each one
transaction: authority, receipt, revision check, handler, control checkpoint, revision, event.
Handlers plan the graph, grant work with a request allowance, account requests, record terminations,
decide results, pause, resume, stop, recover, complete. Hard: a state reached over many commands by
several actors (`pausing` to `paused`, `stopping` to `cancelled`), and accounting that may only
become exact when four kinds of observation have arrived, in any order. Correct when the run never
spends more than it was granted, never hands one item to two executions, ends only when nothing is
unresolved, and stays stopped.

**Execution guard** (`execution.py`, and `engine/execution_guard.py` in the session). State: the
open request of a participant. Operations: `begin_request` (reserve, then start), `end_request`,
`begin_tool`, `end_tool`. Between any two of them the lease may lapse, a person may pause, stop or
cancel. Correct when no effect begins without a live epoch, an admitting run and allowance.

**Worker runner** (`workers.py`, `process_worker.py`, `worker_child.py`). State: one thread per
participant, optionally one child process each, a maintenance thread that renews the lease.
Operations: start, run to the end or to cancellation, submit the handoff, report the stop. Hard:
child processes survive the app; a report may fail.

**Process observations** (`processes.py`). State: the identity of each child and what was last
seen of it. The operating system is read outside the transaction that stores the answer.

**Recovery** (`recovery.py`). State: the captured identity and expected epoch of one takeover, and
the authority it won. Operations: take an expired lease over, inspect and reconcile processes,
requests and actions, end the recovery. Hard: the earlier epoch may still run; an answer may be
lost; nothing may be guessed.

**Scheduler** (`scheduler.py`) assigns ready items while capacity lasts and launches them.
**Autopilot** (`autopilot.py`) is a loop of snapshots and commands that runs a team by itself.
**Coordinator and planning** (`coordinator.py`, `planning.py`) record proposals of plans that a
person, or the autopilot, decides on later. **Desktop service** (`service.py`, `gui/swarming.py`)
turns a person's actions into commands, keeps the runner or the recovery owner of each run in
memory, and launches a turn only after the first acknowledged commit of its command.

**Integration** (`integration.py`, `integration_processes.py`, `workflow.py`). State: writer
worktrees, candidates, checks, applications, the processes of each and a queue of operations. Each
operation is a database intent, a Git or shell effect outside any transaction, and a database
outcome. Hard: a crash between the three, an approval that expires, a checkout that changes, a
repository lock shared with other teams. Correct when the person's checkout is changed at most
once, by what was checked, and an unrecorded outcome stays uncertain until observed.

**Mailbox** (`mailbox.py`): messages between participants, delivered when the model request that
carries them is admitted. **Collaboration** (`collaboration.py`): grants between two teams on one
computer, and their revocation.

**Managed sharing** (`managed_*.py`). State: one journal file per epoch with the requests, worker
slots, tool actions and remote controls a host asked an organization's server for, and an outbox of
observations; tables of owner effects beside it. Operations: prepare, send once, take the permit,
claim it, observe; deliver the outbox; and, for the owner of a later epoch, fence what the journals
hold, derive how it ended from the run's rows, fence lost admissions at the server, attach a journal
of its own. Hard: the server may have acted on a message whose answer never came; the old host may
still live. Correct when nothing that may have happened is reported as never started, every slot and
unit is given back, and a team continues only with the slots of its past returned.

**Policy, organization, artifacts, cleanup, report**: checks and files, nearly stateless.

### Around the teams

Sessions and the agent loop (`engine/session.py`, `engine/tools.py`); GUI server, commands and the
queue of chat turns (`gui/app.py`, `gui/ws_commands.py`, `gui/chat_loop.py`); session ledger
(`gui/session_ledger.py`: append-only file, torn tails); autonomous missions
(`gui/autonomous_loop.py`, `gui/autonomous_factory.py`, `gui/autonomous_session.py`); intents and
plan graphs (`orchestration/`); harness cycles (`harness/`); sub-agents and worktrees
(`engine/agent_runtime.py`, `engine/worktrees.py`); audit log and file lock (`audit.py`,
`file_lock.py`: a hash chain appended to by several processes); scheduled tasks (`schedules.py`: a
claim file); chat tasks and Lumi Cloud (`remote_tasks.py`, `cloud.py`, `sonn_tasks.py`); budgets,
usage, prices; policy, oversight and data loss prevention; providers; gateway; updates; terminal
UI and headless runs; tools that drive other programs; skills and memory; the web client. Each is
in `PROJECT.json`, with the reason it is not modelled or the place it has in the plan. They are
either functions of their data (prices, patterns, prompts), or drivers of external programs, or the
candidates of section 8.

**Autonomous missions.** State: a roadmap file with items and acceptance criteria, an in-flight
checkpoint beside it, the daemon's thread with its streaks, a tracker of the sub-mission under way,
and events other threads set. Operations: pick an item, note it, dispatch it as a sub-mission, wait
for it with a monitor that cancels a stalled one, check the item off, reflect (run the checks, ask a
model, park on a question, cross-check the verdict against the file), repair, stop, pause, resume.
Hard: three kinds of thread share a few flags; a stop, a stall and the sub-mission's own end race;
every save may fail; the model may be wrong; the process may die anywhere. Correct when a mission is
complete only when its criteria have passed, what was cut short is not silently run again, no two
sub-missions work unasked, and a stop ends it.

### How the parts interact

    person -- client -- service --+-- supervisor (transactions) -- SQLite -- supervisor of another app
                                  +-- runner -- thread / child -- execution guard --+
                                  +-- scheduler, autopilot ------------------------ +
                                  +-- recovery -- operating system
                                  +-- integration -- Git, checks, the person's checkout
                                  +-- managed journal -- the organization's server

Everything durable goes through the database; threads of one app share little memory (their
runner's controls), and apps share none. A participant is never told that its epoch is over: it
finds out at its next transaction. That is why almost every property here is about what a
transaction checks and what has happened since the caller last looked.

## 2. How the models correspond to the code

### `RunLifecycle`

Four variables, `state`, `stop`, `epoch`, `live`, and the nine moves a run can make: pause, drain,
resume, complete, close, stop, recover, expire, take over. It is the contract both detailed modules
implement: the state moves under a live lease only, an expired lease is the only way to a new
epoch, a new epoch starts in recovery, recovery of a stopped run ends cancelled.

### `SwarmRun`

| variable | code |
|---|---|
| `run` | the `runs` row: `state`, `epoch`, `stop_requested`, `worker_limit`; `live` is `lease_until > now` |
| `work` | `work_items` with `work_dependencies`: state, dependencies, revision of the specification |
| `att` | `attempts` joined with the one reservation, submission and process observation each has, and the latest tool action |
| `req` | `model_requests`, and whether a start event exists (`began`) |
| `exec` | what really runs for an attempt: nothing yet, a thread, a child, a child that ended unseen, nothing any more |
| `hostUp` | whether the app process of an epoch is alive |
| `seen` | the answer of the process table a recovery owner has read and not yet committed |

One command is one action, with the checkpoint at its tail (`CommitRun`); what the code does between
transactions (read the operating system, run, crash, let the lease lapse) is a separate step.
`Granted`, `Refreshed`, `Checkpointed`, `Ready`, `Fenced` are `_assign`'s inserts,
`_refresh_reservation`, `_control_checkpoint`, `_readiness` and `acquire`'s updates. A command carries
the authority of an epoch, and since only the owner of that epoch holds it, "the authority is
current" reads `Owner`: the lease is live and the app of the current epoch is alive. A participant's
call carries the epoch of its attempt (`Current`). Actions of recovery need a taken-over run
(`Recovering`).

`Complete` accepts what the code accepts: every present item is accepted, and there is one, or else a
coordinator completed after a completed request (`Answered`). That its proposal was then accepted too is
a condition on data which is not kept, and so is taken as possible.

Data that is abstracted: models, prompts, paths, evidence and artifacts are gone; an attempt has at
most one tool action at a time and the last is kept; a specification is its dependencies and a
revision; `used` and `amount` are request units as in the code. A dispatch row repeats what the
process column says and is left out. Policy and scope conflicts between writers do not occur:
these teams only read.

`Features` switches optional inputs off so that instances stay small: `coordinator`, `controls` (per
participant pause, resume, cancel), `tools`, `children`, `pause`, `reobserve` (the owner asks again
about a process recorded as stopped).

### `SwarmAuthority`

Apps, each with a runner or a recovery owner in memory (`app`), the run's row with owner, lease and
revision, the journals of commands and takeovers, the commands persons composed (`msg`), and the
launches an app owes (`todo`). A command is only its kind; `quiet` is the outcome of the checkpoint,
which `SwarmRun` decides from the rows. `Deliver` is `handle_once` with the service around it: it may
be called any number of times for a command, at any app, and its answer may be lost. `TakeOver` is
the service's `recover` action down to `SwarmSupervisor.acquire`. `clock` ticks; a lease lasts
`LeaseTime` ticks. `applied`, `launched`, `changes`, `view` are history variables, read by properties
only.

The wall clock (`time.time`) is taken to be one clock that only moves forward. The client resends
five kinds of decision once after a revision conflict, from a fresh snapshot and under a fresh
identity: here that is another command.

### `SwarmIntegration`

| variable | code |
|---|---|
| `eff` | the rows of `writer_worktrees`, `integration_candidates`, `integration_checks`, `integration_applications`, each with its last process row and whether that process lives |
| `job` | threads that work on an effect, with the row of `integration_operations` each has |
| `lock`, `head`, `moves` | the repository lock, HEAD of the person's checkout, and how often each approval's Git moved it (history) |
| `plan`, `target` | what a candidate combines and on which base; which candidate an approval applies |
| `run`, `att`, `hostUp` | the run's row, the attempts as far as integration reads them, the apps |

A job goes through the same stages whatever its kind: queue, lock, read the checkout, record the
intent, launch a gated child, let it go (`invoked`), take its result, record the outcome, end the
operation; between any two of them the app may die, the lease lapse or the run be paused. Four kinds
of observation (`reconcile` of a writer, candidate, check or application, `settle` of a process,
`operation`) settle what another owner finds. The person may move the checkout at any time.

Abstracted: a check is its latest receipt; an effect has one process row, the last; a job slot is
used again once its operation is settled and its thread has ended; a writer starts from the root or
a candidate, not from the person's own commit; which paths a diff may touch, a clean checkout, the
branch and an expired approval are refusals that may happen; trying again is another writer; a helper
without its argument vector is seen alive or as not started; the checkpoint a job sends never has
anything left to do. Since a row of `eff` holds only the latest receipt of a check, `passed` (history)
keeps whether the outcome before it was a pass. `Return` closes the process row; `NotSeenToStop` is the
end of a helper that could not be confirmed, or not recorded, which leaves it open.

A job takes the first idle slot (a bound, `Free`), and the threads of one epoch take turns. One thing
may be asked for beside a row of its own epoch that was left open: a merge, beside a check. That is how
a verified candidate comes to be merged while its re-check is still "running": the code makes it so
when neither the outcome of the re-check nor its failure could be recorded (`integration.py:812` to
`867`), and `apply` asks for the state of the candidate only (`integration.py:901`). `Features`:
`pause`, `own` (the person commits), `parallel` (threads of one epoch overlap freely), `refusals`.

### `ManagedLedger`

Four variables: the `account` of each slot and unit (absent, held, how it ended, or fenced before it was
ever held), the permits `used`, the slots in which a participant is `busy`, and whether the team has
`continued` in a later epoch. Six moves: take, bar, use, leave, give back, continue. It knows neither
messages nor files nor apps, and is what the journal, the client and a new owner's recovery are for:
whatever is lost, a permit is used once and only while the server holds what it is for, and a slot or
unit is given back once, as what it was, when nothing runs in it any more. `ManagedJournal` maps the
account to what the server holds (a started unit is held), `used` to the rows' claims, `busy` to what
runs, `continued` to a second journal file.

### `ManagedJournal`

`row` is a row of `requests` or of `effects` (kind `worker`) in the first epoch's journal: its phase,
its outcome, whether it was ever sent (`leased`), started, claimed. `outbox` is the outbox table:
what was never tried, what was, what is acknowledged or superseded, and `before`, the order of what
waits (by last attempt, then ordinal). It is a partial order: observations that one fence writes for
several requests, or for several slots, are delivered in either order. `at` is where the
host's thread stands with the resource, `running` the participants that really run, `wire` the one
message of a resource and its answer, `server` what the server holds. `att`, `req` and `run` are the
run's own rows, which decide what the owner of a later epoch may derive (`Provable`,
`ReconcileWorker`). `journals` are the epochs whose journal file exists.

The server is outside the repository. It admits an identity once, answers positively, as a replay or
with a refusal, never admits what is fenced, takes an observation of what it holds and refuses one
about what it does not know; the client's code shows it relies on just this. A message is sent once;
a lost message is one never answered, after which the thread gives up. A participant's native attempt
is open or stopped, and the `worker_started` command is one step with the claim. Reading the proof
and recording it is one step of the owner, as is the test of slots and of unresolved rows before a
journal is attached. One delivery is tried at a time. That a process is gone may be seen whenever it
is (`Gone`), which is more than the code can always establish.

### `MissionDaemon`

| variable | code |
|---|---|
| `disk` | the roadmap file (items, criteria, status) and `.inflight` |
| `daemon` | the thread: its place in `_run`, the item and iteration, the streaks, the verdict it holds |
| `shared` | the events and fields other threads set: the tracker's stop, the daemon's stop and its reason, pause, the ceiling's timeout |
| `tracker` | `DispatchTracker`: whether the wait is to return, and the outcome it knows |
| `sub` | the intents of the mission that have not ended |
| `life`, `untold` | how often the mission was started; interrupted items no resume has told of (history) |

Each step of `_run` between two points where another thread can be seen is an action; a save that
may fail leaves the file as it was. What a model answers is any answer: it may claim convergence,
ask, add items or edit the criteria in the file. Abstracted: the order of tiers; a repair item has
the name of its criterion; time, spending and mode rules stop the loop whenever they like; a daemon
is stopped once, and not paused after that; cancelling an intent and its worker's end are atomic;
how an answer is handed to a parked daemon, a person's own edits of the roadmap, failures to write
`.inflight` and the session record's phase are left out.

## 3. What the runs check

| run | instance | question |
|---|---|---|
| `takeover` | 1 item, 2 attempts, 2 requests, allowance 1 of 1, children, repeated observations, 2 epochs | spending, settlement and termination through a crash and a takeover anywhere |
| `graph` | 2 items, 4 plans (one cyclic), 2 workers, 2 attempts, no requests, 2 epochs | work follows the accepted dependencies of the current specification |
| `live` | 1 attempt of either kind, 1 request, tools, pause, controls, children, 2 epochs | pause and the lifecycle under every control; stop, pause and recovery end |
| `commands` | 2 apps, 2 commands of any kind, lost answers, 3 ticks, 3 epochs | at most one commit and one launch, on the run its author saw; a lost takeover is learned of |
| `checkout` | 1 writer, 1 candidate, 2 checks, 1 approval, 1 job at a time, pause, own commits, 2 epochs | what is recorded as applied or accepted was in the checkout; the rows keep to the run's lifecycle |
| `recovery` | 1 writer with a verified candidate, 1 check that may run again, 1 approval, 3 slots, own commits, 2 epochs | what a merge goes by, an ended run is over, no late process moves the checkout, recovery ends |
| `managed` | 1 participant, 1 request, 2 epochs, every loss and crash | the server's accounts agree with what ran; all of it implements `ManagedLedger`; the team can continue |
| `mission` | 1 item, 1 checked criterion, 2 iterations, limits of 2, 2 lives | complete means converged, nothing reruns silently, stops and stalls end |
| `allowance` | as `takeover` | finding 1 (violation) |
| `expired` | 2 apps, 3 ticks, 3 epochs | finding 2 (violation) |
| `mission_stop` | as `mission`, with an added item and a judged criterion | finding 3 (violation) |
| `managed_takeover` | 1 participant, 3 epochs | finding 4 (violation) |

Safety of a run (`SwarmRun`):

* `SpendWithinLimit`: requests that ever began never exceed the run's limit, nor an attempt's
  allowance. It needs `_settle`'s refusal to call a begun request unused (mutant `Refundable`).
* `SettledIsExact`: a settled reservation is the sum of its requests and none of them is open.
* `OneExecutionPerWork`: two participants never execute for one item, even when one is an orphan of
  an earlier epoch while the item is retried.
* `StoppedMeansStopped`: what is recorded as stopped does not execute. (`WorkerStopped` joins its
  participant first; recovery settles a thread only when its app is gone.)
* `WorkMirrorsAttempt`, `DependenciesFirst`, `AcceptedIsCurrent`: items, attempts, plans and
  submissions agree through replanning, rejection, retry and recovery.
* `PausedIsQuiet`: what a paused run promises.
* `EndIsResolved`: what an ended run promises, stated over the columns and over what really executes, not
  over the `_unresolved` query that the code's own transitions ask: no participant executes, every
  attempt, request and tool has a known outcome, and in the step that ends the run every child was seen to
  stop and every reservation is settled at what its requests spent. The mutant narrows the query, and so
  every guard that asks it.
* `PastIsKnown`: when recovery has ended, no process, attempt, request or tool action of the epochs
  before it has an unknown outcome. It leaves out their observations and reservations, which a repeated
  observation of a child may take up again after `recover` (finding 1).

Safety of authority (`SwarmAuthority`): `AppliedOnce`, `LaunchedOnce`, `OneAppPerEpoch`,
`DecidedOnWhatIsSeen`. The journal of receipts is kept per supervisor, so a replay to a later owner
finds none; that it is still not applied twice rests on the revision check alone (mutant `OnTime`).

Integration (`SwarmIntegration`): `MergesOnlyWhatPassed`, `MovesOnlyWhilePending`, `AppliedWasThere`,
`AcceptedWasThere` tie the checkout, outside the database, to the rows that speak of it. The first
says what a merge goes by: it is let go only for a candidate whose every check has "passed" as its last
recorded outcome. It is the latest receipt, with one exception the code makes: a re-check that could
record neither its outcome nor its failure leaves its receipt "running" and the candidate verified, and
the merge goes by the outcome before (`passed`). A receipt that is uncertain, cancelled or failed never
lets one through; the mutant does, since it interrupts a check and leaves its candidate verified. The
property speaks of the step that lets Git go, not of the one in which HEAD moves: the orphaned merge of
a fenced owner may move the checkout after the new owner has settled an interrupted re-check.
`TerminalIsQuiet` says that after the end no child of an effect lives and nothing is open again.

Managed sharing (`ManagedJournal`): `AccountsAgree` says that no participant runs in a slot the
server has released, nothing it knows as never started has consumed a permit, and what it holds is
owed to it; `ImplementsLedger` that each slot and unit has one account, from being taken to being given
back, that no loss, replay, crash or new owner makes it go through twice, and that a team continues
only when no slot of its past is held or taken afterwards by what an old process still sends (its
mutant lets it continue on outcomes not yet delivered).

Missions (`MissionDaemon`): `CompleteIsConverged`, `NoSilentRerun`, `SupersededIsCancelled`.

Liveness: `StopTerminates`, `PauseReached`, `RecoveryTerminates`, `LostTakeoverIsLearned` of a team,
`RecoveryTerminates` of integration, `ContinueReached` of a managed team, `StopTerminates` and
`CeilingFrees` of a mission. Refinement: `ImplementsLifecycle` in `live`, `commands` and `checkout`,
`ImplementsLedger` in `managed`.

Each property has a mutant of one definition that TLC refutes it on; the mutated forms stand before
the definitions they replace, marked "Mutant".

**Bounds, and why they suffice.** Two epochs give one takeover, and every fencing decision compares
an epoch with the current one; `commands` has three, so that an app can lose a run, see it pass
through another, and try again. Two attempts are the fewest with which an item can be retried while
its first participant still runs, or allowance can be granted twice; two requests on an allowance of
one make every refund visible. `live` needs one attempt, since accounting, pause and checkpoint
quantify over attempts separately, and has all features instead. `graph` drops requests: its
properties are about items, and attempts still end in each way. `MaxRevision` 2 lets an item change
once before it is attempted. Three ticks with a lease of one let a lease lapse, be taken and lapse
again, and a takeover's answer be lost and asked for once more. `checkout` has two checks, so that
one can pass while the other is open, and one job at a time per app: apps still overlap, through
threads and processes of the fenced owner. `recovery` has three slots and starts from a verified
candidate (`VerifiedInit`), a state `checkout` reaches: a re-check that is left open, a merge beside it, and an observation of the new owner that
meets a running effect of the old one. It switches `pause` and `refusals` off, so `RecoveryTerminates`
says nothing of what a pause leaves behind or of a changed branch. Larger variants, too slow for
runs, satisfy the same safety properties: two checks instead of one (1,133,652 states), and `parallel`
and `refusals` on two slots (2,827,772). The proofs of section 4 depend on none of this. One
participant with one request suffices for `managed`, whose rows meet only in the outbox (two
observations at least, of which one may be undeliverable) and in the report of a participant; two
participants were checked without requests. Two iterations, limits of 2 and a resume let every
streak reach its limit in `mission`. `CHECK_DEADLOCK FALSE` is used throughout: a run really ends,
and then nothing is left to do.

**Fairness.** `SchedulingFairness` is what the code does by itself: a tool and a request return, a
child that ended is seen by its host (a wait in its thread), a joined participant is reported, the
maintenance thread renews the lease and with it checkpoints, and a dead owner's lease lapses. A
participant is assumed to end only when its admission is closed for good (the run was stopped or
its epoch is past): a paused one waits in `_admission` without limit. `OwnerFairness` is a person:
takes the expired run over, closes the app that lost it, inspects processes until the process table
answers (strong fairness: the answer may be "unknown" now and then), states outcomes, ends the
recovery. `StopTerminates` and `PauseReached` except an outcome left unknown in the first epoch (for
a stop) or unknown at all (for a pause): the code has no command to settle it before a takeover, and
waits on purpose. They therefore do not show that such a run ever ends (a hazard `PROJECT.json` lists
without a property). `LostTakeoverIsLearned` assumes that the owner asks again while the clock ticks.

In `SwarmIntegration`, `ThreadFairness` lets threads take their steps and children end (their time is
limited), `OwnerFairness` has the owner ask about all that is open and then end the recovery.
`RecoveryTerminates` excepts a checkout at neither end of an unknown merge, and an operation of the
new owner itself whose outcome its app could not record: both wait for somebody, on purpose. In
`ManagedJournal` the owner goes on through what the panel offers and retries deliveries; strong
fairness of the delivery of a slot's end says that the server is not unreachable each time its turn
comes. `ContinueReached` supposes the first app gone, the owner's alive and the fence not refused
(finding 4). In `MissionDaemon` the daemon's thread, the monitor and a stop that has begun go on; a
model's session is assumed to return, while a sub-mission may run for ever and a person never answer.

## 4. What is proved

For every value of the constants that their named assumptions allow: any set of works and plans, of
apps and commands, of items and criteria, any limit, capacity, feature set and bound.

| module | theorem | statement |
|---|---|---|
| `SwarmRunProofs` | `TypeCorrect` | `Spec => [](TypeOK /\ Keyed)` |
| `SwarmRunSafety` | `LifecycleRefinement` | `Spec => ImplementsLifecycle` (initial state and every step map to `RunLifecycle`) |
| | `StopFinal` | `Spec => []StopIsFinal` |
| | `Fencing` | `Spec => FencedIsInert` |
| | `PauseIsQuiet` | `Spec => []PausedIsQuiet` |
| `SwarmRunAttempts` | `StoppedIsOver` | `Spec => []StoppedMeansStopped` |
| | `WorkMirrored` | `Spec => []WorkMirrorsAttempt` |
| | `OneExecution` | `Spec => []OneExecutionPerWork` |
| | `Dependencies` | `Spec => []DependenciesFirst` |
| | `AcceptedCurrent` | `Spec => []AcceptedIsCurrent` |
| `SwarmRunAccounting` | `SettledExact` | `Spec => []SettledIsExact` |
| | `SpendLimit` | `Spec => []SpendWithinLimit` |
| | `PastKnown` | `Spec => []PastIsKnown` |
| | `EndResolved` | `Spec => EndIsResolved` |
| `SwarmAuthorityProofs` | `TypeCorrect` | `Spec => []TypeOK` |
| | `AtMostOnce`, `LaunchAtMostOnce` | `Spec => []AppliedOnce`, `Spec => []LaunchedOnce` |
| | `EpochOfOneApp` | `Spec => []OneAppPerEpoch` |
| | `AsSeen` | `Spec => DecidedOnWhatIsSeen` |
| | `LifecycleRefinement` | `Spec => ImplementsLifecycle` |
| `SwarmIntegrationProofs` | `TypeCorrect` | `Spec => []TypeOK` |
| | `AppliedThere`, `AcceptedThere` | `Spec => []AppliedWasThere`, `Spec => []AcceptedWasThere` |
| | `MovesPending`, `MergesPassed` | `Spec => MovesOnlyWhilePending`, `Spec => MergesOnlyWhatPassed` |
| | `EndedIsQuiet` | `Spec => []TerminalIsQuiet` |
| | `IntegrationLifecycle` | `Spec => ImplementsLifecycle` |
| `ManagedJournalProofs` | `TypeCorrect` | `Spec => []TypeOK` |
| | `Accounts` | `Spec => []AccountsAgree` |
| | `Continues` | `Spec => []ContinuesClean` |
| | `LedgerRefinement` | `Spec => ImplementsLedger` (initial state and every step map to `ManagedLedger`) |
| `MissionDaemonProofs` | `TypeCorrect` | `Spec => []TypeOK` |
| | `CompleteConverged` | `Spec => CompleteIsConverged` |
| | `SilentRerun` | `Spec => NoSilentRerun` |
| | `Superseded` | `Spec => SupersededIsCancelled` |

So every invariant, action property and refinement that a passing run checks is also a theorem.
`StopIsFinal`, `ContinuesClean` and `FencedIsInert` are in no run: the lifecycle that `live` checks
implies the first, the ledger that `managed` checks the second, and the third is a proof about
guards, worth having for every epoch and nothing to search for. It alone would show a fencing check
that is missing on an effect: the properties of the runs speak of what such an effect would lead to.

*Types* (`SwarmRunProofs`). `TypeOK` is not inductive: settling a request refreshes the attempt it
names, and the row of a worker indexes its work item, so `TypeInv` adds `Keyed`, that requests that exist
name attempts that exist and worker attempts name works. `TypeCorrect` states both. The proof has one
lemma per group of
actions for the types and one for the keys (`Kept`, `RequestKept`: rows are never removed), on top of
lemmas that say what `Checkpointed`, `Refreshed`, `Fenced`, `Ready` and `WorkAfter` may change.

*Refinement*. `RunSteps` sorts all steps by what they do to the run row: nothing, a checkpoint under
a live lease, or one of nine named actions. Each case maps to one action of `RunLifecycle` or a
stutter. The strengthening is `Asked`: a run that is `stopping` was asked to stop, without which
`Close` would have no reason. `StopFinal` then follows from the lifecycle alone, as an invariant of
the refinement.

*Fencing*. Every effect of a participant is guarded by `Current` (epoch equality under a live lease),
and recovery's own writes to past attempts only close. The proof shows, action by action, that the
four columns that stand for effects do not move for a past attempt.

*Pause*. `QuietInv` is inductive with `TypeInv`: the checkpoint establishes it, and no request or tool
can begin without an admitting run.

*Attempts* (`SwarmRunAttempts`). That what is recorded as stopped does not execute is not inductive,
because the row and the execution are written by different steps: a thread starts before its row
says so, a child ends before anybody sees it, and a recovery owner commits what it read earlier.
`ExecInv` says which executions are possible beside each row (`RowOK`), that no thread outlives its
app (`HostOK`), and that a process seen gone is gone (`SeenOK`). `WorkInv` relates items and attempts:
an item is held by at most one active worker (`OneActive`), shows its state (`ActiveMirrored`,
`ActiveHeld`), and was attempted exactly when it is past waiting (`Tried`, `Untried`), so that a new
plan never changes an item somebody worked on. `OneExecution` is the two together: what executes is
not recorded as stopped, hence active, hence the one that holds its item.

*Accounting* (`SwarmRunAccounting`). The obvious bound, that what is allocated stays within the limit,
is false: finding 1 is its counterexample. `Budget` bounds what can still be spent instead: an attempt
that has stopped with no request under way counts what it spent, whatever its reservation says, and
any other its whole allowance (`Ceiling`). Reopening a settled reservation leaves the ceiling alone,
and a new grant is tested against an allocation that is never below it. Sums are cardinalities of
sets of units (`Units`), so that the library's facts about finite sets do the arithmetic. `Exact` and
`Within` are the accounting of one attempt, `Begun` that a refunded request never began. `PastOver`
gives `PastKnown`: a run leaves recovery only by `Recover`, which tests what it needs, and past
attempts only close. `EndResolved` needs all three and the lifecycle: a terminal state is entered by the
checkpoint of a stopping run, by `Complete` or by `Recover` of a stopped run; the query each asks is over
rows, so that nothing executes follows from `ExecInv`, that each request has an outcome and each
account is what was spent from `Exact`; and an ended run makes no attempt, so what is `Over` stays so
(`EndedStep`).

*Authority*. `IInv` adds five facts to the types. `Granting`: every takeover was of the epoch then
current, so there is one grant per epoch, and an app believes an epoch only by having created the run
or holding its grant; `OneAppPerEpoch` follows. `Composed`: a command whose revision is still current
was composed on the run as it is, which is `DecidedOnWhatIsSeen` one step later. `Counted`: the commit
of a command outdates its own revision, so no later owner, who has no receipt of it, can apply it
again. `Owed`: a dispatch is owed by one app, for a commit that has launched nothing. `StopRecorded`: a
stopping run was asked to stop, as in `SwarmRun`.

*Integration*. The properties speak of the checkout, which no transaction reads and writes together
with the rows, so `Inv` describes each thread between two of its transactions: what it stands on
(`Suits`, `Stands`: it runs an effect only as the holder of the lock), what it knows of its row
(`Follows`), what nobody has begun (`Unbegun`), what an observer may judge from (`Observes`), and that
the candidate it was let go for is still verified (`Approved`) and what it saw was there (`Saw`).
`World` is the part about rows: a child lives only with an open process row (`RowsOK`), an approval
moves the checkout with its one child (`MovedOnce`), and of a verified candidate every check last
passed (`VerifiedOK`), or was left running and made uncertain by a takeover (`Vouched`): such a
candidate is of a past epoch, and no merge of it is let go. `Alone` says that no two threads run one
effect. Every action is one of a few shapes
(a thread turns a page, a row is written, an observation is judged), with a lemma for each. The
second layer, `RunInv`, is about the run's row: an ended run is over in these tables (`Ended`), the
end of recovery left nothing open of earlier owners (`PastSettled`), a run pauses or stops only for
something open (`Draining`), and an operation is settled by a later owner's (`Operations`). With
`RunMoves`, which sorts steps by how they move the run, and `Opening`, what a step may open, it gives
`EndedIsQuiet` and `IntegrationLifecycle`.

*Managed sharing*. `Inv` says of each resource what its row, its message, its observations and the
server's account can be at once: what was never sent is known nowhere (`UnsentOK`), whatever follows
from an answer was admitted (`AdmittedOK`), a permit is consumed by what then counts as running
(`ClaimedOK`), only what is recorded is reported and only what was reported is known, and an end is
pending, acknowledged, or `Barred`: the server has no slot or unit and no message can make it take one
(`ReportedOK`). `WorkerOK` ties a participant that runs to its claim, and its recorded end to the
report that is still to come: without it, an old host's late `never_started` could release a slot in
use. `Clean` is the strengthening of `ContinuesClean`, since a slot not held
now may be taken by a message on its way unless it is barred. There is one lemma per action, over six
shapes (`MoveStep`, `RowStep`, `RecordStep`, `Beside`, `ServerStep`, `OwnerWrites`). The refinement sorts
the steps once more: most are `Quiet` (nothing of the ledger moves, unless participants end); a claim
is a `Use`, since a row with a permit is admitted and has no outcome; an observation taken is a
`GiveBack` of what the row records, which `PendingRow` and `ClaimedOK` make the truth; an admission is a
`Take`, which `Clean` forbids for a slot once the team has continued; attaching a journal is a `Continue`,
since a participant that ran would be known to the server.

TLC checked these invariants on instances as well: those of `SwarmRun` in small ones, `Inv` and `RunInv`
of `SwarmIntegration` in that of `recovery` (154,594 states) and that of `checkout` without refusals
(1,527,930), the invariant of `ManagedJournal` with one participant and one request through
three epochs (381,384) and with two participants.

*Missions*. `IInv` adds six. `Streaks`: the counters are below their limits wherever the loop goes on.
`ItemOpen`: the item of an iteration is open until it is checked off. `Told`: what is interrupted and
untold is what the checkpoint on disk names, and nothing while a daemon works; `NoSilentRerun` needs
it, since the action property speaks of a history variable. `Believable`: a verdict past the
cross-check, and the end it leads to, hold on disk. `CancelledFirst`: the wait is told only of a
sub-mission that no longer runs on. `AddsAreNew`: items a reflection adds are new.

*Assumptions.* The named ones of each module: bounds and limits are positive, sets of names do not
overlap, a feature set names features. `None` of `SwarmIntegration`, which marks what a job has not,
is no slot and no candidate. None restricts which items, plans, checks or requests there are.

Only model-checked: liveness under fairness (`StopTerminates`, `PauseReached`, `RecoveryTerminates`,
`LostTakeoverIsLearned`, `ContinueReached`, `CeilingFrees`) and the four findings' counterexamples.
Beyond the prover: liveness and `ENABLED`, and induction over data, such as that the code's recursive
visit of a plan finds a cycle exactly when `Acyclic` fails (no theorem needs it: `DependenciesFirst`
rests on the test at each grant).

## 5. Findings

1. **Allowance allocated twice** (run `allowance`). `ProcessObservations.reconcile` reads the process
   table first and commits the answer later, comparing only the identity of the process. If the
   child's end is reported and the attempt settled in between, an "unknown" answer reopens the
   settled reservation, whose full amount counts again although its unused part was granted to
   another attempt. `docs/swarming-contracts.md:68` promises that a second process cannot "allocate
   the same remaining allowance". Real spending stays within the limit (`SpendWithinLimit` holds); new
   grants, resume and completion wait until the owner observes the process once more.
2. **A refused takeover is never forgotten** (run `expired`). The service keeps the recovery owner of a
   refused takeover, and with it the epoch it expected. When another app has owned the run since and
   its lease has lapsed, this app's attempts are refused as stale until it is restarted, against
   `docs/swarming-managed-setup.md:111`. The same dead end follows a takeover whose answer was lost
   and whose lease lapsed before it was asked for again.

3. **A stop that finds no handle** (run `mission_stop`). `stop()` cancels the handle it finds
   (`autonomous_loop.py:471`). Just before, `_patched_stop` has woken the wait, which may already have
   forgotten the handle; or the sub-mission is being started and has none yet. In both orders it
   runs on, uncancelled, after the mission has ended, although the docstring says the stop "Cancels any
   in-flight dispatch".
4. **A second takeover fences nothing** (run `managed_takeover`). Only an epoch in which a team was
   created or continued has a journal. If the app that took a managed team over is gone before it
   continued it, every later takeover looks for the journal of that epoch, does not find it and fences
   none, so the slots and units of the first epoch can never be reported and the team never continued
   (`managed_recovery.py:56`, `managed_desktop.py:428`). `docs/swarming-managed-setup.md:111` says that
   taking over "fences all retained epoch journals".

Observations made while modelling, each outside the properties or excepted by name in one:

* An application reconciled while HEAD is at neither end of its merge stays uncertain and keeps the
  run from pausing, stopping and completing (`Elsewhere`). A row that becomes uncertain within its own
  epoch is settled only after a takeover (`LeftOpen`). Two open applications of one candidate can both
  be recorded as applied for one merge (why `AppliedWasThere` speaks of the candidate). A checkout the
  person resets to an ancestor of the base between the read (`integration.py:907`) and the merge
  would still be fast-forwarded.
* A verdict of "satisfied" that came with a question is returned past the cross-check when a stop
  ends the park (`autonomous_loop.py:1343`): the exception in `CompleteIsConverged`.
* `dispatch_item` watches a sub-mission after starting it (`autonomous_factory.py:871`); one that ends
  first wakes nothing, the ceiling's cancel is refused for an ended intent, and only a stop ends the
  wait: the exception in `CeilingFrees`.
* A sub-mission that completes while the ceiling flags it is reported as failed and started again; a
  save that fails after shipping leaves the item open with the checkpoint cleared.
* Reconciling a request that was fenced as never admitted turns its `not_admitted` row into a settled
  one (`managed_journal.py:472`); it then counts as an unconfirmed unit for good.
* An old process that still lives can write new rows into a journal after it was fenced. Slots stay
  right, since the continuation waits for the run's own rows. A participant whose request was settled
  by the new owner first cannot report its slot (`managed_runtime.py:129`), which the new owner does.

## 6. Not modelled, and why

Within `SwarmRun`: `steer_worker`, `record_check` and the check evidence an owner's acceptance
needs, proposals of coordinators, writers and their integration rows (they are
`SwarmIntegration`'s), the exception for a search subprocess of a thread, more than one outstanding
inspection, the lost answer of an assignment. Within `SwarmAuthority`: several runs, and a clock
that is set back. Within `SwarmIntegration`: the content of diffs and Git's own objects, central
admission of organizations, previews, removal of worktrees, the helper's message protocol. Within
`ManagedJournal`: tool permits and owner effects (rows of the same shape as a slot's), leases, their
deadlines and policy, registration, remote controls, reports, collaboration between organizations,
rows of later epochs. Within `MissionDaemon`: what section 2 says is abstracted, snapshots, costs
and skills. The unmanaged protocol 1 of the store (`claim`, `mark_dispatched`, `finish_attempt`) is
kept for old data and refused for managed runs. Everything outside the teams is listed with its
reason in `PROJECT.json`.

## 7. Known limits that no property states

A runner that lost its lease stays registered, and its own app refuses to take the run over until it
is restarted (`service.py:1517`). A writer that was leased and never launched before a crash cannot be
settled by recovery (`recovery.py:241`). An assignment whose answer was lost leaves a leased attempt
that only a takeover resolves (`scheduler.py:97`). A participant whose final report failed is shown as
"reconciliation required" and needs a takeover too (`workers.py:810`).

## 8. Plan

In order of importance; each module is a component's state with one action per operation, an MC module
and one or two runs, and a proof module where the property is worth one.

1. `SwarmMailbox`: messages carried by requests, paused and retried admissions, takeover. Delivered at
   most once, in order, and none lost that a live recipient could read; then `Collaboration`.
2. `Coordinator` and `Autopilot`: proposals decided on a graph that has changed, and a loop that commands
   from a snapshot.
3. `ScheduleClaim` and `AuditChain`: claim files and a lock that may be missing, small and
   self-contained; `SessionLedger`.
4. Proofs: a refinement of `MissionDaemon` to an abstract account of what it promises (working, asked to
   stop, ended); the properties of new modules as they come.
