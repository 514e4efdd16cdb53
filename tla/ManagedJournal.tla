--------------------------- MODULE ManagedJournal ---------------------------
(***************************************************************************)
(* A managed team asks an organization's server before it launches a       *)
(* participant and before it calls a provider.  The server counts a slot   *)
(* for the one and a unit for the other until the host tells it how they   *)
(* ended.  The host keeps a journal of what it asked for, what it was      *)
(* permitted, and what it still has to report.                             *)
(*                                                                         *)
(* Messages may be delayed, lost or refused, their answers may be lost,    *)
(* and the host may crash or lose the run to another app at any step.  The *)
(* new owner of the run may only observe: it closes the permits of the     *)
(* journals it finds, derives how their resources ended from the run's own *)
(* rows, and continues the team when no slot of an earlier epoch is left.  *)
(*                                                                         *)
(* The participants and requests here are those of the first epoch.  What  *)
(* they do is SwarmRun's concern: here a participant runs or does not.     *)
(***************************************************************************)
EXTENDS Naturals

CONSTANTS
  Workers,   \* participants of the first epoch, one slot each
  Requests,  \* their model requests, one unit each
  WorkerOf,  \* the participant that makes each request
  MaxEpoch   \* bound: ownership epochs of the run

Resources == Workers \cup Requests

ASSUME ResourceAssumption == /\ Workers \cap Requests = {}
                             /\ WorkerOf \in [Requests -> Workers]
ASSUME EpochAssumption == MaxEpoch \in Nat \ {0}

VARIABLES
  run,      \* the runs row: epoch, and whether it waits for recovery
  att,      \* attempts.process_state of each participant
  req,      \* model_requests: state, and whether a start was committed
  host,     \* the app process that acquired each epoch
  journals, \* epochs with a journal file
  row,      \* rows of the first epoch's journal
  outbox,   \* its outbox: observations to deliver
  at,       \* where the host's thread is with each resource
  running,  \* participants that run: a thread or a child process
  wire,     \* the message of each resource on its way, or its answer
  server,   \* external: what the server holds of each resource
  fence     \* ManagedRecovery._fenced of the run's present owner

native == <<run, att, req>>
vars == <<run, att, req, host, journals, row, outbox, at, running, wire, server, fence>>

Final   == {"completed", "failed", "never_started", "stopped"}
Phases  == {"none", "prepared", "pending", "reserved", "starting", "permitted", "invoked",
            "uncertain", "settled", "not_admitted"}
Settled == {"completed", "failed", "not_started"}
Keys    == Resources \X (Final \cup {"uncertain"})

NoRow == [phase |-> "none", outcome |-> "none", leased |-> FALSE, started |-> FALSE,
          claimed |-> FALSE]

TypeOK ==
  /\ run \in [epoch : 1..MaxEpoch, state : {"running", "recovery_required"}]
  /\ att \in [Workers -> {"open", "stopped"}]
  /\ req \in [Requests -> [state : {"none", "reserved", "started", "uncertain"} \cup Settled,
                           begun : BOOLEAN]]
  /\ host \in [1..MaxEpoch -> {"none", "live", "dead"}]
  /\ journals \subseteq 1..MaxEpoch
  /\ row \in [Resources -> [phase : Phases, outcome : Final \cup {"none", "uncertain"},
                            leased : BOOLEAN, started : BOOLEAN, claimed : BOOLEAN]]
  /\ \A x \in Resources : /\ row[x].phase = "uncertain" <=> row[x].outcome = "uncertain"
                          /\ row[x].outcome \in Final <=> row[x].phase \in {"settled", "not_admitted"}
  /\ outbox \in [fresh : SUBSET Keys, tried : SUBSET Keys, before : SUBSET (Keys \X Keys),
                 acked : SUBSET Keys, superseded : SUBSET Keys]
  /\ at \in [Resources -> {"idle", "reserved", "opened", "sent", "held", "starting", "ready",
                           "launched", "running", "answered", "failed", "closed", "unclosed", "over"}]
  /\ running \subseteq Workers
  /\ wire \in [Resources -> {"none", "asked", "granted", "replayed", "denied"}]
  /\ server \in [Resources -> Final \cup {"absent", "fenced", "held", "started"}]
  /\ fence \in {"no", "done", "refused"}

\* A created team with its participants assigned and its journal attached.
Init ==
  /\ run = [epoch |-> 1, state |-> "running"]
  /\ att = [w \in Workers |-> "open"]
  /\ req = [r \in Requests |-> [state |-> "none", begun |-> FALSE]]
  /\ host = [e \in 1..MaxEpoch |-> IF e = 1 THEN "live" ELSE "none"]
  /\ journals = {1}
  /\ row = [x \in Resources |-> NoRow]
  /\ outbox = [fresh |-> {}, tried |-> {}, before |-> {}, acked |-> {}, superseded |-> {}]
  /\ at = [x \in Resources |-> "idle"]
  /\ running = {}
  /\ wire = [x \in Resources |-> "none"]
  /\ server = [x \in Resources |-> "absent"]
  /\ fence = "no"

-----------------------------------------------------------------------------
(* The outbox *)

\* What is to be delivered, tried before or not.  before orders it by its last
\* attempt and then by its ordinal; the rows one transaction adds may have none.
Waiting(box) == box.fresh \cup box.tried
Known(box)   == Waiting(box) \cup box.acked \cup box.superseded

\* ManagedJournal.pending
Pending == Waiting(outbox)
First(k) == k \in Pending /\ \A j \in Pending : <<j, k>> \notin outbox.before

KeysOf(x) == {k \in Keys : k[1] = x}

Without(box, keys) ==
  [box EXCEPT !.fresh = @ \ keys, !.tried = @ \ keys,
              !.before = {p \in @ : p[1] \notin keys /\ p[2] \notin keys}]

\* New rows go behind what was never tried, and before what was; those of
\* requests before those of slots.
Added(box, keys) ==
  [box EXCEPT !.fresh = @ \cup keys,
              !.before = @ \cup (box.fresh \X keys) \cup (keys \X box.tried)
                           \cup {p \in keys \X keys : p[1][1] \in Requests /\ p[2][1] \in Workers}]

\* The rows of keys get superseded_by, where they have no receipt.
Superseding(box, keys) ==
  [Without(box, keys) EXCEPT !.superseded = @ \cup (keys \cap Waiting(box))]

\* An observation is written once; a concrete one supersedes an uncertain one.
Enqueued(box, x, o) ==
  LET grown == IF <<x, o>> \in Known(box) THEN box ELSE Added(box, {<<x, o>>})
  IN IF o = "uncertain" THEN grown ELSE Superseding(grown, {<<x, "uncertain">>})

(* Observations of the rows *)

\* What the journal agrees to record.
Recordable(x, o) ==
  IF row[x].outcome \in Final THEN row[x].outcome = o
  ELSE IF x \in Workers
  THEN (o = "never_started" => ~row[x].claimed) /\ (o = "stopped" => row[x].claimed)
  ELSE /\ o = "completed" => row[x].phase = "invoked"
       /\ o = "never_started" => row[x].phase \in {"prepared", "reserved"}
       /\ row[x].phase # "not_admitted"

\* Before anything is sent there is nothing to report.
Unsent(x) == row[x].phase \in {"none", "prepared"}

\* Mutant: whatever is observed settles the row.
SettledAnyway(x, o) == [row[x] EXCEPT !.phase = "settled", !.outcome = o]

SettledRow(x, o) == [row[x] EXCEPT !.phase = IF o = "uncertain" THEN "uncertain" ELSE "settled",
                                   !.outcome = o]

\* _observe and _observe_effect, when the journal agrees.
Recorded(x, o) ==
  IF row[x].outcome \in Final THEN UNCHANGED <<row, outbox>>
  ELSE /\ row' = [row EXCEPT ![x] = SettledRow(x, o)]
       /\ outbox' = IF Unsent(x) THEN outbox ELSE Enqueued(outbox, x, o)

-----------------------------------------------------------------------------
(* The host of the first epoch *)

Hosting == host[1] = "live"

\* SwarmStore._authority and _admitting, for the first epoch.
Authority == run = [epoch |-> 1, state |-> "running"]

Step(x, from, to) == Hosting /\ at[x] = from /\ at' = [at EXCEPT ![x] = to]

\* The slot's identity is persisted.  No check of the run is made here.
OpenSlot(w) ==
  /\ Step(w, "idle", "opened")
  /\ row' = [row EXCEPT ![w].phase = "prepared"]
  /\ UNCHANGED <<native, host, journals, outbox, running, wire, server, fence>>

\* begin_worker, then the one send.
SendSlot(w) ==
  /\ row[w].phase = "prepared"
  /\ Step(w, "opened", "sent")
  /\ row' = [row EXCEPT ![w].phase = "pending", ![w].leased = TRUE]
  /\ wire' = [wire EXCEPT ![w] = "asked"]
  /\ UNCHANGED <<native, host, journals, outbox, running, server, fence>>

\* A first positive answer is a permit; a replayed one is not.
ReceiveSlot(w) ==
  /\ row[w].phase = "pending" /\ wire[w] \in {"granted", "replayed"}
  /\ Step(w, "sent", "ready")
  /\ IF wire[w] = "granted"
     THEN row' = [row EXCEPT ![w].phase = "permitted"] /\ UNCHANGED outbox
     ELSE Recorded(w, "uncertain")
  /\ wire' = [wire EXCEPT ![w] = "none"]
  /\ UNCHANGED <<native, host, journals, running, server, fence>>

\* worker_started, then the permit is consumed inside a transaction of the run.
ClaimSlot(w) ==
  /\ Authority /\ row[w].phase = "permitted"
  /\ Step(w, "ready", "running")
  /\ row' = [row EXCEPT ![w].phase = "invoked", ![w].claimed = TRUE]
  /\ running' = running \cup {w}
  /\ UNCHANGED <<native, host, journals, outbox, wire, server, fence>>

\* reserve_request of the run.
ReserveRequest(r) ==
  /\ Authority /\ at[WorkerOf[r]] = "running" /\ WorkerOf[r] \in running
  /\ Step(r, "idle", "reserved")
  /\ req' = [req EXCEPT ![r].state = "reserved"]
  /\ UNCHANGED <<run, att, host, journals, row, outbox, running, wire, server, fence>>

\* ManagedJournal.request: again no check of the run.
OpenRequest(r) ==
  /\ Step(r, "reserved", "opened")
  /\ row' = [row EXCEPT ![r].phase = "prepared"]
  /\ UNCHANGED <<native, host, journals, outbox, running, wire, server, fence>>

SendReserve(r) ==
  /\ row[r].phase = "prepared"
  /\ Step(r, "opened", "sent")
  /\ row' = [row EXCEPT ![r].phase = "pending", ![r].leased = TRUE]
  /\ wire' = [wire EXCEPT ![r] = "asked"]
  /\ UNCHANGED <<native, host, journals, outbox, running, server, fence>>

ReceiveReserve(r) ==
  /\ row[r].phase = "pending" /\ wire[r] = "granted"
  /\ Step(r, "sent", "held")
  /\ row' = [row EXCEPT ![r].phase = "reserved"]
  /\ wire' = [wire EXCEPT ![r] = "none"]
  /\ UNCHANGED <<native, host, journals, outbox, running, server, fence>>

\* reserve_rejected: only a definite denial proves there is no unit.
ReceiveDenial(r) ==
  /\ row[r].phase = "pending" /\ wire[r] = "denied"
  /\ Step(r, "sent", "over")
  /\ row' = [row EXCEPT ![r].phase = "not_admitted", ![r].outcome = "never_started"]
  /\ wire' = [wire EXCEPT ![r] = "none"]
  /\ UNCHANGED <<native, host, journals, outbox, running, server, fence>>

\* The unit is bound to the live slot, and the start is recorded before it is sent.
SendStart(r) ==
  /\ row[r].phase = "reserved" /\ row[WorkerOf[r]].phase = "invoked"
  /\ Step(r, "held", "starting")
  /\ row' = [row EXCEPT ![r].phase = "starting", ![r].started = TRUE]
  /\ wire' = [wire EXCEPT ![r] = "asked"]
  /\ UNCHANGED <<native, host, journals, outbox, running, server, fence>>

ReceiveStart(r) ==
  /\ row[r].phase = "starting" /\ wire[r] \in {"granted", "replayed"}
  /\ Step(r, "starting", "ready")
  /\ IF wire[r] = "granted"
     THEN row' = [row EXCEPT ![r].phase = "permitted"] /\ UNCHANGED outbox
     ELSE Recorded(r, "uncertain")
  /\ wire' = [wire EXCEPT ![r] = "none"]
  /\ UNCHANGED <<native, host, journals, running, server, fence>>

\* start_request of the run.
StartRequest(r) ==
  /\ Authority /\ req[r].state = "reserved"
  /\ Step(r, "ready", "launched")
  /\ req' = [req EXCEPT ![r] = [state |-> "started", begun |-> TRUE]]
  /\ UNCHANGED <<run, att, host, journals, row, outbox, running, wire, server, fence>>

\* The permit is consumed inside a transaction of the run; the provider is called.
ClaimRequest(r) ==
  /\ Authority /\ row[r].phase = "permitted"
  /\ Step(r, "launched", "running")
  /\ row' = [row EXCEPT ![r].phase = "invoked", ![r].claimed = TRUE]
  /\ UNCHANGED <<native, host, journals, outbox, running, wire, server, fence>>

\* end_request: the run's own settlement comes first.
EndRequest(r, o) ==
  /\ Step(r, "running", IF run.epoch = 1 THEN "answered" ELSE "failed")
  /\ req' = IF run.epoch = 1 THEN [req EXCEPT ![r].state = o] ELSE req
  /\ UNCHANGED <<run, att, host, journals, row, outbox, running, wire, server, fence>>

\* observe_request: then the journal's.
ObserveRequest(r) ==
  LET o == IF req[r].state = "completed" THEN "completed" ELSE "uncertain" IN
  /\ Step(r, "answered", IF Recordable(r, o) THEN "over" ELSE "failed")
  /\ IF Recordable(r, o) THEN Recorded(r, o) ELSE UNCHANGED <<row, outbox>>
  /\ UNCHANGED <<native, host, journals, running, wire, server, fence>>

\* Any step of the admission may fail; what was opened is then of unknown outcome.
AbandonRequest(r) ==
  /\ at[r] \in {"reserved", "opened", "sent", "held", "starting", "ready", "launched"}
  /\ Step(r, at[r], IF at[r] = "reserved" \/ Recordable(r, "uncertain") THEN "over" ELSE "failed")
  /\ IF at[r] # "reserved" /\ Recordable(r, "uncertain")
     THEN Recorded(r, "uncertain") ELSE UNCHANGED <<row, outbox>>
  /\ UNCHANGED <<native, host, journals, running, wire, server, fence>>

RequestsOf(w) == {r \in Requests : WorkerOf[r] = w}

\* Mutant: resources are taken for closed whatever their cleanup said.
ClosedAnyway(w, closed) ==
  /\ at[w] \in {"idle", "opened", "sent", "ready", "running"}
  /\ \A r \in RequestsOf(w) : at[r] \in {"idle", "running", "failed", "over"}
  /\ closed \/ w \in running
  /\ Step(w, at[w], "closed")
  /\ running' = IF closed THEN running \ {w} ELSE running
  /\ IF closed /\ run.epoch = 1
     THEN /\ att' = [att EXCEPT ![w] = "stopped"]
          /\ req' = [r \in Requests |->
               IF r \notin RequestsOf(w) THEN req[r]
               ELSE [req[r] EXCEPT !.state = CASE @ = "reserved" -> "not_started"
                                               [] @ = "started"  -> "uncertain"
                                               [] OTHER          -> @]]
     ELSE UNCHANGED <<att, req>>
  /\ UNCHANGED <<run, host, journals, row, outbox, wire, server, fence>>

\* The participant's thread ends, at any of its steps, with its resources
\* closed or not; the run records a known end while it is the owner's.
StopParticipant(w, closed) ==
  /\ at[w] \in {"idle", "opened", "sent", "ready", "running"}
  /\ \A r \in RequestsOf(w) : at[r] \in {"idle", "running", "failed", "over"}
  /\ closed \/ w \in running
  /\ Step(w, at[w], IF closed THEN "closed" ELSE "unclosed")
  /\ running' = IF closed THEN running \ {w} ELSE running
  /\ IF closed /\ run.epoch = 1
     THEN /\ att' = [att EXCEPT ![w] = "stopped"]
          /\ req' = [r \in Requests |->
               IF r \notin RequestsOf(w) THEN req[r]
               ELSE [req[r] EXCEPT !.state = CASE @ = "reserved" -> "not_started"
                                               [] @ = "started"  -> "uncertain"
                                               [] OTHER          -> @]]
     ELSE UNCHANGED <<att, req>>
  /\ UNCHANGED <<run, host, journals, row, outbox, wire, server, fence>>

\* finish_worker: what the participant left unobserved is of unknown outcome.
\* A refusal of the journal ends the report.
ReportRequest(r) ==
  LET w == WorkerOf[r] IN
  /\ Hosting /\ at[w] \in {"closed", "unclosed"} /\ at[r] \in {"running", "failed"}
  /\ IF Recordable(r, "uncertain")
     THEN Recorded(r, "uncertain") /\ at' = [at EXCEPT ![r] = "over"]
     ELSE at' = [at EXCEPT ![w] = "over"] /\ UNCHANGED <<row, outbox>>
  /\ UNCHANGED <<native, host, journals, running, wire, server, fence>>

\* finish_worker: then the slot.
ReportSlot(w) ==
  LET o == IF at[w] = "unclosed" THEN "uncertain"
           ELSE IF row[w].claimed THEN "stopped" ELSE "never_started" IN
  /\ at[w] \in {"closed", "unclosed"} /\ Step(w, at[w], "over")
  /\ \A r \in RequestsOf(w) : at[r] \in {"idle", "over"}
  /\ IF row[w].phase # "none" /\ Recordable(w, o) THEN Recorded(w, o) ELSE UNCHANGED <<row, outbox>>
  /\ UNCHANGED <<native, host, journals, running, wire, server, fence>>

-----------------------------------------------------------------------------
(* The server, as src/ relies on it *)

\* A first admission is answered positively, or as if it were a replay (the
\* answer that permits nothing), or it is refused; what is fenced is refused.
Admit(x) ==
  /\ wire[x] = "asked" /\ server[x] \in {"absent", "fenced"}
  /\ \/ /\ server[x] = "absent" /\ server' = [server EXCEPT ![x] = "held"]
        /\ \E answer \in {"granted"} \cup (IF x \in Workers THEN {"replayed"} ELSE {}) :
             wire' = [wire EXCEPT ![x] = answer]
     \/ UNCHANGED server /\ wire' = [wire EXCEPT ![x] = "denied"]
  /\ UNCHANGED <<native, host, journals, row, outbox, at, running, fence>>

StartUnit(r) ==
  /\ wire[r] = "asked" /\ server[r] = "held" /\ row[r].started
  /\ server' = [server EXCEPT ![r] = "started"]
  /\ \E answer \in {"granted", "replayed"} : wire' = [wire EXCEPT ![r] = answer]
  /\ UNCHANGED <<native, host, journals, row, outbox, at, running, fence>>

\* Whether the server takes an observation, and what it holds afterwards.
Takes(k) == server[k[1]] \in {"held", "started", k[2]}
Told(k)  == IF k[2] = "uncertain" THEN server ELSE [server EXCEPT ![k[1]] = k[2]]

\* The pump of the host, or the flush of an owner that has fenced.
Delivering == Hosting \/ (fence = "done" /\ host[run.epoch] = "live")

\* Mutant: an attempt does not count.
NotMarked(k) == outbox

\* mark_delivery_attempt: what was tried goes behind everything else.
Marked(k) == LET others == Without(outbox, {k}) IN
  [others EXCEPT !.tried = @ \cup {k}, !.before = @ \cup (Waiting(others) \X {k})]

Deliver(k) ==
  /\ Delivering /\ First(k) /\ Takes(k)
  /\ server' = Told(k)
  /\ outbox' = [Without(outbox, {k}) EXCEPT !.acked = @ \cup {k}]
  /\ UNCHANGED <<native, host, journals, row, at, running, wire, fence>>

\* The server refuses, is out of reach, or its answer is lost.
Undelivered(k) ==
  /\ Delivering /\ First(k)
  /\ server' \in {server} \cup (IF Takes(k) THEN {Told(k)} ELSE {})
  /\ outbox' = Marked(k)
  /\ UNCHANGED <<native, host, journals, row, at, running, wire, fence>>

-----------------------------------------------------------------------------
(* Failures *)

\* An app ends.  Its threads end with it; a child process may live on.
Crash(e) ==
  /\ host[e] = "live"
  /\ host' = [host EXCEPT ![e] = "dead"]
  /\ IF e = 1 THEN /\ at' = [x \in Resources |-> "over"]
                   /\ \E orphans \in SUBSET running : running' = orphans
              ELSE UNCHANGED <<at, running>>
  /\ UNCHANGED <<native, journals, row, outbox, wire, server, fence>>

ChildEnds(w) ==
  /\ w \in running
  /\ ~Hosting \/ at[w] \in {"unclosed", "over"}
  /\ running' = running \ {w}
  /\ UNCHANGED <<native, host, journals, row, outbox, at, wire, server, fence>>

-----------------------------------------------------------------------------
(* The owner of a later epoch *)

\* SwarmSupervisor.acquire, once the lease has lapsed.
TakeOver ==
  /\ run.epoch < MaxEpoch
  /\ run' = [epoch |-> run.epoch + 1, state |-> "recovery_required"]
  /\ req' = [r \in Requests |-> IF req[r].state \in {"reserved", "started"}
                                THEN [req[r] EXCEPT !.state = "uncertain"] ELSE req[r]]
  /\ host' = [host EXCEPT ![run.epoch + 1] = "live"]
  /\ fence' = "no"
  /\ UNCHANGED <<att, journals, row, outbox, at, running, wire, server>>

Owning == run.state = "recovery_required" /\ host[run.epoch] = "live"

\* fence_restart: what is unsent never started, what is open is unknown.
Open == {x \in Resources : row[x].phase # "none" /\ row[x].outcome = "none"}
Closing(x) == IF Unsent(x) THEN "never_started" ELSE "uncertain"

\* Every earlier epoch must have a journal, or none of them is fenced.
Fence ==
  /\ Owning /\ fence # "done"
  /\ IF 1..(run.epoch - 1) \subseteq journals
     THEN /\ fence' = "done"
          /\ row' = [x \in Resources |-> IF x \in Open THEN SettledRow(x, Closing(x)) ELSE row[x]]
          /\ outbox' = Added(outbox, {<<x, "uncertain">> : x \in {y \in Open : ~Unsent(y)}} \ Known(outbox))
     ELSE fence' = "refused" /\ UNCHANGED <<row, outbox>>
  /\ UNCHANGED <<native, host, journals, at, running, wire, server>>

Recovering == Owning /\ fence = "done"

\* The operating system shows the participant's thread host, or its child, gone.
Gone(w) == w \notin running /\ (~Hosting \/ row[w].claimed)

\* SwarmRecovery.reconcile_process.
ObserveEnd(w) ==
  /\ Recovering /\ Gone(w) /\ att[w] = "open"
  /\ att' = [att EXCEPT ![w] = "stopped"]
  /\ UNCHANGED <<run, req, host, journals, row, outbox, at, running, wire, server, fence>>

\* A person settles an unknown request of the run, within what its start allows.
SettleRequest(r, o) ==
  /\ Recovering /\ req[r].state = "uncertain"
  /\ o \in {"failed"} \cup (IF req[r].begun THEN {"completed"} ELSE {"not_started"})
  /\ req' = [req EXCEPT ![r].state = o]
  /\ UNCHANGED <<run, att, host, journals, row, outbox, at, running, wire, server, fence>>

\* _request_proof
Provable(r) == CASE req[r].state = "completed"   -> row[r].claimed
                 [] req[r].state = "failed"      -> row[r].started
                 [] req[r].state = "not_started" -> ~row[r].started /\ ~row[r].claimed
                 [] OTHER                        -> FALSE

\* ManagedRecovery.reconcile_request: the outcome comes from the run's rows.
ReconcileRequest(r) ==
  LET o == IF req[r].state = "not_started" THEN "never_started" ELSE req[r].state IN
  /\ Recovering /\ row[r].phase # "none" /\ Provable(r)
  /\ row[r].outcome \in Final => row[r].outcome = o
  /\ row' = [row EXCEPT ![r] = SettledRow(r, o)]
  /\ outbox' = IF row[r].leased /\ row[r].phase # "not_admitted"
               THEN Enqueued(outbox, r, o) ELSE outbox
  /\ UNCHANGED <<native, host, journals, at, running, wire, server, fence>>

\* ManagedRecovery.reconcile_worker: a proof that the participant has ended.
ReconcileWorker(w) ==
  LET o == IF row[w].claimed THEN "stopped" ELSE "never_started" IN
  /\ Recovering /\ row[w].phase # "none" /\ Gone(w) /\ Recordable(w, o)
  /\ Recorded(w, o)
  /\ att' = [att EXCEPT ![w] = "stopped"]
  /\ UNCHANGED <<run, req, host, journals, at, running, wire, server, fence>>

\* _absence_row: an old admission that may have been lost, and was not used.
Fenceable(x) == /\ row[x].leased /\ ~row[x].started /\ ~row[x].claimed
                /\ row[x].outcome \in {"none", "uncertain", "never_started"}

\* The server blocks a delayed admission for good; the journal closes the row.
FenceAbsent(x) ==
  /\ Recovering /\ Fenceable(x) /\ server[x] \in {"absent", "fenced"}
  /\ server' = [server EXCEPT ![x] = "fenced"]
  /\ row' = [row EXCEPT ![x].phase = "not_admitted", ![x].outcome = "never_started"]
  /\ outbox' = Superseding(outbox, KeysOf(x))
  /\ UNCHANGED <<native, host, journals, at, running, wire, fence>>

\* The server's answer is lost.
FenceUnheard(x) ==
  /\ Recovering /\ Fenceable(x) /\ server[x] = "absent"
  /\ server' = [server EXCEPT ![x] = "fenced"]
  /\ UNCHANGED <<native, host, journals, row, outbox, at, running, wire, fence>>

\* Mutant: an outcome is enough, delivered or not.
BlocksUnknown(w) == row[w].phase # "none" /\ row[w].outcome \notin {"stopped", "never_started"}

\* _slot_blockers
Blocks(w) == /\ row[w].phase # "none"
             /\ \/ row[w].outcome \notin {"stopped", "never_started"}
                \/ /\ row[w].leased /\ row[w].phase # "not_admitted"
                   /\ <<w, row[w].outcome>> \notin outbox.acked

\* SwarmSupervisor._unresolved
Unresolved == \/ \E w \in Workers : att[w] = "open"
              \/ \E r \in Requests : req[r].state \in {"reserved", "started", "uncertain"}

\* prepare_resume: a journal of its own for the new epoch.
Attach ==
  /\ Recovering /\ run.epoch \notin journals
  /\ ~Unresolved /\ \A w \in Workers : ~Blocks(w)
  /\ journals' = journals \cup {run.epoch}
  /\ UNCHANGED <<native, host, row, outbox, at, running, wire, server, fence>>

\* Continue reviewed team.
Recover ==
  /\ Recovering /\ run.epoch \in journals /\ ~Unresolved
  /\ run' = [run EXCEPT !.state = "running"]
  /\ UNCHANGED <<att, req, host, journals, row, outbox, at, running, wire, server, fence>>

-----------------------------------------------------------------------------
SlotStep(w) ==
  \/ OpenSlot(w) \/ SendSlot(w) \/ ReceiveSlot(w) \/ ClaimSlot(w) \/ ReportSlot(w)
  \/ \E closed \in BOOLEAN : StopParticipant(w, closed)

RequestStep(r) ==
  \/ ReserveRequest(r) \/ OpenRequest(r) \/ SendReserve(r) \/ ReceiveReserve(r) \/ ReceiveDenial(r)
  \/ SendStart(r) \/ ReceiveStart(r) \/ StartRequest(r) \/ ClaimRequest(r)
  \/ \E o \in {"completed", "uncertain"} : EndRequest(r, o)
  \/ ObserveRequest(r) \/ AbandonRequest(r) \/ ReportRequest(r)

Flush == \E k \in Keys : Deliver(k) \/ Undelivered(k)

OwnerStep ==
  \/ TakeOver \/ Fence \/ Attach \/ Recover
  \/ \E w \in Workers : ObserveEnd(w) \/ ReconcileWorker(w)
  \/ \E r \in Requests : ReconcileRequest(r) \/ \E o \in Settled : SettleRequest(r, o)
  \/ \E x \in Resources : FenceAbsent(x) \/ FenceUnheard(x)

Next ==
  \/ \E w \in Workers : SlotStep(w) \/ ChildEnds(w)
  \/ \E r \in Requests : RequestStep(r) \/ StartUnit(r)
  \/ \E x \in Resources : Admit(x)
  \/ Flush \/ OwnerStep
  \/ \E e \in 1..MaxEpoch : Crash(e)

Spec == Init /\ [][Next]_vars

\* The owner goes on through what the panel offers, and retries deliveries; the
\* server is not out of reach whenever the turn of a slot's end comes; a child
\* whose app is gone ends.
FairSpec ==
  /\ Spec
  /\ WF_vars(Fence) /\ WF_vars(Attach) /\ WF_vars(Recover) /\ WF_vars(Flush)
  /\ \A w \in Workers : /\ WF_vars(ObserveEnd(w)) /\ WF_vars(ReconcileWorker(w))
                        /\ WF_vars(FenceAbsent(w)) /\ WF_vars(ChildEnds(w))
  /\ \A r \in Requests : WF_vars(\E o \in Settled : SettleRequest(r, o))
  /\ \A w \in Workers : \A o \in {"stopped", "never_started"} : SF_vars(Deliver(<<w, o>>))

-----------------------------------------------------------------------------
(* Properties *)

\* What the server was told is over is over: no participant runs in a slot it
\* has released, and nothing it knows as never started, or was never asked
\* for, has consumed a permit.
ReleasedIsOver ==
  /\ \A w \in Workers : server[w] \in Final \cup {"absent", "fenced"} => w \notin running
  /\ \A x \in Resources : server[x] \in {"never_started", "absent", "fenced"} => ~row[x].claimed
  /\ \A r \in Requests : server[r] = "completed" => row[r].claimed

\* What the server holds is not forgotten: the journal knows it was asked for,
\* and its end is either open or waiting to be delivered.
HeldIsOwed ==
  \A x \in Resources : server[x] \in {"held", "started"} =>
    /\ row[x].leased
    /\ row[x].outcome \in Final => <<x, row[x].outcome>> \in Pending

\* The server's accounts agree with the journal and with what runs.
AccountsAgree == ReleasedIsOver /\ HeldIsOwed

Ledger == INSTANCE ManagedLedger WITH
  Slots     <- Workers,
  Units     <- Requests,
  account   <- [x \in Resources |-> IF server[x] = "started" THEN "held" ELSE server[x]],
  used      <- {x \in Resources : row[x].claimed},
  busy      <- running,
  continued <- journals # {1}

\* Host, server, messages and owners implement one account of each slot and
\* unit: it is used at most once and only while the server holds it, given back
\* once and as what it was, after what ran in it, and no slot is taken any more
\* once the team has continued.
ImplementsLedger == Ledger!Spec

\* docs/swarming-managed-setup.md: a team continues only with every slot of an
\* earlier epoch given back, and none is taken afterwards.
ContinuesClean == journals # {1} => \A w \in Workers : server[w] # "held"

\* The new owner of a managed team whose old app is gone can continue it.
ContinueReached ==
  \A e \in 2..MaxEpoch :
    (run = [epoch |-> e, state |-> "recovery_required"] /\ host[e] = "live" /\ host[1] = "dead")
    ~> (run # [epoch |-> e, state |-> "recovery_required"] \/ host[e] = "dead" \/ fence = "refused")

\* docs/swarming-managed-setup.md: taking over fences all retained epoch journals.
TakeoverFences == fence # "refused"
=============================================================================
