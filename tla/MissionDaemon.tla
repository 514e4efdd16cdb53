--------------------------- MODULE MissionDaemon ---------------------------
(***************************************************************************)
(* An autonomous mission: the daemon thread that works through a roadmap,  *)
(* one sub-mission per item, until its acceptance criteria have converged. *)
(*                                                                         *)
(* Three kinds of thread meet here: the daemon, the worker of a            *)
(* sub-mission, which the daemon waits for through a tracker of its events *)
(* (with a monitor beside the wait that enforces the stall ceiling), and   *)
(* the connection, which stops, pauses, answers and resumes.  The roadmap  *)
(* and the in-flight checkpoint beside it are files: they are what a       *)
(* mission that died is resumed from.                                      *)
(*                                                                         *)
(* Left out: the order of tiers (an open item is picked), the texts, and   *)
(* how the answer of a person is handed over (a parked daemon is answered  *)
(* or its deadline passes, at any time).                                   *)
(***************************************************************************)
EXTENDS Naturals, FiniteSets

CONSTANTS
  Planned,          \* the items the roadmap starts with
  FollowUps,        \* items that REFLECT may add
  Checked, Judged,  \* criteria settled by a check, and by the model ([chrome])
  MaxIterations,    \* AutonomousMissionConfig.max_iterations, per life of the daemon
  Cadence,          \* full_reflect_cadence
  FailLimit,        \* check_failed_streak_limit
  BlockLimit,       \* blocked_streak_limit
  MaxLives          \* bound: how often the mission is started or resumed

ASSUME LimitsAssumption ==
  /\ {MaxIterations, Cadence, FailLimit, BlockLimit, MaxLives} \subseteq Nat \ {0}
  /\ Checked \cup Judged # {} /\ Checked \cap Judged = {}
  /\ (Planned \cup FollowUps) \cap (Checked \cup Judged) = {}

VARIABLES
  disk,     \* the roadmap file and the in-flight checkpoint
  daemon,   \* the daemon thread: where it is, and what it alone remembers
  shared,   \* the events and fields other threads set
  tracker,  \* DispatchTracker, of the sub-mission under way
  sub,      \* the sub-missions that have not ended (IntentService._active)
  life,     \* how many daemons the mission has had
  untold    \* history: interrupted items of which no resume has told the person

vars == <<disk, daemon, shared, tracker, sub, life, untold>>

None     == "none"
Criteria == Checked \cup Judged
Items    == Planned \cup FollowUps \cup Criteria   \* the repair of a criterion has its name
Handles  == 1..(MaxLives * MaxIterations)
Handle   == (life - 1) * MaxIterations + daemon.iter   \* of the iteration under way

Outside  == {"mode_not_allowed", "time_budget_exhausted", "spend_limit_reached"}
Callers  == {"user_stop", "spend_limit_reached"}
Reasons  == Outside \cup Callers \cup {None, "iteration_cap", "user_pause", "satisfied",
                                       "blocked", "stuck", "check_failed"}
InFlight == {"started", "waiting", "shipped", "settled"}
Places   == InFlight \cup {"off", "resuming", "top", "begun", "noted", "cleared", "reflect",
                           "session", "parked", "rerun", "judged", "decided", "ending", "ended"}
Alive    == daemon.pc \notin {"off", "resuming", "ended"}

Off      == [pc |-> "off", item |-> None, iter |-> 0, fails |-> 0, blocks |-> 0, cause |-> None,
             verdict |-> "continue", ask |-> FALSE, adds |-> {}, reason |-> None]
NoSignal == [trackerStop |-> FALSE, stop |-> FALSE, reason |-> None,
             pause |-> FALSE, timedOut |-> FALSE]
NoTrack  == [set |-> FALSE, outcome |-> None]

\* Roadmap.is_converged
Converged(checks) == \A c \in Criteria : checks[c] = "passed"
Open == {i \in Items : disk.items[i] = "open"}
Opened(new) == [i \in Items |-> IF i \in new THEN "open" ELSE disk.items[i]]

DiskRows   == [items : [Items -> {"absent", "open", "done"}],
               checks : [Criteria -> {"pending", "passed", "failed"}],
               status : {"running", "complete", "paused", "failed"}, inflight : Items \cup {None}]
DaemonRows == [pc : Places, item : Items \cup {None}, iter : 0..MaxIterations,
               fails : 0..FailLimit, blocks : 0..BlockLimit, cause : {None, "empty", "cadence"},
               verdict : {"continue", "satisfied", "blocked"}, ask : BOOLEAN,
               adds : SUBSET FollowUps, reason : Reasons]
Signals    == [trackerStop : BOOLEAN, stop : BOOLEAN, reason : Callers \cup {None}, pause : BOOLEAN,
               timedOut : BOOLEAN]

TypeOK ==
  /\ disk \in DiskRows /\ daemon \in DaemonRows /\ shared \in Signals
  /\ tracker \in [set : BOOLEAN, outcome : {None, "ok", "bad"}]
  /\ sub \in [Handles -> {None, "running", "cancelled"}]
  /\ life \in 1..MaxLives /\ untold \subseteq Items

\* start_autonomous_mission
Init ==
  /\ disk = [items |-> [i \in Items |-> IF i \in Planned THEN "open" ELSE "absent"],
             checks |-> [c \in Criteria |-> "pending"], status |-> "running", inflight |-> None]
  /\ daemon = [Off EXCEPT !.pc = "top"]
  /\ shared = NoSignal /\ tracker = NoTrack /\ sub = [h \in Handles |-> None]
  /\ life = 1 /\ untold = {}

Memory == <<shared, tracker, sub, life, untold>>
Goes(pc) == daemon' = [daemon EXCEPT !.pc = pc]
Ends(reason) == daemon' = [daemon EXCEPT !.pc = "ending", !.reason = reason]
\* What lasts from one turn of the loop to the next
NextTurn(blocks) == [Off EXCEPT !.pc = "top", !.iter = daemon.iter, !.fails = daemon.fails, !.blocks = blocks]
Gone == /\ daemon' = [Off EXCEPT !.pc = "ended"]
        /\ shared' = [NoSignal EXCEPT !.stop = shared.stop]
        /\ UNCHANGED <<tracker, sub, life>>

-----------------------------------------------------------------------------
(* Sub-missions *)

\* DispatchTracker.feed_event: an outcome is kept whether or not the
\* sub-mission is watched yet, but only a watched one wakes the wait.
Feed(h, outcome) ==
  tracker' = IF h = Handle /\ daemon.pc \in {"started", "waiting"}
             THEN [set |-> daemon.pc = "waiting", outcome |-> outcome] ELSE tracker

\* Mutant: Only the end of the worker is announced, as it once was.
CancelQuietly(h) ==
  IF sub[h] # None THEN sub' = [sub EXCEPT ![h] = "cancelled"] /\ UNCHANGED tracker
  ELSE UNCHANGED <<sub, tracker>>

\* IntentService.cancel: the wait is told at once, the worker ends when it can.
Cancel(h) ==
  IF sub[h] # None
  THEN /\ sub' = [sub EXCEPT ![h] = "cancelled"]
       /\ Feed(h, "bad")
  ELSE UNCHANGED <<sub, tracker>>

SubEnds(h, outcome) ==
  /\ sub[h] # None /\ (sub[h] = "cancelled" => outcome = "bad")
  /\ sub' = [sub EXCEPT ![h] = None]
  /\ Feed(h, outcome)
  /\ UNCHANGED <<disk, daemon, shared, life, untold>>

-----------------------------------------------------------------------------
(* One iteration of the daemon *)

\* Mutant: Without the iteration cap
MustStopUncapped == shared.stop \/ shared.pause
MustStop == shared.stop \/ shared.pause \/ daemon.iter >= MaxIterations

\* _check_stop_rules.  The policy, the clock and the spending may say stop at any time.
StopRules ==
  IF shared.stop THEN {shared.reason}
  ELSE Outside \cup (IF daemon.iter >= MaxIterations THEN {"iteration_cap"} ELSE {})
               \cup (IF shared.pause THEN {"user_pause"} ELSE {})

TopStops == /\ daemon.pc = "top" /\ \E r \in StopRules : Ends(r)
            /\ UNCHANGED <<disk, Memory>>

Picks ==
  /\ daemon.pc = "top" /\ ~MustStop
  /\ \/ /\ Open = {}
        /\ daemon' = [daemon EXCEPT !.pc = "reflect", !.cause = "empty"]
     \/ \E i \in Open :
          daemon' = [daemon EXCEPT !.pc = "begun", !.item = i, !.iter = @ + 1]
  /\ UNCHANGED <<disk, Memory>>

\* Mutant: The checkpoint is not written before the dispatch.
WritesNothing == daemon.pc = "begun" /\ Goes("noted") /\ UNCHANGED <<disk, Memory>>

\* The snapshot of the iteration is taken before this step.
WritesInflight == /\ daemon.pc = "begun" /\ Goes("noted")
                  /\ disk' = [disk EXCEPT !.inflight = daemon.item]
                  /\ UNCHANGED Memory

\* start_intent, or its refusal
Dispatches ==
  /\ daemon.pc = "noted" /\ Goes("started")
  /\ sub' = [sub EXCEPT ![Handle] = "running"]
  /\ tracker' = NoTrack
  /\ UNCHANGED <<disk, shared, life, untold>>
DispatchRaises == /\ daemon.pc = "noted"
                  /\ daemon' = [daemon EXCEPT !.pc = "settled", !.fails = @ + 1]
                  /\ UNCHANGED <<disk, Memory>>

\* watch, and the handle that stop() looks for: both after start_intent returned
Watches == /\ daemon.pc = "started" /\ Goes("waiting")
           /\ tracker' = [tracker EXCEPT !.set = FALSE]
           /\ UNCHANGED <<disk, shared, sub, life, untold>>

\* Mutant: The wait is given up, the sub-mission is not cancelled.
CeilingGivesUp == /\ daemon.pc = "waiting" /\ ~shared.timedOut
                  /\ shared' = [shared EXCEPT !.timedOut = TRUE]
                  /\ tracker' = [set |-> TRUE, outcome |-> "bad"]
                  /\ UNCHANGED <<disk, daemon, sub, life, untold>>

\* The monitor of the wait
CeilingPasses == /\ daemon.pc = "waiting" /\ ~shared.timedOut
                 /\ shared' = [shared EXCEPT !.timedOut = TRUE]
                 /\ Cancel(Handle)
                 /\ UNCHANGED <<disk, daemon, life, untold>>

\* Mutant: The events of the sub-mission alone end the wait.
WokenByEvents == tracker.set
Woken == tracker.set \/ shared.trackerStop

\* DispatchTracker.wait ends with an outcome, or because of a stop, which may win
\* although an outcome is there.
WaitReturns ==
  /\ daemon.pc = "waiting" /\ Woken
  /\ \/ /\ tracker = [set |-> TRUE, outcome |-> "ok"] /\ ~shared.timedOut
        /\ daemon' = [daemon EXCEPT !.pc = "shipped", !.fails = 0]
     \/ /\ shared.trackerStop \/ shared.timedOut \/ tracker.outcome = "bad"
        /\ daemon' = [daemon EXCEPT !.pc = "settled", !.fails = @ + 1]
  /\ shared' = [shared EXCEPT !.timedOut = FALSE]
  /\ tracker' = NoTrack
  /\ UNCHANGED <<disk, sub, life, untold>>

\* The item is checked off.  A save that fails is only logged.
MarksItem ==
  /\ daemon.pc = "shipped" /\ Goes("settled")
  /\ \E saved \in BOOLEAN :
       disk' = IF saved THEN [disk EXCEPT !.items[daemon.item] = "done"] ELSE disk
  /\ UNCHANGED Memory

ClearsInflight == /\ daemon.pc = "settled" /\ Goes("cleared")
                  /\ disk' = [disk EXCEPT !.inflight = None]
                  /\ UNCHANGED Memory

AfterIteration ==
  /\ daemon.pc = "cleared"
  /\ \/ Ends("mode_not_allowed")
     \/ daemon.fails >= FailLimit /\ Ends("check_failed")
     \/ /\ daemon.fails < FailLimit
        /\ daemon' = IF daemon.iter % Cadence = 0
                     THEN [daemon EXCEPT !.pc = "reflect", !.item = None, !.cause = "cadence"]
                     ELSE NextTurn(daemon.blocks)
  /\ UNCHANGED <<disk, Memory>>

-----------------------------------------------------------------------------
(* Reflection *)

\* run_reflect_pass: what has passed is not checked again, and a check that
\* errs leaves its criterion alone.
Applied(result) ==
  [c \in Criteria |-> IF c \in Judged \/ disk.checks[c] = "passed" \/ result[c] = "error"
                      THEN disk.checks[c] ELSE result[c]]
NeedsModel(result) ==
  \/ \E c \in Judged : disk.checks[c] # "passed"
  \/ \E c \in Checked : disk.checks[c] # "passed" /\ result[c] = "failed"

RunsChecks ==
  /\ daemon.pc = "reflect"
  /\ \E result \in [Checked -> {"passed", "failed", "error"}], saved \in BOOLEAN :
       LET checks == Applied(result) IN
         /\ disk' = IF saved THEN [disk EXCEPT !.checks = checks] ELSE disk
         /\ daemon' =
              IF NeedsModel(result) THEN [daemon EXCEPT !.pc = "session"]
              ELSE [daemon EXCEPT !.pc = "judged", !.ask = FALSE, !.adds = {},
                                  !.verdict = IF Converged(checks) THEN "satisfied" ELSE "continue"]
  /\ UNCHANGED Memory

\* REFLECT's session edits the criteria in the file as it sees fit, and answers
\* with a verdict, further items and maybe a question.  The question of a session
\* that was given an answer is not asked.
ModelAnswers ==
  /\ daemon.pc \in {"session", "rerun"}
  /\ \E found \in [Criteria -> {"as it is", "passed", "failed"}],
        verdict \in {"continue", "satisfied", "blocked"}, asks \in BOOLEAN,
        adds \in SUBSET {f \in FollowUps : disk.items[f] = "absent"} :
       LET ask == asks /\ daemon.pc = "session" IN
         /\ disk' = [disk EXCEPT !.checks =
                        [c \in Criteria |-> IF found[c] = "as it is" THEN @[c] ELSE found[c]]]
         /\ daemon' = [daemon EXCEPT !.pc = IF ask THEN "parked" ELSE "judged",
                                     !.verdict = verdict, !.ask = ask, !.adds = adds]
  /\ UNCHANGED Memory

\* _wait_for_decision: a stop returns the outcome as it is, past the cross-check.
ParkStopped == /\ daemon.pc = "parked" /\ shared.stop /\ Goes("decided")
               /\ UNCHANGED <<disk, Memory>>
Answered == /\ daemon.pc = "parked" /\ ~shared.stop
            /\ daemon' = [daemon EXCEPT !.pc = "rerun", !.ask = FALSE]
            /\ UNCHANGED <<disk, Memory>>

\* Mutant: The model is believed.
Believed(verdict) == verdict
\* The items are added, and the verdict is compared with the roadmap on disk.
CrossChecked(verdict) ==
  IF verdict = "satisfied" /\ ~Converged(disk.checks) THEN "continue" ELSE verdict
CrossChecks ==
  /\ daemon.pc = "judged"
  /\ daemon' = [daemon EXCEPT !.pc = "decided", !.verdict = CrossChecked(@), !.adds = {}]
  /\ \E saved \in BOOLEAN :
       disk' = IF saved THEN [disk EXCEPT !.items = Opened(daemon.adds)] ELSE disk
  /\ UNCHANGED Memory

\* _ensure_acceptance_repair_items: one item per failed criterion, once.
Repairs == {c \in Criteria : disk.checks[c] = "failed" /\ disk.items[c] = "absent"}
Satisfied == daemon.verdict = "satisfied" /\ Ends("satisfied") /\ UNCHANGED disk
Blocked ==
  /\ daemon.verdict = "blocked" /\ UNCHANGED disk
  /\ daemon' = IF daemon.blocks + 1 >= BlockLimit
               THEN [daemon EXCEPT !.pc = "ending", !.reason = "blocked", !.blocks = @ + 1]
               ELSE NextTurn(daemon.blocks + 1)
Continues ==
  /\ daemon.verdict = "continue" /\ (daemon.cause = "empty" => Open # {}) /\ UNCHANGED disk
  /\ daemon' = NextTurn(0)
AddsRepairs ==
  /\ daemon.verdict = "continue" /\ daemon.cause = "empty" /\ Open = {} /\ Repairs # {}
  /\ disk' = [disk EXCEPT !.items = Opened(Repairs)]
  /\ daemon' = NextTurn(0)
\* Nothing to repair, or the repairs could not be saved
Stuck ==
  /\ daemon.verdict = "continue" /\ daemon.cause = "empty" /\ Open = {} /\ UNCHANGED disk
  /\ daemon' = [daemon EXCEPT !.pc = "ending", !.reason = "stuck", !.blocks = 0]
Decides == /\ daemon.pc = "decided"
           /\ Satisfied \/ Blocked \/ Continues \/ AddsRepairs \/ Stuck
           /\ UNCHANGED Memory

\* _emit_stop: the status is saved, if it can be, before the event is sent.
EmitsStop ==
  /\ daemon.pc = "ending" /\ Gone
  /\ \E saved \in BOOLEAN :
       disk' = IF saved THEN [disk EXCEPT !.status = IF daemon.reason = "satisfied"
                                                     THEN "complete" ELSE "paused"]
               ELSE disk
  /\ UNCHANGED untold

Interrupted == IF daemon.pc \in InFlight /\ disk.items[daemon.item] = "open" THEN {daemon.item} ELSE {}

\* The roadmap cannot be read: the exception ends the loop.
LoopFails ==
  /\ daemon.pc \in {"top", "reflect", "rerun", "shipped", "judged", "decided"} /\ Gone
  /\ \E saved \in BOOLEAN : disk' = IF saved THEN [disk EXCEPT !.status = "failed"] ELSE disk
  /\ untold' = untold \cup Interrupted

-----------------------------------------------------------------------------
(* Commands of the connection, and the end of the process *)

\* stop(), as _spawn_autonomous_daemon patches it: first the tracker's event, then
\* the daemon's own with the cancel of the handle it finds.  The monitor of a wait
\* calls it too, when the spending has reached the limit.  Bound: a daemon is
\* stopped once (the first reason is the one that counts).
StopAsked(caller) ==
  /\ Alive /\ ~shared.trackerStop
  /\ caller = "spend_limit_reached" => daemon.pc = "waiting"
  /\ shared' = [shared EXCEPT !.trackerStop = TRUE, !.reason = caller]
  /\ UNCHANGED <<disk, daemon, tracker, sub, life, untold>>
StopRecorded ==
  /\ shared.trackerStop /\ ~shared.stop
  /\ shared' = [shared EXCEPT !.stop = TRUE]
  /\ IF daemon.pc = "waiting" THEN Cancel(Handle) ELSE UNCHANGED <<sub, tracker>>
  /\ UNCHANGED <<disk, daemon, life, untold>>

Pause == /\ Alive /\ ~shared.pause /\ ~shared.trackerStop
         /\ shared' = [shared EXCEPT !.pause = TRUE]
         /\ UNCHANGED <<disk, daemon, tracker, sub, life, untold>>

\* resume_autonomous_mission: what was interrupted is told, then the checkpoint is
\* cleared and a new daemon started.
ResumeTells ==
  /\ daemon.pc \in {"off", "ended"} /\ life < MaxLives
  /\ daemon' = [Off EXCEPT !.pc = "resuming"] /\ shared' = NoSignal /\ tracker' = NoTrack
  /\ untold' = untold \ (Open \cap {disk.inflight})
  /\ UNCHANGED <<disk, sub, life>>
ResumeSpawns ==
  /\ daemon.pc = "resuming" /\ Goes("top")
  /\ disk' = [disk EXCEPT !.inflight = None]
  /\ life' = life + 1
  /\ UNCHANGED <<shared, tracker, sub, untold>>

Crash ==
  /\ daemon.pc # "off"
  /\ daemon' = Off /\ shared' = NoSignal /\ tracker' = NoTrack
  /\ sub' = [h \in Handles |-> None]
  /\ untold' = untold \cup Interrupted
  /\ UNCHANGED <<disk, life>>

DaemonStep ==
  \/ TopStops \/ Picks \/ WritesInflight \/ Dispatches \/ DispatchRaises \/ Watches \/ WaitReturns
  \/ MarksItem \/ ClearsInflight \/ AfterIteration \/ RunsChecks \/ ModelAnswers \/ ParkStopped
  \/ CrossChecks \/ Decides \/ EmitsStop \/ LoopFails \/ ResumeSpawns

Next ==
  \/ DaemonStep \/ Answered \/ CeilingPasses
  \/ \E h \in Handles, outcome \in {"ok", "bad"} : SubEnds(h, outcome)
  \/ \E caller \in Callers : StopAsked(caller)
  \/ StopRecorded \/ Pause \/ ResumeTells \/ Crash

\* Threads run: the daemon, the monitor of its wait, and a stop that has begun.
\* A sub-mission need not end, nor a person answer.
Fairness == /\ WF_vars(DaemonStep) /\ WF_vars(CeilingPasses)
            /\ WF_vars(StopRecorded)

Spec == Init /\ [][Next]_vars /\ Fairness

-----------------------------------------------------------------------------
\* A mission is recorded as complete only when every blocking criterion has passed
\* in the roadmap on disk, whatever the model claims, checks answer and saves lose.
\* Except: a verdict that came with a question and was returned by a stop.
CompleteIsConverged ==
  [][disk'.status = "complete" /\ disk.status # "complete" =>
       Converged(disk.checks) \/ (shared.stop /\ daemon.ask)]_vars

\* An item whose sub-mission the end of the process (or of the loop) cut short is
\* not started again before a resume has told the person of it.
NoSilentRerun ==
  [][\A h \in Handles : sub[h] = None /\ sub'[h] = "running" =>
       daemon.item \notin untold]_vars

\* The daemon leaves a sub-mission alone only when it has ended or is cancelled,
\* unless a stop has been asked for: no two of them work on the project unasked.
SupersededIsCancelled ==
  [][daemon.pc = "waiting" /\ daemon'.pc # "waiting" /\ ~shared.trackerStop =>
       sub'[Handle] # "running"]_vars

\* (Liveness) A stop ends the mission wherever it finds the daemon, although a
\* sub-mission may never end and a person never answer.
StopTerminates == shared.stop ~> ~Alive

\* (Liveness) The stall ceiling ends the wait for a sub-mission that never ends.
\* (A sub-mission that ended before it was watched is another matter: nothing
\* wakes that wait but a stop.)
CeilingFrees == (daemon.pc = "waiting" /\ sub[Handle] # None) ~> daemon.pc # "waiting"

\* stop() cancels the sub-mission under way: when a stopped mission has ended, none
\* of its sub-missions runs on uncancelled.
StopCancelsInFlight == daemon.pc = "ended" /\ shared.stop =>
  \A h \in Handles : sub[h] # "running"
=============================================================================
