------------------------ MODULE MissionDaemonProofs ------------------------
(***************************************************************************)
(* What holds of a mission for every roadmap, every limit and any number   *)
(* of lives: its types and the caps they hold, the meaning of "complete",  *)
(* and what a resume and the stall ceiling promise.                        *)
(***************************************************************************)
EXTENDS MissionDaemon, TLAPS

LEMMA Limits ==
  /\ MaxIterations \in Nat /\ MaxIterations > 0 /\ Cadence \in Nat /\ Cadence > 0
  /\ FailLimit \in Nat /\ FailLimit > 0 /\ BlockLimit \in Nat /\ BlockLimit > 0
  /\ MaxLives \in Nat /\ MaxLives > 0
  BY LimitsAssumption

-----------------------------------------------------------------------------
(* The invariant *)

\* The streaks reach their limits only where the loop then asks about them, and
\* a mission is resumed only within the bound.
Streaks ==
  /\ daemon.pc \notin {"settled", "cleared", "ending"} => daemon.fails < FailLimit
  /\ daemon.pc # "ending" => daemon.blocks < BlockLimit
  /\ daemon.pc = "resuming" => life < MaxLives

WithItem == {"begun", "noted", "cleared"} \cup InFlight

\* An iteration has an item, which is open until it is checked off.
ItemOpen ==
  /\ daemon.pc \in WithItem => daemon.item \in Items /\ daemon.iter >= 1
  /\ daemon.pc \in {"begun", "noted", "started", "waiting", "shipped"} => daemon.item \in Open

\* What was interrupted is in the roadmap; what is still open and untold is what the
\* checkpoint names, and nothing once the mission is being worked on again.
Told ==
  /\ \A i \in untold : disk.items[i] # "absent"
  /\ daemon.pc \in InFlight \cup {"noted"} => disk.inflight = daemon.item
  /\ untold \cap Open \subseteq (IF daemon.pc \in {"off", "ended"} THEN {disk.inflight} ELSE {})

\* A verdict that has been cross-checked, and the end it leads to
Believable ==
  /\ \/ daemon.pc = "decided" /\ daemon.verdict = "satisfied"
     \/ daemon.pc = "ending" /\ daemon.reason = "satisfied"
     => Converged(disk.checks) \/ (shared.stop /\ daemon.ask)
  /\ daemon.pc = "parked" => daemon.ask

\* The wait is told only of a sub-mission that no longer runs on.
CancelledFirst == daemon.pc = "waiting" /\ tracker.set => sub[Handle] # "running"

\* Items that REFLECT adds are new.
AddsAreNew == daemon.pc \in {"parked", "judged"} => \A i \in daemon.adds : disk.items[i] = "absent"

Progress == Streaks /\ ItemOpen /\ Told /\ Believable /\ CancelledFirst /\ AddsAreNew
IInv     == TypeOK /\ Progress

-----------------------------------------------------------------------------
(* Handles *)

LEMMA Monotone ==
  ASSUME NEW a \in Nat, NEW b \in Nat, NEW m \in Nat, a <= b
  PROVE  a * m \in Nat /\ b * m \in Nat /\ a * m <= b * m
  OBVIOUS

\* The handle of the iteration under way is one of the bounded handles.
LEMMA HandleType ==
  ASSUME TypeOK, daemon.iter >= 1
  PROVE  Handle \in Handles
<1> DEFINE m == MaxIterations  l == life - 1  n == MaxLives - 1
<1>1. /\ m \in Nat /\ l \in Nat /\ n \in Nat /\ l <= n /\ daemon.iter \in 1..m
  BY Limits DEF TypeOK, DaemonRows
<1>2. l * m \in Nat /\ n * m \in Nat /\ l * m <= n * m
  BY <1>1, Monotone
<1>3. MaxLives * m = n * m + m
  BY <1>1, Limits
<1>4. l * m + daemon.iter >= 1 /\ l * m + daemon.iter <= n * m + m
  BY <1>1, <1>2
<1>5. QED
  BY <1>1, <1>2, <1>3, <1>4 DEF Handle, Handles

-----------------------------------------------------------------------------
(* The invariant holds *)


\* A new daemon, and what of it lasts for one turn
LEMMA NewDaemon ==
  /\ Off \in DaemonRows /\ Off.pc = "off" /\ Off.fails = 0 /\ Off.blocks = 0
  /\ \A p \in Places : [Off EXCEPT !.pc = p] \in DaemonRows /\ [Off EXCEPT !.pc = p].pc = p
       /\ [Off EXCEPT !.pc = p].fails = 0 /\ [Off EXCEPT !.pc = p].blocks = 0
  /\ NoSignal \in Signals
<1>1. Off \in DaemonRows
  BY Limits DEF Off, DaemonRows, Places, Reasons
<1>2. Off.pc = "off" /\ Off.fails = 0 /\ Off.blocks = 0
  BY DEF Off
<1>3. ASSUME NEW d \in DaemonRows, NEW p \in Places
      PROVE  [d EXCEPT !.pc = p] \in DaemonRows /\ [d EXCEPT !.pc = p].pc = p
             /\ [d EXCEPT !.pc = p].fails = d.fails /\ [d EXCEPT !.pc = p].blocks = d.blocks
  BY DEF DaemonRows
<1>4. NoSignal \in Signals
  BY DEF NoSignal, Signals
<1>5. QED
  BY <1>1, <1>2, <1>3, <1>4

LEMMA NextTurnShape ==
  ASSUME daemon \in DaemonRows, NEW b \in 0..BlockLimit
  PROVE  /\ NextTurn(b) \in DaemonRows /\ NextTurn(b).pc = "top"
         /\ NextTurn(b).fails = daemon.fails /\ NextTurn(b).blocks = b
<1> DEFINE o == Off  n == daemon.iter  f == daemon.fails
           t == [o EXCEPT !.pc = "top", !.iter = n, !.fails = f, !.blocks = b]
<1>1. o \in DaemonRows /\ n \in 0..MaxIterations /\ f \in 0..FailLimit /\ f = daemon.fails
  BY NewDaemon DEF DaemonRows
<1>2. NextTurn(b) = t
  BY DEF NextTurn
<1> HIDE DEF o, n, f
<1>3. t \in DaemonRows /\ t.pc = "top" /\ t.fails = f /\ t.blocks = b
  BY <1>1 DEF DaemonRows, Places
<1> HIDE DEF t
<1>4. QED
  BY <1>1, <1>2, <1>3

LEMMA InitIInv == Init => IInv
<1> SUFFICES ASSUME Init PROVE IInv
  OBVIOUS
<1>1. daemon \in DaemonRows /\ daemon.pc = "top" /\ daemon.fails = 0 /\ daemon.blocks = 0
  BY NewDaemon DEF Init, Places
<1>2. disk \in DiskRows
  BY DEF Init, DiskRows
<1>3. tracker \in [set : BOOLEAN, outcome : {None, "ok", "bad"}]
  BY DEF Init, NoTrack
<1>4. TypeOK
  BY <1>1, <1>2, <1>3, NewDaemon, Limits DEF TypeOK, Init
<1>5. Streaks /\ ItemOpen /\ Told /\ Believable /\ CancelledFirst /\ AddsAreNew
  BY <1>1, Limits DEF Init, Streaks, ItemOpen, Told, Believable, CancelledFirst, AddsAreNew, WithItem, InFlight
<1>6. QED
  BY <1>4, <1>5 DEF IInv, Progress

\* Steps of the daemon that move it on and change one thing
LEMMA MoveSteps ==
  ASSUME IInv, WritesInflight \/ Watches \/ MarksItem \/ ClearsInflight \/ ParkStopped \/ Answered \/ Pause
  PROVE  IInv'
<1>1. CASE WritesInflight
  <2>1. daemon' \in DaemonRows
    BY <1>1, Limits, NewDaemon DEF WritesInflight, Goes, Memory,
           IInv, TypeOK, DaemonRows, Places, InFlight, Reasons, Streaks, ItemOpen, WithItem, Progress
  <2>2. disk' \in DiskRows
    BY <1>1 DEF WritesInflight, Goes, Memory, IInv, TypeOK, DiskRows, DaemonRows, Progress, ItemOpen, WithItem, InFlight
  <2>3. TypeOK'
    BY <1>1, <2>1, <2>2, Limits, NewDaemon DEF WritesInflight, Goes, Memory, IInv, TypeOK, Signals, DaemonRows, Progress, Streaks,
           ItemOpen, WithItem, InFlight
  <2>4. Progress'
    BY <1>1, Limits, NewDaemon DEF WritesInflight, Goes, Memory, IInv, TypeOK, Progress, Streaks, ItemOpen, Told, Believable, CancelledFirst, AddsAreNew, WithItem,
         InFlight, Open, Handle, Converged, Callers, Outside, DaemonRows, DiskRows, Signals
  <2>5. QED
    BY <2>3, <2>4 DEF IInv
<1>2. CASE Watches
  <2>1. daemon' \in DaemonRows
    BY <1>2, Limits, NewDaemon DEF Watches, Goes,
           IInv, TypeOK, DaemonRows, Places, InFlight, Reasons, Streaks, ItemOpen, WithItem, Progress
  <2>2. disk' \in DiskRows
    BY <1>2 DEF Watches, Goes, IInv, TypeOK, DiskRows, DaemonRows, Progress, ItemOpen, WithItem, InFlight
  <2>3. TypeOK'
    BY <1>2, <2>1, <2>2, Limits, NewDaemon DEF Watches, Goes, IInv, TypeOK, Signals, DaemonRows, Progress, Streaks,
           ItemOpen, WithItem, InFlight
  <2>4. Progress'
    BY <1>2, Limits, NewDaemon DEF Watches, Goes, IInv, TypeOK, Progress, Streaks, ItemOpen, Told, Believable, CancelledFirst, AddsAreNew, WithItem,
         InFlight, Open, Handle, Converged, Callers, Outside, DaemonRows, DiskRows, Signals
  <2>5. QED
    BY <2>3, <2>4 DEF IInv
<1>3. CASE MarksItem
  <2>1. daemon' \in DaemonRows
    BY <1>3, Limits, NewDaemon DEF MarksItem, Goes, Memory,
           IInv, TypeOK, DaemonRows, Places, InFlight, Reasons, Streaks, ItemOpen, WithItem, Progress
  <2>2. disk' \in DiskRows
    BY <1>3 DEF MarksItem, Goes, Memory, IInv, TypeOK, DiskRows, DaemonRows, Progress, ItemOpen, WithItem, InFlight
  <2>3. TypeOK'
    BY <1>3, <2>1, <2>2, Limits, NewDaemon DEF MarksItem, Goes, Memory, IInv, TypeOK, Signals, DaemonRows, Progress, Streaks,
           ItemOpen, WithItem, InFlight
  <2>4. Progress'
    BY <1>3, Limits, NewDaemon DEF MarksItem, Goes, Memory, IInv, TypeOK, Progress, Streaks, ItemOpen, Told, Believable, CancelledFirst, AddsAreNew, WithItem,
         InFlight, Open, Handle, Converged, Callers, Outside, DaemonRows, DiskRows, Signals
  <2>5. QED
    BY <2>3, <2>4 DEF IInv
<1>4. CASE ClearsInflight
  <2>1. daemon' \in DaemonRows
    BY <1>4, Limits, NewDaemon DEF ClearsInflight, Goes, Memory,
           IInv, TypeOK, DaemonRows, Places, InFlight, Reasons, Streaks, ItemOpen, WithItem, Progress
  <2>2. disk' \in DiskRows
    BY <1>4 DEF ClearsInflight, Goes, Memory, IInv, TypeOK, DiskRows, DaemonRows, Progress, ItemOpen, WithItem, InFlight
  <2>3. TypeOK'
    BY <1>4, <2>1, <2>2, Limits, NewDaemon DEF ClearsInflight, Goes, Memory, IInv, TypeOK, Signals, DaemonRows, Progress, Streaks,
           ItemOpen, WithItem, InFlight
  <2>4. Progress'
    BY <1>4, Limits, NewDaemon DEF ClearsInflight, Goes, Memory, IInv, TypeOK, Progress, Streaks, ItemOpen, Told, Believable, CancelledFirst, AddsAreNew, WithItem,
         InFlight, Open, Handle, Converged, Callers, Outside, DaemonRows, DiskRows, Signals
  <2>5. QED
    BY <2>3, <2>4 DEF IInv
<1>5. CASE ParkStopped
  <2>1. daemon' \in DaemonRows
    BY <1>5, Limits, NewDaemon DEF ParkStopped, Goes, Memory,
           IInv, TypeOK, DaemonRows, Places, InFlight, Reasons, Streaks, ItemOpen, WithItem, Progress
  <2>2. disk' \in DiskRows
    BY <1>5 DEF ParkStopped, Goes, Memory, IInv, TypeOK, DiskRows, DaemonRows, Progress, ItemOpen, WithItem, InFlight
  <2>3. TypeOK'
    BY <1>5, <2>1, <2>2, Limits, NewDaemon DEF ParkStopped, Goes, Memory, IInv, TypeOK, Signals, DaemonRows, Progress, Streaks,
           ItemOpen, WithItem, InFlight
  <2>4. Progress'
    BY <1>5, Limits, NewDaemon DEF ParkStopped, Goes, Memory, IInv, TypeOK, Progress, Streaks, ItemOpen, Told, Believable, CancelledFirst, AddsAreNew, WithItem,
         InFlight, Open, Handle, Converged, Callers, Outside, DaemonRows, DiskRows, Signals
  <2>5. QED
    BY <2>3, <2>4 DEF IInv
<1>6. CASE Answered
  <2>1. daemon' \in DaemonRows
    BY <1>6, Limits, NewDaemon DEF Answered, Memory,
           IInv, TypeOK, DaemonRows, Places, InFlight, Reasons, Streaks, ItemOpen, WithItem, Progress
  <2>2. disk' \in DiskRows
    BY <1>6 DEF Answered, Memory, IInv, TypeOK, DiskRows, DaemonRows, Progress, ItemOpen, WithItem, InFlight
  <2>3. TypeOK'
    BY <1>6, <2>1, <2>2, Limits, NewDaemon DEF Answered, Memory, IInv, TypeOK, Signals, DaemonRows, Progress, Streaks,
           ItemOpen, WithItem, InFlight
  <2>4. Progress'
    BY <1>6, Limits, NewDaemon DEF Answered, Memory, IInv, TypeOK, Progress, Streaks, ItemOpen, Told, Believable, CancelledFirst, AddsAreNew, WithItem,
         InFlight, Open, Handle, Converged, Callers, Outside, DaemonRows, DiskRows, Signals
  <2>5. QED
    BY <2>3, <2>4 DEF IInv
<1>7. CASE Pause
  <2>1. daemon' \in DaemonRows
    BY <1>7, Limits, NewDaemon DEF Pause,
           IInv, TypeOK, DaemonRows, Places, InFlight, Reasons, Streaks, ItemOpen, WithItem, Progress
  <2>2. disk' \in DiskRows
    BY <1>7 DEF Pause, IInv, TypeOK, DiskRows, DaemonRows, Progress, ItemOpen, WithItem, InFlight
  <2>3. TypeOK'
    BY <1>7, <2>1, <2>2, Limits, NewDaemon DEF Pause, IInv, TypeOK, Signals, DaemonRows, Progress, Streaks,
           ItemOpen, WithItem, InFlight
  <2>4. Progress'
    BY <1>7, Limits, NewDaemon DEF Pause, IInv, TypeOK, Progress, Streaks, ItemOpen, Told, Believable, CancelledFirst, AddsAreNew, WithItem,
         InFlight, Open, Handle, Converged, Callers, Outside, DaemonRows, DiskRows, Signals
  <2>5. QED
    BY <2>3, <2>4 DEF IInv
<1>8. QED
  BY <1>1, <1>2, <1>3, <1>4, <1>5, <1>6, <1>7

\* The end of a daemon, and the start of the next one
LEMMA EndSteps ==
  ASSUME IInv, EmitsStop \/ LoopFails \/ Crash \/ ResumeTells \/ ResumeSpawns
  PROVE  IInv'
<1>1. CASE EmitsStop
  <2>1. daemon' \in DaemonRows
    BY <1>1, Limits, NewDaemon DEF EmitsStop, Gone, NoSignal, Memory,
           IInv, TypeOK, DaemonRows, Places, InFlight, Reasons, Streaks, ItemOpen, WithItem, Progress
  <2>2. disk' \in DiskRows
    BY <1>1 DEF EmitsStop, Gone, NoSignal, Memory, IInv, TypeOK, DiskRows, DaemonRows, Progress, ItemOpen, WithItem, InFlight
  <2>3. TypeOK'
    BY <1>1, <2>1, <2>2, Limits, NewDaemon DEF EmitsStop, Gone, NoSignal, Memory, IInv, TypeOK, Signals, DaemonRows, Progress, Streaks,
           ItemOpen, WithItem, InFlight
  <2>4. Progress'
    BY <1>1, Limits, NewDaemon DEF EmitsStop, Gone, NoSignal, Memory, IInv, TypeOK, Progress, Streaks, ItemOpen, Told, Believable, CancelledFirst, AddsAreNew, WithItem,
         InFlight, Open, Handle, Converged, Callers, Outside, DaemonRows, DiskRows, Signals
  <2>5. QED
    BY <2>3, <2>4 DEF IInv
<1>2. CASE LoopFails
  <2>0. Interrupted \subseteq Items
    BY DEF Interrupted, IInv, Progress, ItemOpen, WithItem, InFlight
  <2>1. daemon' \in DaemonRows
    BY <1>2, Limits, NewDaemon DEF LoopFails, Gone, Interrupted, NoSignal,
           IInv, TypeOK, DaemonRows, Places, InFlight, Reasons, Streaks, ItemOpen, WithItem, Progress
  <2>2. disk' \in DiskRows
    BY <1>2 DEF LoopFails, Gone, Interrupted, NoSignal, IInv, TypeOK, DiskRows, DaemonRows, Progress, ItemOpen, WithItem, InFlight
  <2>3. TypeOK'
    BY <1>2, <2>1, <2>2, Limits, NewDaemon, <2>0 DEF LoopFails, Gone, NoSignal, IInv, TypeOK, Signals, DaemonRows, Progress, Streaks,
           ItemOpen, WithItem, InFlight
  <2>4. Progress'
    BY <1>2, Limits, NewDaemon DEF LoopFails, Gone, Interrupted, NoSignal, IInv, TypeOK, Progress, Streaks, ItemOpen, Told, Believable, CancelledFirst, AddsAreNew, WithItem,
         InFlight, Open, Handle, Converged, Callers, Outside, DaemonRows, DiskRows, Signals
  <2>5. QED
    BY <2>3, <2>4 DEF IInv
<1>3. CASE Crash
  <2>1. daemon' \in DaemonRows
    BY <1>3, Limits, NewDaemon DEF Crash, NoTrack, NoSignal, Interrupted,
           IInv, TypeOK, DaemonRows, Places, InFlight, Reasons, Streaks, ItemOpen, WithItem, Progress
  <2>2. disk' \in DiskRows
    BY <1>3 DEF Crash, NoTrack, NoSignal, Interrupted, IInv, TypeOK, DiskRows, DaemonRows, Progress, ItemOpen, WithItem, InFlight
  <2>3. TypeOK'
    BY <1>3, <2>1, <2>2, Limits, NewDaemon DEF Crash, NoTrack, NoSignal, Interrupted, IInv, TypeOK, Signals, DaemonRows, Progress, Streaks,
           ItemOpen, WithItem, InFlight
  <2>4. Progress'
    BY <1>3, Limits, NewDaemon DEF Crash, NoTrack, NoSignal, Interrupted, IInv, TypeOK, Progress, Streaks, ItemOpen, Told, Believable, CancelledFirst, AddsAreNew, WithItem,
         InFlight, Open, Handle, Converged, Callers, Outside, DaemonRows, DiskRows, Signals
  <2>5. QED
    BY <2>3, <2>4 DEF IInv
<1>4. CASE ResumeTells
  <2>1. daemon' \in DaemonRows
    BY <1>4, Limits, NewDaemon DEF ResumeTells, NoTrack, NoSignal,
           IInv, TypeOK, DaemonRows, Places, InFlight, Reasons, Streaks, ItemOpen, WithItem, Progress
  <2>2. disk' \in DiskRows
    BY <1>4 DEF ResumeTells, NoTrack, NoSignal, IInv, TypeOK, DiskRows, DaemonRows, Progress, ItemOpen, WithItem, InFlight
  <2>3. TypeOK'
    BY <1>4, <2>1, <2>2, Limits, NewDaemon DEF ResumeTells, NoTrack, NoSignal, IInv, TypeOK, Signals, DaemonRows, Progress, Streaks,
           ItemOpen, WithItem, InFlight
  <2>4. Progress'
    BY <1>4, Limits, NewDaemon DEF ResumeTells, NoTrack, NoSignal, IInv, TypeOK, Progress, Streaks, ItemOpen, Told, Believable, CancelledFirst, AddsAreNew, WithItem,
         InFlight, Open, Handle, Converged, Callers, Outside, DaemonRows, DiskRows, Signals
  <2>5. QED
    BY <2>3, <2>4 DEF IInv
<1>5. CASE ResumeSpawns
  <2>1. daemon' \in DaemonRows
    BY <1>5, Limits, NewDaemon DEF ResumeSpawns, Goes,
           IInv, TypeOK, DaemonRows, Places, InFlight, Reasons, Streaks, ItemOpen, WithItem, Progress
  <2>2. disk' \in DiskRows
    BY <1>5 DEF ResumeSpawns, Goes, IInv, TypeOK, DiskRows, DaemonRows, Progress, ItemOpen, WithItem, InFlight
  <2>3. TypeOK'
    BY <1>5, <2>1, <2>2, Limits, NewDaemon DEF ResumeSpawns, Goes, IInv, TypeOK, Signals, DaemonRows, Progress, Streaks,
           ItemOpen, WithItem, InFlight
  <2>4. Progress'
    BY <1>5, Limits, NewDaemon DEF ResumeSpawns, Goes, IInv, TypeOK, Progress, Streaks, ItemOpen, Told, Believable, CancelledFirst, AddsAreNew, WithItem,
         InFlight, Open, Handle, Converged, Callers, Outside, DaemonRows, DiskRows, Signals
  <2>5. QED
    BY <2>3, <2>4 DEF IInv
<1>6. QED
  BY <1>1, <1>2, <1>3, <1>4, <1>5

\* The daemon begins an iteration, dispatches it and learns how it ended.
LEMMA IterationSteps ==
  ASSUME IInv, TopStops \/ Picks \/ Dispatches \/ DispatchRaises \/ WaitReturns \/ AfterIteration
  PROVE  IInv'
<1>1. CASE TopStops
  <2>1. PICK r \in StopRules : daemon' = [daemon EXCEPT !.pc = "ending", !.reason = r]
    BY <1>1 DEF TopStops, Ends
  <2>2. daemon.pc = "top" /\ UNCHANGED <<disk, shared, tracker, sub, life, untold>>
    BY <1>1 DEF TopStops, Memory
  <2>7. shared.reason \in Callers \cup {None}
    BY DEF IInv, TypeOK, Signals
  <2>8. r \in {shared.reason} \cup Outside \cup {"iteration_cap", "user_pause"}
    BY <2>1 DEF StopRules
  <2>9. r \in Reasons /\ r # "satisfied"
    BY <2>7, <2>8 DEF Reasons, Outside, Callers, None
  <2>3. daemon' \in DaemonRows
    BY <2>1, <2>2, <2>9 DEF IInv, TypeOK, DaemonRows, Places
  <2>4. TypeOK'
    BY <2>2, <2>3 DEF IInv, TypeOK
  <2>5. Progress'
    BY <2>1, <2>2, <2>9 DEF IInv, TypeOK, Progress, Streaks, ItemOpen, Told, Believable, CancelledFirst, AddsAreNew, WithItem,
         InFlight, Open, Handle, Converged, Callers, Outside, DaemonRows, DiskRows, Signals
  <2>6. QED
    BY <2>4, <2>5 DEF IInv
<1>2. ASSUME Picks, daemon' = [daemon EXCEPT !.pc = "reflect", !.cause = "empty"]
      PROVE  IInv'
  <2>0. daemon.pc = "top" /\ UNCHANGED <<disk, shared, tracker, sub, life, untold>>
    BY <1>2 DEF Picks, Memory
  <2>1. daemon' \in DaemonRows
    BY <1>2 DEF IInv, TypeOK, DaemonRows, Places
  <2>2. TypeOK'
    BY <2>0, <2>1 DEF IInv, TypeOK
  <2>3. Progress'
    BY <1>2, <2>0 DEF IInv, TypeOK, Progress, Streaks, ItemOpen, Told, Believable, CancelledFirst, AddsAreNew, WithItem,
         InFlight, Open, Handle, Converged, Callers, Outside, DaemonRows, DiskRows, Signals
  <2>4. QED
    BY <2>2, <2>3 DEF IInv
<1>3. ASSUME Picks, NEW i \in Open,
             daemon' = [daemon EXCEPT !.pc = "begun", !.item = i, !.iter = @ + 1]
      PROVE  IInv'
  <2> DEFINE n == daemon.iter + 1
  <2>0. /\ daemon.pc = "top" /\ ~(daemon.iter >= MaxIterations)
        /\ UNCHANGED <<disk, shared, tracker, sub, life, untold>>
    BY <1>3 DEF Picks, MustStop, Memory
  <2>7. daemon.iter \in 0..MaxIterations
    BY DEF IInv, TypeOK, DaemonRows
  <2>1. n \in 1..MaxIterations /\ n \in 0..MaxIterations /\ i \in Items
    BY <2>0, <2>7, Limits DEF Open
  <2>2. daemon' = [daemon EXCEPT !.pc = "begun", !.item = i, !.iter = n]
    BY <1>3
  <2> HIDE DEF n
  <2>3. daemon' \in DaemonRows
    BY <2>1, <2>2 DEF IInv, TypeOK, DaemonRows, Places
  <2>4. TypeOK'
    BY <2>0, <2>3 DEF IInv, TypeOK
  <2>5. Progress'
    BY <2>0, <2>1, <2>2 DEF IInv, TypeOK, Progress, Streaks, ItemOpen, Told, Believable, CancelledFirst, AddsAreNew, WithItem,
         InFlight, Open, Handle, Converged, Callers, Outside, DaemonRows, DiskRows, Signals
  <2>6. QED
    BY <2>4, <2>5 DEF IInv
<1>4. CASE Dispatches
  <2>1. daemon' \in DaemonRows
    BY <1>4 DEF Dispatches, Goes, IInv, TypeOK, DaemonRows, Places, InFlight
  <2>2. TypeOK'
    BY <1>4, <2>1 DEF Dispatches, NoTrack, IInv, TypeOK
  <2>3. Told'
    BY <1>4 DEF Dispatches, Goes, IInv, TypeOK, DaemonRows, Progress, Told, InFlight, Open
  <2>4. (Streaks /\ ItemOpen /\ Believable /\ CancelledFirst /\ AddsAreNew)'
    BY <1>4 DEF Dispatches, Goes, NoTrack, IInv, TypeOK, Progress, Streaks, ItemOpen, Told, Believable, CancelledFirst, AddsAreNew, WithItem,
         InFlight, Open, Handle, Converged, Callers, Outside, DaemonRows, DiskRows, Signals
  <2>5. QED
    BY <2>2, <2>3, <2>4 DEF IInv, Progress
<1>5. CASE daemon' = [daemon EXCEPT !.pc = "settled", !.fails = @ + 1] /\ (DispatchRaises \/ WaitReturns)
  <2> DEFINE n == daemon.fails + 1
  <2>0. UNCHANGED <<disk, sub, life, untold>> /\ shared'.stop = shared.stop
    BY <1>5 DEF DispatchRaises, WaitReturns, Memory, IInv, TypeOK, Signals
  <2>7. shared' \in Signals
    BY <1>5 DEF DispatchRaises, WaitReturns, Memory, IInv, TypeOK, Signals
  <2>8. tracker' \in [set : BOOLEAN, outcome : {None, "ok", "bad"}]
    <3>1. tracker' = tracker \/ tracker' = NoTrack
      BY <1>5 DEF DispatchRaises, WaitReturns, Memory
    <3>2. NoTrack \in [set : BOOLEAN, outcome : {None, "ok", "bad"}]
      BY DEF NoTrack
    <3>3. QED
      BY <3>1, <3>2 DEF IInv, TypeOK
  <2>1. n \in 0..FailLimit /\ daemon.pc \in {"noted", "waiting"}
    BY <1>5, Limits DEF DispatchRaises, WaitReturns, IInv, Progress, Streaks, TypeOK, DaemonRows
  <2>2. daemon' = [daemon EXCEPT !.pc = "settled", !.fails = n]
    BY <1>5
  <2> HIDE DEF n
  <2>3. daemon' \in DaemonRows
    BY <2>1, <2>2 DEF IInv, TypeOK, DaemonRows, Places, InFlight
  <2>4. TypeOK'
    BY <2>0, <2>3, <2>7, <2>8 DEF IInv, TypeOK
  <2>5. Progress'
    BY <2>0, <2>1, <2>2 DEF IInv, TypeOK, Progress, Streaks, ItemOpen, Told, Believable, CancelledFirst, AddsAreNew, WithItem,
         InFlight, Open, Handle, Converged, Callers, Outside, DaemonRows, DiskRows, Signals
  <2>6. QED
    BY <2>4, <2>5 DEF IInv
<1>6. CASE daemon' = [daemon EXCEPT !.pc = "shipped", !.fails = 0] /\ WaitReturns
  <2>0. 0 \in 0..FailLimit
    BY Limits
  <2>1. daemon' \in DaemonRows
    BY <1>6, <2>0 DEF IInv, TypeOK, DaemonRows, Places, InFlight
  <2>2. TypeOK'
    BY <1>6, <2>1 DEF WaitReturns, NoTrack, IInv, TypeOK, Signals
  <2>3. Progress'
    BY <1>6, Limits DEF WaitReturns, NoTrack, IInv, TypeOK, Progress, Streaks, ItemOpen, Told, Believable, CancelledFirst, AddsAreNew, WithItem,
         InFlight, Open, Handle, Converged, Callers, Outside, DaemonRows, DiskRows, Signals
  <2>4. QED
    BY <2>2, <2>3 DEF IInv
<1>7. CASE AfterIteration
  <2>1. disk' = disk /\ UNCHANGED <<shared, tracker, sub, life, untold>> /\ daemon.pc = "cleared"
    BY <1>7 DEF AfterIteration, Memory
  <2>2. ASSUME NEW r \in {"mode_not_allowed", "check_failed"}, daemon' = [daemon EXCEPT !.pc = "ending", !.reason = r]
        PROVE  daemon' \in DaemonRows /\ Progress'
    <3>1. daemon' \in DaemonRows
      BY <2>2 DEF IInv, TypeOK, DaemonRows, Places, Reasons, Outside
    <3>2. Progress'
      BY <2>1, <2>2 DEF IInv, TypeOK, Progress, Streaks, ItemOpen, Told, Believable, CancelledFirst, AddsAreNew, WithItem,
         InFlight, Open, Handle, Converged, Callers, Outside, DaemonRows, DiskRows, Signals
    <3>3. QED
      BY <3>1, <3>2
  <2>3. ASSUME daemon.fails < FailLimit,
               daemon' = [daemon EXCEPT !.pc = "reflect", !.item = None, !.cause = "cadence"]
        PROVE  daemon' \in DaemonRows /\ Progress'
    <3>1. daemon' \in DaemonRows
      BY <2>3 DEF IInv, TypeOK, DaemonRows, Places
    <3>2. Progress'
      BY <2>1, <2>3 DEF IInv, TypeOK, Progress, Streaks, ItemOpen, Told, Believable, CancelledFirst, AddsAreNew, WithItem,
         InFlight, Open, Handle, Converged, Callers, Outside, DaemonRows, DiskRows, Signals
    <3>3. QED
      BY <3>1, <3>2
  <2>4. ASSUME daemon.fails < FailLimit, daemon' = NextTurn(daemon.blocks)
        PROVE  daemon' \in DaemonRows /\ Progress'
    <3>1. daemon.blocks \in 0..BlockLimit /\ daemon.blocks < BlockLimit
      BY <2>1 DEF IInv, TypeOK, DaemonRows, Progress, Streaks
    <3>2. daemon' \in DaemonRows /\ daemon'.pc = "top" /\ daemon'.fails = daemon.fails /\ daemon'.blocks = daemon.blocks
      BY <2>4, <3>1, NextTurnShape DEF IInv, TypeOK
    <3>3. Progress'
      BY <2>1, <2>4, <3>1, <3>2 DEF IInv, TypeOK, Progress, Streaks, ItemOpen, Told, Believable, CancelledFirst, AddsAreNew, WithItem,
         InFlight, Open, Handle, Converged, Callers, Outside, DaemonRows, DiskRows, Signals
    <3>4. QED
      BY <3>2, <3>3
  <2>5. daemon' \in DaemonRows /\ Progress'
    BY <1>7, <2>2, <2>3, <2>4 DEF AfterIteration, Ends
  <2>6. QED
    BY <2>1, <2>5 DEF IInv, TypeOK
<1>8. QED
  BY <1>1, <1>2, <1>3, <1>4, <1>5, <1>6, <1>7 DEF Picks, DispatchRaises, WaitReturns

\* A pass reads the roadmap, asks the model and decides on its verdict.
LEMMA ReflectionSteps ==
  ASSUME IInv, RunsChecks \/ ModelAnswers \/ CrossChecks
  PROVE  IInv'
<1>1. CASE RunsChecks
  <2>1. PICK result \in [Checked -> {"passed", "failed", "error"}], saved \in BOOLEAN :
          /\ disk' = IF saved THEN [disk EXCEPT !.checks = Applied(result)] ELSE disk
          /\ daemon' =
               IF NeedsModel(result) THEN [daemon EXCEPT !.pc = "session"]
               ELSE [daemon EXCEPT !.pc = "judged", !.ask = FALSE, !.adds = {},
                       !.verdict = IF Converged(Applied(result)) THEN "satisfied" ELSE "continue"]
    BY <1>1 DEF RunsChecks
  <2> DEFINE checks == Applied(result)
             v == IF Converged(checks) THEN "satisfied" ELSE "continue"
  <2>2. daemon.pc = "reflect" /\ UNCHANGED <<shared, tracker, sub, life, untold>>
    BY <1>1 DEF RunsChecks, Memory
  <2>3. checks \in [Criteria -> {"pending", "passed", "failed"}]
    <3>1. \A c \in Criteria : c \notin Judged => result[c] \in {"passed", "failed", "error"}
      BY DEF Criteria
    <3>2. disk.checks \in [Criteria -> {"pending", "passed", "failed"}]
      BY DEF IInv, TypeOK, DiskRows
    <3>3. QED
      BY <3>1, <3>2 DEF Applied
  <2>4. disk' = disk \/ disk' = [disk EXCEPT !.checks = checks]
    BY <2>1
  <2>5. \/ daemon' = [daemon EXCEPT !.pc = "session"]
        \/ daemon' = [daemon EXCEPT !.pc = "judged", !.ask = FALSE, !.adds = {}, !.verdict = v]
    BY <2>1
  <2>6. v \in {"continue", "satisfied"}
    OBVIOUS
  <2> HIDE DEF checks, v
  <2>7. disk' \in DiskRows /\ disk'.items = disk.items /\ disk'.inflight = disk.inflight
    BY <2>3, <2>4 DEF IInv, TypeOK, DiskRows
  <2>8. daemon' \in DaemonRows
    <3>1. CASE daemon' = [daemon EXCEPT !.pc = "session"]
      BY <3>1 DEF IInv, TypeOK, DaemonRows, Places
    <3>2. CASE daemon' = [daemon EXCEPT !.pc = "judged", !.ask = FALSE, !.adds = {}, !.verdict = v]
      BY <2>6, <3>2 DEF IInv, TypeOK, DaemonRows, Places
    <3>3. QED
      BY <2>5, <3>1, <3>2
  <2>9. TypeOK'
    BY <2>2, <2>7, <2>8 DEF IInv, TypeOK
  <2>10. Progress'
    <3>1. /\ daemon'.pc \in {"session", "judged"} /\ daemon'.fails = daemon.fails
          /\ daemon'.blocks = daemon.blocks /\ (daemon'.pc = "judged" => daemon'.adds = {})
      BY <2>2, <2>5 DEF IInv, TypeOK, DaemonRows
    <3>2. Told'
      BY <2>2, <2>7, <3>1 DEF IInv, Progress, Told, Open, InFlight
    <3>3. (Streaks /\ ItemOpen /\ Believable /\ CancelledFirst /\ AddsAreNew)'
      BY <2>2, <3>1 DEF IInv, Progress, Streaks, ItemOpen, Believable, CancelledFirst, AddsAreNew, WithItem, InFlight
    <3>4. QED
      BY <3>2, <3>3 DEF Progress
  <2>11. QED
    BY <2>9, <2>10 DEF IInv
<1>2. CASE ModelAnswers
  <2>1. PICK found \in [Criteria -> {"as it is", "passed", "failed"}],
             verdict \in {"continue", "satisfied", "blocked"}, asks \in BOOLEAN,
             adds \in SUBSET {f \in FollowUps : disk.items[f] = "absent"} :
          /\ disk' = [disk EXCEPT !.checks =
                         [c \in Criteria |-> IF found[c] = "as it is" THEN @[c] ELSE found[c]]]
          /\ daemon' = [daemon EXCEPT !.pc = IF asks /\ daemon.pc = "session" THEN "parked" ELSE "judged",
                                      !.verdict = verdict, !.ask = asks /\ daemon.pc = "session",
                                      !.adds = adds]
    BY <1>2 DEF ModelAnswers
  <2> DEFINE new == [c \in Criteria |-> IF found[c] = "as it is" THEN disk.checks[c] ELSE found[c]]
             ask == asks /\ daemon.pc = "session"
             pc  == IF ask THEN "parked" ELSE "judged"
  <2>2. daemon.pc \in {"session", "rerun"} /\ UNCHANGED <<shared, tracker, sub, life, untold>>
    BY <1>2 DEF ModelAnswers, Memory
  <2>3. new \in [Criteria -> {"pending", "passed", "failed"}]
    BY DEF IInv, TypeOK, DiskRows
  <2>4. disk' = [disk EXCEPT !.checks = new]
    BY <2>1
  <2>5. daemon' = [daemon EXCEPT !.pc = pc, !.verdict = verdict, !.ask = ask, !.adds = adds]
    BY <2>1
  <2>6. ask \in BOOLEAN /\ ((pc = "parked" /\ ask) \/ pc = "judged")
    BY DEF pc
  <2>7. adds \subseteq FollowUps /\ \A i \in adds : disk.items[i] = "absent"
    OBVIOUS
  <2> HIDE DEF new, ask, pc
  <2>8. disk' \in DiskRows /\ disk'.items = disk.items /\ disk'.inflight = disk.inflight
    BY <2>3, <2>4 DEF IInv, TypeOK, DiskRows
  <2>9. daemon' \in DaemonRows
    BY <2>5, <2>6, <2>7 DEF IInv, TypeOK, DaemonRows, Places
  <2>10. TypeOK'
    BY <2>2, <2>8, <2>9 DEF IInv, TypeOK
  <2>11. Progress'
    <3>1. /\ daemon'.pc \in {"parked", "judged"} /\ daemon'.fails = daemon.fails /\ daemon'.adds = adds
          /\ daemon'.blocks = daemon.blocks /\ (daemon'.pc = "parked" => daemon'.ask)
      BY <2>5, <2>6 DEF IInv, TypeOK, DaemonRows
    <3>2. Told'
      BY <2>2, <2>8, <3>1 DEF IInv, Progress, Told, Open, InFlight
    <3>3. (Streaks /\ ItemOpen /\ Believable /\ CancelledFirst)'
      BY <2>2, <3>1 DEF IInv, Progress, Streaks, ItemOpen, Believable, CancelledFirst, WithItem, InFlight
    <3>4. AddsAreNew'
      BY <2>7, <2>8, <3>1 DEF AddsAreNew
    <3>5. QED
      BY <3>2, <3>3, <3>4 DEF Progress
  <2>12. QED
    BY <2>10, <2>11 DEF IInv
<1>3. CASE CrossChecks
  <2> DEFINE v == CrossChecked(daemon.verdict)
             items == Opened(daemon.adds)
  <2>1. daemon.pc = "judged" /\ UNCHANGED <<shared, tracker, sub, life, untold>>
    BY <1>3 DEF CrossChecks, Memory
  <2>2. daemon' = [daemon EXCEPT !.pc = "decided", !.verdict = v, !.adds = {}]
    BY <1>3 DEF CrossChecks
  <2>3. disk' = disk \/ disk' = [disk EXCEPT !.items = items]
    BY <1>3 DEF CrossChecks
  <2>4. daemon.verdict \in {"continue", "satisfied", "blocked"}
    BY DEF IInv, TypeOK, DaemonRows
  <2>5. v \in {"continue", "satisfied", "blocked"} /\ (v = "satisfied" => Converged(disk.checks))
    BY <2>4 DEF CrossChecked
  <2>6. /\ items \in [Items -> {"absent", "open", "done"}]
        /\ \A i \in Items : items[i] # disk.items[i] => i \in daemon.adds /\ items[i] = "open"
    BY DEF Opened, IInv, TypeOK, DiskRows
  <2>7. \A i \in daemon.adds : disk.items[i] = "absent"
    BY <2>1 DEF IInv, Progress, AddsAreNew
  <2> HIDE DEF v, items
  <2>8. /\ disk' \in DiskRows /\ disk'.checks = disk.checks /\ disk'.inflight = disk.inflight
        /\ \A i \in Items : disk'.items[i] # disk.items[i] => disk.items[i] = "absent"
    BY <2>3, <2>6, <2>7 DEF IInv, TypeOK, DiskRows
  <2>9. daemon' \in DaemonRows
    BY <2>2, <2>5 DEF IInv, TypeOK, DaemonRows, Places
  <2>10. TypeOK'
    BY <2>1, <2>8, <2>9 DEF IInv, TypeOK
  <2>11. Told'
    BY <2>1, <2>2, <2>8 DEF IInv, Progress, TypeOK, Told, Open, InFlight, DaemonRows
  <2>12. (Streaks /\ ItemOpen /\ Believable /\ CancelledFirst /\ AddsAreNew)'
    BY <2>1, <2>2, <2>5, <2>8 DEF IInv, TypeOK, Progress, Streaks, ItemOpen, Told, Believable, CancelledFirst, AddsAreNew, WithItem,
         InFlight, Open, Handle, Converged, Callers, Outside, DaemonRows, DiskRows, Signals
  <2>13. QED
    BY <2>10, <2>11, <2>12 DEF IInv, Progress
<1>4. QED
  BY <1>1, <1>2, <1>3

\* A verdict ends the mission or starts another turn, with the repairs of failed
\* criteria where nothing else is open.
LEMMA DecisionSteps ==
  ASSUME IInv, Decides
  PROVE  IInv'
<1>0. daemon.pc = "decided" /\ UNCHANGED <<shared, tracker, sub, life, untold>>
  BY DEF Decides, Memory
<1>1. daemon.blocks \in 0..BlockLimit /\ daemon.blocks < BlockLimit /\ daemon.fails < FailLimit
  BY <1>0 DEF IInv, Progress, Streaks, TypeOK, DaemonRows
\* The daemon stops, and nothing else changes.
<1>2. ASSUME UNCHANGED disk, NEW r \in Reasons, NEW b \in 0..BlockLimit,
             r = "satisfied" => daemon.verdict = "satisfied",
             daemon' = [daemon EXCEPT !.pc = "ending", !.reason = r, !.blocks = b]
      PROVE  IInv'
  <2>1. daemon' \in DaemonRows
    BY <1>2 DEF IInv, TypeOK, DaemonRows, Places
  <2>2. TypeOK'
    BY <1>0, <1>2, <2>1 DEF IInv, TypeOK
  <2>3. Progress'
    BY <1>0, <1>2 DEF IInv, TypeOK, Progress, Streaks, ItemOpen, Told, Believable, CancelledFirst, AddsAreNew, WithItem,
         InFlight, Open, Handle, Converged, Callers, Outside, DaemonRows, DiskRows, Signals
  <2>4. QED
    BY <2>2, <2>3 DEF IInv
\* Another turn, maybe with items that were not there
<1>3. ASSUME NEW b \in 0..BlockLimit, b < BlockLimit, daemon' = NextTurn(b),
             disk' \in DiskRows, disk'.inflight = disk.inflight,
             \A i \in Items : disk'.items[i] # disk.items[i] => disk.items[i] = "absent"
      PROVE  IInv'
  <2>1. /\ daemon' \in DaemonRows /\ daemon'.pc = "top"
        /\ daemon'.fails = daemon.fails /\ daemon'.blocks = b
    BY <1>3, NextTurnShape DEF IInv, TypeOK
  <2>2. TypeOK'
    BY <1>0, <1>3, <2>1 DEF IInv, TypeOK
  <2>3. Told'
    BY <1>0, <1>3, <2>1 DEF IInv, Progress, TypeOK, Told, Open, InFlight
  <2>4. (Streaks /\ ItemOpen /\ Believable /\ CancelledFirst /\ AddsAreNew)'
    BY <1>0, <1>1, <1>3, <2>1 DEF Streaks, ItemOpen, Believable, CancelledFirst, AddsAreNew, WithItem, InFlight
  <2>5. QED
    BY <2>2, <2>3, <2>4 DEF IInv, Progress
<1>4. CASE Satisfied
  <2>1. /\ daemon.verdict = "satisfied" /\ UNCHANGED disk
        /\ daemon' = [daemon EXCEPT !.pc = "ending", !.reason = "satisfied"]
    BY <1>4 DEF Satisfied, Ends
  <2>2. daemon' \in DaemonRows
    BY <2>1 DEF IInv, TypeOK, DaemonRows, Places, Reasons
  <2>3. TypeOK'
    BY <1>0, <2>1, <2>2 DEF IInv, TypeOK
  <2>4. Progress'
    BY <1>0, <2>1 DEF IInv, TypeOK, Progress, Streaks, ItemOpen, Told, Believable, CancelledFirst, AddsAreNew, WithItem,
         InFlight, Open, Handle, Converged, Callers, Outside, DaemonRows, DiskRows, Signals
  <2>5. QED
    BY <2>3, <2>4 DEF IInv
<1>5. CASE Blocked
  <2> DEFINE b == daemon.blocks + 1
  <2>1. b \in 0..BlockLimit /\ (b >= BlockLimit \/ b < BlockLimit) /\ "blocked" \in Reasons
    BY <1>1, Limits DEF Reasons
  <2>2. /\ UNCHANGED disk
        /\ \/ daemon' = [daemon EXCEPT !.pc = "ending", !.reason = "blocked", !.blocks = b]
           \/ b < BlockLimit /\ daemon' = NextTurn(b)
    BY <1>5, <2>1 DEF Blocked
  <2>3. disk' \in DiskRows
    BY <2>2 DEF IInv, TypeOK
  <2> HIDE DEF b
  <2>4. QED
    BY <1>2, <1>3, <2>1, <2>2, <2>3
<1>6. CASE Continues
  <2>1. 0 \in 0..BlockLimit /\ 0 < BlockLimit
    BY Limits
  <2>2. QED
    BY <1>3, <1>6, <2>1 DEF Continues, IInv, TypeOK
<1>7. CASE AddsRepairs
  <2>1. 0 \in 0..BlockLimit /\ 0 < BlockLimit
    BY Limits
  <2> DEFINE items == Opened(Repairs)
  <2>2. disk' = [disk EXCEPT !.items = items] /\ daemon' = NextTurn(0)
    BY <1>7 DEF AddsRepairs
  <2>3. /\ items \in [Items -> {"absent", "open", "done"}]
        /\ \A i \in Items : items[i] # disk.items[i] => disk.items[i] = "absent"
    BY DEF Opened, Repairs, IInv, TypeOK, DiskRows
  <2> HIDE DEF items
  <2>4. /\ disk' \in DiskRows /\ disk'.inflight = disk.inflight
        /\ \A i \in Items : disk'.items[i] # disk.items[i] => disk.items[i] = "absent"
    BY <2>2, <2>3 DEF IInv, TypeOK, DiskRows
  <2>5. QED
    BY <1>3, <2>1, <2>2, <2>4
<1>8. CASE Stuck
  <2>1. 0 \in 0..BlockLimit /\ "stuck" \in Reasons
    BY Limits DEF Reasons
  <2>2. QED
    BY <1>2, <1>8, <2>1 DEF Stuck
<1>9. QED
  BY <1>4, <1>5, <1>6, <1>7, <1>8 DEF Decides

\* What other threads do: sub-missions end, stops are asked for and recorded, and
\* the stall ceiling cancels.
LEMMA OtherSteps ==
  ASSUME IInv,
         \/ CeilingPasses \/ StopRecorded
         \/ \E caller \in Callers : StopAsked(caller)
         \/ \E h \in Handles, outcome \in {"ok", "bad"} : SubEnds(h, outcome)
  PROVE  IInv'
<1>1. daemon.pc = "waiting" => Handle \in Handles
  BY HandleType DEF IInv, TypeOK, Progress, ItemOpen, WithItem, InFlight
<1>2. ASSUME UNCHANGED <<disk, daemon, life, untold>>, shared' \in Signals, shared.stop => shared'.stop,
             NEW h \in Handles, sub' = sub \/ sub' = [sub EXCEPT ![h] = "cancelled"] \/ sub' = [sub EXCEPT ![h] = None],
             tracker' \in [set : BOOLEAN, outcome : {None, "ok", "bad"}],
             tracker' = tracker \/ sub' = [sub EXCEPT ![Handle] = "cancelled"] \/ sub' = [sub EXCEPT ![Handle] = None]
      PROVE  IInv'
  <2>1. TypeOK'
    BY <1>2 DEF IInv, TypeOK
  <2>2. CancelledFirst'
    <3> SUFFICES ASSUME daemon'.pc = "waiting", tracker'.set PROVE sub'[Handle'] # "running"
      BY DEF CancelledFirst
    <3>1. Handle' = Handle /\ Handle \in Handles /\ sub \in [Handles -> {None, "running", "cancelled"}]
      BY <1>1, <1>2 DEF Handle, IInv, TypeOK
    <3> DEFINE w == Handle
    <3>2. w \in Handles /\ Handle' = w /\ (tracker' = tracker => sub[w] # "running")
      BY <1>2, <3>1 DEF IInv, Progress, CancelledFirst
    <3>3. tracker' = tracker \/ sub' = [sub EXCEPT ![w] = "cancelled"] \/ sub' = [sub EXCEPT ![w] = None]
      BY <1>2
    <3> HIDE DEF w
    <3>4. QED
      BY <1>2, <3>1, <3>2, <3>3 DEF None
  <2>3. (Streaks /\ ItemOpen /\ Told /\ Believable /\ AddsAreNew)'
    BY <1>2 DEF IInv, TypeOK, Progress, Streaks, ItemOpen, Told, Believable, AddsAreNew, Open, Converged, Signals
  <2>4. QED
    BY <2>1, <2>2, <2>3 DEF IInv, Progress
<1>3. ASSUME NEW h \in Handles, NEW outcome \in {"ok", "bad"}, Feed(h, outcome)
      PROVE  /\ tracker' \in [set : BOOLEAN, outcome : {None, "ok", "bad"}]
             /\ tracker' = tracker \/ h = Handle
  BY <1>3 DEF Feed, IInv, TypeOK
<1>4. ASSUME NEW h \in Handles, Cancel(h)
      PROVE  /\ sub' = sub \/ sub' = [sub EXCEPT ![h] = "cancelled"]
             /\ tracker' \in [set : BOOLEAN, outcome : {None, "ok", "bad"}]
             /\ tracker' = tracker \/ (h = Handle /\ sub' = [sub EXCEPT ![h] = "cancelled"])
  BY <1>3, <1>4 DEF Cancel, IInv, TypeOK
<1>5. CASE CeilingPasses
  <2>1. Handle \in Handles /\ Cancel(Handle) /\ UNCHANGED <<disk, daemon, life, untold>>
    BY <1>1, <1>5 DEF CeilingPasses
  <2>2. shared' \in Signals /\ shared'.stop = shared.stop
    BY <1>5 DEF CeilingPasses, IInv, TypeOK, Signals
  <2>3. QED
    BY <1>2, <1>4, <2>1, <2>2
<1>6. CASE StopRecorded
  <2>1. shared' \in Signals /\ shared'.stop = TRUE /\ UNCHANGED <<disk, daemon, life, untold>>
    BY <1>6 DEF StopRecorded, IInv, TypeOK, Signals
  <2>2. CASE daemon.pc = "waiting"
    BY <1>1, <1>2, <1>4, <1>6, <2>1, <2>2 DEF StopRecorded
  <2>3. CASE daemon.pc # "waiting"
    <3>1. UNCHANGED <<sub, tracker>>
      BY <1>6, <2>3 DEF StopRecorded
    <3>2. QED
      BY <2>1, <2>3, <3>1 DEF IInv, TypeOK, Progress, Streaks, ItemOpen, Told, Believable, CancelledFirst, AddsAreNew, WithItem,
         InFlight, Open, Handle, Converged, Callers, Outside, DaemonRows, DiskRows, Signals
  <2>4. QED
    BY <2>2, <2>3
<1>7. ASSUME NEW caller \in Callers, StopAsked(caller)
      PROVE  IInv'
  <2>1. UNCHANGED <<disk, daemon, tracker, sub, life, untold>>
    BY <1>7 DEF StopAsked
  <2>2. shared' \in Signals /\ shared'.stop = shared.stop
    BY <1>7 DEF StopAsked, IInv, TypeOK, Signals
  <2>3. TypeOK'
    BY <2>1, <2>2 DEF IInv, TypeOK
  <2>4. Progress'
    BY <2>1, <2>2 DEF IInv, TypeOK, Progress, Streaks, ItemOpen, Told, Believable, CancelledFirst, AddsAreNew, WithItem,
         InFlight, Open, Handle, Converged, Callers, Outside, DaemonRows, DiskRows, Signals
  <2>5. QED
    BY <2>3, <2>4 DEF IInv
<1>8. ASSUME NEW h \in Handles, NEW outcome \in {"ok", "bad"}, SubEnds(h, outcome)
      PROVE  IInv'
  <2>1. sub' = [sub EXCEPT ![h] = None] /\ Feed(h, outcome) /\ UNCHANGED <<disk, daemon, shared, life, untold>>
    BY <1>8 DEF SubEnds
  <2>2. shared' \in Signals
    BY <2>1 DEF IInv, TypeOK
  <2>3. QED
    BY <1>2, <1>3, <2>1, <2>2
<1>9. QED
  BY <1>5, <1>6, <1>7, <1>8

LEMMA StepIInv == IInv /\ [Next]_vars => IInv'
<1> SUFFICES ASSUME IInv, [Next]_vars PROVE IInv'
  OBVIOUS
<1>1. CASE UNCHANGED vars
  BY <1>1 DEF vars, IInv, TypeOK, Progress, Streaks, ItemOpen, Told, Believable, CancelledFirst, AddsAreNew, WithItem,
         InFlight, Open, Handle, Converged, Callers, Outside, DaemonRows, DiskRows, Signals
<1>2. CASE Next
  BY <1>2, MoveSteps, EndSteps, IterationSteps, ReflectionSteps, DecisionSteps, OtherSteps
     DEF Next, DaemonStep
<1>3. QED
  BY <1>1, <1>2

LEMMA Invariance == Spec => []IInv
<1>1. QED
  BY InitIInv, StepIInv, PTL DEF Spec

-----------------------------------------------------------------------------
(* Theorems *)

\* Every variable keeps its type: in particular no daemon goes over its iteration cap
\* or its streaks (_check_stop_rules, and the ends of _run).
THEOREM TypeCorrect == Spec => []TypeOK
<1>1. IInv => TypeOK
  BY DEF IInv
<1>2. QED
  BY <1>1, Invariance, PTL

\* A mission is recorded as complete only when its criteria have passed on disk
\* (_run_full_reflect's cross-check), but for the verdict a stop returns unchecked.
THEOREM CompleteConverged == Spec => CompleteIsConverged
<1>1. ASSUME IInv, [Next]_vars, disk'.status = "complete", disk.status # "complete"
      PROVE  EmitsStop /\ daemon.reason = "satisfied"
  <2>1. disk \in DiskRows
    BY <1>1 DEF IInv, TypeOK
  <2>2. \/ EmitsStop \/ LoopFails \/ UNCHANGED disk
        \/ \E x : disk' = [disk EXCEPT !.items = x] \/ disk' = [disk EXCEPT !.inflight = x]
                  \/ disk' = [disk EXCEPT !.checks = x]
    BY <1>1 DEF vars, Next, DaemonStep, TopStops, Picks, WritesInflight, Dispatches, DispatchRaises, Watches,
         WaitReturns, MarksItem, ClearsInflight, AfterIteration, RunsChecks, ModelAnswers, ParkStopped,
         CrossChecks, Decides, Satisfied, Blocked, Continues, AddsRepairs, Stuck, ResumeSpawns, Answered,
         CeilingPasses, SubEnds, StopAsked, StopRecorded, Pause, ResumeTells, Crash
  <2>3. ~LoopFails
    BY <1>1, <2>1 DEF LoopFails, DiskRows
  <2>4. EmitsStop
    BY <1>1, <2>1, <2>2, <2>3 DEF DiskRows
  <2>5. QED
    BY <1>1, <2>1, <2>4 DEF EmitsStop, DiskRows
<1>2. IInv /\ [Next]_vars => [disk'.status = "complete" /\ disk.status # "complete" =>
         Converged(disk.checks) \/ (shared.stop /\ daemon.ask)]_vars
  BY <1>1 DEF EmitsStop, IInv, Progress, Believable
<1>3. QED
  BY <1>2, Invariance, PTL DEF Spec, CompleteIsConverged

\* What the end of a process cut short is told before it is run again (write_inflight,
\* resume_autonomous_mission).
THEOREM SilentRerun == Spec => NoSilentRerun
<1>1. ASSUME IInv, [Next]_vars, NEW h \in Handles, sub[h] = None, sub'[h] = "running"
      PROVE  Dispatches
  BY <1>1 DEF vars, Next, DaemonStep, TopStops, Picks, WritesInflight, DispatchRaises, Watches,
         WaitReturns, MarksItem, ClearsInflight, AfterIteration, RunsChecks, ModelAnswers, ParkStopped,
         CrossChecks, Decides, EmitsStop, LoopFails, Gone, Memory, ResumeSpawns, Answered,
         CeilingPasses, Cancel, SubEnds, StopAsked, StopRecorded, Pause, ResumeTells, Crash, IInv, TypeOK, None
<1>2. IInv /\ Dispatches => daemon.item \notin untold
  BY DEF Dispatches, IInv, Progress, ItemOpen, Told
<1>3. IInv /\ [Next]_vars => [\A h \in Handles : sub[h] = None /\ sub'[h] = "running" => daemon.item \notin untold]_vars
  BY <1>1, <1>2
<1>4. QED
  BY <1>3, Invariance, PTL DEF Spec, NoSilentRerun

\* The daemon goes on only when the sub-mission it waited for has ended or is
\* cancelled (_wait_with_monitor), unless it is being stopped.
THEOREM Superseded == Spec => SupersededIsCancelled
<1>1. ASSUME IInv, [Next]_vars, daemon.pc = "waiting", daemon'.pc # "waiting", ~shared.trackerStop
      PROVE  sub'[Handle] # "running"
  <2>1. Handle \in Handles
    BY <1>1, HandleType DEF IInv, TypeOK, Progress, ItemOpen, WithItem, InFlight
  <2>2. WaitReturns \/ Crash
    BY <1>1 DEF vars, Next, DaemonStep, TopStops, Picks, WritesInflight, Dispatches, DispatchRaises, Watches,
         MarksItem, ClearsInflight, AfterIteration, RunsChecks, ModelAnswers, ParkStopped,
         CrossChecks, Decides, EmitsStop, LoopFails, ResumeSpawns, ResumeTells, Answered, CeilingPasses,
         SubEnds, StopAsked, StopRecorded, Pause
  <2>3. CASE WaitReturns
    BY <1>1, <2>3 DEF WaitReturns, Woken, IInv, Progress, CancelledFirst
  <2>4. CASE Crash
    BY <2>1, <2>4 DEF Crash, None
  <2>5. QED
    BY <2>2, <2>3, <2>4
<1>2. IInv /\ [Next]_vars =>
        [daemon.pc = "waiting" /\ daemon'.pc # "waiting" /\ ~shared.trackerStop => sub'[Handle] # "running"]_vars
  BY <1>1
<1>3. QED
  BY <1>2, Invariance, PTL DEF Spec, SupersededIsCancelled
=============================================================================
