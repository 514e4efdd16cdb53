---------------------------- MODULE RunLifecycle ----------------------------
(***************************************************************************)
(* What a managed team run promises to whoever watches it, whatever its    *)
(* workers, requests and supervisors do: one state column, a stop that is  *)
(* never taken back, and an ownership that moves forward by epochs.        *)
(*                                                                         *)
(* It is the specification SwarmRun (the rows of a run) and SwarmAuthority *)
(* (the supervisors that compete for it) both implement.                   *)
(***************************************************************************)
EXTENDS Naturals

VARIABLES
  state,  \* runs.state
  stop,   \* runs.stop_requested
  epoch,  \* runs.epoch, the fencing token
  live    \* runs.lease_until lies in the future

vars == <<state, stop, epoch, live>>

Ended == {"cancelled", "completed", "failed"}

Init == state = "running" /\ stop = FALSE /\ epoch = 1 /\ live = TRUE

\* A control step of the owner: the lease is live and stays with its epoch.
Control(from, to) ==
  /\ live /\ state \in from /\ state' \in to
  /\ UNCHANGED <<stop, epoch, live>>

\* A pause that finds nothing under way is complete at once.
Pause    == Control({"running"}, {"pausing", "paused"})
Drain    == Control({"pausing"}, {"paused"})
Resume   == Control({"paused"}, {"running"})
Complete == Control({"running"}, {"completed"})
Close    == stop /\ Control({"stopping"}, {"cancelled"})

\* Stop during recovery is recorded, and recovery goes on.
RequestStop ==
  /\ live /\ state \notin Ended
  /\ stop' = TRUE
  /\ state' \in IF state = "recovery_required" THEN {state} ELSE {"stopping", "cancelled"}
  /\ UNCHANGED <<epoch, live>>

Recover == Control({"recovery_required"}, IF stop THEN {"cancelled"} ELSE {"running"})

Expire == live /\ live' = FALSE /\ UNCHANGED <<state, stop, epoch>>

\* Only an expired lease is taken, and never that of a run that has ended.
TakeOver ==
  /\ ~live /\ state \notin Ended
  /\ epoch' = epoch + 1 /\ live' = TRUE /\ state' = "recovery_required"
  /\ UNCHANGED stop

Next == \/ Pause \/ Drain \/ Resume \/ Complete \/ Close \/ RequestStop
        \/ Recover \/ Expire \/ TakeOver

Spec == Init /\ [][Next]_vars
=============================================================================
