---------------------------- MODULE ManagedLedger ----------------------------
(***************************************************************************)
(* What a managed team owes an organization's server, and may do in        *)
(* return, whatever messages are lost and whichever app drives it: one     *)
(* account of each slot and of each unit.  A slot lets one participant     *)
(* run, a unit lets one request be made, each is given back once, when it  *)
(* is over, and a team continues when its slots are given back.            *)
(*                                                                         *)
(* It is the specification ManagedJournal (the host's journal, the server  *)
(* and what lies between them) implements.                                 *)
(***************************************************************************)
CONSTANTS
  Slots,     \* of the participants of the first epoch
  Units      \* of their requests

VARIABLES
  account,   \* absent or held, then how it ended; or fenced before it was held
  used,      \* the permits that were consumed
  busy,      \* the slots in which a participant runs
  continued  \* a later epoch has a journal of its own

vars == <<account, used, busy, continued>>

Ends == {"completed", "failed", "never_started", "stopped"}

Init ==
  /\ account = [x \in Slots \cup Units |-> "absent"]
  /\ used = {} /\ busy = {} /\ continued = FALSE

\* A late message takes no slot from a team that has continued.
Take(x) ==
  /\ account[x] = "absent" /\ (x \in Slots => ~continued)
  /\ account' = [account EXCEPT ![x] = "held"]
  /\ UNCHANGED <<used, busy, continued>>

\* What was never held is kept from being taken, and was not used.
Bar(x) ==
  /\ account[x] = "absent" /\ x \notin used
  /\ account' = [account EXCEPT ![x] = "fenced"]
  /\ UNCHANGED <<used, busy, continued>>

\* A permit is consumed once, while the server still holds what it is for.
Use(x) ==
  /\ account[x] = "held" /\ x \notin used
  /\ used' = used \cup {x} /\ busy' = busy \cup ({x} \cap Slots)
  /\ UNCHANGED <<account, continued>>

\* Participants end, or their apps do.
Leave == busy' \in SUBSET busy /\ UNCHANGED <<account, used, continued>>

\* Given back once, when nothing runs in it, and as what it was.
GiveBack(x, end) ==
  /\ account[x] = "held" /\ x \notin busy
  /\ end \in {"completed", "stopped"} => x \in used
  /\ end = "never_started" => x \notin used
  /\ account' = [account EXCEPT ![x] = end]
  /\ UNCHANGED <<used, busy, continued>>

Continue ==
  /\ busy = {} /\ \A s \in Slots : account[s] # "held"
  /\ continued' = TRUE
  /\ UNCHANGED <<account, used, busy>>

Next ==
  \/ \E x \in Slots \cup Units : Take(x) \/ Bar(x) \/ Use(x) \/ \E end \in Ends : GiveBack(x, end)
  \/ Leave \/ Continue

Spec == Init /\ [][Next]_vars
=============================================================================
