----------------------------- MODULE MCSwarmRun -----------------------------
(* Small instances of SwarmRun: the values of its constants for TLC. *)
EXTENDS SwarmRun

CONSTANTS w1, w2

\* One item, planned once.
OneItem == {[w \in {w1} |-> {}]}

\* Two items, the second upon the first: sent at once, or grown from the first
\* by a second plan, or with a dependency that a later plan adds.  The last
\* plan is cyclic.
TwoItems == {[w \in {w1} |-> {}],
             [w \in {w1, w2} |-> IF w = w2 THEN {w1} ELSE {}],
             [w \in {w1, w2} |-> {}],
             [w \in {w1, w2} |-> IF w = w2 THEN {w1} ELSE {w2}]}
=============================================================================
