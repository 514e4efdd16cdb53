------------------------- MODULE MCSwarmIntegration -------------------------
(* Small instances of SwarmIntegration: model values for TLC. *)
EXTENDS SwarmIntegration
CONSTANTS w1, c1, k1, k2, x1, s1, s2, s3, root, own

\* A later start, for the instances with several jobs: the work of every writer is
\* combined in every candidate, on the commit of the checkout, and checked.
Done(state) == [NoRow EXCEPT !.state = state, !.epoch = 1, !.invoked = TRUE, !.proc = "closed"]
VerifiedInit ==
  /\ run = [state |-> "running", stop |-> FALSE, epoch |-> 1, live |-> TRUE]
  /\ hostUp = [e \in Epochs |-> e = 1]
  /\ att = [w \in Writers |-> [state |-> "submitted", base |-> Root]]
  /\ eff = [e \in Effects |-> CASE e.kind = "writer"      -> Done("ready")
                                [] e.kind = "candidate"   -> Done("verified")
                                [] e.kind = "check"       -> Done("passed")
                                [] e.kind = "application" -> NoRow]
  /\ plan = [c \in Candidates |-> [members |-> Writers, base |-> Root, line |-> {Root}]]
  /\ target = [x \in Approvals |-> None]
  /\ job = [s \in Slots |-> NoJob]
  /\ lock = None /\ head = Root
  /\ moves = [x \in Approvals |-> 0]
VerifiedSpec == VerifiedInit /\ [][Next]_vars /\ ThreadFairness /\ OwnerFairness
=============================================================================
