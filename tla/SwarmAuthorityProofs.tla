------------------------ MODULE SwarmAuthorityProofs ------------------------
(***************************************************************************)
(* What holds of the owners of a run and of the commands sent to it, for   *)
(* any number of apps, commands, takeovers and ticks: a command is applied *)
(* and launched at most once and on the run its author saw, an epoch has   *)
(* one app, and the run keeps to its lifecycle.                            *)
(***************************************************************************)
EXTENDS SwarmAuthority, TLAPS

LEMMA Numbers ==
  /\ LeaseTime \in Nat /\ LeaseTime > 0 /\ MaxTime \in Nat /\ MaxEpoch \in Nat /\ MaxEpoch > 0
  /\ MaxRevision \in Nat /\ MaxObjects \in Nat /\ Original \in Apps
  BY AppsAssumption, LeaseAssumption, BoundAssumption

-----------------------------------------------------------------------------
(* The invariant *)

\* Every takeover was of the epoch then current, so there is one per epoch, and
\* an app believes in an epoch only if it created the run or has such a grant.
Granting ==
  /\ \A g \in grants : g.expected < row.epoch
  /\ \A g, h \in grants : g.expected = h.expected => g = h
  /\ \A p \in Apps : app[p].epoch # 0 =>
       \/ app[p].epoch = 1 /\ p = Original
       \/ \E g \in grants : g.sup[1] = p /\ g.expected + 1 = app[p].epoch

\* A command whose revision is still current was composed on the run as it is.
Composed == \A k \in Keys : msg[k] # NoMsg =>
  msg[k].rev <= row.revision /\ (msg[k].rev = row.revision => view[k] = changes)

\* The commit of a command outdates its own revision.
Counted == \A k \in Keys :
  /\ applied[k] <= 1 /\ launched[k] <= applied[k]
  /\ applied[k] = 1 => msg[k].rev < row.revision

\* A dispatch that is owed is owed by one app, for a commit that launched nothing.
Owed == /\ \A d \in todo : applied[d[2]] = 1 /\ launched[d[2]] = 0
        /\ \A c, d \in todo : c[2] = d[2] => c = d

StopRecorded == row.state = "stopping" => row.stop

IInv == TypeOK /\ Granting /\ Composed /\ Counted /\ Owed /\ StopRecorded

-----------------------------------------------------------------------------
(* Shapes of rows *)

RowType == [state : States, stop : BOOLEAN, epoch : 1..MaxEpoch, owner : Sups,
            until : 0..(MaxTime + LeaseTime), revision : 0..MaxRevision]
AppType == [object : 0..MaxObjects, expected : 0..MaxEpoch, epoch : 0..MaxEpoch, runner : BOOLEAN]

\* Nobody but the checkpoint of a pausing or stopping run moves its state.
LEMMA CheckpointedState ==
  ASSUME NEW s \in States, NEW quiet \in BOOLEAN
  PROVE  /\ Checkpointed(s, quiet) \in States
         /\ \/ Checkpointed(s, quiet) = s
            \/ s = "pausing" /\ Checkpointed(s, quiet) = "paused"
            \/ s = "stopping" /\ Checkpointed(s, quiet) = "cancelled"
  BY DEF Checkpointed, States, Terminal

\* What a command moves the run to, before and after its checkpoint
LEMMA AskedState ==
  ASSUME TypeOK, NEW kind \in AllKinds, NEW quiet \in BOOLEAN, Allowed(kind)
  PROVE  /\ Asked(kind) \in States
         /\ CASE kind = "launch"   -> row.state = "running" /\ Asked(kind) = "running"
              [] kind = "pause"    -> row.state = "running" /\ Asked(kind) = "pausing"
              [] kind = "complete" -> row.state = "running" /\ Asked(kind) = "completed"
              [] kind = "resume"   -> row.state = "paused" /\ Asked(kind) = "running"
              [] kind = "recover"  -> row.state = "recovery_required"
                                      /\ Asked(kind) = IF row.stop THEN "cancelled" ELSE "running"
              [] kind = "stop"     -> row.state \notin Terminal
                                      /\ Asked(kind) = IF row.state = "recovery_required" THEN row.state ELSE "stopping"
              [] kind = "edit"     -> row.state \notin Terminal /\ Asked(kind) = row.state
  BY DEF Asked, Allowed, TypeOK, States, Terminal, AllKinds

\* The three ways to write the row
LEMMA RowCommitted ==
  ASSUME NEW r \in RowType, NEW s \in States, NEW b \in BOOLEAN, NEW v \in 0..MaxRevision
  PROVE  /\ [r EXCEPT !.state = s, !.stop = b, !.revision = v] \in RowType
         /\ [r EXCEPT !.state = s, !.revision = v] \in RowType
  BY DEF RowType

LEMMA RowRenewed ==
  ASSUME NEW r \in RowType, NEW s \in States, NEW u \in 0..(MaxTime + LeaseTime), NEW v \in 0..MaxRevision
  PROVE  [r EXCEPT !.until = u, !.state = s, !.revision = v] \in RowType
  BY DEF RowType

LEMMA RowTaken ==
  ASSUME NEW r \in RowType, NEW o \in Sups, NEW e \in 1..MaxEpoch,
         NEW u \in 0..(MaxTime + LeaseTime), NEW v \in 0..MaxRevision
  PROVE  [r EXCEPT !.state = "recovery_required", !.epoch = e, !.owner = o, !.until = u, !.revision = v]
           \in RowType
  BY DEF RowType, States

\* An answer that is seen, and one that is not, of a takeover
LEMMA CapturedType ==
  ASSUME TypeOK, NEW p \in Apps, Captured(p).object <= MaxObjects
  PROVE  /\ Captured(p) \in AppType /\ Captured(p).epoch = 0
         /\ Captured(p).expected \in 1..MaxEpoch
         /\ <<p, Captured(p).object>> \in Sups
<1>1. app[p] \in AppType /\ row.epoch \in 1..MaxEpoch
  BY DEF TypeOK, AppType
<1>2. CASE app[p].epoch = 0 /\ app[p].expected # 0
  BY <1>1, <1>2, Numbers DEF Captured, AppType, Sups
<1>3. CASE ~(app[p].epoch = 0 /\ app[p].expected # 0)
  <2> DEFINE n == app[p].object + 1
  <2>1. Captured(p) = [object |-> n, expected |-> row.epoch, epoch |-> 0, runner |-> FALSE]
    BY <1>3 DEF Captured
  <2>2. n \in 0..MaxObjects
    BY <1>1, <2>1, Numbers DEF AppType
  <2> HIDE DEF n
  <2>3. QED
    BY <1>1, <2>1, <2>2, Numbers DEF AppType, Sups
<1>4. QED
  BY <1>2, <1>3

-----------------------------------------------------------------------------
(* The parts of the invariant *)

\* A step that leaves the revision alone changes nothing a decision rests on.
LEMMA ComposedKept ==
  ASSUME IInv, UNCHANGED <<msg, view>>,
         \/ row'.revision = row.revision /\ changes' = changes
         \/ row'.revision = row.revision + 1
  PROVE  Composed'
<1> SUFFICES ASSUME NEW k \in Keys, msg[k] # NoMsg
             PROVE  msg[k].rev <= row'.revision /\ (msg[k].rev = row'.revision => view[k] = changes')
  BY DEF Composed
<1>1. row.revision \in Nat /\ msg[k].rev \in Nat
  BY DEF IInv, TypeOK
<1>2. msg[k].rev <= row.revision /\ (msg[k].rev = row.revision => view[k] = changes)
  BY DEF IInv, Composed
<1>3. QED
  BY <1>1, <1>2

\* Beliefs only vanish where no takeover commits.
LEMMA GrantingKept ==
  ASSUME IInv, grants' = grants, row'.epoch = row.epoch,
         \A p \in Apps : app'[p].epoch \in {0, app[p].epoch}
  PROVE  Granting'
  BY DEF IInv, Granting

LEMMA CountedKept ==
  ASSUME IInv, UNCHANGED <<msg, applied, launched>>, row'.revision >= row.revision, row'.revision \in Nat
  PROVE  Counted'
<1> SUFFICES ASSUME NEW k \in Keys, applied[k] = 1 PROVE msg[k].rev < row'.revision
  BY DEF IInv, Counted
<1>1. row.revision \in Nat /\ msg[k].rev \in Nat /\ msg[k].rev < row.revision
  BY DEF IInv, Counted, TypeOK
<1>2. QED
  BY <1>1

LEMMA OwedKept ==
  ASSUME IInv, UNCHANGED <<applied, launched>>, todo' \subseteq todo
  PROVE  Owed'
  BY DEF IInv, Owed

-----------------------------------------------------------------------------
(* The invariant holds *)

LEMMA InitIInv == Init => IInv
<1> SUFFICES ASSUME Init PROVE IInv
  OBVIOUS
<1>1. row \in RowType /\ row.epoch = 1 /\ row.revision = 0 /\ row.state = "running"
  BY Numbers DEF Init, RowType, States, Sups
<1>2. app \in [Apps -> AppType]
  BY Numbers DEF Init, AppType
<1>3. msg \in [Keys -> [kind : AllKinds, rev : 0..(MaxRevision + 1)]]
  BY Numbers DEF Init, NoMsg, AllKinds
<1>4. TypeOK
  BY <1>1, <1>2, <1>3, Numbers DEF Init, TypeOK, RowType, AppType
<1>5. Granting
  BY DEF Init, Granting
<1>6. Composed /\ Counted /\ Owed /\ StopRecorded
  BY DEF Init, Composed, Counted, Owed, StopRecorded
<1>7. QED
  BY <1>4, <1>5, <1>6 DEF IInv

LEMMA ComposeStep ==
  ASSUME IInv, NEW k \in Keys, NEW kind \in Kinds, Compose(k, kind)
  PROVE  IInv'
<1> DEFINE m == [kind |-> kind, rev |-> row.revision]
<1>1. /\ UNCHANGED <<clock, row, journal, grants, app, todo, applied, launched, changes>>
      /\ msg' = [msg EXCEPT ![k] = m] /\ view' = [view EXCEPT ![k] = changes] /\ msg[k] = NoMsg
  BY DEF Compose, table
<1>2. m \in [kind : AllKinds, rev : 0..(MaxRevision + 1)] /\ m.rev = row.revision
  BY AppsAssumption, Numbers DEF IInv, TypeOK
<1> HIDE DEF m
<1>3. TypeOK'
  BY <1>1, <1>2 DEF IInv, TypeOK
<1>4. Composed'
  BY <1>1, <1>2 DEF IInv, TypeOK, Composed
\* What has been applied had been composed: its revision is past.
<1>5. applied[k] # 1
  <2>1. row.revision \in Nat /\ row.revision <= MaxRevision /\ NoMsg.rev = MaxRevision + 1
    BY Numbers DEF IInv, TypeOK, NoMsg
  <2>2. QED
    BY <1>1, <2>1, Numbers DEF IInv, Counted
<1>6. Counted'
  BY <1>1, <1>5 DEF IInv, TypeOK, Counted
<1>7. Granting' /\ Owed' /\ StopRecorded'
  BY <1>1 DEF IInv, Granting, Owed, StopRecorded
<1>8. QED
  BY <1>3, <1>4, <1>6, <1>7 DEF IInv

\* A delivery is a replay that changes nothing, or the first commit of its command.
Commits(k, p, quiet) ==
  /\ msg[k] # NoMsg /\ row.revision = msg[k].rev /\ Allowed(msg[k].kind) /\ row.revision < MaxRevision
  /\ row' = [row EXCEPT !.state = Checkpointed(Asked(msg[k].kind), quiet),
                        !.stop = row.stop \/ msg[k].kind = "stop", !.revision = row.revision + 1]
  /\ journal' = journal \cup {<<Sup(p), k>>}
  /\ applied' = [applied EXCEPT ![k] = applied[k] + 1]
  /\ changes' = changes + 1
  /\ app' = app \/ app' = [app EXCEPT ![p].runner = TRUE]
  /\ todo' = todo \/ todo' = todo \cup {<<p, k>>}

LEMMA DeliverShape ==
  ASSUME NEW k \in Keys, NEW p \in Apps, NEW quiet \in BOOLEAN, NEW ack \in BOOLEAN, Deliver(k, p, quiet, ack)
  PROVE  /\ row.until > clock /\ UNCHANGED <<clock, grants, msg, launched, view>>
         /\ UNCHANGED <<row, journal, applied, changes, app, todo>> \/ Commits(k, p, quiet)
<1>1. CASE <<Sup(p), k>> \notin journal
  BY <1>1 DEF Deliver, Commits, Authority, Matches
<1>2. CASE <<Sup(p), k>> \in journal
  BY <1>2 DEF Deliver, Dispatches, Authority
<1>3. QED
  BY <1>1, <1>2

LEMMA SupType == TypeOK => \A p \in Apps : Sup(p) \in Sups
  BY DEF TypeOK, Sup, Sups

LEMMA DeliverStep ==
  ASSUME IInv, NEW k \in Keys, NEW p \in Apps, NEW quiet \in BOOLEAN, NEW ack \in BOOLEAN,
         Deliver(k, p, quiet, ack)
  PROVE  IInv'
<1>0. UNCHANGED <<clock, grants, msg, launched, view>>
  BY DeliverShape
<1>1. CASE UNCHANGED <<row, journal, applied, changes, app, todo>>
  BY <1>0, <1>1 DEF IInv, TypeOK, Granting, Composed, Counted, Owed, StopRecorded, Sup
<1>2. CASE Commits(k, p, quiet)
  <2> DEFINE s == Checkpointed(Asked(msg[k].kind), quiet)
             b == row.stop \/ msg[k].kind = "stop"
             v == row.revision + 1
             n == applied[k] + 1
  <2>1. /\ row' = [row EXCEPT !.state = s, !.stop = b, !.revision = v] /\ applied' = [applied EXCEPT ![k] = n]
        /\ changes' = changes + 1 /\ journal' = journal \cup {<<Sup(p), k>>}
        /\ app' = app \/ app' = [app EXCEPT ![p].runner = TRUE]
        /\ todo' = todo \/ todo' = todo \cup {<<p, k>>}
    BY <1>2 DEF Commits
  <2>2. msg[k].kind \in AllKinds /\ row \in RowType /\ b \in BOOLEAN
    BY DEF IInv, TypeOK, RowType
  <2>3. Asked(msg[k].kind) \in States /\ (Asked(msg[k].kind) = "stopping" => b)
    BY <1>2, <2>2, AskedState DEF Commits, IInv, StopRecorded, AllKinds
  <2>4. s \in States /\ (s = "stopping" => b)
    BY <2>3, CheckpointedState
  <2>5. v \in 0..MaxRevision /\ v = row.revision + 1 /\ row.revision \in Nat
    BY <1>2, Numbers DEF Commits, IInv, TypeOK
  \* A command that was applied before has a revision that is past.
  <2>6. applied[k] = 0 /\ n = 1 /\ launched[k] = 0 /\ \A d \in todo : d[2] # k
    <3>1. applied[k] \in Nat /\ launched[k] \in Nat /\ applied[k] <= 1 /\ launched[k] <= applied[k]
      BY DEF IInv, TypeOK, Counted
    <3>2. applied[k] # 1
      BY <1>2, <2>5 DEF Commits, IInv, Counted
    <3>3. \A d \in todo : applied[d[2]] = 1
      BY DEF IInv, Owed
    <3>4. QED
      BY <3>1, <3>2, <3>3
  <2> HIDE DEF s, b, v, n
  <2>7. row' \in RowType /\ row'.revision = v /\ row'.epoch = row.epoch /\ row'.state = s /\ row'.stop = b
    <3>1. row' \in RowType
      BY <2>1, <2>2, <2>4, <2>5, RowCommitted
    <3>2. QED
      BY <2>1, <2>2, <3>1 DEF RowType
  <2>8. app' \in [Apps -> AppType] /\ \A q \in Apps : app'[q].epoch = app[q].epoch
    <3> DEFINE r == [app[p] EXCEPT !.runner = TRUE]
    <3>1. app \in [Apps -> AppType]
      BY DEF IInv, TypeOK, AppType
    <3>2. r \in AppType /\ r.epoch = app[p].epoch
      BY <3>1 DEF AppType
    <3>3. app' = app \/ app' = [app EXCEPT ![p] = r]
      BY <2>1, <3>1
    <3> HIDE DEF r
    <3>4. QED
      BY <3>1, <3>2, <3>3
  <2>9. /\ applied' \in [Keys -> Nat] /\ applied'[k] = 1 /\ \A j \in Keys \ {k} : applied'[j] = applied[j]
        /\ changes' \in Nat /\ todo' \subseteq Apps \X Keys /\ journal' \subseteq Sups \X Keys
    BY <2>1, <2>6, SupType DEF IInv, TypeOK
  <2>10. TypeOK'
    BY <1>0, <2>7, <2>8, <2>9 DEF IInv, TypeOK, RowType, AppType
  <2>11. Granting'
    BY <1>0, <2>7, <2>8, GrantingKept
  <2>12. Composed'
    BY <1>0, <2>5, <2>7, ComposedKept
  <2>13. Counted'
    <3> SUFFICES ASSUME NEW j \in Keys
                 PROVE  /\ applied'[j] <= 1 /\ launched[j] <= applied'[j]
                        /\ applied'[j] = 1 => msg[j].rev < row'.revision
      BY <1>0 DEF Counted
    <3>1. CASE j = k
      BY <1>2, <2>5, <2>6, <2>7, <2>9, <3>1 DEF Commits
    <3>2. CASE j # k
      <4>1. applied'[j] = applied[j] /\ msg[j].rev \in Nat
        BY <2>9, <3>2 DEF IInv, TypeOK
      <4>2. QED
        BY <2>5, <2>7, <4>1 DEF IInv, Counted
    <3>3. QED
      BY <3>1, <3>2
  <2>14. Owed'
    <3>1. \A d \in todo : d \in Apps \X Keys
      BY DEF IInv, TypeOK
    <3>2. \A d \in todo' : d \in todo \/ d = <<p, k>>
      BY <2>1
    <3>3. \A d \in todo' : applied'[d[2]] = 1 /\ launched[d[2]] = 0
      BY <2>6, <2>9, <3>1, <3>2 DEF IInv, Owed
    <3>4. \A c, d \in todo' : c[2] = d[2] => c = d
      BY <2>6, <3>2 DEF IInv, Owed
    <3>5. QED
      BY <1>0, <3>3, <3>4 DEF Owed
  <2>15. StopRecorded'
    BY <2>4, <2>7 DEF StopRecorded
  <2>16. QED
    BY <2>10, <2>11, <2>12, <2>13, <2>14, <2>15 DEF IInv
<1>3. QED
  BY <1>1, <1>2, DeliverShape

LEMMA LaunchStep ==
  ASSUME IInv, NEW p \in Apps, NEW k \in Keys, Launch(p, k)
  PROVE  IInv'
<1>1. /\ <<p, k>> \in todo /\ todo' = todo \ {<<p, k>>}
      /\ launched' = launched \/ launched' = [launched EXCEPT ![k] = @ + 1]
      /\ UNCHANGED <<clock, row, journal, grants, app, msg, applied, changes, view>>
  BY DEF Launch, table
<1>2. applied[k] = 1 /\ launched[k] = 0 /\ \A d \in todo' : d[2] # k
  BY <1>1 DEF IInv, Owed
<1>3. launched' \in [Keys -> Nat] /\ launched'[k] \in {0, 1} /\ \A j \in Keys \ {k} : launched'[j] = launched[j]
  BY <1>1, <1>2 DEF IInv, TypeOK
<1>4. TypeOK'
  BY <1>1, <1>3 DEF IInv, TypeOK
<1>5. Counted'
  BY <1>1, <1>2, <1>3 DEF IInv, Counted
<1>6. Owed'
  <2>1. \A d \in todo : d[2] \in Keys
    BY DEF IInv, TypeOK
  <2>2. QED
    BY <1>1, <1>2, <1>3, <2>1 DEF IInv, Owed
<1>7. Granting' /\ Composed' /\ StopRecorded'
  BY <1>1 DEF IInv, Granting, Composed, StopRecorded
<1>8. QED
  BY <1>4, <1>5, <1>6, <1>7 DEF IInv

\* The owner's own transactions: they move the run only as the checkpoint does,
\* and then count as a change.
Maintains(p, quiet) ==
  /\ row.until > clock
  /\ \E u \in 0..(MaxTime + LeaseTime), v \in 0..MaxRevision :
       /\ row' = [row EXCEPT !.until = u, !.state = Checkpointed(row.state, quiet), !.revision = v]
       /\ u > clock
       /\ \/ v = row.revision /\ changes' = changes /\ Checkpointed(row.state, quiet) = row.state
          \/ v = row.revision + 1 /\ changes' = changes + 1
  /\ UNCHANGED <<clock, journal, grants, app, msg, todo, applied, launched, view>>

LEMMA MaintainsShape ==
  ASSUME IInv, NEW p \in Apps, NEW quiet \in BOOLEAN, Work(p, quiet) \/ Renew(p, quiet)
  PROVE  Maintains(p, quiet)
<1> DEFINE s == Checkpointed(row.state, quiet)  v == row.revision + 1  u == clock + LeaseTime
<1>0. /\ row \in RowType /\ row.revision \in 0..MaxRevision /\ row.until \in 0..(MaxTime + LeaseTime)
      /\ row.until \in Nat /\ clock \in 0..MaxTime
  BY DEF IInv, TypeOK, RowType
<1>1. u \in 0..(MaxTime + LeaseTime) /\ u > clock
  BY <1>0, Numbers
<1>2. row.until > clock /\ UNCHANGED <<clock, journal, grants, app, msg, todo, applied, launched, view>>
  BY DEF Work, Renew, Authority
<1>3. CASE Work(p, quiet)
  <2>1. /\ row' = [row EXCEPT !.state = s, !.revision = v] /\ row.revision < MaxRevision
        /\ changes' = changes + 1
    BY <1>3 DEF Work
  <2>2. v \in 0..MaxRevision /\ v = row.revision + 1
    BY <1>0, <2>1, Numbers
  <2> HIDE DEF s, v
  <2>3. row' = [row EXCEPT !.until = row.until, !.state = s, !.revision = v]
    BY <1>0, <2>1 DEF RowType
  <2>4. QED
    BY <1>0, <1>2, <2>1, <2>2, <2>3 DEF Maintains, s
<1>4. CASE Renew(p, quiet)
  <2>1. CASE row.state # s
    <3>1. row.revision < MaxRevision /\ row' = [row EXCEPT !.until = u, !.state = s, !.revision = v] /\ changes' = changes + 1
      BY <1>4, <2>1 DEF Renew, Revises
    <3>2. v \in 0..MaxRevision /\ v = row.revision + 1
      BY <1>0, <3>1, Numbers
    <3> HIDE DEF u, v
    <3>3. QED
      BY <1>1, <1>2, <3>1, <3>2 DEF Maintains
  <2>2. CASE row.state = s
    <3>1. row' = [row EXCEPT !.until = u, !.state = s, !.revision = row.revision] /\ changes' = changes
      BY <1>4, <2>2 DEF Renew, Revises
    <3> HIDE DEF u
    <3>2. QED
      BY <1>0, <1>1, <1>2, <2>2, <3>1 DEF Maintains
  <2>3. QED
    BY <2>1, <2>2
<1>5. QED
  BY <1>3, <1>4

LEMMA MaintainsStep ==
  ASSUME IInv, NEW p \in Apps, NEW quiet \in BOOLEAN, Maintains(p, quiet)
  PROVE  IInv'
<1> DEFINE s == Checkpointed(row.state, quiet)
<1>1. PICK u \in 0..(MaxTime + LeaseTime), v \in 0..MaxRevision :
         /\ row' = [row EXCEPT !.until = u, !.state = s, !.revision = v] /\ u > clock
         /\ \/ v = row.revision /\ changes' = changes
            \/ v = row.revision + 1 /\ changes' = changes + 1
  BY DEF Maintains
<1>2. UNCHANGED <<clock, journal, grants, app, msg, todo, applied, launched, view>>
  BY DEF Maintains
<1>3. row \in RowType /\ row.state \in States /\ row.revision \in Nat
  BY DEF IInv, TypeOK, RowType
<1>4. s \in States /\ (s = "stopping" => row.state = "stopping")
  BY <1>3, CheckpointedState
<1> HIDE DEF s
<1>5. row' \in RowType /\ row'.epoch = row.epoch /\ row'.revision = v /\ row'.state = s /\ row'.stop = row.stop
  <2>1. row' \in RowType
    BY <1>1, <1>3, <1>4, RowRenewed
  <2>2. row' = [row EXCEPT !.until = u, !.state = s, !.revision = v] /\ row \in RowType
    BY <1>1, <1>3
  <2>3. QED
    BY <2>1, <2>2 DEF RowType
<1>6. TypeOK'
  BY <1>1, <1>2, <1>5 DEF IInv, TypeOK, RowType
<1>7. Granting'
  BY <1>2, <1>5, GrantingKept
<1>8. Composed' /\ Counted'
  BY <1>1, <1>2, <1>3, <1>5, ComposedKept, CountedKept
<1>9. Owed'
  BY <1>2, OwedKept
<1>10. StopRecorded'
  BY <1>4, <1>5 DEF IInv, StopRecorded
<1>11. QED
  BY <1>6, <1>7, <1>8, <1>9, <1>10 DEF IInv

\* A takeover that commits, one that is learned of or refused, and what its app
\* then remembers
Grant(p) == [sup |-> <<p, Captured(p).object>>, expected |-> Captured(p).expected]

Acquires(p) ==
  /\ Captured(p).expected = row.epoch /\ row.until <= clock /\ row.state \notin Terminal
  /\ row.epoch < MaxEpoch /\ row.revision < MaxRevision
  /\ row' = [row EXCEPT !.state = "recovery_required", !.epoch = row.epoch + 1,
                        !.owner = <<p, Captured(p).object>>, !.until = clock + LeaseTime,
                        !.revision = row.revision + 1]
  /\ grants' = grants \cup {Grant(p)}
  /\ changes' = changes + 1

Forgets(p) == app' = [app EXCEPT ![p] = Captured(p)]
Learns(p) == app' = [app EXCEPT ![p] = [Captured(p) EXCEPT !.epoch = Captured(p).expected + 1]]

LEMMA TakeOverShape ==
  ASSUME NEW p \in Apps, NEW ack \in BOOLEAN, TakeOver(p, ack)
  PROVE  /\ Captured(p).object <= MaxObjects
         /\ UNCHANGED <<clock, journal, msg, todo, applied, launched, view>>
         /\ Forgets(p) \/ Learns(p)
         /\ \/ Acquires(p)
            \/ Forgets(p) /\ UNCHANGED <<row, grants, changes>>
            \/ /\ Learns(p) /\ UNCHANGED <<row, grants, changes>>
               /\ Grant(p) \in grants /\ row.epoch = Captured(p).expected + 1
<1> DEFINE owner == Captured(p)
<1>1. CASE Granted(<<p, owner.object>>, owner.expected)
  BY <1>1 DEF TakeOver, table, Granted, Learns, Forgets, Grant
<1>2. CASE ~Granted(<<p, owner.object>>, owner.expected) /\ Acquirable(owner)
  BY <1>2 DEF TakeOver, table, Acquirable, Learns, Forgets, Acquires, Grant
<1>3. CASE ~Granted(<<p, owner.object>>, owner.expected) /\ ~Acquirable(owner)
  BY <1>3 DEF TakeOver, table, Forgets
<1>4. QED
  BY <1>1, <1>2, <1>3

LEMMA TakeOverStep ==
  ASSUME IInv, NEW p \in Apps, NEW ack \in BOOLEAN, TakeOver(p, ack)
  PROVE  IInv'
<1> DEFINE owner == Captured(p)  n == owner.expected + 1  g == Grant(p)
<1>1. /\ UNCHANGED <<clock, journal, msg, todo, applied, launched, view>>
      /\ owner \in AppType /\ owner.epoch = 0 /\ owner.expected \in 1..MaxEpoch
      /\ <<p, owner.object>> \in Sups
  BY TakeOverShape, CapturedType DEF IInv
<1>2. /\ row \in RowType /\ row.epoch \in 1..MaxEpoch /\ row.revision \in 0..MaxRevision
      /\ clock \in 0..MaxTime /\ app \in [Apps -> AppType] /\ changes \in Nat
  BY DEF IInv, TypeOK, RowType, AppType
\* What the app remembers: nothing, or the epoch it has a grant of.
<1>3. ASSUME n \in 0..MaxEpoch, Learns(p)
      PROVE  /\ app' \in [Apps -> AppType] /\ app'[p].epoch = n
             /\ \A q \in Apps \ {p} : app'[q] = app[q]
  <2> DEFINE r == [owner EXCEPT !.epoch = n]
  <2>1. app' = [app EXCEPT ![p] = r]
    BY <1>3 DEF Learns
  <2> HIDE DEF owner, n
  <2>2. r \in AppType /\ r.epoch = n
    BY <1>1, <1>3 DEF AppType
  <2> HIDE DEF r
  <2>3. QED
    BY <1>2, <2>1, <2>2
<1>4. ASSUME Forgets(p)
      PROVE  /\ app' \in [Apps -> AppType] /\ app'[p].epoch = 0
             /\ \A q \in Apps \ {p} : app'[q] = app[q]
  <2>1. app' = [app EXCEPT ![p] = owner]
    BY <1>4 DEF Forgets
  <2> HIDE DEF owner
  <2>2. QED
    BY <1>1, <1>2, <2>1
<1>5. Owed'
  BY <1>1, OwedKept
<1>6. CASE UNCHANGED <<row, grants, changes>> /\ Forgets(p)
  <2>1. TypeOK'
    BY <1>1, <1>4, <1>6 DEF IInv, TypeOK, AppType
  <2>2. Granting'
    BY <1>4, <1>6, GrantingKept
  <2>3. Composed' /\ Counted' /\ StopRecorded'
    BY <1>1, <1>6 DEF IInv, Composed, Counted, StopRecorded
  <2>4. QED
    BY <1>5, <2>1, <2>2, <2>3 DEF IInv
<1>7. CASE UNCHANGED <<row, grants, changes>> /\ Learns(p) /\ g \in grants /\ row.epoch = n
  <2>1. n \in 0..MaxEpoch
    BY <1>2, <1>7
  <2>2. TypeOK'
    BY <1>1, <1>3, <1>7, <2>1 DEF IInv, TypeOK, AppType
  <2>3. g.sup[1] = p /\ g.expected + 1 = n
    BY DEF Grant
  <2>4. Granting'
    BY <1>3, <1>7, <2>1, <2>3 DEF IInv, Granting
  <2>5. Composed' /\ Counted' /\ StopRecorded'
    BY <1>1, <1>7 DEF IInv, Composed, Counted, StopRecorded
  <2>6. QED
    BY <1>5, <2>2, <2>4, <2>5 DEF IInv
<1>8. CASE Acquires(p)
  <2> DEFINE e == row.epoch + 1  u == clock + LeaseTime  v == row.revision + 1  o == <<p, owner.object>>
  <2>1. /\ row' = [row EXCEPT !.state = "recovery_required", !.epoch = e, !.owner = o, !.until = u, !.revision = v]
        /\ grants' = grants \cup {g} /\ changes' = changes + 1
        /\ owner.expected = row.epoch /\ row.epoch < MaxEpoch /\ row.revision < MaxRevision
    BY <1>8 DEF Acquires
  <2>2. /\ e \in 1..MaxEpoch /\ u \in 0..(MaxTime + LeaseTime) /\ v \in 0..MaxRevision
        /\ n = e /\ n \in 0..MaxEpoch /\ e = row.epoch + 1 /\ v = row.revision + 1
        /\ o \in Sups
    BY <1>1, <1>2, <2>1, Numbers
  <2>3. g \in [sup : Sups, expected : 1..MaxEpoch] /\ g.sup[1] = p /\ g.expected = row.epoch
    BY <1>1, <2>1 DEF Grant
  <2>4. /\ app' \in [Apps -> AppType] /\ app'[p].epoch \in {0, e}
        /\ \A q \in Apps \ {p} : app'[q] = app[q]
    BY <1>3, <1>4, <2>2, TakeOverShape
  <2> HIDE DEF owner, n, g, e, u, v, o
  <2>5. row' \in RowType /\ row'.epoch = e /\ row'.revision = v /\ row'.state = "recovery_required"
    <3>1. row' \in RowType
      BY <1>2, <2>1, <2>2, RowTaken
    <3>2. row' = [row EXCEPT !.state = "recovery_required", !.epoch = e, !.owner = o, !.until = u, !.revision = v]
      BY <2>1
    <3>3. QED
      BY <1>2, <3>1, <3>2 DEF RowType
  <2>6. TypeOK'
    BY <1>1, <1>2, <2>1, <2>3, <2>4, <2>5 DEF IInv, TypeOK, RowType, AppType
  <2>7. Granting'
    <3>1. \A h \in grants : h.expected < row.epoch /\ h.expected \in Nat
      BY DEF IInv, Granting, TypeOK
    <3>2. \A h \in grants' : h \in grants \/ h = g
      BY <2>1
    <3>3. \A h \in grants' : h.expected < e
      BY <1>2, <2>2, <2>3, <3>1, <3>2
    <3>4. \A h, i \in grants' : h.expected = i.expected => h = i
      BY <1>2, <2>3, <3>1, <3>2 DEF IInv, Granting
    <3>5. g \in grants' /\ grants \subseteq grants' /\ g.expected + 1 = e
      BY <2>1, <2>2, <2>3
    <3>6. ASSUME NEW q \in Apps, app'[q].epoch # 0
          PROVE  \/ app'[q].epoch = 1 /\ q = Original
                 \/ \E h \in grants' : h.sup[1] = q /\ h.expected + 1 = app'[q].epoch
      BY <2>3, <2>4, <3>5, <3>6 DEF IInv, Granting
    <3>7. QED
      BY <2>5, <3>3, <3>4, <3>6 DEF Granting
  <2>8. Composed' /\ Counted'
    <3>1. row'.revision = row.revision + 1 /\ row'.revision \in Nat /\ row'.revision >= row.revision
      BY <1>2, <2>2, <2>5
    <3>2. QED
      BY <1>1, <3>1, ComposedKept, CountedKept
  <2>9. StopRecorded'
    BY <2>5 DEF StopRecorded
  <2>10. QED
    BY <1>5, <2>6, <2>7, <2>8, <2>9 DEF IInv
<1>9. QED
  BY <1>6, <1>7, <1>8, TakeOverShape

LEMMA RestartStep ==
  ASSUME IInv, NEW p \in Apps, Restart(p)
  PROVE  IInv'
<1> DEFINE r == [app[p] EXCEPT !.expected = 0, !.epoch = 0, !.runner = FALSE]
<1>1. /\ todo' \subseteq todo
      /\ UNCHANGED <<clock, row, journal, grants, msg, applied, launched, changes, view>>
  BY DEF Restart, table, history
<1>2. app \in [Apps -> AppType] /\ app' = [app EXCEPT ![p] = r]
  BY DEF Restart, IInv, TypeOK, AppType
<1>3. r \in AppType /\ r.epoch = 0
  <2>1. app[p] \in AppType /\ 0 \in 0..MaxEpoch
    BY <1>2, Numbers
  <2> DEFINE a == app[p]
  <2>2. a \in AppType
    BY <2>1
  <2> HIDE DEF a
  <2>3. [a EXCEPT !.expected = 0, !.epoch = 0, !.runner = FALSE] \in AppType
    BY <2>1, <2>2 DEF AppType
  <2>4. [a EXCEPT !.expected = 0, !.epoch = 0, !.runner = FALSE].epoch = 0
    BY <2>1, <2>2 DEF AppType
  <2>5. QED
    BY <2>3, <2>4 DEF r, a
<1> HIDE DEF r
<1>4. app' \in [Apps -> AppType] /\ \A q \in Apps : app'[q].epoch \in {0, app[q].epoch}
  BY <1>2, <1>3
<1>5. TypeOK'
  BY <1>1, <1>4 DEF IInv, TypeOK, AppType
<1>6. Granting' /\ Owed'
  BY <1>1, <1>4, GrantingKept, OwedKept
<1>7. Composed' /\ Counted' /\ StopRecorded'
  BY <1>1 DEF IInv, Composed, Counted, StopRecorded
<1>8. QED
  BY <1>5, <1>6, <1>7 DEF IInv

LEMMA TickStep == IInv /\ Tick => IInv'
<1> SUFFICES ASSUME IInv, Tick PROVE IInv'
  OBVIOUS
<1>1. UNCHANGED <<row, journal, grants, app, msg, todo, applied, launched, changes, view>> /\ clock' \in 0..MaxTime
  BY Numbers DEF Tick, table, history, IInv, TypeOK
<1>2. QED
  BY <1>1 DEF IInv, TypeOK, Granting, Composed, Counted, Owed, StopRecorded

LEMMA StepIInv == IInv /\ [Next]_vars => IInv'
<1> SUFFICES ASSUME IInv, [Next]_vars PROVE IInv'
  OBVIOUS
<1>1. CASE UNCHANGED vars
  BY <1>1 DEF vars, table, IInv, TypeOK, Granting, Composed, Counted, Owed, StopRecorded
<1>2. CASE Next
  BY <1>2, ComposeStep, DeliverStep, LaunchStep, MaintainsShape, MaintainsStep, TakeOverStep, RestartStep, TickStep DEF Next
<1>3. QED
  BY <1>1, <1>2

LEMMA Invariance == Spec => []IInv
  BY InitIInv, StepIInv, PTL DEF Spec

-----------------------------------------------------------------------------
(* What the invariant says *)

\* The rows and what the apps remember stay within their types.
THEOREM TypeCorrect == Spec => []TypeOK
<1>1. IInv => TypeOK
  BY DEF IInv
<1>2. QED
  BY <1>1, Invariance, PTL

\* A command is applied at most once, although the receipt of it that its first
\* owner keeps is unknown to a later one (SwarmSupervisor.handle_once).
THEOREM AtMostOnce == Spec => []AppliedOnce
<1>1. IInv => AppliedOnce
  BY DEF IInv, Counted, AppliedOnce
<1>2. QED
  BY <1>1, Invariance, PTL

\* A command starts at most one execution, and none without its commit (the
\* launch after the first acknowledged commit in service.py).
THEOREM LaunchAtMostOnce == Spec => []LaunchedOnce
<1>1. IInv => LaunchedOnce
  BY DEF IInv, TypeOK, Counted, LaunchedOnce
<1>2. QED
  BY <1>1, Invariance, PTL

\* Two apps never believe in the same epoch (SwarmSupervisor.acquire and its
\* replay after a lost answer).
THEOREM EpochOfOneApp == Spec => []OneAppPerEpoch
<1>1. ASSUME IInv, NEW p \in Apps, NEW q \in Apps, app[p].epoch # 0, app[p].epoch = app[q].epoch
      PROVE  p = q
  <2>1. \A g \in grants : g.expected \in Nat /\ g.expected >= 1
    BY <1>1 DEF IInv, TypeOK
  <2>2. CASE app[p].epoch = 1
    <3>1. \A g \in grants : g.expected + 1 # 1
      BY <2>1
    <3>2. p = Original /\ q = Original
      BY <1>1, <2>2, <3>1 DEF IInv, Granting
    <3>3. QED
      BY <3>2
  <2>3. CASE app[p].epoch # 1
    <3>1. PICK g \in grants : g.sup[1] = p /\ g.expected + 1 = app[p].epoch
      BY <1>1, <2>3 DEF IInv, Granting
    <3>2. PICK h \in grants : h.sup[1] = q /\ h.expected + 1 = app[p].epoch
      BY <1>1, <2>3 DEF IInv, Granting
    <3>3. g.expected = h.expected
      BY <2>1, <3>1, <3>2
    <3>4. QED
      BY <1>1, <3>1, <3>2, <3>3 DEF IInv, Granting
  <2>4. QED
    BY <2>2, <2>3
<1>2. IInv => OneAppPerEpoch
  BY <1>1 DEF OneAppPerEpoch
<1>3. QED
  BY <1>2, Invariance, PTL

\* A command changes the run only as its author saw it (the revision check of
\* SwarmSupervisor.handle_once, and the renewals that leave the revision alone).
THEOREM AsSeen == Spec => DecidedOnWhatIsSeen
<1>1. ASSUME IInv, [Next]_vars, NEW k \in Keys, applied'[k] # applied[k]
      PROVE  view[k] = changes
  <2>1. PICK j \in Keys, p \in Apps, quiet \in BOOLEAN, ack \in BOOLEAN : Deliver(j, p, quiet, ack)
    BY <1>1 DEF Next, vars, Compose, Launch, Work, Renew, TakeOver, Restart, Tick, history
  <2>2. Commits(j, p, quiet)
    BY <1>1, <2>1, DeliverShape
  <2>3. j = k
    BY <1>1, <2>2 DEF Commits, IInv, TypeOK
  <2>4. QED
    BY <1>1, <2>2, <2>3 DEF Commits, IInv, Composed
<1>2. IInv /\ [Next]_vars => [\A k \in Keys : applied'[k] # applied[k] => view[k] = changes]_vars
  BY <1>1
<1>3. QED
  BY <1>2, Invariance, PTL DEF Spec, DecidedOnWhatIsSeen

-----------------------------------------------------------------------------
(* The refinement of the lifecycle *)

\* The checkpoint at the end of an owner's transaction is a lifecycle step, or none.
LEMMA CheckpointStep ==
  ASSUME IInv, NEW quiet \in BOOLEAN, row.until > clock, row'.until > clock',
         row'.state = Checkpointed(row.state, quiet), row'.stop = row.stop, row'.epoch = row.epoch
  PROVE  [Lifecycle!Next]_(Lifecycle!vars)
<1>1. \/ row'.state = row.state
      \/ row.state = "pausing" /\ row'.state = "paused"
      \/ row.state = "stopping" /\ row'.state = "cancelled" /\ row.stop
  BY CheckpointedState DEF IInv, TypeOK, StopRecorded
<1>2. QED
  BY <1>1 DEF Lifecycle!Next, Lifecycle!vars, Lifecycle!Drain, Lifecycle!Close, Lifecycle!Control

LEMMA CommitIsStep ==
  ASSUME IInv, NEW k \in Keys, NEW p \in Apps, NEW quiet \in BOOLEAN,
         Commits(k, p, quiet), row.until > clock, clock' = clock
  PROVE  [Lifecycle!Next]_(Lifecycle!vars)
<1> DEFINE kind == msg[k].kind
<1>1. /\ kind \in AllKinds /\ Allowed(kind) /\ row \in RowType
  BY DEF Commits, IInv, TypeOK, RowType
<1>2. /\ row'.state = Checkpointed(Asked(kind), quiet) /\ row'.stop = (row.stop \/ kind = "stop")
      /\ row'.epoch = row.epoch /\ row'.until = row.until
  BY <1>1 DEF Commits, RowType
<1>3. row.stop \in BOOLEAN /\ row.state \in States /\ Asked(kind) \in States
  BY <1>1, AskedState DEF IInv, TypeOK
<1>4. CASE kind \in {"launch", "edit"}
  <2>1. Asked(kind) = row.state /\ row'.stop = row.stop
    BY <1>1, <1>2, <1>3, <1>4, AskedState DEF IInv
  <2>2. QED
    BY <1>2, <2>1, CheckpointStep
<1>5. CASE kind = "pause"
  <2>1. row.state = "running" /\ Asked(kind) = "pausing"
    BY <1>1, <1>5, AskedState DEF IInv
  <2>2. row'.state \in {"pausing", "paused"} /\ row'.stop = row.stop
    BY <1>2, <1>3, <1>5, <2>1 DEF Checkpointed
  <2>3. QED
    BY <1>2, <2>1, <2>2 DEF Lifecycle!Next, Lifecycle!Pause, Lifecycle!Control
<1>6. CASE kind = "complete"
  <2>1. row.state = "running" /\ Asked(kind) = "completed"
    BY <1>1, <1>6, AskedState DEF IInv
  <2>2. row'.state = "completed" /\ row'.stop = row.stop
    BY <1>2, <1>3, <1>6, <2>1 DEF Checkpointed
  <2>3. QED
    BY <1>2, <2>1, <2>2 DEF Lifecycle!Next, Lifecycle!Complete, Lifecycle!Control
<1>7. CASE kind = "resume"
  <2>1. row.state = "paused" /\ Asked(kind) = "running"
    BY <1>1, <1>7, AskedState DEF IInv
  <2>2. row'.state = "running" /\ row'.stop = row.stop
    BY <1>2, <1>3, <1>7, <2>1 DEF Checkpointed
  <2>3. QED
    BY <1>2, <2>1, <2>2 DEF Lifecycle!Next, Lifecycle!Resume, Lifecycle!Control
<1>8. CASE kind = "recover"
  <2>1. row.state = "recovery_required" /\ Asked(kind) = (IF row.stop THEN "cancelled" ELSE "running")
    BY <1>1, <1>8, AskedState DEF IInv
  <2>2. row'.state = (IF row.stop THEN "cancelled" ELSE "running") /\ row'.stop = row.stop
    BY <1>2, <1>3, <1>8, <2>1 DEF Checkpointed
  <2>3. QED
    BY <1>2, <2>1, <2>2 DEF Lifecycle!Next, Lifecycle!Recover, Lifecycle!Control
<1>9. CASE kind = "stop"
  <2>1. row.state \notin Terminal /\ Asked(kind) = IF row.state = "recovery_required" THEN row.state ELSE "stopping"
    BY <1>1, <1>9, AskedState DEF IInv
  <2>2. /\ row'.state \in IF row.state = "recovery_required" THEN {row.state} ELSE {"stopping", "cancelled"}
        /\ row'.stop = TRUE
    BY <1>2, <1>9, <2>1 DEF Checkpointed
  <2>3. QED
    BY <1>2, <2>1, <2>2 DEF Terminal, Lifecycle!Next, Lifecycle!RequestStop, Lifecycle!Ended
<1>10. QED
  BY <1>1, <1>4, <1>5, <1>6, <1>7, <1>8, <1>9 DEF AllKinds

LEMMA LifecycleStep == IInv /\ [Next]_vars => [Lifecycle!Next]_(Lifecycle!vars)
<1> SUFFICES ASSUME IInv, [Next]_vars PROVE [Lifecycle!Next]_(Lifecycle!vars)
  OBVIOUS
<1>0. row \in RowType /\ row.until \in Nat /\ clock \in Nat
  BY DEF IInv, TypeOK, RowType
<1>1. CASE UNCHANGED <<row, clock>>
  BY <1>1 DEF Lifecycle!vars
<1>2. ASSUME NEW k \in Keys, NEW p \in Apps, NEW quiet \in BOOLEAN, NEW ack \in BOOLEAN, Deliver(k, p, quiet, ack)
      PROVE  [Lifecycle!Next]_(Lifecycle!vars)
  BY <1>1, <1>2, DeliverShape, CommitIsStep
<1>3. ASSUME NEW p \in Apps, NEW quiet \in BOOLEAN, Work(p, quiet) \/ Renew(p, quiet)
      PROVE  [Lifecycle!Next]_(Lifecycle!vars)
  <2>1. Maintains(p, quiet)
    BY <1>3, MaintainsShape
  <2>2. PICK u \in 0..(MaxTime + LeaseTime), v \in 0..MaxRevision :
          row' = [row EXCEPT !.until = u, !.state = Checkpointed(row.state, quiet), !.revision = v] /\ u > clock
    BY <2>1 DEF Maintains
  <2>3. /\ row'.until = u /\ row'.state = Checkpointed(row.state, quiet) /\ row'.stop = row.stop
        /\ row'.epoch = row.epoch
    BY <1>0, <2>2 DEF RowType
  <2>4. row.until > clock /\ clock' = clock
    BY <2>1 DEF Maintains
  <2>5. QED
    BY <2>2, <2>3, <2>4, CheckpointStep
<1>4. ASSUME NEW p \in Apps, NEW ack \in BOOLEAN, TakeOver(p, ack)
      PROVE  [Lifecycle!Next]_(Lifecycle!vars)
  <2>1. CASE Acquires(p)
    <3>1. /\ row'.state = "recovery_required" /\ row'.epoch = row.epoch + 1 /\ row'.stop = row.stop
          /\ row'.until = clock + LeaseTime /\ row.until <= clock /\ row.state \notin Terminal
      BY <1>0, <2>1 DEF Acquires, RowType
    <3>2. clock' = clock
      BY <1>4, TakeOverShape
    <3>3. (row'.until > clock') = TRUE /\ ~(row.until > clock)
      BY <1>0, <3>1, <3>2, Numbers
    <3>4. QED
      BY <3>1, <3>3 DEF Terminal, Lifecycle!Next, Lifecycle!vars, Lifecycle!TakeOver, Lifecycle!Ended
  <2>2. QED
    BY <1>1, <1>4, <2>1, TakeOverShape
<1>5. CASE Tick
  <2>1. row' = row /\ clock' = clock + 1
    BY <1>5 DEF Tick, table
  <2>2. (row'.until > clock') = (row.until > clock) \/ (row.until > clock /\ ~(row'.until > clock'))
    BY <1>0, <2>1
  <2>3. CASE (row'.until > clock') = (row.until > clock)
    BY <2>1, <2>3 DEF Lifecycle!vars
  <2>4. CASE row.until > clock /\ ~(row'.until > clock')
    BY <2>1, <2>4 DEF Lifecycle!Next, Lifecycle!vars, Lifecycle!Expire
  <2>5. QED
    BY <2>2, <2>3, <2>4
<1>6. ASSUME UNCHANGED vars \/ (\E k \in Keys, kind \in Kinds : Compose(k, kind))
             \/ (\E k \in Keys, p \in Apps : Launch(p, k)) \/ (\E p \in Apps : Restart(p))
      PROVE  UNCHANGED <<row, clock>>
  BY <1>6 DEF vars, Compose, Launch, Restart, table
<1>7. QED
  BY <1>1, <1>2, <1>3, <1>4, <1>5, <1>6 DEF Next

\* Whatever apps compete for a run, and however its commands are lost, repeated
\* and delayed, its row keeps to the lifecycle (SwarmSupervisor.acquire, handle_once).
THEOREM LifecycleRefinement == Spec => ImplementsLifecycle
<1>1. Init => Lifecycle!Init
  BY Numbers DEF Init, Lifecycle!Init
<1>2. QED
  BY <1>1, Invariance, LifecycleStep, PTL DEF Spec, ImplementsLifecycle, Lifecycle!Spec
=============================================================================
