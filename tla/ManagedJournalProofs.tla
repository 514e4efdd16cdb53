------------------------ MODULE ManagedJournalProofs ------------------------
(***************************************************************************)
(* Proofs about ManagedJournal: the types of the rows, that the server's   *)
(* accounts agree with the journal and with what runs, that a team         *)
(* continues only with every slot of an earlier epoch given back, and that *)
(* all of it implements ManagedLedger, for any number of participants,     *)
(* requests and epochs.                                                    *)
(***************************************************************************)
EXTENDS ManagedJournal, TLAPS

-----------------------------------------------------------------------------
(* The invariant, of each resource and of each participant *)

\* The server has no slot or unit for it, and no message will make it take one.
Barred(x) == server[x] = "fenced" \/ (server[x] = "absent" /\ wire[x] # "asked")

\* The server knows of it.
Admitted(x) == server[x] \notin {"absent", "fenced"}

\* What was never sent is not known anywhere.
UnsentOK(x) ==
  /\ Unsent(x) => ~row[x].leased
  /\ ~row[x].leased => wire[x] = "none" /\ server[x] = "absent" /\ ~row[x].claimed

\* Whoever got an answer, and what follows from one, was admitted.
AdmittedOK(x) ==
  /\ \/ wire[x] \in {"granted", "replayed"} \/ row[x].claimed
     \/ row[x].phase \in {"reserved", "starting", "permitted", "invoked"}
     => Admitted(x)
  /\ wire[x] = "denied" => ~Admitted(x)

\* A permit is consumed once, by what then counts as running.
ClaimedOK(x) ==
  /\ row[x].claimed => row[x].phase \in {"invoked", "uncertain", "settled"}
  /\ row[x].phase = "invoked" => row[x].claimed
  /\ row[x].outcome = "never_started" => ~row[x].claimed
  /\ row[x].outcome \in {"completed", "stopped"} => row[x].claimed

\* Only what is recorded is reported, and only what was reported is known.
ReportedOK(x) ==
  /\ \A o \in Final : <<x, o>> \in Known(outbox) => row[x].outcome = o
  /\ \A o \in Final : <<x, o>> \in outbox.acked => server[x] = o
  /\ server[x] \in Final => row[x].outcome = server[x]
  /\ row[x].outcome \in Final => <<x, row[x].outcome>> \in Pending \cup outbox.acked \/ Barred(x)
  /\ row[x].phase = "not_admitted" => Barred(x)

\* Only what was not opened yet can be opened.
OpenedOK(x) == at[x] \in {"idle", "reserved"} => row[x] = NoRow

ResourceOK(x) == UnsentOK(x) /\ AdmittedOK(x) /\ ClaimedOK(x) /\ ReportedOK(x) /\ OpenedOK(x)

\* A participant that runs holds its claim, and one that ended asks for nothing.
WorkerOK(w) ==
  /\ w \in running => row[w].claimed /\ row[w].outcome \notin Final
  /\ at[w] = "closed" => w \notin running
  /\ att[w] = "stopped" => ~Hosting \/ row[w].claimed \/ at[w] \in {"closed", "unclosed", "over"}

\* A journal of a later epoch is attached over participants that are all over.
Clean ==
  /\ 1 \in journals
  /\ journals # {1} => \A w \in Workers : att[w] = "stopped" /\ (server[w] \in Final \/ Barred(w))

Inv == /\ TypeOK /\ (\A x \in Resources : ResourceOK(x)) /\ (\A w \in Workers : WorkerOK(w)) /\ Clean

-----------------------------------------------------------------------------
(* Rows and the outbox *)

RowType == [phase : Phases, outcome : Final \cup {"none", "uncertain"}, leased : BOOLEAN, started : BOOLEAN,
            claimed : BOOLEAN]
RowFits(r) == /\ r \in RowType /\ (r.phase = "uncertain" <=> r.outcome = "uncertain")
              /\ r.outcome \in Final <=> r.phase \in {"settled", "not_admitted"}
Boxes == [fresh : SUBSET Keys, tried : SUBSET Keys, before : SUBSET (Keys \X Keys),
          acked : SUBSET Keys, superseded : SUBSET Keys]

LEMMA AddedBox ==
  ASSUME NEW box \in Boxes, NEW keys \in SUBSET Keys
  PROVE  /\ Added(box, keys) \in Boxes /\ Waiting(Added(box, keys)) = Waiting(box) \cup keys
         /\ Added(box, keys).acked = box.acked /\ Added(box, keys).superseded = box.superseded
  BY DEF Added, Boxes, Waiting

LEMMA WithoutBox ==
  ASSUME NEW box \in Boxes, NEW keys
  PROVE  /\ Without(box, keys) \in Boxes /\ Waiting(Without(box, keys)) = Waiting(box) \ keys
         /\ Without(box, keys).acked = box.acked /\ Without(box, keys).superseded = box.superseded
  BY DEF Without, Boxes, Waiting

LEMMA SupersedingBox ==
  ASSUME NEW box \in Boxes, NEW keys \in SUBSET Keys
  PROVE  /\ Superseding(box, keys) \in Boxes /\ Waiting(Superseding(box, keys)) = Waiting(box) \ keys
         /\ Superseding(box, keys).acked = box.acked
         /\ Known(Superseding(box, keys)) = Known(box)
<1> DEFINE less == Without(box, keys)
<1>1. /\ less \in Boxes /\ Waiting(less) = Waiting(box) \ keys /\ less.acked = box.acked
      /\ less.superseded = box.superseded
  BY WithoutBox
<1> HIDE DEF less
<1>2. Superseding(box, keys) = [less EXCEPT !.superseded = @ \cup (keys \cap Waiting(box))]
  BY DEF Superseding, less
<1>3. QED
  BY <1>1, <1>2 DEF Boxes, Waiting, Known

LEMMA EnqueuedBox ==
  ASSUME NEW box \in Boxes, NEW x \in Resources, NEW o \in Final \cup {"uncertain"}
  PROVE  /\ Enqueued(box, x, o) \in Boxes /\ Enqueued(box, x, o).acked = box.acked
         /\ Known(Enqueued(box, x, o)) = Known(box) \cup {<<x, o>>}
         /\ \A k \in Keys : k[2] \in Final =>
              (k \in Waiting(Enqueued(box, x, o)) <=> k \in Waiting(box) \/ (k = <<x, o>> /\ k \notin Known(box)))
<1> DEFINE grown == IF <<x, o>> \in Known(box) THEN box ELSE Added(box, {<<x, o>>})
<1>0. <<x, o>> \in Keys /\ <<x, "uncertain">> \in Keys /\ "uncertain" \notin Final
  BY DEF Keys, Final
<1>1. /\ grown \in Boxes /\ grown.acked = box.acked /\ Known(grown) = Known(box) \cup {<<x, o>>}
      /\ \A k \in Keys : k \in Waiting(grown) <=> k \in Waiting(box) \/ (k = <<x, o>> /\ k \notin Known(box))
  BY <1>0, AddedBox DEF Known
<1> HIDE DEF grown
<1>2. Enqueued(box, x, o) = IF o = "uncertain" THEN grown ELSE Superseding(grown, {<<x, "uncertain">>})
  BY DEF Enqueued, grown
<1>3. QED
  BY <1>0, <1>1, <1>2, SupersedingBox

-----------------------------------------------------------------------------
(* What a step leaves alone *)

\* Only final observations are spoken of.
SameBox(x) == \A o \in Final :
  /\ <<x, o>> \in Known(outbox') <=> <<x, o>> \in Known(outbox)
  /\ <<x, o>> \in outbox'.acked <=> <<x, o>> \in outbox.acked
  /\ <<x, o>> \in Waiting(outbox') <=> <<x, o>> \in Waiting(outbox)
SameResource(x) == /\ row'[x] = row[x] /\ wire'[x] = wire[x] /\ server'[x] = server[x] /\ SameBox(x)
                   /\ at'[x] \in {"idle", "reserved"} => at[x] \in {"idle", "reserved"}
Others(x) == \A y \in Resources \ {x} : SameResource(y)

LEMMA BoxKept == ASSUME outbox' = outbox PROVE \A x \in Resources : SameBox(x)
  BY DEF SameBox

LEMMA ResourceKept ==
  ASSUME NEW x \in Resources, ResourceOK(x), SameResource(x)
  PROVE  ResourceOK(x)'
<1> USE DEF SameResource
<1>1. UnsentOK(x)' /\ AdmittedOK(x)' /\ ClaimedOK(x)' /\ OpenedOK(x)'
  BY DEF ResourceOK, UnsentOK, Unsent, AdmittedOK, Admitted, ClaimedOK, OpenedOK
<1>2. ReportedOK(x)'
  BY DEF ResourceOK, ReportedOK, SameBox, Pending, Barred
<1>3. QED
  BY <1>1, <1>2 DEF ResourceOK

LEMMA OneResource ==
  ASSUME Inv, NEW x \in Resources, Others(x), ResourceOK(x)'
  PROVE  \A y \in Resources : ResourceOK(y)'
  BY ResourceKept DEF Inv, Others

LEMMA RowKnown == ASSUME TypeOK, NEW x \in Resources PROVE row[x] \in RowType /\ RowFits(row[x])
  BY DEF TypeOK, RowFits, RowType

LEMMA TypeRow ==
  ASSUME TypeOK, NEW x \in Resources, NEW r, RowFits(r), row' = [row EXCEPT ![x] = r]
  PROVE  /\ row' \in [Resources -> RowType] /\ \A y \in Resources : RowFits(row'[y])
         /\ row'[x] = r /\ \A y \in Resources : y # x => row'[y] = row[y]
<1>1. row \in [Resources -> RowType] /\ \A y \in Resources : RowFits(row[y])
  BY DEF TypeOK, RowFits, RowType
<1>2. r \in RowType
  BY DEF RowFits
<1>3. QED
  BY <1>1, <1>2

LEMMA RowsType ==
  ASSUME row' \in [Resources -> RowType], \A y \in Resources : RowFits(row'[y]), outbox' \in Boxes,
         run' \in [epoch : 1..MaxEpoch, state : {"running", "recovery_required"}],
         att' \in [Workers -> {"open", "stopped"}],
         req' \in [Requests -> [state : {"none", "reserved", "started", "uncertain"} \cup Settled, begun : BOOLEAN]],
         host' \in [1..MaxEpoch -> {"none", "live", "dead"}], journals' \subseteq 1..MaxEpoch,
         at' \in [Resources -> {"idle", "reserved", "opened", "sent", "held", "starting", "ready",
                                "launched", "running", "answered", "failed", "closed", "unclosed", "over"}],
         running' \subseteq Workers,
         wire' \in [Resources -> {"none", "asked", "granted", "replayed", "denied"}],
         server' \in [Resources -> Final \cup {"absent", "fenced", "held", "started"}],
         fence' \in {"no", "done", "refused"}
  PROVE  TypeOK'
  BY DEF TypeOK, RowFits, RowType, Boxes

-----------------------------------------------------------------------------
(* Recording an observation *)

LEMMA SettledType ==
  ASSUME TypeOK, NEW x \in Resources, NEW o \in Final \cup {"uncertain"}
  PROVE  /\ RowFits(SettledRow(x, o)) /\ SettledRow(x, o).outcome = o
         /\ SettledRow(x, o).phase = (IF o = "uncertain" THEN "uncertain" ELSE "settled")
         /\ SettledRow(x, o).leased = row[x].leased /\ SettledRow(x, o).started = row[x].started
         /\ SettledRow(x, o).claimed = row[x].claimed
<1>1. row[x] \in RowType
  BY RowKnown
<1>2. "uncertain" \notin Final /\ "none" \notin Final
  BY DEF Final
<1>3. QED
  BY <1>1, <1>2 DEF SettledRow, RowFits, RowType, Phases

\* What an enqueued observation means to the keys of all resources.
LEMMA EnqueuedKeys ==
  ASSUME TypeOK, NEW x \in Resources, NEW o \in Final \cup {"uncertain"}, outbox' = Enqueued(outbox, x, o)
  PROVE  /\ outbox' \in Boxes /\ outbox'.acked = outbox.acked
         /\ \A y \in Resources : y # x => SameBox(y)
         /\ \A f \in Final : <<x, f>> \in Known(outbox') <=> <<x, f>> \in Known(outbox) \/ f = o
         /\ \A f \in Final : <<x, f>> \in Waiting(outbox') <=>
              <<x, f>> \in Waiting(outbox) \/ (f = o /\ <<x, f>> \notin Known(outbox))
         /\ o = "uncertain" => SameBox(x)
<1>1. outbox \in Boxes
  BY DEF TypeOK, Boxes
<1>2. \A y \in Resources, f \in Final : <<y, f>> \in Keys /\ <<y, f>>[2] = f
  BY DEF Keys
<1>3. "uncertain" \notin Final
  BY DEF Final
<1>4. /\ outbox' \in Boxes /\ outbox'.acked = outbox.acked /\ Known(outbox') = Known(outbox) \cup {<<x, o>>}
      /\ \A k \in Keys : k[2] \in Final =>
           (k \in Waiting(outbox') <=> k \in Waiting(outbox) \/ (k = <<x, o>> /\ k \notin Known(outbox)))
  BY <1>1, EnqueuedBox
<1>5. \A y \in Resources, f \in Final :
        /\ <<y, f>> \in Known(outbox') <=> <<y, f>> \in Known(outbox) \/ (y = x /\ f = o)
        /\ <<y, f>> \in Waiting(outbox') <=>
             <<y, f>> \in Waiting(outbox) \/ (y = x /\ f = o /\ <<y, f>> \notin Known(outbox))
  BY <1>2, <1>4
<1>6. QED
  BY <1>3, <1>4, <1>5 DEF SameBox

LEMMA RecordedOK ==
  ASSUME Inv, NEW x \in Resources, NEW o \in Final \cup {"uncertain"}, Recorded(x, o), server' = server,
         wire'[x] \in {wire[x], "none"}, at'[x] \notin {"idle", "reserved"},
         row[x].outcome \notin Final =>
           (o = "never_started" => ~row[x].claimed) /\ (o \in {"completed", "stopped"} => row[x].claimed)
  PROVE  /\ row' \in [Resources -> RowType] /\ (\A y \in Resources : RowFits(row'[y])) /\ outbox' \in Boxes
         /\ \A y \in Resources : y # x => row'[y] = row[y] /\ SameBox(y)
         /\ row'[x].claimed = row[x].claimed
         /\ row'[x].outcome = IF row[x].outcome \in Final THEN row[x].outcome ELSE o
         /\ ResourceOK(x)'
<1>0. TypeOK /\ ResourceOK(x)
  BY DEF Inv
<1>1. CASE row[x].outcome \in Final
  <2>1. row' = row /\ outbox' = outbox
    BY <1>1 DEF Recorded
  <2>2. /\ row' \in [Resources -> RowType] /\ (\A y \in Resources : RowFits(row'[y])) /\ outbox' \in Boxes
    BY <1>0, <2>1 DEF TypeOK, RowFits, RowType, Boxes
  <2>3. UnsentOK(x)' /\ AdmittedOK(x)' /\ ClaimedOK(x)' /\ OpenedOK(x)'
    BY <1>0, <2>1 DEF ResourceOK, UnsentOK, Unsent, AdmittedOK, Admitted, ClaimedOK, OpenedOK
  <2>4. ReportedOK(x)'
    BY <1>0, <2>1 DEF ResourceOK, ReportedOK, Pending, Barred
  <2>5. QED
    BY <1>1, <2>1, <2>2, <2>3, <2>4, BoxKept DEF ResourceOK
<1>2. CASE row[x].outcome \notin Final
  <2>1. row' = [row EXCEPT ![x] = SettledRow(x, o)] /\ outbox' = IF Unsent(x) THEN outbox ELSE Enqueued(outbox, x, o)
    BY <1>2 DEF Recorded
  <2> DEFINE r == SettledRow(x, o)
  <2>2. /\ RowFits(r) /\ r.outcome = o /\ r.phase = (IF o = "uncertain" THEN "uncertain" ELSE "settled")
        /\ r.leased = row[x].leased /\ r.started = row[x].started /\ r.claimed = row[x].claimed
    BY <1>0, SettledType
  <2> HIDE DEF r
  <2>3. /\ row' \in [Resources -> RowType] /\ (\A y \in Resources : RowFits(row'[y]))
        /\ row'[x] = r /\ \A y \in Resources : y # x => row'[y] = row[y]
    BY <1>0, <2>1, <2>2, TypeRow DEF r
  <2>4. \A f \in Final : <<x, f>> \notin Known(outbox)
    BY <1>0, <1>2 DEF ResourceOK, ReportedOK
  <2>5. /\ outbox' \in Boxes /\ outbox'.acked = outbox.acked /\ \A y \in Resources : y # x => SameBox(y)
        /\ ~Unsent(x) => /\ \A f \in Final : <<x, f>> \in Known(outbox') <=> f = o
                         /\ o \in Final => <<x, o>> \in Waiting(outbox')
        /\ Unsent(x) => outbox' = outbox
    <3>1. CASE Unsent(x)
      BY <1>0, <2>1, <3>1, BoxKept DEF TypeOK, Boxes
    <3>2. CASE ~Unsent(x)
      BY <1>0, <2>1, <2>4, <3>2, EnqueuedKeys
    <3>3. QED
      BY <3>1, <3>2
  <2>6. Unsent(x) => ~row[x].leased /\ wire[x] = "none" /\ server[x] = "absent"
    BY <1>0 DEF ResourceOK, UnsentOK
  <2>7. UnsentOK(x)' /\ AdmittedOK(x)' /\ ClaimedOK(x)' /\ OpenedOK(x)'
    BY <1>0, <1>2, <2>2, <2>3 DEF ResourceOK, UnsentOK, Unsent, AdmittedOK, Admitted, ClaimedOK, OpenedOK, Final
  <2>8. server[x] \notin Final
    BY <1>0, <1>2 DEF ResourceOK, ReportedOK
  <2>9. \A f \in Final : <<x, f>> \notin outbox.acked
    BY <2>4 DEF Known
  <2>10. ReportedOK(x)'
    BY <2>2, <2>3, <2>4, <2>5, <2>6, <2>8, <2>9 DEF ReportedOK, Pending, Barred
  <2>11. QED
    BY <1>2, <2>2, <2>3, <2>5, <2>7, <2>10 DEF ResourceOK
<1>3. QED
  BY <1>1, <1>2

-----------------------------------------------------------------------------
(* Steps of the host *)

Places == {"idle", "reserved", "opened", "sent", "held", "starting", "ready",
           "launched", "running", "answered", "failed", "closed", "unclosed", "over"}
Gates == {"none", "asked", "granted", "replayed", "denied"}
ReqType == [state : {"none", "reserved", "started", "uncertain"} \cup Settled, begun : BOOLEAN]

\* A participant only goes on to its end.
LEMMA WorkerKept ==
  ASSUME NEW w \in Workers, WorkerOK(w), att'[w] = att[w], running' \subseteq running, Hosting' => Hosting,
         row'[w].claimed = row[w].claimed, w \in running /\ row'[w].outcome \in Final => row[w].outcome \in Final,
         at'[w] = at[w] \/ (at'[w] # "closed" /\ (at[w] \in {"closed", "unclosed", "over"} => at'[w] = "over"))
  PROVE  WorkerOK(w)'
  BY DEF WorkerOK

LEMMA CleanKept ==
  ASSUME Clean, journals' = journals,
         \A w \in Workers : /\ att[w] = "stopped" => att'[w] = "stopped"
                            /\ server[w] \in Final => server'[w] = server[w]
                            /\ att[w] = "stopped" /\ Barred(w) => Barred(w)' \/ server'[w] \in Final
  PROVE  Clean'
  BY DEF Clean

LEMMA HostStep ==
  ASSUME Inv, NEW x \in Resources, NEW to \in Places, at' = [at EXCEPT ![x] = to],
         to # "closed" /\ (at[x] \in {"closed", "unclosed", "over"} => to = "over"),
         UNCHANGED <<run, att, host, journals, running, server, fence>>, req' \in [Requests -> ReqType],
         row' \in [Resources -> RowType], \A y \in Resources : RowFits(row'[y]), outbox' \in Boxes,
         \A y \in Resources : y # x => row'[y] = row[y] /\ SameBox(y) /\ wire'[y] = wire[y],
         wire' \in [Resources -> Gates], ResourceOK(x)',
         x \in Workers => row'[x].claimed = row[x].claimed,
         x \in running /\ row'[x].outcome \in Final => row[x].outcome \in Final,
         x \in Workers /\ wire'[x] = "asked" /\ att[x] = "stopped" => wire[x] = "asked"
  PROVE  Inv'
<1>0. TypeOK /\ Clean /\ at \in [Resources -> Places]
  BY DEF Inv, TypeOK, Places
<1>1. at'[x] = to /\ at' \in [Resources -> Places] /\ \A y \in Resources : y # x => at'[y] = at[y]
  BY <1>0
<1>2. TypeOK'
  BY <1>0, <1>1, RowsType DEF TypeOK, Places, Gates, ReqType
<1>3. \A y \in Resources : ResourceOK(y)'
  BY <1>1, OneResource DEF Others, SameResource
<1>4. ASSUME NEW w \in Workers PROVE WorkerOK(w)'
  <2>1. w \in Resources /\ WorkerOK(w)
    BY DEF Resources, Inv
  <2>2. QED
    BY <1>1, <2>1, WorkerKept DEF Hosting
<1>5. Clean'
  <2>1. ASSUME NEW w \in Workers, att[w] = "stopped", Barred(w) PROVE Barred(w)'
    <3>1. w \in Resources
      BY DEF Resources
    <3>2. QED
      BY <2>1, <3>1 DEF Barred
  <2>2. QED
    BY <1>0, <2>1, CleanKept
<1>6. QED
  BY <1>2, <1>3, <1>4, <1>5 DEF Inv

\* Steps that only move the thread.
LEMMA MoveStep ==
  ASSUME Inv, NEW x \in Resources, NEW to \in Places, at' = [at EXCEPT ![x] = to],
         to # "closed" /\ (at[x] \in {"closed", "unclosed", "over"} => to = "over"),
         to \in {"idle", "reserved"} => at[x] \in {"idle", "reserved"},
         UNCHANGED <<run, att, host, journals, running, server, fence, row, outbox, wire>>,
         req' \in [Requests -> ReqType]
  PROVE  Inv'
<1>0. TypeOK /\ ResourceOK(x)
  BY DEF Inv
<1>1. at'[x] = to
  BY <1>0 DEF TypeOK
<1>2. ResourceOK(x)'
  BY <1>0, <1>1, BoxKept, ResourceKept DEF SameResource
<1>3. row' \in [Resources -> RowType] /\ (\A y \in Resources : RowFits(row'[y])) /\ outbox' \in Boxes
      /\ wire' \in [Resources -> Gates]
  BY <1>0 DEF TypeOK, RowFits, RowType, Boxes, Gates
<1>4. QED
  BY <1>2, <1>3, BoxKept, HostStep

\* Steps that move the thread and write its row, its message, or both.
LEMMA RowStep ==
  ASSUME Inv, NEW x \in Resources, NEW to \in Places \ {"idle", "reserved", "closed"}, at' = [at EXCEPT ![x] = to],
         at[x] \notin {"closed", "unclosed", "over"},
         UNCHANGED <<run, att, req, host, journals, running, server, fence, outbox>>,
         row' = [row EXCEPT ![x] = row'[x]], RowFits(row'[x]), wire' = [wire EXCEPT ![x] = wire'[x]], wire'[x] \in Gates,
         UnsentOK(x)', AdmittedOK(x)', ClaimedOK(x)', ReportedOK(x)',
         x \in Workers => row'[x].claimed = row[x].claimed,
         x \in running => row'[x].outcome \notin Final,
         x \in Workers /\ wire'[x] = "asked" /\ att[x] = "stopped" => wire[x] = "asked"
  PROVE  Inv'
<1>0. TypeOK
  BY DEF Inv
<1>1. /\ row' \in [Resources -> RowType] /\ (\A y \in Resources : RowFits(row'[y]))
      /\ \A y \in Resources : y # x => row'[y] = row[y]
  BY <1>0, TypeRow
<1>2. wire' \in [Resources -> Gates] /\ (\A y \in Resources : y # x => wire'[y] = wire[y])
      /\ outbox' \in Boxes /\ at'[x] = to /\ req' \in [Requests -> ReqType]
  BY <1>0 DEF TypeOK, Gates, Boxes, ReqType
<1>3. OpenedOK(x)'
  BY <1>2 DEF OpenedOK
<1>4. ResourceOK(x)'
  BY <1>3 DEF ResourceOK
<1>5. to \in Places /\ to # "closed"
  OBVIOUS
<1>6. QED
  BY <1>1, <1>2, <1>4, <1>5, BoxKept, HostStep

-----------------------------------------------------------------------------
(* The host, action by action *)

LEMMA Facts ==
  ASSUME Inv, NEW x \in Resources
  PROVE  /\ TypeOK /\ ResourceOK(x) /\ row[x] \in RowType /\ RowFits(row[x]) /\ at[x] \in Places
         /\ wire[x] \in Gates /\ wire = [wire EXCEPT ![x] = wire[x]] /\ outbox \in Boxes /\ req \in [Requests -> ReqType]
         /\ "uncertain" \notin Final /\ "none" \notin Final
<1>1. TypeOK /\ ResourceOK(x)
  BY DEF Inv
<1>2. row[x] \in RowType /\ RowFits(row[x])
  BY <1>1, RowKnown
<1>3. QED
  BY <1>1, <1>2 DEF TypeOK, Places, Gates, Boxes, ReqType, Final

LEMMA Moves ==
  ASSUME Inv, NEW r \in Requests,
         \/ ReserveRequest(r) \/ StartRequest(r) \/ \E o \in {"completed", "uncertain"} : EndRequest(r, o)
  PROVE  Inv'
<1>0. r \in Resources /\ req \in [Requests -> ReqType]
  BY Facts DEF Resources
<1>1. CASE ReserveRequest(r)
  <2>1. req' \in [Requests -> ReqType]
    BY <1>0, <1>1 DEF ReserveRequest, ReqType
  <2>2. QED
    BY <1>0, <1>1, <2>1, MoveStep DEF ReserveRequest, Step, Places, native
<1>2. CASE StartRequest(r)
  <2>1. req' \in [Requests -> ReqType]
    BY <1>0, <1>2 DEF StartRequest, ReqType
  <2>2. QED
    BY <1>0, <1>2, <2>1, MoveStep DEF StartRequest, Step, Places, native
<1>3. CASE \E o \in {"completed", "uncertain"} : EndRequest(r, o)
  <2>1. PICK o \in {"completed", "uncertain"} : EndRequest(r, o)
    BY <1>3
  <2> DEFINE to == IF run.epoch = 1 THEN "answered" ELSE "failed"
  <2>2. req' \in [Requests -> ReqType]
    BY <1>0, <2>1 DEF EndRequest, ReqType, Settled
  <2>3. to \in {"answered", "failed"} /\ to \in Places /\ to # "closed" /\ to \notin {"idle", "reserved"}
    BY DEF Places
  <2>4. /\ at[r] = "running" /\ at' = [at EXCEPT ![r] = to]
        /\ UNCHANGED <<run, att, host, journals, row, outbox, running, wire, server, fence>>
    BY <2>1 DEF EndRequest, Step
  <2> HIDE DEF to
  <2>5. QED
    BY <1>0, <2>2, <2>3, <2>4, MoveStep
<1>4. QED
  BY <1>1, <1>2, <1>3

LEMMA RowWritten ==
  ASSUME TypeOK, NEW x \in Resources, NEW r, row' = [row EXCEPT ![x] = r]
  PROVE  row'[x] = r /\ row' = [row EXCEPT ![x] = row'[x]]
<1>1. row'[x] = r
  BY DEF TypeOK
<1>2. QED
  BY <1>1

LEMMA WireWritten ==
  ASSUME TypeOK, NEW x \in Resources, NEW m, wire' = [wire EXCEPT ![x] = m]
  PROVE  wire'[x] = m /\ wire' = [wire EXCEPT ![x] = wire'[x]]
<1>1. wire'[x] = m
  BY DEF TypeOK
<1>2. QED
  BY <1>1

\* A row written at one place of its life.
LEMMA PhaseRow ==
  ASSUME Inv, NEW x \in Resources, NEW p \in {"prepared", "pending", "reserved", "starting", "permitted", "invoked"},
         row[x].outcome = "none"
  PROVE  /\ RowFits([row[x] EXCEPT !.phase = p]) /\ RowFits([row[x] EXCEPT !.phase = p, !.leased = TRUE])
         /\ RowFits([row[x] EXCEPT !.phase = p, !.started = TRUE]) /\ RowFits([row[x] EXCEPT !.phase = p, !.claimed = TRUE])
  BY Facts DEF RowFits, RowType, Phases

\* With an outcome open nothing final is reported or known.
LEMMA OpenReported ==
  ASSUME NEW x \in Resources, ReportedOK(x), row[x].outcome = "none", "none" \notin Final, row'[x].outcome = "none",
         row'[x].phase # "not_admitted", outbox' = outbox, server' = server
  PROVE  ReportedOK(x)'
  BY DEF ReportedOK, Pending

LEMMA Opens ==
  ASSUME Inv, NEW x \in Resources, Step(x, "idle", "opened") \/ Step(x, "reserved", "opened"),
         row' = [row EXCEPT ![x].phase = "prepared"],
         UNCHANGED <<native, host, journals, outbox, running, wire, server, fence>>
  PROVE  Inv'
<1> DEFINE r == [row[x] EXCEPT !.phase = "prepared"]
<1>0. /\ row[x] = NoRow /\ at' = [at EXCEPT ![x] = "opened"] /\ at[x] \in {"idle", "reserved"}
      /\ ResourceOK(x) /\ row[x] \in RowType /\ wire[x] \in Gates /\ wire' = [wire EXCEPT ![x] = wire[x]]
  BY Facts DEF Step, ResourceOK, OpenedOK
<1>1. row[x].outcome = "none" /\ ~row[x].leased /\ ~row[x].claimed /\ row[x].phase = "none" /\ "none" \notin Final
  BY <1>0 DEF NoRow, Final
<1>2. RowFits(r) /\ r.phase = "prepared" /\ r.outcome = "none" /\ ~r.leased /\ ~r.claimed /\ r.claimed = row[x].claimed
  BY <1>0, <1>1, PhaseRow DEF RowType
<1>3. row' = [row EXCEPT ![x] = r] /\ wire'[x] = wire[x]
  OBVIOUS
<1> HIDE DEF r
<1>9. row' = [row EXCEPT ![x] = row'[x]] /\ row'[x] = r /\ wire' = [wire EXCEPT ![x] = wire'[x]]
  BY <1>0, <1>3, RowWritten, Facts
<1>4. UnsentOK(x)' /\ AdmittedOK(x)' /\ ClaimedOK(x)'
  BY <1>0, <1>1, <1>2, <1>3, <1>9 DEF ResourceOK, UnsentOK, Unsent, AdmittedOK, Admitted, ClaimedOK
<1>5. ReportedOK(x)'
  BY <1>0, <1>1, <1>2, <1>9, OpenReported DEF ResourceOK
<1>6. "opened" \in Places \ {"idle", "reserved", "closed"} /\ at[x] \notin {"closed", "unclosed", "over"}
  BY <1>0 DEF Places
<1>7. UNCHANGED <<run, att, req, host, journals, running, server, fence, outbox>>
  BY DEF native
<1>8. QED
  BY <1>0, <1>1, <1>2, <1>3, <1>4, <1>5, <1>6, <1>7, <1>9, RowStep

\* A message goes out once, for a resource that was not asked for yet.
LEMMA Sends ==
  ASSUME Inv, NEW x \in Resources, Step(x, "opened", "sent"), row[x].phase = "prepared", wire' = [wire EXCEPT ![x] = "asked"],
         row' = [row EXCEPT ![x].phase = "pending", ![x].leased = TRUE],
         UNCHANGED <<native, host, journals, outbox, running, server, fence>>
  PROVE  Inv'
<1> DEFINE r == [row[x] EXCEPT !.phase = "pending", !.leased = TRUE]
<1>0. /\ at' = [at EXCEPT ![x] = "sent"] /\ at[x] = "opened" /\ Hosting /\ ResourceOK(x) /\ row[x] \in RowType
      /\ RowFits(row[x]) /\ "none" \notin Final /\ "uncertain" \notin Final /\ TypeOK
  BY Facts DEF Step
<1>1. row[x].outcome = "none" /\ ~row[x].claimed /\ ~row[x].leased
  BY <1>0 DEF ResourceOK, RowFits, RowType, UnsentOK, AdmittedOK, Admitted, ClaimedOK, Unsent
<1>2. RowFits(r) /\ r.phase = "pending" /\ r.outcome = "none" /\ r.leased /\ r.claimed = row[x].claimed
  BY <1>0, <1>1 DEF RowFits, RowType, Phases, Final
<1>3. row' = [row EXCEPT ![x] = r]
  OBVIOUS
<1> HIDE DEF r
<1>4. row' = [row EXCEPT ![x] = row'[x]] /\ row'[x] = r
  BY <1>0, <1>3, RowWritten
<1>5. wire' = [wire EXCEPT ![x] = wire'[x]] /\ wire'[x] = "asked" /\ wire'[x] \in Gates
  BY <1>0, WireWritten, Facts DEF Gates
<1>6. UnsentOK(x)' /\ AdmittedOK(x)' /\ ClaimedOK(x)'
  BY <1>0, <1>1, <1>2, <1>4, <1>5 DEF ResourceOK, UnsentOK, Unsent, AdmittedOK, Admitted, ClaimedOK
<1>7. ReportedOK(x)'
  BY <1>0, <1>1, <1>2, <1>4, <1>5, OpenReported DEF ResourceOK
<1>8. "sent" \in Places \ {"idle", "reserved", "closed"} /\ at[x] \notin {"closed", "unclosed", "over"}
  BY <1>0 DEF Places
<1>9. UNCHANGED <<run, att, req, host, journals, running, server, fence, outbox>>
  BY DEF native
<1>10. /\ x \in Workers /\ wire'[x] = "asked" /\ att[x] = "stopped" => wire[x] = "asked"
       /\ (x \in running => row'[x].outcome \notin Final)
  BY <1>0, <1>1, <1>2, <1>4 DEF Inv, WorkerOK
<1>11. QED
  BY <1>0, <1>2, <1>4, <1>5, <1>6, <1>7, <1>8, <1>9, <1>10, RowStep

\* The answer to a reservation.
LEMMA Holds ==
  ASSUME Inv, NEW x \in Resources, Step(x, "sent", "held"), row[x].phase = "pending", wire[x] = "granted",
         wire' = [wire EXCEPT ![x] = "none"],
         row' = [row EXCEPT ![x].phase = "reserved"],
         UNCHANGED <<native, host, journals, outbox, running, server, fence>>
  PROVE  Inv'
<1> DEFINE r == [row[x] EXCEPT !.phase = "reserved"]
<1>0. /\ at' = [at EXCEPT ![x] = "held"] /\ at[x] = "sent" /\ Hosting /\ ResourceOK(x) /\ row[x] \in RowType
      /\ RowFits(row[x]) /\ "none" \notin Final /\ "uncertain" \notin Final /\ TypeOK
  BY Facts DEF Step
<1>1. row[x].outcome = "none" /\ ~row[x].claimed /\ row[x].leased /\ Admitted(x)
  BY <1>0 DEF ResourceOK, RowFits, RowType, UnsentOK, AdmittedOK, Admitted, ClaimedOK, Unsent
<1>2. RowFits(r) /\ r.phase = "reserved" /\ r.outcome = "none" /\ r.leased /\ r.claimed = row[x].claimed
  BY <1>0, <1>1 DEF RowFits, RowType, Phases, Final
<1>3. row' = [row EXCEPT ![x] = r]
  OBVIOUS
<1> HIDE DEF r
<1>4. row' = [row EXCEPT ![x] = row'[x]] /\ row'[x] = r
  BY <1>0, <1>3, RowWritten
<1>5. wire' = [wire EXCEPT ![x] = wire'[x]] /\ wire'[x] = "none" /\ wire'[x] \in Gates
  BY <1>0, WireWritten, Facts DEF Gates
<1>6. UnsentOK(x)' /\ AdmittedOK(x)' /\ ClaimedOK(x)'
  BY <1>0, <1>1, <1>2, <1>4, <1>5 DEF ResourceOK, UnsentOK, Unsent, AdmittedOK, Admitted, ClaimedOK
<1>7. ReportedOK(x)'
  BY <1>0, <1>1, <1>2, <1>4, <1>5, OpenReported DEF ResourceOK
<1>8. "held" \in Places \ {"idle", "reserved", "closed"} /\ at[x] \notin {"closed", "unclosed", "over"}
  BY <1>0 DEF Places
<1>9. UNCHANGED <<run, att, req, host, journals, running, server, fence, outbox>>
  BY DEF native
<1>10. /\ x \in Workers /\ wire'[x] = "asked" /\ att[x] = "stopped" => wire[x] = "asked"
       /\ (x \in running => row'[x].outcome \notin Final)
  BY <1>1, <1>2, <1>4, <1>5, <1>0
<1>11. QED
  BY <1>0, <1>2, <1>4, <1>5, <1>6, <1>7, <1>8, <1>9, <1>10, RowStep

\* The answer to a slot's admission.
LEMMA Permits ==
  ASSUME Inv, NEW x \in Resources, Step(x, "sent", "ready"), row[x].phase = "pending", wire[x] = "granted",
         wire' = [wire EXCEPT ![x] = "none"],
         row' = [row EXCEPT ![x].phase = "permitted"],
         UNCHANGED <<native, host, journals, outbox, running, server, fence>>
  PROVE  Inv'
<1> DEFINE r == [row[x] EXCEPT !.phase = "permitted"]
<1>0. /\ at' = [at EXCEPT ![x] = "ready"] /\ at[x] = "sent" /\ Hosting /\ ResourceOK(x) /\ row[x] \in RowType
      /\ RowFits(row[x]) /\ "none" \notin Final /\ "uncertain" \notin Final /\ TypeOK
  BY Facts DEF Step
<1>1. row[x].outcome = "none" /\ ~row[x].claimed /\ row[x].leased /\ Admitted(x)
  BY <1>0 DEF ResourceOK, RowFits, RowType, UnsentOK, AdmittedOK, Admitted, ClaimedOK, Unsent
<1>2. RowFits(r) /\ r.phase = "permitted" /\ r.outcome = "none" /\ r.leased /\ r.claimed = row[x].claimed
  BY <1>0, <1>1 DEF RowFits, RowType, Phases, Final
<1>3. row' = [row EXCEPT ![x] = r]
  OBVIOUS
<1> HIDE DEF r
<1>4. row' = [row EXCEPT ![x] = row'[x]] /\ row'[x] = r
  BY <1>0, <1>3, RowWritten
<1>5. wire' = [wire EXCEPT ![x] = wire'[x]] /\ wire'[x] = "none" /\ wire'[x] \in Gates
  BY <1>0, WireWritten, Facts DEF Gates
<1>6. UnsentOK(x)' /\ AdmittedOK(x)' /\ ClaimedOK(x)'
  BY <1>0, <1>1, <1>2, <1>4, <1>5 DEF ResourceOK, UnsentOK, Unsent, AdmittedOK, Admitted, ClaimedOK
<1>7. ReportedOK(x)'
  BY <1>0, <1>1, <1>2, <1>4, <1>5, OpenReported DEF ResourceOK
<1>8. "ready" \in Places \ {"idle", "reserved", "closed"} /\ at[x] \notin {"closed", "unclosed", "over"}
  BY <1>0 DEF Places
<1>9. UNCHANGED <<run, att, req, host, journals, running, server, fence, outbox>>
  BY DEF native
<1>10. /\ x \in Workers /\ wire'[x] = "asked" /\ att[x] = "stopped" => wire[x] = "asked"
       /\ (x \in running => row'[x].outcome \notin Final)
  BY <1>1, <1>2, <1>4, <1>5, <1>0
<1>11. QED
  BY <1>0, <1>2, <1>4, <1>5, <1>6, <1>7, <1>8, <1>9, <1>10, RowStep

\* The answer to a unit's start.
LEMMA PermitsUnit ==
  ASSUME Inv, NEW x \in Resources, Step(x, "starting", "ready"), row[x].phase = "starting", wire[x] = "granted",
         wire' = [wire EXCEPT ![x] = "none"],
         row' = [row EXCEPT ![x].phase = "permitted"],
         UNCHANGED <<native, host, journals, outbox, running, server, fence>>
  PROVE  Inv'
<1> DEFINE r == [row[x] EXCEPT !.phase = "permitted"]
<1>0. /\ at' = [at EXCEPT ![x] = "ready"] /\ at[x] = "starting" /\ Hosting /\ ResourceOK(x) /\ row[x] \in RowType
      /\ RowFits(row[x]) /\ "none" \notin Final /\ "uncertain" \notin Final /\ TypeOK
  BY Facts DEF Step
<1>1. row[x].outcome = "none" /\ ~row[x].claimed /\ row[x].leased /\ Admitted(x)
  BY <1>0 DEF ResourceOK, RowFits, RowType, UnsentOK, AdmittedOK, Admitted, ClaimedOK, Unsent
<1>2. RowFits(r) /\ r.phase = "permitted" /\ r.outcome = "none" /\ r.leased /\ r.claimed = row[x].claimed
  BY <1>0, <1>1 DEF RowFits, RowType, Phases, Final
<1>3. row' = [row EXCEPT ![x] = r]
  OBVIOUS
<1> HIDE DEF r
<1>4. row' = [row EXCEPT ![x] = row'[x]] /\ row'[x] = r
  BY <1>0, <1>3, RowWritten
<1>5. wire' = [wire EXCEPT ![x] = wire'[x]] /\ wire'[x] = "none" /\ wire'[x] \in Gates
  BY <1>0, WireWritten, Facts DEF Gates
<1>6. UnsentOK(x)' /\ AdmittedOK(x)' /\ ClaimedOK(x)'
  BY <1>0, <1>1, <1>2, <1>4, <1>5 DEF ResourceOK, UnsentOK, Unsent, AdmittedOK, Admitted, ClaimedOK
<1>7. ReportedOK(x)'
  BY <1>0, <1>1, <1>2, <1>4, <1>5, OpenReported DEF ResourceOK
<1>8. "ready" \in Places \ {"idle", "reserved", "closed"} /\ at[x] \notin {"closed", "unclosed", "over"}
  BY <1>0 DEF Places
<1>9. UNCHANGED <<run, att, req, host, journals, running, server, fence, outbox>>
  BY DEF native
<1>10. /\ x \in Workers /\ wire'[x] = "asked" /\ att[x] = "stopped" => wire[x] = "asked"
       /\ (x \in running => row'[x].outcome \notin Final)
  BY <1>1, <1>2, <1>4, <1>5, <1>0
<1>11. QED
  BY <1>0, <1>2, <1>4, <1>5, <1>6, <1>7, <1>8, <1>9, <1>10, RowStep

\* A denial proves that there is no unit.
LEMMA Denies ==
  ASSUME Inv, NEW x \in Resources, Step(x, "sent", "over"), row[x].phase = "pending", wire[x] = "denied",
         wire' = [wire EXCEPT ![x] = "none"], x \notin Workers,
         row' = [row EXCEPT ![x].phase = "not_admitted", ![x].outcome = "never_started"],
         UNCHANGED <<native, host, journals, outbox, running, server, fence>>
  PROVE  Inv'
<1> DEFINE r == [row[x] EXCEPT !.phase = "not_admitted", !.outcome = "never_started"]
<1>0. /\ at' = [at EXCEPT ![x] = "over"] /\ at[x] = "sent" /\ Hosting /\ ResourceOK(x) /\ row[x] \in RowType
      /\ RowFits(row[x]) /\ "none" \notin Final /\ "uncertain" \notin Final /\ TypeOK
  BY Facts DEF Step
<1>1. row[x].outcome = "none" /\ ~row[x].claimed /\ row[x].leased /\ ~Admitted(x)
  BY <1>0 DEF ResourceOK, RowFits, RowType, UnsentOK, AdmittedOK, Admitted, ClaimedOK, Unsent
<1>2. RowFits(r) /\ r.phase = "not_admitted" /\ r.outcome = "never_started" /\ r.leased /\ r.claimed = row[x].claimed
  BY <1>0, <1>1 DEF RowFits, RowType, Phases, Final
<1>3. row' = [row EXCEPT ![x] = r]
  OBVIOUS
<1> HIDE DEF r
<1>4. row' = [row EXCEPT ![x] = row'[x]] /\ row'[x] = r
  BY <1>0, <1>3, RowWritten
<1>5. wire' = [wire EXCEPT ![x] = wire'[x]] /\ wire'[x] = "none" /\ wire'[x] \in Gates
  BY <1>0, WireWritten, Facts DEF Gates
<1>6. UnsentOK(x)' /\ AdmittedOK(x)' /\ ClaimedOK(x)'
  BY <1>0, <1>1, <1>2, <1>4, <1>5 DEF ResourceOK, UnsentOK, Unsent, AdmittedOK, Admitted, ClaimedOK
<1>7. ReportedOK(x)'
  BY <1>0, <1>1, <1>2, <1>4, <1>5 DEF ResourceOK, ReportedOK, Pending, Known, Barred, Admitted, Final
<1>8. "over" \in Places \ {"idle", "reserved", "closed"} /\ at[x] \notin {"closed", "unclosed", "over"}
  BY <1>0 DEF Places
<1>9. UNCHANGED <<run, att, req, host, journals, running, server, fence, outbox>>
  BY DEF native
<1>10. /\ x \in Workers /\ wire'[x] = "asked" /\ att[x] = "stopped" => wire[x] = "asked"
       /\ (x \in running => row'[x].outcome \notin Final)
  BY <1>0 DEF TypeOK
<1>11. QED
  BY <1>0, <1>2, <1>4, <1>5, <1>6, <1>7, <1>8, <1>9, <1>10, RowStep

\* A start is recorded before it is sent.
LEMMA Starts ==
  ASSUME Inv, NEW x \in Resources, Step(x, "held", "starting"), row[x].phase = "reserved", wire' = [wire EXCEPT ![x] = "asked"],
         x \notin Workers,
         row' = [row EXCEPT ![x].phase = "starting", ![x].started = TRUE],
         UNCHANGED <<native, host, journals, outbox, running, server, fence>>
  PROVE  Inv'
<1> DEFINE r == [row[x] EXCEPT !.phase = "starting", !.started = TRUE]
<1>0. /\ at' = [at EXCEPT ![x] = "starting"] /\ at[x] = "held" /\ Hosting /\ ResourceOK(x) /\ row[x] \in RowType
      /\ RowFits(row[x]) /\ "none" \notin Final /\ "uncertain" \notin Final /\ TypeOK
  BY Facts DEF Step
<1>1. row[x].outcome = "none" /\ ~row[x].claimed /\ row[x].leased /\ Admitted(x)
  BY <1>0 DEF ResourceOK, RowFits, RowType, UnsentOK, AdmittedOK, Admitted, ClaimedOK, Unsent
<1>2. RowFits(r) /\ r.phase = "starting" /\ r.outcome = "none" /\ r.leased /\ r.claimed = row[x].claimed
  BY <1>0, <1>1 DEF RowFits, RowType, Phases, Final
<1>3. row' = [row EXCEPT ![x] = r]
  OBVIOUS
<1> HIDE DEF r
<1>4. row' = [row EXCEPT ![x] = row'[x]] /\ row'[x] = r
  BY <1>0, <1>3, RowWritten
<1>5. wire' = [wire EXCEPT ![x] = wire'[x]] /\ wire'[x] = "asked" /\ wire'[x] \in Gates
  BY <1>0, WireWritten, Facts DEF Gates
<1>6. UnsentOK(x)' /\ AdmittedOK(x)' /\ ClaimedOK(x)'
  BY <1>0, <1>1, <1>2, <1>4, <1>5 DEF ResourceOK, UnsentOK, Unsent, AdmittedOK, Admitted, ClaimedOK
<1>7. ReportedOK(x)'
  BY <1>0, <1>1, <1>2, <1>4, <1>5, OpenReported DEF ResourceOK
<1>8. "starting" \in Places \ {"idle", "reserved", "closed"} /\ at[x] \notin {"closed", "unclosed", "over"}
  BY <1>0 DEF Places
<1>9. UNCHANGED <<run, att, req, host, journals, running, server, fence, outbox>>
  BY DEF native
<1>10. /\ x \in Workers /\ wire'[x] = "asked" /\ att[x] = "stopped" => wire[x] = "asked"
       /\ (x \in running => row'[x].outcome \notin Final)
  BY <1>1, <1>2, <1>4, <1>5, <1>0
<1>11. QED
  BY <1>0, <1>2, <1>4, <1>5, <1>6, <1>7, <1>8, <1>9, <1>10, RowStep

\* The permit of a unit is consumed.
LEMMA Calls ==
  ASSUME Inv, NEW x \in Resources, Step(x, "launched", "running"), row[x].phase = "permitted", wire' = wire,
         x \notin Workers,
         row' = [row EXCEPT ![x].phase = "invoked", ![x].claimed = TRUE],
         UNCHANGED <<native, host, journals, outbox, running, server, fence>>
  PROVE  Inv'
<1> DEFINE r == [row[x] EXCEPT !.phase = "invoked", !.claimed = TRUE]
<1>0. /\ at' = [at EXCEPT ![x] = "running"] /\ at[x] = "launched" /\ Hosting /\ ResourceOK(x) /\ row[x] \in RowType
      /\ RowFits(row[x]) /\ "none" \notin Final /\ "uncertain" \notin Final /\ TypeOK
  BY Facts DEF Step
<1>1. row[x].outcome = "none" /\ row[x].leased /\ Admitted(x)
  BY <1>0 DEF ResourceOK, RowFits, RowType, UnsentOK, AdmittedOK, Admitted, ClaimedOK, Unsent
<1>2. RowFits(r) /\ r.phase = "invoked" /\ r.outcome = "none" /\ r.leased /\ r.claimed
  BY <1>0, <1>1 DEF RowFits, RowType, Phases, Final
<1>3. row' = [row EXCEPT ![x] = r]
  OBVIOUS
<1> HIDE DEF r
<1>4. row' = [row EXCEPT ![x] = row'[x]] /\ row'[x] = r
  BY <1>0, <1>3, RowWritten
<1>5. wire' = [wire EXCEPT ![x] = wire'[x]] /\ wire'[x] = wire[x] /\ wire'[x] \in Gates
  BY <1>0, WireWritten, Facts DEF Gates
<1>6. UnsentOK(x)' /\ AdmittedOK(x)' /\ ClaimedOK(x)'
  BY <1>0, <1>1, <1>2, <1>4, <1>5 DEF ResourceOK, UnsentOK, Unsent, AdmittedOK, Admitted, ClaimedOK
<1>7. ReportedOK(x)'
  BY <1>0, <1>1, <1>2, <1>4, <1>5, OpenReported DEF ResourceOK
<1>8. "running" \in Places \ {"idle", "reserved", "closed"} /\ at[x] \notin {"closed", "unclosed", "over"}
  BY <1>0 DEF Places
<1>9. UNCHANGED <<run, att, req, host, journals, running, server, fence, outbox>>
  BY DEF native
<1>10. /\ x \in Workers /\ wire'[x] = "asked" /\ att[x] = "stopped" => wire[x] = "asked"
       /\ (x \in running => row'[x].outcome \notin Final)
  BY <1>1, <1>2, <1>4, <1>5, <1>0
<1>11. QED
  BY <1>0, <1>2, <1>4, <1>5, <1>6, <1>7, <1>8, <1>9, <1>10, RowStep

\* Steps that record an observation.
LEMMA RecordStep ==
  ASSUME Inv, NEW x \in Resources, NEW o \in Final \cup {"uncertain"}, NEW to \in Places \ {"idle", "reserved", "closed"},
         at' = [at EXCEPT ![x] = to], at[x] \in {"closed", "unclosed", "over"} => to = "over", Recorded(x, o),
         NEW m \in {wire[x], "none"}, wire' = [wire EXCEPT ![x] = m],
         UNCHANGED <<native, host, journals, running, server, fence>>,
         row[x].outcome \notin Final =>
           (o = "never_started" => ~row[x].claimed) /\ (o \in {"completed", "stopped"} => row[x].claimed),
         x \in running => o = "uncertain"
  PROVE  Inv'
<1>0. TypeOK /\ wire[x] \in Gates /\ req \in [Requests -> ReqType] /\ "uncertain" \notin Final
  BY Facts
<1>1. at'[x] = to
  BY <1>0 DEF TypeOK
<1>2. wire' = [wire EXCEPT ![x] = wire'[x]] /\ wire'[x] = m /\ wire' \in [Resources -> Gates]
      /\ \A y \in Resources : y # x => wire'[y] = wire[y]
  BY <1>0 DEF TypeOK, Gates
<1>3. /\ row' \in [Resources -> RowType] /\ (\A y \in Resources : RowFits(row'[y])) /\ outbox' \in Boxes
      /\ (\A y \in Resources : y # x => row'[y] = row[y] /\ SameBox(y)) /\ row'[x].claimed = row[x].claimed
      /\ row'[x].outcome = (IF row[x].outcome \in Final THEN row[x].outcome ELSE o) /\ ResourceOK(x)'
  BY <1>1, <1>2, RecordedOK
<1>4. /\ to \in Places /\ to # "closed" /\ (x \in running /\ row'[x].outcome \in Final => row[x].outcome \in Final)
      /\ (wire'[x] = "asked" => wire[x] = "asked")
  BY <1>0, <1>2, <1>3
<1>5. UNCHANGED <<run, att, host, journals, running, server, fence>> /\ req' \in [Requests -> ReqType]
  BY <1>0 DEF native
<1>6. QED
  BY <1>2, <1>3, <1>4, <1>5, HostStep

\* A resource whose row stays as it is.
LEMMA IdleMove ==
  ASSUME Inv, NEW x \in Resources, NEW to \in Places \ {"idle", "reserved", "closed"},
         at' = [at EXCEPT ![x] = to], at[x] \in {"closed", "unclosed", "over"} => to = "over",
         UNCHANGED <<native, host, journals, row, outbox, running, wire, server, fence>>
  PROVE  Inv'
<1>1. req' \in [Requests -> ReqType] /\ UNCHANGED <<run, att, host, journals, running, server, fence, row, outbox, wire>>
  BY Facts DEF native
<1>2. to \in Places /\ to # "closed" /\ to \notin {"idle", "reserved"}
  OBVIOUS
<1>3. QED
  BY <1>1, <1>2, MoveStep

LEMMA Ends == {"over", "failed", "ready", "running"} \subseteq Places \ {"idle", "reserved", "closed"}
  BY DEF Places

\* The answer that permits nothing leaves the outcome unknown.
LEMMA Replays ==
  ASSUME Inv, NEW x \in Resources, NEW from, from \notin {"closed", "unclosed", "over"}, Step(x, from, "ready"),
         Recorded(x, "uncertain"), wire' = [wire EXCEPT ![x] = "none"],
         UNCHANGED <<native, host, journals, running, server, fence>>
  PROVE  Inv'
<1>1. at' = [at EXCEPT ![x] = "ready"] /\ at[x] = from
  BY DEF Step
<1>2. QED
  BY <1>1, RecordStep, Ends

LEMMA Receives ==
  ASSUME Inv
  PROVE  /\ \A w \in Workers : ReceiveSlot(w) => Inv'
         /\ \A r \in Requests : ReceiveStart(r) => Inv'
<1>1. ASSUME NEW w \in Workers, ReceiveSlot(w) PROVE Inv'
  <2>0. w \in Resources
    BY DEF Resources
  <2>1. Step(w, "sent", "ready") /\ row[w].phase = "pending" /\ wire' = [wire EXCEPT ![w] = "none"]
        /\ UNCHANGED <<native, host, journals, running, server, fence>>
    BY <1>1 DEF ReceiveSlot
  <2>2. CASE wire[w] = "granted"
    BY <1>1, <2>0, <2>1, <2>2, Permits DEF ReceiveSlot
  <2>3. CASE wire[w] # "granted"
    BY <1>1, <2>0, <2>1, <2>3, Replays DEF ReceiveSlot
  <2>4. QED
    BY <2>2, <2>3
<1>2. ASSUME NEW r \in Requests, ReceiveStart(r) PROVE Inv'
  <2>0. r \in Resources
    BY DEF Resources
  <2>1. Step(r, "starting", "ready") /\ row[r].phase = "starting" /\ wire' = [wire EXCEPT ![r] = "none"]
        /\ UNCHANGED <<native, host, journals, running, server, fence>>
    BY <1>2 DEF ReceiveStart
  <2>2. CASE wire[r] = "granted"
    BY <1>2, <2>0, <2>1, <2>2, PermitsUnit DEF ReceiveStart
  <2>3. CASE wire[r] # "granted"
    BY <1>2, <2>0, <2>1, <2>3, Replays DEF ReceiveStart
  <2>4. QED
    BY <2>2, <2>3
<1>3. QED
  BY <1>1, <1>2

\* The message of the resource stays where it is.
LEMMA Observes ==
  ASSUME Inv, NEW x \in Resources, NEW o \in Final \cup {"uncertain"}, NEW to \in {"over", "failed"},
         at' = [at EXCEPT ![x] = to], at[x] \in {"closed", "unclosed", "over"} => to = "over", Recorded(x, o),
         UNCHANGED <<native, host, journals, running, wire, server, fence>>,
         row[x].outcome \notin Final =>
           (o = "never_started" => ~row[x].claimed) /\ (o \in {"completed", "stopped"} => row[x].claimed),
         x \in running => o = "uncertain"
  PROVE  Inv'
<1>1. wire' = [wire EXCEPT ![x] = wire[x]] /\ wire[x] \in {wire[x], "none"} /\ to \in Places \ {"idle", "reserved", "closed"}
  BY Facts, Ends
<1>2. UNCHANGED <<native, host, journals, running, server, fence>>
  OBVIOUS
<1>3. QED
  BY <1>1, <1>2, RecordStep

LEMMA Reports ==
  ASSUME Inv
  PROVE  /\ \A r \in Requests : ObserveRequest(r) \/ AbandonRequest(r) \/ ReportRequest(r) => Inv'
         /\ \A w \in Workers : ReportSlot(w) => Inv'
<1>1. ASSUME NEW r \in Requests, ObserveRequest(r) PROVE Inv'
  <2> DEFINE o == IF req[r].state = "completed" THEN "completed" ELSE "uncertain"
  <2>0. r \in Resources /\ r \notin Workers /\ r \notin running
    BY Facts, ResourceAssumption DEF Resources, TypeOK
  <2>1. /\ Step(r, "answered", IF Recordable(r, o) THEN "over" ELSE "failed")
        /\ IF Recordable(r, o) THEN Recorded(r, o) ELSE UNCHANGED <<row, outbox>>
        /\ UNCHANGED <<native, host, journals, running, wire, server, fence>>
    BY <1>1 DEF ObserveRequest
  <2>2. o \in {"completed", "uncertain"} /\ o \in Final \cup {"uncertain"}
    BY DEF Final
  <2> HIDE DEF o
  <2>3. CASE Recordable(r, o)
    <3>1. row[r].outcome \notin Final => (o = "completed" => row[r].claimed)
      BY <2>0, <2>3, Facts DEF Recordable, ResourceOK, ClaimedOK
    <3>2. at' = [at EXCEPT ![r] = "over"] /\ Recorded(r, o)
      BY <2>1, <2>3 DEF Step
    <3>3. QED
      BY <2>0, <2>1, <2>2, <3>1, <3>2, Observes
  <2>4. CASE ~Recordable(r, o)
    BY <2>0, <2>1, <2>4, IdleMove, Ends DEF Step
  <2>5. QED
    BY <2>3, <2>4
<1>2. ASSUME NEW r \in Requests, AbandonRequest(r) PROVE Inv'
  <2>0. r \in Resources /\ r \notin Workers /\ r \notin running
    BY Facts, ResourceAssumption DEF Resources, TypeOK
  <2>1. /\ at[r] \in {"reserved", "opened", "sent", "held", "starting", "ready", "launched"}
        /\ Step(r, at[r], IF at[r] = "reserved" \/ Recordable(r, "uncertain") THEN "over" ELSE "failed")
        /\ IF at[r] # "reserved" /\ Recordable(r, "uncertain") THEN Recorded(r, "uncertain") ELSE UNCHANGED <<row, outbox>>
        /\ UNCHANGED <<native, host, journals, running, wire, server, fence>>
    BY <1>2 DEF AbandonRequest
  <2>2. CASE at[r] # "reserved" /\ Recordable(r, "uncertain")
    <3>1. at' = [at EXCEPT ![r] = "over"] /\ Recorded(r, "uncertain")
      BY <2>1, <2>2 DEF Step
    <3>2. QED
      BY <2>0, <2>1, <3>1, Observes
  <2>3. CASE ~(at[r] # "reserved" /\ Recordable(r, "uncertain"))
    <3>1. PICK to \in {"over", "failed"} : at' = [at EXCEPT ![r] = to]
      BY <2>1 DEF Step
    <3>2. at[r] \notin {"closed", "unclosed", "over"} /\ to \in Places \ {"idle", "reserved", "closed"}
      BY <2>1, Ends
    <3>3. UNCHANGED <<native, host, journals, row, outbox, running, wire, server, fence>>
      BY <2>1, <2>3
    <3>4. QED
      BY <2>0, <3>1, <3>2, <3>3, IdleMove
  <2>4. QED
    BY <2>2, <2>3
<1>3. ASSUME NEW r \in Requests, ReportRequest(r) PROVE Inv'
  <2> DEFINE w == WorkerOf[r]
  <2>0. r \in Resources /\ r \notin Workers /\ r \notin running /\ w \in Resources
    BY Facts, ResourceAssumption DEF Resources, TypeOK
  <2>1. /\ at[w] \in {"closed", "unclosed"} /\ at[r] \in {"running", "failed"}
        /\ IF Recordable(r, "uncertain") THEN Recorded(r, "uncertain") /\ at' = [at EXCEPT ![r] = "over"]
           ELSE at' = [at EXCEPT ![w] = "over"] /\ UNCHANGED <<row, outbox>>
        /\ UNCHANGED <<native, host, journals, running, wire, server, fence>>
    BY <1>3 DEF ReportRequest
  <2> HIDE DEF w
  <2>2. CASE Recordable(r, "uncertain")
    BY <2>0, <2>1, <2>2, Observes
  <2>3. CASE ~Recordable(r, "uncertain")
    BY <2>0, <2>1, <2>3, IdleMove, Ends
  <2>4. QED
    BY <2>2, <2>3
<1>4. ASSUME NEW w \in Workers, ReportSlot(w) PROVE Inv'
  <2> DEFINE o == IF at[w] = "unclosed" THEN "uncertain"
                  ELSE IF row[w].claimed THEN "stopped" ELSE "never_started"
  <2>0. w \in Resources
    BY DEF Resources
  <2>1. /\ at[w] \in {"closed", "unclosed"} /\ at' = [at EXCEPT ![w] = "over"]
        /\ IF row[w].phase # "none" /\ Recordable(w, o) THEN Recorded(w, o) ELSE UNCHANGED <<row, outbox>>
        /\ UNCHANGED <<native, host, journals, running, wire, server, fence>>
    BY <1>4 DEF ReportSlot, Step
  <2>2. o \in Final \cup {"uncertain"} /\ o # "completed" /\ (o = "never_started" => ~row[w].claimed)
      /\ (o = "stopped" => row[w].claimed)
    BY DEF Final
  <2>3. w \in running => o = "uncertain"
    BY <2>1 DEF Inv, WorkerOK
  <2> HIDE DEF o
  <2>4. CASE row[w].phase # "none" /\ Recordable(w, o)
    BY <2>0, <2>1, <2>2, <2>3, <2>4, Observes
  <2>5. CASE ~(row[w].phase # "none" /\ Recordable(w, o))
    BY <2>0, <2>1, <2>5, IdleMove, Ends
  <2>6. QED
    BY <2>4, <2>5
<1>5. QED
  BY <1>1, <1>2, <1>3, <1>4

LEMMA Hosted ==
  ASSUME Inv, NEW r \in Requests
  PROVE  /\ OpenRequest(r) \/ SendReserve(r) \/ ReceiveReserve(r) \/ ReceiveDenial(r) => Inv'
         /\ SendStart(r) \/ ClaimRequest(r) => Inv'
<1>0. r \in Resources /\ r \notin Workers
  BY ResourceAssumption DEF Resources
<1>1. CASE OpenRequest(r)
  BY <1>0, <1>1, Opens DEF OpenRequest
<1>2. CASE SendReserve(r)
  BY <1>0, <1>2, Sends DEF SendReserve
<1>3. CASE ReceiveReserve(r)
  BY <1>0, <1>3, Holds DEF ReceiveReserve
<1>4. CASE ReceiveDenial(r)
  BY <1>0, <1>4, Denies DEF ReceiveDenial
<1>5. CASE SendStart(r)
  BY <1>0, <1>5, Starts DEF SendStart
<1>6. CASE ClaimRequest(r)
  BY <1>0, <1>6, Calls DEF ClaimRequest
<1>7. QED
  BY <1>1, <1>2, <1>3, <1>4, <1>5, <1>6

LEMMA Slots == ASSUME Inv, NEW w \in Workers PROVE OpenSlot(w) \/ SendSlot(w) => Inv'
<1>0. w \in Resources
  BY DEF Resources
<1>1. CASE OpenSlot(w)
  BY <1>0, <1>1, Opens DEF OpenSlot
<1>2. CASE SendSlot(w)
  BY <1>0, <1>2, Sends DEF SendSlot
<1>3. QED
  BY <1>1, <1>2

-----------------------------------------------------------------------------
(* Steps beside the rows: threads, children, crashes, and the run itself *)

\* Rows, messages and the server's accounts stay as they are.
LEMMA Beside ==
  ASSUME Inv, UNCHANGED <<row, outbox, wire, server, journals>>,
         \A x \in Resources : at'[x] \in {"idle", "reserved"} => at[x] \in {"idle", "reserved"},
         \A w \in Workers : att[w] = "stopped" => att'[w] = "stopped"
  PROVE  Clean' /\ \A x \in Resources : ResourceOK(x)'
<1>1. \A x \in Resources : SameResource(x)
  BY BoxKept DEF SameResource
<1>2. Clean'
  BY DEF Inv, Clean, Barred
<1>3. QED
  BY <1>1, <1>2, ResourceKept DEF Inv

LEMMA TypesBeside ==
  ASSUME TypeOK, UNCHANGED <<row, outbox, wire, server>>,
         run' \in [epoch : 1..MaxEpoch, state : {"running", "recovery_required"}],
         att' \in [Workers -> {"open", "stopped"}], req' \in [Requests -> ReqType],
         host' \in [1..MaxEpoch -> {"none", "live", "dead"}], journals' \subseteq 1..MaxEpoch,
         at' \in [Resources -> Places], running' \subseteq Workers, fence' \in {"no", "done", "refused"}
  PROVE  TypeOK'
<1>1. row' \in [Resources -> RowType] /\ (\A y \in Resources : RowFits(row'[y])) /\ outbox' \in Boxes
  BY DEF TypeOK, RowType, RowFits, Boxes
<1>2. QED
  BY <1>1, RowsType DEF TypeOK, Places, ReqType

LEMMA TypesNow ==
  ASSUME TypeOK
  PROVE  /\ run \in [epoch : 1..MaxEpoch, state : {"running", "recovery_required"}]
         /\ att \in [Workers -> {"open", "stopped"}] /\ req \in [Requests -> ReqType]
         /\ host \in [1..MaxEpoch -> {"none", "live", "dead"}] /\ journals \subseteq 1..MaxEpoch
         /\ at \in [Resources -> Places] /\ running \subseteq Workers /\ fence \in {"no", "done", "refused"}
         /\ wire \in [Resources -> Gates] /\ row \in [Resources -> RowType] /\ outbox \in Boxes
         /\ server \in [Resources -> Final \cup {"absent", "fenced", "held", "started"}]
         /\ \A x \in Resources : RowFits(row[x])
  BY DEF TypeOK, Places, Gates, ReqType, RowType, RowFits, Boxes

LEMMA Stops ==
  ASSUME Inv, NEW w \in Workers, NEW closed \in BOOLEAN, StopParticipant(w, closed)
  PROVE  Inv'
<1>0. TypeOK /\ w \in Resources
  BY DEF Inv, Resources
<1> DEFINE to == IF closed THEN "closed" ELSE "unclosed"
<1>1. /\ Hosting /\ at[w] \in {"idle", "opened", "sent", "ready", "running"} /\ at' = [at EXCEPT ![w] = to]
      /\ running' = (IF closed THEN running \ {w} ELSE running)
      /\ UNCHANGED <<run, host, journals, row, outbox, wire, server, fence>>
  BY DEF StopParticipant, Step
<1>2. to \in Places /\ to \in {"closed", "unclosed"} /\ (to = "closed" => closed)
  BY DEF Places
<1> HIDE DEF to
<1>3. at' \in [Resources -> Places] /\ at'[w] = to /\ \A x \in Resources : x # w => at'[x] = at[x]
  BY <1>0, <1>1, <1>2, TypesNow
<1>4. att' = [att EXCEPT ![w] = "stopped"] \/ att' = att
  BY DEF StopParticipant
<1>5. att' \in [Workers -> {"open", "stopped"}] /\ (\A v \in Workers : att[v] = "stopped" => att'[v] = "stopped")
      /\ \A v \in Workers : v # w => att'[v] = att[v]
  BY <1>0, <1>4, TypesNow
<1>6. req' \in [Requests -> ReqType]
  <2>1. req \in [Requests -> ReqType]
    BY <1>0, TypesNow
  <2>2. CASE req' = req
    BY <2>1, <2>2
  <2>3. CASE req' = [r \in Requests |->
               IF r \notin RequestsOf(w) THEN req[r]
               ELSE [req[r] EXCEPT !.state = CASE @ = "reserved" -> "not_started"
                                               [] @ = "started"  -> "uncertain"
                                               [] OTHER          -> @]]
    BY <2>1, <2>3 DEF ReqType, Settled
  <2>4. QED
    BY <2>2, <2>3 DEF StopParticipant
<1>7. TypeOK'
  BY <1>0, <1>1, <1>3, <1>5, <1>6, TypesNow, TypesBeside
<1>8. Clean' /\ \A x \in Resources : ResourceOK(x)'
  BY <1>1, <1>2, <1>3, <1>5, Beside
<1>9. ASSUME NEW v \in Workers PROVE WorkerOK(v)'
  <2>1. WorkerOK(v) /\ v \in Resources
    BY DEF Inv, Resources
  <2>2. CASE v = w
    BY <1>1, <1>2, <1>3, <2>1, <2>2 DEF WorkerOK
  <2>3. CASE v # w
    BY <1>1, <1>3, <1>5, <2>1, <2>3, WorkerKept DEF Hosting
  <2>4. QED
    BY <2>2, <2>3
<1>10. QED
  BY <1>7, <1>8, <1>9 DEF Inv

\* The permit of a participant is consumed: it runs from here on.
LEMMA Claims == ASSUME Inv, NEW w \in Workers, ClaimSlot(w) PROVE Inv'
<1> DEFINE r == [row[w] EXCEPT !.phase = "invoked", !.claimed = TRUE]
<1>0. /\ TypeOK /\ w \in Resources /\ ResourceOK(w) /\ row[w] \in RowType /\ RowFits(row[w])
      /\ "none" \notin Final /\ "uncertain" \notin Final
  BY Facts DEF Resources
<1>1. /\ at[w] = "ready" /\ at' = [at EXCEPT ![w] = "running"] /\ row[w].phase = "permitted"
      /\ row' = [row EXCEPT ![w] = r] /\ running' = running \cup {w} /\ outbox' = outbox
      /\ UNCHANGED <<run, att, req, host, journals, outbox, wire, server, fence>>
  BY DEF ClaimSlot, Step, native
<1>2. row[w].outcome = "none" /\ row[w].leased /\ Admitted(w)
  BY <1>0, <1>1 DEF ResourceOK, RowFits, RowType, UnsentOK, AdmittedOK, Admitted, ClaimedOK, Unsent
<1>3. RowFits(r) /\ r.phase = "invoked" /\ r.outcome = "none" /\ r.leased /\ r.claimed
  BY <1>0, <1>1, <1>2 DEF RowFits, RowType, Phases, Final
<1> HIDE DEF r
<1>4. /\ row' \in [Resources -> RowType] /\ (\A y \in Resources : RowFits(row'[y]))
      /\ row'[w] = r /\ \A y \in Resources : y # w => row'[y] = row[y]
  BY <1>0, <1>1, <1>3, TypeRow
<1>5. at' \in [Resources -> Places] /\ at'[w] = "running" /\ \A y \in Resources : y # w => at'[y] = at[y]
  BY <1>0, <1>1, TypesNow DEF Places
<1>6. TypeOK'
  BY <1>0, <1>1, <1>4, <1>5, TypesNow, RowsType DEF Places, Gates, ReqType
<1>7. UnsentOK(w)' /\ AdmittedOK(w)' /\ ClaimedOK(w)' /\ OpenedOK(w)'
  BY <1>0, <1>1, <1>2, <1>3, <1>4, <1>5 DEF ResourceOK, UnsentOK, Unsent, AdmittedOK, Admitted, ClaimedOK, OpenedOK
<1>8. ReportedOK(w)'
  BY <1>0, <1>1, <1>2, <1>3, <1>4, OpenReported DEF ResourceOK
<1>9. \A y \in Resources : ResourceOK(y)'
  BY <1>0, <1>1, <1>4, <1>5, <1>7, <1>8, BoxKept, OneResource DEF Others, SameResource, ResourceOK
<1>10. ASSUME NEW v \in Workers PROVE WorkerOK(v)'
  <2>1. WorkerOK(v) /\ v \in Resources
    BY DEF Inv, Resources
  <2>2. QED
    BY <1>0, <1>1, <1>3, <1>4, <1>5, <2>1 DEF WorkerOK, Hosting
<1>11. Clean'
  BY <1>1 DEF Inv, Clean, Barred
<1>12. QED
  BY <1>6, <1>9, <1>10, <1>11 DEF Inv

\* No participant starts, and none that ran is forgotten.
LEMMA WorkersBeside ==
  ASSUME Inv, row' = row, att' = att, running' \subseteq running, Hosting' => Hosting,
         at' = at \/ at' = [x \in Resources |-> "over"]
  PROVE  \A w \in Workers : WorkerOK(w)'
<1>1. SUFFICES ASSUME NEW w \in Workers PROVE WorkerOK(w)'
  OBVIOUS
<1>2. WorkerOK(w) /\ w \in Resources
  BY DEF Inv, Resources
<1>3. QED
  BY <1>2 DEF WorkerOK

LEMMA Crashes == ASSUME Inv, NEW e \in 1..MaxEpoch, Crash(e) PROVE Inv'
<1>0. TypeOK
  BY DEF Inv
<1>1. /\ host' = [host EXCEPT ![e] = "dead"] /\ UNCHANGED <<run, att, req, journals, row, outbox, wire, server, fence>>
      /\ (at' = at \/ at' = [x \in Resources |-> "over"]) /\ running' \subseteq running
  BY DEF Crash, native
<1>2. at' \in [Resources -> Places] /\ (\A x \in Resources : at'[x] \in {"idle", "reserved"} => at[x] \in {"idle", "reserved"})
      /\ host' \in [1..MaxEpoch -> {"none", "live", "dead"}] /\ running' \subseteq Workers
  BY <1>0, <1>1, TypesNow DEF Places
<1>3. Hosting' => Hosting
  BY <1>0, <1>1, TypesNow, EpochAssumption DEF Hosting
<1>4. TypeOK'
  BY <1>0, <1>1, <1>2, TypesNow, TypesBeside
<1>5. Clean' /\ \A x \in Resources : ResourceOK(x)'
  BY <1>1, <1>2, Beside
<1>6. \A w \in Workers : WorkerOK(w)'
  BY <1>1, <1>3, WorkersBeside
<1>7. QED
  BY <1>4, <1>5, <1>6 DEF Inv

LEMMA Childless == ASSUME Inv, NEW w \in Workers, ChildEnds(w) PROVE Inv'
<1>0. TypeOK
  BY DEF Inv
<1>1. running' = running \ {w} /\ UNCHANGED <<run, att, req, host, journals, row, outbox, at, wire, server, fence>>
  BY DEF ChildEnds, native
<1>2. TypeOK'
  BY <1>0, <1>1, TypesNow, TypesBeside
<1>3. Clean' /\ \A x \in Resources : ResourceOK(x)'
  BY <1>1, Beside
<1>4. \A v \in Workers : WorkerOK(v)'
  BY <1>1, WorkersBeside DEF Hosting
<1>5. QED
  BY <1>2, <1>3, <1>4 DEF Inv

LEMMA TakesOver == ASSUME Inv, TakeOver PROVE Inv'
<1>0. TypeOK /\ MaxEpoch \in Nat
  BY EpochAssumption DEF Inv
<1>1. /\ run.epoch < MaxEpoch /\ run' = [epoch |-> run.epoch + 1, state |-> "recovery_required"]
      /\ host' = [host EXCEPT ![run.epoch + 1] = "live"] /\ fence' = "no"
      /\ req' = [r \in Requests |-> IF req[r].state \in {"reserved", "started"}
                                    THEN [req[r] EXCEPT !.state = "uncertain"] ELSE req[r]]
      /\ UNCHANGED <<att, journals, row, outbox, at, running, wire, server>>
  BY DEF TakeOver
<1>2. run.epoch \in 1..MaxEpoch
  BY <1>0 DEF TypeOK
<1>3. run.epoch + 1 \in 1..MaxEpoch /\ run.epoch + 1 # 1
  BY <1>0, <1>1, <1>2
<1>4. run' \in [epoch : 1..MaxEpoch, state : {"running", "recovery_required"}]
      /\ host' \in [1..MaxEpoch -> {"none", "live", "dead"}] /\ host'[1] = host[1]
  BY <1>0, <1>1, <1>3, TypesNow
<1>5. req' \in [Requests -> ReqType]
  BY <1>0, <1>1, TypesNow DEF ReqType
<1>6. TypeOK'
  BY <1>0, <1>1, <1>4, <1>5, TypesNow, TypesBeside
<1>7. Clean' /\ \A x \in Resources : ResourceOK(x)'
  BY <1>1, Beside
<1>8. \A w \in Workers : WorkerOK(w)'
  BY <1>1, <1>4, WorkersBeside DEF Hosting
<1>9. QED
  BY <1>6, <1>7, <1>8 DEF Inv

LEMMA EndsObserved == ASSUME Inv, NEW w \in Workers, ObserveEnd(w) PROVE Inv'
<1>0. TypeOK
  BY DEF Inv
<1>1. /\ Gone(w) /\ att' = [att EXCEPT ![w] = "stopped"]
      /\ UNCHANGED <<run, req, host, journals, row, outbox, at, running, wire, server, fence>>
  BY DEF ObserveEnd
<1>2. att' \in [Workers -> {"open", "stopped"}] /\ (\A v \in Workers : att[v] = "stopped" => att'[v] = "stopped")
      /\ \A v \in Workers : v # w => att'[v] = att[v]
  BY <1>0, <1>1, TypesNow
<1>3. TypeOK'
  BY <1>0, <1>1, <1>2, TypesNow, TypesBeside
<1>4. Clean' /\ \A x \in Resources : ResourceOK(x)'
  BY <1>1, <1>2, Beside
<1>5. ASSUME NEW v \in Workers PROVE WorkerOK(v)'
  <2>1. WorkerOK(v)
    BY DEF Inv
  <2>2. QED
    BY <1>1, <1>2, <2>1 DEF WorkerOK, Gone, Hosting
<1>6. QED
  BY <1>3, <1>4, <1>5 DEF Inv

LEMMA RunSettled ==
  ASSUME Inv, (\E r \in Requests, o \in Settled : SettleRequest(r, o)) \/ Recover
  PROVE  Inv'
<1>0. TypeOK
  BY DEF Inv
<1>1. UNCHANGED <<att, host, journals, row, outbox, at, running, wire, server, fence>>
  BY DEF SettleRequest, Recover
<1>2. req' \in [Requests -> ReqType] /\ run' \in [epoch : 1..MaxEpoch, state : {"running", "recovery_required"}]
  <2>1. CASE Recover
    BY <1>0, <2>1, TypesNow DEF Recover
  <2>2. CASE \E r \in Requests, o \in Settled : SettleRequest(r, o)
    <3>1. PICK r \in Requests, o \in Settled : SettleRequest(r, o)
      BY <2>2
    <3>2. QED
      BY <1>0, <3>1, TypesNow DEF SettleRequest, ReqType
  <2>3. QED
    BY <2>1, <2>2
<1>3. TypeOK'
  BY <1>0, <1>1, <1>2, TypesNow, TypesBeside
<1>4. Clean' /\ \A x \in Resources : ResourceOK(x)'
  BY <1>1, Beside
<1>5. \A w \in Workers : WorkerOK(w)'
  BY <1>1, WorkersBeside DEF Hosting
<1>6. QED
  BY <1>3, <1>4, <1>5 DEF Inv

\* A journal of its own for the new epoch: nothing of the others blocks it.
LEMMA Attaches == ASSUME Inv, Attach PROVE Inv'
<1>0. TypeOK
  BY DEF Inv
<1>1. /\ ~Unresolved /\ (\A w \in Workers : ~Blocks(w)) /\ journals' = journals \cup {run.epoch}
      /\ UNCHANGED <<run, att, req, host, row, outbox, at, running, wire, server, fence>>
  BY DEF Attach, native
<1>2. journals' \subseteq 1..MaxEpoch
  BY <1>0, <1>1 DEF TypeOK
<1>3. TypeOK'
  BY <1>0, <1>1, <1>2, TypesNow, TypesBeside
<1>4. \A x \in Resources : ResourceOK(x)'
  BY <1>1, BoxKept, ResourceKept DEF Inv, SameResource
<1>5. \A w \in Workers : WorkerOK(w)'
  BY <1>1, WorkersBeside DEF Hosting
<1>6. ASSUME NEW w \in Workers PROVE att'[w] = "stopped" /\ (server'[w] \in Final \/ Barred(w)')
  <2>1. w \in Resources /\ ResourceOK(w) /\ att[w] = "stopped" /\ ~Blocks(w) /\ RowFits(row[w]) /\ "asked" # "none"
    BY <1>0, <1>1, Facts DEF Resources, Unresolved, TypeOK
  <2>2. CASE ~row[w].leased
    BY <1>1, <2>1, <2>2 DEF ResourceOK, UnsentOK, Barred
  <2>3. CASE row[w].leased /\ row[w].phase = "not_admitted"
    BY <1>1, <2>1, <2>3 DEF ResourceOK, ReportedOK, Barred
  <2>4. CASE row[w].leased /\ row[w].phase # "not_admitted"
    <3>1. row[w].phase # "none"
      BY <2>1, <2>4 DEF ResourceOK, UnsentOK, Unsent
    <3>2. row[w].outcome \in Final /\ <<w, row[w].outcome>> \in outbox.acked
      BY <2>1, <2>4, <3>1 DEF Blocks, Final
    <3>3. server[w] \in Final
      BY <2>1, <3>2 DEF ResourceOK, ReportedOK
    <3>4. QED
      BY <1>1, <2>1, <3>3
  <2>5. QED
    BY <2>2, <2>3, <2>4
<1>7. QED
  BY <1>1, <1>3, <1>4, <1>5, <1>6 DEF Inv, Clean

-----------------------------------------------------------------------------
(* Steps of the server, and deliveries to it *)

\* The host and the rows of the run stay as they are, as do what other resources
\* have in the journal and at the server.
LEMMA ServerStep ==
  ASSUME Inv, NEW x \in Resources, UNCHANGED <<native, host, journals, row, at, running, fence>>,
         \A y \in Resources : y # x => wire'[y] = wire[y] /\ server'[y] = server[y] /\ SameBox(y),
         wire' \in [Resources -> Gates], outbox' \in Boxes,
         server' \in [Resources -> Final \cup {"absent", "fenced", "held", "started"}],
         UnsentOK(x)', AdmittedOK(x)', ReportedOK(x)',
         x \in Workers => /\ server[x] \in Final => server'[x] = server[x]
                          /\ Barred(x) => Barred(x)' \/ server'[x] \in Final
  PROVE  Inv'
<1>0. TypeOK /\ ResourceOK(x) /\ Clean
  BY DEF Inv
<1>1. TypeOK'
  BY <1>0, TypesNow, RowsType DEF Gates, Places, ReqType, native
<1>2. \A y \in Resources : ResourceOK(y)'
  <2>1. ClaimedOK(x)' /\ OpenedOK(x)'
    BY <1>0 DEF ResourceOK, ClaimedOK, OpenedOK
  <2>2. QED
    BY <2>1, OneResource DEF ResourceOK, Others, SameResource
<1>3. \A w \in Workers : WorkerOK(w)'
  BY DEF Inv, WorkerOK, Hosting, native
<1>4. Clean'
  <2>1. ASSUME NEW w \in Workers PROVE /\ server[w] \in Final => server'[w] = server[w]
                                       /\ Barred(w) => Barred(w)' \/ server'[w] \in Final
    <3>1. w \in Resources
      BY DEF Resources
    <3>2. CASE w = x
      BY <3>2
    <3>3. CASE w # x
      BY <3>1, <3>3 DEF Barred
    <3>4. QED
      BY <3>2, <3>3
  <2>2. QED
    BY <1>0, <2>1, CleanKept DEF native
<1>5. QED
  BY <1>1, <1>2, <1>3, <1>4 DEF Inv

\* What is not known to the server is not acknowledged either.
LEMMA NotAcked ==
  ASSUME NEW x \in Resources, ReportedOK(x), server[x] \notin Final
  PROVE  \A o \in Final : <<x, o>> \notin outbox.acked
  BY DEF ReportedOK

LEMMA Admits == ASSUME Inv, NEW x \in Resources, Admit(x) PROVE Inv'
<1>0. TypeOK /\ ResourceOK(x) /\ outbox \in Boxes
  BY Facts
<1>1. /\ wire[x] = "asked" /\ server[x] \in {"absent", "fenced"} /\ server[x] \notin Final
      /\ UNCHANGED <<native, host, journals, row, outbox, at, running, fence>>
  BY DEF Admit, Final
<1>2. \A o \in Final : <<x, o>> \notin outbox.acked
  BY <1>0, <1>1, NotAcked DEF ResourceOK
<1>3. row[x].leased /\ row[x].phase \notin {"reserved", "starting", "permitted", "invoked"} /\ ~row[x].claimed
  BY <1>0, <1>1 DEF ResourceOK, UnsentOK, AdmittedOK, Admitted
<1>4. CASE /\ server[x] = "absent" /\ server' = [server EXCEPT ![x] = "held"]
           /\ \E answer \in {"granted", "replayed"} : wire' = [wire EXCEPT ![x] = answer]
  <2>1. PICK answer \in {"granted", "replayed"} : wire' = [wire EXCEPT ![x] = answer]
    BY <1>4
  <2>2. /\ wire'[x] \in {"granted", "replayed"} /\ server'[x] = "held" /\ "held" \notin Final /\ ~Barred(x)
        /\ wire' \in [Resources -> Gates] /\ server' \in [Resources -> Final \cup {"absent", "fenced", "held", "started"}]
        /\ \A y \in Resources : y # x => wire'[y] = wire[y] /\ server'[y] = server[y]
    BY <1>0, <1>1, <1>4, <2>1, TypesNow DEF Gates, Final, Barred
  <2>3. UnsentOK(x)' /\ AdmittedOK(x)'
    BY <1>0, <1>1, <1>3, <2>2 DEF ResourceOK, UnsentOK, Unsent, AdmittedOK, Admitted
  <2>4. ReportedOK(x)'
    BY <1>0, <1>1, <1>2, <2>2 DEF ResourceOK, ReportedOK, Pending
  <2>5. QED
    BY <1>0, <1>1, <2>2, <2>3, <2>4, BoxKept, ServerStep
<1>5. CASE server' = server /\ wire' = [wire EXCEPT ![x] = "denied"]
  <2>1. /\ wire'[x] = "denied" /\ wire' \in [Resources -> Gates]
        /\ \A y \in Resources : y # x => wire'[y] = wire[y] /\ server'[y] = server[y]
        /\ server' \in [Resources -> Final \cup {"absent", "fenced", "held", "started"}] /\ Barred(x)'
    BY <1>0, <1>1, <1>5, TypesNow DEF Gates, Barred
  <2>2. UnsentOK(x)' /\ AdmittedOK(x)'
    BY <1>0, <1>1, <1>3, <1>5, <2>1 DEF ResourceOK, UnsentOK, Unsent, AdmittedOK, Admitted
  <2>3. ReportedOK(x)'
    BY <1>0, <1>1, <1>2, <1>5, <2>1 DEF ResourceOK, ReportedOK, Pending
  <2>4. QED
    BY <1>0, <1>1, <1>5, <2>1, <2>2, <2>3, BoxKept, ServerStep
<1>6. QED
  BY <1>4, <1>5 DEF Admit

LEMMA UnitsStart == ASSUME Inv, NEW r \in Requests, StartUnit(r) PROVE Inv'
<1>0. TypeOK /\ r \in Resources /\ r \notin Workers /\ ResourceOK(r) /\ outbox \in Boxes
  BY ResourceAssumption, Facts DEF Resources
<1>1. /\ wire[r] = "asked" /\ server[r] = "held" /\ server[r] \notin Final /\ server' = [server EXCEPT ![r] = "started"]
      /\ UNCHANGED <<native, host, journals, row, outbox, at, running, fence>>
  BY DEF StartUnit, Final
<1>2. PICK answer \in {"granted", "replayed"} : wire' = [wire EXCEPT ![r] = answer]
  BY DEF StartUnit
<1>3. /\ wire'[r] \in {"granted", "replayed"} /\ server'[r] = "started" /\ "started" \notin Final /\ ~Barred(r)
      /\ wire' \in [Resources -> Gates] /\ server' \in [Resources -> Final \cup {"absent", "fenced", "held", "started"}]
      /\ \A y \in Resources : y # r => wire'[y] = wire[y] /\ server'[y] = server[y]
  BY <1>0, <1>1, <1>2, TypesNow DEF Gates, Final, Barred
<1>4. \A o \in Final : <<r, o>> \notin outbox.acked
  BY <1>0, <1>1, NotAcked DEF ResourceOK
<1>5. UnsentOK(r)' /\ AdmittedOK(r)'
  BY <1>0, <1>1, <1>3 DEF ResourceOK, UnsentOK, Unsent, AdmittedOK, Admitted
<1>6. ReportedOK(r)'
  BY <1>0, <1>1, <1>3, <1>4 DEF ResourceOK, ReportedOK, Pending
<1>7. QED
  BY <1>0, <1>1, <1>3, <1>5, <1>6, BoxKept, ServerStep

LEMMA Unheard == ASSUME Inv, NEW x \in Resources, FenceUnheard(x) PROVE Inv'
<1>0. TypeOK /\ ResourceOK(x) /\ outbox \in Boxes
  BY Facts
<1>1. /\ server[x] = "absent" /\ server[x] \notin Final /\ server' = [server EXCEPT ![x] = "fenced"] /\ row[x].leased
      /\ UNCHANGED <<native, host, journals, row, outbox, at, running, wire, fence>>
  BY DEF FenceUnheard, Fenceable, Final
<1>2. /\ server'[x] = "fenced" /\ Barred(x)' /\ "fenced" \notin Final
      /\ server' \in [Resources -> Final \cup {"absent", "fenced", "held", "started"}]
      /\ wire' \in [Resources -> Gates] /\ \A y \in Resources : y # x => server'[y] = server[y]
  BY <1>0, <1>1, TypesNow DEF Barred, Final
<1>3. \A o \in Final : <<x, o>> \notin outbox.acked
  BY <1>0, <1>1, NotAcked DEF ResourceOK
<1>4. UnsentOK(x)' /\ AdmittedOK(x)'
  BY <1>0, <1>1, <1>2 DEF ResourceOK, UnsentOK, Unsent, AdmittedOK, Admitted
<1>5. ReportedOK(x)'
  BY <1>0, <1>1, <1>2, <1>3 DEF ResourceOK, ReportedOK, Pending
<1>6. QED
  BY <1>0, <1>1, <1>2, <1>4, <1>5, BoxKept, ServerStep

\* What the server holds, once an observation was taken.
LEMMA ToldServer ==
  ASSUME TypeOK, NEW x \in Resources, NEW o \in Final \cup {"uncertain"}, Takes(<<x, o>>),
         server' = Told(<<x, o>>)
  PROVE  /\ server[x] \in {"held", "started", o} /\ server'[x] = (IF o = "uncertain" THEN server[x] ELSE o)
         /\ (\A y \in Resources : y # x => server'[y] = server[y]) /\ Admitted(x) /\ Admitted(x)'
         /\ server' \in [Resources -> Final \cup {"absent", "fenced", "held", "started"}]
         /\ (server[x] \in Final => server'[x] = server[x]) /\ ~Barred(x)
<1>1. server[x] \in {"held", "started", o} /\ server[x] # "uncertain" /\ (\A f \in Final : f \notin {"absent", "fenced"})
  BY TypesNow DEF Takes, Final
<1>2. /\ server'[x] = (IF o = "uncertain" THEN server[x] ELSE o) /\ (\A y \in Resources : y # x => server'[y] = server[y])
      /\ server' \in [Resources -> Final \cup {"absent", "fenced", "held", "started"}]
  BY TypesNow DEF Told
<1>3. Admitted(x) /\ Admitted(x)' /\ ~Barred(x)
  BY <1>1, <1>2 DEF Admitted, Barred, Final
<1>4. QED
  BY <1>1, <1>2, <1>3 DEF Final

LEMMA PendingRow ==
  ASSUME Inv, NEW x \in Resources, NEW o \in Final, <<x, o>> \in Pending
  PROVE  row[x].outcome = o /\ (row[x].leased \/ Barred(x))
<1>1. row[x].outcome = o
  BY Facts DEF ResourceOK, ReportedOK, Pending, Known
<1>2. ~row[x].leased => Barred(x)
  BY Facts DEF ResourceOK, UnsentOK, Barred
<1>3. QED
  BY <1>1, <1>2

LEMMA TakenObservation ==
  ASSUME Inv, NEW x \in Resources, NEW o \in Final \cup {"uncertain"}, <<x, o>> \in Pending, Takes(<<x, o>>),
         server' = Told(<<x, o>>), row' = row, wire' = wire
  PROVE  /\ UnsentOK(x)' /\ AdmittedOK(x)' /\ (o \in Final => row[x].outcome = o)
         /\ row[x].phase # "not_admitted" /\ (server'[x] \in Final => row[x].outcome = server'[x])
         /\ \A f \in Final : <<x, f>> \in outbox.acked => server'[x] = f
<1>0. TypeOK /\ ResourceOK(x)
  BY Facts
<1>1. /\ server[x] \in {"held", "started", o} /\ server'[x] = (IF o = "uncertain" THEN server[x] ELSE o)
      /\ Admitted(x) /\ Admitted(x)' /\ ~Barred(x) /\ (server[x] \in Final => server'[x] = server[x])
  BY <1>0, ToldServer
<1>2. o \in Final => row[x].outcome = o
  BY <1>1, PendingRow
<1>3. UnsentOK(x)'
  BY <1>0, <1>1 DEF ResourceOK, UnsentOK, Unsent, Admitted
<1>4. AdmittedOK(x)'
  BY <1>0, <1>1 DEF ResourceOK, AdmittedOK
<1>5. QED
  BY <1>0, <1>1, <1>2, <1>3, <1>4 DEF ResourceOK, ReportedOK

LEMMA Delivers == ASSUME Inv, NEW k \in Keys, Deliver(k) PROVE Inv'
<1>1. PICK x \in Resources, o \in Final \cup {"uncertain"} : k = <<x, o>>
  BY DEF Keys
<1>0. TypeOK /\ ResourceOK(x) /\ outbox \in Boxes /\ wire \in [Resources -> Gates] /\ "uncertain" \notin Final
  BY Facts, TypesNow
<1>2. /\ k \in Pending /\ Takes(<<x, o>>) /\ server' = Told(<<x, o>>)
      /\ UNCHANGED <<native, host, journals, row, at, running, wire, fence>>
  BY <1>1 DEF Deliver, First
<1> DEFINE less == Without(outbox, {k})
<1>3. /\ less \in Boxes /\ Waiting(less) = Waiting(outbox) \ {k} /\ less.acked = outbox.acked
      /\ less.superseded = outbox.superseded /\ outbox' = [less EXCEPT !.acked = @ \cup {k}]
  BY <1>0, WithoutBox DEF Deliver
<1> HIDE DEF less
<1>4. /\ outbox' \in Boxes /\ Waiting(outbox') = Waiting(outbox) \ {k} /\ outbox'.acked = outbox.acked \cup {k}
      /\ Known(outbox') = Known(outbox)
  BY <1>2, <1>3 DEF Boxes, Waiting, Known, Pending
<1>5. \A y \in Resources : y # x => SameBox(y)
  BY <1>1, <1>4 DEF SameBox
<1>6. /\ (\A y \in Resources : y # x => server'[y] = server[y]) /\ ~Barred(x)
      /\ server' \in [Resources -> Final \cup {"absent", "fenced", "held", "started"}]
      /\ (server[x] \in Final => server'[x] = server[x]) /\ server'[x] = (IF o = "uncertain" THEN server[x] ELSE o)
  BY <1>0, <1>2, ToldServer
<1>7. /\ UnsentOK(x)' /\ AdmittedOK(x)' /\ (o \in Final => row[x].outcome = o)
      /\ row[x].phase # "not_admitted" /\ (server'[x] \in Final => row[x].outcome = server'[x])
      /\ \A f \in Final : <<x, f>> \in outbox.acked => server'[x] = f
  BY <1>1, <1>2, TakenObservation
<1>8. ReportedOK(x)'
  <2>1. \A f \in Final : <<x, f>> \in Known(outbox') => row'[x].outcome = f
    BY <1>0, <1>2, <1>4 DEF ResourceOK, ReportedOK
  <2>2. \A f \in Final : <<x, f>> \in outbox'.acked => server'[x] = f
    BY <1>0, <1>1, <1>4, <1>6, <1>7
  <2>3. row'[x].outcome \in Final => <<x, row'[x].outcome>> \in Waiting(outbox') \cup outbox'.acked
    BY <1>0, <1>2, <1>4, <1>6 DEF ResourceOK, ReportedOK, Pending
  <2>4. QED
    BY <1>2, <1>7, <2>1, <2>2, <2>3 DEF ReportedOK, Pending
<1>9. QED
  BY <1>0, <1>2, <1>4, <1>5, <1>6, <1>7, <1>8, ServerStep

LEMMA Undelivers == ASSUME Inv, NEW k \in Keys, Undelivered(k) PROVE Inv'
<1>1. PICK x \in Resources, o \in Final \cup {"uncertain"} : k = <<x, o>>
  BY DEF Keys
<1>0. /\ TypeOK /\ ResourceOK(x) /\ outbox \in Boxes /\ wire \in [Resources -> Gates] /\ "uncertain" \notin Final
      /\ server \in [Resources -> Final \cup {"absent", "fenced", "held", "started"}]
  BY Facts, TypesNow
<1>2. /\ k \in Pending /\ (server' = server \/ (Takes(<<x, o>>) /\ server' = Told(<<x, o>>)))
      /\ UNCHANGED <<native, host, journals, row, at, running, wire, fence>>
  BY <1>1 DEF Undelivered, First
<1> DEFINE less == Without(outbox, {k})
<1>3. /\ less \in Boxes /\ Waiting(less) = Waiting(outbox) \ {k} /\ less.acked = outbox.acked
      /\ less.superseded = outbox.superseded
      /\ outbox' = [less EXCEPT !.tried = @ \cup {k}, !.before = @ \cup (Waiting(less) \X {k})]
  BY <1>0, WithoutBox DEF Undelivered, Marked
<1> HIDE DEF less
<1>4. /\ outbox' \in Boxes /\ Waiting(outbox') = Waiting(outbox) /\ outbox'.acked = outbox.acked
      /\ Known(outbox') = Known(outbox)
  BY <1>2, <1>3 DEF Boxes, Waiting, Known, Pending
<1>5. \A y \in Resources : SameBox(y)
  BY <1>4 DEF SameBox
<1>6. CASE server' = server
  <2>1. UnsentOK(x)' /\ AdmittedOK(x)'
    BY <1>0, <1>2, <1>6 DEF ResourceOK, UnsentOK, Unsent, AdmittedOK, Admitted
  <2>2. ReportedOK(x)'
    BY <1>0, <1>2, <1>4, <1>6 DEF ResourceOK, ReportedOK, Pending, Barred
  <2>3. QED
    BY <1>0, <1>2, <1>4, <1>5, <1>6, <2>1, <2>2, ServerStep DEF Barred
<1>7. CASE Takes(<<x, o>>) /\ server' = Told(<<x, o>>)
  <2>1. /\ (\A y \in Resources : y # x => server'[y] = server[y]) /\ ~Barred(x)
        /\ server' \in [Resources -> Final \cup {"absent", "fenced", "held", "started"}]
        /\ (server[x] \in Final => server'[x] = server[x])
    BY <1>0, <1>7, ToldServer
  <2>2. /\ UnsentOK(x)' /\ AdmittedOK(x)' /\ row[x].phase # "not_admitted"
        /\ (server'[x] \in Final => row[x].outcome = server'[x])
        /\ \A f \in Final : <<x, f>> \in outbox.acked => server'[x] = f
    BY <1>1, <1>2, <1>7, TakenObservation
  <2>3. ReportedOK(x)'
    BY <1>0, <1>2, <1>4, <2>1, <2>2 DEF ResourceOK, ReportedOK, Pending
  <2>4. QED
    BY <1>0, <1>2, <1>4, <1>5, <2>1, <2>2, <2>3, ServerStep
<1>8. QED
  BY <1>2, <1>6, <1>7

-----------------------------------------------------------------------------
(* Steps of the owner of a later epoch *)

\* The owner writes the row of one resource; the host goes nowhere.
LEMMA OwnerWrites ==
  ASSUME Inv, NEW x \in Resources, UNCHANGED <<run, req, host, journals, at, running, wire, fence>>,
         row' \in [Resources -> RowType], \A y \in Resources : RowFits(row'[y]), outbox' \in Boxes,
         server' \in [Resources -> Final \cup {"absent", "fenced", "held", "started"}],
         \A y \in Resources : y # x => row'[y] = row[y] /\ server'[y] = server[y] /\ SameBox(y),
         ResourceOK(x)', row'[x].claimed = row[x].claimed, x \notin running,
         x \in Workers => /\ server[x] \in Final => server'[x] = server[x]
                          /\ Barred(x) => Barred(x)' \/ server'[x] \in Final,
         att' \in [Workers -> {"open", "stopped"}], \A w \in Workers : w # x => att'[w] = att[w],
         x \in Workers => att'[x] = att[x] \/ (att'[x] = "stopped" /\ Gone(x))
  PROVE  Inv'
<1>0. TypeOK /\ Clean
  BY DEF Inv
<1>1. TypeOK'
  BY <1>0, TypesNow, RowsType DEF Gates, Places, ReqType
<1>2. \A y \in Resources : ResourceOK(y)'
  BY OneResource DEF Others, SameResource
<1>3. ASSUME NEW w \in Workers PROVE WorkerOK(w)'
  <2>1. WorkerOK(w) /\ w \in Resources
    BY DEF Inv, Resources
  <2>2. CASE w = x
    BY <2>1, <2>2 DEF WorkerOK, Gone, Hosting
  <2>3. CASE w # x
    BY <2>1, <2>3 DEF WorkerOK, Hosting
  <2>4. QED
    BY <2>2, <2>3
<1>4. Clean'
  <2>1. ASSUME NEW w \in Workers PROVE /\ server[w] \in Final => server'[w] = server[w]
                                       /\ Barred(w) => Barred(w)' \/ server'[w] \in Final
                                       /\ att[w] = "stopped" => att'[w] = "stopped"
    <3>1. w \in Resources
      BY DEF Resources
    <3>2. CASE w = x
      BY <3>2
    <3>3. CASE w # x
      BY <3>1, <3>3 DEF Barred
    <3>4. QED
      BY <3>2, <3>3
  <2>2. QED
    BY <1>0, <2>1, CleanKept
<1>5. QED
  BY <1>1, <1>2, <1>3, <1>4 DEF Inv

LEMMA FencesAbsent == ASSUME Inv, NEW x \in Resources, FenceAbsent(x) PROVE Inv'
<1> DEFINE r == [row[x] EXCEPT !.phase = "not_admitted", !.outcome = "never_started"]
<1>0. /\ TypeOK /\ ResourceOK(x) /\ outbox \in Boxes /\ row[x] \in RowType /\ "none" \notin Final
      /\ "uncertain" \notin Final
  BY Facts
<1>1. /\ row[x].leased /\ ~row[x].claimed /\ row[x].outcome \in {"none", "uncertain", "never_started"}
      /\ server[x] \in {"absent", "fenced"} /\ server' = [server EXCEPT ![x] = "fenced"]
      /\ row' = [row EXCEPT ![x] = r] /\ outbox' = Superseding(outbox, KeysOf(x))
      /\ UNCHANGED <<native, host, journals, at, running, wire, fence>>
  BY DEF FenceAbsent, Fenceable
<1>2. RowFits(r) /\ r.phase = "not_admitted" /\ r.outcome = "never_started" /\ r.leased /\ r.claimed = row[x].claimed
  BY <1>0, <1>1 DEF RowFits, RowType, Phases, Final
<1> HIDE DEF r
<1>3. /\ row' \in [Resources -> RowType] /\ (\A y \in Resources : RowFits(row'[y]))
      /\ row'[x] = r /\ \A y \in Resources : y # x => row'[y] = row[y]
  BY <1>0, <1>1, <1>2, TypeRow
<1>4. /\ outbox' \in Boxes /\ Waiting(outbox') = Waiting(outbox) \ KeysOf(x) /\ outbox'.acked = outbox.acked
      /\ Known(outbox') = Known(outbox)
  BY <1>0, <1>1, SupersedingBox DEF KeysOf
<1>5. \A y \in Resources : y # x => SameBox(y)
  BY <1>4 DEF SameBox, KeysOf
<1>6. /\ server'[x] = "fenced" /\ Barred(x)' /\ server[x] \notin Final /\ server'[x] \notin Final
      /\ server' \in [Resources -> Final \cup {"absent", "fenced", "held", "started"}]
      /\ \A y \in Resources : y # x => server'[y] = server[y]
  BY <1>0, <1>1, TypesNow DEF Barred, Final
<1>7. \A o \in Final : <<x, o>> \notin outbox.acked
  BY <1>0, <1>6, NotAcked DEF ResourceOK
<1>8. UnsentOK(x)' /\ AdmittedOK(x)' /\ ClaimedOK(x)' /\ OpenedOK(x)'
  BY <1>0, <1>1, <1>2, <1>3, <1>6 DEF ResourceOK, UnsentOK, Unsent, AdmittedOK, Admitted, ClaimedOK, OpenedOK, NoRow
<1>9. ReportedOK(x)'
  BY <1>0, <1>1, <1>2, <1>3, <1>4, <1>6, <1>7 DEF ResourceOK, ReportedOK, Pending
<1>10. x \notin running
  BY <1>0, <1>1 DEF Inv, WorkerOK, TypeOK
<1>11. UNCHANGED <<run, att, req, host, journals, at, running, wire, fence>> /\ att' \in [Workers -> {"open", "stopped"}]
  BY <1>0, <1>1, TypesNow DEF native
<1>12. ResourceOK(x)'
  BY <1>8, <1>9 DEF ResourceOK
<1>13. QED
  BY <1>2, <1>3, <1>4, <1>5, <1>6, <1>10, <1>11, <1>12, OwnerWrites

LEMMA ReconcilesWorker == ASSUME Inv, NEW w \in Workers, ReconcileWorker(w) PROVE Inv'
<1> DEFINE o == IF row[w].claimed THEN "stopped" ELSE "never_started"
<1>0. TypeOK /\ w \in Resources /\ ResourceOK(w)
  BY Facts DEF Resources
<1>1. /\ row[w].phase # "none" /\ Gone(w) /\ Recorded(w, o) /\ att' = [att EXCEPT ![w] = "stopped"]
      /\ UNCHANGED <<run, req, host, journals, at, running, wire, server, fence>>
  BY DEF ReconcileWorker
<1>2. o \in Final \cup {"uncertain"} /\ o # "completed" /\ (o = "never_started" => ~row[w].claimed)
      /\ (o = "stopped" => row[w].claimed)
  BY DEF Final
<1> HIDE DEF o
<1>3. at'[w] \notin {"idle", "reserved"}
  BY <1>0, <1>1 DEF ResourceOK, OpenedOK, NoRow
<1>4. wire'[w] \in {wire[w], "none"}
  BY <1>1
<1>5. /\ row' \in [Resources -> RowType] /\ (\A y \in Resources : RowFits(row'[y])) /\ outbox' \in Boxes
      /\ (\A y \in Resources : y # w => row'[y] = row[y] /\ SameBox(y))
      /\ row'[w].claimed = row[w].claimed /\ ResourceOK(w)'
  BY <1>0, <1>1, <1>2, <1>3, <1>4, RecordedOK
<1>6. att' \in [Workers -> {"open", "stopped"}] /\ att'[w] = "stopped" /\ \A v \in Workers : v # w => att'[v] = att[v]
  BY <1>0, <1>1, TypesNow
<1>7. w \notin running /\ Gone(w)
  BY <1>1 DEF Gone
<1>8. server' \in [Resources -> Final \cup {"absent", "fenced", "held", "started"}]
  BY <1>0, <1>1, TypesNow
<1>9. Barred(w) => Barred(w)'
  BY <1>1 DEF Barred
<1>10. QED
  BY <1>0, <1>1, <1>5, <1>6, <1>7, <1>8, <1>9, OwnerWrites

LEMMA ReconcilesRequest == ASSUME Inv, NEW r \in Requests, ReconcileRequest(r) PROVE Inv'
<1> DEFINE o == IF req[r].state = "not_started" THEN "never_started" ELSE req[r].state
           s == SettledRow(r, o)
<1>0. /\ TypeOK /\ r \in Resources /\ r \notin Workers /\ r \notin running /\ ResourceOK(r) /\ outbox \in Boxes
      /\ "none" \notin Final /\ "uncertain" \notin Final /\ RowFits(row[r])
  BY Facts, ResourceAssumption DEF Resources, TypeOK
<1>1. /\ row[r].phase # "none" /\ Provable(r) /\ (row[r].outcome \in Final => row[r].outcome = o)
      /\ row' = [row EXCEPT ![r] = s]
      /\ outbox' = (IF row[r].leased /\ row[r].phase # "not_admitted" THEN Enqueued(outbox, r, o) ELSE outbox)
      /\ UNCHANGED <<native, host, journals, at, running, wire, server, fence>>
  BY DEF ReconcileRequest
<1>2. o \in Final /\ o \notin {"uncertain", "stopped"} /\ (o = "completed" => row[r].claimed) /\ (o = "never_started" => ~row[r].claimed)
  BY <1>1 DEF Provable, Final
<1>3. /\ RowFits(s) /\ s.outcome = o /\ s.phase = "settled" /\ s.leased = row[r].leased /\ s.claimed = row[r].claimed
  BY <1>0, <1>2, SettledType
<1> HIDE DEF o, s
<1>4. /\ row' \in [Resources -> RowType] /\ (\A y \in Resources : RowFits(row'[y]))
      /\ row'[r] = s /\ \A y \in Resources : y # r => row'[y] = row[y]
  BY <1>0, <1>1, <1>3, TypeRow
<1>5. /\ outbox' \in Boxes /\ outbox'.acked = outbox.acked /\ (\A y \in Resources : y # r => SameBox(y))
      /\ (\A f \in Final : <<r, f>> \in Known(outbox') => <<r, f>> \in Known(outbox) \/ f = o)
      /\ (\A f \in Final : <<r, f>> \in Waiting(outbox) => <<r, f>> \in Waiting(outbox'))
      /\ row[r].leased /\ row[r].phase # "not_admitted" /\ <<r, o>> \notin Known(outbox) => <<r, o>> \in Waiting(outbox')
  <2>1. CASE row[r].leased /\ row[r].phase # "not_admitted"
    BY <1>0, <1>1, <1>2, <2>1, EnqueuedKeys
  <2>2. CASE ~(row[r].leased /\ row[r].phase # "not_admitted")
    BY <1>0, <1>1, <2>2, BoxKept
  <2>3. QED
    BY <2>1, <2>2
<1>6. UnsentOK(r)' /\ AdmittedOK(r)' /\ ClaimedOK(r)'
  BY <1>0, <1>1, <1>2, <1>3, <1>4 DEF ResourceOK, UnsentOK, Unsent, AdmittedOK, Admitted, ClaimedOK
<1>7. OpenedOK(r)'
  BY <1>0, <1>1 DEF ResourceOK, OpenedOK, NoRow
<1>8. Barred(r) => Barred(r)'
  BY <1>1 DEF Barred
<1>9. ReportedOK(r)'
  <2>1. \A f \in Final : <<r, f>> \in Known(outbox') => row'[r].outcome = f
    BY <1>0, <1>1, <1>3, <1>4, <1>5 DEF ResourceOK, ReportedOK
  <2>2. \A f \in Final : <<r, f>> \in outbox'.acked => server'[r] = f
    BY <1>0, <1>1, <1>5 DEF ResourceOK, ReportedOK
  <2>3. server'[r] \in Final => row'[r].outcome = server'[r]
    BY <1>0, <1>1, <1>3, <1>4 DEF ResourceOK, ReportedOK
  <2>4. <<r, o>> \in Waiting(outbox') \cup outbox'.acked \/ Barred(r)
    <3>1. CASE row[r].outcome \in Final
      BY <1>0, <1>1, <1>5, <3>1 DEF ResourceOK, ReportedOK, Pending
    <3>2. CASE row[r].outcome \notin Final
      <4>1. row[r].phase # "not_admitted" /\ <<r, o>> \notin Known(outbox)
        BY <1>0, <1>2, <3>2 DEF RowFits, ResourceOK, ReportedOK
      <4>2. ~row[r].leased => Barred(r)
        BY <1>0 DEF ResourceOK, UnsentOK, Barred
      <4>3. QED
        BY <1>5, <4>1, <4>2
    <3>3. QED
      BY <3>1, <3>2
  <2>5. QED
    BY <1>3, <1>4, <1>8, <2>1, <2>2, <2>3, <2>4 DEF ReportedOK, Pending
<1>10. ResourceOK(r)'
  BY <1>6, <1>7, <1>9 DEF ResourceOK
<1>11. /\ UNCHANGED <<run, att, req, host, journals, at, running, wire, fence, server>>
       /\ att' \in [Workers -> {"open", "stopped"}]
       /\ server' \in [Resources -> Final \cup {"absent", "fenced", "held", "started"}]
  BY <1>0, <1>1, TypesNow DEF native
<1>12. QED
  BY <1>0, <1>3, <1>4, <1>5, <1>10, <1>11, OwnerWrites

\* The permits of the journals are closed: what was never sent never started,
\* what was is of unknown outcome.
LEMMA Fences == ASSUME Inv, Fence PROVE Inv'
<1>0. /\ TypeOK /\ outbox \in Boxes /\ "none" \notin Final /\ "uncertain" \notin Final
      /\ row \in [Resources -> RowType] /\ (\A x \in Resources : RowFits(row[x]))
  BY TypesNow DEF Inv, Final
<1>1. UNCHANGED <<run, att, req, host, journals, at, running, wire, server>> /\ fence' \in {"no", "done", "refused"}
  BY DEF Fence, native
<1>2. CASE UNCHANGED <<row, outbox>>
  <2>1. TypeOK'
    BY <1>0, <1>1, <1>2, TypesNow, TypesBeside
  <2>2. Clean' /\ \A x \in Resources : ResourceOK(x)'
    BY <1>1, <1>2, Beside
  <2>3. \A w \in Workers : WorkerOK(w)'
    BY <1>1, <1>2, WorkersBeside DEF Hosting
  <2>4. QED
    BY <2>1, <2>2, <2>3 DEF Inv
<1>3. CASE /\ row' = [x \in Resources |-> IF x \in Open THEN SettledRow(x, Closing(x)) ELSE row[x]]
           /\ outbox' = Added(outbox, {<<x, "uncertain">> : x \in {y \in Open : ~Unsent(y)}} \ Known(outbox))
  <2> DEFINE keys == {<<x, "uncertain">> : x \in {y \in Open : ~Unsent(y)}} \ Known(outbox)
  <2>1. keys \in SUBSET Keys /\ \A x \in Resources, o \in Final : <<x, o>> \notin keys
    BY <1>0 DEF Keys, Open
  <2> HIDE DEF keys
  <2>2. /\ outbox' \in Boxes /\ Waiting(outbox') = Waiting(outbox) \cup keys /\ outbox'.acked = outbox.acked
        /\ outbox'.superseded = outbox.superseded
    BY <1>0, <1>3, <2>1, AddedBox DEF keys
  <2>3. \A x \in Resources : SameBox(x)
    BY <2>1, <2>2 DEF SameBox, Known
  <2>4. ASSUME NEW x \in Resources
        PROVE  /\ RowFits(row'[x]) /\ row'[x].claimed = row[x].claimed /\ row'[x].leased = row[x].leased
               /\ row'[x] = row[x] \/ /\ row[x].outcome = "none" /\ row[x].phase # "none"
                                      /\ row'[x].phase \in {"settled", "uncertain"}
                                      /\ row'[x].outcome = IF Unsent(x) THEN "never_started" ELSE "uncertain"
    <3>1. Closing(x) \in Final \cup {"uncertain"} /\ Closing(x) = IF Unsent(x) THEN "never_started" ELSE "uncertain"
      BY DEF Closing, Final
    <3>2. /\ RowFits(SettledRow(x, Closing(x))) /\ SettledRow(x, Closing(x)).outcome = Closing(x)
          /\ SettledRow(x, Closing(x)).phase \in {"settled", "uncertain"}
          /\ SettledRow(x, Closing(x)).leased = row[x].leased /\ SettledRow(x, Closing(x)).claimed = row[x].claimed
      BY <1>0, <3>1, SettledType
    <3>3. row'[x] = IF x \in Open THEN SettledRow(x, Closing(x)) ELSE row[x]
      BY <1>3
    <3>4. QED
      BY <1>0, <3>1, <3>2, <3>3 DEF Open
  <2>5. row' \in [Resources -> RowType]
    BY <1>3, <2>4 DEF RowFits
  <2>6. TypeOK'
    BY <1>0, <1>1, <2>2, <2>4, <2>5, TypesNow, RowsType DEF Places, ReqType, Gates
  <2>7. ASSUME NEW x \in Resources PROVE ResourceOK(x)'
    <3>1. ResourceOK(x)
      BY DEF Inv
    <3>2. CASE row'[x] = row[x]
      BY <1>1, <2>3, <3>1, <3>2, ResourceKept DEF SameResource
    <3>3. CASE row'[x] # row[x]
      <4>1. /\ row[x].outcome = "none" /\ row[x].phase # "none" /\ row'[x].phase \in {"settled", "uncertain"}
            /\ row'[x].outcome = (IF Unsent(x) THEN "never_started" ELSE "uncertain")
            /\ row'[x].claimed = row[x].claimed /\ row'[x].leased = row[x].leased
        BY <2>4, <3>3
      <4>2. UnsentOK(x)' /\ AdmittedOK(x)' /\ ClaimedOK(x)'
        BY <1>0, <1>1, <3>1, <4>1 DEF ResourceOK, UnsentOK, Unsent, AdmittedOK, Admitted, ClaimedOK
      <4>3. OpenedOK(x)'
        BY <1>1, <3>1, <4>1 DEF ResourceOK, OpenedOK, NoRow
      <4>4. server[x] \notin Final /\ (\A o \in Final : <<x, o>> \notin Known(outbox))
        BY <1>0, <3>1, <4>1 DEF ResourceOK, ReportedOK
      <4>5. Unsent(x) => Barred(x)'
        BY <1>1, <3>1 DEF ResourceOK, UnsentOK, Barred
      <4>6. ReportedOK(x)'
        BY <1>0, <1>1, <2>3, <3>1, <4>1, <4>4, <4>5 DEF ResourceOK, ReportedOK, SameBox
      <4>7. QED
        BY <4>2, <4>3, <4>6 DEF ResourceOK
    <3>4. QED
      BY <3>2, <3>3
  <2>8. ASSUME NEW w \in Workers PROVE WorkerOK(w)'
    <3>1. WorkerOK(w) /\ w \in Resources /\ ResourceOK(w)
      BY DEF Inv, Resources
    <3>2. w \in running => row'[w].outcome \notin Final
      BY <1>0, <2>4, <3>1 DEF WorkerOK, ResourceOK, UnsentOK
    <3>3. row'[w].claimed = row[w].claimed
      BY <2>4, <3>1
    <3>4. QED
      BY <1>1, <3>1, <3>2, <3>3 DEF WorkerOK, Hosting
  <2>9. Clean'
    BY <1>1 DEF Inv, Clean, Barred
  <2>10. QED
    BY <2>6, <2>7, <2>8, <2>9 DEF Inv
<1>4. QED
  BY <1>2, <1>3 DEF Fence

-----------------------------------------------------------------------------
(* The theorems *)

LEMMA InvInit == Init => Inv
<1> SUFFICES ASSUME Init PROVE Inv
  OBVIOUS
<1>1. TypeOK
  BY EpochAssumption DEF Init, TypeOK, NoRow, Phases, Final, Keys
<1>2. ASSUME NEW x \in Resources PROVE ResourceOK(x)
  <2>1. /\ row[x] = NoRow /\ wire[x] = "none" /\ server[x] = "absent" /\ at[x] = "idle" /\ Known(outbox) = {}
        /\ outbox.acked = {} /\ "none" \notin Final /\ "absent" \notin Final
    BY DEF Init, Known, Waiting, Final
  <2>2. NoRow.phase = "none" /\ NoRow.outcome = "none" /\ ~NoRow.leased /\ ~NoRow.claimed
    BY DEF NoRow
  <2>3. UnsentOK(x) /\ AdmittedOK(x) /\ ClaimedOK(x) /\ OpenedOK(x)
    BY <2>1, <2>2 DEF UnsentOK, Unsent, AdmittedOK, Admitted, ClaimedOK, OpenedOK
  <2>4. ReportedOK(x)
    BY <2>1, <2>2 DEF ReportedOK
  <2>5. QED
    BY <2>3, <2>4 DEF ResourceOK
<1>3. ASSUME NEW w \in Workers PROVE WorkerOK(w)
  BY DEF Init, WorkerOK, Resources
<1>4. Clean
  BY DEF Init, Clean
<1>5. QED
  BY <1>1, <1>2, <1>3, <1>4 DEF Inv

LEMMA InvStutter == ASSUME Inv, UNCHANGED vars PROVE Inv'
<1>1. UNCHANGED <<run, att, req, host, journals, row, outbox, at, running, wire, server, fence>>
  BY DEF vars, native
<1>2. TypeOK'
  BY <1>1, TypesNow, TypesBeside DEF Inv
<1>3. Clean' /\ \A x \in Resources : ResourceOK(x)'
  BY <1>1, Beside
<1>4. \A w \in Workers : WorkerOK(w)'
  BY <1>1, WorkersBeside DEF Hosting
<1>5. QED
  BY <1>2, <1>3, <1>4 DEF Inv

LEMMA InvNext == ASSUME Inv, [Next]_vars PROVE Inv'
<1>1. ASSUME NEW w \in Workers, SlotStep(w) \/ ChildEnds(w) PROVE Inv'
  BY <1>1, Slots, Receives, Claims, Reports, Stops, Childless DEF SlotStep
<1>2. ASSUME NEW r \in Requests, RequestStep(r) \/ StartUnit(r) PROVE Inv'
  BY <1>2, Moves, Hosted, Receives, Reports, UnitsStart DEF RequestStep
<1>3. ASSUME NEW x \in Resources, Admit(x) PROVE Inv'
  BY <1>3, Admits
<1>4. CASE Flush
  BY <1>4, Delivers, Undelivers DEF Flush
<1>5. CASE OwnerStep
  <2>1. CASE TakeOver \/ Fence \/ Attach \/ Recover
    BY <2>1, TakesOver, Fences, Attaches, RunSettled
  <2>2. CASE \E w \in Workers : ObserveEnd(w) \/ ReconcileWorker(w)
    BY <2>2, EndsObserved, ReconcilesWorker
  <2>3. CASE \E r \in Requests : ReconcileRequest(r) \/ \E o \in Settled : SettleRequest(r, o)
    BY <2>3, ReconcilesRequest, RunSettled
  <2>4. CASE \E x \in Resources : FenceAbsent(x) \/ FenceUnheard(x)
    BY <2>4, FencesAbsent, Unheard
  <2>5. QED
    BY <1>5, <2>1, <2>2, <2>3, <2>4 DEF OwnerStep
<1>6. CASE \E e \in 1..MaxEpoch : Crash(e)
  BY <1>6, Crashes
<1>7. CASE UNCHANGED vars
  BY <1>7, InvStutter
<1>8. QED
  BY <1>1, <1>2, <1>3, <1>4, <1>5, <1>6, <1>7 DEF Next

\* The invariant that carries the theorems below.
THEOREM Invariance == Spec => []Inv
<1>1. Init => Inv
  BY InvInit
<1>2. Inv /\ [Next]_vars => Inv'
  BY InvNext
<1>3. QED
  BY <1>1, <1>2, PTL DEF Spec

\* Every row, message and account has its type, and a row's phase and outcome
\* agree, whatever the host, the server and the owners do.
THEOREM TypeCorrect == Spec => []TypeOK
<1>1. Inv => TypeOK
  BY DEF Inv
<1>2. QED
  BY <1>1, Invariance, PTL

\* What the server was told is over is over, and what it holds is not forgotten:
\* whatever is lost, delayed, refused or delivered again, and whoever crashes, a
\* slot is released only after its participant ended, nothing known as never
\* started consumed a permit, and the end of what is held is open or still to
\* be delivered.
THEOREM Accounts == Spec => []AccountsAgree
<1>1. ASSUME Inv PROVE ReleasedIsOver
  <2>1. ASSUME NEW w \in Workers, server[w] \in Final \cup {"absent", "fenced"}, w \in running PROVE FALSE
    <3>1. w \in Resources /\ row[w].claimed /\ row[w].outcome \notin Final
      BY <1>1, <2>1 DEF Inv, WorkerOK, Resources
    <3>2. Admitted(w) /\ server[w] \notin Final
      BY <1>1, <3>1, Facts DEF ResourceOK, AdmittedOK, ReportedOK
    <3>3. QED
      BY <2>1, <3>2 DEF Admitted
  <2>2. ASSUME NEW x \in Resources, server[x] \in {"never_started", "absent", "fenced"} PROVE ~row[x].claimed
    <3>1. CASE server[x] = "never_started"
      BY <1>1, <3>1, Facts DEF ResourceOK, ReportedOK, ClaimedOK, Final
    <3>2. CASE server[x] # "never_started"
      BY <1>1, <2>2, <3>2, Facts DEF ResourceOK, AdmittedOK, Admitted
    <3>3. QED
      BY <3>1, <3>2
  <2>3. ASSUME NEW r \in Requests, server[r] = "completed" PROVE row[r].claimed
    BY <1>1, <2>3, Facts DEF ResourceOK, ReportedOK, ClaimedOK, Final, Resources
  <2>4. QED
    BY <2>1, <2>2, <2>3 DEF ReleasedIsOver
<1>2. ASSUME Inv PROVE HeldIsOwed
  <2>1. ASSUME NEW x \in Resources, server[x] \in {"held", "started"}
        PROVE  row[x].leased /\ (row[x].outcome \in Final => <<x, row[x].outcome>> \in Pending)
    <3>1. ResourceOK(x) /\ ~Barred(x) /\ server[x] \notin Final /\ server[x] # "absent"
      BY <1>2, <2>1, Facts DEF Barred, Final
    <3>2. row[x].leased
      BY <1>2, <3>1, Facts DEF ResourceOK, UnsentOK, RowType
    <3>3. row[x].outcome \in Final => <<x, row[x].outcome>> \notin outbox.acked
      BY <3>1, NotAcked DEF ResourceOK
    <3>4. QED
      BY <3>1, <3>2, <3>3 DEF ResourceOK, ReportedOK
  <2>2. QED
    BY <2>1 DEF HeldIsOwed
<1>3. Inv => AccountsAgree
  BY <1>1, <1>2 DEF AccountsAgree
<1>4. QED
  BY <1>3, Invariance, PTL

\* A team continues in a later epoch only with every slot of the first given
\* back: told over, or fenced off for good, and none is taken afterwards by a
\* message that was still on its way.
THEOREM Continues == Spec => []ContinuesClean
<1>1. ASSUME Inv PROVE ContinuesClean
  <2>1. ASSUME NEW w \in Workers, journals # {1}, server[w] = "held" PROVE FALSE
    <3>1. server[w] \in Final \/ Barred(w)
      BY <1>1, <2>1 DEF Inv, Clean
    <3>2. QED
      BY <2>1, <3>1 DEF Barred, Final
  <2>2. QED
    BY <2>1 DEF ContinuesClean
<1>2. QED
  BY <1>1, Invariance, PTL

-----------------------------------------------------------------------------
(* The accounts of the server implement ManagedLedger *)

Account == [x \in Resources |-> IF server[x] = "started" THEN "held" ELSE server[x]]
ClaimsKept == \A x \in Resources : row'[x].claimed = row[x].claimed

LEMMA Accounting ==
  /\ ClaimsKept => {x \in Resources : row'[x].claimed} = {x \in Resources : row[x].claimed}
  /\ \A x \in Resources : Account[x] = IF server[x] = "started" THEN "held" ELSE server[x]
  BY DEF ClaimsKept, Account

\* Nothing of the ledger moves, unless participants end.
LEMMA LeaveStep ==
  ASSUME ClaimsKept, UNCHANGED <<server, journals>>, running' \subseteq running
  PROVE  Ledger!Leave
  BY Accounting DEF Ledger!Leave

LEMMA LedgerStutter ==
  ASSUME ClaimsKept, UNCHANGED <<journals, running>>,
         \A x \in Resources : \/ server'[x] = server[x]
                              \/ server[x] \in {"held", "started"} /\ server'[x] \in {"held", "started"}
  PROVE  UNCHANGED Ledger!vars
  BY Accounting DEF Ledger!vars

LEMMA UseStep ==
  ASSUME NEW x \in Resources, server[x] \in {"held", "started"}, ~row[x].claimed, row'[x].claimed,
         \A y \in Resources : y # x => row'[y].claimed = row[y].claimed,
         running' = running \cup ({x} \cap Workers), UNCHANGED <<server, journals>>
  PROVE  Ledger!Use(x)
<1>1. {y \in Resources : row'[y].claimed} = {y \in Resources : row[y].claimed} \cup {x}
  OBVIOUS
<1>2. QED
  BY <1>1 DEF Ledger!Use

\* The server's account of one resource is written.
LEMMA AccountWritten ==
  ASSUME TypeOK, NEW x \in Resources, NEW v, v # "started", server' = [server EXCEPT ![x] = v]
  PROVE  [y \in Resources |-> IF server'[y] = "started" THEN "held" ELSE server'[y]]
         = [[y \in Resources |-> IF server[y] = "started" THEN "held" ELSE server[y]] EXCEPT ![x] = v]
  BY DEF TypeOK

LEMMA TakeStep ==
  ASSUME TypeOK, NEW x \in Resources, server[x] = "absent", server' = [server EXCEPT ![x] = "held"],
         x \in Workers => journals = {1}, ClaimsKept, UNCHANGED <<running, journals>>
  PROVE  Ledger!Take(x)
  BY Accounting, AccountWritten DEF Ledger!Take

LEMMA BarStep ==
  ASSUME TypeOK, NEW x \in Resources, server[x] = "absent", server' = [server EXCEPT ![x] = "fenced"],
         ~row[x].claimed, ClaimsKept, UNCHANGED <<running, journals>>
  PROVE  Ledger!Bar(x)
  BY Accounting, AccountWritten DEF Ledger!Bar

LEMMA GiveBackStep ==
  ASSUME TypeOK, NEW x \in Resources, NEW o \in Final, server[x] \in {"held", "started"},
         server' = [server EXCEPT ![x] = o], x \notin running,
         o \in {"completed", "stopped"} => row[x].claimed, o = "never_started" => ~row[x].claimed,
         ClaimsKept, UNCHANGED <<running, journals>>
  PROVE  Ledger!GiveBack(x, o)
<1>1. o # "started"
  BY DEF Final
<1>2. QED
  BY <1>1, Accounting, AccountWritten DEF Ledger!GiveBack

LEMMA ContinueStep ==
  ASSUME TypeOK, running = {}, \A w \in Workers : server[w] \notin {"held", "started"}, journals' # {1},
         ClaimsKept, UNCHANGED <<running, server>>
  PROVE  Ledger!Continue
  BY Accounting DEF Ledger!Continue, Resources

-----------------------------------------------------------------------------
(* Claims of the rows *)

LEMMA FieldsKept ==
  ASSUME TypeOK, NEW x \in Resources, NEW r, r.claimed = row[x].claimed, row' = [row EXCEPT ![x] = r]
  PROVE  ClaimsKept
  BY DEF TypeOK, ClaimsKept

LEMMA RecordedClaims ==
  ASSUME TypeOK, NEW x \in Resources, NEW o \in Final \cup {"uncertain"}, Recorded(x, o)
  PROVE  ClaimsKept
<1>1. CASE row' = row
  BY <1>1 DEF ClaimsKept
<1>2. CASE row' = [row EXCEPT ![x] = SettledRow(x, o)]
  BY <1>2, SettledType, FieldsKept
<1>3. QED
  BY <1>1, <1>2 DEF Recorded

\* A step of which the ledger sees nothing, or only that participants end.
Quiet == ClaimsKept /\ UNCHANGED <<server, journals>> /\ running' \subseteq running

LEMMA SameRows == ASSUME row' = row PROVE ClaimsKept
  BY DEF ClaimsKept

LEMMA QuietSlots ==
  ASSUME Inv, NEW w \in Workers,
         \/ OpenSlot(w) \/ SendSlot(w) \/ ReceiveSlot(w) \/ ReportSlot(w) \/ ChildEnds(w)
         \/ \E closed \in BOOLEAN : StopParticipant(w, closed)
  PROVE  Quiet
<1>0. TypeOK /\ w \in Resources /\ row[w] \in RowType
  BY Facts DEF Resources
<1>1. CASE OpenSlot(w)
  <2>1. ClaimsKept
    BY <1>0, <1>1, FieldsKept DEF OpenSlot, RowType
  <2>2. QED
    BY <1>1, <2>1 DEF OpenSlot, Quiet
<1>2. CASE SendSlot(w)
  <2>1. ClaimsKept
    BY <1>0, <1>2, FieldsKept DEF SendSlot, RowType
  <2>2. QED
    BY <1>2, <2>1 DEF SendSlot, Quiet
<1>3. CASE ReceiveSlot(w)
  <2>1. CASE Recorded(w, "uncertain")
    BY <1>0, <1>3, <2>1, RecordedClaims DEF ReceiveSlot, Quiet
  <2>2. CASE row' = [row EXCEPT ![w].phase = "permitted"]
    <3>1. ClaimsKept
      BY <1>0, <2>2, FieldsKept DEF RowType
    <3>2. QED
      BY <1>3, <3>1 DEF ReceiveSlot, Quiet
  <2>3. QED
    BY <1>3, <2>1, <2>2 DEF ReceiveSlot
<1>4. CASE ReportSlot(w)
  <2> DEFINE o == IF at[w] = "unclosed" THEN "uncertain"
                  ELSE IF row[w].claimed THEN "stopped" ELSE "never_started"
  <2>1. o \in Final \cup {"uncertain"} /\ (Recorded(w, o) \/ row' = row)
    BY <1>4 DEF ReportSlot, Final
  <2> HIDE DEF o
  <2>2. ClaimsKept
    BY <1>0, <2>1, RecordedClaims, SameRows
  <2>3. QED
    BY <1>4, <2>2 DEF ReportSlot, Quiet
<1>5. CASE ChildEnds(w)
  BY <1>5, SameRows DEF ChildEnds, Quiet
<1>6. CASE \E closed \in BOOLEAN : StopParticipant(w, closed)
  BY <1>6, SameRows DEF StopParticipant, Quiet
<1>7. QED
  BY <1>1, <1>2, <1>3, <1>4, <1>5, <1>6

LEMMA QuietRequests ==
  ASSUME Inv, NEW r \in Requests, RequestStep(r), ~ClaimRequest(r)
  PROVE  Quiet
<1>0. TypeOK /\ r \in Resources /\ row[r] \in RowType
  BY Facts DEF Resources
<1>1. CASE OpenRequest(r) \/ SendReserve(r) \/ ReceiveReserve(r) \/ ReceiveDenial(r) \/ SendStart(r)
  <2>1. CASE OpenRequest(r)
    <3>1. ClaimsKept
      BY <1>0, <2>1, FieldsKept DEF OpenRequest, RowType
    <3>2. QED
      BY <2>1, <3>1 DEF OpenRequest, Quiet
  <2>2. CASE SendReserve(r)
    <3>1. ClaimsKept
      BY <1>0, <2>2, FieldsKept DEF SendReserve, RowType
    <3>2. QED
      BY <2>2, <3>1 DEF SendReserve, Quiet
  <2>3. CASE ReceiveReserve(r)
    <3>1. ClaimsKept
      BY <1>0, <2>3, FieldsKept DEF ReceiveReserve, RowType
    <3>2. QED
      BY <2>3, <3>1 DEF ReceiveReserve, Quiet
  <2>4. CASE ReceiveDenial(r)
    <3>1. ClaimsKept
      BY <1>0, <2>4, FieldsKept DEF ReceiveDenial, RowType
    <3>2. QED
      BY <2>4, <3>1 DEF ReceiveDenial, Quiet
  <2>5. CASE SendStart(r)
    <3>1. ClaimsKept
      BY <1>0, <2>5, FieldsKept DEF SendStart, RowType
    <3>2. QED
      BY <2>5, <3>1 DEF SendStart, Quiet
  <2>6. QED
    BY <1>1, <2>1, <2>2, <2>3, <2>4, <2>5
<1>2. CASE ReceiveStart(r)
  <2>1. CASE Recorded(r, "uncertain")
    BY <1>0, <1>2, <2>1, RecordedClaims DEF ReceiveStart, Quiet
  <2>2. CASE row' = [row EXCEPT ![r].phase = "permitted"]
    <3>1. ClaimsKept
      BY <1>0, <2>2, FieldsKept DEF RowType
    <3>2. QED
      BY <1>2, <3>1 DEF ReceiveStart, Quiet
  <2>3. QED
    BY <1>2, <2>1, <2>2 DEF ReceiveStart
<1>3. CASE ReserveRequest(r) \/ StartRequest(r) \/ \E o \in {"completed", "uncertain"} : EndRequest(r, o)
  BY <1>3, SameRows DEF ReserveRequest, StartRequest, EndRequest, Quiet
<1>4. CASE ObserveRequest(r) \/ AbandonRequest(r) \/ ReportRequest(r)
  <2>1. \/ row' = row \/ Recorded(r, "completed") \/ Recorded(r, "uncertain")
    BY <1>4 DEF ObserveRequest, AbandonRequest, ReportRequest
  <2>2. ClaimsKept
    BY <1>0, <2>1, RecordedClaims, SameRows DEF Final
  <2>3. QED
    BY <1>4, <2>2 DEF ObserveRequest, AbandonRequest, ReportRequest, Quiet
<1>5. QED
  BY <1>1, <1>2, <1>3, <1>4 DEF RequestStep

LEMMA QuietOwner ==
  ASSUME Inv,
         \/ TakeOver \/ Fence \/ Recover \/ (\E e \in 1..MaxEpoch : Crash(e))
         \/ (\E w \in Workers : ObserveEnd(w) \/ ReconcileWorker(w))
         \/ \E r \in Requests : ReconcileRequest(r) \/ \E o \in Settled : SettleRequest(r, o)
  PROVE  Quiet
<1>0. TypeOK
  BY DEF Inv
<1>1. CASE TakeOver \/ Recover \/ (\E e \in 1..MaxEpoch : Crash(e)) \/ (\E w \in Workers : ObserveEnd(w))
           \/ \E r \in Requests, o \in Settled : SettleRequest(r, o)
  <2>1. row' = row /\ UNCHANGED <<server, journals>> /\ running' \subseteq running
    BY <1>1 DEF TakeOver, Recover, Crash, ObserveEnd, SettleRequest
  <2>2. QED
    BY <2>1, SameRows DEF Quiet
<1>2. CASE Fence
  <2>1. UNCHANGED <<server, journals, running>>
    BY <1>2 DEF Fence
  <2>2. CASE row' = [x \in Resources |-> IF x \in Open THEN SettledRow(x, Closing(x)) ELSE row[x]]
    <3>1. ASSUME NEW x \in Resources PROVE row'[x].claimed = row[x].claimed
      <4>1. Closing(x) \in Final \cup {"uncertain"}
        BY DEF Closing, Final
      <4>2. SettledRow(x, Closing(x)).claimed = row[x].claimed
        BY <1>0, <4>1, SettledType
      <4>3. QED
        BY <2>2, <4>2
    <3>2. QED
      BY <2>1, <3>1 DEF Quiet, ClaimsKept
  <2>3. CASE row' = row
    BY <2>1, <2>3, SameRows DEF Quiet
  <2>4. QED
    BY <1>2, <2>2, <2>3 DEF Fence
<1>3. CASE \E w \in Workers : ReconcileWorker(w)
  <2>1. PICK w \in Workers : ReconcileWorker(w)
    BY <1>3
  <2> DEFINE o == IF row[w].claimed THEN "stopped" ELSE "never_started"
  <2>2. w \in Resources /\ o \in Final \cup {"uncertain"} /\ Recorded(w, o) /\ UNCHANGED <<server, journals, running>>
    BY <2>1 DEF ReconcileWorker, Resources, Final
  <2> HIDE DEF o
  <2>3. QED
    BY <1>0, <2>2, RecordedClaims DEF Quiet
<1>4. CASE \E r \in Requests : ReconcileRequest(r)
  <2>1. PICK r \in Requests : ReconcileRequest(r)
    BY <1>4
  <2> DEFINE o == IF req[r].state = "not_started" THEN "never_started" ELSE req[r].state
  <2>2. /\ r \in Resources /\ Provable(r) /\ row' = [row EXCEPT ![r] = SettledRow(r, o)]
        /\ UNCHANGED <<server, journals, running>>
    BY <2>1 DEF ReconcileRequest, Resources
  <2>3. o \in Final \cup {"uncertain"}
    BY <2>2 DEF Provable, Final
  <2> HIDE DEF o
  <2>4. ClaimsKept
    BY <1>0, <2>2, <2>3, SettledType, FieldsKept
  <2>5. QED
    BY <2>2, <2>4 DEF Quiet
<1>5. QED
  BY <1>1, <1>2, <1>3, <1>4


-----------------------------------------------------------------------------
(* The steps the ledger sees *)

LEMMA SlotUsed == ASSUME Inv, NEW w \in Workers, ClaimSlot(w) PROVE Ledger!Use(w)
<1>0. /\ TypeOK /\ w \in Resources /\ ResourceOK(w) /\ row[w] \in RowType /\ RowFits(row[w])
  BY Facts DEF Resources
<1> DEFINE r == [row[w] EXCEPT !.phase = "invoked", !.claimed = TRUE]
<1>1. /\ row[w].phase = "permitted" /\ row' = [row EXCEPT ![w] = r] /\ running' = running \cup {w}
      /\ UNCHANGED <<server, journals>> /\ r.claimed
  BY <1>0 DEF ClaimSlot, RowType
<1>2. ~row[w].claimed /\ row[w].outcome \notin Final /\ Admitted(w)
  BY <1>0, <1>1 DEF ResourceOK, ClaimedOK, AdmittedOK, RowFits
<1>3. server[w] \in {"held", "started"}
  BY <1>0, <1>2, TypesNow DEF ResourceOK, ReportedOK, Admitted
<1> HIDE DEF r
<1>4. row'[w].claimed /\ \A y \in Resources : y # w => row'[y].claimed = row[y].claimed
  BY <1>0, <1>1 DEF TypeOK
<1>5. QED
  BY <1>0, <1>1, <1>2, <1>3, <1>4, UseStep

LEMMA UnitUsed == ASSUME Inv, NEW q \in Requests, ClaimRequest(q) PROVE Ledger!Use(q)
<1>0. /\ TypeOK /\ q \in Resources /\ q \notin Workers /\ ResourceOK(q) /\ row[q] \in RowType /\ RowFits(row[q])
  BY Facts, ResourceAssumption DEF Resources
<1> DEFINE r == [row[q] EXCEPT !.phase = "invoked", !.claimed = TRUE]
<1>1. /\ row[q].phase = "permitted" /\ row' = [row EXCEPT ![q] = r] /\ running' = running
      /\ UNCHANGED <<server, journals>> /\ r.claimed
  BY <1>0 DEF ClaimRequest, RowType
<1>2. ~row[q].claimed /\ row[q].outcome \notin Final /\ Admitted(q)
  BY <1>0, <1>1 DEF ResourceOK, ClaimedOK, AdmittedOK, RowFits
<1>3. server[q] \in {"held", "started"}
  BY <1>0, <1>2, TypesNow DEF ResourceOK, ReportedOK, Admitted
<1> HIDE DEF r
<1>4. row'[q].claimed /\ \A y \in Resources : y # q => row'[y].claimed = row[y].claimed
  BY <1>0, <1>1 DEF TypeOK
<1>5. QED
  BY <1>0, <1>1, <1>2, <1>3, <1>4, UseStep

\* An admission takes what was absent, and a slot only before the team continues.
LEMMA Admission ==
  ASSUME Inv, NEW x \in Resources, Admit(x) PROVE Ledger!Take(x) \/ UNCHANGED Ledger!vars
<1>0. TypeOK /\ Clean
  BY DEF Inv
<1>1. /\ wire[x] = "asked" /\ UNCHANGED <<journals, row, running>> /\ ClaimsKept
      /\ \/ server[x] = "absent" /\ server' = [server EXCEPT ![x] = "held"]
         \/ server' = server
  BY SameRows DEF Admit
<1>2. CASE server' = server
  BY <1>1, <1>2, LedgerStutter
<1>3. CASE server[x] = "absent" /\ server' = [server EXCEPT ![x] = "held"]
  <2>1. x \in Workers => journals = {1}
    BY <1>0, <1>1, <1>3 DEF Clean, Barred, Final
  <2>2. QED
    BY <1>0, <1>1, <1>3, <2>1, TakeStep
<1>4. QED
  BY <1>1, <1>2, <1>3

LEMMA UnitStarted == ASSUME Inv, NEW r \in Requests, StartUnit(r) PROVE UNCHANGED Ledger!vars
<1>0. TypeOK /\ r \in Resources
  BY DEF Inv, Resources
<1>1. /\ server[r] = "held" /\ server' = [server EXCEPT ![r] = "started"]
      /\ UNCHANGED <<journals, row, running>> /\ ClaimsKept
  BY SameRows DEF StartUnit
<1>2. \A x \in Resources : \/ server'[x] = server[x]
                           \/ server[x] \in {"held", "started"} /\ server'[x] \in {"held", "started"}
  BY <1>0, <1>1 DEF TypeOK
<1>3. QED
  BY <1>1, <1>2, LedgerStutter

\* An observation the server takes gives back what it held, as the journal
\* recorded it, after what ran in it; taken again it changes nothing.
LEMMA Observed ==
  ASSUME Inv, NEW x \in Resources, NEW o \in Final \cup {"uncertain"}, <<x, o>> \in Pending, Takes(<<x, o>>),
         server' = Told(<<x, o>>), UNCHANGED <<journals, row, running>>
  PROVE  (o \in Final /\ Ledger!GiveBack(x, o)) \/ UNCHANGED Ledger!vars
<1>0. TypeOK /\ ResourceOK(x) /\ ClaimsKept /\ "uncertain" \notin Final
  BY Facts, SameRows
<1>1. /\ server[x] \in {"held", "started", o} /\ server'[x] = (IF o = "uncertain" THEN server[x] ELSE o)
      /\ \A y \in Resources : y # x => server'[y] = server[y]
  BY <1>0, ToldServer
<1>2. CASE o = "uncertain" \/ server[x] = o
  <2>1. \A y \in Resources : server'[y] = server[y]
    BY <1>1, <1>2
  <2>2. QED
    BY <1>0, <2>1, LedgerStutter
<1>3. CASE o \in Final /\ server[x] \in {"held", "started"}
  <2>1. row[x].outcome = o
    BY <1>3, PendingRow
  <2>2. x \notin running
    BY <1>0, <1>3, <2>1 DEF Inv, WorkerOK, TypeOK
  <2>3. /\ o \in {"completed", "stopped"} => row[x].claimed
        /\ o = "never_started" => ~row[x].claimed
    BY <1>0, <2>1 DEF ResourceOK, ClaimedOK
  <2>4. server' = [server EXCEPT ![x] = o]
    BY <1>0, <1>3 DEF Told
  <2>5. QED
    BY <1>0, <1>3, <2>2, <2>3, <2>4, GiveBackStep
<1>4. QED
  BY <1>1, <1>2, <1>3

LEMMA FlushStep ==
  ASSUME Inv, Flush
  PROVE  (\E x \in Resources, o \in Final : Ledger!GiveBack(x, o)) \/ UNCHANGED Ledger!vars
<1>1. PICK k \in Keys : Deliver(k) \/ Undelivered(k)
  BY DEF Flush
<1>2. PICK x \in Resources, o \in Final \cup {"uncertain"} : k = <<x, o>>
  BY DEF Keys
<1>3. /\ <<x, o>> \in Pending /\ UNCHANGED <<journals, row, running>>
      /\ server' = server \/ (Takes(<<x, o>>) /\ server' = Told(<<x, o>>))
  BY <1>1, <1>2 DEF Deliver, Undelivered, First
<1>4. CASE server' = server
  BY <1>3, <1>4, SameRows, LedgerStutter
<1>5. CASE Takes(<<x, o>>) /\ server' = Told(<<x, o>>)
  BY <1>3, <1>5, Observed
<1>6. QED
  BY <1>3, <1>4, <1>5

\* What the server fences for good was not held, and was not used.
LEMMA Fenced ==
  ASSUME Inv, NEW x \in Resources, FenceAbsent(x) \/ FenceUnheard(x)
  PROVE  Ledger!Bar(x) \/ UNCHANGED Ledger!vars
<1>0. TypeOK /\ row[x] \in RowType
  BY Facts
<1>1. /\ ~row[x].claimed /\ server[x] \in {"absent", "fenced"} /\ server' = [server EXCEPT ![x] = "fenced"]
      /\ UNCHANGED <<journals, running>>
  BY DEF FenceAbsent, FenceUnheard, Fenceable
<1>2. ClaimsKept
  <2>1. CASE FenceUnheard(x)
    BY <2>1, SameRows DEF FenceUnheard
  <2>2. CASE FenceAbsent(x)
    <3> DEFINE r == [row[x] EXCEPT !.phase = "not_admitted", !.outcome = "never_started"]
    <3>1. row' = [row EXCEPT ![x] = r] /\ r.claimed = row[x].claimed
      BY <1>0, <2>2 DEF FenceAbsent, RowType
    <3> HIDE DEF r
    <3>2. QED
      BY <1>0, <3>1, FieldsKept
  <2>3. QED
    BY <2>1, <2>2
<1>3. CASE server[x] = "absent"
  BY <1>0, <1>1, <1>2, <1>3, BarStep
<1>4. CASE server[x] = "fenced"
  <2>1. \A y \in Resources : server'[y] = server[y]
    BY <1>0, <1>1, <1>4 DEF TypeOK
  <2>2. QED
    BY <1>1, <1>2, <2>1, LedgerStutter
<1>5. QED
  BY <1>1, <1>3, <1>4

\* A journal of a later epoch is attached when nothing runs and nothing is held.
LEMMA Continued == ASSUME Inv, Inv', Attach PROVE Ledger!Continue
<1>0. TypeOK /\ TypeOK'
  BY DEF Inv
<1>1. /\ run.epoch \notin journals /\ journals' = journals \cup {run.epoch} /\ UNCHANGED <<row, running, server>>
  BY DEF Attach
<1>2. journals' # {1}
  BY <1>1 DEF Inv, Clean
<1>3. \A w \in Workers : server[w] \notin {"held", "started"}
  BY <1>1, <1>2 DEF Inv, Clean, Barred, Final
<1>4. running = {}
  <2>1. ASSUME NEW w \in running PROVE FALSE
    <3>1. w \in Workers /\ w \in Resources /\ row[w].claimed /\ row[w].outcome \notin Final
      BY <1>0, <2>1 DEF Inv, WorkerOK, TypeOK, Resources
    <3>2. Admitted(w) /\ server[w] \notin Final
      BY <3>1, Facts DEF ResourceOK, AdmittedOK, ReportedOK
    <3>3. QED
      BY <1>3, <3>1, <3>2, TypesNow, <1>0 DEF Admitted
  <2>2. QED
    BY <2>1
<1>5. QED
  BY <1>0, <1>1, <1>2, <1>3, <1>4, SameRows, ContinueStep

-----------------------------------------------------------------------------
(* The refinement *)

LEMMA QuietStep == ASSUME Quiet PROVE Ledger!Leave
  BY LeaveStep DEF Quiet

LEMMA LedgerInit == ASSUME Init PROVE Ledger!Init
  BY DEF Init, NoRow, Ledger!Init, Resources

LEMMA LedgerStep == ASSUME Inv, Inv', [Next]_vars PROVE [Ledger!Next]_(Ledger!vars)
<1> USE DEF Ledger!Next
<1>1. CASE \E w \in Workers : SlotStep(w) \/ ChildEnds(w)
  <2>1. PICK w \in Workers : SlotStep(w) \/ ChildEnds(w)
    BY <1>1
  <2>2. CASE ClaimSlot(w)
    BY <2>2, SlotUsed DEF Resources
  <2>3. CASE ~ClaimSlot(w)
    BY <2>1, <2>3, QuietSlots, QuietStep DEF SlotStep
  <2>4. QED
    BY <2>2, <2>3
<1>2. CASE \E r \in Requests : RequestStep(r) \/ StartUnit(r)
  <2>1. PICK r \in Requests : RequestStep(r) \/ StartUnit(r)
    BY <1>2
  <2>2. CASE ClaimRequest(r)
    BY <2>2, UnitUsed DEF Resources
  <2>3. CASE RequestStep(r) /\ ~ClaimRequest(r)
    BY <2>3, QuietRequests, QuietStep
  <2>4. CASE StartUnit(r)
    BY <2>4, UnitStarted
  <2>5. QED
    BY <2>1, <2>2, <2>3, <2>4
<1>3. CASE \E x \in Resources : Admit(x)
  BY <1>3, Admission DEF Resources
<1>4. CASE Flush
  BY <1>4, FlushStep DEF Resources, Ledger!Ends, Final
<1>5. CASE Attach
  BY <1>5, Continued
<1>6. CASE \E x \in Resources : FenceAbsent(x) \/ FenceUnheard(x)
  BY <1>6, Fenced DEF Resources
<1>7. CASE OwnerStep /\ ~Attach /\ ~\E x \in Resources : FenceAbsent(x) \/ FenceUnheard(x)
  BY <1>7, QuietOwner, QuietStep DEF OwnerStep
<1>8. CASE \E e \in 1..MaxEpoch : Crash(e)
  BY <1>8, QuietOwner, QuietStep
<1>9. CASE UNCHANGED vars
  BY <1>9, SameRows, LedgerStutter DEF vars
<1>10. QED
  BY <1>1, <1>2, <1>3, <1>4, <1>5, <1>6, <1>7, <1>8, <1>9 DEF Next

\* Host, server, messages and owners implement one account of each slot and unit,
\* for any number of participants, requests and epochs: every step they take is
\* one the ledger allows, or one it does not see.
THEOREM LedgerRefinement == Spec => ImplementsLedger
<1>1. Init => Ledger!Init
  BY LedgerInit
<1>2. Inv /\ Inv' /\ [Next]_vars => [Ledger!Next]_(Ledger!vars)
  BY LedgerStep
<1>3. QED
  BY <1>1, <1>2, Invariance, PTL DEF Spec, ImplementsLedger, Ledger!Spec
=============================================================================
