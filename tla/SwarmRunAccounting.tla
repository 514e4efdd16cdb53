-------------------------- MODULE SwarmRunAccounting --------------------------
(***************************************************************************)
(* What the rows of SwarmRun say of spending, for every value of its       *)
(* constants: a settled reservation is exact, a run that left recovery     *)
(* knows its past, one that ended has nothing left open, and neither a run *)
(* nor an attempt invokes a provider more often than it was granted.       *)
(***************************************************************************)
EXTENDS SwarmRunAttempts, FunctionTheorems

-----------------------------------------------------------------------------
(* Units of allowance: c[a] of them for each attempt a *)

Units(c) == UNION {{a} \X (1..c[a]) : a \in Attempts}

LEMMA UnitsMember ==
  ASSUME NEW c, NEW u
  PROVE  u \in Units(c) <=> \E a \in Attempts : \E i \in 1..c[a] : u = <<a, i>>
  BY DEF Units

LEMMA UnitsFinite ==
  ASSUME NEW c \in [Attempts -> Nat]
  PROVE  IsFiniteSet(Units(c)) /\ Cardinality(Units(c)) \in Nat
<1> DEFINE F == [a \in Attempts |-> {a} \X (1..c[a])]
           S == {{a} \X (1..c[a]) : a \in Attempts}
<1>1. IsFiniteSet(Attempts)
  BY BoundAssumption, FS_Interval DEF Attempts
<1>2. F \in Surjection(Attempts, S)
  BY DEF Surjection
<1>3. IsFiniteSet(S)
  BY <1>1, <1>2, FS_Surjection
<1>4. ASSUME NEW T \in S PROVE IsFiniteSet(T)
  <2>1. PICK a \in Attempts : T = {a} \X (1..c[a])
    OBVIOUS
  <2>2. IsFiniteSet({a})
    BY FS_Singleton
  <2>3. IsFiniteSet(1..c[a])
    BY FS_Interval
  <2>4. QED
    BY <2>1, <2>2, <2>3, FS_Product
<1> HIDE DEF S
<1>5. IsFiniteSet(UNION S)
  BY <1>3, <1>4, FS_UNION
<1>6. QED
  BY <1>5, FS_CardinalityType DEF Units, S

\* Fewer units for each attempt are fewer units.
LEMMA UnitsMonotone ==
  ASSUME NEW c \in [Attempts -> Nat], NEW d \in [Attempts -> Nat], \A a \in Attempts : c[a] <= d[a]
  PROVE  Cardinality(Units(c)) <= Cardinality(Units(d))
<1>1. Units(c) \subseteq Units(d)
  <2> SUFFICES ASSUME NEW u \in Units(c) PROVE u \in Units(d)
    OBVIOUS
  <2>1. PICK a \in Attempts : \E i \in 1..c[a] : u = <<a, i>>
    BY UnitsMember
  <2>2. PICK i \in 1..c[a] : u = <<a, i>>
    BY <2>1
  <2>3. i \in 1..d[a]
    OBVIOUS
  <2>4. QED
    BY <2>2, <2>3, UnitsMember
<1>2. QED
  BY <1>1, UnitsFinite, FS_Subset

\* Units that one attempt is granted.
LEMMA UnitsGranted ==
  ASSUME NEW c \in [Attempts -> Nat], NEW d \in [Attempts -> Nat], NEW a \in Attempts, NEW n \in Nat,
         c[a] = n, \A b \in Attempts \ {a} : c[b] <= d[b]
  PROVE  Cardinality(Units(c)) <= Cardinality(Units(d)) + n
<1> DEFINE new == {a} \X (1..n)
<1>1. IsFiniteSet(new) /\ Cardinality(new) = n
  <2>1. IsFiniteSet({a}) /\ Cardinality({a}) = 1
    BY FS_Singleton
  <2>2. IsFiniteSet(1..n) /\ Cardinality(1..n) = n
    BY FS_Interval
  <2>3. IsFiniteSet(new) /\ Cardinality(new) = Cardinality({a}) * Cardinality(1..n)
    BY <2>1, <2>2, FS_Product
  <2>4. QED
    BY <2>1, <2>2, <2>3
<1>2. Units(c) \subseteq Units(d) \cup new
  <2> SUFFICES ASSUME NEW u \in Units(c), u \notin new PROVE u \in Units(d)
    OBVIOUS
  <2>1. PICK b \in Attempts : \E i \in 1..c[b] : u = <<b, i>>
    BY UnitsMember
  <2>2. PICK i \in 1..c[b] : u = <<b, i>>
    BY <2>1
  <2>3. b # a
    BY <2>2
  <2>4. i \in 1..d[b]
    BY <2>3
  <2>5. QED
    BY <2>2, <2>4, UnitsMember
<1> HIDE DEF new
<1>3. /\ IsFiniteSet(Units(d)) /\ Cardinality(Units(d)) \in Nat
      /\ IsFiniteSet(Units(d) \cap new) /\ Cardinality(Units(d) \cap new) \in Nat
  <2>1. IsFiniteSet(Units(d)) /\ Cardinality(Units(d)) \in Nat
    BY UnitsFinite
  <2>2. IsFiniteSet(Units(d) \cap new)
    BY <2>1, FS_Subset
  <2>3. QED
    BY <2>1, <2>2, FS_CardinalityType
<1>4. /\ IsFiniteSet(Units(d) \cup new)
      /\ Cardinality(Units(d) \cup new) = Cardinality(Units(d)) + n - Cardinality(Units(d) \cap new)
  BY <1>1, <1>3, FS_Union
<1>5. Cardinality(Units(c)) <= Cardinality(Units(d) \cup new) /\ Cardinality(Units(c)) \in Nat
  BY <1>2, <1>4, UnitsFinite, FS_Subset
<1>6. QED
  BY <1>3, <1>4, <1>5

\* Things of several attempts are not more than units, when those of each
\* attempt are not: they are numbered within their attempt.
LEMMA UnitsCount ==
  ASSUME NEW c \in [Attempts -> Nat], NEW S, NEW of \in [S -> Attempts],
         \A a \in Attempts : LET T == {s \in S : of[s] = a} IN IsFiniteSet(T) /\ Cardinality(T) <= c[a]
  PROVE  Cardinality(S) <= Cardinality(Units(c))
<1> DEFINE T(a) == {s \in S : of[s] = a}
           g == [a \in Attempts |-> CHOOSE f \in Injection(T(a), 1..c[a]) : TRUE]
           h == [s \in S |-> <<of[s], g[of[s]][s]>>]
<1>1. \A a \in Attempts : IsFiniteSet(T(a)) /\ Cardinality(T(a)) <= c[a]
  OBVIOUS
<1>2. \A a \in Attempts, s \in S : s \in T(a) <=> of[s] = a
  OBVIOUS
<1> HIDE DEF T
<1>3. ASSUME NEW a \in Attempts PROVE g[a] \in Injection(T(a), 1..c[a])
  <2> DEFINE n == Cardinality(T(a))
  <2>1. n \in Nat /\ n <= c[a] /\ ExistsBijection(1..n, T(a))
    BY <1>1, FS_CardinalityType
  <2> HIDE DEF n
  <2>2. ExistsBijection(T(a), 1..n)
    BY <2>1, Fun_ExistsBijSymmetric
  <2>3. PICK f : f \in Bijection(T(a), 1..n)
    BY <2>2, Fun_ExistsBij
  <2>4. f \in [T(a) -> 1..n] /\ \A s, t \in T(a) : f[s] = f[t] => s = t
    BY <2>3 DEF Bijection, Injection, IsInjective
  <2>5. 1..n \subseteq 1..c[a]
    BY <2>1
  <2>6. f \in [T(a) -> 1..c[a]]
    BY <2>4, <2>5
  <2>7. f \in Injection(T(a), 1..c[a])
    BY <2>4, <2>6, Fun_IsInj
  <2>8. g[a] = CHOOSE x \in Injection(T(a), 1..c[a]) : TRUE
    OBVIOUS
  <2>9. QED
    BY <2>7, <2>8
<1>4. ASSUME NEW a \in Attempts PROVE /\ g[a] \in [T(a) -> 1..c[a]]
                                      /\ \A s, t \in T(a) : g[a][s] = g[a][t] => s = t
  BY <1>3, Fun_InjectionProperties
<1> HIDE DEF g
<1>5. h \in [S -> Units(c)]
  <2> SUFFICES ASSUME NEW s \in S PROVE <<of[s], g[of[s]][s]>> \in Units(c)
    OBVIOUS
  <2>1. s \in T(of[s]) /\ of[s] \in Attempts
    BY <1>2
  <2>2. g[of[s]][s] \in 1..c[of[s]]
    BY <1>4, <2>1
  <2>3. QED
    BY <2>1, <2>2, UnitsMember
<1>6. \A s, t \in S : h[s] = h[t] => s = t
  BY <1>4, <1>2
<1> HIDE DEF h
<1>7. h \in Injection(S, Units(c))
  BY <1>5, <1>6, Fun_IsInj
<1>8. QED
  BY <1>7, UnitsFinite, FS_Injection

-----------------------------------------------------------------------------
(* Requests, and the accounting of an attempt *)

\* A request that is waiting or was refunded never began, and a request that
\* was made belongs to an attempt that was.
Begun == \A r \in Requests : req[r].state \in {"absent", "reserved", "not_started"} => ~req[r].began
Owned == \A r \in Requests : req[r].state # "absent" => att[req[r].att].state # "absent"

\* A settled reservation is exact; it leaves an attempt uncertain only for a
\* tool action; and an attempt's requests stay within its allowance.
Exact(a) == att[a].resv = "settled" =>
              /\ OpenOf(req, a) = {} /\ att[a].used = Spent(req, a) /\ att[a].proc = "stopped"
              /\ att[a].state = "uncertain" => ActOpen(att[a])
Within(a) == Held(req, a) <= att[a].amount

\* What an attempt may still come to spend: what it spent once nothing of it
\* is under way, whatever its reservation says, and its allowance until then.
Ceiling(a) == IF att[a].proc = "stopped" /\ OpenOf(req, a) = {} THEN Spent(req, a) ELSE att[a].amount
Ceilings == Cardinality(Units([a \in Attempts |-> Ceiling(a)]))
Budget == Ceilings <= RequestLimit

ReqInv == Begun /\ Owned /\ (\A a \in Attempts : Exact(a) /\ Within(a)) /\ Budget

\* A step moves only requests that are open, and never unsays their start.
Moves(r) == \/ req'[r] = req[r]
            \/ /\ req[r].state \in Open /\ req'[r].att = req[r].att /\ req'[r].state # "absent"
               /\ req'[r].state \in {"reserved", "not_started"} => ~req'[r].began
RequestsMove == DOMAIN req' = Requests /\ \A r \in Requests : Moves(r)

LEMMA RequestSets ==
  ASSUME NEW rq, NEW a
  PROVE  /\ IsFiniteSet({r \in RequestsOf(rq, a) : rq[r].state \in {"completed", "failed"}})
         /\ IsFiniteSet({r \in RequestsOf(rq, a) : rq[r].state # "not_started"})
         /\ Spent(rq, a) \in Nat /\ Held(rq, a) \in Nat /\ Spent(rq, a) <= Held(rq, a)
<1> DEFINE S == {r \in RequestsOf(rq, a) : rq[r].state \in {"completed", "failed"}}
           H == {r \in RequestsOf(rq, a) : rq[r].state # "not_started"}
<1>1. IsFiniteSet(Requests)
  BY BoundAssumption, FS_Interval DEF Requests
<1>2. H \subseteq Requests /\ S \subseteq H
  BY DEF RequestsOf
<1>3. Spent(rq, a) = Cardinality(S) /\ Held(rq, a) = Cardinality(H)
  BY DEF Spent, Held
<1> HIDE DEF S, H
<1>4. IsFiniteSet(H)
  BY <1>1, <1>2, FS_Subset
<1>5. IsFiniteSet(S) /\ Cardinality(S) <= Cardinality(H)
  BY <1>2, <1>4, FS_Subset
<1>6. QED
  BY <1>3, <1>4, <1>5, FS_CardinalityType DEF S, H

\* So an attempt's requests stay its own, what is closed stays closed, and
\* nothing of an allowance is taken twice.
LEMMA RequestsMoved ==
  ASSUME TypeInv, Begun, RequestsMove
  PROVE  /\ Begun'
         /\ \A r \in Requests : req'[r].att = req[r].att
         /\ \A r \in Requests : req'[r].state = "absent" <=> req[r].state = "absent"
         /\ \A a \in Attempts : /\ RequestsOf(req', a) = RequestsOf(req, a)
                                /\ Held(req', a) <= Held(req, a)
                                /\ OpenOf(req, a) = {} => OpenOf(req', a) = {} /\ Spent(req', a) = Spent(req, a)
<1>1. /\ \A r \in Requests : req'[r].att = req[r].att
      /\ \A r \in Requests : req'[r].state = "absent" <=> req[r].state = "absent"
      /\ \A r \in Requests : req[r].state = "not_started" => req'[r].state = "not_started"
  BY DEF RequestsMove, Moves, Open
<1>2. Begun'
  BY DEF Begun, RequestsMove, Moves
<1>3. ASSUME NEW a \in Attempts
      PROVE  /\ RequestsOf(req', a) = RequestsOf(req, a)
             /\ Held(req', a) <= Held(req, a)
             /\ OpenOf(req, a) = {} => OpenOf(req', a) = {} /\ Spent(req', a) = Spent(req, a)
  <2>1. RequestsOf(req', a) = RequestsOf(req, a)
    BY <1>1 DEF RequestsOf
  <2>2. {r \in RequestsOf(req', a) : req'[r].state # "not_started"}
          \subseteq {r \in RequestsOf(req, a) : req[r].state # "not_started"}
    BY <1>1, <2>1 DEF RequestsOf
  <2>3. Held(req', a) <= Held(req, a)
    BY <2>2, RequestSets, FS_Subset DEF Held
  <2>4. ASSUME OpenOf(req, a) = {}
        PROVE  OpenOf(req', a) = {} /\ Spent(req', a) = Spent(req, a)
    <3>1. \A r \in RequestsOf(req, a) : req[r].state \notin Open
      BY <2>4 DEF OpenOf
    <3>2. \A r \in RequestsOf(req, a) : req'[r] = req[r]
      BY <3>1 DEF RequestsMove, Moves, RequestsOf
    <3>3. OpenOf(req', a) = {}
      BY <2>1, <3>1, <3>2 DEF OpenOf
    <3>4. {r \in RequestsOf(req', a) : req'[r].state \in {"completed", "failed"}}
            = {r \in RequestsOf(req, a) : req[r].state \in {"completed", "failed"}}
      BY <2>1, <3>2
    <3>5. QED
      BY <3>3, <3>4 DEF Spent
  <2>5. QED
    BY <2>1, <2>3, <2>4
<1>4. QED
  BY <1>1, <1>2, <1>3

\* An attempt that has ended, and one of which nothing can change any more.
Done(row) == row.proc = "stopped" /\ row.state \notin Active /\ ~ActOpen(row)
Over(a)   == Done(att[a]) /\ OpenOf(req, a) = {}

\* What a step may do to an attempt: its allowance and its end stay, and it is
\* settled only exactly.
Accounts(a) == /\ att'[a].amount = att[a].amount /\ att'[a].epoch = att[a].epoch
               /\ att[a].state = "absent" <=> att'[a].state = "absent"
               /\ att[a].proc = "stopped" => att'[a].proc = "stopped"
               /\ Done(att[a]) => Done(att'[a])
               /\ Exact(a)'

\* What is over stays so, and what is new belongs to the current epoch of a run
\* that still runs.
Steady == \A a \in Attempts :
  IF att[a].state = "absent"
  THEN att'[a].state # "absent" => att'[a].epoch = run.epoch /\ Admitting
  ELSE att'[a].epoch = att[a].epoch /\ (Over(a) => Over(a)')

ReqNext == ReqInv' /\ Steady

LEMMA ReqKept ==
  ASSUME TypeInv, TypeInv', ReqInv, RequestsMove, \A a \in Attempts : Accounts(a)
  PROVE  ReqNext
<1>1. Begun'
  BY RequestsMoved DEF ReqInv
<1>2. Owned'
  BY RequestsMoved DEF ReqInv, Owned, Accounts, TypeInv, Keyed
<1>3. \A a \in Attempts : Exact(a)' /\ Within(a)'
  <2> TAKE a \in Attempts
  <2>1. Held(req', a) <= Held(req, a) /\ Held(req, a) \in Nat /\ Held(req', a) \in Nat
    BY RequestsMoved, RequestSets DEF ReqInv
  <2>2. att[a].amount \in Nat /\ att'[a].amount = att[a].amount
    BY DEF Accounts, TypeInv, TypeOK, AttemptRows
  <2>3. QED
    BY <2>1, <2>2 DEF ReqInv, Within, Accounts
<1>4. Budget'
  <2> DEFINE c == [a \in Attempts |-> Ceiling(a)]
             d == [a \in Attempts |-> Ceiling(a)']
  <2>1. ASSUME NEW a \in Attempts
        PROVE  Ceiling(a) \in Nat /\ Ceiling(a)' \in Nat /\ Ceiling(a)' <= Ceiling(a)
    <3>1. /\ Spent(req, a) \in Nat /\ Spent(req, a) <= Held(req, a) /\ Held(req, a) \in Nat
          /\ Spent(req', a) \in Nat /\ Spent(req', a) <= Held(req', a) /\ Held(req', a) \in Nat
      BY RequestSets
    <3>2. Held(req, a) <= att[a].amount /\ Held(req', a) <= att'[a].amount
      BY <1>3 DEF ReqInv, Within
    <3>3. att[a].amount \in Nat /\ att'[a].amount = att[a].amount
      BY DEF Accounts, TypeInv, TypeOK, AttemptRows
    <3>4. OpenOf(req, a) = {} => OpenOf(req', a) = {} /\ Spent(req', a) = Spent(req, a)
      BY RequestsMoved DEF ReqInv
    <3>5. att[a].proc = "stopped" => att'[a].proc = "stopped"
      BY DEF Accounts
    <3>6. QED
      BY <3>1, <3>2, <3>3, <3>4, <3>5 DEF Ceiling
  <2>2. c \in [Attempts -> Nat] /\ d \in [Attempts -> Nat] /\ \A a \in Attempts : d[a] <= c[a]
    BY <2>1
  <2>3. Ceilings = Cardinality(Units(c)) /\ Ceilings' = Cardinality(Units(d))
    BY DEF Ceilings, Units, Attempts
  <2> HIDE DEF c, d
  <2>4. Ceilings' <= Ceilings /\ Ceilings \in Nat /\ Ceilings' \in Nat
    BY <2>2, <2>3, UnitsMonotone, UnitsFinite
  <2>5. QED
    BY <2>4, LimitAssumption DEF ReqInv, Budget
<1>5. Steady
  <2>1. \A a \in Attempts : OpenOf(req, a) = {} => OpenOf(req', a) = {}
    BY RequestsMoved DEF ReqInv
  <2>2. QED
    BY <2>1 DEF Steady, Accounts, Over
<1>6. QED
  BY <1>1, <1>2, <1>3, <1>4, <1>5 DEF ReqInv, ReqNext

\* A row whose accounting a step leaves alone.
LEMMA RowStill ==
  ASSUME TypeInv, ReqInv, RequestsMove, NEW a \in Attempts,
         att'[a].amount = att[a].amount, att[a].state = "absent" <=> att'[a].state = "absent",
         att'[a].epoch = att[a].epoch, att[a].proc = "stopped" => att'[a].proc = "stopped",
         Done(att[a]) => Done(att'[a]),
         att'[a].resv = "settled" => /\ att[a].resv = "settled" /\ att'[a].used = att[a].used
                                     /\ att'[a].state = "uncertain" => att[a].state = "uncertain"
                                     /\ ActOpen(att[a]) => ActOpen(att'[a])
  PROVE  Accounts(a)
<1>1. OpenOf(req, a) = {} => OpenOf(req', a) = {} /\ Spent(req', a) = Spent(req, a)
  BY RequestsMoved DEF ReqInv
<1>2. Exact(a)
  BY DEF ReqInv
<1>3. Exact(a)'
  BY <1>1, <1>2 DEF Exact
<1>4. QED
  BY <1>3 DEF Accounts

\* A row that a step accounts for.
LEMMA RowAccounted ==
  ASSUME TypeInv, NEW a \in Attempts, NEW row \in AttemptRows,
         att'[a] = Refreshed(row, req', a), row.amount = att[a].amount,
         att[a].state # "absent", row.state # "absent", row.epoch = att[a].epoch,
         att[a].proc = "stopped" => row.proc = "stopped", Done(att[a]) => Done(row),
         row.resv = "settled" => row.proc = "stopped" /\ OpenOf(req', a) = {}
  PROVE  Accounts(a)
<1> DEFINE new == Refreshed(row, req', a)
<1>1. /\ new.state = row.state \/ (row.state = "uncertain" /\ new.state = "failed")
      /\ new.proc = row.proc /\ new.amount = row.amount /\ new.act = row.act /\ new.epoch = row.epoch
  BY RefreshedShape
<1>2. \/ /\ row.proc = "stopped" /\ OpenOf(req', a) = {} /\ ~ObsOpen(row)
         /\ new.resv = "settled" /\ new.used = Spent(req', a)
         /\ new.state = IF row.state = "uncertain" /\ ~ActOpen(row) THEN "failed" ELSE row.state
      \/ new.resv = "uncertain" /\ new.state = row.state
      \/ new = row /\ ~(row.proc = "stopped" /\ OpenOf(req', a) = {})
  BY RefreshedCases
<1>3. att'[a] = new
  OBVIOUS
<1> HIDE DEF new
<1>4. Exact(a)'
  BY <1>1, <1>2, <1>3 DEF Exact, ActOpen
<1>5. Done(row) => Done(new)
  BY <1>1 DEF Done, ActOpen, Active
<1>6. QED
  BY <1>1, <1>3, <1>4, <1>5 DEF Accounts

LEMMA RequestsStill ==
  ASSUME TypeInv, req' = req
  PROVE  RequestsMove
  BY DEF TypeInv, TypeOK, RequestsMove, Moves

\* A step that writes one row, accounted for or not.
LEMMA OneReqRow ==
  ASSUME TypeInv, TypeInv', ReqInv, RequestsMove, NEW a \in Attempts, Accounts(a),
         \A b \in Attempts \ {a} : att'[b] = att[b]
  PROVE  ReqNext
<1>1. \A b \in Attempts \ {a} : Accounts(b)
  BY RowStill
<1>2. QED
  BY <1>1, ReqKept

\* A step that writes none.
LEMMA NoReqRow ==
  ASSUME TypeInv, TypeInv', ReqInv, RequestsMove, att' = att
  PROVE  ReqNext
<1>1. \A b \in Attempts : Accounts(b)
  BY RowStill
<1>2. QED
  BY <1>1, ReqKept

\* What an attempt may still spend is within what the run holds for it, but
\* not the reverse: a reservation that is uncertain holds less again.
LEMMA CeilingAllocated ==
  ASSUME TypeInv, ReqInv, NEW a \in Attempts
  PROVE  Ceiling(a) \in Nat /\ Allocation(a) \in Nat /\ Ceiling(a) <= Allocation(a)
<1>1. Spent(req, a) \in Nat /\ Spent(req, a) <= Held(req, a) /\ Held(req, a) \in Nat
  BY RequestSets
<1>2. Held(req, a) <= att[a].amount /\ Exact(a)
  BY DEF ReqInv, Within
<1>3. att[a].amount \in Nat /\ att[a].used \in Nat
  BY DEF TypeInv, TypeOK, AttemptRows
<1>4. QED
  BY <1>1, <1>2, <1>3 DEF Ceiling, Allocation, Exact

\* An attempt that was not made has no requests.
LEMMA FreshUnspent ==
  ASSUME TypeInv, ReqInv, NEW a \in Attempts, att[a].state = "absent"
  PROVE  RequestsOf(req, a) = {}
  BY BoundAssumption DEF TypeInv, Keyed, ReqInv, Owned, RequestsOf, Attempts

\* A grant: the allowance fits into what the run has not allocated.
LEMMA ReqGranted ==
  ASSUME TypeInv, TypeInv', ReqInv, NEW a \in Attempts, NEW n \in Amounts, NEW k, NEW w,
         Admitting, att[a].state = "absent", att' = [att EXCEPT ![a] = Granted(k, w, n)], req' = req,
         n + Allocated <= RequestLimit
  PROVE  ReqNext
<1> DEFINE row == Granted(k, w, n)
           c == [b \in Attempts |-> Ceiling(b)']
           d == [b \in Attempts |-> Allocation(b)]
<1>1. row.state = "leased" /\ row.amount = n /\ row.resv = "reserved" /\ row.proc = "pending"
  BY GrantedRow
<1>2. att'[a] = row /\ \A b \in Attempts \ {a} : att'[b] = att[b]
  BY DEF TypeInv, TypeOK
<1>3. n \in Nat
  BY LimitAssumption
<1> HIDE DEF row
<1>4. Begun' /\ Owned'
  BY <1>1, <1>2 DEF ReqInv, Begun, Owned, TypeInv, Keyed
<1>5. \A b \in Attempts : Exact(b)' /\ Within(b)'
  <2>1. ASSUME NEW b \in Attempts \ {a} PROVE Exact(b)' /\ Within(b)'
    BY <1>2 DEF ReqInv, Exact, Within
  <2>2. Exact(a)'
    BY <1>1, <1>2 DEF Exact
  <2>3. Held(req, a) = 0
    BY FreshUnspent, FS_EmptySet DEF Held
  <2>4. Within(a)'
    BY <1>1, <1>2, <1>3, <2>3 DEF Within
  <2>5. QED
    BY <2>1, <2>2, <2>4
<1>6. Budget'
  <2>1. \A b \in Attempts \ {a} : Ceiling(b)' = Ceiling(b)
    BY <1>2 DEF Ceiling
  <2>2. Ceiling(a)' = n
    BY <1>1, <1>2 DEF Ceiling
  <2>3. \A b \in Attempts : Ceiling(b) \in Nat /\ Allocation(b) \in Nat /\ Ceiling(b) <= Allocation(b)
    BY CeilingAllocated
  <2>4. /\ c \in [Attempts -> Nat] /\ d \in [Attempts -> Nat] /\ c[a] = n
        /\ \A b \in Attempts \ {a} : c[b] <= d[b]
    BY <1>3, <2>1, <2>2, <2>3
  <2>5. Ceilings' = Cardinality(Units(c)) /\ Allocated = Cardinality(Units(d))
    BY DEF Ceilings, Allocated, Units, Attempts
  <2> HIDE DEF c, d
  <2>6. Ceilings' <= Allocated + n /\ Ceilings' \in Nat /\ Allocated \in Nat
    BY <1>3, <2>4, <2>5, UnitsGranted, UnitsFinite
  <2>7. QED
    BY <1>3, <2>6, LimitAssumption DEF Budget
<1>7. row.epoch = run.epoch
  BY GrantedRow DEF row
<1>8. Steady
  BY <1>1, <1>2, <1>7 DEF Steady, Over
<1>9. QED
  BY <1>4, <1>5, <1>6, <1>8 DEF ReqInv, ReqNext

\* A reservation: one more request, within the allowance of its attempt.
LEMMA ReqReserved ==
  ASSUME TypeInv, ReqInv, NEW a \in Attempts, NEW r \in Requests, ReserveRequest(a, r)
  PROVE  ReqNext
<1>1. /\ req'[r].state = "reserved" /\ req'[r].att = a /\ req'[r].began = FALSE
      /\ \A q \in Requests \ {r} : req'[q] = req[q]
      /\ req[r].state = "absent" /\ att' = att /\ att[a].state = "running"
      /\ att[a].proc = "running" /\ att[a].resv = "reserved" /\ Held(req, a) < att[a].amount
  BY DEF ReserveRequest, Live, TypeInv, TypeOK
<1>2. req[r].att \notin Attempts
  BY <1>1, BoundAssumption DEF TypeInv, Keyed, Attempts
<1>3. Begun' /\ Owned'
  BY <1>1 DEF ReqInv, Begun, Owned
<1>4. ASSUME NEW b \in Attempts \ {a}
      PROVE  OpenOf(req', b) = OpenOf(req, b) /\ Spent(req', b) = Spent(req, b) /\ Held(req', b) = Held(req, b)
  <2>1. RequestsOf(req', b) = RequestsOf(req, b) /\ r \notin RequestsOf(req, b)
    BY <1>1, <1>2 DEF RequestsOf
  <2>2. \A q \in RequestsOf(req, b) : req'[q] = req[q]
    BY <1>1, <2>1 DEF RequestsOf
  <2>3. /\ {q \in RequestsOf(req', b) : req'[q].state \in {"completed", "failed"}}
             = {q \in RequestsOf(req, b) : req[q].state \in {"completed", "failed"}}
        /\ {q \in RequestsOf(req', b) : req'[q].state # "not_started"}
             = {q \in RequestsOf(req, b) : req[q].state # "not_started"}
    BY <2>1, <2>2
  <2>4. OpenOf(req', b) = OpenOf(req, b)
    BY <2>1, <2>2 DEF OpenOf
  <2>5. QED
    BY <2>3, <2>4 DEF Spent, Held
<1>5. Held(req', a) <= att[a].amount
  <2> DEFINE S == {q \in RequestsOf(req, a) : req[q].state # "not_started"}
             T == {q \in RequestsOf(req', a) : req'[q].state # "not_started"}
  <2>1. T = S \cup {r} /\ r \notin S
    BY <1>1, <1>2 DEF RequestsOf
  <2>2. IsFiniteSet(S)
    BY RequestSets
  <2>3. Held(req, a) = Cardinality(S) /\ Held(req', a) = Cardinality(T)
    BY DEF Held
  <2> HIDE DEF S, T
  <2>4. Cardinality(T) = Cardinality(S) + 1 /\ Cardinality(S) \in Nat
    BY <2>1, <2>2, FS_AddElement, FS_CardinalityType
  <2>5. QED
    BY <1>1, <2>3, <2>4 DEF TypeInv, TypeOK, AttemptRows
<1>6. \A b \in Attempts : Exact(b)' /\ Within(b)'
  BY <1>1, <1>4, <1>5 DEF ReqInv, Exact, Within
<1>7. \A b \in Attempts : Ceiling(b)' = Ceiling(b)
  BY <1>1, <1>4 DEF Ceiling
<1>8. [b \in Attempts |-> Ceiling(b)'] = [b \in Attempts |-> Ceiling(b)]
  BY <1>7
<1>9. Ceilings' = Ceilings
  BY <1>8 DEF Ceilings, Units, Attempts
<1>10. Steady
  BY <1>1, <1>4 DEF Steady, Over, Done
<1>11. QED
  BY <1>3, <1>6, <1>9, <1>10 DEF ReqInv, Budget, ReqNext

\* No step breaks the accounting: what participants and their owner do,
LEMMA ReqParticipant ==
  ASSUME TypeInv, TypeInv', ExecInv, ReqInv
  PROVE  /\ \A a \in Attempts : WorkerStarted(a) \/ ProcessStarted(a) => ReqNext
         /\ \A a \in Attempts : BeginTool(a) \/ Submit(a) => ReqNext
         /\ \A a \in Attempts, o \in {"completed", "uncertain"} : EndTool(a, o) => ReqNext
         /\ \A a \in Attempts : ProcessStopped(a) \/ Reject(a) => ReqNext
         /\ \A a \in Attempts, p, c \in BOOLEAN : ControlWorker(a, p, c) => ReqNext
         /\ \A r \in Requests : StartRequest(r) => ReqNext
<1>0. \A a \in Attempts : att[a] \in AttemptRows /\ RowOK(att[a], exec[a]) /\ Exact(a)
  BY DEF TypeInv, TypeOK, ExecInv, ReqInv
<1>1. ASSUME NEW a \in Attempts, NEW row, att' = [att EXCEPT ![a] = row], req' = req,
             Same(row, att[a]), row.state = "absent" <=> att[a].state = "absent",
             att[a].proc = "stopped" => row.proc = "stopped", Done(att[a]) => Done(row),
             att[a].resv = "settled" => /\ row.state = "uncertain" => att[a].state = "uncertain"
                                        /\ ActOpen(att[a]) => ActOpen(row)
      PROVE  ReqNext
  <2>1. att'[a] = row /\ \A b \in Attempts \ {a} : att'[b] = att[b]
    BY <1>1 DEF TypeInv, TypeOK
  <2>2. RequestsMove
    BY <1>1, RequestsStill
  <2>3. Accounts(a)
    BY <1>1, <2>1, <2>2, RowStill DEF Same
  <2>4. QED
    BY <2>1, <2>2, <2>3, OneReqRow
<1>2. ASSUME NEW a \in Attempts, WorkerStarted(a) PROVE ReqNext
  <2> DEFINE row == [att[a] EXCEPT !.state = "running", !.proc = "running"]
  <2>1. Same(row, att[a]) /\ row.state = "running"
    BY <1>0, StartedRow
  <2>2. /\ att' = [att EXCEPT ![a] = row] /\ req' = req
        /\ att[a].state = "leased" /\ att[a].proc = "pending"
    BY <1>2 DEF WorkerStarted
  <2>3. att[a].resv # "settled"
    BY <1>0, <2>2 DEF Exact
  <2> HIDE DEF row
  <2>4. QED
    BY <1>1, <2>1, <2>2, <2>3 DEF Done
<1>3. ASSUME NEW a \in Attempts, NEW o \in {"started", "stopped", "unknown"},
             att' = [att EXCEPT ![a].obs = o], req' = req
      PROVE  ReqNext
  <2> DEFINE row == [att[a] EXCEPT !.obs = o]
  <2>1. Same(row, att[a]) /\ row.state = att[a].state /\ row.proc = att[a].proc /\ row.act = att[a].act
    BY <1>0, ObservedRow
  <2>2. att' = [att EXCEPT ![a] = row]
    BY <1>3
  <2> HIDE DEF row
  <2>3. QED
    BY <1>1, <1>3, <2>1, <2>2 DEF ActOpen, Done
<1>4. ASSUME NEW a \in Attempts, NEW c \in {"admitted", "completed", "uncertain"},
             att' = [att EXCEPT ![a].act = c], req' = req,
             exec[a] \in {"thread", "child"}
      PROVE  ReqNext
  <2> DEFINE row == [att[a] EXCEPT !.act = c]
  <2>1. Same(row, att[a]) /\ row.state = att[a].state /\ row.proc = att[a].proc /\ row.act = c
    BY <1>0, ActedRow
  <2>2. att' = [att EXCEPT ![a] = row]
    BY <1>4
  <2>3. att[a].proc # "stopped" /\ att[a].resv # "settled"
    BY <1>0, <1>4 DEF Exact, RowOK
  <2> HIDE DEF row
  <2>4. QED
    BY <1>1, <1>4, <2>1, <2>2, <2>3 DEF Done
<1>5. ASSUME NEW a \in Attempts, Submit(a) PROVE ReqNext
  <2> DEFINE row == [att[a] EXCEPT !.sub = work[att[a].work].rev]
  <2>1. work[att[a].work].rev \in Nat
    BY <1>5, BoundAssumption DEF Submit, Current, TypeInv, Keyed, TypeOK, WorkRows
  <2>2. Same(row, att[a]) /\ row.state = att[a].state /\ row.proc = att[a].proc /\ row.act = att[a].act
    BY <1>0, <2>1, SubmittedRow
  <2>3. att' = [att EXCEPT ![a] = row] /\ req' = req
    BY <1>5 DEF Submit
  <2> HIDE DEF row
  <2>4. QED
    BY <1>1, <2>2, <2>3 DEF ActOpen, Done
<1>6. ASSUME NEW a \in Attempts, Reject(a) PROVE ReqNext
  <2> DEFINE row == [att[a] EXCEPT !.state = "failed"]
  <2>1. Same(row, att[a]) /\ row.state = "failed" /\ row.proc = att[a].proc /\ row.act = att[a].act
    BY <1>0, RejectedRow
  <2>2. att' = [att EXCEPT ![a] = row] /\ req' = req /\ att[a].state = "submitted"
    BY <1>6 DEF Reject
  <2> HIDE DEF row
  <2>3. QED
    BY <1>1, <2>1, <2>2 DEF ActOpen, Done, Active
<1>7. ASSUME NEW a \in Attempts, NEW p \in BOOLEAN, NEW c \in BOOLEAN, ControlWorker(a, p, c) PROVE ReqNext
  <2> DEFINE row == [att[a] EXCEPT !.pause = p, !.cancel = c]
  <2>1. Same(row, att[a]) /\ row.state = att[a].state /\ row.proc = att[a].proc /\ row.act = att[a].act
    BY <1>0 DEF AttemptRows, Same
  <2>2. att' = [att EXCEPT ![a] = row] /\ req' = req
    BY <1>7 DEF ControlWorker
  <2> HIDE DEF row
  <2>3. QED
    BY <1>1, <2>1, <2>2 DEF ActOpen, Done, Active
<1>8. ASSUME NEW r \in Requests, StartRequest(r) PROVE ReqNext
  <2>1. /\ req'[r].state = "started" /\ req'[r].att = req[r].att /\ req[r].state = "reserved"
        /\ \A q \in Requests \ {r} : req'[q] = req[q]
        /\ DOMAIN req' = Requests /\ att' = att
    BY <1>8 DEF StartRequest, TypeInv, TypeOK, RequestRows
  <2>2. RequestsMove
    BY <2>1 DEF RequestsMove, Moves, Open
  <2>3. QED
    BY <2>1, <2>2, NoReqRow
<1>9. QED
  BY <1>2, <1>3, <1>4, <1>5, <1>6, <1>7, <1>8 DEF ProcessStarted, BeginTool, Live, EndTool, ProcessStopped

\* and what is settled, reported, recovered and taken over.
LEMMA ReqRecovery ==
  ASSUME TypeInv, TypeInv', ExecInv, ReqInv
  PROVE  /\ \A r \in Requests, o \in {"completed", "failed", "not_started", "uncertain"} :
              Settle(r, o) /\ req[r].state \in Open => ReqNext
         /\ \A a \in Attempts, o \in {"submitted", "completed", "failed", "cancelled"} :
              RecordStop(a, o) => ReqNext
         /\ \A a \in Attempts : ReconcileAction(a) => ReqNext
         /\ ReconcileProcess => ReqNext
         /\ Acquire => ReqNext
<1>0. \A a \in Attempts : att[a] \in AttemptRows /\ RowOK(att[a], exec[a]) /\ Exact(a)
  BY DEF TypeInv, TypeOK, ExecInv, ReqInv
<1>1. ASSUME NEW r \in Requests, NEW o \in {"completed", "failed", "not_started", "uncertain"},
             Settle(r, o), req[r].state \in Open
      PROVE  ReqNext
  <2> DEFINE a == req[r].att
  <2>1. a \in Attempts /\ att[a].state # "absent" /\ r \in OpenOf(req, a)
    BY <1>1 DEF TypeInv, Keyed, ReqInv, Owned, Open, OpenOf, RequestsOf
  <2>2. /\ req'[r].state = o /\ req'[r].att = req[r].att /\ req'[r].began = req[r].began
        /\ \A q \in Requests \ {r} : req'[q] = req[q]
        /\ DOMAIN req' = Requests /\ (o = "not_started" => ~req[r].began)
        /\ att'[a] = Refreshed(att[a], req', a) /\ \A b \in Attempts \ {a} : att'[b] = att[b]
    BY <1>1, <2>1 DEF Settle, Sayable, TypeInv, TypeOK, RequestRows
  <2>3. RequestsMove
    BY <1>1, <2>2 DEF RequestsMove, Moves
  <2>4. att[a].resv # "settled"
    BY <1>0, <2>1 DEF Exact
  <2> HIDE DEF a
  <2>5. Accounts(a)
    BY <1>0, <2>1, <2>2, <2>4, RowAccounted
  <2>6. QED
    BY <2>1, <2>2, <2>3, <2>5, OneReqRow
<1>2. ASSUME NEW a \in Attempts, NEW o \in {"submitted", "completed", "failed", "cancelled"}, RecordStop(a, o)
      PROVE  ReqNext
  <2>1. PICK row \in AttemptRows : StopWrites(a, o, row)
    BY <1>2, StopRow
  <2>2. /\ att'[a] = Refreshed(row, req', a) /\ \A b \in Attempts \ {a} : att'[b] = att[b]
        /\ row.proc = "stopped" /\ row.amount = att[a].amount /\ row.resv = att[a].resv
        /\ row.state # "absent" /\ row.epoch = att[a].epoch
    BY <2>1 DEF StopWrites, TypeInv, TypeOK
  <2>3. att[a].state # "absent" /\ att[a].proc # "stopped" /\ att[a].resv # "settled"
    BY <1>0, <1>2 DEF RecordStop, Addressable, Exact
  <2>4. /\ DOMAIN req' = Requests
        /\ \A r \in Requests :
             \/ req'[r] = req[r]
             \/ /\ req[r].state = "reserved" /\ req'[r].state = "not_started"
                /\ req'[r].att = req[r].att /\ req'[r].began = req[r].began
             \/ /\ req[r].state = "started" /\ req'[r].state = "uncertain"
                /\ req'[r].att = req[r].att
    <3>1. req' = [r \in Requests |->
            IF req[r].att # a THEN req[r]
            ELSE IF req[r].state = "reserved" THEN [req[r] EXCEPT !.state = "not_started"]
            ELSE IF req[r].state = "started" THEN [req[r] EXCEPT !.state = "uncertain"]
            ELSE req[r]]
      BY <1>2 DEF RecordStop
    <3>2. \A r \in Requests : req[r] \in RequestRows
      BY DEF TypeInv, TypeOK
    <3>3. QED
      BY <3>1, <3>2 DEF RequestRows
  <2>5. RequestsMove
    BY <2>4 DEF RequestsMove, Moves, Open, ReqInv, Begun
  <2>6. Accounts(a)
    BY <2>2, <2>3, RowAccounted DEF Done
  <2>7. QED
    BY <2>2, <2>5, <2>6, OneReqRow
<1>3. ASSUME NEW a \in Attempts, NEW row \in AttemptRows, att' = [att EXCEPT ![a] = Refreshed(row, req, a)],
             req' = req, Same(row, att[a]), row.state = att[a].state, row.proc = att[a].proc,
             att[a].state # "absent", Done(att[a]) => Done(row)
      PROVE  ReqNext
  <2>1. att'[a] = Refreshed(row, req', a) /\ \A b \in Attempts \ {a} : att'[b] = att[b]
    BY <1>3 DEF TypeInv, TypeOK
  <2>2. row.amount = att[a].amount /\ row.resv = att[a].resv /\ row.epoch = att[a].epoch
    BY <1>3 DEF Same
  <2>3. row.resv = "settled" => row.proc = "stopped" /\ OpenOf(req', a) = {}
    BY <1>0, <1>3, <2>2 DEF Exact
  <2>4. Accounts(a)
    BY <1>3, <2>1, <2>2, <2>3, RowAccounted
  <2>5. QED
    BY <1>3, <2>1, <2>4, RequestsStill, OneReqRow
<1>4. ASSUME NEW a \in Attempts, ReconcileAction(a) PROVE ReqNext
  <2> DEFINE row == [att[a] EXCEPT !.act = "completed"]
  <2>1. Same(row, att[a]) /\ row.state = att[a].state /\ row.proc = att[a].proc /\ row.act = "completed"
    BY <1>0, ActedRow
  <2>2. /\ att' = [att EXCEPT ![a] = Refreshed(row, req, a)] /\ req' = req
        /\ att[a].state # "absent"
    BY <1>4 DEF ReconcileAction, Addressable
  <2> HIDE DEF row
  <2>3. QED
    BY <1>3, <2>1, <2>2 DEF Same, Done, ActOpen
<1>5. ASSUME ReconcileProcess PROVE ReqNext
  <2> DEFINE a == seen.att
             row == [att[a] EXCEPT !.obs = seen.state]
  <2>1. a \in Attempts /\ seen.state \in {"stopped", "unknown"}
    BY <1>5, BoundAssumption DEF ReconcileProcess, TypeInv, TypeOK, Attempts
  <2>2. att[a] \in AttemptRows /\ RowOK(att[a], exec[a])
    BY <1>0, <2>1
  <2>3. Same(row, att[a]) /\ row.state = att[a].state /\ row.proc = att[a].proc /\ row.act = att[a].act
    BY <2>1, <2>2 DEF AttemptRows, Same
  <2>4. att[a].state # "absent"
    BY <1>5, <2>2 DEF ReconcileProcess, ExecInv, SeenOK, RowOK, NoAttempt
  <2>5. att' = [att EXCEPT ![a] = Refreshed(row, req, a)] /\ req' = req
    BY <1>5 DEF ReconcileProcess
  <2> HIDE DEF a, row
  <2>6. QED
    BY <1>3, <2>1, <2>3, <2>4, <2>5 DEF Same, Done, ActOpen
<1>6. ASSUME Acquire PROVE ReqNext
  <2>1. /\ DOMAIN req' = Requests
        /\ \A r \in Requests :
             \/ req'[r] = req[r]
             \/ /\ req[r].state \in {"reserved", "started"} /\ req'[r].state = "uncertain"
                /\ req'[r].att = req[r].att
    BY <1>6 DEF Acquire, TypeInv, TypeOK, RequestRows
  <2>2. RequestsMove
    BY <2>1 DEF RequestsMove, Moves, Open
  <2>3. ASSUME NEW a \in Attempts PROVE Accounts(a)
    <3>1. CASE att[a].state = "absent"
      <4>1. att'[a] = att[a]
        BY <1>6, <3>1 DEF Acquire
      <4>2. QED
        BY <2>2, <4>1, RowStill
    <3>2. CASE att[a].state # "absent"
      <4>1. att'[a] = Fenced(att[a])
        BY <1>6, <3>2 DEF Acquire
      <4>2. /\ att'[a].amount = att[a].amount /\ att'[a].state # "absent" /\ att'[a].epoch = att[a].epoch
            /\ Done(att[a]) => Done(att'[a])
            /\ att[a].proc = "stopped" => att'[a].proc = "stopped" /\ att'[a].state = att[a].state
            /\ att'[a].resv = "settled" => att[a].resv = "settled" /\ att'[a].used = att[a].used
            /\ ActOpen(att[a]) => ActOpen(att'[a])
        BY <1>0, <3>2, <4>1, FencedFields, FencedShape DEF ActOpen, Done
      <4>3. att[a].resv = "settled" => att[a].proc = "stopped"
        BY <1>0 DEF Exact
      <4>4. QED
        BY <2>2, <3>2, <4>2, <4>3, RowStill
    <3>3. QED
      BY <3>1, <3>2
  <2>4. QED
    BY <2>2, <2>3, ReqKept
<1>7. QED
  BY <1>1, <1>2, <1>4, <1>5, <1>6

LEMMA ReqStep == TypeInv /\ ExecInv /\ ReqInv /\ [Next]_vars => ReqNext
<1> SUFFICES ASSUME TypeInv, ExecInv, ReqInv, [Next]_vars PROVE ReqNext
  OBVIOUS
<1> USE DEF env, db
<1>0. TypeInv'
  BY TypeStep
<1> USE <1>0
<1>1. ASSUME UNCHANGED <<req, att>> PROVE ReqNext
  BY <1>1, RequestsStill, NoReqRow
<1>2. CASE UNCHANGED vars
  BY <1>1, <1>2 DEF vars
<1>3. ASSUME NEW p \in Plans, Plan(p) PROVE ReqNext
  BY <1>1, <1>3 DEF Plan
<1>4. ASSUME NEW a \in Attempts, NEW w \in Works, NEW n \in Amounts, Assign(a, w, n) PROVE ReqNext
  BY <1>4, ReqGranted DEF Assign, Fresh
<1>5. ASSUME NEW a \in Attempts, NEW n \in Amounts, StartCoordinator(a, n) PROVE ReqNext
  BY <1>5, ReqGranted DEF StartCoordinator, Fresh
<1>6. ASSUME NEW n \in 1..WorkerCap, SetConcurrency(n) PROVE ReqNext
  BY <1>1, <1>6 DEF SetConcurrency
<1>7. ASSUME NEW a \in Attempts, PauseWorker(a) \/ ResumeWorker(a) \/ CancelWorker(a) PROVE ReqNext
  <2>1. att[a].pause \in BOOLEAN
    BY DEF TypeInv, TypeOK, AttemptRows
  <2>2. QED
    BY <1>7, <2>1, ReqParticipant DEF PauseWorker, ResumeWorker, CancelWorker
<1>8. ASSUME NEW a \in Attempts, WorkerStarted(a) \/ ProcessStarted(a) \/ BeginTool(a) \/ Submit(a)
      PROVE  ReqNext
  BY <1>8, ReqParticipant
<1>9. ASSUME NEW a \in Attempts, NEW r \in Requests, ReserveRequest(a, r) PROVE ReqNext
  BY <1>9, ReqReserved
<1>10. ASSUME NEW r \in Requests, StartRequest(r) PROVE ReqNext
  BY <1>10, ReqParticipant
<1>11. ASSUME NEW r \in Requests, NEW o \in {"completed", "uncertain"}, SettleRequest(r, o) PROVE ReqNext
  BY <1>11, ReqRecovery DEF SettleRequest, Open
<1>12. ASSUME NEW a \in Attempts, NEW o \in {"completed", "uncertain"}, EndTool(a, o) PROVE ReqNext
  BY <1>12, ReqParticipant
<1>13. ASSUME NEW a \in Attempts, ProcessStopped(a) PROVE ReqNext
  BY <1>13, ReqParticipant
<1>14. ASSUME NEW a \in Attempts, NotLaunched(a) \/ ExecutionEnds(a) PROVE ReqNext
  BY <1>1, <1>14 DEF NotLaunched, ExecutionEnds
<1>15. ASSUME NEW a \in Attempts, NEW o \in {"submitted", "completed", "failed", "cancelled"},
              WorkerStopped(a, o)
       PROVE  ReqNext
  BY <1>15, ReqRecovery DEF WorkerStopped
<1>16. CASE Pause \/ Resume \/ Stop \/ Checkpoint \/ Complete \/ LeaseExpires
  BY <1>1, <1>16 DEF Pause, Resume, Stop, Checkpoint, Complete, LeaseExpires
<1>17. ASSUME NEW a \in Attempts, AcceptResult(a) PROVE ReqNext
  BY <1>1, <1>17 DEF AcceptResult
<1>18. ASSUME NEW a \in Attempts, Reject(a) PROVE ReqNext
  BY <1>18, ReqParticipant
<1>19. ASSUME NEW w \in Works, Retry(w) PROVE ReqNext
  BY <1>1, <1>19 DEF Retry
<1>20. CASE Acquire \/ ReconcileProcess
  BY <1>20, ReqRecovery
<1>21. ASSUME NEW a \in Attempts, NEW s \in {"stopped", "unknown"}, InspectProcess(a, s) PROVE ReqNext
  BY <1>1, <1>21 DEF InspectProcess
<1>22. ASSUME NEW a \in Attempts, RecoverStop(a) \/ ReconcileAction(a) PROVE ReqNext
  BY <1>22, ReqRecovery DEF RecoverStop
<1>23. ASSUME NEW r \in Requests, NEW o \in {"completed", "failed", "not_started", "uncertain"},
              ReconcileRequest(r, o)
       PROVE  ReqNext
  BY <1>23, ReqRecovery DEF ReconcileRequest, Open
<1>24. ASSUME NEW s \in SUBSET Works, Recover(s) PROVE ReqNext
  BY <1>1, <1>24 DEF Recover
<1>25. ASSUME NEW e \in Epochs, HostCrash(e) PROVE ReqNext
  BY <1>1, <1>25 DEF HostCrash
<1>26. QED
  BY <1>2, <1>3, <1>4, <1>5, <1>6, <1>7, <1>8, <1>9, <1>10, <1>11, <1>12, <1>13, <1>14, <1>15,
     <1>16, <1>17, <1>18, <1>19, <1>20, <1>21, <1>22, <1>23, <1>24, <1>25 DEF Next

LEMMA ReqInit == Init => ReqInv
<1> SUFFICES ASSUME Init PROVE ReqInv
  OBVIOUS
<1>1. /\ \A a \in Attempts : att[a] = NoAttempt
      /\ \A r \in Requests : req[r] = NoRequest
  BY DEF Init
<1>2. \A a \in Attempts : RequestsOf(req, a) = {}
  BY <1>1, BoundAssumption DEF RequestsOf, NoRequest, Attempts
<1>3. \A a \in Attempts : OpenOf(req, a) = {} /\ Spent(req, a) = 0 /\ Held(req, a) = 0
  <2> TAKE a \in Attempts
  <2>1. /\ {r \in RequestsOf(req, a) : req[r].state \in {"completed", "failed"}} = {}
        /\ {r \in RequestsOf(req, a) : req[r].state # "not_started"} = {}
        /\ OpenOf(req, a) = {}
    BY <1>2 DEF OpenOf
  <2>2. QED
    BY <2>1, FS_EmptySet DEF Spent, Held
<1>4. Begun /\ Owned /\ \A a \in Attempts : Exact(a) /\ Within(a)
  BY <1>1, <1>3 DEF Begun, Owned, Exact, Within, NoAttempt, NoRequest
<1>5. \A a \in Attempts : Ceiling(a) = 0
  BY <1>1, <1>3 DEF Ceiling, NoAttempt
<1>6. Units([a \in Attempts |-> Ceiling(a)]) = {}
  <2> DEFINE c == [a \in Attempts |-> Ceiling(a)]
  <2>1. \A a \in Attempts : c[a] = 0
    BY <1>5
  <2> HIDE DEF c
  <2>2. Units(c) = {}
    BY <2>1, UnitsMember
  <2>3. QED
    BY <2>2 DEF c
<1>7. Budget
  BY <1>6, FS_EmptySet, LimitAssumption DEF Budget, Ceilings
<1>8. QED
  BY <1>4, <1>7 DEF ReqInv

LEMMA Accounted == Spec => [](TypeInv /\ ExecInv /\ ReqInv)
<1>1. ReqNext => ReqInv'
  BY DEF ReqNext
<1>2. QED
  BY <1>1, TypeInit, TypeStep, ExecInit, ExecStep, ReqInit, ReqStep, PTL DEF Spec

-----------------------------------------------------------------------------
(* What follows *)

\* A settled reservation is the exact sum of its requests, none of which can
\* still change, of a process that is over.
THEOREM SettledExact == Spec => []SettledIsExact
<1>1. ReqInv => SettledIsExact
  BY DEF ReqInv, Exact, SettledIsExact, Made
<1>2. QED
  BY <1>1, Accounted, PTL

\* Neither the run nor an attempt ever invokes a provider more often than it
\* was granted: crashes, takeovers, reconciliation and refunds included.
THEOREM SpendLimit == Spec => []SpendWithinLimit
<1>1. ASSUME TypeInv, ReqInv PROVE SpendWithinLimit
  <2> DEFINE Of(a) == Invoked \cap RequestsOf(req, a)
             c == [a \in Attempts |-> Ceiling(a)]
             of == [r \in Invoked |-> req[r].att]
  <2>1. \A r \in Invoked : r \in Requests /\ req[r].state \notin {"absent", "reserved", "not_started"}
    BY <1>1 DEF Invoked, ReqInv, Begun
  <2>2. ASSUME NEW a \in Attempts
        PROVE  /\ IsFiniteSet(Of(a)) /\ Cardinality(Of(a)) \in Nat
               /\ Cardinality(Of(a)) <= Held(req, a)
               /\ OpenOf(req, a) = {} => Cardinality(Of(a)) <= Spent(req, a)
    <3> DEFINE H == {r \in RequestsOf(req, a) : req[r].state # "not_started"}
               S == {r \in RequestsOf(req, a) : req[r].state \in {"completed", "failed"}}
               I == Of(a)
    <3>1. IsFiniteSet(H) /\ IsFiniteSet(S) /\ Held(req, a) = Cardinality(H) /\ Spent(req, a) = Cardinality(S)
      BY RequestSets DEF Held, Spent
    <3>2. I \subseteq H
      BY <2>1
    <3>3. OpenOf(req, a) = {} => I \subseteq S
      <4>1. \A r \in Requests : req[r].state \in RequestStates
        BY <1>1 DEF TypeInv, TypeOK, RequestRows
      <4>2. \A r \in RequestsOf(req, a) : OpenOf(req, a) = {} => req[r].state \notin Open
        BY DEF OpenOf
      <4>3. QED
        BY <2>1, <4>1, <4>2 DEF RequestStates, Open
    <3> HIDE DEF H, S, I
    <3>4. IsFiniteSet(I) /\ Cardinality(I) <= Cardinality(H) /\ Cardinality(I) \in Nat
      BY <3>1, <3>2, FS_Subset, FS_CardinalityType
    <3>5. OpenOf(req, a) = {} => Cardinality(I) <= Cardinality(S)
      BY <3>1, <3>3, FS_Subset
    <3>6. QED
      BY <3>1, <3>4, <3>5 DEF I
  <2>3. ASSUME NEW a \in Attempts
        PROVE  /\ Ceiling(a) \in Nat /\ Cardinality(Of(a)) <= Ceiling(a)
               /\ Cardinality(Of(a)) <= att[a].amount
    <3>1. Held(req, a) <= att[a].amount /\ att[a].amount \in Nat
      BY <1>1 DEF ReqInv, Within, TypeInv, TypeOK, AttemptRows
    <3>2. Held(req, a) \in Nat /\ Spent(req, a) \in Nat
      BY RequestSets
    <3> HIDE DEF Of
    <3>3. QED
      BY <2>2, <3>1, <3>2 DEF Ceiling
  <2>4. of \in [Invoked -> Attempts]
    BY <1>1, <2>1 DEF TypeInv, Keyed
  <2>5. \A a \in Attempts : {r \in Invoked : of[r] = a} = Of(a)
    BY <2>1 DEF RequestsOf
  <2>6. c \in [Attempts -> Nat] /\ \A a \in Attempts : c[a] = Ceiling(a)
    BY <2>3
  <2>7. Ceilings = Cardinality(Units(c)) /\ Ceilings <= RequestLimit
    BY <1>1 DEF Ceilings, ReqInv, Budget
  <2>8. \A a \in Made : Cardinality(Invoked \cap RequestsOf(req, a)) <= att[a].amount
    BY <2>3 DEF Made
  <2> HIDE DEF c, of, Of
  <2>9. Cardinality(Invoked) <= Cardinality(Units(c))
    <3>1. \A a \in Attempts : IsFiniteSet({r \in Invoked : of[r] = a})
                              /\ Cardinality({r \in Invoked : of[r] = a}) <= c[a]
      BY <2>2, <2>3, <2>5, <2>6
    <3> HIDE DEF SpendWithinLimit
    <3>2. QED
      BY <2>4, <2>6, <3>1, UnitsCount
  <2>10. Cardinality(Invoked) \in Nat /\ Cardinality(Units(c)) \in Nat
    <3>1. IsFiniteSet(Requests)
      BY BoundAssumption, FS_Interval DEF Requests
    <3>2. IsFiniteSet(Invoked)
      BY <2>1, <3>1, FS_Subset
    <3>3. QED
      BY <2>6, <3>2, UnitsFinite, FS_CardinalityType
  <2>11. QED
    BY <2>7, <2>8, <2>9, <2>10, LimitAssumption DEF SpendWithinLimit
<1>2. QED
  BY <1>1, Accounted, PTL

-----------------------------------------------------------------------------
(* Recovery *)

PastOver == run.state # "recovery_required" =>
              \A a \in Made : att[a].epoch < run.epoch => Over(a)

\* A run leaves recovery by the command that ends it, and by nothing else.
LEMMA RecoveryLeft ==
  ASSUME TypeInv, [Next]_vars, run.state = "recovery_required", run'.state # "recovery_required"
  PROVE  \E s \in SUBSET Works : Recover(s)
<1>0. run \in RunRows
  BY DEF TypeInv, TypeOK
<1>1. ASSUME NEW rn \in RunRows, rn.state = "recovery_required", CommitRun(rn) PROVE FALSE
  BY <1>1, CheckpointedShape DEF CommitRun
<1>2. CASE UNCHANGED run \/ LeaseExpires
  BY <1>0, <1>2 DEF LeaseExpires, RunRows
<1>3. CASE Commits
  BY <1>0, <1>1, <1>3 DEF Commits
<1>4. ASSUME NEW n \in 1..WorkerCap, SetConcurrency(n) PROVE FALSE
  <2> DEFINE rn == [run EXCEPT !.limit = n]
  <2>1. rn \in RunRows /\ rn.state = run.state
    BY <1>0 DEF RunRows
  <2>2. CommitRun(rn)
    BY <1>4 DEF SetConcurrency
  <2> HIDE DEF rn
  <2>3. QED
    BY <1>1, <2>1, <2>2
<1>5. CASE Pause \/ Resume \/ Complete
  BY <1>5 DEF Pause, Resume, Complete, Admitting
<1>6. CASE Stop
  <2> DEFINE rn == [run EXCEPT !.stop = TRUE,
                               !.state = IF @ = "recovery_required" THEN @ ELSE "stopping"]
  <2>1. rn \in RunRows /\ rn.state = run.state
    BY <1>0 DEF RunRows
  <2>2. CommitRun(rn)
    BY <1>6 DEF Stop
  <2> HIDE DEF rn
  <2>3. QED
    BY <1>1, <2>1, <2>2
<1>7. CASE Acquire
  BY <1>0, <1>7 DEF Acquire, RunRows
<1>8. QED
  BY <1>2, <1>3, <1>4, <1>5, <1>6, <1>7, RunSteps

\* With nothing unresolved, every attempt is over: its process ended, its
\* reservation is settled, so exact, and its tool action has an outcome.
LEMMA ResolvedOver ==
  ASSUME TypeInv, ExecInv, ReqInv, ~UnresolvedIn(att), NEW a \in Made
  PROVE  Over(a)
<1>1. a \in Attempts /\ att[a].state # "absent"
  BY DEF Made
<1>2. att[a].proc = "stopped" /\ att[a].resv = "settled" /\ ~ActOpen(att[a])
  BY <1>1 DEF UnresolvedIn
<1>3. OpenOf(req, a) = {} /\ att[a].state # "uncertain"
  BY <1>1, <1>2 DEF ReqInv, Exact
<1>4. att[a].state \notin {"leased", "running"}
  BY <1>1, <1>2 DEF ExecInv, RowOK
<1>5. QED
  BY <1>2, <1>3, <1>4 DEF Over, Done, Active

LEMMA PastStep == TypeInv /\ ExecInv /\ ReqInv /\ PastOver /\ [Next]_vars => PastOver'
<1> SUFFICES ASSUME TypeInv, ExecInv, ReqInv, PastOver, [Next]_vars,
                    run'.state # "recovery_required",
                    NEW a \in Made', att'[a].epoch < run'.epoch
             PROVE  Over(a)'
  BY DEF PastOver
<1>1. a \in Attempts /\ att'[a].state # "absent"
  BY DEF Made
<1>2. ReqNext
  BY ReqStep
<1>3. run'.epoch = run.epoch /\ run.epoch \in Nat
  <2>1. run \in RunRows
    BY DEF TypeInv, TypeOK
  <2>2. ~Acquire
    BY <2>1 DEF Acquire, RunRows
  <2>3. QED
    BY <2>1, <2>2, EpochKept DEF RunRows, Epochs
<1>4. a \in Made /\ att[a].epoch < run.epoch
  BY <1>1, <1>2, <1>3 DEF ReqNext, Steady, Made
<1>5. Over(a)
  <2>1. CASE run.state = "recovery_required"
    <3>1. ~UnresolvedIn(att)
      BY <2>1, RecoveryLeft DEF Recover
    <3>2. QED
      BY <1>4, <3>1, ResolvedOver
  <2>2. CASE run.state # "recovery_required"
    BY <1>4, <2>2 DEF PastOver
  <2>3. QED
    BY <2>1, <2>2
<1>6. QED
  BY <1>1, <1>2, <1>4, <1>5 DEF ReqNext, Steady, Made

\* A run that left recovery knows what its earlier epochs did: what was over
\* when the recovery ended stays over.
THEOREM PastKnown == Spec => []PastIsKnown
<1>1. Init => PastOver
  BY DEF Init, PastOver, Made, NoAttempt
<1>2. PastOver => PastIsKnown
  BY DEF PastOver, PastIsKnown, Over, Done
<1>3. QED
  BY <1>1, <1>2, TypeInit, TypeStep, ExecInit, ExecStep, ReqInit, ReqStep, PastStep, PTL DEF Spec, ReqNext

-----------------------------------------------------------------------------
(* The end of a run *)

Ended == run.state \in Terminal => \A a \in Made : Over(a)

\* A run ends with every attempt over and every account exact; after that it
\* makes no attempt, and what is over stays so.
LEMMA EndedStep ==
  ASSUME TypeInv, ExecInv, ReqInv, Asked, Ended, [Next]_vars,
         run'.state \in Terminal, NEW a \in Attempts, att'[a].state # "absent"
  PROVE  /\ Over(a)'
         /\ run.state \notin Terminal =>
              att'[a].resv = "settled" /\ att'[a].used = Spent(req', a) /\ ~ObsOpen(att'[a])
<1>1. ReqNext /\ TypeInv' /\ ExecInv' /\ ReqInv'
  BY ReqStep, TypeStep, ExecStep DEF ReqNext
<1>2. CASE run.state \in Terminal
  <2>1. ~Admitting
    BY <1>2 DEF Terminal, Admitting
  <2>2. a \in Made /\ Over(a)
    BY <1>1, <1>2, <2>1 DEF ReqNext, Steady, Made, Ended
  <2>3. QED
    BY <1>1, <1>2, <2>2 DEF ReqNext, Steady, Made
<1>3. CASE run.state \notin Terminal
  <2>1. ~UnresolvedIn(att')
    BY <1>3, EndStep
  <2>2. /\ att'[a].proc = "stopped" /\ att'[a].resv = "settled"
        /\ ~ActOpen(att'[a]) /\ ~ObsOpen(att'[a])
    BY <2>1 DEF UnresolvedIn
  <2>3. OpenOf(req', a) = {} /\ att'[a].used = Spent(req', a) /\ att'[a].state # "uncertain"
    BY <1>1, <2>2 DEF ReqInv, Exact
  <2>4. att'[a].state \notin {"leased", "running"}
    BY <1>1, <2>2 DEF ExecInv, RowOK
  <2>5. QED
    BY <2>2, <2>3, <2>4 DEF Over, Done, Active
<1>4. QED
  BY <1>2, <1>3

\* A run is shown cancelled or completed only when none of its participants
\* executes and nothing of it waits for an outcome, and it ends with every
\* allowance settled at what was spent.
THEOREM EndResolved == Spec => EndIsResolved
<1>1. Init => Asked /\ Ended
  BY DEF Init, Asked, Ended, Made, NoAttempt
<1>2. TypeInv /\ ExecInv /\ ReqInv /\ Asked /\ Ended /\ [Next]_vars => Asked' /\ Ended' /\ EndsResolved
  <2> SUFFICES ASSUME TypeInv, ExecInv, ReqInv, Asked, Ended, [Next]_vars
               PROVE  Asked' /\ Ended' /\ EndsResolved
    OBVIOUS
  <2>1. Asked'
    BY LifecycleStep
  <2>2. Ended'
    BY EndedStep DEF Ended, Made
  <2>3. ASSUME run'.state \in Terminal, NEW a \in Made'
        PROVE  /\ exec'[a] \notin {"thread", "child"}
               /\ att'[a].proc = "stopped"
               /\ att'[a].state \in {"submitted", "completed", "failed", "cancelled"}
               /\ \A r \in Requests : req'[r].att = a => req'[r].state \in {"completed", "failed", "not_started"}
               /\ att'[a].act \in {"none", "completed"}
               /\ run.state \notin Terminal =>
                    /\ att'[a].obs \in {"none", "stopped"}
                    /\ att'[a].resv = "settled" /\ att'[a].used = Spent(req', a)
    <3>1. a \in Attempts /\ att'[a].state # "absent"
      BY DEF Made
    <3>2. /\ Over(a)'
          /\ run.state \notin Terminal =>
               att'[a].resv = "settled" /\ att'[a].used = Spent(req', a) /\ ~ObsOpen(att'[a])
      BY <2>3, <3>1, EndedStep
    <3>3. TypeInv' /\ ExecInv'
      BY TypeStep, ExecStep
    <3>4. att'[a] \in AttemptRows
      BY <3>1, <3>3 DEF TypeInv, TypeOK
    <3>5. exec'[a] \notin {"thread", "child"}
      BY <3>1, <3>2, <3>3 DEF ExecInv, RowOK, Over, Done
    <3>6. ASSUME NEW r \in Requests, req'[r].att = a
          PROVE  req'[r].state \in {"completed", "failed", "not_started"}
      <4>1. req'[r].state \in RequestStates /\ req'[r].state # "absent"
        BY <3>1, <3>3, <3>6 DEF TypeInv, TypeOK, Keyed, RequestRows, Attempts
      <4>2. req'[r].state \notin Open
        BY <3>2, <3>6 DEF Over, OpenOf, RequestsOf
      <4>3. QED
        BY <4>1, <4>2 DEF RequestStates, Open
    <3>7. QED
      BY <3>1, <3>2, <3>4, <3>5, <3>6
      DEF Over, Done, ActOpen, ObsOpen, AttemptRows, AttemptStates, Active
  <2>4. QED
    BY <2>1, <2>2, <2>3 DEF EndsResolved
<1>3. QED
  BY <1>1, <1>2, TypeInit, TypeStep, ExecInit, ExecStep, ReqInit, ReqStep, PTL
  DEF Spec, ReqNext, EndIsResolved
=============================================================================
