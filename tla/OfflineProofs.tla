--------------------------- MODULE OfflineProofs ----------------------------
(***************************************************************************)
(* The two offline tools, the seat migration and the labelling pipeline:   *)
(* each works on files or stores through steps that may stop anywhere, and *)
(* each finds its workspace as an earlier run left it.                     *)
(*                                                                         *)
(* The migration ends where it should for any number of seats, runs and    *)
(* failures: placing the seats one by one, with or without a restart, is   *)
(* the same as placing them at once.  The labelling pipeline lets nothing  *)
(* out that was not checked, for any number of plans, models, labels,      *)
(* edits and stops.                                                        *)
(***************************************************************************)
EXTENDS SeatMigration, LabelingPipeline, FiniteSetTheorems, FunctionTheorems, TLAPS

-----------------------------------------------------------------------------
(* Finite sets of numbers.                                                 *)

\* A finite set of numbers that is not empty has a least element.
LEMMA LeastExists ==
  ASSUME NEW S \in SUBSET Nat, IsFiniteSet(S), S # {}
  PROVE  \E x \in S : \A y \in S : x <= y
<1> DEFINE Below(x) == {y \in S : y < x}
           F == {Below(x) : x \in S}
           R == StrictSubsetOrdering(S)
<1>1. F \subseteq FiniteSubsetsOf(S) /\ F # {}
  <2>1. \A x \in S : Below(x) \in SUBSET S OBVIOUS
  <2>2. \A x \in S : IsFiniteSet(Below(x)) BY <2>1, FS_Subset
  <2> QED BY <2>1, <2>2 DEF FiniteSubsetsOf
<1>2. PICK T \in F : \A U \in F : <<U, T>> \notin R
  <2> HIDE DEF F, R
  <2> QED BY <1>1, FS_StrictSubsetOrderingWellFounded, WFMin DEF R
<1>3. PICK x \in S : T = Below(x) OBVIOUS
<1>4. ASSUME NEW y \in S, y < x PROVE FALSE
  <2>1. Below(y) \subseteq Below(x) /\ y \in Below(x) /\ y \notin Below(y)
    <3>1. x \in Nat /\ y \in Nat /\ \A z \in S : z \in Nat OBVIOUS
    <3>2. \A z \in S : z < y => z < x BY <1>4, <3>1
    <3>3. ~(y < y) BY <3>1
    <3>4. Below(y) \subseteq Below(x) BY <3>2, Zenon
    <3>5. y \in Below(x) BY <1>4
    <3>6. y \notin Below(y) BY <3>3, Zenon
    <3> QED BY <3>4, <3>5, <3>6
  <2>2. <<Below(y), Below(x)>> \in R BY <2>1 DEF StrictSubsetOrdering
  <2> QED BY <1>2, <1>3, <2>2
<1> QED BY <1>4

\* And a greatest one.
LEMMA GreatestExists ==
  ASSUME NEW S \in SUBSET Nat, IsFiniteSet(S), S # {}
  PROVE  \E x \in S : \A y \in S : x >= y
<1> DEFINE Above(x) == {y \in S : y > x}
           F == {Above(x) : x \in S}
           R == StrictSubsetOrdering(S)
<1>1. F \subseteq FiniteSubsetsOf(S) /\ F # {}
  <2>1. \A x \in S : Above(x) \in SUBSET S OBVIOUS
  <2>2. \A x \in S : IsFiniteSet(Above(x)) BY <2>1, FS_Subset
  <2> QED BY <2>1, <2>2 DEF FiniteSubsetsOf
<1>2. PICK T \in F : \A U \in F : <<U, T>> \notin R
  <2> HIDE DEF F, R
  <2> QED BY <1>1, FS_StrictSubsetOrderingWellFounded, WFMin DEF R
<1>3. PICK x \in S : T = Above(x) OBVIOUS
<1>4. ASSUME NEW y \in S, y > x PROVE FALSE
  <2>1. Above(y) \subseteq Above(x) /\ y \in Above(x) /\ y \notin Above(y)
    <3>1. x \in Nat /\ y \in Nat /\ \A z \in S : z \in Nat OBVIOUS
    <3>2. \A z \in S : z > y => z > x BY <1>4, <3>1
    <3>3. ~(y > y) BY <3>1
    <3>4. Above(y) \subseteq Above(x) BY <3>2, Zenon
    <3>5. y \in Above(x) BY <1>4
    <3>6. y \notin Above(y) BY <3>3, Zenon
    <3> QED BY <3>4, <3>5, <3>6
  <2>2. <<Above(y), Above(x)>> \in R BY <2>1 DEF StrictSubsetOrdering
  <2> QED BY <1>2, <1>3, <2>2
<1> QED BY <1>4

\* The next seat of a set is the least.
LEMMA FirstIsLeast ==
  ASSUME NEW S \in SUBSET Seats, S # {}
  PROVE  First(S) \in S /\ \A t \in S : First(S) <= t
<1>1. S \in SUBSET Nat /\ IsFiniteSet(S) BY MigrationAssumption, FS_Subset
<1>2. \E s \in S : \A t \in S : s <= t BY <1>1, LeastExists
<1> QED BY <1>2 DEF First

-----------------------------------------------------------------------------
(* Rows and ordinals.                                                      *)

\* The highest row bounds all rows.
LEMMA TopRowBounds ==
  ASSUME NEW ss \in SeatMap
  PROVE  /\ TopRow(ss) \in Nat
         /\ \A s \in Seats : ss[s].row \in Nat => ss[s].row <= TopRow(ss)
         /\ TopRow(ss) = 0 \/ \E s \in Seats : ss[s].row = TopRow(ss)
<1> DEFINE f == [s \in Seats |-> ss[s].row]
           T == {ss[s].row : s \in Seats}
           S == {0} \cup {n \in T : n \notin {None, Partial}}
<1>1. IsFiniteSet(T)
  <2>1. f \in Surjection(Seats, T) BY DEF Surjection
  <2> QED BY <2>1, FS_Surjection, MigrationAssumption
<1>2. \A s \in Seats : ss[s].row \in Places BY DEF SeatMap
<1>3. S \in SUBSET Nat BY <1>2 DEF Places
<1>4. IsFiniteSet(S)
  <2>1. IsFiniteSet({n \in T : n \notin {None, Partial}})
    <3>1. {n \in T : n \notin {None, Partial}} \in SUBSET T OBVIOUS
    <3> HIDE DEF T
    <3> QED BY <1>1, <3>1, FS_Subset
  <2>2. IsFiniteSet({0}) BY FS_Singleton
  <2> HIDE DEF T
  <2> QED BY <2>1, <2>2, FS_Union
<1>5. Max(S) \in S /\ \A y \in S : Max(S) >= y
  <2>1. S # {} OBVIOUS
  <2> HIDE DEF S
  <2> QED BY <1>3, <1>4, <2>1, GreatestExists DEF Max
<1>6. TopRow(ss) = Max(S) BY DEF TopRow
<1>7. \A s \in Seats : ss[s].row \in Nat => ss[s].row \in S
  BY MigrationAssumption
<1> HIDE DEF S
<1>8. TopRow(ss) \in Nat /\ \A s \in Seats : ss[s].row \in Nat => ss[s].row <= TopRow(ss)
  BY <1>3, <1>5, <1>6, <1>7
<1>9. Max(S) = 0 \/ \E s \in Seats : ss[s].row = Max(S) BY <1>5 DEF S
<1> QED BY <1>6, <1>8, <1>9

\* The ordinals of unplaced seats are positive and grow with the seats.
LEMMA OrdinalGrows ==
  ASSUME NEW ss \in SeatMap, NEW s \in Seats
  PROVE  /\ IsFiniteSet({t \in Unplaced(ss) : t <= s})
         /\ Ordinal(ss, s) \in Nat
         /\ s \in Unplaced(ss) => Ordinal(ss, s) > 0
         /\ \A u \in Unplaced(ss) : s < u => Ordinal(ss, s) < Ordinal(ss, u)
<1> DEFINE UpTo(x) == {t \in Unplaced(ss) : t <= x}
<1>1. \A x \in Seats : UpTo(x) \in SUBSET Seats BY DEF Unplaced
<1>2. \A x \in Seats : IsFiniteSet(UpTo(x)) /\ Cardinality(UpTo(x)) \in Nat
  BY <1>1, MigrationAssumption, FS_Subset, FS_CardinalityType
<1>3. s \in Unplaced(ss) => UpTo(s) # {}
  BY MigrationAssumption DEF Unplaced
<1>4. s \in Unplaced(ss) => Cardinality(UpTo(s)) > 0
  <2> HIDE DEF UpTo
  <2> QED BY <1>2, <1>3, FS_EmptySet
<1>5. ASSUME NEW u \in Unplaced(ss), s < u PROVE Cardinality(UpTo(s)) < Cardinality(UpTo(u))
  <2>1. u \in Seats /\ u \in Nat /\ s \in Nat BY MigrationAssumption DEF Unplaced
  <2>2. \A t \in Unplaced(ss) : t \in Nat BY MigrationAssumption DEF Unplaced
  <2>3. UpTo(s) \subseteq UpTo(u)
    <3>1. \A t \in Unplaced(ss) : t <= s => t <= u BY <1>5, <2>1, <2>2
    <3> QED BY <3>1
  <2>4. u \in UpTo(u) /\ u \notin UpTo(s) BY <1>5, <2>1
  <2>5. IsFiniteSet(UpTo(u)) /\ Cardinality(UpTo(u)) \in Nat /\ Cardinality(UpTo(s)) \in Nat
    BY <1>2, <2>1
  <2> HIDE DEF UpTo
  <2>6. Cardinality(UpTo(s)) <= Cardinality(UpTo(u)) /\ Cardinality(UpTo(s)) # Cardinality(UpTo(u))
    BY <2>3, <2>4, <2>5, FS_Subset
  <2> QED BY <2>5, <2>6
<1> QED BY <1>2, <1>4, <1>5 DEF Ordinal

\* A simulated seat has a row of its own above all others, or is as it was.
LEMMA SimulateType ==
  ASSUME NEW ss \in SeatMap
  PROVE  /\ Simulate(ss) \in SeatMap
         /\ \A s \in Seats : Simulate(ss)[s].status = ss[s].status
         /\ \A s \in Seats \ Unplaced(ss) : Simulate(ss)[s] = ss[s]
         /\ \A s \in Unplaced(ss) :
              /\ Simulate(ss)[s] = [status |-> "active", row |-> TopRow(ss) + Ordinal(ss, s)]
              /\ Simulate(ss)[s].row \in Nat /\ Simulate(ss)[s].row > TopRow(ss)
<1>1. TopRow(ss) \in Nat BY TopRowBounds
<1>2. \A s \in Unplaced(ss) : s \in Seats /\ ss[s].status = "active" BY DEF Unplaced
<1>3. \A s \in Unplaced(ss) : Ordinal(ss, s) \in Nat /\ Ordinal(ss, s) > 0
  BY <1>2, OrdinalGrows
<1>4. \A s \in Seats : ss[s] \in [status : {"active", "inactive", "gone"}, row : Places]
  BY DEF SeatMap
<1>5. \A s \in Unplaced(ss) :
        /\ Simulate(ss)[s] = [status |-> "active", row |-> TopRow(ss) + Ordinal(ss, s)]
        /\ Simulate(ss)[s].row \in Nat /\ Simulate(ss)[s].row > TopRow(ss)
  <2> SUFFICES ASSUME NEW s \in Unplaced(ss)
               PROVE  /\ Simulate(ss)[s] = [status |-> "active", row |-> TopRow(ss) + Ordinal(ss, s)]
                      /\ Simulate(ss)[s].row \in Nat /\ Simulate(ss)[s].row > TopRow(ss)
    OBVIOUS
  <2> DEFINE r == TopRow(ss) + Ordinal(ss, s)
  <2>1. r \in Nat /\ r > TopRow(ss) BY <1>1, <1>3
  <2>2. Simulate(ss)[s] = [ss[s] EXCEPT !.row = r] BY <1>2 DEF Simulate
  <2> HIDE DEF r
  <2>3. Simulate(ss)[s] = [status |-> "active", row |-> r] BY <1>2, <1>4, <2>2
  <2>4. Simulate(ss)[s].row = r BY <2>3
  <2> QED BY <2>1, <2>3, <2>4 DEF r
<1>6. \A s \in Seats \ Unplaced(ss) : Simulate(ss)[s] = ss[s] BY DEF Simulate
<1>7. Simulate(ss) = [s \in Seats |-> Simulate(ss)[s]] BY DEF Simulate
<1>8. \A s \in Seats : Simulate(ss)[s] \in [status : {"active", "inactive", "gone"}, row : Places]
  <2> SUFFICES ASSUME NEW s \in Seats
               PROVE  Simulate(ss)[s] \in [status : {"active", "inactive", "gone"}, row : Places]
    OBVIOUS
  <2>1. CASE s \in Unplaced(ss)
    <3> DEFINE r == TopRow(ss) + Ordinal(ss, s)
    <3>1. r \in Places BY <1>1, <1>3, <2>1 DEF Places
    <3>2. Simulate(ss)[s] = [status |-> "active", row |-> r] BY <1>5, <2>1
    <3> HIDE DEF r
    <3> QED BY <3>1, <3>2
  <2>2. CASE s \notin Unplaced(ss) BY <1>4, <1>6, <2>2
  <2> QED BY <2>1, <2>2
<1>9. ASSUME NEW s \in Seats PROVE Simulate(ss)[s].status = ss[s].status
  <2>1. CASE s \in Unplaced(ss)
    <3> DEFINE r == TopRow(ss) + Ordinal(ss, s)
    <3>1. Simulate(ss)[s] = [status |-> "active", row |-> r] BY <1>5, <2>1
    <3> HIDE DEF r
    <3> QED BY <1>2, <2>1, <3>1
  <2> QED BY <1>6, <2>1
<1>10. Simulate(ss) \in SeatMap BY <1>7, <1>8 DEF SeatMap
<1> QED BY <1>5, <1>6, <1>9, <1>10

\* A classroom without unplaced seats stays as it is.
LEMMA NothingToPlace ==
  ASSUME NEW ss \in SeatMap, Unplaced(ss) = {}
  PROVE  Simulate(ss) = ss
<1>1. \A s \in Seats : Simulate(ss)[s] = ss[s] BY SimulateType
<1>2. DOMAIN ss = Seats /\ ss = [s \in Seats |-> ss[s]] BY DEF SeatMap
<1>3. Simulate(ss) = [s \in Seats |-> Simulate(ss)[s]] BY DEF Simulate
<1> QED BY <1>1, <1>2, <1>3

\* The migration may be continued after each place: what is left to do is unchanged by
\* placing the first seat where the migration puts it.
LEMMA Continuation ==
  ASSUME NEW ss \in SeatMap, NEW u \in Unplaced(ss),
         \A t \in Unplaced(ss) : u <= t,
         NEW next, next = [ss EXCEPT ![u] = Simulate(ss)[u]]
  PROVE  /\ next \in SeatMap
         /\ Unplaced(next) = Unplaced(ss) \ {u}
         /\ Simulate(next) = Simulate(ss)
<1> DEFINE U == Unplaced(ss)
<1>1. u \in Seats /\ U \subseteq Seats /\ Seats \subseteq Nat BY MigrationAssumption DEF Unplaced
<1>2. TopRow(ss) \in Nat BY TopRowBounds
<1>3. Simulate(ss) \in SeatMap BY SimulateType
<1>4. next \in SeatMap /\ next[u] = Simulate(ss)[u] /\ \A s \in Seats \ {u} : next[s] = ss[s]
  BY <1>1, <1>3 DEF SeatMap
<1>5. Ordinal(ss, u) = 1
  <2>1. {t \in U : t <= u} = {u}
    <3>1. \A t \in U : t \in Nat /\ u \in Nat /\ u <= t BY <1>1
    <3>2. \A t \in U : t <= u => t = u BY <3>1
    <3>3. u <= u BY <3>1
    <3> QED BY <3>2, <3>3
  <2> QED BY <2>1, FS_Singleton DEF Ordinal
<1>6. next[u] = [status |-> "active", row |-> TopRow(ss) + 1]
  BY <1>4, <1>5, SimulateType
<1>7. Unplaced(next) = U \ {u}
  <2>1. TopRow(ss) + 1 # None BY <1>2, MigrationAssumption
  <2>2. next[u].row # None BY <1>6, <2>1
  <2>3. u \notin Unplaced(next) BY <2>2 DEF Unplaced
  <2>4. \A s \in Seats \ {u} : s \in Unplaced(next) <=> s \in U BY <1>4 DEF Unplaced
  <2>5. Unplaced(next) \subseteq Seats BY DEF Unplaced
  <2> QED BY <1>1, <2>3, <2>4, <2>5
<1>8. TopRow(next) = TopRow(ss) + 1
  <2>2. next[u].row = TopRow(ss) + 1 /\ next[u].row \in Nat BY <1>2, <1>6
  <2>1. TopRow(next) \in Nat /\ next[u].row <= TopRow(next) BY <1>1, <1>4, <2>2, TopRowBounds
  <2>3. \A s \in Seats : ss[s].row \in Nat => ss[s].row <= TopRow(ss) BY TopRowBounds
  <2>4. TopRow(next) = 0 \/ \E s \in Seats : next[s].row = TopRow(next) BY <1>4, TopRowBounds
  <2>5. ASSUME NEW s \in Seats, next[s].row = TopRow(next)
        PROVE  TopRow(next) <= TopRow(ss) + 1
    <3>1. CASE s = u BY <1>2, <2>2, <2>5, <3>1
    <3>2. CASE s # u
      <4>1. TopRow(next) <= TopRow(ss) BY <1>4, <2>1, <2>3, <2>5, <3>2
      <4> QED BY <1>2, <2>1, <4>1
    <3> QED BY <3>1, <3>2
  <2>6. TopRow(next) <= TopRow(ss) + 1
    <3>1. CASE TopRow(next) = 0 BY <1>2, <3>1
    <3> QED BY <2>4, <2>5, <3>1
  <2>7. TopRow(next) >= TopRow(ss) + 1 BY <2>1, <2>2
  <2> QED BY <1>2, <2>1, <2>6, <2>7
<1>9. \A s \in U \ {u} : Ordinal(next, s) = Ordinal(ss, s) - 1
  <2> SUFFICES ASSUME NEW s \in U \ {u} PROVE Ordinal(next, s) = Ordinal(ss, s) - 1
    OBVIOUS
  <2> DEFINE T == {t \in U : t <= s}
  <2>1. {t \in Unplaced(next) : t <= s} = T \ {u} BY <1>7
  <2>2. u \in T OBVIOUS
  <2>3. IsFiniteSet(T) /\ Cardinality(T) \in Nat BY <1>1, OrdinalGrows DEF Ordinal
  <2> HIDE DEF T
  <2>4. Cardinality(T \ {u}) = Cardinality(T) - 1 BY <2>2, <2>3, FS_RemoveElement
  <2>5. Ordinal(next, s) = Cardinality(T \ {u}) BY <2>1 DEF Ordinal
  <2>6. Ordinal(ss, s) = Cardinality(T) BY DEF Ordinal, T
  <2> QED BY <2>4, <2>5, <2>6
<1>10. ASSUME NEW s \in Seats PROVE Simulate(next)[s] = Simulate(ss)[s]
  <2>1. CASE s \in U \ {u}
    <3>1. Ordinal(ss, s) \in Nat /\ Ordinal(next, s) \in Nat BY <1>4, OrdinalGrows
    <3>2. TopRow(next) + Ordinal(next, s) = TopRow(ss) + Ordinal(ss, s)
      <4>1. Ordinal(next, s) = Ordinal(ss, s) - 1 BY <1>9, <2>1
      <4> QED BY <1>2, <1>8, <3>1, <4>1
    <3>3. Simulate(next)[s] = [status |-> "active", row |-> TopRow(next) + Ordinal(next, s)]
      BY <1>4, <1>7, <2>1, SimulateType
    <3>4. Simulate(ss)[s] = [status |-> "active", row |-> TopRow(ss) + Ordinal(ss, s)]
      BY <2>1, SimulateType
    <3> QED BY <3>2, <3>3, <3>4
  <2>2. CASE s = u BY <1>1, <1>4, <1>7, <2>2, SimulateType
  <2>3. CASE s \notin U
    <3>1. s # u /\ s \notin Unplaced(next) BY <1>7, <2>3
    <3>2. Simulate(next)[s] = next[s] BY <1>4, <3>1, SimulateType
    <3>3. Simulate(ss)[s] = ss[s] BY <2>3, SimulateType
    <3> QED BY <1>4, <3>1, <3>2, <3>3
  <2> QED BY <2>1, <2>2, <2>3
<1>11. Simulate(next) = Simulate(ss)
  <2>1. /\ Simulate(next) = [s \in Seats |-> Simulate(next)[s]]
        /\ Simulate(ss) = [s \in Seats |-> Simulate(ss)[s]]
    BY DEF Simulate
  <2> QED BY <1>10, <2>1
<1> QED BY <1>4, <1>7, <1>11
-----------------------------------------------------------------------------
(* The invariant.                                                          *)

Running == {"payload", "append", "record"}
Restoring == {"restore", "unassign", "assign"}
SnapshotType == [seats : SeatMap, assigned : [Seats -> Students \cup {None}], payload : BOOLEAN]
JobType == [run : BOOLEAN, snap : Nat, todo : SUBSET Seats, seat : Seats \cup {None}]
Old == snapshots[job.snap]
Distinct(ss) == \A s, t \in Seats : ss[s].row \in Nat /\ ss[s].row = ss[t].row => s = t
Between(ss, old) == \A s \in Seats : ss[s] \in {old[s], Simulate(old)[s]}

TypeInv ==
  /\ seats \in SeatMap /\ base \in SeatMap
  /\ assigned \in [Seats -> Students \cup {None}]
  /\ snapshots \in Seq(SnapshotType)
  /\ job \in JobType
  /\ pc \in {"idle", "audit"} \cup Running \cup Restoring
  /\ Distinct(seats)

\* What the operation at work refers to exists.
JobInv ==
  /\ pc \notin {"idle", "audit"} => job.snap \in DOMAIN snapshots
  /\ answer \in {"refused", "rolledback"} => job.snap \in DOMAIN snapshots
  /\ pc # "idle" => answer = "none"
  /\ pc \in Running => job.run
  /\ pc = "record" => job.seat \in job.todo
  /\ pc = "audit" => job.seat \in Seats

\* A run is on its way from its snapshot to the simulated end, and what it has left to do
\* is what a new run would find.
RunInv ==
  pc \in Running =>
    /\ Simulate(seats) = Simulate(Old.seats)
    /\ Unplaced(seats) = IF pc = "record" THEN job.todo \ {job.seat} ELSE job.todo
    /\ Between(seats, Old.seats)
    /\ \A s \in There(seats) : seats[s].row # Partial

\* What a restore has done is as in the snapshot; a run that is taken back has not left the
\* way from the snapshot to the end.
RestoreInv ==
  /\ pc \in Restoring => \A s \in There(Old.seats) :
       seats[s] = Old.seats[s] \/ (pc = "restore" /\ s \in job.todo)
  /\ pc \in Restoring /\ job.run => Between(seats, Old.seats)
  /\ pc = "restore" => job.todo \subseteq There(Old.seats)
  /\ pc = "restore" /\ job.run /\ job.todo = There(Old.seats) =>
       Simulate(seats) = Simulate(Old.seats)
  /\ pc = "unassign" => \A s \in Seats \ job.todo : assigned[s] = None
  /\ pc = "assign" => \A s \in Seats \ job.todo : assigned[s] = Old.assigned[s]

\* Runs, cut short or taken back, leave the end they are heading for as it was, unless one
\* was stopped half way back.
SimInv ==
  ~halved => IF pc \in Restoring /\ job.run
             THEN Simulate(Old.seats) = Simulate(base)
             ELSE Simulate(seats) = Simulate(base)

AnswerInv == ResumedIsTheSame /\ RestoredIsAsBefore

IInv == TypeInv /\ JobInv /\ RunInv /\ RestoreInv /\ SimInv /\ AnswerInv

\* The places in the seats and in the snapshots that the audit trail should have and has not.
Seen(s) == {seats[s].row} \cup {snapshots[k].seats[s].row : k \in DOMAIN snapshots}
Pending == IF pc \in {"record", "audit"} THEN {<<job.seat, seats[job.seat].row>>} ELSE {}
Unaudited ==
  {p \in Seats \X Nat : p[2] \in Seen(p[1]) /\ p \notin records \cup manual \cup Pending}
AuditInv == IsFiniteSet(Unaudited) /\ faults \in Nat /\ Cardinality(Unaudited) <= faults
-----------------------------------------------------------------------------
(* Seat maps and what becomes of them.                                     *)

\* A seat whose new place is nobody else's leaves the places distinct.
LEMMA DistinctUpdate ==
  ASSUME NEW ss \in SeatMap, Distinct(ss), NEW s \in Seats, NEW v, 
         v.row \in Nat => \A t \in Seats \ {s} : ss[t].row # v.row
  PROVE  Distinct([ss EXCEPT ![s] = v])
<1> DEFINE next == [ss EXCEPT ![s] = v]
<1>1. next[s] = v /\ \A t \in Seats \ {s} : next[t] = ss[t] BY DEF SeatMap
<1> HIDE DEF next
<1>2. SUFFICES ASSUME NEW t \in Seats, NEW u \in Seats, next[t].row \in Nat, next[t].row = next[u].row
               PROVE  t = u
  BY DEF Distinct, next
<1>3. CASE t = s BY <1>1, <1>2, <1>3
<1>4. CASE u = s BY <1>1, <1>2, <1>4
<1>5. CASE t # s /\ u # s BY <1>1, <1>2, <1>5 DEF Distinct
<1> QED BY <1>3, <1>4, <1>5

\* The seats are as in a snapshot once those it has are.
LEMMA BetweenSame ==
  ASSUME NEW ss \in SeatMap, NEW old \in SeatMap, Between(ss, old),
         \A s \in There(old) : ss[s] = old[s]
  PROVE  ss = old
<1>1. ASSUME NEW s \in Seats PROVE ss[s] = old[s]
  <2>1. CASE s \in There(old) BY <2>1
  <2>2. CASE s \notin There(old)
    <3>1. s \notin Unplaced(old) BY <2>2 DEF There, Unplaced
    <3>2. Simulate(old)[s] = old[s] BY <3>1, SimulateType
    <3> QED BY <3>2 DEF Between
  <2> QED BY <2>1, <2>2
<1> QED BY <1>1 DEF SeatMap

\* The first seat as text is a seat.
LEMMA FirstInTextIn ==
  ASSUME NEW S \in SUBSET Seats, S # {}
  PROVE  FirstInText(S) \in S
<1> DEFINE T == {TextRank[s] : s \in S}
           f == [s \in S |-> TextRank[s]]
<1>1. T \in SUBSET Nat /\ T # {}
  <2>1. \A s \in S : TextRank[s] \in Nat BY MigrationAssumption
  <2> QED BY <2>1
<1>2. IsFiniteSet(T)
  <2>1. IsFiniteSet(S) BY MigrationAssumption, FS_Subset
  <2>2. f \in Surjection(S, T) BY DEF Surjection
  <2> QED BY <2>1, <2>2, FS_Surjection
<1>3. PICK x \in T : \A y \in T : x <= y
  <2> HIDE DEF T
  <2> QED BY <1>1, <1>2, LeastExists
<1>4. PICK s \in S : TextRank[s] = x OBVIOUS
<1>5. \A t \in S : TextRank[s] <= TextRank[t] BY <1>3, <1>4
<1> QED BY <1>5 DEF FirstInText

-----------------------------------------------------------------------------
(* Runs.                                                                   *)

\* What a busy operation refers to.
LEMMA OldType ==
  ASSUME TypeInv, JobInv, pc \notin {"idle", "audit"}
  PROVE  Old \in SnapshotType /\ Old.seats \in SeatMap /\ answer = "none"
<1>1. snapshots \in Seq(SnapshotType) /\ job.snap \in DOMAIN snapshots BY DEF TypeInv, JobInv
<1>2. Old \in SnapshotType BY <1>1 DEF Old
<1>3. answer = "none" BY DEF JobInv
<1> QED BY <1>2, <1>3 DEF SnapshotType

\* The seat that is next has a place that nobody has, and the run is continued by it.
LEMMA PlacedIsNext ==
  ASSUME IInv, pc = "append", job.todo # {}
  PROVE  LET s == NextUnplaced IN
         /\ s \in job.todo /\ s \in Seats
         /\ ~Taken(s, Target(s).row)
         /\ Target(s) = Simulate(Old.seats)[s]
         /\ Placed(s) \in SeatMap /\ Distinct(Placed(s))
         /\ Placed(s) = [seats EXCEPT ![s] = Target(s)]
         /\ Simulate(Placed(s)) = Simulate(seats)
         /\ Unplaced(Placed(s)) = Unplaced(seats) \ {s}
         /\ Between(Placed(s), Old.seats)
         /\ \A t \in There(Placed(s)) : Placed(s)[t].row # Partial
<1> DEFINE s == NextUnplaced
<1>1. seats \in SeatMap /\ Distinct(seats) /\ job.todo \in SUBSET Seats
  BY DEF IInv, TypeInv, JobType
<1>2. /\ Simulate(seats) = Simulate(Old.seats) /\ Unplaced(seats) = job.todo
      /\ Between(seats, Old.seats) /\ \A t \in There(seats) : seats[t].row # Partial
  BY DEF IInv, RunInv, Running
<1>3. s \in job.todo /\ s \in Seats /\ \A t \in Unplaced(seats) : s <= t
  BY <1>1, <1>2, FirstIsLeast DEF NextUnplaced
<1>4. Target(s) = Simulate(seats)[s] /\ Target(s) = Simulate(Old.seats)[s]
  BY <1>2 DEF Target, Old
<1> HIDE DEF s
<1>5. Target(s).row \in Nat /\ Target(s).row > TopRow(seats)
  BY <1>1, <1>2, <1>3, <1>4, SimulateType
<1>6. \A t \in Seats : seats[t].row # Target(s).row
  <2>1. TopRow(seats) \in Nat /\ \A t \in Seats : seats[t].row \in Nat => seats[t].row <= TopRow(seats)
    BY <1>1, TopRowBounds
  <2> QED BY <1>5, <2>1
<1>7. ~Taken(s, Target(s).row) BY <1>6 DEF Taken
<1>8. Placed(s) = [seats EXCEPT ![s] = Target(s)] BY <1>7 DEF Placed
<1>9. Distinct(Placed(s))
  <2> DEFINE v == Target(s)
  <2>1. v.row \in Nat => \A t \in Seats \ {s} : seats[t].row # v.row BY <1>6
  <2>2. Placed(s) = [seats EXCEPT ![s] = v] BY <1>8
  <2> HIDE DEF v
  <2>3. Distinct([seats EXCEPT ![s] = v]) BY <1>1, <1>3, <2>1, DistinctUpdate
  <2> QED BY <2>2, <2>3
<1>10. /\ Placed(s) \in SeatMap /\ Simulate(Placed(s)) = Simulate(seats)
       /\ Unplaced(Placed(s)) = Unplaced(seats) \ {s}
  <2>1. s \in Unplaced(seats) BY <1>2, <1>3
  <2>2. Placed(s) = [seats EXCEPT ![s] = Simulate(seats)[s]] BY <1>4, <1>8
  <2> QED BY <1>1, <1>3, <2>1, <2>2, Continuation
<1>11. Placed(s)[s] = Target(s) /\ \A t \in Seats \ {s} : Placed(s)[t] = seats[t]
  BY <1>1, <1>3, <1>8 DEF SeatMap
<1>12. Between(Placed(s), Old.seats) BY <1>2, <1>4, <1>11 DEF Between
<1>13. ASSUME NEW t \in There(Placed(s)) PROVE Placed(s)[t].row # Partial
  <2>1. CASE t = s BY <1>5, <1>11, <2>1, MigrationAssumption
  <2>2. CASE t # s BY <1>2, <1>11, <2>2 DEF There
  <2> QED BY <2>1, <2>2
<1> QED BY <1>3, <1>4, <1>7, <1>8, <1>9, <1>10, <1>12, <1>13 DEF s

\* The run starts where its snapshot is.
LEMMA StartRunStep == ASSUME IInv, StartRun PROVE IInv'
<1> DEFINE new == [seats |-> seats, assigned |-> assigned, payload |-> FALSE]
<1>0. TypeInv BY DEF IInv
<1>1. new \in SnapshotType BY <1>0 DEF TypeInv, SnapshotType
<1>2. /\ snapshots' = Append(snapshots, new) /\ pc' = "payload" /\ answer' = "none"
      /\ job' = [run |-> TRUE, snap |-> Len(snapshots) + 1, todo |-> Unplaced(seats), seat |-> None]
      /\ seats' = seats /\ assigned' = assigned /\ base' = base /\ halved' = halved
      /\ \A s \in There(seats) : seats[s].row # Partial
  BY DEF StartRun, ghosts
<1>3. snapshots' \in Seq(SnapshotType) /\ job'.snap \in DOMAIN snapshots' /\ snapshots'[job'.snap] = new
  <2> HIDE DEF new
  <2> QED BY <1>0, <1>1, <1>2 DEF TypeInv
<1>4. Old'.seats = seats BY <1>3 DEF Old
<1>5. Unplaced(seats) \in SUBSET Seats BY DEF Unplaced
<1>6. TypeInv' BY <1>0, <1>2, <1>3, <1>5 DEF TypeInv, JobType, Running, Distinct
<1>7. JobInv' BY <1>2, <1>3 DEF JobInv, Running
<1>8. RunInv' BY <1>2, <1>4 DEF RunInv, Between
<1>9. RestoreInv' BY <1>2 DEF RestoreInv, Restoring
<1>10. SimInv'
  <2>1. pc \notin Restoring BY DEF StartRun, Restoring
  <2> QED BY <1>2, <2>1 DEF IInv, SimInv, Restoring
<1>11. AnswerInv' BY <1>2 DEF AnswerInv, ResumedIsTheSame, RestoredIsAsBefore
<1> QED BY <1>6, <1>7, <1>8, <1>9, <1>10, <1>11 DEF IInv

LEMMA SavePayloadStep == ASSUME IInv, SavePayload PROVE IInv'
<1>1. /\ pc = "payload" /\ snapshots' = [snapshots EXCEPT ![job.snap].payload = TRUE]
      /\ pc' = "append" /\ job' = job /\ answer' = answer
      /\ seats' = seats /\ assigned' = assigned /\ base' = base /\ halved' = halved
  BY DEF SavePayload, ghosts
<1>2. TypeInv /\ JobInv BY DEF IInv
<1>3. Old \in SnapshotType /\ answer = "none" BY <1>1, <1>2, OldType
<1>4. job.snap \in DOMAIN snapshots /\ snapshots \in Seq(SnapshotType)
  BY <1>1, <1>2 DEF TypeInv, JobInv
<1>5. snapshots'[job.snap] = [Old EXCEPT !.payload = TRUE] BY <1>1, <1>4 DEF Old
<1>6. Old'.seats = Old.seats BY <1>1, <1>3, <1>5 DEF Old, SnapshotType
<1>7. snapshots' \in Seq(SnapshotType) /\ DOMAIN snapshots' = DOMAIN snapshots
  <2>1. [Old EXCEPT !.payload = TRUE] \in SnapshotType BY <1>3 DEF SnapshotType
  <2>2. snapshots' = [snapshots EXCEPT ![job.snap] = [Old EXCEPT !.payload = TRUE]]
    BY <1>1, <1>4 DEF Old
  <2> QED BY <1>4, <2>1, <2>2
<1>8. TypeInv' BY <1>1, <1>2, <1>7 DEF TypeInv, Running, Distinct
<1>9. JobInv' BY <1>1, <1>2, <1>3, <1>7 DEF JobInv, Running
<1>10. RunInv' BY <1>1, <1>6 DEF IInv, RunInv, Running
<1>11. RestoreInv' BY <1>1 DEF RestoreInv, Restoring
<1>12. SimInv' BY <1>1 DEF IInv, SimInv, Restoring
<1>13. AnswerInv' BY <1>1, <1>3 DEF AnswerInv, ResumedIsTheSame, RestoredIsAsBefore
<1> QED BY <1>8, <1>9, <1>10, <1>11, <1>12, <1>13 DEF IInv

LEMMA AppendPlaceStep == ASSUME IInv, AppendPlace PROVE IInv'
<1> DEFINE s == NextUnplaced
<1>1. TypeInv /\ JobInv /\ pc = "append" /\ job.todo # {} BY DEF IInv, AppendPlace
<1>2. /\ s \in job.todo /\ s \in Seats /\ ~Taken(s, Target(s).row)
      /\ Placed(s) \in SeatMap /\ Distinct(Placed(s))
      /\ Simulate(Placed(s)) = Simulate(seats)
      /\ Unplaced(Placed(s)) = Unplaced(seats) \ {s}
      /\ Between(Placed(s), Old.seats)
      /\ \A t \in There(Placed(s)) : Placed(s)[t].row # Partial
  BY <1>1, PlacedIsNext
<1>3. /\ seats' = Placed(s) /\ pc' = "record" /\ job' = [job EXCEPT !.seat = s]
      /\ snapshots' = snapshots /\ answer' = answer /\ assigned' = assigned /\ base' = base /\ halved' = halved
  BY <1>2 DEF AppendPlace, ghosts
<1> HIDE DEF s
<1>4. /\ job' \in JobType /\ job'.seat = s /\ job'.todo = job.todo /\ job'.snap = job.snap
      /\ job'.run = job.run
  BY <1>1, <1>2, <1>3 DEF TypeInv, JobType
<1>5. Old' = Old /\ answer = "none" BY <1>1, <1>3, <1>4 DEF Old, JobInv
<1>6. TypeInv' BY <1>1, <1>2, <1>3, <1>4 DEF TypeInv, Running
<1>7. JobInv' BY <1>1, <1>2, <1>3, <1>4, <1>5 DEF JobInv, Running
<1>8. RunInv'
  <2>1. Simulate(seats) = Simulate(Old.seats) /\ Unplaced(seats) = job.todo
    BY <1>1 DEF IInv, RunInv, Running
  <2> QED BY <1>2, <1>3, <1>4, <1>5, <2>1 DEF RunInv
<1>9. RestoreInv' BY <1>3 DEF RestoreInv, Restoring
<1>10. SimInv' BY <1>1, <1>2, <1>3 DEF IInv, SimInv, Restoring
<1>11. AnswerInv' BY <1>3, <1>5 DEF AnswerInv, ResumedIsTheSame, RestoredIsAsBefore
<1> QED BY <1>6, <1>7, <1>8, <1>9, <1>10, <1>11 DEF IInv

LEMMA SaveRecordStep == ASSUME IInv, SaveRecord PROVE IInv'
<1>1. /\ pc = "record" /\ pc' = "append" /\ job' = [job EXCEPT !.todo = @ \ {job.seat}]
      /\ seats' = seats /\ snapshots' = snapshots /\ answer' = answer /\ assigned' = assigned
      /\ base' = base /\ halved' = halved
  BY DEF SaveRecord, ghosts
<1>2. TypeInv /\ JobInv BY DEF IInv
<1>3. /\ job' \in JobType /\ job'.todo = job.todo \ {job.seat} /\ job'.snap = job.snap
      /\ job'.run = job.run
  BY <1>1, <1>2 DEF TypeInv, JobType
<1>4. Old' = Old /\ answer = "none" BY <1>1, <1>2, <1>3 DEF Old, JobInv
<1>5. TypeInv' BY <1>1, <1>2, <1>3 DEF TypeInv, Running, Distinct
<1>6. JobInv' BY <1>1, <1>2, <1>3, <1>4 DEF JobInv, Running
<1>7. RunInv' BY <1>1, <1>3, <1>4 DEF IInv, RunInv, Running
<1>8. RestoreInv' BY <1>1 DEF RestoreInv, Restoring
<1>9. SimInv' BY <1>1 DEF IInv, SimInv, Restoring
<1>10. AnswerInv' BY <1>1, <1>4 DEF AnswerInv, ResumedIsTheSame, RestoredIsAsBefore
<1> QED BY <1>5, <1>6, <1>7, <1>8, <1>9, <1>10 DEF IInv

\* A run on its way from its snapshot may be taken back at any time.
LEMMA TakeBackStep ==
  ASSUME IInv, pc \in {"append", "record"}, BeginRestore,
         seats' \in SeatMap, Distinct(seats'), Between(seats', Old.seats),
         Simulate(seats') = Simulate(seats),
         UNCHANGED <<assigned, snapshots, answer, base, halved>>
  PROVE  IInv'
<1>1. TypeInv /\ JobInv /\ job.run BY DEF IInv, JobInv, Running
<1>2. /\ pc' = "restore" /\ job' = [job EXCEPT !.todo = There(Old.seats)]
  BY DEF BeginRestore, Old
<1>3. /\ job' \in JobType /\ job'.todo = There(Old.seats) /\ job'.snap = job.snap /\ job'.run
  <2>1. There(Old.seats) \in SUBSET Seats BY DEF There
  <2> QED BY <1>1, <1>2, <2>1 DEF TypeInv, JobType
<1>4. Old' = Old /\ answer = "none" BY <1>1, <1>3 DEF Old, JobInv
<1>5. TypeInv' BY <1>1, <1>2, <1>3 DEF TypeInv, Restoring
<1>6. JobInv' BY <1>1, <1>2, <1>3, <1>4 DEF JobInv, Running
<1>7. RunInv' BY <1>2 DEF RunInv, Running
<1>8. RestoreInv'
  <2>1. Simulate(seats') = Simulate(Old.seats) BY DEF IInv, RunInv, Running
  <2> QED BY <1>2, <1>3, <1>4, <2>1 DEF RestoreInv, Restoring
<1>9. SimInv'
  <2>1. Simulate(seats) = Simulate(Old.seats) BY DEF IInv, RunInv, Running
  <2>2. ~halved => Simulate(seats) = Simulate(base) BY DEF IInv, SimInv, Restoring
  <2> QED BY <1>2, <1>3, <1>4, <2>1, <2>2 DEF SimInv, Restoring
<1>10. AnswerInv' BY <1>4 DEF AnswerInv, ResumedIsTheSame, RestoredIsAsBefore
<1> QED BY <1>5, <1>6, <1>7, <1>8, <1>9, <1>10 DEF IInv

LEMMA AppendFailsStep == ASSUME IInv, AppendFails PROVE IInv'
<1>1. /\ pc = "append" /\ job.todo # {} /\ seats' \in {seats, Placed(NextUnplaced)} /\ BeginRestore
      /\ UNCHANGED <<assigned, snapshots, answer, base, halved>>
  BY DEF AppendFails, ghosts
<1>2. seats \in SeatMap /\ Distinct(seats) /\ Between(seats, Old.seats)
  BY <1>1 DEF IInv, TypeInv, RunInv, Running
<1>3. LET s == NextUnplaced IN
      /\ Placed(s) \in SeatMap /\ Distinct(Placed(s)) /\ Between(Placed(s), Old.seats)
      /\ Simulate(Placed(s)) = Simulate(seats)
  BY <1>1, PlacedIsNext
<1>4. /\ seats' \in SeatMap /\ Distinct(seats') /\ Between(seats', Old.seats)
      /\ Simulate(seats') = Simulate(seats)
  BY <1>1, <1>2, <1>3
<1> QED BY <1>1, <1>4, TakeBackStep

LEMMA RecordFailsStep == ASSUME IInv, RecordFails PROVE IInv'
<1>1. /\ pc = "record" /\ seats' = seats /\ BeginRestore
      /\ UNCHANGED <<assigned, snapshots, answer, base, halved>>
  BY DEF RecordFails, ghosts
<1>2. seats \in SeatMap /\ Distinct(seats) /\ Between(seats, Old.seats)
  BY <1>1 DEF IInv, TypeInv, RunInv, Running
<1>3. seats' \in SeatMap /\ Distinct(seats') /\ Between(seats', Old.seats)
  BY <1>1, <1>2
<1> QED BY <1>1, <1>3, TakeBackStep

\* The run ends where a run from the last foreign change would.
LEMMA GateStep == ASSUME IInv, Gate PROVE IInv'
<1>1. /\ pc = "append" /\ job.todo = {}
      /\ UNCHANGED <<seats, assigned, snapshots, base, halved>>
  BY DEF Gate, stores, ghosts
<1>2. TypeInv BY DEF IInv
<1>3. CASE End("migrated")
  <2>1. pc' = "idle" /\ answer' = "migrated" /\ job' = NoJob BY <1>3 DEF End
  <2>2. job' \in JobType BY <2>1 DEF NoJob, JobType
  <2>3. ~halved => Simulate(seats) = Simulate(base) BY <1>1 DEF IInv, SimInv, Restoring
  <2>4. Simulate(seats) = seats
    <3>1. Unplaced(seats) = {} BY <1>1 DEF IInv, RunInv, Running
    <3> QED BY <1>2, <3>1, NothingToPlace DEF TypeInv
  <2>5. TypeInv' BY <1>1, <1>2, <2>1, <2>2 DEF TypeInv, Distinct
  <2>6. JobInv' BY <2>1 DEF JobInv, Running
  <2>7. RunInv' BY <2>1 DEF RunInv, Running
  <2>8. RestoreInv' BY <2>1 DEF RestoreInv, Restoring
  <2>9. SimInv' BY <1>1, <2>1, <2>3 DEF SimInv, Restoring
  <2>10. AnswerInv' BY <1>1, <2>1, <2>3, <2>4 DEF AnswerInv, ResumedIsTheSame, RestoredIsAsBefore
  <2> QED BY <2>5, <2>6, <2>7, <2>8, <2>9, <2>10 DEF IInv
<1>4. CASE BeginRestore /\ UNCHANGED answer
  <2>1. seats \in SeatMap /\ Distinct(seats) /\ Between(seats, Old.seats)
    BY <1>1 DEF IInv, TypeInv, RunInv, Running
  <2>2. seats' \in SeatMap /\ Distinct(seats') /\ Between(seats', Old.seats)
    BY <1>1, <2>1
  <2> QED BY <1>1, <1>4, <2>2, TakeBackStep
<1> QED BY <1>3, <1>4 DEF Gate

-----------------------------------------------------------------------------
(* Restores.                                                               *)

\* An operation that ends without a promise.
LEMMA IdleStep ==
  ASSUME IInv, pc' = "idle", answer' \notin {"migrated", "refused", "rolledback"}, job' = NoJob,
         seats' \in SeatMap, Distinct(seats'), base' \in SeatMap,
         assigned' \in [Seats -> Students \cup {None}], snapshots' = snapshots,
         ~halved' => Simulate(seats') = Simulate(base')
  PROVE  IInv'
<1>1. TypeInv'
  <2>1. job' \in JobType BY DEF NoJob, JobType
  <2> QED BY <2>1 DEF IInv, TypeInv
<1>2. JobInv' BY DEF JobInv, Running
<1>3. RunInv' BY DEF RunInv, Running
<1>4. RestoreInv' BY DEF RestoreInv, Restoring
<1>5. SimInv' BY DEF SimInv, Restoring
<1>6. AnswerInv' BY DEF AnswerInv, ResumedIsTheSame, RestoredIsAsBefore
<1> QED BY <1>1, <1>2, <1>3, <1>4, <1>5, <1>6 DEF IInv

LEMMA RollbackStep == ASSUME IInv, NEW k \in DOMAIN snapshots, Rollback(k) PROVE IInv'
<1>1. /\ pc = "idle" /\ pc' = "restore" /\ answer' = "none"
      /\ job' = [run |-> FALSE, snap |-> k, todo |-> There(snapshots[k].seats), seat |-> None]
      /\ UNCHANGED <<seats, assigned, snapshots, base, halved>>
  BY DEF Rollback, stores, ghosts
<1>2. TypeInv BY DEF IInv
<1>3. k \in Nat BY <1>2 DEF TypeInv
<1>4. There(snapshots[k].seats) \in SUBSET Seats BY DEF There
<1>5. /\ job' \in JobType /\ job'.snap = k /\ ~job'.run /\ job'.todo = There(snapshots[k].seats)
  BY <1>1, <1>3, <1>4 DEF JobType
<1>6. Old'.seats = snapshots[k].seats BY <1>1, <1>5 DEF Old
<1>7. TypeInv' BY <1>1, <1>2, <1>5 DEF TypeInv, Restoring, Distinct
<1>8. JobInv' BY <1>1, <1>5 DEF JobInv, Running
<1>9. RunInv' BY <1>1 DEF RunInv, Running
<1>10. RestoreInv' BY <1>1, <1>5, <1>6 DEF RestoreInv, Restoring
<1>11. SimInv' BY <1>1, <1>5 DEF IInv, SimInv, Restoring
<1>12. AnswerInv' BY <1>1 DEF AnswerInv, ResumedIsTheSame, RestoredIsAsBefore
<1> QED BY <1>7, <1>8, <1>9, <1>10, <1>11, <1>12 DEF IInv

\* A run that is stopped where it has put back nothing or everything still heads for the
\* same end.
LEMMA BrokenOff ==
  ASSUME IInv, ~halved, ~HalfRestored
  PROVE  Simulate(seats) = Simulate(base)
<1>1. CASE pc \in Restoring /\ job.run
  <2>1. Simulate(Old.seats) = Simulate(base) BY <1>1 DEF IInv, SimInv
  <2>2. TypeInv /\ JobInv /\ Old.seats \in SeatMap
    BY <1>1, OldType DEF IInv, Restoring
  <2>3. Between(seats, Old.seats) BY <1>1 DEF IInv, RestoreInv
  <2>4. CASE pc = "restore" /\ job.todo = There(Old.seats)
    BY <1>1, <2>1, <2>4 DEF IInv, RestoreInv
  <2>5. CASE pc = "restore" => job.todo = {}
    <3>1. \A s \in There(Old.seats) : seats[s] = Old.seats[s]
      BY <1>1, <2>5 DEF IInv, RestoreInv
    <3>2. seats = Old.seats BY <2>2, <2>3, <3>1, BetweenSame DEF TypeInv
    <3> QED BY <2>1, <3>2
  <2> QED BY <1>1, <2>4, <2>5 DEF HalfRestored, Old
<1>2. CASE ~(pc \in Restoring /\ job.run) BY <1>2 DEF IInv, SimInv
<1> QED BY <1>1, <1>2

LEMMA RestoreSeatStep == ASSUME IInv, RestoreSeat PROVE IInv'
<1> DEFINE s == FirstInText(job.todo)
<1>1. /\ pc = "restore" /\ job.todo # {}
      /\ UNCHANGED <<assigned, snapshots>>
  BY DEF RestoreSeat
<1>2. TypeInv /\ JobInv /\ Old.seats \in SeatMap /\ answer = "none"
  BY <1>1, OldType DEF IInv
<1>3. s \in job.todo /\ s \in Seats BY <1>1, <1>2, FirstInTextIn DEF TypeInv, JobType
<1>4. Restored(s) = Old.seats[s] BY DEF Restored, Old
<1>5. CASE Taken(s, Restored(s).row)
  <2>1. /\ pc' = "idle" /\ answer' = "failed" /\ job' = NoJob /\ base' = base /\ seats' = seats
        /\ halved' = (halved \/ HalfRestored)
    BY <1>5 DEF RestoreSeat, End
  <2>2. ~halved' => Simulate(seats') = Simulate(base') BY <1>1, <2>1, BrokenOff
  <2> QED BY <1>1, <1>2, <2>1, <2>2, IdleStep DEF TypeInv
<1>6. CASE ~Taken(s, Restored(s).row)
  <2>1. /\ seats' = [seats EXCEPT ![s] = Restored(s)]
        /\ job' = [job EXCEPT !.todo = @ \ {s}]
        /\ IF job.run THEN base' = base /\ halved' = halved ELSE base' = seats' /\ ~halved'
        /\ pc' = pc /\ answer' = answer
    BY <1>6 DEF RestoreSeat, Rebase
  <2> HIDE DEF s
  <2>2. seats'[s] = Old.seats[s] /\ \A t \in Seats \ {s} : seats'[t] = seats[t]
    BY <1>2, <1>3, <1>4, <2>1 DEF TypeInv, SeatMap
  <2>3. seats' \in SeatMap BY <1>2, <1>3, <1>4, <2>1 DEF TypeInv, SeatMap
  <2>4. Distinct(seats')
    <3> DEFINE v == Restored(s)
    <3>1. v.row \in Nat => \A t \in Seats \ {s} : seats[t].row # v.row BY <1>6 DEF Taken
    <3>2. seats' = [seats EXCEPT ![s] = v] BY <2>1
    <3> HIDE DEF v
    <3>3. Distinct([seats EXCEPT ![s] = v]) BY <1>2, <1>3, <3>1, DistinctUpdate DEF TypeInv
    <3> QED BY <3>2, <3>3
  <2>5. /\ job' \in JobType /\ job'.todo = job.todo \ {s} /\ job'.snap = job.snap
        /\ job'.run = job.run
    BY <1>2, <2>1 DEF TypeInv, JobType
  <2>6. Old' = Old BY <1>1, <2>5 DEF Old
  <2>7. base' \in SeatMap BY <1>2, <2>1, <2>3 DEF TypeInv
  <2>8. TypeInv' BY <1>1, <1>2, <2>1, <2>3, <2>4, <2>5, <2>7 DEF TypeInv
  <2>9. JobInv' BY <1>1, <1>2, <2>1, <2>5 DEF JobInv, Running
  <2>10. RunInv' BY <1>1, <2>1 DEF RunInv, Running
  <2>11. RestoreInv'
    <3>1. \A t \in There(Old.seats) : seats[t] = Old.seats[t] \/ t \in job.todo
      BY <1>1 DEF IInv, RestoreInv, Restoring
    <3>2. job.run => Between(seats, Old.seats) BY <1>1 DEF IInv, RestoreInv, Restoring
    <3>3. \A t \in There(Old.seats) : seats'[t] = Old.seats[t] \/ t \in job'.todo
      BY <2>2, <2>5, <3>1 DEF There
    <3>4. job.run => Between(seats', Old.seats) BY <2>2, <3>2 DEF Between
    <3>5. job.todo \subseteq There(Old.seats) BY <1>1 DEF IInv, RestoreInv
    <3>6. job'.todo \subseteq There(Old.seats) /\ job'.todo # There(Old.seats)
      BY <1>3, <2>5, <3>5 DEF s
    <3> QED BY <1>1, <2>1, <2>5, <2>6, <3>3, <3>4, <3>6 DEF RestoreInv
  <2>12. SimInv' BY <1>1, <2>1, <2>5, <2>6 DEF IInv, SimInv, Restoring
  <2>13. AnswerInv' BY <1>2, <2>1 DEF AnswerInv, ResumedIsTheSame, RestoredIsAsBefore
  <2> QED BY <2>8, <2>9, <2>10, <2>11, <2>12, <2>13 DEF IInv
<1> QED BY <1>5, <1>6

\* A step of a restore that leaves the seats alone.
LEMMA RestoreGoesOn ==
  ASSUME IInv, pc \in Restoring, pc' \in {"unassign", "assign"},
         UNCHANGED <<seats, snapshots, answer, base, halved>>,
         assigned' \in [Seats -> Students \cup {None}],
         NEW S \in SUBSET Seats, job' = [job EXCEPT !.todo = S],
         \A s \in There(Old.seats) : seats[s] = Old.seats[s],
         pc' = "unassign" => \A s \in Seats \ S : assigned'[s] = None,
         pc' = "assign" => \A s \in Seats \ S : assigned'[s] = Old.assigned[s]
  PROVE  IInv'
<1>1. TypeInv /\ JobInv BY DEF IInv
<1>2. /\ job' \in JobType /\ job'.todo = S /\ job'.snap = job.snap /\ job'.run = job.run
  BY <1>1 DEF TypeInv, JobType
<1>3. Old' = Old BY <1>2 DEF Old
<1>4. answer = "none" BY <1>1 DEF JobInv, Restoring
<1>5. TypeInv' BY <1>1, <1>2 DEF TypeInv, Restoring, Distinct
<1>6. JobInv' BY <1>1, <1>2, <1>4 DEF JobInv, Running, Restoring
<1>7. RunInv' BY DEF RunInv, Running
<1>8. RestoreInv'
  <2>1. job.run => Between(seats, Old.seats) BY DEF IInv, RestoreInv
  <2> QED BY <1>2, <1>3, <2>1 DEF RestoreInv, Restoring, Between
<1>9. SimInv' BY <1>2, <1>3 DEF IInv, SimInv, Restoring
<1>10. AnswerInv' BY <1>4 DEF AnswerInv, ResumedIsTheSame, RestoredIsAsBefore
<1> QED BY <1>5, <1>6, <1>7, <1>8, <1>9, <1>10 DEF IInv

LEMMA ListAssignedStep == ASSUME IInv, ListAssigned PROVE IInv'
<1> DEFINE S == {s \in Seats : assigned[s] # None}
<1>1. /\ pc = "restore" /\ job.todo = {} /\ pc' = "unassign"
      /\ job' = [job EXCEPT !.todo = S]
      /\ UNCHANGED <<seats, assigned, snapshots, answer, base, halved>>
  BY DEF ListAssigned, stores, ghosts
<1>2. \A s \in There(Old.seats) : seats[s] = Old.seats[s]
  BY <1>1 DEF IInv, RestoreInv, Restoring
<1>3. S \in SUBSET Seats /\ \A s \in Seats \ S : assigned'[s] = None BY <1>1
<1>4. assigned' \in [Seats -> Students \cup {None}] BY <1>1 DEF IInv, TypeInv
<1> HIDE DEF S
<1> QED BY <1>1, <1>2, <1>3, <1>4, RestoreGoesOn DEF Restoring

LEMMA ListOldStep == ASSUME IInv, ListOld PROVE IInv'
<1> DEFINE S == {s \in Seats : Old.assigned[s] # None}
<1>1. /\ pc = "unassign" /\ job.todo = {} /\ pc' = "assign"
      /\ job' = [job EXCEPT !.todo = S]
      /\ UNCHANGED <<seats, assigned, snapshots, answer, base, halved>>
  BY DEF ListOld, stores, ghosts, Old
<1>2. \A s \in There(Old.seats) : seats[s] = Old.seats[s]
  BY <1>1 DEF IInv, RestoreInv, Restoring
<1>3. \A s \in Seats : assigned[s] = None BY <1>1 DEF IInv, RestoreInv
<1>4. S \in SUBSET Seats /\ \A s \in Seats \ S : assigned'[s] = Old.assigned[s] BY <1>1, <1>3
<1>5. assigned' \in [Seats -> Students \cup {None}] BY <1>1 DEF IInv, TypeInv
<1> HIDE DEF S
<1> QED BY <1>1, <1>2, <1>4, <1>5, RestoreGoesOn DEF Restoring

LEMMA RestoreAssignmentStep ==
  ASSUME IInv, NEW s \in Seats, RestoreAssignment(s)
  PROVE  IInv'
<1> DEFINE S == job.todo \ {s}
           st == IF pc = "unassign" THEN None ELSE Old.assigned[s]
<1>1. /\ pc \in {"unassign", "assign"} /\ s \in job.todo /\ pc' = pc
      /\ assigned' = [assigned EXCEPT ![s] = st]
      /\ job' = [job EXCEPT !.todo = S]
      /\ UNCHANGED <<seats, snapshots, answer, base, halved>>
  BY DEF RestoreAssignment, ghosts, Old
<1>2. TypeInv /\ JobInv BY DEF IInv
<1>3. Old \in SnapshotType BY <1>1, <1>2, OldType
<1>4. st \in Students \cup {None} BY <1>3 DEF SnapshotType
<1>5. S \in SUBSET Seats BY <1>2 DEF TypeInv, JobType
<1>6. \A t \in There(Old.seats) : seats[t] = Old.seats[t]
  BY <1>1 DEF IInv, RestoreInv, Restoring
<1>7. assigned \in [Seats -> Students \cup {None}] BY <1>2 DEF TypeInv
<1>8. pc = "unassign" => \A t \in Seats \ S : assigned'[t] = None
  <2>1. pc = "unassign" => \A t \in Seats \ job.todo : assigned[t] = None
    BY DEF IInv, RestoreInv
  <2> QED BY <1>1, <1>7, <2>1
<1>9. pc = "assign" => \A t \in Seats \ S : assigned'[t] = Old.assigned[t]
  <2>1. pc = "assign" => \A t \in Seats \ job.todo : assigned[t] = Old.assigned[t]
    BY DEF IInv, RestoreInv
  <2> QED BY <1>1, <1>7, <2>1
<1> HIDE DEF st
<1>10. assigned' \in [Seats -> Students \cup {None}] BY <1>1, <1>4, <1>7
<1> HIDE DEF S
<1> QED BY <1>1, <1>5, <1>6, <1>8, <1>9, <1>10, RestoreGoesOn DEF Restoring

\* A run that was taken back is back at its snapshot, and heads for the same end.
LEMMA EndRestoreStep == ASSUME IInv, EndRestore PROVE IInv'
<1>1. /\ pc = "assign" /\ job.todo = {} /\ UNCHANGED <<seats, assigned, snapshots, base, halved>>
      /\ End(IF ~Valid(0) THEN "failed" ELSE IF job.run THEN "refused" ELSE "rolledback")
  BY DEF EndRestore, stores, ghosts
<1>2. TypeInv /\ JobInv BY DEF IInv
<1>3. Old \in SnapshotType /\ Old.seats \in SeatMap BY <1>1, <1>2, OldType
<1>4. \A s \in There(Old.seats) : seats[s] = Old.seats[s]
  BY <1>1 DEF IInv, RestoreInv, Restoring
<1>5. job.run => seats = Old.seats
  <2>1. job.run => Between(seats, Old.seats) BY <1>1 DEF IInv, RestoreInv, Restoring
  <2> QED BY <1>2, <1>3, <1>4, <2>1, BetweenSame DEF TypeInv
<1>6. ~halved => Simulate(seats) = Simulate(base) BY <1>1, <1>5 DEF IInv, SimInv, Restoring
<1>7. assigned = Old.assigned
  <2>1. \A s \in Seats : assigned[s] = Old.assigned[s] BY <1>1 DEF IInv, RestoreInv
  <2> QED BY <1>2, <1>3, <2>1 DEF TypeInv, SnapshotType
<1>8. CASE ~Valid(0)
  <2>1. pc' = "idle" /\ answer' = "failed" /\ job' = NoJob BY <1>1, <1>8 DEF End
  <2> QED BY <1>1, <1>2, <1>6, <2>1, IdleStep DEF TypeInv
<1>9. CASE Valid(0)
  <2>1. /\ pc' = "idle" /\ job' = [NoJob EXCEPT !.snap = job.snap]
        /\ answer' = (IF job.run THEN "refused" ELSE "rolledback")
    BY <1>1, <1>9 DEF End
  <2>2. job' \in JobType /\ job'.snap = job.snap /\ job.snap \in DOMAIN snapshots
    BY <1>1, <1>2, <2>1 DEF NoJob, JobType, TypeInv, JobInv
  <2>3. Old' = Old BY <1>1, <2>2 DEF Old
  <2>4. TypeInv' BY <1>1, <1>2, <2>1, <2>2 DEF TypeInv, Distinct
  <2>5. JobInv' BY <1>1, <2>1, <2>2 DEF JobInv, Running
  <2>6. RunInv' BY <2>1 DEF RunInv, Running
  <2>7. RestoreInv' BY <2>1 DEF RestoreInv, Restoring
  <2>8. SimInv' BY <1>1, <1>6, <2>1 DEF SimInv, Restoring
  <2>9. AnswerInv'
    <3>1. ResumedIsTheSame' BY <2>1 DEF ResumedIsTheSame
    <3>2. RestoredIsAsBefore' BY <1>1, <1>4, <1>5, <1>7, <2>1, <2>2 DEF RestoredIsAsBefore, Old
    <3> QED BY <3>1, <3>2 DEF AnswerInv
  <2> QED BY <2>4, <2>5, <2>6, <2>7, <2>8, <2>9 DEF IInv
<1> QED BY <1>8, <1>9

-----------------------------------------------------------------------------
(* Repairs, interruptions, and the administrators.                         *)

\* Requests and approvals change nothing else.
LEMMA QuietStep ==
  ASSUME IInv, UNCHANGED <<seats, assigned, snapshots, pc, job, answer, base, halved>>
  PROVE  IInv'
<1>1. TypeInv' BY DEF IInv, TypeInv, Distinct
<1>2. JobInv' BY DEF IInv, JobInv
<1>3. RunInv' BY DEF IInv, RunInv, Old, Between, There
<1>4. RestoreInv' BY DEF IInv, RestoreInv, Old, Between
<1>5. SimInv' BY DEF IInv, SimInv, Old
<1>6. AnswerInv' BY DEF IInv, AnswerInv, ResumedIsTheSame, RestoredIsAsBefore
<1> QED BY <1>1, <1>2, <1>3, <1>4, <1>5, <1>6 DEF IInv

LEMMA RepairStep == ASSUME IInv, Repair PROVE IInv'
<1>1. ASSUME NEW s \in Seats, NEW row \in Rows \cup {None}, RequestRepair(s, row) PROVE IInv'
  BY <1>1, QuietStep DEF RequestRepair, ghosts
<1>2. ASSUME NEW k \in DOMAIN approvals, ApproveRepair(k) PROVE IInv'
  BY <1>2, QuietStep DEF ApproveRepair, ghosts
<1>3. ASSUME NEW s \in Seats, NEW row \in Rows \cup {None}, RepairSeat(s, row) PROVE IInv'
  <2> DEFINE v == [seats[s] EXCEPT !.row = row]
  <2>1. /\ ~Taken(s, row) /\ seats' = [seats EXCEPT ![s] = v] /\ base' = seats'
        /\ pc' = "audit" /\ job' = [NoJob EXCEPT !.seat = s] /\ answer' = "none"
        /\ assigned' = assigned /\ snapshots' = snapshots
    BY <1>3 DEF RepairSeat, Rebase
  <2>2. TypeInv BY DEF IInv
  <2>3. v.row = row /\ v \in [status : {"active", "inactive", "gone"}, row : Places]
    <3>1. seats[s] \in [status : {"active", "inactive", "gone"}, row : Places]
      BY <2>2 DEF TypeInv, SeatMap
    <3>2. row \in Places BY MigrationAssumption DEF Places
    <3> QED BY <3>1, <3>2
  <2>4. v.row \in Nat => \A t \in Seats \ {s} : seats[t].row # v.row BY <2>1, <2>3 DEF Taken
  <2> HIDE DEF v
  <2>5. seats' \in SeatMap BY <2>1, <2>2, <2>3 DEF TypeInv, SeatMap
  <2>6. Distinct(seats') BY <2>1, <2>2, <2>4, DistinctUpdate DEF TypeInv
  <2>7. job' \in JobType /\ job'.seat = s BY <2>1 DEF NoJob, JobType
  <2>8. TypeInv' BY <2>1, <2>2, <2>5, <2>6, <2>7 DEF TypeInv
  <2>9. JobInv' BY <2>1, <2>7 DEF JobInv, Running
  <2>10. RunInv' BY <2>1 DEF RunInv, Running
  <2>11. RestoreInv' BY <2>1 DEF RestoreInv, Restoring
  <2>12. SimInv' BY <2>1 DEF SimInv, Restoring
  <2>13. AnswerInv' BY <2>1 DEF AnswerInv, ResumedIsTheSame, RestoredIsAsBefore
  <2> QED BY <2>8, <2>9, <2>10, <2>11, <2>12, <2>13 DEF IInv
<1>4. ASSUME SaveRepairRecord PROVE IInv'
  <2>1. /\ pc = "audit" /\ pc' = "idle" /\ answer' = "none" /\ job' = NoJob
        /\ UNCHANGED <<seats, assigned, snapshots, base, halved>>
    BY <1>4 DEF SaveRepairRecord, End, ghosts
  <2>2. ~halved => Simulate(seats) = Simulate(base) BY <2>1 DEF IInv, SimInv, Restoring
  <2> QED BY <2>1, <2>2, IdleStep DEF IInv, TypeInv
<1> QED BY <1>1, <1>2, <1>3, <1>4 DEF Repair

\* What is cut short still heads for the same end, unless it is half way back.
LEMMA CutStep == ASSUME IInv, Cut PROVE IInv'
<1>1. /\ pc' = "idle" /\ answer' = "failed" /\ job' = NoJob
      /\ halved' = (halved \/ HalfRestored)
      /\ UNCHANGED <<seats, assigned, snapshots, base>>
  BY DEF Cut, End, stores
<1>2. ~halved' => Simulate(seats) = Simulate(base) BY <1>1, BrokenOff
<1> QED BY <1>1, <1>2, IdleStep DEF IInv, TypeInv

LEMMA AdministerStep == ASSUME IInv, Administer PROVE IInv'
<1>0. TypeInv BY DEF IInv
<1>1. ASSUME NEW newSeats \in SeatMap, Distinct(newSeats), NEW place,
             NEW newAssigned \in [Seats -> Students \cup {None}],
             Change(newSeats, newAssigned, place)
      PROVE  IInv'
  <2>1. /\ pc' = "idle" /\ answer' = "none" /\ job' = NoJob
        /\ seats' = newSeats /\ base' = newSeats /\ assigned' = newAssigned
        /\ snapshots' = snapshots
    BY <1>1 DEF Change, Rebase
  <2> QED BY <1>1, <2>1, IdleStep
<1>2. ASSUME NEW s \in Seats, NEW row \in (Rows \cup {None, seats[s].row}) \ {Partial},
             NEW status \in {"active", "inactive"}, EditSeat(s, row, status)
      PROVE  IInv'
  <2> DEFINE v == [status |-> status, row |-> row]
             next == [seats EXCEPT ![s] = v]
  <2>1. v \in [status : {"active", "inactive", "gone"}, row : Places]
    <3>1. seats[s].row \in Places BY <1>0 DEF TypeInv, SeatMap
    <3>2. row \in Places BY <3>1, MigrationAssumption DEF Places
    <3> QED BY <3>2
  <2>2. v.row \in Nat => \A t \in Seats \ {s} : seats[t].row # v.row
    BY <1>2 DEF EditSeat, Taken
  <2>3. Change(next, assigned, {<<s, row>>}) BY <1>2 DEF EditSeat
  <2> HIDE DEF v
  <2>4. next \in SeatMap BY <1>0, <2>1 DEF TypeInv, SeatMap
  <2>5. Distinct(next) BY <1>0, <2>2, DistinctUpdate DEF TypeInv
  <2> HIDE DEF next
  <2> QED BY <1>0, <1>1, <2>3, <2>4, <2>5 DEF TypeInv
<1>3. ASSUME NEW s \in Seats, DeleteSeat(s) PROVE IInv'
  <2> DEFINE v == [status |-> "gone", row |-> None]
             next == [seats EXCEPT ![s] = v]
             newAssigned == [assigned EXCEPT ![s] = None]
  <2>1. v \in [status : {"active", "inactive", "gone"}, row : Places] BY DEF Places
  <2>2. v.row \in Nat => \A t \in Seats \ {s} : seats[t].row # v.row BY MigrationAssumption
  <2>3. Change(next, newAssigned, {}) BY <1>3 DEF DeleteSeat
  <2>4. newAssigned \in [Seats -> Students \cup {None}] BY <1>0 DEF TypeInv
  <2> HIDE DEF v
  <2>5. next \in SeatMap BY <1>0, <2>1 DEF TypeInv, SeatMap
  <2>6. Distinct(next) BY <1>0, <2>2, DistinctUpdate DEF TypeInv
  <2> HIDE DEF next, newAssigned
  <2> QED BY <1>1, <2>3, <2>4, <2>5, <2>6
<1>4. ASSUME NEW s \in Seats, NEW st \in Students \cup {None}, AssignStudent(s, st) PROVE IInv'
  <2> DEFINE newAssigned == [t \in Seats |-> IF t = s THEN st
                                             ELSE IF assigned[t] = st THEN None ELSE assigned[t]]
  <2>1. Change(seats, newAssigned, {}) BY <1>4 DEF AssignStudent
  <2>2. newAssigned \in [Seats -> Students \cup {None}] BY <1>0 DEF TypeInv
  <2> HIDE DEF newAssigned
  <2> QED BY <1>0, <1>1, <2>1, <2>2 DEF TypeInv
<1> QED BY <1>2, <1>3, <1>4 DEF Administer

-----------------------------------------------------------------------------
(* The theorems.                                                           *)

\* The invariant holds to begin with, and every step keeps it.
LEMMA InitIInv == ASSUME Init PROVE IInv
<1>1. seats \in SeatMap BY MigrationAssumption DEF Init, SeatMap, Places
<1>2. Distinct(seats) BY DEF Init, Distinct, Taken
<1>3. TypeInv BY <1>1, <1>2 DEF Init, TypeInv, NoJob, JobType
<1>4. JobInv BY DEF Init, JobInv, Running
<1>5. RunInv BY DEF Init, RunInv, Running
<1>6. RestoreInv BY DEF Init, RestoreInv, Restoring
<1>7. SimInv BY DEF Init, SimInv, Restoring
<1>8. AnswerInv BY DEF Init, AnswerInv, ResumedIsTheSame, RestoredIsAsBefore
<1> QED BY <1>3, <1>4, <1>5, <1>6, <1>7, <1>8 DEF IInv

LEMMA NextIInv == ASSUME IInv, [Next]_vars PROVE IInv'
<1>1. CASE Run
  BY <1>1, StartRunStep, SavePayloadStep, AppendPlaceStep, SaveRecordStep, AppendFailsStep,
     RecordFailsStep, GateStep DEF Run
<1>2. CASE Restore
  BY <1>2, RollbackStep, RestoreSeatStep, ListAssignedStep, RestoreAssignmentStep, ListOldStep,
     EndRestoreStep DEF Restore
<1>3. CASE Repair BY <1>3, RepairStep
<1>4. CASE Cut BY <1>4, CutStep
<1>5. CASE Administer BY <1>5, AdministerStep
<1>6. CASE UNCHANGED vars BY <1>6, QuietStep DEF vars, stores, ghosts
<1> QED BY <1>1, <1>2, <1>3, <1>4, <1>5, <1>6 DEF Next

THEOREM Invariance == Spec => []IInv
BY InitIInv, NextIInv, PTL DEF Spec

\* However many runs were cut short or refused, the run that succeeds ends where a single
\* one would have, unless one was stopped half way back to its snapshot.
THEOREM ResumedIsTheSameTheorem == Spec => []ResumedIsTheSame
<1>1. IInv => ResumedIsTheSame BY DEF IInv, AnswerInv
<1> QED BY <1>1, Invariance, PTL

\* A refused run and a rollback give back what their snapshot has.
THEOREM RestoredIsAsBeforeTheorem == Spec => []RestoredIsAsBefore
<1>1. IInv => RestoredIsAsBefore BY DEF IInv, AnswerInv
<1> QED BY <1>1, Invariance, PTL

\* The gate objects to nothing but a student assigned to a seat that is gone.
THEOREM OnlyOrphansBlockTheorem == Spec => []OnlyOrphansBlock
<1>1. ASSUME IInv PROVE OnlyOrphansBlock
  <2>1. SUFFICES ASSUME pc = "append", job.todo = {}, ~Orphaned PROVE Valid(job.snap)
    BY DEF OnlyOrphansBlock
  <2>2. TypeInv BY <1>1 DEF IInv
  <2>3. /\ Simulate(seats) = Simulate(Old.seats) /\ Unplaced(seats) = {}
        /\ \A s \in There(seats) : seats[s].row # Partial
    BY <1>1, <2>1 DEF IInv, RunInv, Running
  <2>4. seats = Simulate(Old.seats) BY <2>2, <2>3, NothingToPlace DEF TypeInv
  <2>5. \A s \in There(seats) : ~Taken(s, seats[s].row)
    BY <2>2 DEF TypeInv, Distinct, Taken, There
  <2> QED BY <2>1, <2>3, <2>4, <2>5 DEF Valid, Old
<1> QED BY <1>1, Invariance, PTL

-----------------------------------------------------------------------------
(* The audit trail.                                                        *)

\* A step leaves the trail complete when every place that is new in the store, and every
\* entry that is pending no more, is recorded, except for what a failure costs.
LEMMA AuditStep ==
  ASSUME AuditInv, NEW p, NEW X \in SUBSET {p},
         \/ X = {} /\ faults' = faults
         \/ faults' = faults + 1,
         \A s \in Seats : \A n \in Seen(s)' :
           n \in Nat => n \in Seen(s) \/ <<s, n>> \in (records \cup manual \cup Pending)' \cup X,
         records \cup manual \cup Pending \subseteq (records \cup manual \cup Pending)' \cup X
  PROVE  AuditInv'
<1>1. IsFiniteSet(Unaudited) /\ faults \in Nat /\ Cardinality(Unaudited) \in Nat /\ Cardinality(Unaudited) <= faults
  BY FS_CardinalityType DEF AuditInv
<1>2. Unaudited' \subseteq Unaudited \cup X
  <2> SUFFICES ASSUME NEW q \in Unaudited', q \notin X PROVE q \in Unaudited
    OBVIOUS
  <2>1. PICK s \in Seats, n \in Nat : q = <<s, n>> BY DEF Unaudited
  <2>2. n \in Seen(s)' /\ q \notin (records \cup manual \cup Pending)' BY <2>1 DEF Unaudited
  <2>3. n \in Seen(s) BY <2>1, <2>2
  <2>4. q \notin records \cup manual \cup Pending BY <2>2
  <2> QED BY <2>1, <2>3, <2>4 DEF Unaudited
<1> HIDE DEF Unaudited
<1>3. CASE X = {} /\ faults' = faults
  <2>1. Unaudited' \subseteq Unaudited BY <1>2, <1>3
  <2>2. IsFiniteSet(Unaudited') /\ Cardinality(Unaudited') <= Cardinality(Unaudited)
    BY <1>1, <2>1, FS_Subset
  <2>3. Cardinality(Unaudited') \in Nat BY <2>2, FS_CardinalityType
  <2> QED BY <1>1, <1>3, <2>2, <2>3 DEF AuditInv
<1>4. CASE faults' = faults + 1
  <2>1. /\ IsFiniteSet(Unaudited \cup {p})
        /\ Cardinality(Unaudited \cup {p}) <= Cardinality(Unaudited) + 1
        /\ Cardinality(Unaudited \cup {p}) \in Nat
    <3>1. IsFiniteSet(Unaudited \cup {p}) BY <1>1, FS_AddElement
    <3>2. \/ Cardinality(Unaudited \cup {p}) = Cardinality(Unaudited)
          \/ Cardinality(Unaudited \cup {p}) = Cardinality(Unaudited) + 1
      BY <1>1, FS_AddElement
    <3> QED BY <1>1, <3>1, <3>2
  <2>2. Unaudited' \subseteq Unaudited \cup {p} BY <1>2
  <2>3. IsFiniteSet(Unaudited') /\ Cardinality(Unaudited') <= Cardinality(Unaudited \cup {p})
    BY <2>1, <2>2, FS_Subset
  <2>4. Cardinality(Unaudited') \in Nat BY <2>3, FS_CardinalityType
  <2>5. Cardinality(Unaudited') <= faults + 1 BY <1>1, <2>1, <2>3, <2>4
  <2> QED BY <1>1, <1>4, <2>3, <2>5 DEF AuditInv
<1> QED BY <1>3, <1>4

\* Only the place of the seat that changes can be new.
LEMMA NewInSeen ==
  ASSUME NEW s \in Seats, snapshots' = snapshots, \A t \in Seats \ {s} : seats'[t] = seats[t]
  PROVE  \A t \in Seats : \A n \in Seen(t)' : n \in Seen(t) \/ (t = s /\ n = seats'[s].row)
BY DEF Seen

\* A step that shows no new place and forgets no entry.
LEMMA NoNewPlace ==
  ASSUME AuditInv, faults' = faults, \A s \in Seats : Seen(s)' \subseteq Seen(s),
         records \cup manual \cup Pending \subseteq (records \cup manual \cup Pending)'
  PROVE  AuditInv'
<1>1. \A s \in Seats : \A n \in Seen(s)' : n \in Seen(s) OBVIOUS
<1> QED BY <1>1, AuditStep

\* A step that stores nothing and has nothing pending.
LEMMA NothingPending ==
  ASSUME AuditInv, pc \notin {"record", "audit"}, pc' \notin {"record", "audit"},
         faults' = faults, records' = records, manual' = manual,
         \A s \in Seats : Seen(s)' \subseteq Seen(s)
  PROVE  AuditInv'
<1>1. Pending = {} /\ Pending' = {} BY DEF Pending
<1> QED BY <1>1, NoNewPlace

LEMMA RunAudit == ASSUME IInv, AuditInv, Run PROVE AuditInv'
<1>0. TypeInv /\ JobInv BY DEF IInv
<1>1. CASE StartRun
  <2> DEFINE new == [seats |-> seats, assigned |-> assigned, payload |-> FALSE]
  <2>1. /\ snapshots' = Append(snapshots, new) /\ seats' = seats /\ pc = "idle" /\ pc' = "payload"
        /\ records' = records /\ manual' = manual /\ faults' = faults
    BY <1>1 DEF StartRun, ghosts
  <2>2. new.seats = seats OBVIOUS
  <2> HIDE DEF new
  <2>3. \A k \in DOMAIN snapshots' : snapshots'[k].seats = seats
                                     \/ (k \in DOMAIN snapshots /\ snapshots'[k] = snapshots[k])
    BY <1>0, <2>1, <2>2 DEF TypeInv
  <2>4. \A s \in Seats : Seen(s)' \subseteq Seen(s) BY <2>1, <2>3 DEF Seen
  <2> QED BY <2>1, <2>4, NothingPending
<1>2. CASE SavePayload
  <2>1. /\ snapshots' = [snapshots EXCEPT ![job.snap].payload = TRUE] /\ seats' = seats
        /\ pc = "payload" /\ pc' = "append"
        /\ records' = records /\ manual' = manual /\ faults' = faults
    BY <1>2 DEF SavePayload, ghosts
  <2>2. \A k \in DOMAIN snapshots : snapshots[k] \in SnapshotType BY <1>0 DEF TypeInv
  <2>3. DOMAIN snapshots' = DOMAIN snapshots BY <2>1
  <2>4. \A k \in DOMAIN snapshots : snapshots'[k].seats = snapshots[k].seats
    BY <2>1, <2>2 DEF SnapshotType
  <2>5. \A s \in Seats : Seen(s)' \subseteq Seen(s) BY <2>1, <2>3, <2>4 DEF Seen
  <2> QED BY <2>1, <2>5, NothingPending
<1>3. CASE AppendPlace
  <2> DEFINE s == NextUnplaced
  <2>1. pc = "append" /\ job.todo # {} BY <1>3 DEF AppendPlace
  <2>2. s \in Seats /\ ~Taken(s, Target(s).row) /\ Placed(s) = [seats EXCEPT ![s] = Target(s)]
    BY <2>1, PlacedIsNext
  <2>3. /\ seats' = [seats EXCEPT ![s] = Target(s)] /\ pc' = "record"
        /\ job' = [job EXCEPT !.seat = s] /\ snapshots' = snapshots
        /\ records' = records /\ manual' = manual /\ faults' = faults
    BY <1>3, <2>2 DEF AppendPlace, ghosts
  <2> HIDE DEF s
  <2>4. \A t \in Seats \ {s} : seats'[t] = seats[t] BY <1>0, <2>3 DEF TypeInv, SeatMap
  <2>5. job'.seat = s BY <1>0, <2>3 DEF TypeInv, JobType
  <2>6. Pending = {} /\ Pending' = {<<s, seats'[s].row>>} BY <2>1, <2>3, <2>5 DEF Pending
  <2>7. \A t \in Seats : \A n \in Seen(t)' : n \in Seen(t) \/ (t = s /\ n = seats'[s].row)
    BY <2>2, <2>3, <2>4, NewInSeen
  <2>8. \A t \in Seats : \A n \in Seen(t)' : n \in Seen(t) \/ <<t, n>> \in Pending'
    BY <2>6, <2>7
  <2> QED BY <2>3, <2>6, <2>8, AuditStep
<1>4. CASE SaveRecord
  <2>1. /\ pc = "record" /\ pc' = "append" /\ records' = records \cup {<<job.seat, seats[job.seat].row>>}
        /\ seats' = seats /\ snapshots' = snapshots /\ manual' = manual /\ faults' = faults
    BY <1>4 DEF SaveRecord, Recorded, ghosts
  <2>2. Pending = {<<job.seat, seats[job.seat].row>>} BY <2>1 DEF Pending
  <2>3. \A s \in Seats : Seen(s)' = Seen(s) BY <2>1 DEF Seen
  <2>4. records \cup manual \cup Pending \subseteq (records \cup manual \cup Pending)'
    BY <2>1, <2>2
  <2> QED BY <2>1, <2>3, <2>4, NoNewPlace
<1>5. CASE AppendFails
  <2> DEFINE s == NextUnplaced
             X == {<<s, Target(s).row>>}
  <2>1. /\ pc = "append" /\ job.todo # {} /\ pc' = "restore" /\ seats' \in {seats, Placed(s)}
        /\ snapshots' = snapshots /\ records' = records /\ manual' = manual /\ faults' = faults + 1
    BY <1>5 DEF AppendFails, BeginRestore, ghosts
  <2>2. s \in Seats /\ Placed(s) = [seats EXCEPT ![s] = Target(s)]
    BY <2>1, PlacedIsNext
  <2> HIDE DEF s
  <2>3. \A t \in Seats \ {s} : seats'[t] = seats[t]
    BY <1>0, <2>1, <2>2 DEF TypeInv, SeatMap
  <2>4. seats'[s] \in {seats[s], Target(s)}
    BY <1>0, <2>1, <2>2 DEF TypeInv, SeatMap
  <2>5. \A t \in Seats : \A n \in Seen(t)' : n \in Seen(t) \/ (t = s /\ n = seats'[s].row)
    BY <2>1, <2>2, <2>3, NewInSeen
  <2>6. seats[s].row \in Seen(s) BY DEF Seen
  <2>7. \A t \in Seats : \A n \in Seen(t)' : n \in Seen(t) \/ <<t, n>> \in X
    BY <2>4, <2>5, <2>6
  <2>8. Pending = {} BY <2>1 DEF Pending
  <2> HIDE DEF X
  <2>9. X \in SUBSET {<<s, Target(s).row>>} BY DEF X
  <2> QED BY <2>1, <2>7, <2>8, <2>9, AuditStep
<1>6. CASE RecordFails
  <2>1. /\ pc = "record" /\ records \subseteq records' /\ faults' = faults + 1
        /\ seats' = seats /\ snapshots' = snapshots /\ manual' = manual
    BY <1>6 DEF RecordFails, ghosts
  <2>2. Pending \in SUBSET {<<job.seat, seats[job.seat].row>>} BY DEF Pending
  <2>3. \A s \in Seats : Seen(s)' = Seen(s) BY <2>1 DEF Seen
  <2> QED BY <2>1, <2>2, <2>3, AuditStep
<1>7. CASE Gate
  <2>1. /\ pc = "append" /\ pc' \in {"idle", "restore"} /\ seats' = seats /\ snapshots' = snapshots
        /\ records' = records /\ manual' = manual /\ faults' = faults
    BY <1>7 DEF Gate, End, BeginRestore, stores, ghosts
  <2>2. \A s \in Seats : Seen(s)' = Seen(s) BY <2>1 DEF Seen
  <2> QED BY <2>1, <2>2, NothingPending
<1> QED BY <1>1, <1>2, <1>3, <1>4, <1>5, <1>6, <1>7 DEF Run

LEMMA RestoreAudit == ASSUME IInv, AuditInv, Restore PROVE AuditInv'
<1>0. TypeInv /\ JobInv BY DEF IInv
<1>1. CASE RestoreSeat
  <2> DEFINE s == FirstInText(job.todo)
  <2>1. /\ pc = "restore" /\ pc' \in {"restore", "idle"} /\ job.todo # {}
        /\ seats' \in {seats, [seats EXCEPT ![s] = Restored(s)]}
        /\ snapshots' = snapshots /\ records' = records /\ manual' = manual /\ faults' = faults
    BY <1>1 DEF RestoreSeat, End
  <2>2. s \in Seats BY <1>0, <2>1, FirstInTextIn DEF TypeInv, JobType
  <2> HIDE DEF s
  <2>3. \A t \in Seats \ {s} : seats'[t] = seats[t]
    BY <1>0, <2>1, <2>2 DEF TypeInv, SeatMap
  <2>4. seats'[s] \in {seats[s], Restored(s)}
    BY <1>0, <2>1, <2>2 DEF TypeInv, SeatMap
  <2>5. seats'[s].row \in Seen(s)
    <3>1. job.snap \in DOMAIN snapshots BY <1>0, <2>1 DEF JobInv
    <3>2. Restored(s).row \in Seen(s) BY <3>1 DEF Restored, Seen
    <3>3. seats[s].row \in Seen(s) BY DEF Seen
    <3> QED BY <2>4, <3>2, <3>3
  <2>6. \A t \in Seats : Seen(t)' \subseteq Seen(t)
    BY <2>1, <2>2, <2>3, <2>5, NewInSeen
  <2> QED BY <2>1, <2>6, NothingPending
<1>2. ASSUME UNCHANGED <<seats, snapshots, records, manual, faults>>,
             pc \notin {"record", "audit"}, pc' \notin {"record", "audit"}
      PROVE  AuditInv'
  <2>1. \A s \in Seats : Seen(s)' = Seen(s) BY <1>2 DEF Seen
  <2> QED BY <1>2, <2>1, NothingPending
<1>3. ASSUME NEW k \in DOMAIN snapshots, Rollback(k) PROVE AuditInv'
  BY <1>2, <1>3 DEF Rollback, stores, ghosts
<1>4. CASE ListAssigned BY <1>2, <1>4 DEF ListAssigned, stores, ghosts
<1>5. ASSUME NEW s \in Seats, RestoreAssignment(s) PROVE AuditInv'
  BY <1>2, <1>5 DEF RestoreAssignment, ghosts
<1>6. CASE ListOld BY <1>2, <1>6 DEF ListOld, stores, ghosts
<1>7. CASE EndRestore BY <1>2, <1>7 DEF EndRestore, End, stores, ghosts
<1> QED BY <1>1, <1>3, <1>4, <1>5, <1>6, <1>7 DEF Restore

LEMMA RepairAudit == ASSUME IInv, AuditInv, Repair PROVE AuditInv'
<1>0. TypeInv BY DEF IInv
<1>1. ASSUME UNCHANGED <<seats, snapshots, records, manual, faults, pc>>, pc = "idle"
      PROVE  AuditInv'
  <2>1. \A s \in Seats : Seen(s)' = Seen(s) BY <1>1 DEF Seen
  <2> QED BY <1>1, <2>1, NothingPending
<1>2. ASSUME NEW s \in Seats, NEW row \in Rows \cup {None}, RequestRepair(s, row) PROVE AuditInv'
  BY <1>1, <1>2 DEF RequestRepair, ghosts
<1>3. ASSUME NEW k \in DOMAIN approvals, ApproveRepair(k) PROVE AuditInv'
  BY <1>1, <1>3 DEF ApproveRepair, ghosts
<1>4. ASSUME NEW s \in Seats, NEW row \in Rows \cup {None}, RepairSeat(s, row) PROVE AuditInv'
  <2>1. /\ pc = "idle" /\ pc' = "audit" /\ job' = [NoJob EXCEPT !.seat = s]
        /\ seats' = [seats EXCEPT ![s].row = row]
        /\ snapshots' = snapshots /\ records' = records /\ manual' = manual /\ faults' = faults
    BY <1>4 DEF RepairSeat
  <2>2. \A t \in Seats \ {s} : seats'[t] = seats[t] BY <1>0, <2>1 DEF TypeInv, SeatMap
  <2>3. job'.seat = s BY <2>1 DEF NoJob
  <2>4. Pending = {} /\ Pending' = {<<s, seats'[s].row>>} BY <2>1, <2>3 DEF Pending
  <2>5. \A t \in Seats : \A n \in Seen(t)' : n \in Seen(t) \/ (t = s /\ n = seats'[s].row)
    BY <2>1, <2>2, NewInSeen
  <2>6. \A t \in Seats : \A n \in Seen(t)' : n \in Seen(t) \/ <<t, n>> \in Pending'
    BY <2>4, <2>5
  <2> QED BY <2>1, <2>4, <2>6, AuditStep
<1>5. ASSUME SaveRepairRecord PROVE AuditInv'
  <2>1. /\ pc = "audit" /\ pc' = "idle" /\ records' = records \cup {<<job.seat, seats[job.seat].row>>}
        /\ seats' = seats /\ snapshots' = snapshots /\ manual' = manual /\ faults' = faults
    BY <1>5 DEF SaveRepairRecord, End, ghosts
  <2>2. Pending = {<<job.seat, seats[job.seat].row>>} BY <2>1 DEF Pending
  <2>3. \A s \in Seats : Seen(s)' = Seen(s) BY <2>1 DEF Seen
  <2>4. records \cup manual \cup Pending \subseteq (records \cup manual \cup Pending)'
    BY <2>1, <2>2
  <2> QED BY <2>1, <2>3, <2>4, NoNewPlace
<1> QED BY <1>2, <1>3, <1>4, <1>5 DEF Repair

LEMMA AdministerAudit == ASSUME IInv, AuditInv, Administer PROVE AuditInv'
<1>0. TypeInv BY DEF IInv
<1>1. ASSUME NEW s \in Seats, NEW newSeats, NEW newAssigned, NEW place,
             Change(newSeats, newAssigned, place),
             \A t \in Seats \ {s} : newSeats[t] = seats[t],
             newSeats[s].row \in Nat => newSeats[s].row = seats[s].row \/ <<s, newSeats[s].row>> \in place
      PROVE  AuditInv'
  <2>1. /\ pc = "idle" /\ pc' = pc /\ seats' = newSeats /\ manual' = manual \cup place
        /\ snapshots' = snapshots /\ records' = records /\ faults' = faults
    BY <1>1 DEF Change
  <2>2. \A t \in Seats : \A n \in Seen(t)' : n \in Seen(t) \/ (t = s /\ n = seats'[s].row)
    BY <1>1, <2>1, NewInSeen
  <2>3. seats[s].row \in Seen(s) BY DEF Seen
  <2>4. \A t \in Seats : \A n \in Seen(t)' : n \in Nat => n \in Seen(t) \/ <<t, n>> \in manual'
    BY <1>1, <2>1, <2>2, <2>3
  <2>5. Pending = {} BY <2>1 DEF Pending
  <2> QED BY <2>1, <2>4, <2>5, AuditStep
<1>2. ASSUME NEW s \in Seats, NEW row \in (Rows \cup {None, seats[s].row}) \ {Partial},
             NEW status \in {"active", "inactive"}, EditSeat(s, row, status)
      PROVE  AuditInv'
  <2> DEFINE next == [seats EXCEPT ![s] = [status |-> status, row |-> row]]
  <2>1. Change(next, assigned, {<<s, row>>}) BY <1>2 DEF EditSeat
  <2>2. next[s].row = row /\ \A t \in Seats \ {s} : next[t] = seats[t]
    BY <1>0 DEF TypeInv, SeatMap
  <2> HIDE DEF next
  <2> QED BY <1>1, <2>1, <2>2
<1>3. ASSUME NEW s \in Seats, DeleteSeat(s) PROVE AuditInv'
  <2> DEFINE next == [seats EXCEPT ![s] = [status |-> "gone", row |-> None]]
             newAssigned == [assigned EXCEPT ![s] = None]
  <2>1. Change(next, newAssigned, {}) BY <1>3 DEF DeleteSeat
  <2>2. next[s].row = None /\ \A t \in Seats \ {s} : next[t] = seats[t]
    BY <1>0 DEF TypeInv, SeatMap
  <2> HIDE DEF next, newAssigned
  <2> QED BY <1>1, <2>1, <2>2, MigrationAssumption
<1>4. ASSUME NEW s \in Seats, NEW st \in Students \cup {None}, AssignStudent(s, st) PROVE AuditInv'
  <2> DEFINE newAssigned == [t \in Seats |-> IF t = s THEN st
                                             ELSE IF assigned[t] = st THEN None ELSE assigned[t]]
  <2>1. Change(seats, newAssigned, {}) BY <1>4 DEF AssignStudent
  <2> HIDE DEF newAssigned
  <2> QED BY <1>1, <2>1
<1> QED BY <1>2, <1>3, <1>4 DEF Administer

LEMMA NextAudit == ASSUME IInv, AuditInv, [Next]_vars PROVE AuditInv'
<1>1. CASE Run BY <1>1, RunAudit
<1>2. CASE Restore BY <1>2, RestoreAudit
<1>3. CASE Repair BY <1>3, RepairAudit
<1>4. CASE Cut
  <2>1. /\ faults' = faults + 1 /\ UNCHANGED <<seats, snapshots, records, manual>>
    BY <1>4 DEF Cut, stores
  <2>2. Pending \in SUBSET {<<job.seat, seats[job.seat].row>>} BY DEF Pending
  <2>3. \A s \in Seats : Seen(s)' = Seen(s) BY <2>1 DEF Seen
  <2> QED BY <2>1, <2>2, <2>3, AuditStep
<1>5. CASE Administer BY <1>5, AdministerAudit
<1>6. CASE UNCHANGED vars
  BY <1>6 DEF vars, stores, ghosts, AuditInv, Unaudited, Seen, Pending
<1> QED BY <1>1, <1>2, <1>3, <1>4, <1>5, <1>6 DEF Next

\* However many operations were cut short, every one of them costs the trail one entry at most.
THEOREM AuditMissesOnlyFaultsTheorem == Spec => []AuditMissesOnlyFaults
<1>1. ASSUME Init PROVE AuditInv
  <2>1. Unaudited = {}
    <3>1. \A s \in Seats : Seen(s) = {seats[s].row} BY <1>1 DEF Init, Seen
    <3>2. \A s \in Seats : <<s, seats[s].row>> \in manual BY <1>1 DEF Init
    <3> QED BY <3>1, <3>2 DEF Unaudited
  <2>2. faults = 0 BY <1>1 DEF Init
  <2> QED BY <2>1, <2>2, FS_EmptySet DEF AuditInv
<1>2. ASSUME AuditInv PROVE AuditMissesOnlyFaults
  <2> DEFINE A == {s \in Seats : /\ seats[s].row \in Nat
                                 /\ <<s, seats[s].row>> \notin records \cup manual
                                 /\ pc \in {"record", "audit"} => s # job.seat}
             f == [s \in A |-> <<s, seats[s].row>>]
  <2>1. IsFiniteSet(Unaudited) /\ faults \in Nat /\ Cardinality(Unaudited) <= faults
    BY <1>2 DEF AuditInv
  <2>2. \A s \in A : <<s, seats[s].row>> \in Unaudited
    BY DEF Unaudited, Seen, Pending
  <2>3. f \in Injection(A, Unaudited)
    <3> HIDE DEF A
    <3>1. f \in [A -> Unaudited] BY <2>2
    <3> QED BY <3>1 DEF Injection, IsInjective
  <2>4. IsFiniteSet(A) /\ Cardinality(A) <= Cardinality(Unaudited)
    <3> HIDE DEF A, f
    <3> QED BY <2>1, <2>3, FS_Injection
  <2>5. Cardinality(A) \in Nat /\ Cardinality(Unaudited) \in Nat BY <2>1, <2>4, FS_CardinalityType
  <2>6. Cardinality(A) <= faults
    <3> HIDE DEF A
    <3> QED BY <2>1, <2>4, <2>5
  <2> QED BY <2>6 DEF AuditMissesOnlyFaults
<1>3. Init /\ [][Next]_vars /\ []IInv => []AuditInv BY <1>1, NextAudit, PTL
<1> QED BY <1>2, <1>3, Invariance, PTL DEF Spec

-----------------------------------------------------------------------------
(* The labelling pipeline: what a run relies on at each stage.  The        *)
(* invariant says it of whoever wrote the stage, an earlier run included.  *)

\* The steps of a run behind which something is sure.
Archiving == {"zip", "zip_receipt", "ready"}
Frozen == {"freeze_status", "frozen"} \cup Archiving
Exported == {"freeze", "freeze_receipt"} \cup Frozen
Published == {"export"} \cup Exported
Reviewing == {"review", "hash", "review_receipt", "verify", "select", "copy"} \cup Published
Framed == {"prelabel", "predictions", "prelabel_receipt"} \cup Reviewing
Tested == {"frames"} \cup Framed
Parted == {"sessions", "test", "test_labels", "test_receipt"} \cup Tested
Stages == {"idle", "inputs", "partition"} \cup Parted

TestDone == test # Missing /\ (test.made # Missing \/ test.frozen # Missing)
\* The test a configuration asks for, if it asks for one.
TestFor(c) == c.target # Missing => TestDone /\ test.target = c.target
Fit(c) ==
  /\ frames # Missing /\ frames.excluded = c.excluded
  /\ prelabel = [at |-> "receipt", model |-> c.model]

\* What a run relies on at each step.
RunAt(p, j) ==
  /\ p \in Stages
  /\ p # "idle" => j.config \in Configs
  /\ p \notin {"copy"} \cup Published => j.batch = "main"
  /\ p \in Parted => partition # Missing
  /\ p \in {"test_labels", "test_receipt"} => test # Missing /\ test.target = j.config.target
  /\ p = "test_receipt" => test.labels # Missing /\ test.made = Missing
  /\ p \in Tested => TestFor(j.config)
  /\ p \in Framed => frames # Missing /\ frames.excluded = j.config.excluded
  /\ p = "predictions" => prelabel.at = "labels"
  /\ p = "prelabel_receipt" => prelabel.at = "predictions"
  /\ p \in Reviewing => Fit(j.config)
  /\ p \in Published => dataset # Missing
  /\ p \in Exported => export # Missing
  /\ p \in {"freeze_receipt", "freeze_status", "frozen"} => j.config.target # Missing
  /\ p = "freeze_receipt" => partition \notin Leaking /\ test.frozen = Missing /\ j.labels \in Labels
  /\ p \in Frozen /\ j.config.target # Missing => test.frozen # Missing
  /\ p \in {"zip_receipt", "ready"} => zip # Missing

\* The review that a run or a command is at work on.
ReviewAt(p, j) ==
  /\ p \in {"hash", "review_receipt"} => review[j.batch] # Missing
  /\ p = "review_receipt" => j.labels \in Labels
  /\ p = "copy" =>
       /\ dataset = Missing
       /\ review[j.batch] # Missing /\ Receipt(j.batch) # Missing /\ Receipt(j.batch).passed
       /\ raced \/ Holds(j.batch)

WorkInv ==
  /\ IF work.cli THEN stage \in {"hash", "review_receipt"} ELSE RunAt(stage, work)
  /\ ReviewAt(stage, work)

\* What is in the workspace fits together.
TestInv ==
  test # Missing =>
    /\ partition # Missing
    /\ test.made # Missing => test.labels # Missing
    /\ test.frozen # Missing => partition \notin Leaking
OutInv ==
  /\ export # Missing =>
       dataset # Missing /\ export.of = dataset /\ prelabel = [at |-> "receipt", model |-> export.cover]
  /\ dataset # Missing => dataset.receipt.passed /\ (raced \/ dataset.labels = dataset.receipt.labels)
  /\ zip # Missing =>
       /\ export # Missing /\ zip.of = export
       /\ zip.tested => test # Missing /\ test.frozen # Missing
Finished(c) ==
  /\ Fit(c) /\ zip # Missing
  /\ c.target # Missing => test.frozen # Missing
StateInv ==
  state # Missing =>
    /\ state.status \in {"review", "ready"} => TestFor(state.config)
    /\ state.status = "ready" => Finished(state.config)

PipelineInv == TypeOK /\ WorkInv /\ TestInv /\ OutInv /\ StateInv
-----------------------------------------------------------------------------
(* The stages.                                                             *)

\* A run that ends leaves nothing to rely on.
LEMMA Leaving ==
  ASSUME Leave
  PROVE  WorkInv' /\ work' \in Works
BY DEF Leave, WorkInv, NoWork, Works, Batches, RunAt, ReviewAt, Stages, Parted, Tested, Framed,
       Reviewing, Published, Exported, Frozen, Archiving

\* A step that is one of a run, not of a command beside it.
LEMMA InRun ==
  ASSUME PipelineInv, stage \notin {"hash", "review_receipt"}
  PROVE  ~work.cli /\ RunAt(stage, work) /\ ReviewAt(stage, work) /\ work \in Works
BY DEF PipelineInv, WorkInv, TypeOK

\* The run goes on.
LEMMA GoingOn ==
  ASSUME NEW p, NEW j \in Works, stage' = p, work' = j, ~j.cli, RunAt(p, j)', ReviewAt(p, j)'
  PROVE  WorkInv' /\ work' \in Works
BY DEF WorkInv

\* Steps that write no file.
LEMMA OnlyControl ==
  ASSUME PipelineInv, UNCHANGED <<humanVars, labelVars, testVars, outVars, raced>>,
         stops' \in 0..MaxStops, WorkInv', work' \in Works
  PROVE  PipelineInv'
<1> USE DEF humanVars, labelVars, testVars, outVars
<1>1. TypeOK' BY DEF PipelineInv, TypeOK
<1>2. TestInv' /\ OutInv' BY DEF PipelineInv, TestInv, OutInv
<1>3. StateInv' BY DEF PipelineInv, StateInv, Finished, TestFor, TestDone, Fit
<1> QED BY <1>1, <1>2, <1>3 DEF PipelineInv

LEMMA StopKeeps == ASSUME PipelineInv, Stop PROVE PipelineInv'
<1>1. WorkInv' /\ work' \in Works BY Leaving DEF Stop
<1>2. stops' \in 0..MaxStops BY LabelingAssumption DEF Stop, PipelineInv, TypeOK
<1> QED BY <1>1, <1>2, OnlyControl DEF Stop

\* A report on the workspace.
LEMMA StateChanges ==
  ASSUME PipelineInv, Leave, UNCHANGED <<humanVars, labelVars, testVars, dataset, export, zip, stops, raced>>,
         NEW s \in States, state' = s,
         s.status \in {"review", "ready"} => TestFor(s.config),
         s.status = "ready" => Finished(s.config)
  PROVE  PipelineInv'
<1> USE DEF humanVars, labelVars, testVars
<1>1. TypeOK' BY Leaving DEF PipelineInv, TypeOK
<1>2. TestInv' /\ OutInv' BY DEF PipelineInv, TestInv, OutInv
<1>3. StateInv' BY DEF StateInv, Finished, TestFor, TestDone, Fit
<1> QED BY <1>1, <1>2, <1>3, Leaving DEF PipelineInv

\* The labels, the receipts and the status of the test.
LEMMA TestChanges ==
  ASSUME PipelineInv,
         UNCHANGED <<assignments, config, loosened, labelVars, outVars, stops, raced>>,
         edits' \in 0..MaxEdits,
         NEW t \in Tests, test' = t, partition # Missing,
         t.made # Missing => t.labels # Missing,
         t.frozen # Missing => partition \notin Leaking,
         test # Missing =>
           /\ test.made # Missing => t.made # Missing
           /\ test.frozen # Missing => t.frozen # Missing
           /\ t.target = test.target,
         WorkInv', work' \in Works
  PROVE  PipelineInv'
<1> USE DEF labelVars, outVars
<1>0. t # Missing BY LabelingAssumption
<1>1. TypeOK' BY DEF PipelineInv, TypeOK
<1>2. TestInv' BY DEF PipelineInv, TestInv
<1>3. OutInv' BY <1>0 DEF PipelineInv, OutInv
<1>4. TestDone => TestDone' /\ test'.target = test.target BY <1>0 DEF TestDone
<1>5. TestDone /\ test.frozen # Missing => test'.frozen # Missing BY DEF TestDone
<1>6. StateInv' BY <1>4, <1>5 DEF PipelineInv, StateInv, Finished, TestFor, Fit
<1> QED BY <1>1, <1>2, <1>3, <1>6 DEF PipelineInv

-----------------------------------------------------------------------------
(* The stages of advance_local_pipeline.                                   *)

LEMMA CheckInputsKeeps == ASSUME PipelineInv, CheckInputs PROVE PipelineInv'
<1>0. PICK j \in Works : j = work BY InRun DEF CheckInputs
<1>1. ~j.cli /\ j.config \in Configs /\ j.batch = "main" /\ stage = "inputs"
  BY <1>0, InRun DEF CheckInputs, RunAt, Published, Exported, Frozen, Archiving
<1>2. CASE assignments = Missing
  <2>1. PICK s \in States : s = [status |-> "assignments", config |-> j.config]
    BY <1>1 DEF States
  <2>2. s.status = "assignments" BY <2>1
  <2> QED BY <1>0, <1>2, <2>1, <2>2, StateChanges DEF CheckInputs, Stays
<1>3. CASE assignments # Missing
  <2>1. stage' = "partition" /\ work' = j /\ UNCHANGED state BY <1>0, <1>3 DEF CheckInputs, Go
  <2>2. RunAt("partition", j)' /\ ReviewAt("partition", j)'
    BY <1>1 DEF RunAt, ReviewAt, Stages, Parted, Tested, Framed, Reviewing, Published, Exported,
                Frozen, Archiving
  <2> QED BY <1>1, <2>1, <2>2, GoingOn, OnlyControl DEF CheckInputs, Stays, outVars, PipelineInv, TypeOK
<1> QED BY <1>2, <1>3

LEMMA PartitionKeeps == ASSUME PipelineInv, Partition PROVE PipelineInv'
<1> USE DEF Stays, humanVars, testVars, outVars
<1>0. PICK j \in Works : j = work BY InRun DEF Partition
<1>1. ~j.cli /\ j.config \in Configs /\ j.batch = "main" /\ stage = "partition"
  BY <1>0, InRun DEF Partition, RunAt, Published, Exported, Frozen, Archiving
<1>2. CASE partition # Missing \/ Leave
  <2>1. UNCHANGED partition BY <1>2 DEF Partition, Leave, Go
  <2>2. CASE Leave BY <2>1, <2>2, Leaving, OnlyControl DEF Partition, labelVars, PipelineInv, TypeOK
  <2>3. CASE partition # Missing /\ stage' = "sessions" /\ work' = j
    <3>1. RunAt("sessions", j)' /\ ReviewAt("sessions", j)'
      BY <1>1, <2>1, <2>3 DEF RunAt, ReviewAt, Stages, Parted, Tested, Framed, Reviewing, Published,
                Exported, Frozen, Archiving
    <3> QED BY <1>1, <2>1, <2>3, <3>1, GoingOn, OnlyControl DEF Partition, labelVars, PipelineInv, TypeOK
  <2> QED BY <1>0, <1>2, <2>2, <2>3 DEF Partition, Go
<1>3. CASE partition = Missing /\ ~Leave
  <2>1. /\ assignments # Missing /\ partition' = assignments /\ stage' = "sessions" /\ work' = j
        /\ UNCHANGED <<frames, prelabel, review, test, dataset, export, zip, state, assignments,
                       config, edits, loosened, stops, raced>>
    BY <1>0, <1>3 DEF Partition, Go
  <2>2. RunAt("sessions", j)' /\ ReviewAt("sessions", j)'
    BY <1>1, <2>1 DEF RunAt, ReviewAt, Stages, Parted, Tested, Framed, Reviewing, Published,
                Exported, Frozen, Archiving
  <2>3. WorkInv' /\ work' \in Works BY <1>1, <2>1, <2>2, GoingOn
  <2>4. TypeOK' BY <2>1, <2>3 DEF PipelineInv, TypeOK
  <2>5. test = Missing BY <1>3 DEF PipelineInv, TestInv
  <2>6. TestInv' /\ OutInv' BY <2>1, <2>5 DEF PipelineInv, TestInv, OutInv
  <2>7. StateInv' BY <2>1 DEF PipelineInv, StateInv, Finished, TestFor, TestDone, Fit
  <2> QED BY <2>3, <2>4, <2>6, <2>7 DEF PipelineInv
<1> QED BY <1>2, <1>3

LEMMA CheckPartitionKeeps == ASSUME PipelineInv, CheckPartition PROVE PipelineInv'
<1>0. PICK j \in Works : j = work BY InRun DEF CheckPartition
<1>1. ~j.cli /\ RunAt("sessions", j) BY <1>0, InRun DEF CheckPartition
<1>2. UNCHANGED <<humanVars, labelVars, testVars, outVars, raced, stops>>
  BY DEF CheckPartition, Stays
<1>3. WorkInv' /\ work' \in Works
  <2>1. CASE Leave BY <2>1, Leaving
  <2>2. CASE stage' = "test" /\ work' = j
    <3>1. RunAt("test", j)' /\ ReviewAt("test", j)'
      BY <1>1, <1>2, <2>2 DEF labelVars, RunAt, ReviewAt, Stages, Parted, Tested, Framed, Reviewing, Published,
                Exported, Frozen, Archiving
    <3> QED BY <1>1, <2>2, <3>1, GoingOn
  <2> QED BY <1>0, <2>1, <2>2 DEF CheckPartition, Go
<1> QED BY <1>2, <1>3, OnlyControl DEF PipelineInv, TypeOK

\* The test.
LEMMA SampleTestKeeps == ASSUME PipelineInv, SampleTest PROVE PipelineInv'
<1>0. PICK j \in Works : j = work BY InRun DEF SampleTest
<1>1. ~j.cli /\ RunAt("test", j) /\ j.config \in Configs BY <1>0, InRun DEF SampleTest, RunAt
<1>2. UNCHANGED <<humanVars, labelVars, outVars, stops, raced>> BY DEF SampleTest, Stays
<1>3. CASE UNCHANGED test /\ Leave
  BY <1>2, <1>3, Leaving, OnlyControl DEF testVars, PipelineInv, TypeOK
<1>4. CASE ~Testing /\ UNCHANGED test /\ stage' = "frames" /\ work' = j
  <2>1. RunAt("frames", j)' /\ ReviewAt("frames", j)'
    BY <1>0, <1>1, <1>2, <1>4 DEF Testing, labelVars, TestFor, RunAt, ReviewAt, Stages, Parted, Tested, Framed,
                Reviewing, Published, Exported, Frozen, Archiving
  <2>2. WorkInv' /\ work' \in Works BY <1>1, <1>4, <2>1, GoingOn
  <2> QED BY <1>2, <1>4, <2>2, OnlyControl DEF testVars, PipelineInv, TypeOK
<1>5. ASSUME NEW u \in Tests, test' = u, stage' = "test_labels", work' = j, u.target = j.config.target,
             u = test \/ (test = Missing /\ u.made = Missing /\ u.frozen = Missing)
      PROVE  PipelineInv'
  <2>1. u # Missing BY LabelingAssumption
  <2>2. RunAt("test_labels", j)' /\ ReviewAt("test_labels", j)'
    BY <1>1, <1>2, <1>5, <2>1 DEF labelVars, RunAt, ReviewAt, Stages, Parted, Tested, Framed, Reviewing,
                Published, Exported, Frozen, Archiving
  <2>3. WorkInv' /\ work' \in Works BY <1>1, <1>5, <2>2, GoingOn
  <2>4. partition # Missing BY <1>1 DEF RunAt, Parted
  <2>5. /\ u.made # Missing => u.labels # Missing
        /\ u.frozen # Missing => partition \notin Leaking
        /\ test # Missing => u = test
    BY <1>5, <2>1 DEF PipelineInv, TestInv
  <2> QED BY <1>2, <1>5, <2>3, <2>4, <2>5, TestChanges DEF humanVars, PipelineInv, TypeOK
<1>6. CASE Testing /\ test = Missing /\ test' = Sampled /\ stage' = "test_labels" /\ work' = j
  <2>1. j.config.target \in Targets /\ j.config.loose \in Loose
    BY <1>0, <1>1, <1>6 DEF Testing, Configs
  <2>2. PICK u \in Tests : u = Sampled BY <1>0, <2>1 DEF Sampled, Tests
  <2>3. u.target = j.config.target /\ u.made = Missing /\ u.frozen = Missing BY <1>0, <2>2 DEF Sampled
  <2> QED BY <1>5, <1>6, <2>2, <2>3
<1>7. CASE /\ test # Missing /\ UNCHANGED test /\ test.target = j.config.target
           /\ stage' = "test_labels" /\ work' = j
  <2>1. test \in Tests BY <1>7 DEF PipelineInv, TypeOK
  <2> QED BY <1>5, <1>7, <2>1
<1> QED BY <1>0, <1>3, <1>4, <1>6, <1>7 DEF SampleTest, Go

LEMMA LabelTestKeeps == ASSUME PipelineInv, LabelTest PROVE PipelineInv'
<1>0. PICK j \in Works : j = work BY InRun DEF LabelTest
<1>1. ~j.cli /\ RunAt("test_labels", j) BY <1>0, InRun DEF LabelTest
<1>2. UNCHANGED <<humanVars, labelVars, outVars, stops, raced>> BY DEF LabelTest, Stays
<1>3. test \in Tests /\ test # Missing /\ partition # Missing
  BY <1>1 DEF RunAt, Parted, PipelineInv, TypeOK
<1>4. CASE UNCHANGED test /\ Leave
  BY <1>2, <1>4, Leaving, OnlyControl DEF testVars, PipelineInv, TypeOK
<1>5. CASE UNCHANGED test /\ stage' = "frames" /\ work' = j /\ (TestIsFrozen \/ TestIsPrelabelled)
  <2>1. TestFor(j.config)'
    BY <1>1, <1>3, <1>5 DEF RunAt, TestFor, TestDone, TestIsFrozen, TestIsPrelabelled
  <2>2. RunAt("frames", j)' /\ ReviewAt("frames", j)'
    BY <1>1, <1>2, <1>5, <2>1 DEF labelVars, RunAt, ReviewAt, Stages, Parted, Tested, Framed, Reviewing, Published,
                Exported, Frozen, Archiving
  <2>3. WorkInv' /\ work' \in Works BY <1>1, <1>5, <2>2, GoingOn
  <2> QED BY <1>2, <1>5, <2>3, OnlyControl DEF testVars, PipelineInv, TypeOK
<1>6. CASE /\ ~TestIsFrozen /\ ~TestIsPrelabelled
           /\ test' = [test EXCEPT !.labels = Candidates] /\ stage' = "test_receipt" /\ work' = j
  <2>1. PICK t \in Tests : t = [test EXCEPT !.labels = Candidates] BY <1>3 DEF Tests, Labels
  <2>2. t.labels = Candidates /\ t.made = Missing /\ t.frozen = Missing /\ t.target = test.target
    BY <1>3, <1>6, <2>1 DEF Tests, TestIsFrozen, TestIsPrelabelled
  <2>3. t.labels # Missing /\ t # Missing BY <2>2, LabelingAssumption DEF Labels
  <2>4. RunAt("test_receipt", j)' /\ ReviewAt("test_receipt", j)'
    BY <1>1, <1>2, <1>6, <2>1, <2>2, <2>3 DEF labelVars, RunAt, ReviewAt, Stages, Parted, Tested, Framed, Reviewing, Published,
                Exported, Frozen, Archiving
  <2>5. WorkInv' /\ work' \in Works BY <1>1, <1>6, <2>4, GoingOn
  <2>6. test' = t /\ test.made = Missing /\ test.frozen = Missing
    BY <1>6, <2>1 DEF TestIsFrozen, TestIsPrelabelled
  <2> QED BY <1>2, <1>3, <2>2, <2>5, <2>6, TestChanges DEF humanVars, PipelineInv, TypeOK
<1> QED BY <1>0, <1>4, <1>5, <1>6 DEF LabelTest, Go

LEMMA ReceiveTestLabelsKeeps == ASSUME PipelineInv, ReceiveTestLabels PROVE PipelineInv'
<1>0. PICK j \in Works : j = work BY InRun DEF ReceiveTestLabels
<1>1. ~j.cli /\ RunAt("test_receipt", j) BY <1>0, InRun DEF ReceiveTestLabels
<1>2. /\ stage' = "frames" /\ work' = j /\ test' = [test EXCEPT !.made = j.config.model]
      /\ UNCHANGED <<humanVars, labelVars, outVars, stops, raced>>
  BY <1>0 DEF ReceiveTestLabels, Stays, Go
<1>3. /\ test \in Tests /\ test # Missing /\ test.labels # Missing /\ partition # Missing
      /\ j.config.model \in Models
  BY <1>1 DEF RunAt, Parted, Configs, PipelineInv, TypeOK
<1>4. PICK t \in Tests : t = [test EXCEPT !.made = j.config.model] BY <1>3 DEF Tests
<1>5. /\ t.made = j.config.model /\ t.labels = test.labels /\ t.frozen = test.frozen
      /\ t.made # Missing /\ t # Missing /\ t.target = test.target
  BY <1>3, <1>4, LabelingAssumption DEF Tests
<1>6. TestFor(j.config)' BY <1>1, <1>2, <1>4, <1>5 DEF RunAt, TestFor, TestDone
<1>7. RunAt("frames", j)' /\ ReviewAt("frames", j)'
  BY <1>1, <1>2, <1>6 DEF labelVars, RunAt, ReviewAt, Stages, Parted, Tested, Framed, Reviewing, Published,
                Exported, Frozen, Archiving
<1>8. WorkInv' /\ work' \in Works BY <1>1, <1>2, <1>7, GoingOn
<1>9. t.frozen # Missing => partition \notin Leaking
  BY <1>3, <1>5 DEF PipelineInv, TestInv
<1>10. test' = t BY <1>2, <1>4
<1> QED BY <1>2, <1>3, <1>5, <1>8, <1>9, <1>10, TestChanges DEF humanVars, PipelineInv, TypeOK

\* What a run took over or made stays.
LEMMA FitStays ==
  ASSUME PipelineInv, UNCHANGED <<state, test>>, zip # Missing => zip' # Missing,
         frames # Missing => frames' = frames,
         prelabel.at = "receipt" => prelabel' = prelabel
  PROVE  StateInv'
<1>1. ASSUME state # Missing, state.status = "ready" PROVE Finished(state.config)'
  <2>1. /\ frames # Missing /\ frames.excluded = state.config.excluded
        /\ prelabel = [at |-> "receipt", model |-> state.config.model] /\ zip # Missing
        /\ state.config.target # Missing => test.frozen # Missing
    BY <1>1 DEF PipelineInv, StateInv, Finished, Fit
  <2>2. prelabel.at = "receipt" BY <2>1
  <2> QED BY <2>1, <2>2 DEF Finished, Fit
<1>2. state # Missing /\ state.status \in {"review", "ready"} => TestFor(state.config)'
  BY DEF PipelineInv, StateInv, TestFor, TestDone
<1> QED BY <1>1, <1>2 DEF StateInv

LEMMA CleanFramesKeeps == ASSUME PipelineInv, CleanFrames PROVE PipelineInv'
<1> USE DEF humanVars, testVars, outVars
<1>0. PICK j \in Works : j = work BY InRun DEF CleanFrames
<1>1. ~j.cli /\ RunAt("frames", j) BY <1>0, InRun DEF CleanFrames
<1>2. UNCHANGED <<humanVars, partition, prelabel, review, testVars, outVars, stops, raced>>
  BY DEF CleanFrames, Stays
<1>3. /\ j.config \in Configs /\ j.config.excluded \in Exclusions /\ j.config.loose \in Loose
      /\ frames \in FrameSets \cup {Missing}
  BY <1>1 DEF RunAt, Configs, PipelineInv, TypeOK
<1>9. PICK f \in FrameSets : f = [excluded |-> j.config.excluded, loose |-> j.config.loose]
  BY <1>3 DEF FrameSets
<1>10. f # Missing /\ f.excluded = j.config.excluded BY <1>9, LabelingAssumption
<1>4. /\ frames' \in FrameSets \cup {Missing} /\ (frames # Missing => frames' = frames)
      /\ \/ Leave
         \/ /\ stage' = "prelabel" /\ work' = j
            /\ frames' # Missing /\ frames'.excluded = j.config.excluded
  BY <1>0, <1>3, <1>9, <1>10 DEF CleanFrames, Go, FramesFit
<1>5. WorkInv' /\ work' \in Works
  <2>1. CASE Leave BY <2>1, Leaving
  <2>2. CASE stage' = "prelabel" /\ work' = j /\ frames' # Missing /\ frames'.excluded = j.config.excluded
    <3>1. RunAt("prelabel", j)' /\ ReviewAt("prelabel", j)'
      BY <1>1, <1>2, <2>2 DEF TestFor, TestDone, RunAt, ReviewAt, Stages, Parted, Tested, Framed, Reviewing, Published,
                Exported, Frozen, Archiving
    <3> QED BY <1>1, <2>2, <3>1, GoingOn
  <2> QED BY <1>4, <2>1, <2>2
<1>6. TypeOK' BY <1>2, <1>4, <1>5 DEF PipelineInv, TypeOK
<1>7. TestInv' /\ OutInv' BY <1>2 DEF PipelineInv, TestInv, OutInv
<1>8. StateInv' BY <1>2, <1>4, FitStays
<1> QED BY <1>5, <1>6, <1>7, <1>8 DEF PipelineInv

LEMMA PrelabelKeeps == ASSUME PipelineInv, Prelabel PROVE PipelineInv'
<1> USE DEF humanVars, testVars, outVars
<1>0. PICK j \in Works : j = work BY InRun DEF Prelabel
<1>1. ~j.cli /\ RunAt(stage, j) BY <1>0, InRun DEF Prelabel
<1>2. UNCHANGED <<humanVars, partition, frames, review, testVars, outVars, stops, raced>>
  BY DEF Prelabel, Stays
<1>3. /\ j.config \in Configs /\ j.config.model \in Models
      /\ prelabel \in [at : {"none", "labels", "predictions", "receipt"}, model : Models \cup {Missing}]
      /\ stage \in {"prelabel", "predictions", "prelabel_receipt"}
  BY <1>1 DEF RunAt, Configs, PipelineInv, TypeOK, Prelabel
<1>4. CASE UNCHANGED prelabel /\ Leave
  BY <1>2, <1>4, Leaving, OnlyControl DEF labelVars, PipelineInv, TypeOK
<1>5. CASE UNCHANGED prelabel /\ prelabel.at = "receipt" /\ ModelFits /\ stage' = "review" /\ work' = j
  <2>1. prelabel = [at |-> "receipt", model |-> j.config.model] BY <1>0, <1>3, <1>5 DEF ModelFits
  <2>2. RunAt("review", j)' /\ ReviewAt("review", j)'
    BY <1>1, <1>2, <1>3, <1>5, <2>1 DEF TestFor, TestDone, Fit, RunAt, ReviewAt, Stages, Parted, Tested, Framed, Reviewing, Published,
                Exported, Frozen, Archiving
  <2>3. WorkInv' /\ work' \in Works BY <1>1, <1>5, <2>2, GoingOn
  <2> QED BY <1>2, <1>5, <2>3, OnlyControl DEF labelVars, PipelineInv, TypeOK
<1>6. ASSUME NEW p, NEW l \in [at : {"labels", "predictions", "receipt"}, model : Models \cup {Missing}],
             prelabel.at # "receipt", prelabel' = l, stage' = p, work' = j,
             RunAt(p, j)', ReviewAt(p, j)'
      PROVE  PipelineInv'
  <2>1. WorkInv' /\ work' \in Works BY <1>1, <1>6, GoingOn
  <2>2. TypeOK' BY <1>2, <1>6, <2>1 DEF PipelineInv, TypeOK
  <2>3. export = Missing /\ zip = Missing
    <3>1. export # Missing => prelabel.at = "receipt" BY DEF PipelineInv, OutInv
    <3> QED BY <1>6, <3>1 DEF PipelineInv, OutInv
  <2>5. TestInv' /\ OutInv' BY <1>2, <2>3 DEF PipelineInv, TestInv, OutInv
  <2>4. StateInv' BY <1>2, <1>6, FitStays
  <2> QED BY <2>1, <2>2, <2>4, <2>5 DEF PipelineInv
<1>7. CASE /\ stage = "prelabel" /\ prelabel.at = "none" /\ prelabel' = [prelabel EXCEPT !.at = "labels"]
           /\ stage' = "predictions" /\ work' = j
  <2>1. PICK l \in [at : {"labels", "predictions", "receipt"}, model : Models \cup {Missing}] :
          l = [prelabel EXCEPT !.at = "labels"]
    BY <1>3
  <2>2. l.at = "labels" BY <1>3, <2>1
  <2>3. prelabel' = l /\ prelabel.at # "receipt" BY <1>7, <2>1
  <2>4. RunAt("predictions", j)' /\ ReviewAt("predictions", j)'
    BY <1>1, <1>2, <1>7, <2>2, <2>3 DEF TestFor, TestDone, RunAt, ReviewAt, Stages, Parted, Tested, Framed, Reviewing, Published,
                Exported, Frozen, Archiving
  <2> QED BY <1>6, <1>7, <2>3, <2>4
<1>8. CASE /\ stage = "predictions" /\ prelabel' = [prelabel EXCEPT !.at = "predictions"]
           /\ stage' = "prelabel_receipt" /\ work' = j
  <2>1. PICK l \in [at : {"labels", "predictions", "receipt"}, model : Models \cup {Missing}] :
          l = [prelabel EXCEPT !.at = "predictions"]
    BY <1>3
  <2>2. l.at = "predictions" BY <1>3, <2>1
  <2>3. prelabel' = l /\ prelabel.at # "receipt" BY <1>1, <1>8, <2>1 DEF RunAt
  <2>4. RunAt("prelabel_receipt", j)' /\ ReviewAt("prelabel_receipt", j)'
    BY <1>1, <1>2, <1>8, <2>2, <2>3 DEF TestFor, TestDone, RunAt, ReviewAt, Stages, Parted, Tested, Framed, Reviewing, Published,
                Exported, Frozen, Archiving
  <2> QED BY <1>6, <1>8, <2>3, <2>4
<1>9. CASE /\ stage = "prelabel_receipt" /\ prelabel' = [at |-> "receipt", model |-> j.config.model]
           /\ stage' = "review" /\ work' = j
  <2>1. PICK l \in [at : {"labels", "predictions", "receipt"}, model : Models \cup {Missing}] :
          l = [at |-> "receipt", model |-> j.config.model]
    BY <1>3
  <2>2. prelabel' = l /\ prelabel.at # "receipt" BY <1>1, <1>9, <2>1 DEF RunAt
  <2>3. RunAt("review", j)' /\ ReviewAt("review", j)'
    BY <1>1, <1>2, <1>9 DEF TestFor, TestDone, Fit, RunAt, ReviewAt, Stages, Parted, Tested, Framed, Reviewing, Published,
                Exported, Frozen, Archiving
  <2> QED BY <1>6, <1>9, <2>2, <2>3
<1> QED BY <1>0, <1>4, <1>5, <1>7, <1>8, <1>9 DEF Prelabel, Go

-----------------------------------------------------------------------------
(* The review.                                                             *)

\* The labels and the receipts of the batches.
LEMMA ReviewChanges ==
  ASSUME PipelineInv,
         UNCHANGED <<assignments, config, loosened, partition, frames, prelabel, testVars, dataset, export, zip,
                     stops>>,
         edits' \in 0..MaxEdits, raced' \in BOOLEAN, raced => raced',
         review' \in [Batches -> Reviews \cup {Missing}],
         state' \in States \cup {Missing}, StateInv', WorkInv', work' \in Works
  PROVE  PipelineInv'
<1> USE DEF testVars
<1>1. TypeOK' BY DEF PipelineInv, TypeOK
<1>2. TestInv' /\ OutInv' BY DEF PipelineInv, TestInv, OutInv
<1> QED BY <1>1, <1>2 DEF PipelineInv

LEMMA PreparedReview ==
  ASSUME PipelineInv, NEW b \in Batches
  PROVE  /\ Prepared(b) \in [Batches -> Reviews \cup {Missing}] /\ Prepared(b)[b] # Missing
         /\ \A c \in Batches : review[c] # Missing => Prepared(b)[c] = review[c]
<1>1. review \in [Batches -> Reviews \cup {Missing}] BY DEF PipelineInv, TypeOK
<1>2. PICK x \in Reviews : x = [labels |-> Candidates, receipt |-> Missing]
  BY DEF Reviews, Labels
<1>3. x # Missing BY LabelingAssumption
<1> QED BY <1>1, <1>2, <1>3 DEF Prepared

LEMMA PrepareReviewKeeps == ASSUME PipelineInv, PrepareReview PROVE PipelineInv'
<1> USE DEF humanVars, testVars, outVars
<1>0. PICK j \in Works : j = work BY InRun DEF PrepareReview
<1>1. ~j.cli /\ RunAt("review", j) BY <1>0, InRun DEF PrepareReview
<1>2. /\ review' = Prepared("main")
      /\ UNCHANGED <<humanVars, partition, frames, prelabel, testVars, dataset, export, zip, stops, raced>>
  BY DEF PrepareReview, Stays
<1>3. "main" \in Batches BY DEF Batches
<1>4. review' \in [Batches -> Reviews \cup {Missing}] /\ review'["main"] # Missing
  BY <1>2, <1>3, PreparedReview
<1>5. j.config \in Configs /\ Fit(j.config) /\ TestFor(j.config)
  BY <1>1 DEF RunAt, Published, Reviewing, Framed, Tested
<1>6. CASE UNCHANGED state /\ work' = j /\ stage' \in {"verify", "hash"}
  <2>1. ASSUME stage' = "verify" PROVE WorkInv'
    <3>1. RunAt("verify", j)' /\ ReviewAt("verify", j)'
      BY <1>1, <1>2, <1>6, <2>1 DEF TestFor, TestDone, Fit, RunAt, ReviewAt, Stages, Parted, Tested, Framed, Reviewing, Published,
                Exported, Frozen, Archiving
    <3> QED BY <1>1, <1>6, <2>1, <3>1, GoingOn
  <2>2. ASSUME stage' = "hash" PROVE WorkInv'
    <3>2. review'[j.batch] # Missing
      BY <1>1, <1>4 DEF RunAt, Published, Exported, Frozen, Archiving
    <3>3. RunAt("hash", j)' /\ ReviewAt("hash", j)'
      BY <1>1, <1>2, <1>6, <2>2, <3>2 DEF TestFor, TestDone, Fit, RunAt, ReviewAt, Stages, Parted, Tested, Framed, Reviewing, Published,
                Exported, Frozen, Archiving
    <3> QED BY <1>1, <1>6, <2>2, <3>3, GoingOn
  <2>3. StateInv' BY <1>2, <1>6, FitStays
  <2> QED BY <1>2, <1>4, <1>6, <2>1, <2>2, <2>3, ReviewChanges DEF PipelineInv, TypeOK
<1>7. CASE Leave /\ state' = [status |-> "review", config |-> j.config]
  <2>1. PICK s \in States : s = [status |-> "review", config |-> j.config] BY <1>5 DEF States
  <2>2. s.status = "review" /\ s.config = j.config /\ state' = s BY <1>7, <2>1
  <2>3. StateInv' BY <1>2, <1>5, <2>2 DEF StateInv, TestFor, TestDone
  <2> QED BY <1>2, <1>4, <1>7, <2>2, <2>3, Leaving, ReviewChanges DEF PipelineInv, TypeOK
<1> QED BY <1>0, <1>6, <1>7 DEF PrepareReview, Go

\* review-complete and a run that completes the review hash the labels alike.
LEMMA HashLabelsKeeps == ASSUME PipelineInv, HashLabels PROVE PipelineInv'
<1> USE DEF humanVars, testVars, outVars
<1>0. PICK j \in Works : j = work BY DEF PipelineInv, TypeOK
<1>1. (j.cli \/ RunAt("hash", j)) /\ review[j.batch] # Missing /\ j.batch \in Batches
  BY <1>0 DEF HashLabels, PipelineInv, WorkInv, ReviewAt, Works
<1>2. /\ stage' = "review_receipt" /\ work' = [j EXCEPT !.labels = review[j.batch].labels]
      /\ review' = (IF Passes(j.batch) THEN review ELSE Prepared("fallback"))
      /\ UNCHANGED <<humanVars, partition, frames, prelabel, testVars, outVars, stops, raced>>
  BY <1>0 DEF HashLabels, Go, Stays
<1>3. review[j.batch] \in Reviews /\ review[j.batch].labels \in Labels
  BY <1>1 DEF PipelineInv, TypeOK, Reviews
<1>4. PICK k \in Works : k = [j EXCEPT !.labels = review[j.batch].labels] BY <1>3 DEF Works
<1>5. k.cli = j.cli /\ k.batch = j.batch /\ k.config = j.config /\ k.labels \in Labels
  BY <1>3, <1>4 DEF Works
<1>6. review' \in [Batches -> Reviews \cup {Missing}] /\ review'[k.batch] # Missing
  BY <1>1, <1>2, <1>5, PreparedReview DEF Batches, PipelineInv, TypeOK
<1>7. ReviewAt("review_receipt", k)' BY <1>5, <1>6 DEF ReviewAt
<1>8. WorkInv'
  <2>1. CASE k.cli BY <1>2, <1>4, <1>7, <2>1 DEF WorkInv
  <2>2. CASE ~k.cli
    <3>1. RunAt("review_receipt", k)'
      BY <1>1, <1>2, <1>5, <2>2 DEF TestFor, TestDone, Fit, RunAt, Stages, Parted, Tested, Framed, Reviewing, Published,
                Exported, Frozen, Archiving
    <3> QED BY <1>2, <1>4, <1>7, <2>2, <3>1, GoingOn
  <2> QED BY <2>1, <2>2
<1>9. StateInv' BY <1>2, FitStays
<1>10. work' \in Works BY <1>2, <1>4
<1> QED BY <1>2, <1>6, <1>8, <1>9, <1>10, ReviewChanges DEF PipelineInv, TypeOK

\* The receipt of a batch is at most the third.
LEMMA OrderBound ==
  ASSUME NEW b \in Batches, b \notin Completed
  PROVE  Cardinality(Completed) \in 0..2
<1>1. PICK x, y : x # y /\ Batches \ {b} = {x, y} BY DEF Batches
<1>2. IsFiniteSet({x}) /\ Cardinality({x}) = 1 BY FS_Singleton
<1>6. IsFiniteSet({x} \cup {y}) /\
      Cardinality({x} \cup {y}) = IF y \in {x} THEN Cardinality({x}) ELSE Cardinality({x}) + 1
  BY <1>2, FS_AddElement
<1>3. IsFiniteSet({x} \cup {y}) /\ Cardinality({x} \cup {y}) = 2 BY <1>1, <1>2, <1>6
<1>4. Completed \subseteq {x} \cup {y} BY <1>1 DEF Completed
<1>5. Cardinality(Completed) <= 2 /\ IsFiniteSet(Completed) BY <1>3, <1>4, FS_Subset
<1> QED BY <1>5, FS_CardinalityType

\* After the receipt, a run goes on and review-complete ends.
LEMMA CompletesKeeps ==
  ASSUME PipelineInv, stage = "review_receipt", Completes,
         UNCHANGED <<partition, frames, prelabel, testVars, dataset, export, zip>>
  PROVE  WorkInv' /\ work' \in Works
<1>0. PICK j \in Works : j = work BY DEF PipelineInv, TypeOK
<1>1. CASE Leave BY <1>1, Leaving
<1>2. CASE ~j.cli /\ stage' = "verify" /\ work' = j
  <2>1. RunAt("review_receipt", j) BY <1>0, <1>2 DEF PipelineInv, WorkInv
  <2>2. RunAt("verify", j)' /\ ReviewAt("verify", j)'
    BY <1>2, <2>1 DEF testVars, TestFor, TestDone, Fit, RunAt, ReviewAt, Stages, Parted, Tested, Framed, Reviewing, Published,
                Exported, Frozen, Archiving
  <2> QED BY <1>2, <2>2, GoingOn
<1> QED BY <1>0, <1>1, <1>2 DEF Completes, Go

LEMMA ReceiveReviewKeeps == ASSUME PipelineInv, ReceiveReview PROVE PipelineInv'
<1> USE DEF humanVars, testVars, outVars
<1>0. PICK j \in Works : j = work BY DEF PipelineInv, TypeOK
<1>1. review[j.batch] # Missing /\ j.batch \in Batches /\ j.labels \in Labels
  BY <1>0 DEF ReceiveReview, PipelineInv, WorkInv, ReviewAt, Works
<1>2. /\ stage = "review_receipt"
      /\ UNCHANGED <<humanVars, partition, frames, prelabel, testVars, outVars, stops, raced>>
  BY DEF ReceiveReview, Stays
<1>3. CASE Receipt(j.batch) # Missing
  <2>1. UNCHANGED review /\ (Completes \/ Leave) BY <1>0, <1>3 DEF ReceiveReview
  <2>2. WorkInv' /\ work' \in Works BY <1>2, <2>1, CompletesKeeps, Leaving
  <2> QED BY <1>2, <2>1, <2>2, OnlyControl DEF labelVars, PipelineInv, TypeOK
<1>4. CASE Receipt(j.batch) = Missing
  <2>1. PICK r : r = [labels |-> j.labels, passed |-> j.batch = "sampled" => j.labels \in Accepted,
                      order |-> Cardinality(Completed)]
    OBVIOUS
  <2>2. review' = [review EXCEPT ![j.batch].receipt = r] /\ Completes
    BY <1>0, <1>4, <2>1 DEF ReceiveReview
  <2>3. WorkInv' /\ work' \in Works BY <1>2, <2>2, CompletesKeeps
  <2>4. Cardinality(Completed) \in 0..2 BY <1>1, <1>4, OrderBound DEF Completed
  <2>5. r \in Receipts BY <1>1, <2>1, <2>4 DEF Receipts
  <2>6. review' \in [Batches -> Reviews \cup {Missing}]
    <3>1. review[j.batch] \in Reviews /\ review \in [Batches -> Reviews \cup {Missing}]
      BY <1>1 DEF PipelineInv, TypeOK
    <3>2. [review[j.batch] EXCEPT !.receipt = r] \in Reviews BY <2>5, <3>1 DEF Reviews
    <3>3. review' = [review EXCEPT ![j.batch] = [review[j.batch] EXCEPT !.receipt = r]] BY <2>2
    <3> QED BY <3>1, <3>2, <3>3
  <2>7. StateInv' BY <1>2, FitStays
  <2> QED BY <1>2, <2>3, <2>6, <2>7, ReviewChanges DEF PipelineInv, TypeOK
<1> QED BY <1>3, <1>4

-----------------------------------------------------------------------------
(* The publication.                                                        *)

LEMMA VerifyReviewKeeps == ASSUME PipelineInv, VerifyReview PROVE PipelineInv'
<1>0. PICK j \in Works : j = work BY InRun DEF VerifyReview
<1>1. ~j.cli /\ RunAt("verify", j) BY <1>0, InRun DEF VerifyReview
<1>2. UNCHANGED <<humanVars, labelVars, testVars, outVars, raced, stops>>
  BY DEF VerifyReview, Stays
<1>3. WorkInv' /\ work' \in Works
  <2>1. CASE Leave BY <2>1, Leaving
  <2>2. CASE stage' = "select" /\ work' = j
    <3>1. RunAt("select", j)' /\ ReviewAt("select", j)'
      BY <1>1, <1>2, <2>2 DEF labelVars, testVars, outVars, TestFor, TestDone, Fit, RunAt, ReviewAt, Stages, Parted, Tested, Framed, Reviewing, Published,
                Exported, Frozen, Archiving
    <3> QED BY <1>1, <2>2, <3>1, GoingOn
  <2> QED BY <1>0, <2>1, <2>2 DEF VerifyReview, Go
<1> QED BY <1>2, <1>3, OnlyControl DEF PipelineInv, TypeOK

LEMMA SelectKeeps == ASSUME PipelineInv, Select PROVE PipelineInv'
<1> USE DEF humanVars, labelVars, testVars, outVars
<1>0. PICK j \in Works : j = work BY InRun DEF Select
<1>1. ~j.cli /\ RunAt("select", j) BY <1>0, InRun DEF Select
<1>2. /\ UNCHANGED <<humanVars, labelVars, testVars, outVars, stops>>
      /\ raced' = (raced /\ dataset # Missing)
  BY DEF Select
<1>3. \/ Leave
      \/ /\ dataset = Missing /\ stage' = "copy"
         /\ \E b \in Publishable : Holds(b) /\ work' = [j EXCEPT !.batch = b]
      \/ dataset # Missing /\ stage' = "export" /\ work' = j
  BY <1>0 DEF Select, Go, ReceiptsHold, Publishable
<1>4. WorkInv' /\ work' \in Works
  <2>1. CASE Leave BY <2>1, Leaving
  <2>2. CASE dataset # Missing /\ stage' = "export" /\ work' = j
    <3>1. RunAt("export", j)' /\ ReviewAt("export", j)'
      BY <1>1, <1>2, <2>2 DEF TestFor, TestDone, Fit, RunAt, ReviewAt, Stages, Parted, Tested, Framed, Reviewing, Published,
                Exported, Frozen, Archiving
    <3> QED BY <1>1, <2>2, <3>1, GoingOn
  <2>3. ASSUME NEW b \in Publishable, dataset = Missing, stage' = "copy", Holds(b),
               work' = [j EXCEPT !.batch = b]
        PROVE  WorkInv' /\ work' \in Works
    <3>1. b \in Batches /\ review[b] # Missing /\ Receipt(b) # Missing /\ Receipt(b).passed
      BY DEF Publishable, Completed
    <3>2. PICK k \in Works : k = [j EXCEPT !.batch = b] BY <3>1 DEF Works
    <3>3. k.cli = j.cli /\ k.batch = b /\ k.config = j.config BY <3>2 DEF Works
    <3>4. RunAt("copy", k)'
      BY <1>1, <1>2, <3>3 DEF TestFor, TestDone, Fit, RunAt, Stages, Parted, Tested, Framed, Reviewing, Published,
                Exported, Frozen, Archiving
    <3>5. ReviewAt("copy", k)' BY <1>2, <2>3, <3>1, <3>3 DEF ReviewAt, Receipt, Holds
    <3> QED BY <1>1, <2>3, <3>2, <3>3, <3>4, <3>5, GoingOn
  <2> QED BY <1>3, <2>1, <2>2, <2>3
<1>5. TypeOK' BY <1>2, <1>4 DEF PipelineInv, TypeOK
<1>6. TestInv' /\ OutInv' BY <1>2 DEF PipelineInv, TestInv, OutInv
<1>7. StateInv' BY <1>2, FitStays
<1> QED BY <1>4, <1>5, <1>6, <1>7 DEF PipelineInv

LEMMA PublishKeeps == ASSUME PipelineInv, Publish PROVE PipelineInv'
<1> USE DEF humanVars, labelVars, testVars
<1>0. PICK j \in Works : j = work BY InRun DEF Publish
<1>1. ~j.cli /\ RunAt("copy", j) /\ ReviewAt("copy", j) BY <1>0, InRun DEF Publish
<1>2. /\ UNCHANGED <<humanVars, labelVars, testVars, export, zip, state, stops, raced>>
      /\ stage' = "export" /\ work' = j
      /\ dataset' = [batch |-> j.batch, receipt |-> Receipt(j.batch), labels |-> review[j.batch].labels]
  BY <1>0 DEF Publish, Stays, Go
<1>3. j.batch \in Batches BY DEF Works
<1>4. /\ dataset = Missing /\ review[j.batch] \in Reviews /\ Receipt(j.batch) \in Receipts
      /\ review[j.batch].labels \in Labels /\ Receipt(j.batch).passed /\ (raced \/ Holds(j.batch))
  BY <1>1, <1>3 DEF ReviewAt, Receipt, PipelineInv, TypeOK, Reviews
<1>5. PICK d \in Datasets :
        d = [batch |-> j.batch, receipt |-> Receipt(j.batch), labels |-> review[j.batch].labels]
  BY <1>3, <1>4 DEF Datasets
<1>6. d # Missing /\ d.receipt = Receipt(j.batch) /\ d.labels = review[j.batch].labels
  BY <1>5, LabelingAssumption
<1>7. dataset' = d BY <1>2, <1>5
<1>8. RunAt("export", j)' /\ ReviewAt("export", j)'
  BY <1>1, <1>2, <1>6, <1>7 DEF TestFor, TestDone, Fit, RunAt, ReviewAt, Stages, Parted, Tested, Framed, Reviewing, Published,
                Exported, Frozen, Archiving
<1>9. WorkInv' /\ work' \in Works BY <1>1, <1>2, <1>8, GoingOn
<1>10. TypeOK' BY <1>2, <1>7, <1>9 DEF PipelineInv, TypeOK
<1>11. TestInv' BY <1>2 DEF PipelineInv, TestInv
<1>12. OutInv'
  <2>1. export = Missing /\ zip = Missing BY <1>4 DEF PipelineInv, OutInv
  <2>2. d.receipt.passed /\ (raced \/ d.labels = d.receipt.labels) BY <1>4, <1>6 DEF Holds
  <2> QED BY <1>2, <1>7, <2>1, <2>2 DEF OutInv
<1>13. StateInv' BY <1>2, FitStays
<1> QED BY <1>9, <1>10, <1>11, <1>12, <1>13 DEF PipelineInv

LEMMA ExportKeeps == ASSUME PipelineInv, Export PROVE PipelineInv'
<1> USE DEF humanVars, labelVars, testVars
<1>0. PICK j \in Works : j = work BY InRun DEF Export
<1>1. ~j.cli /\ RunAt("export", j) BY <1>0, InRun DEF Export
<1>2. /\ UNCHANGED <<humanVars, labelVars, testVars, dataset, zip, state, stops, raced>>
      /\ Leave \/ (stage' = "freeze" /\ work' = j)
  BY <1>0 DEF Export, Stays, Go
<1>3. /\ dataset \in Datasets /\ dataset # Missing /\ Fit(j.config)
      /\ j.config \in Configs /\ j.config.model \in Models /\ j.config.loose \in Loose
  BY <1>1 DEF RunAt, Published, Reviewing, Configs, PipelineInv, TypeOK
<1>4. PICK e \in Exports : /\ export' = e /\ e.of = dataset
                           /\ prelabel = [at |-> "receipt", model |-> e.cover]
                           /\ export # Missing => e = export
  <2>1. CASE export # Missing
    <3>1. export \in Exports /\ export' = export BY <2>1 DEF Export, PipelineInv, TypeOK
    <3> QED BY <2>1, <3>1 DEF PipelineInv, OutInv
  <2>2. CASE export = Missing
    <3>1. PICK e \in Exports : e = [of |-> dataset, cover |-> j.config.model, loose |-> j.config.loose]
      BY <1>3 DEF Exports
    <3>2. export' = e BY <1>0, <2>2, <3>1 DEF Export
    <3>3. e.of = dataset /\ e.cover = j.config.model BY <3>1
    <3> QED BY <1>3, <2>2, <3>2, <3>3 DEF Fit
  <2> QED BY <2>1, <2>2
<1>5. e # Missing BY LabelingAssumption
<1>6. WorkInv' /\ work' \in Works
  <2>1. CASE Leave BY <2>1, Leaving
  <2>2. CASE stage' = "freeze" /\ work' = j
    <3>1. RunAt("freeze", j)' /\ ReviewAt("freeze", j)'
      BY <1>1, <1>2, <1>4, <1>5, <2>2 DEF TestFor, TestDone, Fit, RunAt, ReviewAt, Stages, Parted, Tested, Framed,
                Reviewing, Published, Exported, Frozen, Archiving
    <3> QED BY <1>1, <2>2, <3>1, GoingOn
  <2> QED BY <1>2, <2>1, <2>2
<1>7. TypeOK' BY <1>2, <1>4, <1>6 DEF PipelineInv, TypeOK
<1>8. TestInv' BY <1>2 DEF PipelineInv, TestInv
<1>9. OutInv' BY <1>2, <1>3, <1>4, <1>5 DEF PipelineInv, OutInv
<1>10. StateInv' BY <1>2, FitStays
<1> QED BY <1>6, <1>7, <1>8, <1>9, <1>10 DEF PipelineInv

-----------------------------------------------------------------------------
(* The archive.                                                            *)

LEMMA FreezeTestKeeps == ASSUME PipelineInv, FreezeTest PROVE PipelineInv'
<1>0. PICK j \in Works : j = work BY InRun DEF FreezeTest
<1>1. ~j.cli /\ RunAt("freeze", j) BY <1>0, InRun DEF FreezeTest
<1>2. UNCHANGED <<humanVars, labelVars, testVars, outVars, raced, stops>>
  BY DEF FreezeTest, Stays
<1>3. WorkInv' /\ work' \in Works
  <2>1. CASE Leave BY <2>1, Leaving
  <2>4. CASE ~Testing /\ stage' = "zip" /\ work' = j
    <3>1. RunAt("zip", j)' /\ ReviewAt("zip", j)'
      BY <1>0, <1>1, <1>2, <2>4 DEF Testing, labelVars, testVars, outVars, TestFor, TestDone, Fit, RunAt, ReviewAt,
                Stages, Parted, Tested, Framed, Reviewing, Published, Exported, Frozen, Archiving
    <3> QED BY <1>1, <2>4, <3>1, GoingOn
  <2>2. CASE Testing /\ test.frozen # Missing /\ stage' = "frozen" /\ work' = j
    <3>1. RunAt("frozen", j)' /\ ReviewAt("frozen", j)'
      BY <1>0, <1>1, <1>2, <2>2 DEF Testing, labelVars, testVars, outVars, TestFor, TestDone, Fit, RunAt, ReviewAt, Stages, Parted, Tested, Framed, Reviewing, Published,
                Exported, Frozen, Archiving
    <3> QED BY <1>1, <2>2, <3>1, GoingOn
  <2>3. CASE /\ Testing /\ test.frozen = Missing /\ Isolated /\ stage' = "freeze_receipt"
             /\ work' = [j EXCEPT !.labels = test.labels]
    <3>1. test \in Tests /\ test.made # Missing
      BY <1>0, <1>1, <2>3 DEF Testing, TestFor, RunAt, Exported, Published, Reviewing, Framed, Tested, TestDone, PipelineInv, TypeOK
    <3>2. test.labels \in Labels
      <4>1. test # Missing BY <3>1, LabelingAssumption
      <4> QED BY <3>1, <4>1 DEF PipelineInv, TestInv, Tests
    <3>3. PICK k \in Works : k = [j EXCEPT !.labels = test.labels] BY <3>2 DEF Works
    <3>4. k.cli = j.cli /\ k.batch = j.batch /\ k.config = j.config /\ k.labels \in Labels
      BY <3>2, <3>3 DEF Works
    <3>5. RunAt("freeze_receipt", k)'
      BY <1>0, <1>1, <1>2, <2>3, <3>4 DEF Testing, Isolated, labelVars, testVars, outVars, TestFor, TestDone, Fit, RunAt, Stages, Parted, Tested, Framed, Reviewing, Published,
                Exported, Frozen, Archiving
    <3>6. ReviewAt("freeze_receipt", k)' BY DEF ReviewAt
    <3> QED BY <1>1, <2>3, <3>3, <3>4, <3>5, <3>6, GoingOn
  <2> QED BY <1>0, <2>1, <2>2, <2>3, <2>4 DEF FreezeTest, Go
<1> QED BY <1>2, <1>3, OnlyControl DEF PipelineInv, TypeOK

LEMMA MarkFrozenKeeps == ASSUME PipelineInv, MarkFrozen PROVE PipelineInv'
<1>0. PICK j \in Works : j = work BY InRun DEF MarkFrozen
<1>1. ~j.cli /\ RunAt(stage, j) /\ stage \in {"freeze_receipt", "freeze_status"}
  BY <1>0, InRun DEF MarkFrozen
<1>2. UNCHANGED <<humanVars, labelVars, outVars, raced, stops>> /\ work' = j
  BY <1>0 DEF MarkFrozen, Stays
<1>3. /\ test \in Tests /\ test # Missing /\ partition # Missing /\ TestDone
      /\ test.made # Missing => test.labels # Missing
  <2>1. TestDone /\ partition # Missing
    BY <1>1 DEF TestFor, RunAt, Parted, Tested, Framed, Reviewing, Published, Exported, Frozen
  <2> QED BY <2>1 DEF TestDone, PipelineInv, TypeOK, TestInv
<1>4. CASE stage = "freeze_receipt"
  <2>1. partition \notin Leaking /\ j.labels \in Labels BY <1>1, <1>4 DEF RunAt
  <2>2. PICK t \in Tests : t = [test EXCEPT !.frozen = j.labels] BY <1>3, <2>1 DEF Tests
  <2>3. /\ t.frozen # Missing /\ t.made = test.made /\ t.labels = test.labels /\ t # Missing
        /\ t.target = test.target
    BY <1>3, <2>1, <2>2, LabelingAssumption DEF Tests
  <2>4. test' = t /\ stage' = "freeze_status" BY <1>0, <1>4, <2>2 DEF MarkFrozen, Go
  <2>5. RunAt("freeze_status", j)' /\ ReviewAt("freeze_status", j)'
    BY <1>1, <1>2, <1>4, <2>3, <2>4 DEF labelVars, outVars, TestFor, TestDone, Fit, RunAt, ReviewAt, Stages, Parted, Tested, Framed, Reviewing, Published,
                Exported, Frozen, Archiving
  <2>6. WorkInv' /\ work' \in Works BY <1>1, <1>2, <2>4, <2>5, GoingOn
  <2> QED BY <1>2, <1>3, <2>1, <2>3, <2>4, <2>6, TestChanges DEF humanVars, PipelineInv, TypeOK
<1>5. CASE stage = "freeze_status"
  <2>1. test.frozen # Missing BY <1>1, <1>5 DEF RunAt, Frozen
  <2>2. PICK t \in Tests : t = [test EXCEPT !.status = "frozen"] BY <1>3 DEF Tests
  <2>3. /\ t.frozen = test.frozen /\ t.made = test.made /\ t.labels = test.labels /\ t # Missing
        /\ t.target = test.target
    BY <1>3, <2>2, LabelingAssumption DEF Tests
  <2>4. test' = t /\ stage' = "frozen" BY <1>0, <1>5, <2>2 DEF MarkFrozen, Go
  <2>5. RunAt("frozen", j)' /\ ReviewAt("frozen", j)'
    BY <1>1, <1>2, <1>5, <2>1, <2>3, <2>4 DEF labelVars, outVars, TestFor, TestDone, Fit, RunAt, ReviewAt, Stages, Parted, Tested, Framed, Reviewing, Published,
                Exported, Frozen, Archiving
  <2>6. WorkInv' /\ work' \in Works BY <1>1, <1>2, <2>4, <2>5, GoingOn
  <2>7. partition \notin Leaking BY <1>3, <2>1 DEF PipelineInv, TestInv
  <2> QED BY <1>2, <1>3, <2>3, <2>4, <2>6, <2>7, TestChanges DEF humanVars, PipelineInv, TypeOK
<1> QED BY <1>1, <1>4, <1>5

LEMMA CheckFrozenKeeps == ASSUME PipelineInv, CheckFrozen PROVE PipelineInv'
<1>0. PICK j \in Works : j = work BY InRun DEF CheckFrozen
<1>1. ~j.cli /\ RunAt("frozen", j) BY <1>0, InRun DEF CheckFrozen
<1>2. UNCHANGED <<humanVars, labelVars, testVars, outVars, raced, stops>>
  BY DEF CheckFrozen, Stays
<1>3. WorkInv' /\ work' \in Works
  <2>1. CASE Leave BY <2>1, Leaving
  <2>2. CASE stage' = "zip" /\ work' = j
    <3>1. RunAt("zip", j)' /\ ReviewAt("zip", j)'
      BY <1>1, <1>2, <2>2 DEF labelVars, testVars, outVars, TestFor, TestDone, Fit, RunAt, ReviewAt, Stages, Parted, Tested, Framed, Reviewing, Published,
                Exported, Frozen, Archiving
    <3> QED BY <1>1, <2>2, <3>1, GoingOn
  <2> QED BY <1>0, <2>1, <2>2 DEF CheckFrozen, Go
<1> QED BY <1>2, <1>3, OnlyControl DEF PipelineInv, TypeOK

LEMMA ArchiveKeeps == ASSUME PipelineInv, Archive PROVE PipelineInv'
<1> USE DEF humanVars, labelVars, testVars
<1>0. PICK j \in Works : j = work BY InRun DEF Archive
<1>1. ~j.cli /\ RunAt(stage, j) /\ stage \in {"zip", "zip_receipt"} BY <1>0, InRun DEF Archive
<1>2. UNCHANGED <<humanVars, labelVars, testVars, dataset, export, state, raced, stops>>
  BY DEF Archive, Stays
<1>3. /\ export # Missing /\ export \in Exports
      /\ j.config.target # Missing => test # Missing /\ test.frozen # Missing
  BY <1>1 DEF RunAt, Tested, Framed, Reviewing, Published, Exported, Frozen, Archiving, TestFor, TestDone,
              PipelineInv, TypeOK
<1>4. CASE Leave /\ UNCHANGED zip
  BY <1>2, <1>4, Leaving, OnlyControl DEF outVars, PipelineInv, TypeOK
<1>5. ASSUME NEW p, NEW z \in Zips, z.of = export, zip' = z,
             z.tested => test # Missing /\ test.frozen # Missing,
             p \in {"zip_receipt", "ready"}, stage' = p, work' = j
      PROVE  PipelineInv'
  <2>1. z # Missing BY LabelingAssumption
  <2>2. RunAt(p, j)' /\ ReviewAt(p, j)'
    BY <1>1, <1>2, <1>5, <2>1 DEF TestFor, TestDone, Fit, RunAt, ReviewAt, Stages, Parted, Tested, Framed, Reviewing, Published,
                Exported, Frozen, Archiving
  <2>3. WorkInv' /\ work' \in Works BY <1>1, <1>5, <2>2, GoingOn
  <2>4. TypeOK' BY <1>2, <1>5, <2>3 DEF PipelineInv, TypeOK
  <2>5. TestInv' BY <1>2 DEF PipelineInv, TestInv
  <2>6. OutInv' BY <1>2, <1>3, <1>5 DEF PipelineInv, OutInv
  <2>7. StateInv' BY <1>2, <1>5, <2>1, FitStays
  <2> QED BY <2>3, <2>4, <2>5, <2>6, <2>7 DEF PipelineInv
<1>6. CASE /\ zip' = [of |-> export, receipt |-> FALSE, tested |-> Testing]
           /\ stage' = "zip_receipt" /\ work' = j
  <2>1. PICK z \in Zips : z = [of |-> export, receipt |-> FALSE, tested |-> Testing]
    <3>1. Testing \in BOOLEAN BY DEF Testing
    <3> QED BY <1>3, <3>1 DEF Zips
  <2>2. z.of = export /\ (z.tested => j.config.target # Missing) BY <1>0, <2>1 DEF Testing
  <2> QED BY <1>3, <1>5, <1>6, <2>1, <2>2
<1>7. CASE zip # Missing /\ UNCHANGED zip /\ stage' = "ready" /\ work' = j
  <2>1. zip \in Zips /\ zip.of = export /\ (zip.tested => test # Missing /\ test.frozen # Missing)
    BY <1>7 DEF PipelineInv, TypeOK, OutInv
  <2> QED BY <1>5, <1>7, <2>1
<1>8. CASE stage = "zip_receipt" /\ zip' = [zip EXCEPT !.receipt = TRUE] /\ stage' = "ready" /\ work' = j
  <2>1. zip # Missing BY <1>1, <1>8 DEF RunAt
  <2>2. zip \in Zips /\ zip.of = export /\ (zip.tested => test # Missing /\ test.frozen # Missing)
    BY <2>1 DEF PipelineInv, TypeOK, OutInv
  <2>3. PICK z \in Zips : z = [zip EXCEPT !.receipt = TRUE] BY <2>2 DEF Zips
  <2>4. z.of = zip.of /\ z.tested = zip.tested BY <2>2, <2>3 DEF Zips
  <2> QED BY <1>5, <1>8, <2>2, <2>3, <2>4
<1> QED BY <1>0, <1>4, <1>6, <1>7, <1>8 DEF Archive, Go

LEMMA ReadyKeeps == ASSUME PipelineInv, Ready PROVE PipelineInv'
<1>0. PICK j \in Works : j = work BY InRun DEF Ready
<1>1. RunAt("ready", j) BY <1>0, InRun DEF Ready
<1>2. j.config \in Configs /\ TestFor(j.config) /\ Finished(j.config)
  BY <1>1 DEF Finished, RunAt, Tested, Framed, Reviewing, Published, Exported, Frozen, Archiving
<1>3. PICK s \in States : s = [status |-> "ready", config |-> j.config] BY <1>2 DEF States
<1>4. s.config = j.config /\ state' = s BY <1>0, <1>3 DEF Ready
<1> QED BY <1>2, <1>4, StateChanges DEF Ready, Stays

-----------------------------------------------------------------------------
(* The commands beside the pipeline, and the people.                       *)

LEMMA StartKeeps == ASSUME PipelineInv, NEW finish \in BOOLEAN, Start(finish) PROVE PipelineInv'
<1>1. config \in Configs BY DEF PipelineInv, TypeOK
<1>2. PICK k \in Works : k = [NoWork EXCEPT !.finish = finish, !.config = config]
  BY <1>1 DEF NoWork, Works, Batches
<1>3. ~k.cli /\ k.batch = "main" /\ k.config \in Configs BY <1>1, <1>2 DEF NoWork
<1>4. stage' = "inputs" /\ work' = k BY <1>2 DEF Start, Go
<1>5. RunAt("inputs", k)' /\ ReviewAt("inputs", k)'
  BY <1>3 DEF RunAt, ReviewAt, Stages, Parted, Tested, Framed, Reviewing, Published,
                Exported, Frozen, Archiving
<1>6. WorkInv' /\ work' \in Works BY <1>3, <1>4, <1>5, GoingOn
<1> QED BY <1>6, OnlyControl DEF Start, PipelineInv, TypeOK

LEMMA PrepareSampledKeeps == ASSUME PipelineInv, PrepareSampled PROVE PipelineInv'
<1> USE DEF humanVars, testVars, outVars
<1>0. PICK j \in Works : j = work BY InRun DEF PrepareSampled
<1>1. ~j.cli /\ RunAt("idle", j) BY <1>0, InRun DEF PrepareSampled
<1>2. /\ review' = Prepared("sampled") /\ stage' = "idle" /\ work' = j
      /\ UNCHANGED <<humanVars, partition, frames, prelabel, testVars, outVars, stops, raced>>
  BY <1>0 DEF PrepareSampled
<1>3. review' \in [Batches -> Reviews \cup {Missing}] BY <1>2, PreparedReview DEF Batches
<1>4. RunAt("idle", j)' /\ ReviewAt("idle", j)'
  BY <1>1 DEF RunAt, ReviewAt, Stages, Parted, Tested, Framed, Reviewing, Published,
                Exported, Frozen, Archiving
<1>5. WorkInv' /\ work' \in Works BY <1>1, <1>2, <1>4, GoingOn
<1>6. StateInv' BY <1>2, FitStays
<1> QED BY <1>2, <1>3, <1>5, <1>6, ReviewChanges DEF PipelineInv, TypeOK

LEMMA StartCompleteKeeps ==
  ASSUME PipelineInv, NEW b \in Batches, StartComplete(b)
  PROVE  PipelineInv'
<1>1. PICK k \in Works : k = [NoWork EXCEPT !.batch = b, !.cli = TRUE] BY DEF NoWork, Works, Batches
<1>2. k.cli /\ k.batch = b BY <1>1 DEF NoWork
<1>3. stage' = "hash" /\ work' = k /\ review[b] # Missing /\ UNCHANGED review
  BY <1>1 DEF StartComplete, Go, labelVars
<1>4. ReviewAt("hash", k)' BY <1>2, <1>3 DEF ReviewAt
<1>5. WorkInv' /\ work' \in Works BY <1>2, <1>3, <1>4 DEF WorkInv
<1> QED BY <1>5, OnlyControl DEF StartComplete, PipelineInv, TypeOK

\* What people change is counted.
LEMMA EditCounts == ASSUME PipelineInv, Edit PROVE edits' \in 0..MaxEdits
BY LabelingAssumption DEF Edit, PipelineInv, TypeOK

\* A run relies on what is in the workspace, not on what else changes beside it.
LEMMA RunStays ==
  ASSUME NEW p, NEW j, UNCHANGED <<partition, frames, prelabel, test, dataset, export, zip>>, RunAt(p, j)
  PROVE  RunAt(p, j)'
<1>1. TestFor(j.config) => TestFor(j.config)' BY DEF TestFor, TestDone
<1>2. Fit(j.config) => Fit(j.config)' BY DEF Fit
<1> QED BY <1>1, <1>2 DEF RunAt

\* The inputs of the next run.
LEMMA InputsChange ==
  ASSUME PipelineInv, UNCHANGED <<labelVars, testVars, outVars, stage, work, stops, raced>>,
         assignments' \in Plans \cup {Missing}, config' \in Configs, edits' \in 0..MaxEdits,
         loosened' \in BOOLEAN
  PROVE  PipelineInv'
<1> USE DEF labelVars, testVars, outVars
<1>0. PICK j \in Works : j = work BY DEF PipelineInv, TypeOK
<1>1. TypeOK' BY DEF PipelineInv, TypeOK
<1>2. RunAt(stage, j) => RunAt(stage, j)'
  BY RunStays
<1>3. ReviewAt(stage, j)' BY <1>0 DEF PipelineInv, WorkInv, ReviewAt, Receipt, Holds
<1>4. WorkInv' BY <1>0, <1>2, <1>3 DEF PipelineInv, WorkInv
<1>5. TestInv' /\ OutInv' BY DEF PipelineInv, TestInv, OutInv
<1>6. StateInv' BY FitStays
<1> QED BY <1>1, <1>4, <1>5, <1>6 DEF PipelineInv

LEMMA EditLabelsKeeps ==
  ASSUME PipelineInv, NEW b \in Batches, NEW labels \in HumanLabels, EditLabels(b, labels)
  PROVE  PipelineInv'
<1> USE DEF testVars, outVars
<1>0. PICK j \in Works : j = work BY DEF PipelineInv, TypeOK
<1>1. /\ review' = [review EXCEPT ![b].labels = labels] /\ raced' = (raced \/ stage = "copy")
      /\ UNCHANGED <<assignments, config, loosened, partition, frames, prelabel, testVars, outVars, stage, work,
                     stops>>
      /\ review[b] # Missing /\ Edit
  BY DEF EditLabels
<1>2. review \in [Batches -> Reviews \cup {Missing}] /\ review[b] \in Reviews
  BY <1>1 DEF PipelineInv, TypeOK
<1>3. PICK x \in Reviews : x = [review[b] EXCEPT !.labels = labels] BY <1>2 DEF Reviews, Labels
<1>4. x # Missing /\ x.receipt = review[b].receipt BY <1>2, <1>3, LabelingAssumption DEF Reviews
<1>5. review' = [review EXCEPT ![b] = x] BY <1>1, <1>3
<1>6. review' \in [Batches -> Reviews \cup {Missing}] BY <1>2, <1>5
<1>7. \A c \in Batches : review[c] # Missing =>
        review'[c] # Missing /\ review'[c].receipt = review[c].receipt
  BY <1>2, <1>4, <1>5
<1>8. j.batch \in Batches BY DEF Works
<1>9. RunAt(stage, j) => RunAt(stage, j)'
  BY <1>1 DEF TestFor, TestDone, Fit, RunAt
<1>10. ReviewAt(stage, j) BY <1>0 DEF PipelineInv, WorkInv
<1>11. ReviewAt(stage, j)'
  BY <1>1, <1>7, <1>8, <1>10 DEF ReviewAt, Receipt
<1>12. WorkInv' /\ work' \in Works BY <1>0, <1>1, <1>9, <1>11 DEF PipelineInv, WorkInv
<1>13. StateInv' BY <1>1, FitStays
<1>14. edits' \in 0..MaxEdits BY <1>1, EditCounts
<1>15. raced' \in BOOLEAN /\ (raced => raced') BY <1>1 DEF PipelineInv, TypeOK
<1> QED BY <1>1, <1>6, <1>12, <1>13, <1>14, <1>15, ReviewChanges DEF PipelineInv, TypeOK

LEMMA EditTestKeeps ==
  ASSUME PipelineInv, NEW labels \in HumanLabels, EditTest(labels)
  PROVE  PipelineInv'
<1>0. PICK j \in Works : j = work BY DEF PipelineInv, TypeOK
<1>1. /\ test # Missing /\ Edit
      /\ UNCHANGED <<assignments, config, loosened, labelVars, outVars, stage, work, stops, raced>>
  BY DEF EditTest
<1>2. test \in Tests /\ TestInv BY <1>1 DEF PipelineInv, TypeOK
<1>3. PICK t \in Tests : t = [test EXCEPT !.labels = labels] BY <1>2 DEF Tests, Labels
<1>4. /\ t.labels = labels /\ labels # Missing /\ t.made = test.made /\ t.frozen = test.frozen
      /\ t # Missing /\ t.target = test.target
  BY <1>2, <1>3, LabelingAssumption DEF Tests, Labels
<1>5. test' = t BY <1>3 DEF EditTest
<1>6. RunAt(stage, j) => RunAt(stage, j)'
  BY <1>1, <1>4, <1>5 DEF labelVars, outVars, TestFor, TestDone, Fit, RunAt
<1>7. ReviewAt(stage, j)'
  BY <1>0, <1>1 DEF labelVars, outVars, PipelineInv, WorkInv, ReviewAt, Receipt, Holds
<1>8. WorkInv' /\ work' \in Works BY <1>0, <1>1, <1>6, <1>7 DEF PipelineInv, WorkInv
<1>9. edits' \in 0..MaxEdits BY <1>1, EditCounts
<1> QED BY <1>1, <1>2, <1>4, <1>5, <1>8, <1>9, TestChanges DEF TestInv

LEMMA PeopleKeep == ASSUME PipelineInv, People PROVE PipelineInv'
<1>1. ASSUME NEW plan \in Plans \cup {Missing}, Assign(plan) PROVE PipelineInv'
  <2>1. edits' \in 0..MaxEdits BY <1>1, EditCounts DEF Assign, PipelineInv, TypeOK
  <2> QED BY <1>1, <2>1, InputsChange DEF Assign, PipelineInv, TypeOK
<1>2. ASSUME Configure PROVE PipelineInv'
  <2>1. edits' \in 0..MaxEdits BY <1>2, EditCounts DEF Configure
  <2>2. config' \in Configs /\ loosened' \in BOOLEAN
    BY <1>2 DEF Configure, Configs, PipelineInv, TypeOK
  <2> QED BY <1>2, <2>1, <2>2, InputsChange DEF Configure, PipelineInv, TypeOK
<1> QED BY <1>1, <1>2, EditLabelsKeeps, EditTestKeeps DEF People

-----------------------------------------------------------------------------
(* The specification.                                                      *)

LEMMA InitPipeline == LabelingInit => PipelineInv
<1> SUFFICES ASSUME LabelingInit PROVE PipelineInv OBVIOUS
<1>1. TypeOK
  <2>1. 0 \in 0..MaxEdits /\ 0 \in 0..MaxStops BY LabelingAssumption
  <2>2. NoWork \in Works BY DEF NoWork, Works, Batches
  <2>3. review \in [Batches -> Reviews \cup {Missing}] BY DEF LabelingInit
  <2>4. prelabel \in [at : {"none", "labels", "predictions", "receipt"}, model : Models \cup {Missing}]
    BY DEF LabelingInit
  <2> QED BY <2>1, <2>2, <2>3, <2>4 DEF LabelingInit, TypeOK
<1>2. WorkInv
  BY DEF LabelingInit, NoWork, WorkInv, RunAt, ReviewAt, Stages, Parted, Tested, Framed, Reviewing,
         Published, Exported, Frozen, Archiving
<1>3. TestInv /\ OutInv /\ StateInv BY DEF LabelingInit, TestInv, OutInv, StateInv
<1> QED BY <1>1, <1>2, <1>3 DEF PipelineInv

LEMMA AdvanceKeeps == ASSUME PipelineInv, Advance PROVE PipelineInv'
BY CheckInputsKeeps, PartitionKeeps, CheckPartitionKeeps, SampleTestKeeps, LabelTestKeeps,
   ReceiveTestLabelsKeeps, CleanFramesKeeps, PrelabelKeeps, PrepareReviewKeeps, HashLabelsKeeps,
   ReceiveReviewKeeps, VerifyReviewKeeps, SelectKeeps, PublishKeeps, ExportKeeps, FreezeTestKeeps,
   MarkFrozenKeeps, CheckFrozenKeeps, ArchiveKeeps, ReadyKeeps
DEF Advance

LEMMA NextPipeline == PipelineInv /\ [LabelingNext]_pipelineVars => PipelineInv'
<1> SUFFICES ASSUME PipelineInv, [LabelingNext]_pipelineVars PROVE PipelineInv' OBVIOUS
<1>1. CASE Advance BY <1>1, AdvanceKeeps
<1>2. CASE Stop BY <1>2, StopKeeps
<1>3. CASE Commands BY <1>3, StartKeeps, PrepareSampledKeeps, StartCompleteKeeps DEF Commands
<1>4. CASE People BY <1>4, PeopleKeep
<1>5. CASE UNCHANGED pipelineVars
  <2>1. /\ UNCHANGED <<labelVars, testVars, outVars, stage, work, stops, raced>>
        /\ UNCHANGED <<assignments, config, edits, loosened>>
    BY <1>5 DEF pipelineVars, humanVars
  <2> QED BY <2>1, InputsChange DEF PipelineInv, TypeOK
<1> QED BY <1>1, <1>2, <1>3, <1>4, <1>5 DEF LabelingNext

\* Every variable of the labelling pipeline stays within its type, and what the runs rely
\* on behind each stage holds there, whoever wrote it.
THEOREM LabelingInvariance == LabelingSpec => []PipelineInv
<1> QED BY InitPipeline, NextPipeline, PTL DEF LabelingSpec

\* An archive, whole or not, holds a dataset whose review passed its gate, and one made by a
\* run with a test has that test frozen beside it and apart from the training frames.
THEOREM ArchiveIsCheckedAlways == LabelingSpec => []ArchiveIsChecked
<1>1. PipelineInv => ArchiveIsChecked
  BY DEF PipelineInv, TestInv, OutInv, ArchiveIsChecked
<1> QED BY <1>1, LabelingInvariance, PTL

\* A dataset holds the labels of its receipt, or they were edited between their check
\* and their copy.
THEOREM PublishedAsReviewedAlways == LabelingSpec => []PublishedAsReviewed
<1>1. PipelineInv => PublishedAsReviewed
  BY DEF PipelineInv, OutInv, PublishedAsReviewed
<1> QED BY <1>1, LabelingInvariance, PTL

\* While nobody has changed a setting that is not always compared, all stages and the run
\* have it in common.
LooseInv ==
  ~loosened =>
    /\ frames # Missing => frames.loose = config.loose
    /\ test # Missing => test.loose = config.loose
    /\ export # Missing => export.loose = config.loose
    /\ stage # "idle" /\ ~work.cli => work.config.loose = config.loose
    /\ state # Missing => state.config.loose = config.loose

\* The setting and the record that it was changed.
LEMMA LooseKept ==
  ASSUME PipelineInv, LabelingNext, ~loosened'
  PROVE  ~loosened /\ config'.loose = config.loose
<1>1. config \in Configs BY DEF PipelineInv, TypeOK
<1>2. CASE UNCHANGED <<config, loosened>> BY <1>2
<1>3. CASE Configure
  <2>1. UNCHANGED loosened BY <1>3 DEF Configure
  <2>2. \/ \E e \in Exclusions : config' = [config EXCEPT !.excluded = e]
        \/ \E e \in Models : config' = [config EXCEPT !.model = e]
        \/ \E e \in Targets \cup {Missing} : config' = [config EXCEPT !.target = e]
    BY <1>3 DEF Configure
  <2> QED BY <1>1, <2>1, <2>2 DEF Configs
<1>4. CASE Advance
  BY <1>2, <1>4 DEF Advance, CheckInputs, Partition, CheckPartition, SampleTest, LabelTest,
     ReceiveTestLabels, CleanFrames, Prelabel, PrepareReview, HashLabels, ReceiveReview, VerifyReview,
     Select, Publish, Export, FreezeTest, MarkFrozen, CheckFrozen, Archive, Ready, Stays, humanVars
<1> QED
  BY <1>2, <1>3, <1>4 DEF LabelingNext, Stop, Commands, Start, PrepareSampled, StartComplete, People,
     Assign, EditLabels, EditTest, humanVars

\* A run keeps its configuration until it ends.
LEMMA RunKeepsConfig ==
  ASSUME PipelineInv, Advance, stage' # "idle"
  PROVE  stage # "idle" /\ work'.cli = work.cli /\ work'.config = work.config
<1>1. work \in Works BY DEF PipelineInv, TypeOK
<1>2. stage # "idle" /\ ~Leave
  BY DEF Advance, CheckInputs, Partition, CheckPartition, SampleTest, LabelTest,
     ReceiveTestLabels, CleanFrames, Prelabel, PrepareReview, HashLabels, ReceiveReview, VerifyReview,
     Select, Publish, Export, FreezeTest, MarkFrozen, CheckFrozen, Archive, Ready, Leave
<1>3. \/ work' = work
      \/ \E l \in {review[work.batch].labels, test.labels} : work' = [work EXCEPT !.labels = l]
      \/ \E b \in Batches : work' = [work EXCEPT !.batch = b]
  <2>1. CASE HashLabels BY <2>1 DEF HashLabels
  <2>2. CASE Select BY <1>2, <2>2 DEF Select, Publishable, Completed
  <2>3. CASE FreezeTest BY <1>2, <2>3 DEF FreezeTest
  <2>4. CASE work' = work BY <2>4
  <2> QED
    BY <1>2, <2>1, <2>2, <2>3, <2>4 DEF Advance, CheckInputs, Partition, CheckPartition, SampleTest,
       LabelTest, ReceiveTestLabels, CleanFrames, Prelabel, PrepareReview, ReceiveReview, Completes,
       VerifyReview, Publish, Export, MarkFrozen, CheckFrozen, Archive, Ready
<1> QED BY <1>1, <1>2, <1>3 DEF Works

LEMMA LooseWork ==
  ASSUME PipelineInv, LooseInv, LabelingNext, ~loosened', stage' # "idle", ~work'.cli
  PROVE  work'.config.loose = config'.loose
<1>1. ~loosened /\ config'.loose = config.loose BY LooseKept
<1>2. CASE Advance BY <1>1, <1>2, RunKeepsConfig DEF LooseInv
<1>3. CASE Stop BY <1>3 DEF Stop, Leave
<1>4. ASSUME NEW finish \in BOOLEAN, Start(finish) PROVE work'.config = config'
  BY <1>4 DEF Start, NoWork, humanVars
<1>5. ASSUME NEW b \in Batches, StartComplete(b) PROVE FALSE
  BY <1>5 DEF StartComplete, NoWork
<1>6. CASE UNCHANGED <<stage, work>> BY <1>1, <1>6 DEF LooseInv
<1> QED
  BY <1>2, <1>3, <1>4, <1>5, <1>6 DEF LabelingNext, Commands, PrepareSampled, People, Assign, Configure,
     EditLabels, EditTest

\* What a run writes has the setting of the run.
LEMMA LooseFiles ==
  ASSUME PipelineInv, LooseInv, LabelingNext, ~loosened'
  PROVE  /\ frames' # Missing => frames'.loose = config'.loose
         /\ test' # Missing => test'.loose = config'.loose
         /\ export' # Missing => export'.loose = config'.loose
         /\ state' # Missing => state'.config.loose = config'.loose
<1>1. ~loosened /\ config'.loose = config.loose BY LooseKept
<1>2. /\ frames # Missing => frames.loose = config'.loose
      /\ test # Missing => test.loose = config'.loose
      /\ export # Missing => export.loose = config'.loose
      /\ state # Missing => state.config.loose = config'.loose
  BY <1>1 DEF LooseInv
<1>3. ASSUME stage \notin {"idle", "hash", "review_receipt"} PROVE work.config.loose = config'.loose
  BY <1>1, <1>3, InRun DEF LooseInv
<1>4. test \in Tests \cup {Missing} BY DEF PipelineInv, TypeOK
<1>5. frames' # Missing => frames'.loose = config'.loose
  <2>1. CASE UNCHANGED frames BY <1>2, <2>1
  <2>2. CASE CleanFrames
    <3>1. work.config.loose = config'.loose BY <1>3, <2>2 DEF CleanFrames
    <3>2. frames' = frames \/ frames'.loose = work.config.loose BY <2>2 DEF CleanFrames
    <3> QED BY <1>2, <3>1, <3>2
  <2> QED
    BY <2>1, <2>2 DEF LabelingNext, Advance, CheckInputs, Partition, CheckPartition, SampleTest, LabelTest,
       ReceiveTestLabels, Prelabel, PrepareReview, HashLabels, ReceiveReview, VerifyReview, Select,
       Publish, Export, FreezeTest, MarkFrozen, CheckFrozen, Archive, Ready, Stop, Commands, Start,
       PrepareSampled, StartComplete, People, Assign, Configure, EditLabels, EditTest, labelVars
<1>6. test' # Missing => test'.loose = config'.loose
  <2>1. CASE UNCHANGED test BY <1>2, <2>1
  <2>2. CASE SampleTest
    <3>1. work.config.loose = config'.loose BY <1>3, <2>2 DEF SampleTest
    <3>2. test' = test \/ test'.loose = work.config.loose BY <2>2 DEF SampleTest, Sampled
    <3> QED BY <1>2, <3>1, <3>2
  <2>3. ASSUME test # Missing,
               \/ \E l \in HumanLabels \cup {Candidates} : test' = [test EXCEPT !.labels = l]
               \/ test' = [test EXCEPT !.made = work.config.model]
               \/ test' = [test EXCEPT !.frozen = work.labels]
               \/ test' = [test EXCEPT !.status = "frozen"]
        PROVE  test'.loose = config'.loose
    BY <1>2, <1>4, <2>3 DEF Tests
  <2>4. stage \in {"test_labels", "test_receipt"} => test # Missing
    BY InRun DEF RunAt
  <2>5. stage \in {"freeze_receipt", "freeze_status"} => test # Missing
    <3>1. ASSUME stage \in {"freeze_receipt", "freeze_status"} PROVE TestDone
      BY <3>1, InRun DEF RunAt, TestFor, Tested, Framed, Reviewing, Published, Exported, Frozen
    <3> QED BY <3>1 DEF TestDone
  <2>6. CASE LabelTest \/ ReceiveTestLabels
    BY <2>1, <2>3, <2>4, <2>6 DEF LabelTest, ReceiveTestLabels
  <2>7. CASE MarkFrozen BY <2>3, <2>5, <2>7 DEF MarkFrozen
  <2>8. ASSUME NEW l \in HumanLabels, EditTest(l) PROVE test'.loose = config'.loose
    BY <2>3, <2>8 DEF EditTest
  <2> QED
    BY <2>1, <2>2, <2>6, <2>7, <2>8 DEF LabelingNext, Advance, CheckInputs, Partition, CheckPartition,
       CleanFrames, Prelabel, PrepareReview, HashLabels, ReceiveReview, VerifyReview, Select,
       Publish, Export, FreezeTest, CheckFrozen, Archive, Ready, Stop, Commands, Start,
       PrepareSampled, StartComplete, People, Assign, Configure, EditLabels, testVars
<1>7. export' # Missing => export'.loose = config'.loose
  <2>1. CASE UNCHANGED export BY <1>2, <2>1
  <2>2. CASE Export
    <3>1. work.config.loose = config'.loose BY <1>3, <2>2 DEF Export
    <3>2. export' = export \/ export'.loose = work.config.loose BY <2>2 DEF Export
    <3> QED BY <1>2, <3>1, <3>2
  <2> QED
    BY <2>1, <2>2 DEF LabelingNext, Advance, CheckInputs, Partition, CheckPartition, SampleTest, LabelTest,
       ReceiveTestLabels, CleanFrames, Prelabel, PrepareReview, HashLabels, ReceiveReview, VerifyReview,
       Select, Publish, FreezeTest, MarkFrozen, CheckFrozen, Archive, Ready, Stop, Commands, Start,
       PrepareSampled, StartComplete, People, Assign, Configure, EditLabels, EditTest, outVars
<1>8. state' # Missing => state'.config.loose = config'.loose
  <2>1. CASE UNCHANGED state BY <1>2, <2>1
  <2>2. CASE CheckInputs \/ PrepareReview \/ Ready
    <3>1. work.config.loose = config'.loose BY <1>3, <2>2 DEF CheckInputs, PrepareReview, Ready
    <3>2. UNCHANGED state \/ state'.config = work.config BY <2>2 DEF CheckInputs, PrepareReview, Ready
    <3> QED BY <1>2, <3>1, <3>2
  <2> QED
    BY <2>1, <2>2 DEF LabelingNext, Advance, Partition, CheckPartition, SampleTest, LabelTest,
       ReceiveTestLabels, CleanFrames, Prelabel, HashLabels, ReceiveReview, VerifyReview, Select,
       Publish, Export, FreezeTest, MarkFrozen, CheckFrozen, Archive, Stop, Commands, Start,
       PrepareSampled, StartComplete, People, Assign, Configure, EditLabels, EditTest, outVars
<1> QED BY <1>5, <1>6, <1>7, <1>8

LEMMA LooseInvariance == LabelingSpec => []LooseInv
<1>1. LabelingInit => LooseInv BY DEF LabelingInit, LooseInv
<1>2. PipelineInv /\ LooseInv /\ [LabelingNext]_pipelineVars => LooseInv'
  <2>1. ASSUME PipelineInv, LooseInv, LabelingNext PROVE LooseInv'
    BY <2>1, LooseFiles, LooseWork DEF LooseInv
  <2>2. ASSUME LooseInv, UNCHANGED pipelineVars PROVE LooseInv'
    BY <2>2 DEF LooseInv, pipelineVars, humanVars, labelVars, testVars, outVars
  <2> QED BY <2>1, <2>2
<1> QED BY <1>1, <1>2, LabelingInvariance, PTL DEF LabelingSpec

\* A workspace reported ready holds the frames, the candidates, the export and the test that
\* the reporting run would have made, as far as its settings are compared; the others are
\* the same unless somebody changed them.
THEOREM ReadyFitsItsRunAlways == LabelingSpec => []ReadyFitsItsRun
<1>1. PipelineInv /\ LooseInv => ReadyFitsItsRun
  <2> SUFFICES ASSUME PipelineInv, LooseInv, state # Missing, state.status = "ready"
               PROVE  ReadyFitsItsRun
    BY DEF ReadyFitsItsRun
  <2> DEFINE c == state.config
  <2>1. Finished(c) /\ TestFor(c) BY DEF PipelineInv, StateInv
  <2>2. /\ export # Missing /\ zip.of = export /\ export.of = dataset
        /\ prelabel = [at |-> "receipt", model |-> export.cover]
    BY <2>1 DEF Finished, PipelineInv, OutInv
  <2>3. frames # Missing /\ frames.excluded = c.excluded /\ prelabel = [at |-> "receipt", model |-> c.model]
    BY <2>1 DEF Finished, Fit
  <2>4. export.cover = c.model BY <2>2, <2>3
  <2>5. c.target # Missing =>
          test # Missing /\ test.target = c.target /\ test.frozen # Missing /\ partition \notin Leaking
    BY <2>1 DEF Finished, TestFor, TestDone, PipelineInv, TestInv
  <2>6. ~loosened =>
          /\ frames.loose = c.loose /\ export.loose = c.loose
          /\ c.target # Missing => test.loose = c.loose
    BY <2>2, <2>3, <2>5 DEF LooseInv
  <2> QED BY <2>2, <2>3, <2>4, <2>5, <2>6 DEF ReadyFitsItsRun
<1> QED BY <1>1, LabelingInvariance, LooseInvariance, PTL

\* After the first report that asks for a review, only people change the labels of the
\* test.
THEOREM ReviewedTestStaysAlways == LabelingSpec => ReviewedTestStays
<1>1. PipelineInv /\ [LabelingNext]_pipelineVars =>
        [state # Missing /\ state.status \in {"review", "ready"} /\ state.config.target # Missing
           /\ test'.labels # test.labels => stage' = stage]_pipelineVars
  <2> SUFFICES ASSUME PipelineInv, LabelingNext, state # Missing, state.status \in {"review", "ready"},
                      state.config.target # Missing, test'.labels # test.labels
               PROVE  stage' = stage
    OBVIOUS
  <2>1. TestDone BY DEF PipelineInv, StateInv, TestFor
  <2>2. test \in Tests BY <2>1 DEF PipelineInv, TypeOK, TestDone
  <2>3. ~SampleTest BY <2>1 DEF SampleTest, TestDone
  <2>4. ~LabelTest BY <2>1 DEF LabelTest, TestDone, TestIsFrozen, TestIsPrelabelled
  <2>5. ~ReceiveTestLabels /\ ~MarkFrozen BY <2>2 DEF ReceiveTestLabels, MarkFrozen, Tests
  <2>6. ~Stop BY DEF Stop, testVars
  <2>7. ~Advance
    BY <2>3, <2>4, <2>5 DEF Advance, CheckInputs, Partition, CheckPartition, CleanFrames, Prelabel,
       PrepareReview, HashLabels, ReceiveReview, VerifyReview, Select, Publish, Export, FreezeTest,
       CheckFrozen, Archive, Ready, testVars
  <2>8. CASE Commands
    BY <2>8 DEF Commands, Start, PrepareSampled, StartComplete, testVars
  <2>9. CASE People
    BY <2>9 DEF People, Assign, Configure, EditLabels, EditTest
  <2> QED BY <2>6, <2>7, <2>8, <2>9 DEF LabelingNext
<1> QED BY <1>1, LabelingInvariance, PTL DEF LabelingSpec, ReviewedTestStays

\* What the stages up to the candidates have finished stays.
LEMMA StagesStay ==
  ASSUME PipelineInv, LabelingNext
  PROVE  /\ partition # Missing => partition' = partition
         /\ frames # Missing => frames' = frames
         /\ prelabel.at = "receipt" => prelabel' = prelabel
<1>1. CASE Advance
  <2>1. CASE Partition BY <2>1 DEF Partition
  <2>2. CASE CleanFrames BY <2>2 DEF CleanFrames
  <2>3. CASE Prelabel
    <3>1. prelabel' = prelabel \/ stage \in {"prelabel", "predictions", "prelabel_receipt"}
      BY <2>3 DEF Prelabel
    <3>2. stage \in {"predictions", "prelabel_receipt"} => prelabel.at # "receipt"
      BY DEF PipelineInv, WorkInv, RunAt
    <3>3. stage = "prelabel" /\ prelabel.at = "receipt" => prelabel' = prelabel
      BY <2>3 DEF Prelabel
    <3> QED BY <2>3, <3>1, <3>2, <3>3 DEF Prelabel
  <2>4. CASE UNCHANGED <<partition, frames, prelabel>> BY <2>4
  <2> QED
    BY <1>1, <2>1, <2>2, <2>3, <2>4 DEF Advance, CheckInputs, CheckPartition, SampleTest, LabelTest,
       ReceiveTestLabels, PrepareReview, HashLabels, ReceiveReview, VerifyReview, Select, Publish,
       Export, FreezeTest, MarkFrozen, CheckFrozen, Archive, Ready, labelVars
<1>2. CASE Stop BY <1>2 DEF Stop, labelVars
<1>3. CASE Commands BY <1>3 DEF Commands, Start, PrepareSampled, StartComplete, labelVars
<1>4. CASE People BY <1>4 DEF People, Assign, Configure, EditLabels, EditTest, labelVars
<1> QED BY <1>1, <1>2, <1>3, <1>4 DEF LabelingNext

\* A receipt of a review outlives its batch being prepared again or edited.
LEMMA PreparedKeepsReceipts ==
  ASSUME PipelineInv, NEW b \in Batches, review' = Prepared(b), NEW c \in Completed
  PROVE  c \in Completed' /\ review'[c].receipt = Receipt(c)
<1>1. c \in Batches /\ review[c] # Missing /\ Receipt(c) # Missing BY DEF Completed
<1>2. DOMAIN review = Batches BY DEF PipelineInv, TypeOK
<1>3. review'[c] = review[c] BY <1>1, <1>2 DEF Prepared
<1> QED BY <1>1, <1>3 DEF Completed, Receipt

LEMMA ReceiptsStay ==
  ASSUME PipelineInv, LabelingNext
  PROVE  \A b \in Completed : b \in Completed' /\ review'[b].receipt = Receipt(b)
<1> SUFFICES ASSUME NEW c \in Completed
             PROVE  c \in Completed' /\ review'[c].receipt = Receipt(c)
  OBVIOUS
<1>1. /\ c \in Batches /\ review[c] # Missing /\ Receipt(c) # Missing
      /\ review \in [Batches -> Reviews \cup {Missing}]
  BY DEF Completed, PipelineInv, TypeOK
<1>2. ASSUME UNCHANGED review PROVE c \in Completed' /\ review'[c].receipt = Receipt(c)
  BY <1>1, <1>2 DEF Completed, Receipt
<1>3. "main" \in Batches /\ "sampled" \in Batches /\ "fallback" \in Batches BY DEF Batches
<1>4. CASE Advance
  <2>1. CASE PrepareReview BY <1>3, <2>1, PreparedKeepsReceipts DEF PrepareReview
  <2>2. CASE HashLabels BY <1>2, <1>3, <2>2, PreparedKeepsReceipts DEF HashLabels
  <2>3. CASE ReceiveReview
    <3>1. CASE UNCHANGED review BY <1>2, <3>1
    <3>2. CASE review' # review
      <4>1. Receipt(work.batch) = Missing /\ work.batch \in Batches
        BY <2>3, <3>2 DEF ReceiveReview, PipelineInv, TypeOK, Works
      <4>2. c # work.batch BY <1>1, <4>1
      <4>3. review'[c] = review[c] BY <1>1, <2>3, <3>2, <4>2 DEF ReceiveReview
      <4> QED BY <1>1, <4>3 DEF Completed, Receipt
    <3> QED BY <3>1, <3>2
  <2>4. CASE UNCHANGED review BY <1>2, <2>4
  <2> QED
    BY <1>4, <2>1, <2>2, <2>3, <2>4 DEF Advance, CheckInputs, Partition, CheckPartition, SampleTest,
       LabelTest, ReceiveTestLabels, CleanFrames, Prelabel, VerifyReview, Select, Publish,
       Export, FreezeTest, MarkFrozen, CheckFrozen, Archive, Ready, labelVars
<1>5. CASE Stop BY <1>2, <1>5 DEF Stop, labelVars
<1>6. CASE Commands
  <2>1. CASE PrepareSampled BY <1>3, <2>1, PreparedKeepsReceipts DEF PrepareSampled
  <2> QED BY <1>2, <1>6, <2>1 DEF Commands, Start, StartComplete, labelVars
<1>7. CASE People
  <2>1. ASSUME NEW b \in Batches, NEW labels \in HumanLabels, EditLabels(b, labels)
        PROVE  c \in Completed' /\ review'[c].receipt = Receipt(c)
    <3>1. review' = [review EXCEPT ![b].labels = labels] /\ review[b] # Missing
      BY <2>1 DEF EditLabels
    <3>2. CASE c = b
      <4>1. PICK r \in Reviews : r = review[b] BY <1>1, <3>1
      <4>2. PICK s \in Reviews : s = [r EXCEPT !.labels = labels] BY DEF Reviews, Labels
      <4>3. s.receipt = r.receipt /\ s # Missing BY <4>2, LabelingAssumption DEF Reviews
      <4>4. review'[c] = s BY <1>1, <3>1, <3>2, <4>1, <4>2
      <4> QED BY <1>1, <3>2, <4>1, <4>3, <4>4 DEF Completed, Receipt
    <3>3. CASE c # b
      <4>1. review'[c] = review[c] BY <1>1, <3>1, <3>3
      <4> QED BY <1>1, <4>1 DEF Completed, Receipt
    <3> QED BY <3>2, <3>3
  <2>2. CASE UNCHANGED review BY <1>2, <2>2
  <2> QED BY <1>7, <2>1, <2>2 DEF People, Assign, Configure, EditTest, labelVars
<1> QED BY <1>4, <1>5, <1>6, <1>7 DEF LabelingNext

LEMMA TestStays ==
  ASSUME PipelineInv, LabelingNext
  PROVE  test # Missing => /\ test.made \in {Missing, test'.made}
                          /\ test.frozen \in {Missing, test'.frozen}
<1> SUFFICES ASSUME test # Missing
             PROVE  test.made \in {Missing, test'.made} /\ test.frozen \in {Missing, test'.frozen}
  OBVIOUS
<1>1. test \in Tests BY DEF PipelineInv, TypeOK
<1>2. CASE UNCHANGED test BY <1>2
<1>3. CASE Advance
  <2>1. CASE SampleTest BY <2>1 DEF SampleTest
  <2>2. CASE LabelTest
    <3>1. test' = test \/ test' = [test EXCEPT !.labels = Candidates] BY <2>2 DEF LabelTest
    <3> QED BY <1>1, <3>1 DEF Tests
  <2>3. CASE ReceiveTestLabels
    <3>1. test.made = Missing BY <2>3, InRun DEF ReceiveTestLabels, RunAt
    <3> QED BY <1>1, <2>3, <3>1 DEF ReceiveTestLabels, Tests
  <2>4. CASE MarkFrozen
    <3>1. stage = "freeze_receipt" => test.frozen = Missing
      BY DEF PipelineInv, WorkInv, RunAt
    <3> QED BY <1>1, <2>4, <3>1 DEF MarkFrozen, Tests
  <2> QED
    BY <1>2, <1>3, <2>1, <2>2, <2>3, <2>4 DEF Advance, CheckInputs, Partition, CheckPartition,
       CleanFrames, Prelabel, PrepareReview, HashLabels, ReceiveReview, VerifyReview, Select,
       Publish, Export, FreezeTest, CheckFrozen, Archive, Ready, testVars
<1>4. CASE Stop BY <1>2, <1>4 DEF Stop, testVars
<1>5. CASE Commands BY <1>2, <1>5 DEF Commands, Start, PrepareSampled, StartComplete, testVars
<1>6. CASE People
  <2>1. ASSUME NEW labels \in HumanLabels, EditTest(labels)
        PROVE  test.made \in {Missing, test'.made} /\ test.frozen \in {Missing, test'.frozen}
    BY <1>1, <2>1 DEF EditTest, Tests
  <2> QED BY <1>2, <1>6, <2>1 DEF People, Assign, Configure, EditLabels, testVars
<1> QED BY <1>3, <1>4, <1>5, <1>6 DEF LabelingNext

LEMMA OutStays ==
  ASSUME PipelineInv, LabelingNext
  PROVE  /\ dataset # Missing => dataset' = dataset
         /\ export # Missing => export' = export
         /\ zip # Missing => zip'.of = zip.of
<1>1. CASE Advance
  <2>1. CASE Publish
    <3>1. dataset = Missing BY <2>1 DEF Publish, PipelineInv, WorkInv, ReviewAt
    <3> QED BY <2>1, <3>1 DEF Publish
  <2>2. CASE Export BY <2>2 DEF Export
  <2>3. CASE Archive
    <3>1. zip # Missing => zip \in Zips BY DEF PipelineInv, TypeOK
    <3>2. zip # Missing => zip' = zip \/ zip' = [zip EXCEPT !.receipt = TRUE]
      BY <2>3 DEF Archive
    <3>3. UNCHANGED <<dataset, export>> BY <2>3 DEF Archive
    <3> QED BY <3>1, <3>2, <3>3 DEF Zips
  <2>4. CASE UNCHANGED <<dataset, export, zip>> BY <2>4
  <2> QED
    BY <1>1, <2>1, <2>2, <2>3, <2>4 DEF Advance, CheckInputs, Partition, CheckPartition, SampleTest,
       LabelTest, ReceiveTestLabels, CleanFrames, Prelabel, PrepareReview, HashLabels, ReceiveReview,
       VerifyReview, Select, FreezeTest, MarkFrozen, CheckFrozen, Ready, outVars
<1>2. CASE Stop BY <1>2 DEF Stop, outVars
<1>3. CASE Commands BY <1>3 DEF Commands, Start, PrepareSampled, StartComplete, outVars
<1>4. CASE People BY <1>4 DEF People, Assign, Configure, EditLabels, EditTest, outVars
<1> QED BY <1>1, <1>2, <1>3, <1>4 DEF LabelingNext

\* Every run looks for what a stage has left in one step and writes it in a later one, and
\* still no stage replaces what another run, or a command beside it, has finished.
THEOREM NothingIsReplacedAlways == LabelingSpec => NothingIsReplaced
<1>1. PipelineInv /\ [LabelingNext]_pipelineVars =>
        [/\ partition # Missing => partition' = partition
         /\ frames # Missing => frames' = frames
         /\ prelabel.at = "receipt" => prelabel' = prelabel
         /\ \A b \in Completed : b \in Completed' /\ review'[b].receipt = Receipt(b)
         /\ test # Missing => /\ test.made \in {Missing, test'.made}
                             /\ test.frozen \in {Missing, test'.frozen}
         /\ dataset # Missing => dataset' = dataset
         /\ export # Missing => export' = export
         /\ zip # Missing => zip'.of = zip.of]_pipelineVars
  <2> SUFFICES ASSUME PipelineInv, LabelingNext
               PROVE  /\ partition # Missing => partition' = partition
                      /\ frames # Missing => frames' = frames
                      /\ prelabel.at = "receipt" => prelabel' = prelabel
                      /\ \A b \in Completed : b \in Completed' /\ review'[b].receipt = Receipt(b)
                      /\ test # Missing => /\ test.made \in {Missing, test'.made}
                                          /\ test.frozen \in {Missing, test'.frozen}
                      /\ dataset # Missing => dataset' = dataset
                      /\ export # Missing => export' = export
                      /\ zip # Missing => zip'.of = zip.of
    OBVIOUS
  <2>1. partition # Missing => partition' = partition BY StagesStay
  <2>2. frames # Missing => frames' = frames BY StagesStay
  <2>3. prelabel.at = "receipt" => prelabel' = prelabel BY StagesStay
  <2>4. \A b \in Completed : b \in Completed' /\ review'[b].receipt = Receipt(b)
    BY ReceiptsStay
  <2>5. test # Missing => /\ test.made \in {Missing, test'.made}
                         /\ test.frozen \in {Missing, test'.frozen}
    BY TestStays
  <2>6. dataset # Missing => dataset' = dataset BY OutStays
  <2>7. export # Missing => export' = export BY OutStays
  <2>8. zip # Missing => zip'.of = zip.of BY OutStays
  <2> QED BY <2>1, <2>2, <2>3, <2>4, <2>5, <2>6, <2>7, <2>8
<1> QED BY <1>1, LabelingInvariance, PTL DEF LabelingSpec, NothingIsReplaced
=============================================================================
