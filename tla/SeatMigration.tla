--------------------------- MODULE SeatMigration ---------------------------
(***************************************************************************)
(* The offline migration of app/classrooms/migration.py: every active seat *)
(* of a classroom that has no place gets one.  A run takes a snapshot, adds *)
(* the places one by one and checks the result; what goes wrong is taken   *)
(* back from the snapshot, seat by seat.  Rollbacks and approved repairs   *)
(* use the same stores.  Writers are drained, so that one operation runs   *)
(* at a time, but it may fail or be killed between any two writes.         *)
(***************************************************************************)
EXTENDS Naturals, Sequences, FiniteSets, FiniteSetsExt

CONSTANTS
  Seats,        \* the seats, numbered in the order of _seat_sort_key
  TextRank,     \* the order of the stored codes as text: S1, S10, S2
  Students,
  Rows,         \* the places, all in column 1, that people ask for
  MaxRuns, MaxFaults, MaxChanges, MaxApprovals,  \* bounds of the instance
  None,
  Partial       \* a row without a column, or a column without a row

ASSUME MigrationAssumption ==
  /\ Seats \subseteq Nat /\ IsFiniteSet(Seats)
  /\ TextRank \in [Seats -> Nat]
  /\ Rows \subseteq Nat \ {0}
  /\ None \notin Nat \cup Students /\ Partial \notin Nat /\ None # Partial

VARIABLES
  seats,      \* each seat: [status, row]
  assigned,   \* the student of each seat, else None
  snapshots,  \* each manifest with its payload: [seats, assigned, payload]
  approvals,  \* the requests for repairs: [seat, row, approved]
  records,    \* the audit trail: seat and place
  pc,         \* what the operation at work does next
  job,        \* the operation: [run, snap, todo, seat]
  answer,     \* how the last operation ended
  base,       \* the seats when something other than a run last changed them
  halved,     \* whether since then a run was stopped while it put its own seats back
  manual,     \* places that neither a run nor a repair gave
  faults, changes

stores == <<seats, assigned, snapshots, approvals, records>>
ghosts == <<base, halved, manual>>
vars == <<stores, pc, job, answer, ghosts, faults, changes>>

Places == Nat \cup {None, Partial}
SeatMap == [Seats -> [status : {"active", "inactive", "gone"}, row : Places]]
NoJob == [run |-> FALSE, snap |-> 0, todo |-> {}, seat |-> None]

There(ss) == {s \in Seats : ss[s].status # "gone"}
Unplaced(ss) == {s \in Seats : ss[s].status = "active" /\ ss[s].row = None}
TopRow(ss) == Max({0} \cup {n \in {ss[s].row : s \in Seats} : n \notin {None, Partial}})
Ordinal(ss, s) == Cardinality({t \in Unplaced(ss) : t <= s})

\* _simulate_migration: the unplaced seats follow the highest row in their order.
Simulate(ss) ==
  [s \in Seats |-> IF s \in Unplaced(ss)
                   THEN [ss[s] EXCEPT !.row = TopRow(ss) + Ordinal(ss, s)]
                   ELSE ss[s]]

\* The unique index over row and column.
Taken(s, row) == row \in Nat /\ \E t \in Seats \ {s} : seats[t].row = row

Orphaned == \E s \in Seats : assigned[s] # None /\ seats[s].status = "gone"

\* validate_migration, against snapshot k or, with 0, without one.
Valid(k) ==
  /\ \A s \in There(seats) :
       /\ seats[s].row # Partial
       /\ ~Taken(s, seats[s].row)
  /\ ~Orphaned
  /\ k # 0 => seats = Simulate(snapshots[k].seats)

First(S) == CHOOSE s \in S : \A t \in S : s <= t
FirstInText(S) == CHOOSE s \in S : \A t \in S : TextRank[s] <= TextRank[t]

\* The operation ends; what it was about is remembered while its answer stands.
End(how) ==
  /\ pc' = "idle" /\ answer' = how
  /\ job' = IF how \in {"refused", "rolledback"} THEN [NoJob EXCEPT !.snap = job.snap] ELSE NoJob

\* Something other than a run changes the seats.
Rebase(new) == base' = new /\ halved' = FALSE

\* A run has put back some of the seats of its snapshot and not yet the others.
HalfRestored ==
  /\ pc = "restore" /\ job.run
  /\ job.todo \notin {{}, There(snapshots[job.snap].seats)}

-----------------------------------------------------------------------------
(* run_migration                                                           *)

\* A partial place stops the run before it writes; the manifest is stored first.
StartRun ==
  /\ pc = "idle" /\ Len(snapshots) < MaxRuns
  /\ \A s \in There(seats) : seats[s].row # Partial
  /\ snapshots' = Append(snapshots, [seats |-> seats, assigned |-> assigned, payload |-> FALSE])
  /\ pc' = "payload" /\ answer' = "none"
  /\ job' = [run |-> TRUE, snap |-> Len(snapshots) + 1, todo |-> Unplaced(seats), seat |-> None]
  /\ UNCHANGED <<seats, assigned, approvals, records, ghosts, faults, changes>>

SavePayload ==
  /\ pc = "payload"
  /\ snapshots' = [snapshots EXCEPT ![job.snap].payload = TRUE]
  /\ pc' = "append"
  /\ UNCHANGED <<seats, assigned, approvals, records, job, answer, ghosts, faults, changes>>

Target(s) == Simulate(snapshots[job.snap].seats)[s]

\* Mutant of NextUnplaced: the seats in the order in which the store lists them.
NextListed == FirstInText(job.todo)
NextUnplaced == First(job.todo)

\* update_seat: the next seat gets its place, if the unique index admits it.
Placed(s) == IF Taken(s, Target(s).row) THEN seats ELSE [seats EXCEPT ![s] = Target(s)]

BeginRestore ==
  pc' = "restore" /\ job' = [job EXCEPT !.todo = There(snapshots[job.snap].seats)]

\* A place that is taken is an error, and the snapshot is restored.
AppendPlace ==
  LET s == NextUnplaced IN
  /\ pc = "append" /\ job.todo # {}
  /\ seats' = Placed(s)
  /\ IF Taken(s, Target(s).row)
     THEN BeginRestore
     ELSE pc' = "record" /\ job' = [job EXCEPT !.seat = s]
  /\ UNCHANGED <<assigned, snapshots, approvals, records, answer, ghosts, faults, changes>>

\* Mutant of Recorded: the place the seat had.
RecordedOld(s) == <<s, snapshots[job.snap].seats[s].row>>
Recorded(s) == <<s, seats[s].row>>

SaveRecord ==
  /\ pc = "record"
  /\ records' = records \cup {Recorded(job.seat)}
  /\ pc' = "append" /\ job' = [job EXCEPT !.todo = @ \ {job.seat}]
  /\ UNCHANGED <<seats, assigned, snapshots, approvals, answer, ghosts, faults, changes>>

\* An append that fails, before or after it was applied, or a record that fails: the
\* snapshot is restored.
AppendFails ==
  /\ pc = "append" /\ job.todo # {} /\ faults < MaxFaults
  /\ faults' = faults + 1
  /\ seats' \in {seats, Placed(NextUnplaced)}
  /\ BeginRestore
  /\ UNCHANGED <<assigned, snapshots, approvals, records, answer, ghosts, changes>>

RecordFails ==
  /\ pc = "record" /\ faults < MaxFaults
  /\ faults' = faults + 1
  /\ records' \in {records, records \cup {Recorded(job.seat)}}
  /\ BeginRestore
  /\ UNCHANGED <<seats, assigned, snapshots, approvals, answer, ghosts, changes>>

\* The gate compares the result with the snapshot and restores what is not as expected.
Gate ==
  /\ pc = "append" /\ job.todo = {}
  /\ IF Valid(job.snap) THEN End("migrated") ELSE BeginRestore /\ UNCHANGED answer
  /\ UNCHANGED <<stores, ghosts, faults, changes>>

-----------------------------------------------------------------------------
(* rollback and restore_snapshot                                           *)

\* rollback, to the newest snapshot or to the one that is asked for; without its payload
\* it is not found.
Rollback(k) ==
  /\ pc = "idle" /\ snapshots[k].payload
  /\ pc' = "restore" /\ answer' = "none"
  /\ job' = [run |-> FALSE, snap |-> k, todo |-> There(snapshots[k].seats), seat |-> None]
  /\ UNCHANGED <<stores, ghosts, faults, changes>>

\* Mutant of Restored: a row the snapshot does not have is not unset.
RestoredSet(s) ==
  LET old == snapshots[job.snap].seats[s]
  IN IF old.row = None THEN [old EXCEPT !.row = seats[s].row] ELSE old
Restored(s) == snapshots[job.snap].seats[s]

\* The seats are put back, or created again, in the order of the payload; the unique
\* index may refuse one.  Seats that the snapshot does not have stay.
RestoreSeat ==
  LET s == FirstInText(job.todo) IN
  /\ pc = "restore" /\ job.todo # {}
  /\ IF Taken(s, Restored(s).row)
     THEN /\ End("failed")
          /\ halved' = (halved \/ HalfRestored)
          /\ UNCHANGED <<seats, base>>
     ELSE /\ seats' = [seats EXCEPT ![s] = Restored(s)]
          /\ job' = [job EXCEPT !.todo = @ \ {s}]
          /\ IF job.run THEN UNCHANGED <<base, halved>> ELSE Rebase(seats')
          /\ UNCHANGED <<pc, answer>>
  /\ UNCHANGED <<assigned, snapshots, approvals, records, manual, faults, changes>>

ListAssigned ==
  /\ pc = "restore" /\ job.todo = {}
  /\ pc' = "unassign" /\ job' = [job EXCEPT !.todo = {s \in Seats : assigned[s] # None}]
  /\ UNCHANGED <<stores, answer, ghosts, faults, changes>>

\* The assignments are deleted one by one and those of the payload put.
RestoreAssignment(s) ==
  /\ pc \in {"unassign", "assign"} /\ s \in job.todo
  /\ assigned' = [assigned EXCEPT ![s] = IF pc = "unassign" THEN None
                                         ELSE snapshots[job.snap].assigned[s]]
  /\ job' = [job EXCEPT !.todo = @ \ {s}]
  /\ UNCHANGED <<seats, snapshots, approvals, records, pc, answer, ghosts, faults, changes>>

ListOld ==
  /\ pc = "unassign" /\ job.todo = {}
  /\ pc' = "assign"
  /\ job' = [job EXCEPT !.todo = {s \in Seats : snapshots[job.snap].assigned[s] # None}]
  /\ UNCHANGED <<stores, answer, ghosts, faults, changes>>

\* The restore is checked without the snapshot.
EndRestore ==
  /\ pc = "assign" /\ job.todo = {}
  /\ End(IF ~Valid(0) THEN "failed" ELSE IF job.run THEN "refused" ELSE "rolledback")
  /\ UNCHANGED <<stores, ghosts, faults, changes>>

-----------------------------------------------------------------------------
(* Repairs                                                                 *)

RequestRepair(s, row) ==
  /\ pc = "idle" /\ Len(approvals) < MaxApprovals /\ s \in There(seats)
  /\ approvals' = Append(approvals, [seat |-> s, row |-> row, approved |-> FALSE])
  /\ UNCHANGED <<seats, assigned, snapshots, records, pc, job, answer, ghosts, faults, changes>>

ApproveRepair(k) ==
  /\ pc = "idle" /\ ~approvals[k].approved
  /\ approvals' = [approvals EXCEPT ![k].approved = TRUE]
  /\ UNCHANGED <<seats, assigned, snapshots, records, pc, job, answer, ghosts, faults, changes>>

\* approved_approval_for_seat finds the first approval of a seat, whatever came after it.
\* An approval is not used up.
FirstApproved(s) ==
  {k \in DOMAIN approvals :
     /\ approvals[k].approved /\ approvals[k].seat = s
     /\ \A i \in 1..k - 1 : ~(approvals[i].approved /\ approvals[i].seat = s)}

RepairSeat(s, row) ==
  /\ pc = "idle" /\ s \in There(seats)
  /\ \E k \in FirstApproved(s) : approvals[k].row = row
  /\ ~Taken(s, row)
  /\ seats' = [seats EXCEPT ![s].row = row]
  /\ Rebase(seats')
  /\ pc' = "audit" /\ job' = [NoJob EXCEPT !.seat = s] /\ answer' = "none"
  /\ UNCHANGED <<assigned, snapshots, approvals, records, manual, faults, changes>>

SaveRepairRecord ==
  /\ pc = "audit"
  /\ records' = records \cup {<<job.seat, seats[job.seat].row>>}
  /\ End("none")
  /\ UNCHANGED <<seats, assigned, snapshots, approvals, ghosts, faults, changes>>

-----------------------------------------------------------------------------
\* A read or a write outside the appends fails, or the process is killed: the operation
\* ends where it is.
Cut ==
  /\ pc # "idle" /\ faults < MaxFaults
  /\ faults' = faults + 1
  /\ End("failed")
  /\ halved' = (halved \/ HalfRestored)
  /\ UNCHANGED <<stores, base, manual, changes>>

\* Between the operations administrators edit, delete and assign seats (ClassroomService).
Change(newSeats, newAssigned, place) ==
  /\ pc = "idle" /\ changes < MaxChanges
  /\ changes' = changes + 1
  /\ seats' = newSeats /\ assigned' = newAssigned
  /\ Rebase(newSeats) /\ manual' = manual \cup place
  /\ answer' = "none" /\ job' = NoJob
  /\ UNCHANGED <<snapshots, approvals, records, pc, faults>>

EditSeat(s, row, status) ==
  /\ seats[s].status = "active" /\ ~Taken(s, row)
  /\ Change([seats EXCEPT ![s] = [status |-> status, row |-> row]], assigned, {<<s, row>>})

DeleteSeat(s) ==
  /\ seats[s].status = "active"
  /\ Change([seats EXCEPT ![s] = [status |-> "gone", row |-> None]],
            [assigned EXCEPT ![s] = None], {})

AssignStudent(s, st) ==
  /\ seats[s].status = "active"
  /\ Change(seats, [t \in Seats |-> IF t = s THEN st
                                    ELSE IF assigned[t] = st THEN None ELSE assigned[t]], {})

-----------------------------------------------------------------------------
Init ==
  /\ seats \in [Seats -> [status : {"active", "inactive", "gone"},
                          row : Rows \cup {None, Partial}]]
  /\ \A s \in Seats : seats[s].status = "gone" => seats[s].row = None
  /\ \A s \in Seats : ~Taken(s, seats[s].row)
  /\ assigned \in [Seats -> Students \cup {None}]
  /\ \A s, t \in Seats : assigned[s] = assigned[t] /\ assigned[s] # None => s = t
  /\ snapshots = <<>> /\ approvals = <<>> /\ records = {}
  /\ pc = "idle" /\ job = NoJob /\ answer = "none"
  /\ base = seats /\ halved = FALSE /\ manual = {<<s, seats[s].row>> : s \in Seats}
  /\ faults = 0 /\ changes = 0

Run == StartRun \/ SavePayload \/ AppendPlace \/ SaveRecord \/ AppendFails \/ RecordFails \/ Gate
Restore ==
  \/ \E k \in DOMAIN snapshots : Rollback(k)
  \/ RestoreSeat
  \/ ListAssigned
  \/ \E s \in Seats : RestoreAssignment(s)
  \/ ListOld
  \/ EndRestore
Repair ==
  \/ \E s \in Seats, row \in Rows \cup {None} : RequestRepair(s, row) \/ RepairSeat(s, row)
  \/ \E k \in DOMAIN approvals : ApproveRepair(k)
  \/ SaveRepairRecord
Administer ==
  \E s \in Seats :
    \/ \E row \in (Rows \cup {None, seats[s].row}) \ {Partial}, status \in {"active", "inactive"} :
         EditSeat(s, row, status)
    \/ DeleteSeat(s)
    \/ \E st \in Students \cup {None} : AssignStudent(s, st)

Next == Run \/ Restore \/ Repair \/ Cut \/ Administer

Spec == Init /\ [][Next]_vars

-----------------------------------------------------------------------------
(* Properties.                                                             *)

\* As long as only runs change the seats, however many were cut short or refused, the
\* run that succeeds ends where a single undisturbed run would have.  The exception is a
\* run that was stopped while it took its own places back: the seats go back in the order
\* of their codes as text, so an earlier seat may have lost its place and a later one have
\* kept it, and the next run goes on behind the latter.
ResumedIsTheSame == answer = "migrated" /\ ~halved => seats = Simulate(base)

\* A run that was refused leaves no trace in seats and assignments; a rollback brings
\* back every seat of its snapshot, whatever happened since.
RestoredIsAsBefore ==
  LET old == snapshots[job.snap] IN
  /\ answer = "refused" => seats = old.seats
  /\ answer = "rolledback" => \A s \in There(old.seats) : seats[s] = old.seats[s]
  /\ answer \in {"refused", "rolledback"} => assigned = old.assigned

\* The gate never refuses a run for what the run itself did: a student assigned to a seat
\* that is gone is all it can object to.
OnlyOrphansBlock == pc = "append" /\ job.todo = {} => Valid(job.snap) \/ Orphaned

\* The audit trail misses at most one place for every operation that failed.
AuditMissesOnlyFaults ==
  Cardinality({s \in Seats : /\ seats[s].row \in Nat
                             /\ <<s, seats[s].row>> \notin records \cup manual
                             /\ pc \in {"record", "audit"} => s # job.seat}) <= faults
=============================================================================
