--------------------------- MODULE SeatAssignment ---------------------------
(***************************************************************************)
(* Who is assigned to which seat, in app/classrooms: administrators'       *)
(* requests assign and unassign students, edit and delete seats, several   *)
(* at a time.  Assignments and deletions run in MongoDB transactions: each *)
(* works on a snapshot, and its commit fails when a document it writes was *)
(* written since.  A document it only read may have changed.               *)
(***************************************************************************)
EXTENDS Naturals

CONSTANTS
  Seats,      \* the seats of one classroom
  Students,   \* active students
  Requests,   \* the administrators' requests
  RetryLimit, \* _TRANSIENT_RETRY_LIMIT
  None

ASSUME AssignmentAssumption ==
  /\ RetryLimit \in Nat \ {0}
  /\ None \notin Seats \cup Students

VARIABLES
  status,   \* what each seat is: "active", "inactive" or "gone"
  assigned, \* seat_assignments: the student of each seat, else None
  req       \* each request: [op, step, seat, student, at, of, written, attempt]

vars == <<status, assigned, req>>

Status == {"active", "inactive", "gone"}
Assignments == [Seats -> Students \cup {None}]

\* What a transaction may write: a seat, the assignment of a seat, and the entry of a
\* student in the unique index over classroom and student.
Documents == {"seat"} \X Seats \cup {"assignment"} \X Seats \cup {"student"} \X Students

NoRequest ==
  [op |-> None, step |-> "idle", seat |-> None, student |-> None, at |-> "gone",
   of |-> [s \in Seats |-> None], written |-> {}, attempt |-> 0]

\* A step of request r: it goes to entry, and every open transaction learns which
\* documents have been written since its snapshot.
Step(r, entry, written) ==
  req' = [q \in Requests |-> IF q = r THEN entry
                             ELSE IF req[q].step = "open"
                                  THEN [req[q] EXCEPT !.written = @ \cup written]
                                  ELSE req[q]]

Done(r) == [NoRequest EXCEPT !.op = req[r].op, !.step = "done"]

-----------------------------------------------------------------------------
(* The checks before the transaction.                                      *)

Fit(s) == status[s] = "active"

\* assign_student, delete_seat and update_seat read the seat, which has to be active;
\* update_seat keeps the document it read.
Read(r, op, s, st) ==
  /\ req[r].step = "idle"
  /\ op \in {"assign", "delete", "edit"}
  /\ st = None <=> op # "assign"
  /\ Step(r, IF Fit(s)
             THEN [NoRequest EXCEPT !.op = op, !.step = "read", !.seat = s, !.student = st,
                                    !.at = status[s]]
             ELSE [NoRequest EXCEPT !.op = op, !.step = "done"], {})
  /\ UNCHANGED <<status, assigned>>

\* unassign_student checks nothing.
StartUnassign(r, s) ==
  /\ req[r].step = "idle"
  /\ Step(r, [NoRequest EXCEPT !.op = "unassign", !.step = "read", !.seat = s], {})
  /\ UNCHANGED <<status, assigned>>

-----------------------------------------------------------------------------
(* The transactions.                                                       *)

\* The transaction takes its snapshot of the seat and of the assignments, and gives up
\* on a seat that is not active; a deletion only asks whether the seat is there.
Open(r) ==
  LET s == req[r].seat
      fit == IF req[r].op = "delete" THEN status[s] # "gone" ELSE status[s] = "active"
  IN /\ req[r].step = "read" /\ req[r].op # "edit"
     /\ Step(r, IF fit THEN [req[r] EXCEPT !.step = "open", !.at = status[s],
                                           !.of = assigned, !.written = {}]
                ELSE Done(r), {})
     /\ UNCHANGED <<status, assigned>>

\* The seat the student had in the snapshot.
OldSeats(r) == {s \in Seats \ {req[r].seat} : req[r].of[s] = req[r].student}

\* Mutant of Writes: no unique index over classroom and student.
WritesDocuments(r) ==
  LET s == req[r].seat IN
  CASE req[r].op = "assign" -> {"assignment"} \X ({s} \cup OldSeats(r))
    [] req[r].op = "unassign" -> {"assignment"} \X {t \in {s} : req[r].of[t] # None}
    [] req[r].op = "delete" -> {<<"seat", s>>} \cup {"assignment"} \X {t \in {s} : req[r].of[t] # None}

\* What the transaction writes: an assignment that is not in its snapshot is not
\* deleted, so nothing is written for it.
Writes(r) ==
  LET s == req[r].seat IN
  CASE req[r].op = "assign" ->
         {"assignment"} \X ({s} \cup OldSeats(r)) \cup {<<"student", req[r].student>>}
    [] req[r].op = "unassign" -> {"assignment"} \X {t \in {s} : req[r].of[t] # None}
    [] req[r].op = "delete" -> {<<"seat", s>>} \cup {"assignment"} \X {t \in {s} : req[r].of[t] # None}

Conflict(r) == Writes(r) \cap req[r].written # {}

\* Mutant of AssignedBy: a deletion leaves the assignment.
AssignedAfterAssign(r) ==
  [s \in Seats |->
     IF req[r].op = "assign"
     THEN IF s = req[r].seat THEN req[r].student
          ELSE IF s \in OldSeats(r) THEN None ELSE assigned[s]
     ELSE IF req[r].op = "unassign" /\ s = req[r].seat THEN None ELSE assigned[s]]

\* The assignments the transaction deletes, and then the one it puts.
AssignedBy(r) ==
  [s \in Seats |->
     IF req[r].op = "assign"
     THEN IF s = req[r].seat THEN req[r].student
          ELSE IF s \in OldSeats(r) THEN None ELSE assigned[s]
     ELSE IF s = req[r].seat /\ req[r].of[s] # None THEN None ELSE assigned[s]]

Commit(r) ==
  /\ req[r].step = "open"
  /\ ~Conflict(r)
  /\ assigned' = AssignedBy(r)
  /\ status' = IF req[r].op = "delete" THEN [status EXCEPT ![req[r].seat] = "gone"] ELSE status
  /\ Step(r, Done(r), Writes(r))

MayRetry(r) == req[r].attempt + 1 < RetryLimit

\* _commit_with_retry: a conflict runs the transaction again, on a new snapshot, a few
\* times; the request fails after that.
Abort(r) ==
  /\ req[r].step = "open"
  /\ Conflict(r)
  /\ Step(r, IF MayRetry(r)
             THEN [req[r] EXCEPT !.step = "read", !.attempt = @ + 1]
             ELSE Done(r), {})
  /\ UNCHANGED <<status, assigned>>

-----------------------------------------------------------------------------
(* update_seat                                                             *)

\* The edit writes the whole document that was read: is_active as it is asked for, or
\* as it was.  Nothing is compared; a seat that is gone is not found.
Edit(r, isActive) ==
  LET s == req[r].seat IN
  /\ req[r].step = "read" /\ req[r].op = "edit"
  /\ IF status[s] = "gone"
     THEN UNCHANGED status /\ Step(r, Done(r), {})
     ELSE /\ status' = [status EXCEPT ![s] = IF isActive = None THEN req[r].at ELSE isActive]
          /\ Step(r, Done(r), {<<"seat", s>>})
  /\ UNCHANGED assigned

-----------------------------------------------------------------------------
Init ==
  /\ status = [s \in Seats |-> "active"]
  /\ assigned \in {f \in Assignments :
       \A s, t \in Seats : f[s] = f[t] /\ f[s] # None => s = t}
  /\ req = [r \in Requests |-> NoRequest]

Serve(r) ==
  \/ \E s \in Seats, st \in Students \cup {None}, op \in {"assign", "delete", "edit"} :
       Read(r, op, s, st)
  \/ \E s \in Seats : StartUnassign(r, s)
  \/ Open(r)
  \/ Commit(r)
  \/ Abort(r)
  \/ \E isActive \in {"active", "inactive", None} : Edit(r, isActive)

Next == \E r \in Requests : Serve(r)

Spec == Init /\ [][Next]_vars

-----------------------------------------------------------------------------
(* Properties.                                                             *)

\* Every variable stays within its type.
TypeOK ==
  /\ status \in [Seats -> Status]
  /\ assigned \in Assignments
  /\ req \in [Requests ->
       [op : {"assign", "unassign", "delete", "edit", None},
        step : {"idle", "read", "open", "done"}, seat : Seats \cup {None},
        student : Students \cup {None}, at : Status, of : Assignments,
        written : SUBSET Documents, attempt : 0..RetryLimit - 1]]

\* No student has two seats of a classroom, whatever moves overlap.
OneSeatPerStudent ==
  \A s, t \in Seats : assigned[s] = assigned[t] /\ assigned[s] # None => s = t

Orphan(s) == status[s] = "gone" /\ assigned[s] # None

\* A student is left on a seat that is gone only when the assignment and the deletion
\* of the seat overlap: the snapshot of the later one is older than the other.
OrphansOnlyFromOverlap ==
  [][\A s \in Seats : Orphan(s)' /\ ~Orphan(s) =>
       \E r \in Requests :
         /\ req[r].step = "open" /\ req[r].seat = s
         /\ \/ req[r].op = "assign" /\ <<"seat", s>> \in req[r].written
            \/ req[r].op = "delete" /\ <<"assignment", s>> \in req[r].written]_vars

=============================================================================
