--------------------------- MODULE SeatOccupancy ----------------------------
(***************************************************************************)
(* The seat batches of app/classrooms: record_observation_batch runs in    *)
(* the request threads of the server, several requests at a time, while    *)
(* administrators edit and delete seats.  A request reads its batch, reads *)
(* the seats, claims the batch, reads the histories on record and applies  *)
(* the rest in one transaction that compares the versions it read; on a    *)
(* difference it reads the seats again.                                    *)
(*                                                                         *)
(* One classroom.  The posts of one event carry the same observations, and *)
(* an event sees all its seats in the same state.  Times are milliseconds, *)
(* as MongoDB keeps them.  A transaction is one step, since two            *)
(* transactions that write the same seat conflict.                         *)
(***************************************************************************)
EXTENDS Naturals, FiniteSets

CONSTANTS
  Seats,
  Events,     \* event ids
  Covers,     \* the seats each event observes
  Sight,      \* the state each event sees its seats in
  Times,      \* the observed_at values the bound allows
  Requests,   \* the posts that reach the server
  Editors,    \* the administrators' requests
  RetryLimit, \* _OCCUPANCY_RETRY_LIMIT
  None

\* Stands in the ledger for what a seat shows that an edit has lost track of.
Lost == "lost"

ASSUME OccupancyAssumption ==
  /\ Covers \in [Events -> SUBSET Seats]
  /\ \A e \in Events : Covers[e] # {}
  /\ Sight \in [Events -> {"UNKNOWN", "VACANT", "OCCUPIED"}]
  /\ Times \in SUBSET Nat
  /\ RetryLimit \in Nat \ {0}
  /\ None \notin Events \cup Seats \cup {Lost}
  /\ Lost \notin Events

VARIABLES
  at,       \* observed_at of each event
  seats,    \* the seat documents: [status, version, event], event of current_occupancy
  batches,  \* the batch record of each event: "none", "PROCESSING" or "COMPLETED"
  histories,\* seat_occupancy_history: [seat, event, from, applied]
  pc,       \* where each request is, and how it ended
  job,      \* what a request works with: [event, own, seen, known, todo, fix, attempt]
  editing,  \* what each administrator's request does: [step, seat, copy]
  lost      \* seats where an edit has put back an older document

storeVars == <<seats, batches, histories>>
vars == <<at, storeVars, pc, job, editing, lost>>

States == {"UNKNOWN", "VACANT", "OCCUPIED"}
Documents == [status : {"active", "inactive", "gone"}, version : Nat, event : Events \cup {None}]
Histories == [seat : Seats, event : Events, from : States, applied : BOOLEAN]

\* _occupancy, of the document a request has read.
StateIn(doc) == IF doc.event = None THEN "UNKNOWN" ELSE Sight[doc.event]

Exists(s) == seats[s].status # "gone"
Active(s) == seats[s].status = "active"

\* Where a request works, and how it ended.
Working == {"new seats", "seats", "claim", "known", "repair", "reapply", "commit", "reread",
            "complete"}
Ended == {"recorded", "missing", "conflict", "busy", "failed"}

NoJob == [event |-> None, own |-> FALSE, seen |-> [s \in Seats |-> None], known |-> {},
          todo |-> {}, fix |-> None, attempt |-> 0]

Go(r, step) == pc' = [pc EXCEPT ![r] = step]
\* The request ends with an answer.
Answer(r, answer) == Go(r, answer) /\ job' = [job EXCEPT ![r] = NoJob]

\* The documents a request holds after reading the seats in S.
Read(r, S) == [s \in Seats |-> IF s \in S THEN seats[s] ELSE job[r].seen[s]]

OnRecord(e) == {h.seat : h \in {x \in histories : x.event = e}}

-----------------------------------------------------------------------------
(* record_observation_batch                                                *)

\* A post arrives and its batch is looked up; one that is completed is answered
\* from the record.
Post(r, e) ==
  /\ pc[r] = "idle"
  /\ Go(r, CASE batches[e] = "none" -> "new seats"
             [] batches[e] = "PROCESSING" -> "seats"
             [] batches[e] = "COMPLETED" -> "recorded")
  /\ job' = [job EXCEPT ![r] = [NoJob EXCEPT !.event = e]]
  /\ UNCHANGED <<at, storeVars, editing, lost>>

\* Every seat has to be there and active before anything is written.
ReadSeats(r) ==
  /\ pc[r] \in {"new seats", "seats"}
  /\ IF \A s \in Covers[job[r].event] : Active(s)
     THEN /\ job' = [job EXCEPT ![r].seen = Read(r, Covers[job[r].event])]
          /\ Go(r, IF pc[r] = "seats" THEN "known" ELSE "claim")
     ELSE Answer(r, "missing")
  /\ UNCHANGED <<at, storeVars, editing, lost>>

\* claim_observation_batch: the first to insert the batch owns it, the others go on
\* with the record they find.
Claim(r) ==
  LET e == job[r].event IN
  /\ pc[r] = "claim"
  /\ \/ /\ batches[e] = "none"
        /\ batches' = [batches EXCEPT ![e] = "PROCESSING"]
        /\ job' = [job EXCEPT ![r].own = TRUE]
        /\ Go(r, "known")
     \/ /\ batches[e] = "COMPLETED"
        /\ Answer(r, "recorded") /\ UNCHANGED batches
     \/ /\ batches[e] = "PROCESSING"
        /\ Go(r, "known") /\ UNCHANGED <<batches, job>>
  /\ UNCHANGED <<at, seats, histories, editing, lost>>

\* get_histories_by_event: seats that have their history are only repaired.
ReadHistories(r) ==
  LET known == OnRecord(job[r].event) \cap Covers[job[r].event] IN
  /\ pc[r] = "known"
  /\ job' = [job EXCEPT ![r].known = known, ![r].todo = known]
  /\ Go(r, IF known = {} THEN "commit" ELSE "repair")
  /\ UNCHANGED <<at, storeVars, editing, lost>>

\* complete_observation_batch: from PROCESSING only, and a batch completed
\* meanwhile is left as it is.
Complete(r) ==
  /\ pc[r] = "complete"
  /\ batches' = [batches EXCEPT ![job[r].event] = "COMPLETED"]
  /\ Answer(r, "recorded")
  /\ UNCHANGED <<at, seats, histories, editing, lost>>

-----------------------------------------------------------------------------
(* _commit_observations                                                    *)

\* An observation is applied unless the document holds a newer one.
NotOlder(time, doc) == doc.event # None => time >= at[doc.event]

\* _build_history
History(e, s, doc) ==
  [seat |-> s, event |-> e, from |-> StateIn(doc), applied |-> NotOlder(at[e], doc)]

\* Mutant of Pending: seats that are not there any more are skipped.
PendingActive(r) == {s \in Covers[job[r].event] \ job[r].known : Active(s)}

\* The seats that have no history of this event yet, as far as the request knows.
Pending(r) == Covers[job[r].event] \ job[r].known

Built(r, P) == {History(job[r].event, s, job[r].seen[s]) : s \in P}

\* Mutant of SeatsAfter: the seat shows the batch whether its history applies or not.
SeatsAnyhow(r, P) ==
  [s \in Seats |->
     IF s \in P
     THEN [status |-> seats[s].status, version |-> job[r].seen[s].version + 1,
           event |-> job[r].event]
     ELSE seats[s]]

\* _occupancy_update after _build_history, for every seat of a batch.
SeatsAfter(r, P) ==
  [s \in Seats |->
     IF s \in P /\ NotOlder(at[job[r].event], job[r].seen[s])
                /\ job[r].seen[s].event # job[r].event
     THEN [status |-> seats[s].status, version |-> job[r].seen[s].version + 1,
           event |-> job[r].event]
     ELSE seats[s]]

\* Mutant of Fits: the versions are not compared.
AlwaysFits(r, P) == TRUE

\* Mutant of Fits: only one of the seats is compared.
SomeFits(r, P) == \E s \in P : seats[s].version = job[r].seen[s].version

Fits(r, P) == \A s \in P : seats[s].version = job[r].seen[s].version

\* A history of this event that came on record meanwhile is compared with the one
\* just built.
Stored(r, P) == {h \in histories : h.event = job[r].event /\ h.seat \in P}

\* After RetryLimit attempts the request is answered with ClassroomConcurrentUpdateError.
MayRetry(r) == job[r].attempt + 1 < RetryLimit

\* The batch is written as a whole or not at all; the histories still on record
\* are kept as they are.
Apply(r, P) ==
  /\ histories' = histories \cup Built(r, P)
  /\ seats' = SeatsAfter(r, P)

\* append_histories_and_apply_occupancies, and what the request does with its
\* result.  The request that claimed the batch holds a received_at finer than the
\* stored one, so it may find a difference where there is none.
Commit(r) ==
  LET P == Pending(r) IN
  /\ pc[r] = "commit"
  /\ \/ /\ \E s \in P : ~Active(s)
        /\ Answer(r, "missing") /\ UNCHANGED <<seats, histories>>
     \/ /\ \A s \in P : Active(s)
        /\ ~Fits(r, P)
        /\ IF MayRetry(r)
           THEN Go(r, "reread") /\ job' = [job EXCEPT ![r].attempt = @ + 1]
           ELSE Answer(r, "busy")
        /\ UNCHANGED <<seats, histories>>
     \/ /\ \A s \in P : Active(s)
        /\ Fits(r, P)
        /\ ~(Stored(r, P) \subseteq Built(r, P)) \/ (job[r].own /\ Stored(r, P) # {})
        /\ Answer(r, "conflict") /\ UNCHANGED <<seats, histories>>
     \/ /\ \A s \in P : Active(s)
        /\ Fits(r, P)
        /\ Stored(r, P) \subseteq Built(r, P)
        /\ Apply(r, P)
        /\ Go(r, "complete") /\ UNCHANGED job
  /\ UNCHANGED <<at, batches, editing, lost>>

\* Any of the seats may have changed, so all are read again.
Reread(r) ==
  /\ pc[r] = "reread"
  /\ IF \A s \in Pending(r) : Exists(s)
     THEN job' = [job EXCEPT ![r].seen = Read(r, Pending(r))] /\ Go(r, "commit")
     ELSE Answer(r, "missing")
  /\ UNCHANGED <<at, storeVars, editing, lost>>

-----------------------------------------------------------------------------
(* _repair_current_from_history                                            *)

\* A history on record that was applied is applied again when the seat does not
\* show it and shows nothing newer.
Repairs(h, doc) ==
  /\ h.applied
  /\ doc.event # h.event
  /\ NotOlder(at[h.event], doc)

\* After the last repair the seats without a history are committed, if there are any.
Repaired(r, s) ==
  LET rest == job[r].todo \ {s} IN
  /\ job' = [job EXCEPT ![r].todo = rest, ![r].fix = None, ![r].attempt = 0]
  /\ Go(r, IF rest # {} THEN "repair" ELSE IF Pending(r) = {} THEN "complete" ELSE "commit")

\* The seats with a history are taken one after the other: the seat is read.
Repair(r) ==
  /\ pc[r] = "repair"
  /\ \E h \in Stored(r, job[r].todo) :
       /\ job[r].fix \in {None, h.seat}
       /\ \/ /\ h.applied => Exists(h.seat) /\ ~Repairs(h, seats[h.seat])
             /\ Repaired(r, h.seat)
          \/ /\ h.applied /\ ~Exists(h.seat)
             /\ Answer(r, "missing")
          \/ /\ Exists(h.seat) /\ Repairs(h, seats[h.seat])
             /\ job' = [job EXCEPT ![r].seen = Read(r, {h.seat}), ![r].fix = h.seat]
             /\ Go(r, "reapply")
  /\ UNCHANGED <<at, storeVars, editing, lost>>

\* The transaction of append_history_and_apply_occupancy, whose history is there.
Reapply(r) ==
  LET s == job[r].fix IN
  /\ pc[r] = "reapply"
  /\ \/ /\ ~Active(s)
        /\ Answer(r, "missing") /\ UNCHANGED seats
     \/ /\ Active(s) /\ ~Fits(r, {s})
        /\ IF MayRetry(r)
           THEN Go(r, "repair") /\ job' = [job EXCEPT ![r].attempt = @ + 1]
           ELSE Answer(r, "busy")
        /\ UNCHANGED seats
     \/ /\ Active(s) /\ Fits(r, {s})
        /\ seats' = SeatsAfter(r, {s})
        /\ Repaired(r, s)
  /\ UNCHANGED <<at, batches, histories, editing, lost>>

\* A repository call fails, or the process stops: the request ends where it is.
Fail(r) ==
  /\ pc[r] \in Working
  /\ Answer(r, "failed")
  /\ UNCHANGED <<at, storeVars, editing, lost>>

-----------------------------------------------------------------------------
(* update_seat and delete_seat                                             *)

NoEdit == [step |-> "idle", seat |-> None, copy |-> None]

\* The administrator's request reads the seat, which has to be active.
EditRead(d, s) ==
  /\ editing[d].step = "idle"
  /\ Active(s)
  /\ editing' = [editing EXCEPT ![d] = [step |-> "read", seat |-> s, copy |-> seats[s]]]
  /\ UNCHANGED <<at, storeVars, pc, job, lost>>

\* The edit changes a name, or the seat's activity, and writes back the whole document
\* it read, with its occupancy and its version, which is not compared.  A seat that
\* is gone is not found.
EditWrite(d) ==
  LET s == editing[d].seat IN
  /\ editing[d].step = "read"
  /\ editing' = [editing EXCEPT ![d] = [NoEdit EXCEPT !.step = "done"]]
  /\ IF Exists(s)
     THEN /\ \E status \in {"active", "inactive"} :
               seats' = [seats EXCEPT ![s] = [editing[d].copy EXCEPT !.status = status]]
          /\ lost' = IF editing[d].copy.version = seats[s].version THEN lost ELSE lost \cup {s}
     ELSE UNCHANGED <<seats, lost>>
  /\ UNCHANGED <<at, batches, histories, pc, job>>

\* delete_seat_and_unassign removes the document; histories and batches stay.
Delete(d) ==
  LET s == editing[d].seat IN
  /\ editing[d].step = "read"
  /\ editing' = [editing EXCEPT ![d] = [NoEdit EXCEPT !.step = "done"]]
  /\ seats' = IF Exists(s) THEN [seats EXCEPT ![s].status = "gone"] ELSE seats
  /\ UNCHANGED <<at, batches, histories, pc, job, lost>>

-----------------------------------------------------------------------------
Init ==
  /\ at \in [Events -> Times]
  /\ seats = [s \in Seats |-> [status |-> "active", version |-> 0, event |-> None]]
  /\ batches = [e \in Events |-> "none"]
  /\ histories = {}
  /\ pc = [r \in Requests |-> "idle"]
  /\ job = [r \in Requests |-> NoJob]
  /\ editing = [d \in Editors |-> NoEdit]
  /\ lost = {}

Handle(r) ==
  \/ \E e \in Events : Post(r, e)
  \/ ReadSeats(r)
  \/ Claim(r)
  \/ ReadHistories(r)
  \/ Repair(r)
  \/ Reapply(r)
  \/ Commit(r)
  \/ Reread(r)
  \/ Complete(r)
  \/ Fail(r)

Administer(d) ==
  \/ \E s \in Seats : EditRead(d, s)
  \/ EditWrite(d)
  \/ Delete(d)

Next == (\E r \in Requests : Handle(r)) \/ (\E d \in Editors : Administer(d))

Spec == Init /\ [][Next]_vars

-----------------------------------------------------------------------------
(* Properties.                                                             *)

\* The ledger these requests implement: an event counts once its histories are on
\* record, and a seat is lost track of when an edit puts back an older document.
Ledger == INSTANCE SeatLedger WITH
  counted <- {h.event : h \in histories},
  current <- [s \in Seats |-> IF s \in lost THEN Lost ELSE seats[s].event]

\* However requests overlap, fail and are repeated while seats are edited and
\* deleted, what the seats show is what the ledger of whole batches allows.
ImplementsLedger == Ledger!Spec

Copies == Documents \cup {None}
Jobs ==
  [event : Events \cup {None}, own : BOOLEAN, seen : [Seats -> Copies], known : SUBSET Seats,
   todo : SUBSET Seats, fix : Seats \cup {None}, attempt : 0..RetryLimit]

\* Every variable stays within its type.
TypeOK ==
  /\ at \in [Events -> Times]
  /\ seats \in [Seats -> Documents]
  /\ batches \in [Events -> {"none", "PROCESSING", "COMPLETED"}]
  /\ histories \in SUBSET Histories
  /\ pc \in [Requests -> Working \cup Ended \cup {"idle"}]
  /\ job \in [Requests -> Jobs]
  /\ editing \in [Editors -> [step : {"idle", "read", "done"}, seat : Seats \cup {None},
                             copy : Copies]]
  /\ lost \in SUBSET Seats

\* A batch counts as a whole or not at all, whatever is edited, deleted or retried
\* meanwhile: its histories are there for every seat or for none, once for each,
\* and a batch is completed only when they are.
BatchIsWhole ==
  \A e \in Events :
    /\ OnRecord(e) \in {{}, Covers[e]}
    /\ batches[e] = "COMPLETED" => OnRecord(e) = Covers[e]
    /\ \A g, h \in histories : g.event = h.event /\ g.seat = h.seat => g = h

\* What a seat shows is an observation on record, of a batch that was claimed, that
\* was judged to apply.
CurrentIsOnRecord ==
  \A s \in Seats : seats[s].event # None =>
    /\ \E h \in histories : h.seat = s /\ h.event = seats[s].event /\ h.applied
    /\ batches[seats[s].event] # "none"

\* No observation on record of a seat is newer than the one the seat shows, save on
\* seats where an edit put back an older document.
NewestIsShown ==
  \A s \in Seats \ lost, h \in histories :
    h.seat = s => seats[s].event # None /\ at[h.event] <= at[seats[s].event]
=============================================================================
