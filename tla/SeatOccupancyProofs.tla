------------------------ MODULE SeatOccupancyProofs ------------------------
(***************************************************************************)
(* The seat batches keep their promises for any number of seats, events,   *)
(* overlapping requests and edits, and implement the ledger.               *)
(*                                                                         *)
(* The argument is that of optimistic locking: away from the seats an edit *)
(* has lost track of, a version stands for one occupancy, so a transaction *)
(* that finds the versions it read has judged what the seats show.         *)
(***************************************************************************)
EXTENDS SeatOccupancy, TLAPS

\* A document that was read is not ahead of the seat, and is the seat's when it has the
\* seat's version.
Fresh(s, doc) ==
  s \notin lost =>
    /\ doc.version <= seats[s].version
    /\ doc.version = seats[s].version => doc.event = seats[s].event

AppliedTo(s, e) == \E h \in histories : h.seat = s /\ h.event = e /\ h.applied

\* What a request that works knows.
Good(step, j) ==
  step \in Working =>
    /\ j.event \in Events
    /\ step \notin {"new seats", "seats"} =>
         \A s \in Covers[j.event] : j.seen[s] \in Documents /\ Fresh(s, j.seen[s])
    /\ step \in {"repair", "reapply"} =>
         j.known = Covers[j.event] /\ j.todo \subseteq Covers[j.event]
    /\ step \in {"repair", "reapply", "complete"} => OnRecord(j.event) = Covers[j.event]
    /\ step \in {"commit", "reread"} => j.known = {}
    /\ step = "reapply" => j.fix \in Covers[j.event] /\ AppliedTo(j.fix, j.event)

\* The batch of a request that has found it, or has passed the claim, is claimed.
Claimed(step, j, b) ==
  step \in {"seats", "known", "repair", "reapply", "commit", "reread", "complete"} => b[j.event] # "none"

\* What an edit has read.
Copied(e) ==
  e.step = "read" =>
    /\ e.seat \in Seats /\ e.copy \in Documents
    /\ Fresh(e.seat, e.copy)
    /\ e.copy.event # None =>
         AppliedTo(e.seat, e.copy.event) /\ batches[e.copy.event] # "none"

IInv ==
  /\ TypeOK
  /\ BatchIsWhole
  /\ CurrentIsOnRecord
  /\ NewestIsShown
  /\ \A r \in Requests : Good(pc[r], job[r]) /\ Claimed(pc[r], job[r], batches)
  /\ \A d \in Editors : Copied(editing[d])

Steps == Working \cup Ended \cup {"idle"}
Batches == [Events -> {"none", "PROCESSING", "COMPLETED"}]

-----------------------------------------------------------------------------
(* Steps of a request that leave the seats and the histories alone.        *)

\* Such a step keeps the invariant when what the request goes on with is good.
LEMMA LocalStep ==
  ASSUME IInv, NEW r \in Requests, NEW step \in Steps, NEW entry \in Jobs,
         UNCHANGED <<at, seats, histories, editing, lost>>,
         pc' = [pc EXCEPT ![r] = step], job' = [job EXCEPT ![r] = entry],
         batches' \in Batches,
         \A e \in Events : batches[e] # "none" => batches'[e] # "none",
         \A e \in Events : batches'[e] = "COMPLETED" => OnRecord(e) = Covers[e],
         Good(step, entry), Claimed(step, entry, batches')
  PROVE  IInv'
<1>1. TypeOK'
  BY DEF IInv, TypeOK, Steps, Batches
<1>2. BatchIsWhole'
  BY DEF IInv, BatchIsWhole, OnRecord
<1>3. CurrentIsOnRecord'
  BY DEF IInv, CurrentIsOnRecord, TypeOK, Documents
<1>4. NewestIsShown'
  BY DEF IInv, NewestIsShown
<1>5. ASSUME NEW q \in Requests
      PROVE  Good(pc[q], job[q])' /\ Claimed(pc[q], job[q], batches)'
  <2>1. CASE q = r
    <3>1. pc'[q] = step /\ job'[q] = entry
      BY <2>1 DEF IInv, TypeOK
    <3>2. Good(pc[q], job[q])'
      BY <3>1 DEF Good, Fresh, OnRecord, AppliedTo
    <3> QED BY <3>1, <3>2 DEF Claimed
  <2>2. CASE q # r
    <3>1. pc'[q] = pc[q] /\ job'[q] = job[q] /\ Good(pc[q], job[q]) /\ Claimed(pc[q], job[q], batches)
      BY <2>2 DEF IInv, TypeOK
    <3>2. Good(pc[q], job[q])'
      <4>1. \A s, doc : Fresh(s, doc) => Fresh(s, doc)'
        BY DEF Fresh
      <4>2. \A s, e : AppliedTo(s, e) => AppliedTo(s, e)'
        BY DEF AppliedTo
      <4>3. \A e : OnRecord(e)' = OnRecord(e)
        BY DEF OnRecord
      <4> QED BY <3>1, <4>1, <4>2, <4>3 DEF Good
    <3>3. Claimed(pc[q], job[q], batches)'
      BY <3>1 DEF Claimed, Good, Working
    <3> QED BY <3>2, <3>3
  <2> QED BY <2>1, <2>2
<1>6. ASSUME NEW d \in Editors PROVE Copied(editing[d])'
  BY DEF IInv, Copied, Fresh, AppliedTo, Documents
<1> QED BY <1>1, <1>2, <1>3, <1>4, <1>5, <1>6 DEF IInv

\* The types a request's step starts from.
LEMMA RequestTypes ==
  ASSUME IInv, NEW r \in Requests
  PROVE  /\ pc[r] \in Steps /\ job[r] \in Jobs
         /\ Good(pc[r], job[r]) /\ Claimed(pc[r], job[r], batches)
         /\ seats \in [Seats -> Documents] /\ histories \in SUBSET Histories
         /\ batches \in Batches /\ at \in [Events -> Times]
         /\ \A e \in Events : batches[e] = "COMPLETED" => OnRecord(e) = Covers[e]
BY DEF IInv, TypeOK, Steps, Batches, BatchIsWhole

LEMMA NoJobType == NoJob \in Jobs /\ \A e \in Events : [NoJob EXCEPT !.event = e] \in Jobs
<1>1. [s \in Seats |-> None] \in [Seats -> Copies]
  BY DEF Copies
<1>2. 0 \in 0..RetryLimit
  BY OccupancyAssumption
<1>3. NoJob \in Jobs
  BY <1>1, <1>2 DEF NoJob, Jobs
<1> QED BY <1>3 DEF Jobs

\* A request may end in every step.
LEMMA AnswerKeeps ==
  ASSUME IInv, NEW r \in Requests, NEW answer \in Ended, Answer(r, answer),
         UNCHANGED <<at, seats, histories, editing, lost>>,
         batches' \in Batches,
         \A e \in Events : batches[e] # "none" => batches'[e] # "none",
         \A e \in Events : batches'[e] = "COMPLETED" => OnRecord(e) = Covers[e]
  PROVE  IInv'
<1>1. answer \notin Working /\ answer \in Steps
  BY DEF Working, Ended, Steps
<1>2. Good(answer, NoJob) /\ Claimed(answer, NoJob, batches')
  BY <1>1 DEF Good, Claimed, Working
<1>3. pc' = [pc EXCEPT ![r] = answer] /\ job' = [job EXCEPT ![r] = NoJob]
  BY DEF Answer, Go
<1> QED BY <1>1, <1>2, <1>3, NoJobType, LocalStep

\* The documents read in a step are fresh.
LEMMA ReadFresh ==
  ASSUME IInv, NEW r \in Requests, NEW S \in SUBSET Seats
  PROVE  /\ Read(r, S) \in [Seats -> Copies]
         /\ \A s \in S : Read(r, S)[s] \in Documents /\ Fresh(s, Read(r, S)[s])
         /\ \A s \in Seats \ S : Read(r, S)[s] = job[r].seen[s]
<1>1. seats \in [Seats -> Documents] /\ job[r].seen \in [Seats -> Copies]
  BY DEF IInv, TypeOK, Jobs
<1>2. \A s \in Seats : seats[s].version \in Nat
  BY <1>1 DEF Documents
<1> QED BY <1>1, <1>2 DEF Read, Copies, Fresh

LEMMA PostKeeps ==
  ASSUME IInv, NEW r \in Requests, NEW e \in Events, Post(r, e)
  PROVE  IInv'
<1> DEFINE step == CASE batches[e] = "none" -> "new seats"
                     [] batches[e] = "PROCESSING" -> "seats"
                     [] batches[e] = "COMPLETED" -> "recorded"
           entry == [NoJob EXCEPT !.event = e]
<1>1. batches[e] \in {"none", "PROCESSING", "COMPLETED"}
  BY DEF IInv, TypeOK
<1>2. step \in {"new seats", "seats", "recorded"}
  BY <1>1
<1>3. entry \in Jobs /\ entry.event = e
  BY NoJobType DEF NoJob
<1>4. UNCHANGED <<at, seats, histories, batches, editing, lost>>
  BY DEF Post, storeVars
<1>5. pc' = [pc EXCEPT ![r] = step] /\ job' = [job EXCEPT ![r] = entry]
  BY DEF Post, Go
<1>7. step = "seats" => batches[e] = "PROCESSING"
  BY <1>1
<1> HIDE DEF step, entry
<1>6. Good(step, entry) /\ Claimed(step, entry, batches') /\ step \in Steps
  BY <1>2, <1>3, <1>4, <1>7 DEF Good, Claimed, Working, Steps, Ended
<1> QED BY <1>3, <1>4, <1>5, <1>6, RequestTypes, LocalStep

\* Updates of what a request holds stay within its type.
LEMMA SeenType ==
  ASSUME NEW j \in Jobs, NEW seen \in [Seats -> Copies]
  PROVE  LET entry == [j EXCEPT !.seen = seen] IN
         /\ entry \in Jobs /\ entry.event = j.event /\ entry.seen = seen
         /\ entry.known = j.known /\ entry.todo = j.todo
BY DEF Jobs

LEMMA KnownType ==
  ASSUME NEW j \in Jobs, NEW known \in SUBSET Seats
  PROVE  LET entry == [j EXCEPT !.known = known, !.todo = known] IN
         /\ entry \in Jobs /\ entry.event = j.event /\ entry.seen = j.seen
         /\ entry.known = known /\ entry.todo = known
BY DEF Jobs

\* The seats an event observes, of a request that works.
LEMMA Observed ==
  ASSUME IInv, NEW r \in Requests, pc[r] \in Working
  PROVE  job[r].event \in Events /\ Covers[job[r].event] \in SUBSET Seats
BY OccupancyAssumption DEF IInv, Good

LEMMA ReadSeatsKeeps ==
  ASSUME IInv, NEW r \in Requests, ReadSeats(r)
  PROVE  IInv'
<1> DEFINE e == job[r].event
           seen == Read(r, Covers[e])
           entry == [job[r] EXCEPT !.seen = seen]
           step == IF pc[r] = "seats" THEN "known" ELSE "claim"
<1>1. pc[r] \in {"new seats", "seats"} /\ UNCHANGED <<at, seats, histories, batches, editing, lost>>
  BY DEF ReadSeats, storeVars
<1>2. job[r] \in Jobs /\ e \in Events /\ Covers[e] \in SUBSET Seats
  BY <1>1, RequestTypes, Observed DEF Working
<1>3. CASE \A s \in Covers[e] : Active(s)
  <2>1. pc' = [pc EXCEPT ![r] = step] /\ job' = [job EXCEPT ![r] = entry]
    BY <1>3 DEF ReadSeats, Go
  <2>2. /\ seen \in [Seats -> Copies]
        /\ \A s \in Covers[e] : seen[s] \in Documents /\ Fresh(s, seen[s])
    BY <1>2, ReadFresh
  <2>3. entry \in Jobs /\ entry.event = e /\ entry.seen = seen /\ step \in {"known", "claim"}
    BY <1>2, <2>2, SeenType
  <2>4. step = "known" => batches[e] # "none"
    BY <1>1, RequestTypes DEF Claimed
  <2> HIDE DEF step, entry, seen, e
  <2>5. Good(step, entry) /\ Claimed(step, entry, batches') /\ step \in Steps
    BY <1>1, <1>2, <2>2, <2>3, <2>4 DEF Good, Claimed, Working, Steps
  <2> QED BY <1>1, <2>1, <2>3, <2>5, RequestTypes, LocalStep
<1>4. CASE ~\A s \in Covers[e] : Active(s)
  <2>1. Answer(r, "missing")
    BY <1>4 DEF ReadSeats
  <2> QED BY <1>1, <2>1, RequestTypes, AnswerKeeps DEF Ended
<1> QED BY <1>3, <1>4

LEMMA ClaimKeeps ==
  ASSUME IInv, NEW r \in Requests, Claim(r)
  PROVE  IInv'
<1> DEFINE e == job[r].event
<1>1. pc[r] = "claim" /\ UNCHANGED <<at, seats, histories, editing, lost>>
  BY DEF Claim
<1>2. /\ job[r] \in Jobs /\ e \in Events /\ Good("claim", job[r]) /\ batches \in Batches
      /\ \A f \in Events : batches[f] = "COMPLETED" => OnRecord(f) = Covers[f]
  BY <1>1, RequestTypes, Observed DEF Working
<1>3. CASE batches[e] = "none" /\ batches' = [batches EXCEPT ![e] = "PROCESSING"]
             /\ job' = [job EXCEPT ![r].own = TRUE] /\ Go(r, "known")
  <2> DEFINE entry == [job[r] EXCEPT !.own = TRUE]
  <2>1. entry \in Jobs /\ entry.event = e /\ entry.seen = job[r].seen
    BY <1>2 DEF Jobs
  <2>2. pc' = [pc EXCEPT ![r] = "known"] /\ job' = [job EXCEPT ![r] = entry]
    BY <1>3 DEF Go
  <2>3. batches' \in Batches
    BY <1>2, <1>3 DEF Batches
  <2>4. /\ \A f \in Events : batches[f] # "none" => batches'[f] # "none"
        /\ \A f \in Events : batches'[f] = "COMPLETED" => OnRecord(f) = Covers[f]
        /\ batches'[e] # "none"
    BY <1>2, <1>3 DEF Batches
  <2> HIDE DEF entry
  <2>5. Good("known", entry) /\ Claimed("known", entry, batches') /\ "known" \in Steps
    BY <1>2, <2>1, <2>4 DEF Good, Claimed, Working, Steps
  <2> QED BY <1>1, <2>1, <2>2, <2>3, <2>4, <2>5, LocalStep
<1>4. CASE batches' = batches /\ Answer(r, "recorded")
  BY <1>1, <1>2, <1>4, AnswerKeeps DEF Ended
<1>5. CASE batches[e] = "PROCESSING" /\ Go(r, "known") /\ UNCHANGED <<batches, job>>
  <2>1. pc' = [pc EXCEPT ![r] = "known"] /\ job' = [job EXCEPT ![r] = job[r]]
    BY <1>5 DEF Go, IInv, TypeOK
  <2>2. Good("known", job[r]) /\ Claimed("known", job[r], batches') /\ "known" \in Steps
    BY <1>2, <1>5 DEF Good, Claimed, Working, Steps
  <2> QED BY <1>1, <1>2, <1>5, <2>1, <2>2, LocalStep
<1> QED BY <1>3, <1>4, <1>5 DEF Claim

LEMMA ReadHistoriesKeeps ==
  ASSUME IInv, NEW r \in Requests, ReadHistories(r)
  PROVE  IInv'
<1> DEFINE e == job[r].event
           known == OnRecord(e) \cap Covers[e]
           entry == [job[r] EXCEPT !.known = known, !.todo = known]
           step == IF known = {} THEN "commit" ELSE "repair"
<1>1. pc[r] = "known" /\ UNCHANGED <<at, seats, histories, batches, editing, lost>>
  BY DEF ReadHistories, storeVars
<1>2. /\ job[r] \in Jobs /\ e \in Events /\ Covers[e] \in SUBSET Seats
      /\ Good("known", job[r]) /\ batches[e] # "none"
  BY <1>1, RequestTypes, Observed DEF Working, Claimed
<1>3. pc' = [pc EXCEPT ![r] = step] /\ job' = [job EXCEPT ![r] = entry]
  BY DEF ReadHistories, Go
<1>8. known \subseteq Covers[e]
  OBVIOUS
<1>4. known \in SUBSET Seats /\ (known = {} \/ (known = Covers[e] /\ OnRecord(e) = Covers[e]))
  BY <1>2 DEF IInv, BatchIsWhole
<1>5. /\ entry \in Jobs /\ entry.event = e /\ entry.seen = job[r].seen
      /\ entry.known = known /\ entry.todo = known
  BY <1>2, <1>4, KnownType
<1>6. step = (IF known = {} THEN "commit" ELSE "repair")
  OBVIOUS
<1> HIDE DEF known, entry, step
<1>7. Good(step, entry) /\ Claimed(step, entry, batches') /\ step \in Steps
  <2>1. CASE known = {}
    BY <1>1, <1>2, <1>5, <1>6, <2>1 DEF Good, Claimed, Working, Steps
  <2>2. CASE known = Covers[e] /\ known # {}
    BY <1>1, <1>2, <1>4, <1>5, <1>6, <2>2 DEF Good, Claimed, Working, Steps
  <2> QED BY <1>4, <2>1, <2>2
<1> QED BY <1>1, <1>3, <1>5, <1>7, RequestTypes, LocalStep

LEMMA CompleteKeeps ==
  ASSUME IInv, NEW r \in Requests, Complete(r)
  PROVE  IInv'
<1> DEFINE e == job[r].event
<1>1. /\ pc[r] = "complete" /\ UNCHANGED <<at, seats, histories, editing, lost>>
      /\ batches' = [batches EXCEPT ![e] = "COMPLETED"] /\ Answer(r, "recorded")
  BY DEF Complete
<1>2. /\ e \in Events /\ OnRecord(e) = Covers[e] /\ batches \in Batches
      /\ \A f \in Events : batches[f] = "COMPLETED" => OnRecord(f) = Covers[f]
  BY <1>1, RequestTypes DEF Good, Working
<1>3. batches' \in Batches
  BY <1>1, <1>2 DEF Batches
<1>4. /\ \A f \in Events : batches[f] # "none" => batches'[f] # "none"
      /\ \A f \in Events : batches'[f] = "COMPLETED" => OnRecord(f) = Covers[f]
  BY <1>1, <1>2 DEF Batches
<1> QED BY <1>1, <1>3, <1>4, AnswerKeeps DEF Ended

LEMMA RereadKeeps ==
  ASSUME IInv, NEW r \in Requests, Reread(r)
  PROVE  IInv'
<1> DEFINE e == job[r].event
           seen == Read(r, Pending(r))
           entry == [job[r] EXCEPT !.seen = seen]
<1>1. pc[r] = "reread" /\ UNCHANGED <<at, seats, histories, batches, editing, lost>>
  BY DEF Reread, storeVars
<1>2. /\ job[r] \in Jobs /\ e \in Events /\ Covers[e] \in SUBSET Seats
      /\ job[r].known = {} /\ batches[e] # "none"
  BY <1>1, RequestTypes, Observed DEF Working, Claimed, Good
<1>3. CASE \A s \in Pending(r) : Exists(s)
  <2>1. pc' = [pc EXCEPT ![r] = "commit"] /\ job' = [job EXCEPT ![r] = entry]
    BY <1>3 DEF Reread, Go
  <2>2. /\ seen \in [Seats -> Copies]
        /\ \A s \in Covers[e] : seen[s] \in Documents /\ Fresh(s, seen[s])
    BY <1>2, ReadFresh DEF Pending
  <2>3. entry \in Jobs /\ entry.event = e /\ entry.seen = seen /\ entry.known = {}
    BY <1>2, <2>2, SeenType
  <2> HIDE DEF entry, seen, e
  <2>5. Good("commit", entry) /\ Claimed("commit", entry, batches') /\ "commit" \in Steps
    BY <1>1, <1>2, <2>2, <2>3 DEF Good, Claimed, Working, Steps
  <2> QED BY <1>1, <2>1, <2>3, <2>5, RequestTypes, LocalStep
<1>4. CASE ~\A s \in Pending(r) : Exists(s)
  <2>1. Answer(r, "missing")
    BY <1>4 DEF Reread
  <2> QED BY <1>1, <2>1, RequestTypes, AnswerKeeps DEF Ended
<1> QED BY <1>3, <1>4

LEMMA FailKeeps ==
  ASSUME IInv, NEW r \in Requests, Fail(r)
  PROVE  IInv'
BY RequestTypes, AnswerKeeps DEF Fail, storeVars, Ended

\* After a repair the request repairs the next seat or completes the batch: no seat of
\* the batch is left without a history.
LEMMA RepairedGood ==
  ASSUME IInv, NEW r \in Requests, pc[r] \in {"repair", "reapply"}, NEW s \in Seats,
         Repaired(r, s)
  PROVE  \E step \in {"repair", "complete"}, entry \in Jobs :
           /\ pc' = [pc EXCEPT ![r] = step] /\ job' = [job EXCEPT ![r] = entry]
           /\ entry.event = job[r].event /\ entry.seen = job[r].seen
           /\ entry.known = job[r].known /\ entry.todo \subseteq Covers[job[r].event]
<1> DEFINE rest == job[r].todo \ {s}
           entry == [job[r] EXCEPT !.todo = rest, !.fix = None, !.attempt = 0]
           step == IF rest # {} THEN "repair" ELSE "complete"
<1>1. /\ job[r] \in Jobs /\ Covers[job[r].event] \in SUBSET Seats
      /\ job[r].known = Covers[job[r].event] /\ job[r].todo \subseteq Covers[job[r].event]
  BY RequestTypes, Observed DEF Working, Good
<1>2. Pending(r) = {}
  BY <1>1 DEF Pending
<1>3. pc' = [pc EXCEPT ![r] = step] /\ job' = [job EXCEPT ![r] = entry]
  BY <1>2 DEF Repaired, Go
<1>4. rest \in SUBSET Seats /\ rest \subseteq Covers[job[r].event]
  BY <1>1
<1>5. step \in {"repair", "complete"}
  OBVIOUS
<1>6. 0 \in 0..RetryLimit
  BY OccupancyAssumption
<1> HIDE DEF rest, step
<1>7. /\ entry \in Jobs /\ entry.event = job[r].event /\ entry.seen = job[r].seen
      /\ entry.known = job[r].known /\ entry.todo = rest
  BY <1>1, <1>4, <1>6 DEF Jobs
<1> HIDE DEF entry
<1> QED BY <1>3, <1>4, <1>5, <1>7

\* What a request that repairs goes on with is good.
LEMMA RepairGood ==
  ASSUME IInv, NEW r \in Requests, pc[r] \in {"repair", "reapply"},
         NEW step \in {"repair", "complete"}, NEW entry \in Jobs,
         entry.event = job[r].event, entry.seen = job[r].seen,
         entry.known = job[r].known, entry.todo \subseteq Covers[job[r].event]
  PROVE  Good(step, entry) /\ Claimed(step, entry, batches) /\ step \in Steps
BY RequestTypes DEF Good, Claimed, Working, Steps

LEMMA RepairKeeps ==
  ASSUME IInv, NEW r \in Requests, Repair(r)
  PROVE  IInv'
<1> DEFINE e == job[r].event
<1>1. pc[r] = "repair" /\ UNCHANGED <<at, seats, histories, batches, editing, lost>>
  BY DEF Repair, storeVars
<1>2. /\ job[r] \in Jobs /\ e \in Events /\ Covers[e] \in SUBSET Seats
      /\ job[r].known = Covers[e] /\ job[r].todo \subseteq Covers[e]
      /\ OnRecord(e) = Covers[e] /\ batches[e] # "none"
      /\ \A s \in Covers[e] : job[r].seen[s] \in Documents /\ Fresh(s, job[r].seen[s])
      /\ histories \in SUBSET Histories
  BY <1>1, RequestTypes, Observed DEF Working, Claimed, Good
<1>3. PICK h \in Stored(r, job[r].todo) :
        \/ Repaired(r, h.seat)
        \/ Answer(r, "missing")
        \/ /\ Repairs(h, seats[h.seat])
           /\ job' = [job EXCEPT ![r].seen = Read(r, {h.seat}), ![r].fix = h.seat]
           /\ Go(r, "reapply")
  BY DEF Repair
<1>4. h \in histories /\ h.event = e /\ h.seat \in Covers[e] /\ h.seat \in Seats
  BY <1>2, <1>3 DEF Stored, Histories
<1>5. CASE Repaired(r, h.seat)
  <2>1. PICK step \in {"repair", "complete"}, entry \in Jobs :
          /\ pc' = [pc EXCEPT ![r] = step] /\ job' = [job EXCEPT ![r] = entry]
          /\ entry.event = job[r].event /\ entry.seen = job[r].seen
          /\ entry.known = job[r].known /\ entry.todo \subseteq Covers[job[r].event]
    BY <1>1, <1>4, <1>5, RepairedGood
  <2>2. Good(step, entry) /\ Claimed(step, entry, batches) /\ step \in Steps
    BY <1>1, <2>1, RepairGood
  <2> QED BY <1>1, <2>1, <2>2, RequestTypes, LocalStep
<1>6. CASE Answer(r, "missing")
  BY <1>1, <1>6, RequestTypes, AnswerKeeps DEF Ended
<1>7. CASE /\ Repairs(h, seats[h.seat])
           /\ job' = [job EXCEPT ![r].seen = Read(r, {h.seat}), ![r].fix = h.seat]
           /\ Go(r, "reapply")
  <2> DEFINE seen == Read(r, {h.seat})
             entry == [job[r] EXCEPT !.seen = seen, !.fix = h.seat]
  <2>1. pc' = [pc EXCEPT ![r] = "reapply"] /\ job' = [job EXCEPT ![r] = entry]
    BY <1>7 DEF Go
  <2>2. /\ seen \in [Seats -> Copies]
        /\ seen[h.seat] \in Documents /\ Fresh(h.seat, seen[h.seat])
        /\ \A s \in Seats \ {h.seat} : seen[s] = job[r].seen[s]
    BY <1>4, ReadFresh
  <2>3. \A s \in Covers[e] : seen[s] \in Documents /\ Fresh(s, seen[s])
    BY <1>2, <2>2
  <2>4. AppliedTo(h.seat, e)
    BY <1>4, <1>7 DEF AppliedTo, Repairs
  <2> HIDE DEF seen
  <2>5. /\ entry \in Jobs /\ entry.event = e /\ entry.seen = seen /\ entry.fix = h.seat
        /\ entry.known = job[r].known /\ entry.todo = job[r].todo
    BY <1>2, <1>4, <2>2 DEF Jobs
  <2> HIDE DEF entry
  <2>6. Good("reapply", entry) /\ Claimed("reapply", entry, batches) /\ "reapply" \in Steps
    BY <1>2, <1>4, <2>3, <2>4, <2>5 DEF Good, Claimed, Working, Steps
  <2> QED BY <1>1, <2>1, <2>5, <2>6, RequestTypes, LocalStep
<1> QED BY <1>3, <1>5, <1>6, <1>7

-----------------------------------------------------------------------------
(* Steps that write the store.                                             *)

\* Away from the lost seats a seat keeps what it shows or gets a greater version, and
\* nothing is taken from the record.
Grows ==
  /\ lost \subseteq lost' /\ histories \subseteq histories' /\ batches' = batches
  /\ \A s \in Seats \ lost' :
       \/ seats'[s].version > seats[s].version
       \/ seats'[s].version = seats[s].version /\ seats'[s].event = seats[s].event

\* So what requests and edits have read stays good.
LEMMA FreshStays ==
  ASSUME IInv, seats' \in [Seats -> Documents], Grows,
         NEW s \in Seats, NEW doc \in Documents, Fresh(s, doc)
  PROVE  Fresh(s, doc)'
<1>1. doc.version \in Nat /\ seats[s].version \in Nat /\ seats'[s].version \in Nat
  BY DEF IInv, TypeOK, Documents
<1> QED BY <1>1 DEF Fresh, Grows

LEMMA GrowsGood ==
  ASSUME IInv, seats' \in [Seats -> Documents], histories' \in SUBSET Histories,
         BatchIsWhole', Grows,
         NEW step \in Steps, NEW entry \in Jobs, Good(step, entry), Claimed(step, entry, batches)
  PROVE  Good(step, entry)' /\ Claimed(step, entry, batches)'
<1>1. CASE step \notin Working
  BY <1>1 DEF Good, Claimed, Working
<1>2. CASE step \in Working
  <2>1. entry.event \in Events /\ Covers[entry.event] \in SUBSET Seats
    BY <1>2, OccupancyAssumption DEF Good
  <2>2. \A s \in Seats : \A e : AppliedTo(s, e) => AppliedTo(s, e)'
    BY DEF AppliedTo, Grows
  <2>3. OnRecord(entry.event) = Covers[entry.event] => OnRecord(entry.event)' = Covers[entry.event]
    <3>1. OnRecord(entry.event) \subseteq OnRecord(entry.event)'
      BY DEF OnRecord, Grows
    <3> QED BY <2>1, <3>1, OccupancyAssumption DEF BatchIsWhole
  <2>4. \A s \in Covers[entry.event] :
          entry.seen[s] \in Documents /\ Fresh(s, entry.seen[s]) => Fresh(s, entry.seen[s])'
    BY <2>1, FreshStays
  <2>5. Good(step, entry)'
    BY <2>1, <2>2, <2>3, <2>4 DEF Good
  <2> QED BY <2>5 DEF Claimed, Grows
<1> QED BY <1>1, <1>2

LEMMA GrowsCopied ==
  ASSUME IInv, seats' \in [Seats -> Documents], Grows, NEW d \in Editors,
         editing'[d] = editing[d]
  PROVE  Copied(editing[d])'
<1>1. Copied(editing[d])
  BY DEF IInv
<1>2. \A s \in Seats : \A e : AppliedTo(s, e) => AppliedTo(s, e)'
  BY DEF AppliedTo, Grows
<1> QED BY <1>1, <1>2, FreshStays DEF Copied, Grows

\* The optimistic lock: a transaction whose versions fit gives its event to seats that
\* show nothing newer, and leaves seats alone that show the event or something newer.
LEMMA Lock ==
  ASSUME IInv, NEW r \in Requests, pc[r] \in {"commit", "reapply"},
         NEW S \in SUBSET Covers[job[r].event], Fits(r, S), NEW s \in Seats
  PROVE  /\ SeatsAfter(r, S)[s] \in Documents
         /\ \/ SeatsAfter(r, S)[s] = seats[s]
            \/ /\ s \in S
               /\ SeatsAfter(r, S)[s].event = job[r].event
               /\ SeatsAfter(r, S)[s].version = seats[s].version + 1
               /\ NotOlder(at[job[r].event], job[r].seen[s])
               /\ s \notin lost => NotOlder(at[job[r].event], seats[s])
         /\ s \in S /\ s \notin lost /\ SeatsAfter(r, S)[s] = seats[s] =>
              seats[s].event # None /\ at[job[r].event] <= at[seats[s].event]
<1> DEFINE e == job[r].event
           doc == job[r].seen[s]
<1>1. /\ e \in Events /\ seats[s] \in Documents /\ Covers[e] \in SUBSET Seats
      /\ at \in [Events -> Nat]
      /\ \A f \in Events : at[f] \in Nat
  BY RequestTypes, Observed, OccupancyAssumption DEF Working
<1>2. s \in S => /\ doc \in Documents /\ Fresh(s, doc) /\ seats[s].version = doc.version
                 /\ doc.version \in Nat
  BY RequestTypes DEF Good, Working, Fits, Documents
<1>3. s \in S /\ s \notin lost => doc.event = seats[s].event
  BY <1>2 DEF Fresh
<1>4. seats[s].version \in Nat /\ seats[s].event \in Events \cup {None}
  BY <1>1 DEF Documents
<1>5. CASE s \in S /\ NotOlder(at[e], doc) /\ doc.event # e
  <2>1. SeatsAfter(r, S)[s] = [status |-> seats[s].status, version |-> doc.version + 1,
                               event |-> e]
    BY <1>5 DEF SeatsAfter
  <2>2. SeatsAfter(r, S)[s] \in Documents
    BY <1>1, <1>2, <1>5, <2>1 DEF Documents
  <2>3. SeatsAfter(r, S)[s] # seats[s]
    BY <1>2, <1>4, <1>5, <2>1
  <2>4. s \notin lost => NotOlder(at[e], seats[s])
    BY <1>3, <1>5 DEF NotOlder
  <2> QED BY <1>2, <1>5, <2>1, <2>2, <2>3, <2>4
<1>6. CASE ~(s \in S /\ NotOlder(at[e], doc) /\ doc.event # e)
  <2>1. SeatsAfter(r, S)[s] = seats[s]
    BY <1>6 DEF SeatsAfter
  <2>2. s \in S /\ s \notin lost => seats[s].event # None /\ at[e] <= at[seats[s].event]
    <3> SUFFICES ASSUME s \in S, s \notin lost
                 PROVE  seats[s].event # None /\ at[e] <= at[seats[s].event]
      OBVIOUS
    <3>1. CASE doc.event = e
      BY <1>1, <1>3, <3>1, OccupancyAssumption
    <3>2. CASE ~NotOlder(at[e], doc)
      BY <1>1, <1>3, <1>4, <3>2 DEF NotOlder
    <3> QED BY <1>6, <3>1, <3>2
  <2> QED BY <1>1, <2>1, <2>2
<1> QED BY <1>5, <1>6

\* A step that gives seats to an event on record keeps what the seats show on record
\* and the newest.
LEMMA ShownStays ==
  ASSUME IInv, NEW e \in Events, NEW S \in SUBSET Seats, at' = at, lost' = lost,
         histories \subseteq histories', histories' \in SUBSET Histories,
         batches' = batches, batches[e] # "none",
         seats' \in [Seats -> Documents],
         \A h \in histories' \ histories : h.event = e /\ h.seat \in S,
         \A s \in Seats :
           \/ seats'[s] = seats[s]
           \/ s \in S /\ seats'[s].event = e /\ AppliedTo(s, e)'
              /\ (s \notin lost => NotOlder(at[e], seats[s])),
         \A s \in Seats \ lost : s \in S /\ seats'[s] = seats[s] =>
           seats[s].event # None /\ at[e] <= at[seats[s].event]
  PROVE  CurrentIsOnRecord' /\ NewestIsShown'
<1>1. CurrentIsOnRecord'
  BY DEF IInv, CurrentIsOnRecord, AppliedTo
<1>2. ASSUME NEW s \in Seats \ lost, NEW h \in histories', h.seat = s
      PROVE  seats'[s].event # None /\ at[h.event] <= at[seats'[s].event]
  <2>1. /\ \A f \in Events : at[f] \in Nat
        /\ h.event \in Events /\ seats[s].event \in Events \cup {None}
    BY <1>2, OccupancyAssumption DEF IInv, TypeOK, Histories, Documents
  <2>2. CASE h \in histories
    <3>1. seats[s].event # None /\ at[h.event] <= at[seats[s].event]
      BY <1>2, <2>2 DEF IInv, NewestIsShown
    <3>2. CASE seats'[s] = seats[s]
      BY <3>1, <3>2
    <3>3. CASE seats'[s].event = e /\ NotOlder(at[e], seats[s])
      BY <2>1, <3>1, <3>3, OccupancyAssumption DEF NotOlder
    <3> QED BY <3>2, <3>3
  <2>3. CASE h \notin histories
    <3>1. h.event = e /\ s \in S
      BY <1>2, <2>3
    <3>2. CASE seats'[s] = seats[s]
      BY <3>1, <3>2
    <3>3. CASE seats'[s].event = e
      BY <2>1, <3>1, <3>3, OccupancyAssumption
    <3> QED BY <3>2, <3>3
  <2> QED BY <2>2, <2>3
<1>3. NewestIsShown'
  BY <1>2 DEF NewestIsShown
<1> QED BY <1>1, <1>3

\* A step that writes the store for a request keeps the invariant.
LEMMA StoreStep ==
  ASSUME IInv, NEW r \in Requests, NEW step \in Steps, NEW entry \in Jobs,
         UNCHANGED <<at, editing>>,
         seats' \in [Seats -> Documents], histories' \in SUBSET Histories, lost' = lost,
         BatchIsWhole', CurrentIsOnRecord', NewestIsShown', Grows,
         pc' = [pc EXCEPT ![r] = step], job' = [job EXCEPT ![r] = entry],
         Good(step, entry)', Claimed(step, entry, batches)
  PROVE  IInv'
<1>1. TypeOK'
  BY DEF IInv, TypeOK, Steps, Batches, Grows
<1>2. ASSUME NEW q \in Requests
      PROVE  Good(pc[q], job[q])' /\ Claimed(pc[q], job[q], batches)'
  <2>1. CASE q = r
    <3>1. pc'[q] = step /\ job'[q] = entry
      BY <2>1 DEF IInv, TypeOK
    <3>2. Good(pc[q], job[q])'
      BY <3>1 DEF Good
    <3> QED BY <3>1, <3>2 DEF Claimed, Grows
  <2>2. CASE q # r
    <3>1. pc'[q] = pc[q] /\ job'[q] = job[q] /\ Good(pc[q], job[q]) /\ Claimed(pc[q], job[q], batches)
          /\ pc[q] \in Steps /\ job[q] \in Jobs
      BY <2>2, RequestTypes DEF IInv, TypeOK
    <3>2. \A st \in Steps, j \in Jobs : Good(st, j) /\ Claimed(st, j, batches) =>
            Good(st, j)' /\ Claimed(st, j, batches)'
      BY GrowsGood
    <3>3. Good(pc[q], job[q])'
      BY <3>1, <3>2 DEF Good
    <3> QED BY <3>1, <3>3 DEF Claimed, Grows
  <2> QED BY <2>1, <2>2
<1>3. ASSUME NEW d \in Editors PROVE Copied(editing[d])'
  BY GrowsCopied
<1> QED BY <1>1, <1>2, <1>3 DEF IInv

-----------------------------------------------------------------------------
(* The transactions.                                                       *)

Applies(r) ==
  /\ pc[r] = "commit" /\ Fits(r, Pending(r))
  /\ Stored(r, Pending(r)) \subseteq Built(r, Pending(r))
  /\ Apply(r, Pending(r)) /\ Go(r, "complete")
  /\ UNCHANGED <<job, at, batches, editing, lost>>

\* The histories that are built: one for each seat, judged by what the request has read.
LEMMA BuiltType ==
  ASSUME IInv, NEW r \in Requests, pc[r] = "commit"
  PROVE  LET e == job[r].event
             P == Pending(r) IN
         /\ e \in Events /\ P = Covers[e] /\ P \in SUBSET Seats
         /\ Built(r, P) \subseteq Histories
         /\ \A h \in Built(r, P) :
              /\ h.seat \in P /\ h.event = e
              /\ h.applied <=> NotOlder(at[e], job[r].seen[h.seat])
         /\ \A s \in P : \E h \in Built(r, P) : h.seat = s
         /\ \A g, h \in Built(r, P) : g.seat = h.seat => g = h
<1> DEFINE e == job[r].event
           P == Pending(r)
<1>1. /\ e \in Events /\ P = Covers[e] /\ P \in SUBSET Seats
      /\ \A s \in P : job[r].seen[s] \in Documents
  BY RequestTypes, Observed DEF Working, Good, Pending
<1>2. \A s \in P : StateIn(job[r].seen[s]) \in States
  BY <1>1, OccupancyAssumption DEF StateIn, States, Documents
<1>3. \A s \in P : NotOlder(at[e], job[r].seen[s]) \in BOOLEAN
  BY DEF NotOlder
<1> HIDE DEF P, e
<1>4. Built(r, P) = {History(e, s, job[r].seen[s]) : s \in P}
  BY DEF Built, e
<1>5. \A s \in P : LET h == History(e, s, job[r].seen[s]) IN
        /\ h \in Histories /\ h.seat = s /\ h.event = e
        /\ h.applied <=> NotOlder(at[e], job[r].seen[s])
  BY <1>1, <1>2, <1>3 DEF History, Histories
<1>6. /\ Built(r, P) \subseteq Histories
      /\ \A h \in Built(r, P) :
           /\ h.seat \in P /\ h.event = e
           /\ h.applied <=> NotOlder(at[e], job[r].seen[h.seat])
      /\ \A s \in P : \E h \in Built(r, P) : h.seat = s
      /\ \A g, h \in Built(r, P) : g.seat = h.seat => g = h
  BY <1>4, <1>5
<1> QED BY <1>1, <1>6 DEF P, e

\* The histories a commit leaves are whole batches.
LEMMA CommitWhole ==
  ASSUME IInv, NEW r \in Requests, Applies(r)
  PROVE  BatchIsWhole' /\ histories' \in SUBSET Histories
<1>0. PICK e \in Events : e = job[r].event
  BY BuiltType DEF Applies
<1> DEFINE P == Pending(r)
           new == Built(r, P)
<1>1. /\ P = Covers[e] /\ P \in SUBSET Seats
      /\ new \subseteq Histories
      /\ \A h \in new : h.seat \in P /\ h.event = e
      /\ \A s \in P : \E h \in new : h.seat = s
      /\ \A g, h \in new : g.seat = h.seat => g = h
  BY <1>0, BuiltType DEF Applies
<1>2. histories' = histories \cup new /\ Stored(r, P) \subseteq new /\ batches' = batches
  BY DEF Applies, Apply
<1>3. BatchIsWhole /\ histories \subseteq Histories
  BY DEF IInv, TypeOK
<1> HIDE DEF new, P
<1>4. OnRecord(e)' = Covers[e]
  <2>1. \A h \in histories : h.event = e => h.seat \in Covers[e]
    BY <1>1, <1>3 DEF BatchIsWhole, OnRecord
  <2>2. OnRecord(e)' = {h.seat : h \in {x \in histories \cup new : x.event = e}}
    BY <1>2 DEF OnRecord
  <2> QED BY <1>1, <2>1, <2>2
<1>5. \A f \in Events \ {e} : OnRecord(f)' = OnRecord(f)
  <2>1. \A f \in Events \ {e} :
          {x \in histories \cup new : x.event = f} = {x \in histories : x.event = f}
    BY <1>1
  <2> QED BY <1>2, <2>1 DEF OnRecord
<1>6. \A g, h \in histories' : g.event = h.event /\ g.seat = h.seat => g = h
  <2>1. \A h \in histories : h.event = e => h \in new
    <3>1. \A h \in histories : h.event = e => h.seat \in P
      BY <1>1, <1>3 DEF BatchIsWhole, OnRecord
    <3> QED BY <1>0, <1>2, <3>1 DEF Stored
  <2> QED BY <1>1, <1>2, <1>3, <2>1 DEF BatchIsWhole
<1> QED BY <1>1, <1>2, <1>3, <1>4, <1>5, <1>6 DEF BatchIsWhole

LEMMA AppliesKeeps ==
  ASSUME IInv, NEW r \in Requests, Applies(r)
  PROVE  IInv'
<1>0. PICK e \in Events, j \in Jobs : e = j.event /\ j = job[r]
  BY BuiltType, RequestTypes DEF Applies
<1> DEFINE P == Pending(r)
<1>1. /\ pc[r] = "commit" /\ Fits(r, P) /\ UNCHANGED <<at, editing>> /\ lost' = lost
      /\ histories' = histories \cup Built(r, P) /\ seats' = SeatsAfter(r, P)
      /\ batches' = batches /\ pc' = [pc EXCEPT ![r] = "complete"] /\ job' = job
  BY DEF Applies, Apply, Go
<1>2. /\ P = Covers[e] /\ P \in SUBSET Seats
      /\ \A h \in Built(r, P) : h.seat \in P /\ h.event = e
      /\ \A h \in Built(r, P) : h.applied <=> NotOlder(at[e], job[r].seen[h.seat])
      /\ \A s \in P : \E h \in Built(r, P) : h.seat = s
  BY <1>0, <1>1, BuiltType
<1>3. BatchIsWhole' /\ histories' \in SUBSET Histories
  BY CommitWhole
<1>4. \A s \in Seats :
         /\ SeatsAfter(r, P)[s] \in Documents
         /\ \/ SeatsAfter(r, P)[s] = seats[s]
            \/ /\ s \in P
               /\ SeatsAfter(r, P)[s].event = e
               /\ SeatsAfter(r, P)[s].version = seats[s].version + 1
               /\ NotOlder(at[e], job[r].seen[s])
               /\ s \notin lost => NotOlder(at[e], seats[s])
         /\ s \in P /\ s \notin lost /\ SeatsAfter(r, P)[s] = seats[s] =>
              seats[s].event # None /\ at[e] <= at[seats[s].event]
  BY <1>0, <1>1, <1>2, Lock
<1>5. seats' \in [Seats -> Documents]
  BY <1>1, <1>4 DEF SeatsAfter
<1>6. \A s \in Seats : NotOlder(at[e], job[r].seen[s]) /\ s \in P => AppliedTo(s, e)'
  BY <1>1, <1>2 DEF AppliedTo
<1>7. batches[e] # "none" /\ Good("commit", j) /\ \A s \in Seats : seats[s].version \in Nat
  BY <1>0, <1>1, RequestTypes DEF Claimed, Documents
<1>8. CurrentIsOnRecord' /\ NewestIsShown'
  <2>1. \A h \in histories' \ histories : h.event = e /\ h.seat \in P
    BY <1>1, <1>2
  <2>2. histories \subseteq histories'
    BY <1>1
  <2>3. \A s \in Seats :
           \/ seats'[s] = seats[s]
           \/ s \in P /\ seats'[s].event = e /\ AppliedTo(s, e)'
              /\ (s \notin lost => NotOlder(at[e], seats[s]))
    BY <1>1, <1>4, <1>6
  <2>4. \A s \in Seats \ lost : s \in P /\ seats'[s] = seats[s] =>
           seats[s].event # None /\ at[e] <= at[seats[s].event]
    BY <1>1, <1>4
  <2> HIDE DEF P
  <2>5. at' = at /\ lost' = lost /\ batches' = batches /\ batches[e] # "none" /\ P \in SUBSET Seats
    BY <1>1, <1>2, <1>7
  <2> QED BY <1>0, <1>3, <1>5, <2>1, <2>2, <2>3, <2>4, <2>5, ShownStays
<1>9. Grows
  BY <1>1, <1>4, <1>7 DEF Grows
<1>10. job' = [job EXCEPT ![r] = j]
  BY <1>0, <1>1 DEF IInv, TypeOK
<1>11. Good("complete", j)' /\ Claimed("complete", j, batches) /\ "complete" \in Steps
  <2>1. OnRecord(e)' = Covers[e]
    <3>1. Covers[e] # {} /\ OnRecord(e)' \in {{}, Covers[e]}
      BY <1>3, OccupancyAssumption DEF BatchIsWhole
    <3>2. OnRecord(e)' # {}
      BY <1>1, <1>2, <3>1 DEF OnRecord
    <3> QED BY <3>1, <3>2
  <2>2. \A s \in Covers[e] : j.seen[s] \in Documents /\ Fresh(s, j.seen[s])'
    BY <1>0, <1>2, <1>5, <1>7, <1>9, FreshStays DEF Good, Working
  <2> QED BY <1>0, <1>7, <2>1, <2>2 DEF Good, Claimed, Working, Steps
<1> HIDE DEF P
<1> QED BY <1>1, <1>3, <1>5, <1>8, <1>9, <1>10, <1>11, StoreStep

LEMMA CommitKeeps ==
  ASSUME IInv, NEW r \in Requests, Commit(r)
  PROVE  IInv'
<1>1. pc[r] = "commit" /\ UNCHANGED <<at, batches, editing, lost>>
  BY DEF Commit
<1>2. CASE \E answer \in Ended : Answer(r, answer) /\ UNCHANGED <<seats, histories>>
  BY <1>1, <1>2, RequestTypes, AnswerKeeps
<1>3. CASE /\ MayRetry(r) /\ UNCHANGED <<seats, histories>>
           /\ Go(r, "reread") /\ job' = [job EXCEPT ![r].attempt = job[r].attempt + 1]
  <2> DEFINE entry == [job[r] EXCEPT !.attempt = job[r].attempt + 1]
  <2>1. job[r] \in Jobs /\ Good("commit", job[r]) /\ Claimed("commit", job[r], batches)
    BY <1>1, RequestTypes
  <2>2. job[r].attempt + 1 \in 0..RetryLimit
    BY <1>3, <2>1, OccupancyAssumption DEF MayRetry, Jobs
  <2>3. /\ entry \in Jobs /\ entry.event = job[r].event /\ entry.seen = job[r].seen
        /\ entry.known = job[r].known
    BY <2>1, <2>2 DEF Jobs
  <2>4. pc' = [pc EXCEPT ![r] = "reread"] /\ job' = [job EXCEPT ![r] = entry]
    BY <1>3 DEF Go
  <2> HIDE DEF entry
  <2>5. Good("reread", entry) /\ Claimed("reread", entry, batches) /\ "reread" \in Steps
    BY <2>1, <2>3 DEF Good, Claimed, Working, Steps
  <2> QED BY <1>1, <1>3, <2>3, <2>4, <2>5, RequestTypes, LocalStep
<1>4. CASE Applies(r)
  BY <1>4, AppliesKeeps
<1>5. QED
  BY <1>1, <1>2, <1>3, <1>4 DEF Commit, Applies, Ended

\* A repair that writes: only the seat.
Writes(r) ==
  /\ pc[r] = "reapply" /\ Fits(r, {job[r].fix})
  /\ seats' = SeatsAfter(r, {job[r].fix})
  /\ Repaired(r, job[r].fix)
  /\ UNCHANGED <<at, batches, histories, editing, lost>>

LEMMA WritesKeeps ==
  ASSUME IInv, NEW r \in Requests, Writes(r)
  PROVE  IInv'
<1>0. PICK e \in Events : e = job[r].event
  BY RequestTypes DEF Writes, Good, Working
<1>1. /\ pc[r] = "reapply" /\ UNCHANGED <<editing>> /\ at' = at /\ lost' = lost
      /\ histories' = histories /\ seats' = SeatsAfter(r, {job[r].fix}) /\ batches' = batches
      /\ Fits(r, {job[r].fix}) /\ Repaired(r, job[r].fix)
  BY DEF Writes
<1>2. /\ job[r].fix \in Covers[e] /\ AppliedTo(job[r].fix, e) /\ batches[e] # "none"
      /\ Covers[e] \in SUBSET Seats /\ histories \in SUBSET Histories
      /\ \A s \in Seats : seats[s].version \in Nat
  BY <1>0, <1>1, RequestTypes, Observed DEF Good, Claimed, Working, Documents
<1>3. \A s \in Seats :
         /\ SeatsAfter(r, {job[r].fix})[s] \in Documents
         /\ \/ SeatsAfter(r, {job[r].fix})[s] = seats[s]
            \/ /\ s \in {job[r].fix}
               /\ SeatsAfter(r, {job[r].fix})[s].event = e
               /\ SeatsAfter(r, {job[r].fix})[s].version = seats[s].version + 1
               /\ NotOlder(at[e], job[r].seen[s])
               /\ s \notin lost => NotOlder(at[e], seats[s])
         /\ s \in {job[r].fix} /\ s \notin lost /\ SeatsAfter(r, {job[r].fix})[s] = seats[s] =>
              seats[s].event # None /\ at[e] <= at[seats[s].event]
  BY <1>0, <1>1, <1>2, Lock
<1>4. seats' \in [Seats -> Documents]
  BY <1>1, <1>3 DEF SeatsAfter
<1>5. BatchIsWhole'
  BY <1>1 DEF IInv, BatchIsWhole, OnRecord
<1>6. CurrentIsOnRecord' /\ NewestIsShown'
  <2> DEFINE S == {job[r].fix}
  <2>1. S \in SUBSET Seats
    BY <1>2
  <2>2. \A s \in Seats :
           \/ seats'[s] = seats[s]
           \/ s \in S /\ seats'[s].event = e /\ AppliedTo(s, e)'
              /\ (s \notin lost => NotOlder(at[e], seats[s]))
    BY <1>1, <1>2, <1>3 DEF AppliedTo
  <2>3. \A s \in Seats \ lost : s \in S /\ seats'[s] = seats[s] =>
           seats[s].event # None /\ at[e] <= at[seats[s].event]
    BY <1>1, <1>3
  <2>4. \A h \in histories' \ histories : h.event = e /\ h.seat \in S
    BY <1>1
  <2>5. histories \subseteq histories' /\ histories' \in SUBSET Histories
    BY <1>1, <1>2
  <2> HIDE DEF S
  <2> QED BY <1>0, <1>1, <1>2, <1>4, <2>1, <2>2, <2>3, <2>4, <2>5, ShownStays
<1>7. Grows
  <2>1. \A s \in Seats : seats'[s] = seats[s] \/ seats'[s].version = seats[s].version + 1
    BY <1>1, <1>3
  <2>2. \A s \in Seats :
          seats'[s].version > seats[s].version
            \/ (seats'[s].version = seats[s].version /\ seats'[s].event = seats[s].event)
    BY <1>2, <2>1
  <2> QED BY <1>1, <2>2 DEF Grows
<1>8. PICK step \in {"repair", "complete"}, entry \in Jobs :
        /\ pc' = [pc EXCEPT ![r] = step] /\ job' = [job EXCEPT ![r] = entry]
        /\ entry.event = job[r].event /\ entry.seen = job[r].seen
        /\ entry.known = job[r].known /\ entry.todo \subseteq Covers[job[r].event]
  BY <1>1, <1>2, RepairedGood
<1>9. Good(step, entry) /\ Claimed(step, entry, batches) /\ step \in Steps
  BY <1>1, <1>8, RepairGood
<1>10. Good(step, entry)'
  BY <1>1, <1>2, <1>4, <1>5, <1>7, <1>9, GrowsGood
<1> QED BY <1>1, <1>2, <1>4, <1>5, <1>6, <1>7, <1>8, <1>9, <1>10, StoreStep

LEMMA ReapplyKeeps ==
  ASSUME IInv, NEW r \in Requests, Reapply(r)
  PROVE  IInv'
<1>1. pc[r] = "reapply" /\ UNCHANGED <<at, batches, histories, editing, lost>>
  BY DEF Reapply
<1>2. CASE \E answer \in Ended : Answer(r, answer) /\ UNCHANGED seats
  BY <1>1, <1>2, RequestTypes, AnswerKeeps
<1>3. CASE /\ MayRetry(r) /\ UNCHANGED seats
           /\ Go(r, "repair") /\ job' = [job EXCEPT ![r].attempt = job[r].attempt + 1]
  <2> DEFINE entry == [job[r] EXCEPT !.attempt = job[r].attempt + 1]
  <2>1. job[r] \in Jobs /\ Good("reapply", job[r]) /\ Claimed("reapply", job[r], batches)
    BY <1>1, RequestTypes
  <2>2. job[r].attempt + 1 \in 0..RetryLimit
    BY <1>3, <2>1, OccupancyAssumption DEF MayRetry, Jobs
  <2>3. /\ entry \in Jobs /\ entry.event = job[r].event /\ entry.seen = job[r].seen
        /\ entry.known = job[r].known /\ entry.todo = job[r].todo
    BY <2>1, <2>2 DEF Jobs
  <2>4. pc' = [pc EXCEPT ![r] = "repair"] /\ job' = [job EXCEPT ![r] = entry]
    BY <1>3 DEF Go
  <2> HIDE DEF entry
  <2>5. Good("repair", entry) /\ Claimed("repair", entry, batches) /\ "repair" \in Steps
    BY <2>1, <2>3 DEF Good, Claimed, Working, Steps
  <2> QED BY <1>1, <1>3, <2>3, <2>4, <2>5, RequestTypes, LocalStep
<1>4. CASE Writes(r)
  BY <1>4, WritesKeeps
<1> QED BY <1>1, <1>2, <1>3, <1>4 DEF Reapply, Writes, Ended

-----------------------------------------------------------------------------
(* The edits.                                                              *)

\* An edit that writes a seat keeps the invariant when what it leaves is on record, and
\* the newest unless the seat is lost.
LEMMA EditStep ==
  ASSUME IInv, NEW d \in Editors, NEW s \in Seats, NEW entry,
         entry \in [step : {"idle", "read", "done"}, seat : Seats \cup {None}, copy : Copies],
         UNCHANGED <<at, batches, histories, pc, job>>,
         editing' = [editing EXCEPT ![d] = entry], Copied(entry)',
         lost' \in SUBSET Seats, lost \subseteq lost',
         NEW doc \in Documents, seats' = [seats EXCEPT ![s] = doc],
         doc.event # None => AppliedTo(s, doc.event) /\ batches[doc.event] # "none",
         s \notin lost' => doc.version = seats[s].version /\ doc.event = seats[s].event
  PROVE  IInv'
<1>1. /\ seats \in [Seats -> Documents] /\ histories \in SUBSET Histories
      /\ seats' \in [Seats -> Documents] /\ seats'[s] = doc
      /\ \A t \in Seats \ {s} : seats'[t] = seats[t]
      /\ \A t \in Seats : seats[t].version \in Nat
  BY DEF IInv, TypeOK, Documents
<1>2. TypeOK'
  BY <1>1 DEF IInv, TypeOK
<1>3. BatchIsWhole'
  BY DEF IInv, BatchIsWhole, OnRecord
<1>4. CurrentIsOnRecord'
  BY <1>1 DEF IInv, CurrentIsOnRecord, AppliedTo
<1>5. NewestIsShown'
  <2>1. \A t \in Seats \ lost' : seats'[t].event = seats[t].event
    BY <1>1
  <2> QED BY <2>1 DEF IInv, NewestIsShown
<1>6. Grows
  BY <1>1 DEF Grows
<1>7. ASSUME NEW q \in Requests
      PROVE  Good(pc[q], job[q])' /\ Claimed(pc[q], job[q], batches)'
  <2>1. pc'[q] = pc[q] /\ job'[q] = job[q] /\ Good(pc[q], job[q]) /\ Claimed(pc[q], job[q], batches)
        /\ pc[q] \in Steps /\ job[q] \in Jobs /\ histories' \in SUBSET Histories
    BY <1>1, RequestTypes
  <2>2. \A st \in Steps, j \in Jobs : Good(st, j) /\ Claimed(st, j, batches) =>
          Good(st, j)' /\ Claimed(st, j, batches)'
    BY <1>1, <1>3, <1>6, <2>1, GrowsGood
  <2>3. Good(pc[q], job[q])'
    BY <2>1, <2>2 DEF Good
  <2> QED BY <2>1, <2>3 DEF Claimed
<1>8. ASSUME NEW c \in Editors PROVE Copied(editing[c])'
  <2>1. CASE c = d
    <3>1. editing'[c] = entry
      BY <2>1 DEF IInv, TypeOK
    <3> QED BY <3>1 DEF Copied
  <2>2. CASE c # d
    <3>1. editing'[c] = editing[c]
      BY <2>2 DEF IInv, TypeOK
    <3> QED BY <1>1, <1>6, <3>1, GrowsCopied
  <2> QED BY <2>1, <2>2
<1> QED BY <1>2, <1>3, <1>4, <1>5, <1>7, <1>8 DEF IInv

\* An edit that is over, and what is known of one that is open.
LEMMA EditFacts ==
  ASSUME IInv, NEW d \in Editors
  PROVE  /\ [NoEdit EXCEPT !.step = "done"]
              \in [step : {"idle", "read", "done"}, seat : Seats \cup {None}, copy : Copies]
         /\ [NoEdit EXCEPT !.step = "done"].step = "done"
         /\ \A s \in Seats : seats[s] \in Documents /\ [seats EXCEPT ![s] = seats[s]] = seats
         /\ \A s \in Seats : seats[s].event # None =>
              AppliedTo(s, seats[s].event) /\ batches[seats[s].event] # "none"
         /\ Copied(editing[d])
<1>1. seats \in [Seats -> Documents]
  BY DEF IInv, TypeOK
<1>2. \A s \in Seats : seats[s].event # None =>
        AppliedTo(s, seats[s].event) /\ batches[seats[s].event] # "none"
  BY DEF IInv, CurrentIsOnRecord, AppliedTo
<1> QED BY <1>1, <1>2 DEF IInv, NoEdit, Copies

LEMMA EditReadKeeps ==
  ASSUME IInv, NEW d \in Editors, NEW s \in Seats, EditRead(d, s)
  PROVE  IInv'
<1> DEFINE entry == [step |-> "read", seat |-> s, copy |-> seats[s]]
<1>1. /\ UNCHANGED <<at, batches, histories, pc, job>> /\ lost' = lost /\ seats' = seats
      /\ editing' = [editing EXCEPT ![d] = entry]
  BY DEF EditRead, storeVars
<1>2. seats[s] \in Documents /\ seats' = [seats EXCEPT ![s] = seats[s]]
      /\ (seats[s].event # None => AppliedTo(s, seats[s].event) /\ batches[seats[s].event] # "none")
  BY <1>1, EditFacts
<1>3. entry \in [step : {"idle", "read", "done"}, seat : Seats \cup {None}, copy : Copies]
  BY <1>2 DEF Copies
<1>4. PICK e : e = entry
  OBVIOUS
<1>5. Copied(e)'
  <2>1. seats[s].version \in Nat
    BY <1>2 DEF Documents
  <2>2. e.step = "read" /\ e.seat = s /\ e.copy = seats[s]
    BY <1>4
  <2>3. Fresh(s, e.copy)'
    BY <1>1, <2>1, <2>2 DEF Fresh
  <2>4. e.copy.event # None => AppliedTo(s, e.copy.event)' /\ batches'[e.copy.event] # "none"
    BY <1>1, <1>2, <2>2 DEF AppliedTo
  <2> QED BY <1>2, <2>2, <2>3, <2>4 DEF Copied
<1>6. lost' \in SUBSET Seats
  BY <1>1 DEF IInv, TypeOK
<1> HIDE DEF entry
<1> QED BY <1>1, <1>2, <1>3, <1>4, <1>5, <1>6, EditStep

LEMMA EditWriteKeeps ==
  ASSUME IInv, NEW d \in Editors, EditWrite(d)
  PROVE  IInv'
<1> DEFINE s == editing[d].seat
           copy == editing[d].copy
           over == [NoEdit EXCEPT !.step = "done"]
<1>1. /\ editing[d].step = "read" /\ UNCHANGED <<at, batches, histories, pc, job>>
      /\ editing' = [editing EXCEPT ![d] = over]
  BY DEF EditWrite
<1>2. /\ s \in Seats /\ copy \in Documents /\ Fresh(s, copy)
      /\ copy.event # None => AppliedTo(s, copy.event) /\ batches[copy.event] # "none"
      /\ lost \in SUBSET Seats
  BY <1>1, EditFacts DEF Copied, IInv, TypeOK
<1>3. Copied(over)'
  BY EditFacts DEF Copied, NoEdit
<1>4. CASE Exists(s)
  <2>1. PICK status \in {"active", "inactive"} : seats' = [seats EXCEPT ![s] = [copy EXCEPT !.status = status]]
    BY <1>4 DEF EditWrite
  <2>2. lost' = IF copy.version = seats[s].version THEN lost ELSE lost \cup {s}
    BY <1>4 DEF EditWrite
  <2>3. PICK doc \in Documents : doc = [copy EXCEPT !.status = status]
    BY <1>2 DEF Documents
  <2>4. doc.event = copy.event /\ doc.version = copy.version
    BY <1>2, <2>3 DEF Documents
  <2>5. s \notin lost' => doc.version = seats[s].version /\ doc.event = seats[s].event
    BY <1>2, <2>2, <2>4 DEF Fresh
  <2>6. doc.event # None => AppliedTo(s, doc.event) /\ batches[doc.event] # "none"
    BY <1>2, <2>4
  <2>7. seats' = [seats EXCEPT ![s] = doc] /\ lost' \in SUBSET Seats /\ lost \subseteq lost'
    BY <1>2, <2>1, <2>2, <2>3
  <2> HIDE DEF over, s, copy
  <2> QED BY <1>1, <1>2, <1>3, <2>5, <2>6, <2>7, EditFacts, EditStep DEF over
<1>5. CASE ~Exists(s)
  <2>1. UNCHANGED <<seats, lost>>
    BY <1>5 DEF EditWrite
  <2>2. seats' = [seats EXCEPT ![s] = seats[s]] /\ seats[s] \in Documents
        /\ (seats[s].event # None => AppliedTo(s, seats[s].event) /\ batches[seats[s].event] # "none")
    BY <1>2, <2>1, EditFacts
  <2> HIDE DEF over, s
  <2> QED BY <1>1, <1>2, <1>3, <2>1, <2>2, EditFacts, EditStep DEF over
<1> QED BY <1>4, <1>5

LEMMA DeleteKeeps ==
  ASSUME IInv, NEW d \in Editors, Delete(d)
  PROVE  IInv'
<1> DEFINE s == editing[d].seat
           over == [NoEdit EXCEPT !.step = "done"]
<1>1. /\ editing[d].step = "read" /\ UNCHANGED <<at, batches, histories, pc, job>>
      /\ editing' = [editing EXCEPT ![d] = over] /\ lost' = lost
  BY DEF Delete
<1>2. s \in Seats /\ lost \in SUBSET Seats /\ seats[s] \in Documents
  BY <1>1, EditFacts DEF Copied, IInv, TypeOK
<1>3. Copied(over)'
  BY EditFacts DEF Copied, NoEdit
<1>4. PICK doc \in Documents :
        /\ seats' = [seats EXCEPT ![s] = doc]
        /\ doc.event = seats[s].event /\ doc.version = seats[s].version
  <2>1. CASE Exists(s)
    <3> DEFINE gone == [seats[s] EXCEPT !.status = "gone"]
    <3>1. seats' = [seats EXCEPT ![s] = gone]
      BY <2>1 DEF Delete
    <3>2. gone \in Documents /\ gone.event = seats[s].event /\ gone.version = seats[s].version
      BY <1>2 DEF Documents
    <3> HIDE DEF gone, s
    <3> QED BY <3>1, <3>2
  <2>2. CASE ~Exists(s)
    <3>1. seats' = seats
      BY <2>2 DEF Delete
    <3>2. seats' = [seats EXCEPT ![s] = seats[s]]
      BY <1>2, <3>1, EditFacts
    <3> HIDE DEF s
    <3> QED BY <1>2, <3>2
  <2> QED BY <2>1, <2>2
<1>5. doc.event # None => AppliedTo(s, doc.event) /\ batches[doc.event] # "none"
  BY <1>2, <1>4, EditFacts
<1> HIDE DEF over, s
<1> QED BY <1>1, <1>2, <1>3, <1>4, <1>5, EditFacts, EditStep DEF over

-----------------------------------------------------------------------------
LEMMA InitIInv == Init => IInv
<1> SUFFICES ASSUME Init PROVE IInv
  OBVIOUS
<1>1. TypeOK
  <2>1. NoEdit \in [step : {"idle", "read", "done"}, seat : Seats \cup {None}, copy : Copies]
    BY DEF NoEdit, Copies
  <2>2. [status |-> "active", version |-> 0, event |-> None] \in Documents
    BY DEF Documents
  <2> QED BY <2>1, <2>2, NoJobType DEF Init, TypeOK
<1>2. BatchIsWhole /\ CurrentIsOnRecord /\ NewestIsShown
  BY DEF Init, BatchIsWhole, CurrentIsOnRecord, NewestIsShown, OnRecord
<1>3. \A r \in Requests : Good(pc[r], job[r]) /\ Claimed(pc[r], job[r], batches)
  BY DEF Init, Good, Claimed, Working
<1>4. \A d \in Editors : Copied(editing[d])
  BY DEF Init, Copied, NoEdit
<1> QED BY <1>1, <1>2, <1>3, <1>4 DEF IInv

LEMMA NextIInv == IInv /\ [Next]_vars => IInv'
<1> SUFFICES ASSUME IInv, [Next]_vars PROVE IInv'
  OBVIOUS
<1>1. CASE UNCHANGED vars
  <2>1. (TypeOK /\ BatchIsWhole /\ CurrentIsOnRecord /\ NewestIsShown)'
    BY <1>1 DEF IInv, TypeOK, BatchIsWhole, CurrentIsOnRecord, NewestIsShown, OnRecord,
                vars, storeVars
  <2>2. /\ \A s, doc : Fresh(s, doc)' = Fresh(s, doc)
        /\ \A s, e : AppliedTo(s, e)' = AppliedTo(s, e)
        /\ \A e : OnRecord(e)' = OnRecord(e)
    BY <1>1 DEF Fresh, AppliedTo, OnRecord, vars, storeVars
  <2>3. pc' = pc /\ job' = job /\ batches' = batches /\ editing' = editing
    BY <1>1 DEF vars, storeVars
  <2>4. \A r \in Requests : (Good(pc[r], job[r]) /\ Claimed(pc[r], job[r], batches))'
    BY <2>2, <2>3 DEF IInv, Good, Claimed
  <2>5. \A d \in Editors : Copied(editing[d])'
    BY <2>2, <2>3 DEF IInv, Copied
  <2> QED BY <2>1, <2>4, <2>5 DEF IInv
<1>2. ASSUME NEW r \in Requests, Handle(r) PROVE IInv'
  BY <1>2, PostKeeps, ReadSeatsKeeps, ClaimKeeps, ReadHistoriesKeeps, RepairKeeps,
     ReapplyKeeps, CommitKeeps, RereadKeeps, CompleteKeeps, FailKeeps DEF Handle
<1>3. ASSUME NEW d \in Editors, Administer(d) PROVE IInv'
  BY <1>3, EditReadKeeps, EditWriteKeeps, DeleteKeeps DEF Administer
<1> QED BY <1>1, <1>2, <1>3 DEF Next

-----------------------------------------------------------------------------
(* The ledger.                                                             *)

\* A seat that a transaction leaves alone shows its event or something newer.
LEMMA LeftAlone ==
  ASSUME IInv, NEW r \in Requests, pc[r] \in {"commit", "reapply"},
         NEW S \in SUBSET Covers[job[r].event], Fits(r, S), NEW s \in S, s \notin lost,
         SeatsAfter(r, S)[s] = seats[s]
  PROVE  seats[s].event = job[r].event \/ ~NotOlder(at[job[r].event], seats[s])
<1>1. s \in Seats /\ seats[s] \in Documents
  BY RequestTypes, Observed DEF Working
<1>2. /\ job[r].seen[s] \in Documents /\ Fresh(s, job[r].seen[s])
      /\ seats[s].version = job[r].seen[s].version
  BY RequestTypes DEF Good, Working, Fits
<1>3. job[r].seen[s].event = seats[s].event
  BY <1>2 DEF Fresh
<1>4. CASE NotOlder(at[job[r].event], job[r].seen[s]) /\ job[r].seen[s].event # job[r].event
  <2>1. SeatsAfter(r, S)[s] = [status |-> seats[s].status, version |-> job[r].seen[s].version + 1,
                               event |-> job[r].event]
    BY <1>1, <1>4 DEF SeatsAfter
  <2> QED BY <1>3, <1>4, <2>1
<1> QED BY <1>3, <1>4 DEF NotOlder

\* Steps that change neither what the seats show nor what counts.
LEMMA LedgerSame ==
  ASSUME UNCHANGED <<at, histories, lost>>,
         \A s \in Seats : s \in lost \/ seats'[s].event = seats[s].event
  PROVE  UNCHANGED Ledger!vars
BY DEF Ledger!vars

\* Observations of an event on record that are shown again are of the same moment.
LEMMA LedgerRepeat ==
  ASSUME IInv, NEW e \in Events, OnRecord(e) = Covers[e], UNCHANGED <<at, lost>>,
         {h.event : h \in histories'} = {h.event : h \in histories},
         \A s \in Seats :
           \/ seats'[s].event = seats[s].event
           \/ /\ s \in Covers[e] /\ seats'[s].event = e
              /\ s \notin lost => NotOlder(at[e], seats[s])
  PROVE  Ledger!Next
<1>0. PICK S \in SUBSET Covers[e] :
        S = {s \in Covers[e] \ lost : seats'[s].event # seats[s].event}
  OBVIOUS
<1>1. /\ at \in [Events -> Nat] /\ seats \in [Seats -> Documents]
      /\ Covers[e] \in SUBSET Seats
      /\ \A f \in Events : at[f] \in Nat
      /\ \A s \in Seats : seats[s].event \in Events \cup {None}
  BY OccupancyAssumption DEF IInv, TypeOK, Documents
<1>2. \A s \in Covers[e] \ lost : seats[s].event # None /\ at[e] <= at[seats[s].event]
  BY <1>1 DEF IInv, NewestIsShown, OnRecord
<1>3. \A s \in S : s \in Seats /\ s \notin lost /\ seats[s].event # Lost
                   /\ seats[s].event # None /\ at[e] = at[seats[s].event]
  <2> SUFFICES ASSUME NEW s \in S
               PROVE  s \in Seats /\ s \notin lost /\ seats[s].event # Lost
                      /\ seats[s].event # None /\ at[e] = at[seats[s].event]
    OBVIOUS
  <2>1. /\ s \in Seats /\ s \in Covers[e] /\ s \notin lost
        /\ NotOlder(at[e], seats[s])
    BY <1>0, <1>1
  <2>2. seats[s].event \in Events /\ seats[s].event # None /\ at[e] <= at[seats[s].event]
    BY <1>1, <1>2, <2>1
  <2>3. at[e] >= at[seats[s].event]
    BY <2>1, <2>2 DEF NotOlder
  <2>4. at[e] = at[seats[s].event]
    BY <1>1, <2>2, <2>3
  <2> QED BY <2>1, <2>2, <2>4, OccupancyAssumption
<1>4. e \in {h.event : h \in histories}
  BY OccupancyAssumption DEF OnRecord
<1>5. \A s \in Seats : (IF s \in lost THEN Lost ELSE seats[s].event)'
         = IF s \in S THEN e ELSE IF s \in lost THEN Lost ELSE seats[s].event
  BY <1>0
<1>7. Ledger!Repeat(e, S)
  BY <1>3, <1>4, <1>5 DEF Ledger!Repeat, Ledger!Tracked
<1> QED BY <1>0, <1>7 DEF Ledger!Next

\* The first commit of a batch counts it for all its seats.
LEMMA LedgerCommit ==
  ASSUME IInv, NEW r \in Requests, Applies(r)
  PROVE  Ledger!Next
<1>0. PICK e \in Events : e = job[r].event
  BY BuiltType DEF Applies
<1> DEFINE P == Pending(r)
<1>1. /\ pc[r] = "commit" /\ Fits(r, P) /\ at' = at /\ lost' = lost
      /\ histories' = histories \cup Built(r, P) /\ seats' = SeatsAfter(r, P)
  BY DEF Applies, Apply
<1>2. /\ P = Covers[e] /\ P \in SUBSET Seats
      /\ \A h \in Built(r, P) : h.event = e
      /\ \A s \in P : \E h \in Built(r, P) : h.seat = s
  BY <1>0, <1>1, BuiltType
<1>3. \A s \in Seats :
         \/ seats'[s] = seats[s]
         \/ /\ s \in P /\ seats'[s].event = e
            /\ s \notin lost => NotOlder(at[e], seats[s])
  BY <1>0, <1>1, <1>2, Lock
<1>4. \A s \in P : s \notin lost /\ seats'[s] = seats[s] =>
        seats[s].event = e \/ ~NotOlder(at[e], seats[s])
  BY <1>0, <1>1, <1>2, LeftAlone
<1>5. Covers[e] # {} /\ OnRecord(e) \in {{}, Covers[e]}
  BY OccupancyAssumption DEF IInv, BatchIsWhole
<1>6. {h.event : h \in histories'} = {h.event : h \in histories} \cup {e}
  BY <1>1, <1>2, <1>5
<1> HIDE DEF P
<1>7. CASE OnRecord(e) = Covers[e]
  <2>1. e \in {h.event : h \in histories}
    BY <1>5, <1>7 DEF OnRecord
  <2>2. {h.event : h \in histories'} = {h.event : h \in histories}
    BY <1>6, <2>1
  <2>3. \A s \in Seats :
           \/ seats'[s].event = seats[s].event
           \/ /\ s \in Covers[e] /\ seats'[s].event = e
              /\ s \notin lost => NotOlder(at[e], seats[s])
    BY <1>2, <1>3
  <2> QED BY <1>1, <1>7, <2>2, <2>3, LedgerRepeat
<1>8. CASE OnRecord(e) = {}
  <2>1. e \notin {h.event : h \in histories}
    BY <1>8 DEF OnRecord
  <2>2. \A s \in Seats : seats[s].event \in Events \cup {None}
    BY DEF IInv, TypeOK, Documents
  <2>3. \A s \in Seats : seats[s].event # Lost
    BY <2>2, OccupancyAssumption
  <2>4. \A s \in Seats : (IF s \in lost THEN Lost ELSE seats[s].event)'
           = IF s \in Covers[e] /\ s \notin lost /\ NotOlder(at[e], seats[s]) THEN e
             ELSE IF s \in lost THEN Lost ELSE seats[s].event
    BY <1>1, <1>2, <1>3, <1>4
  <2>5. Ledger!Record(e)
    BY <1>1, <1>6, <2>1, <2>3, <2>4 DEF Ledger!Record, Ledger!Tracked, Ledger!Newer, NotOlder
  <2> QED BY <2>5 DEF Ledger!Next
<1> QED BY <1>5, <1>7, <1>8

\* A repair shows again what is on record.
LEMMA LedgerRepair ==
  ASSUME IInv, NEW r \in Requests, Writes(r)
  PROVE  Ledger!Next
<1>0. PICK e \in Events : e = job[r].event
  BY RequestTypes DEF Writes, Good, Working
<1>1. /\ pc[r] = "reapply" /\ at' = at /\ lost' = lost /\ histories' = histories
      /\ seats' = SeatsAfter(r, {job[r].fix}) /\ Fits(r, {job[r].fix})
  BY DEF Writes
<1>2. job[r].fix \in Covers[e] /\ OnRecord(e) = Covers[e]
  BY <1>0, <1>1, RequestTypes DEF Good, Working
<1>3. \A s \in Seats :
         \/ seats'[s] = seats[s]
         \/ /\ s \in {job[r].fix} /\ seats'[s].event = e
            /\ s \notin lost => NotOlder(at[e], seats[s])
  BY <1>0, <1>1, <1>2, Lock
<1>4. \A s \in Seats :
         \/ seats'[s].event = seats[s].event
         \/ /\ s \in Covers[e] /\ seats'[s].event = e
            /\ s \notin lost => NotOlder(at[e], seats[s])
  BY <1>2, <1>3
<1> QED BY <1>1, <1>2, <1>4, LedgerRepeat

\* An edit keeps what a seat shows, or loses track of it.
LEMMA LedgerEdit ==
  ASSUME IInv, NEW d \in Editors, EditWrite(d)
  PROVE  Ledger!Next \/ UNCHANGED Ledger!vars
<1>1. UNCHANGED <<at, histories>> /\ editing[d].step = "read"
  BY DEF EditWrite
<1>0. PICK s \in Seats : s = editing[d].seat
  BY <1>1, EditFacts DEF Copied
<1> DEFINE copy == editing[d].copy
<1>2. copy \in Documents /\ Fresh(s, copy) /\ seats \in [Seats -> Documents]
  BY <1>0, <1>1, EditFacts DEF Copied, IInv, TypeOK
<1>3. CASE Exists(s) /\ copy.version # seats[s].version
  <2>1. lost' = lost \cup {s} /\ \A t \in Seats \ {s} : seats'[t] = seats[t]
    BY <1>0, <1>2, <1>3 DEF EditWrite
  <2>2. \A t \in Seats : (IF t \in lost THEN Lost ELSE seats[t].event)'
          = IF t = s THEN Lost ELSE IF t \in lost THEN Lost ELSE seats[t].event
    BY <1>2, <2>1
  <2>3. Ledger!Lose(s)
    BY <1>1, <1>2, <2>2 DEF Ledger!Lose
  <2> QED BY <1>0, <2>3 DEF Ledger!Next
<1>4. CASE Exists(s) /\ copy.version = seats[s].version
  <2>1. lost' = lost
    BY <1>0, <1>4 DEF EditWrite
  <2>2. \A t \in Seats : t \in lost \/ seats'[t].event = seats[t].event
    <3>1. PICK status : seats' = [seats EXCEPT ![s] = [copy EXCEPT !.status = status]]
      BY <1>0, <1>4 DEF EditWrite
    <3>2. [copy EXCEPT !.status = status].event = copy.event
      BY <1>2 DEF Documents
    <3>3. s \notin lost => copy.event = seats[s].event
      BY <1>2, <1>4 DEF Fresh
    <3> HIDE DEF copy
    <3> QED BY <1>2, <3>1, <3>2, <3>3
  <2> QED BY <1>1, <2>1, <2>2, LedgerSame
<1>5. CASE ~Exists(s)
  <2>1. UNCHANGED <<seats, lost>>
    BY <1>0, <1>5 DEF EditWrite
  <2> QED BY <1>1, <2>1, LedgerSame
<1> QED BY <1>3, <1>4, <1>5

LEMMA LedgerStep == IInv /\ [Next]_vars => [Ledger!Next]_(Ledger!vars)
<1> SUFFICES ASSUME IInv, [Next]_vars PROVE Ledger!Next \/ UNCHANGED Ledger!vars
  OBVIOUS
<1>1. CASE UNCHANGED <<at, seats, histories, lost>>
  BY <1>1, LedgerSame
<1>2. ASSUME NEW r \in Requests, Handle(r)
      PROVE  UNCHANGED <<at, seats, histories, lost>> \/ Applies(r) \/ Writes(r)
  <2>1. \/ \E e \in Events : Post(r, e)
        \/ ReadSeats(r) \/ Claim(r) \/ ReadHistories(r) \/ Repair(r) \/ Reread(r)
        \/ Complete(r) \/ Fail(r)
        => UNCHANGED <<at, seats, histories, lost>>
    BY DEF Post, ReadSeats, Claim, ReadHistories, Repair, Reread, Complete, Fail, storeVars
  <2>2. Reapply(r) => UNCHANGED <<at, seats, histories, lost>> \/ Writes(r)
    BY DEF Reapply, Writes
  <2>3. Commit(r) => UNCHANGED <<at, seats, histories, lost>> \/ Applies(r)
    BY DEF Commit, Applies
  <2> QED BY <1>2, <2>1, <2>2, <2>3 DEF Handle
<1>3. ASSUME NEW d \in Editors, Administer(d)
      PROVE  Ledger!Next \/ UNCHANGED Ledger!vars
  <2>1. CASE \E s \in Seats : EditRead(d, s)
    BY <2>1, <1>1 DEF EditRead, storeVars
  <2>2. CASE EditWrite(d)
    BY <2>2, LedgerEdit
  <2>3. CASE Delete(d)
    <3>1. UNCHANGED <<at, histories, lost>> /\ seats \in [Seats -> Documents]
      BY <2>3 DEF Delete, IInv, TypeOK
    <3>2. \A t \in Seats : seats'[t].event = seats[t].event
      BY <2>3, <3>1 DEF Delete, Documents
    <3> QED BY <3>1, <3>2, LedgerSame
  <2> QED BY <1>3, <2>1, <2>2, <2>3 DEF Administer
<1> QED BY <1>1, <1>2, <1>3, LedgerCommit, LedgerRepair DEF Next, vars, storeVars

-----------------------------------------------------------------------------
(* The theorems.                                                           *)

\* Every variable stays within its type.
THEOREM TypeCorrect == Spec => []TypeOK
<1>1. IInv => TypeOK
  BY DEF IInv
<1> QED BY <1>1, InitIInv, NextIInv, PTL DEF Spec

\* A batch counts for all its seats or for none, and once, whatever overlaps or fails.
THEOREM BatchIsAlwaysWhole == Spec => []BatchIsWhole
<1>1. IInv => BatchIsWhole
  BY DEF IInv
<1> QED BY <1>1, InitIInv, NextIInv, PTL DEF Spec

\* What a seat shows is always an observation on record that was judged to apply.
THEOREM CurrentIsAlwaysOnRecord == Spec => []CurrentIsOnRecord
<1>1. IInv => CurrentIsOnRecord
  BY DEF IInv
<1> QED BY <1>1, InitIInv, NextIInv, PTL DEF Spec

\* A seat shows the newest of its observations unless an edit has lost track of it.
THEOREM NewestIsAlwaysShown == Spec => []NewestIsShown
<1>1. IInv => NewestIsShown
  BY DEF IInv
<1> QED BY <1>1, InitIInv, NextIInv, PTL DEF Spec

\* The requests, repairs and edits together implement the ledger of whole batches.
THEOREM LedgerIsImplemented == Spec => ImplementsLedger
<1>1. Init => Ledger!Init
  BY DEF Init, Ledger!Init
<1> QED BY <1>1, InitIInv, NextIInv, LedgerStep, PTL DEF Spec, ImplementsLedger, Ledger!Spec
=============================================================================
