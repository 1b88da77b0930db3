--------------------------- MODULE RequestProofs ---------------------------
(***************************************************************************)
(* Requests that overlap in the server: the events the worker posts        *)
(* (EventDelivery) and the administrators' assignments of seats            *)
(* (SeatAssignment).  A worker is told of what is written only, everyone   *)
(* who stays is told of an event, and no student has two seats, for any    *)
(* number of events, attempts, screens, seats, students and requests.      *)
(***************************************************************************)
EXTENDS EventDelivery, SeatAssignment, Sequences, TLAPS

-----------------------------------------------------------------------------
(* The broadcaster.                                                        *)

\* Whom a walk has not reached yet is behind the place where it is.
Ahead(p) == \A s \in walk[p].owed : \E i \in walk[p].at..Len(subs) : subs[i] = s

Walks == [at : Nat, owed : SUBSET Subscribers]
BusInv ==
  /\ subs \in Seq(Subscribers)
  /\ walk \in [Posts -> Walks]
  /\ \A p \in Posts : Bus!Walking(p) => Ahead(p)

\* Nobody who walks is ahead of the place of what waits for it.
LEMMA WalkStep ==
  ASSUME BusInv, NEW p \in Posts, NEW w \in Walks, walk' = [walk EXCEPT ![p] = w], UNCHANGED subs,
         w.at > 0 => \A s \in w.owed : \E i \in w.at..Len(subs) : subs[i] = s
  PROVE  BusInv'
<1>1. subs' \in Seq(Subscribers) /\ walk' \in [Posts -> Walks] BY DEF BusInv
<1>2. walk'[p] = w /\ \A q \in Posts : q # p => walk'[q] = walk[q] BY DEF BusInv
<1>3. ASSUME NEW q \in Posts, Bus!Walking(q)' PROVE Ahead(q)'
  <2>1. CASE q = p BY <1>2, <1>3, <2>1 DEF Ahead, Bus!Walking
  <2>2. CASE q # p BY <1>2, <1>3, <2>2 DEF Ahead, Bus!Walking, BusInv
  <2> QED BY <2>1, <2>2
<1> QED BY <1>1, <1>3 DEF BusInv

LEMMA StartWalkKeeps == ASSUME BusInv, NEW p \in Posts, Bus!StartWalk(p) PROVE BusInv'
<1> DEFINE w == [at |-> 1, owed |-> Bus!Range(subs)]
<1>1. \A s \in Bus!Range(subs) : \E i \in 1..Len(subs) : subs[i] = s
  BY DEF Bus!Range, BusInv
<1>2. Bus!Range(subs) \in SUBSET Subscribers BY DEF Bus!Range, BusInv
<1>3. w \in Walks BY <1>2 DEF Walks
<1>4. walk' = [walk EXCEPT ![p] = w] /\ UNCHANGED subs BY DEF Bus!StartWalk
<1>5. \A s \in w.owed : \E i \in w.at..Len(subs) : subs[i] = s BY <1>1
<1> HIDE DEF w
<1> QED BY <1>3, <1>4, <1>5, WalkStep

LEMMA PutNextKeeps == ASSUME BusInv, NEW p \in Posts, Bus!PutNext(p) PROVE BusInv'
<1> DEFINE w == [at |-> walk[p].at + 1, owed |-> walk[p].owed \ {subs[walk[p].at]}]
<1>1. walk[p] \in Walks /\ Ahead(p) /\ Len(subs) \in Nat
  BY DEF BusInv, Bus!PutNext, Bus!Walking
<1>2. w \in Walks BY <1>1 DEF Walks
<1>3. walk' = [walk EXCEPT ![p] = w] /\ UNCHANGED subs
  BY DEF Bus!PutNext, Bus!After, BusInv
<1>4. ASSUME NEW s \in w.owed PROVE \E i \in w.at..Len(subs) : subs[i] = s
  <2>1. PICK i \in walk[p].at..Len(subs) : subs[i] = s BY <1>1 DEF Ahead
  <2>2. i # walk[p].at BY <2>1
  <2>3. i \in w.at..Len(subs) BY <1>1, <2>1, <2>2 DEF Walks
  <2> QED BY <2>1, <2>3
<1> HIDE DEF w
<1> QED BY <1>2, <1>3, <1>4, WalkStep

LEMMA EndWalkKeeps == ASSUME BusInv, NEW p \in Posts, Bus!EndWalk(p) PROVE BusInv'
<1>1. PICK w \in Walks : w = Bus!NoWalk BY DEF Walks, Bus!NoWalk
<1>2. walk' = [walk EXCEPT ![p] = w] /\ UNCHANGED subs /\ ~(w.at > 0)
  BY <1>1 DEF Bus!EndWalk, Bus!NoWalk
<1> QED BY <1>1, <1>2, WalkStep

\* Connections come and go.
LEMMA ConnectionKeeps == ASSUME BusInv, NEW s \in Subscribers, Connection(s) PROVE BusInv'
<1>1. CASE Bus!Subscribe(s)
  <2>1. subs' = Append(subs, s) /\ UNCHANGED walk BY <1>1 DEF Bus!Subscribe, Bus!Added
  <2>2. /\ subs' \in Seq(Subscribers) /\ Len(subs') = Len(subs) + 1
        /\ \A i \in 1..Len(subs) : subs'[i] = subs[i]
    BY <2>1 DEF BusInv
  <2>3. ASSUME NEW p \in Posts, Bus!Walking(p)' PROVE Ahead(p)'
    <3>1. walk'[p] = walk[p] /\ walk[p] \in Walks /\ walk[p].at > 0 /\ Ahead(p)
      BY <2>1, <2>3 DEF BusInv, Bus!Walking
    <3>2. ASSUME NEW t \in walk[p].owed PROVE \E i \in walk[p].at..Len(subs') : subs'[i] = t
      <4>1. PICK i \in walk[p].at..Len(subs) : subs[i] = t BY <3>1 DEF Ahead
      <4>2. i \in 1..Len(subs) /\ i \in walk[p].at..Len(subs')
        BY <2>2, <3>1, <4>1 DEF BusInv, Walks
      <4> QED BY <2>2, <4>1, <4>2
    <3> QED BY <3>1, <3>2 DEF Ahead
  <2> QED BY <2>1, <2>2, <2>3 DEF BusInv
<1>2. CASE Bus!Unsubscribe(s)
  <2>1. PICK i \in DOMAIN subs : subs' = SubSeq(subs, 1, i-1) \o SubSeq(subs, i+1, Len(subs))
    BY <1>2 DEF Bus!Unsubscribe, Bus!RemoveAt
  <2>2. subs' \in Seq(Subscribers) BY <2>1 DEF BusInv
  <2>3. walk' = [p \in Posts |->
          IF Bus!Walking(p) THEN [walk[p] EXCEPT !.owed = {}] ELSE walk[p]]
    BY <1>2 DEF Bus!Unsubscribe
  <2>4. walk' \in [Posts -> Walks] BY <2>3 DEF BusInv, Walks
  <2>5. \A p \in Posts : Bus!Walking(p)' => walk'[p].owed = {}
    BY <2>3 DEF BusInv, Bus!Walking, Walks
  <2> QED BY <2>2, <2>4, <2>5 DEF BusInv, Ahead
<1>3. CASE Bus!Deliver(s) BY <1>3 DEF Bus!Deliver, BusInv, Ahead, Bus!Walking
<1> QED BY <1>1, <1>2, <1>3 DEF Connection

LEMMA BusTold == BusInv => EveryoneIsTold
<1> SUFFICES ASSUME BusInv, NEW p \in Posts, Bus!AtEnd(p) PROVE walk[p].owed = {}
  BY DEF EveryoneIsTold, Bus!EveryoneIsTold
<1>1. walk[p].at > Len(subs) /\ Ahead(p) /\ walk[p].at \in Nat /\ Len(subs) \in Nat
  BY DEF BusInv, Bus!AtEnd, Walks
<1> QED BY <1>1 DEF Ahead

-----------------------------------------------------------------------------
(* The requests.                                                           *)

Steps == {"none", "posted", "show", "showing", "save", "update", "judge"} \cup Answered

DeliveryTypes ==
  /\ frame \in [Kinds -> Nat] /\ attempt \in [Kinds -> 0..(MaxRetries + 1)]
  /\ acked \in [Kinds -> SUBSET Times]
  /\ \A k \in Kinds : attempt[k] > 0 => frame[k] \in Times
  /\ step \in [Posts -> Steps] /\ fresh \subseteq Posts
  /\ stored \in [Kinds -> SUBSET Times] /\ last \in [Kinds -> Nat]
  /\ judged \subseteq Times /\ logged \subseteq Times

\* No lane has been at an attempt that it has yet to make.
Made(r) ==
  step[r] # "none" =>
    /\ Time(r) <= frame[Kind(r)]
    /\ Time(r) = frame[Kind(r)] => attempt[Kind(r)] = 0 \/ r[3] <= attempt[Kind(r)]

\* A request that is past a write finds it written.
Entered(r) ==
  Kind(r) = "entry" =>
    /\ step[r] \in {"update", "show", "showing", "done"} => Time(r) \in stored["entry"]
    /\ step[r] \in {"show", "showing", "done"} => last["entry"] >= Kept(Time(r))
    /\ step[r] # "judge"
Detected(r) ==
  Kind(r) = "detection" =>
    /\ step[r] \in {"update", "judge", "done"} => Time(r) \in stored["detection"]
    /\ step[r] = "save" => r \in fresh \/ Time(r) \in stored["detection"]

\* A detection of a camera that judges seats, once it is stored, is judged or tried in
\* vain, or a request that found it new is going to, or was when it failed.
Following(r, t) ==
  r \in fresh /\ Kind(r) = "detection" /\ Time(r) = t /\ step[r] \in {"update", "judge", "error"}
Tried(t) == ~judges \/ t \in judged \cup logged
Followed(t) == Tried(t) \/ \E r \in Posts : Following(r, t)

ServerInv ==
  /\ \A r \in Posts : Made(r) /\ Entered(r) /\ Detected(r)
  /\ \A t \in stored["detection"] : Followed(t)

\* A worker was told of what is written only.
AckedInv ==
  /\ AckedIsEntered
  /\ acked["detection"] \subseteq stored["detection"]

DeliveryInv == DeliveryTypes /\ ServerInv /\ AckedInv

LEMMA PostTypes ==
  ASSUME NEW r \in Posts
  PROVE  /\ Kind(r) \in Kinds /\ Time(r) \in Times /\ Time(r) \in Nat /\ r[3] \in Attempts
         /\ Kept(Time(r)) \in Nat /\ r = <<Kind(r), Time(r), r[3]>>
<1>1. PICK k, t, a : k \in Kinds /\ t \in Times /\ a \in Attempts /\ r = <<k, t, a>> BY DEF Posts
<1>2. Kind(r) = k /\ Time(r) = t /\ r[3] = a BY <1>1 DEF Kind, Time
<1>3. t \in Nat BY <1>1, DeliveryAssumption
<1>4. t \div 2 \in Nat BY <1>3
<1> QED BY <1>1, <1>2, <1>3, <1>4 DEF Kept

\* A step of one request in the server: what is written stays written, and the request
\* finds what it needs at its next step.
LEMMA ProcessKeeps ==
  ASSUME DeliveryInv, NEW r \in Posts, NEW to \in Steps,
         step' = [step EXCEPT ![r] = to], step[r] # "none",
         UNCHANGED laneVars,
         fresh \subseteq fresh', fresh' \subseteq Posts,
         stored' \in [Kinds -> SUBSET Times], \A k \in Kinds : stored[k] \subseteq stored'[k],
         last' \in [Kinds -> Nat], \A k \in Kinds : last[k] <= last'[k],
         judges' = judges, judged \subseteq judged', judged' \subseteq Times,
         logged \subseteq logged', logged' \subseteq Times,
         Entered(r)', Detected(r)',
         \A t \in stored'["detection"] : t \in stored["detection"] \/ Following(r, t)',
         Kind(r) = "detection" /\ step[r] \in {"update", "judge", "error"} =>
           to \in {"update", "judge", "error"} \/ Tried(Time(r))'
  PROVE  DeliveryInv'
<1>1. DeliveryTypes' BY DEF DeliveryInv, DeliveryTypes, laneVars
<1>2. step'[r] = to /\ \A q \in Posts : q # r => step'[q] = step[q]
  BY DEF DeliveryInv, DeliveryTypes
<1>3. ASSUME NEW q \in Posts PROVE Made(q)' /\ Entered(q)' /\ Detected(q)'
  <2>0. Made(q) /\ Entered(q) /\ Detected(q) BY DEF DeliveryInv, ServerInv
  <2>1. Made(q)' BY <1>2, <2>0 DEF Made, laneVars
  <2>2. CASE q # r
    <3>1. /\ Kind(q) \in Kinds /\ Kept(Time(q)) \in Nat
          /\ last[Kind(q)] \in Nat /\ last'[Kind(q)] \in Nat /\ last[Kind(q)] <= last'[Kind(q)]
          /\ stored[Kind(q)] \subseteq stored'[Kind(q)]
      BY PostTypes DEF DeliveryInv, DeliveryTypes
    <3> QED BY <1>2, <2>0, <2>1, <2>2, <3>1 DEF Entered, Detected
  <2> QED BY <2>1, <2>2
<1>4. ASSUME NEW t \in stored'["detection"] PROVE Followed(t)'
  <2>1. CASE Following(r, t)' BY <2>1 DEF Followed
  <2>2. CASE Tried(t) BY <2>2 DEF Followed, Tried
  <2>3. ASSUME NEW q \in Posts, Following(q, t) PROVE Followed(t)'
    <3>1. CASE q = r BY <1>2, <2>3, <3>1 DEF Followed, Following
    <3>2. CASE q # r BY <1>2, <2>3, <3>2 DEF Followed, Following
    <3> QED BY <3>1, <3>2
  <2> QED BY <1>4, <2>1, <2>2, <2>3 DEF DeliveryInv, ServerInv, Followed
<1>5. AckedInv'
  <2>1. "entry" \in Kinds /\ "detection" \in Kinds BY DEF Kinds
  <2>2. ASSUME NEW t \in acked["entry"]
        PROVE  t \in stored'["entry"] /\ last'["entry"] >= Kept(t)
    <3>1. t \in stored["entry"] /\ last["entry"] >= Kept(t)
      BY DEF DeliveryInv, AckedInv, AckedIsEntered
    <3>2. t \in Nat BY <2>1, <3>1, DeliveryAssumption DEF DeliveryInv, DeliveryTypes
    <3>3. Kept(t) \in Nat BY <3>2 DEF Kept
    <3>4. last["entry"] \in Nat /\ last'["entry"] \in Nat /\ last["entry"] <= last'["entry"]
      BY <2>1 DEF DeliveryInv, DeliveryTypes
    <3> QED BY <2>1, <3>1, <3>3, <3>4
  <2> QED BY <2>1, <2>2 DEF DeliveryInv, AckedInv, AckedIsEntered, laneVars
<1> QED BY <1>1, <1>3, <1>4, <1>5 DEF DeliveryInv, ServerInv

\* The steps that write nothing.
LEMMA QuietKeeps ==
  ASSUME DeliveryInv, NEW r \in Posts, NEW to \in Steps,
         step' = [step EXCEPT ![r] = to], step[r] \notin {"none", "update", "judge", "error"},
         UNCHANGED <<laneVars, storeVars>>, fresh \subseteq fresh', fresh' \subseteq Posts,
         Entered(r)', Detected(r)'
  PROVE  DeliveryInv'
<1>1. /\ stored' = stored /\ last' = last /\ UNCHANGED judgeVars
      /\ judges' = judges /\ judged' = judged /\ logged' = logged
      /\ UNCHANGED laneVars
  BY DEF storeVars, judgeVars
<1>2. /\ stored' \in [Kinds -> SUBSET Times] /\ last' \in [Kinds -> Nat]
      /\ judged' \subseteq Times /\ logged' \subseteq Times
      /\ \A k \in Kinds : last[k] <= last'[k]
  BY <1>1 DEF DeliveryInv, DeliveryTypes
<1> QED BY <1>1, <1>2, ProcessKeeps

LEMMA ShowKeeps ==
  ASSUME DeliveryInv, NEW r \in Posts, StartShow(r) \/ EndShow(r) \/ Find(r) PROVE DeliveryInv'
<1>0. /\ Entered(r) /\ Detected(r) /\ Kind(r) \in Kinds /\ step \in [Posts -> Steps]
      /\ fresh \subseteq Posts
  BY PostTypes DEF DeliveryInv, DeliveryTypes, ServerInv
<1>1. CASE StartShow(r)
  <2>1. /\ step[r] \in {"show", "posted"} /\ (step[r] = "posted" => Kind(r) = "detection")
        /\ step' = [step EXCEPT ![r] = "showing"]
        /\ UNCHANGED <<laneVars, fresh, stored, last, judgeVars>>
    BY <1>1 DEF StartShow, Go, storeVars
  <2>2. step'[r] = "showing" BY <1>0, <2>1
  <2>3. Entered(r)' /\ Detected(r)' BY <1>0, <2>1, <2>2 DEF Entered, Detected
  <2> QED BY <1>0, <2>1, <2>3, QuietKeeps DEF Steps, storeVars
<1>2. CASE EndShow(r)
  <2>1. /\ step[r] = "showing" /\ Kind(r) = "entry"
        /\ step' = [step EXCEPT ![r] = "done"]
        /\ UNCHANGED <<laneVars, fresh, stored, last, judgeVars>>
    BY <1>2 DEF EndShow, Go, storeVars
  <2>2. step'[r] = "done" BY <1>0, <2>1
  <2>3. Entered(r)' /\ Detected(r)' BY <1>0, <2>1, <2>2 DEF Entered, Detected
  <2> QED BY <1>0, <2>1, <2>3, QuietKeeps DEF Steps, Answered, storeVars
<1>3. CASE Find(r)
  <2>1. /\ step[r] = "showing" /\ Kind(r) = "detection"
        /\ step' = [step EXCEPT ![r] = "save"]
        /\ UNCHANGED <<laneVars, stored, last, judgeVars>>
        /\ fresh' = IF Time(r) \in stored[Kind(r)] THEN fresh ELSE fresh \cup {r}
    BY <1>3 DEF Find, Go, storeVars
  <2>2. step'[r] = "save" BY <1>0, <2>1
  <2>3. Entered(r)' /\ Detected(r)' BY <1>0, <2>1, <2>2 DEF Entered, Detected
  <2>4. fresh \subseteq fresh' /\ fresh' \subseteq Posts BY <1>0, <2>1
  <2> QED BY <1>0, <2>1, <2>3, <2>4, QuietKeeps DEF Steps, storeVars
<1> QED BY <1>1, <1>2, <1>3

\* The first insert of a detection is one of a request that found it new.
LEMMA SaveKeeps == ASSUME DeliveryInv, NEW r \in Posts, Save(r) PROVE DeliveryInv'
<1> DEFINE k == Kind(r)
           new == Time(r) \notin stored[k]
           to == IF ~new /\ ~Exact(Time(r)) THEN "refused" ELSE AfterSave(r, new)
<1>0. /\ Entered(r) /\ Detected(r) /\ k \in Kinds /\ Time(r) \in Times
      /\ step \in [Posts -> Steps] /\ fresh \subseteq Posts
      /\ stored \in [Kinds -> SUBSET Times] /\ last \in [Kinds -> Nat]
      /\ judged \subseteq Times /\ logged \subseteq Times
  BY PostTypes DEF DeliveryInv, DeliveryTypes, ServerInv
<1>1. /\ step[r] = IF k = "entry" THEN "posted" ELSE "save"
      /\ stored' = [stored EXCEPT ![k] = @ \cup {Time(r)}]
      /\ fresh' = IF k = "entry" /\ new THEN fresh \cup {r} ELSE fresh
      /\ step' = [step EXCEPT ![r] = to]
      /\ UNCHANGED <<laneVars, last, judges, judged, logged>>
  BY DEF Save, Go, judgeVars
<1>2. to \in {"refused", "update", "done"} BY DEF AfterSave
<1>3. to = "done" => k = "detection" /\ ~new
  BY <1>0, <1>1 DEF AfterSave, Detected, Kinds
<1>4. new /\ k = "detection" => to = "update" /\ r \in fresh
  BY <1>0, <1>1 DEF AfterSave, Detected
<1> HIDE DEF to
<1>5. step'[r] = to BY <1>0, <1>1
<1>6. Time(r) \in stored'[k] /\ \A l \in Kinds : stored[l] \subseteq stored'[l]
  BY <1>0, <1>1
<1>7. stored' \in [Kinds -> SUBSET Times] BY <1>0, <1>1
<1>8. Entered(r)' /\ Detected(r)'
  BY <1>0, <1>2, <1>3, <1>5, <1>6 DEF Entered, Detected
<1>9. ASSUME NEW t \in stored'["detection"] PROVE t \in stored["detection"] \/ Following(r, t)'
  <2>1. CASE t \notin stored["detection"]
    <3>1. k = "detection" /\ t = Time(r) BY <1>0, <1>1, <1>9, <2>1 DEF Kinds
    <3>2. to = "update" /\ r \in fresh' BY <1>1, <1>4, <2>1, <3>1
    <3> QED BY <1>5, <3>1, <3>2 DEF Following
  <2> QED BY <2>1
<1>10. fresh \subseteq fresh' /\ fresh' \subseteq Posts BY <1>0, <1>1
<1>11. /\ last' \in [Kinds -> Nat] /\ \A l \in Kinds : last[l] <= last'[l]
       /\ judges' = judges /\ judged \subseteq judged' /\ judged' \subseteq Times
       /\ logged \subseteq logged' /\ logged' \subseteq Times
  BY <1>0, <1>1
<1>12. to \in Steps /\ step[r] \in {"posted", "save"} /\ UNCHANGED laneVars
  BY <1>1, <1>2 DEF Steps, Answered
<1> HIDE DEF k, new
<1> QED BY <1>1, <1>6, <1>7, <1>8, <1>9, <1>10, <1>11, <1>12, ProcessKeeps

LEMMA MaxOfTwo ==
  ASSUME NEW a \in Nat, NEW b \in Nat
  PROVE  Max({a, b}) \in Nat /\ Max({a, b}) >= a /\ Max({a, b}) >= b
<1>1. \E x \in {a, b} : \A y \in {a, b} : x >= y
  <2>1. CASE a >= b BY <2>1
  <2>2. CASE b >= a BY <2>2
  <2> QED BY <2>1, <2>2
<1> QED BY <1>1 DEF Max

LEMMA UpdateKeeps == ASSUME DeliveryInv, NEW r \in Posts, Update(r) PROVE DeliveryInv'
<1> DEFINE k == Kind(r)
           to == IF k = "detection" THEN "judge" ELSE IF r \in fresh THEN "show" ELSE "done"
<1>0. /\ Entered(r) /\ Detected(r) /\ k \in Kinds /\ Kept(Time(r)) \in Nat
      /\ step \in [Posts -> Steps] /\ fresh \subseteq Posts
      /\ stored \in [Kinds -> SUBSET Times] /\ last \in [Kinds -> Nat]
      /\ judged \subseteq Times /\ logged \subseteq Times
  BY PostTypes DEF DeliveryInv, DeliveryTypes, ServerInv
<1>1. /\ step[r] = "update" /\ last' = [last EXCEPT ![k] = Max({@, Kept(Time(r))})]
      /\ step' = [step EXCEPT ![r] = to]
      /\ UNCHANGED <<laneVars, fresh, stored, judges, judged, logged>>
  BY DEF Update, Go, judgeVars
<1>2. PICK m \in Nat : m = Max({last[k], Kept(Time(r))}) /\ m >= last[k] /\ m >= Kept(Time(r))
  BY <1>0, MaxOfTwo
<1>3. last' = [last EXCEPT ![k] = m] BY <1>0, <1>1, <1>2
<1>4. last' \in [Kinds -> Nat] /\ last'[k] = m /\ \A l \in Kinds : last[l] <= last'[l]
  <2>1. k \in Kinds /\ last \in [Kinds -> Nat] /\ m >= last[k] BY <1>0, <1>2
  <2>2. last' \in [Kinds -> Nat] /\ last'[k] = m BY <1>3, <2>1
  <2>3. \A l \in Kinds : l # k => last'[l] = last[l] BY <1>3, <2>1
  <2> HIDE DEF k
  <2>4. \A l \in Kinds : last[l] <= last'[l] BY <2>1, <2>2, <2>3
  <2> QED BY <2>2, <2>4
<1>5. step'[r] = to BY <1>0, <1>1
<1>6. /\ UNCHANGED laneVars /\ stored' = stored /\ fresh' = fresh
      /\ judges' = judges /\ judged' = judged /\ logged' = logged
  BY <1>1
<1>7. Entered(r)' /\ Detected(r)'
  <2>1. step[r] = "update" BY <1>1
  <2>2. to \in {"judge", "show", "done"} /\ (to = "judge" <=> k = "detection") OBVIOUS
  <2> HIDE DEF to
  <2> QED BY <1>0, <1>2, <1>4, <1>5, <1>6, <2>1, <2>2 DEF Entered, Detected
<1>8. to \in Steps /\ (k = "detection" => to = "judge") BY DEF Steps, Answered
<1> HIDE DEF to
<1>9. stored' \in [Kinds -> SUBSET Times] BY <1>0, <1>1
<1> QED BY <1>0, <1>1, <1>4, <1>7, <1>8, <1>6, <1>9, ProcessKeeps

LEMMA JudgeKeeps == ASSUME DeliveryInv, NEW r \in Posts, Judge(r) PROVE DeliveryInv'
<1>0. /\ Entered(r) /\ Detected(r) /\ Time(r) \in Times /\ Kind(r) \in Kinds
      /\ step \in [Posts -> Steps] /\ fresh \subseteq Posts
      /\ stored \in [Kinds -> SUBSET Times] /\ last \in [Kinds -> Nat]
      /\ judged \subseteq Times /\ logged \subseteq Times
  BY PostTypes DEF DeliveryInv, DeliveryTypes, ServerInv
<1>1. /\ step[r] = "judge" /\ step' = [step EXCEPT ![r] = "done"]
      /\ judged' \in {judged, judged \cup {Time(r)}} /\ logged' \in {logged, logged \cup {Time(r)}}
      /\ Tried(Time(r))'
      /\ UNCHANGED <<laneVars, fresh, stored, last, judges>>
  BY DEF Judge, Go, Tried
<1>2. step'[r] = "done" BY <1>0, <1>1
<1>3. Kind(r) = "detection" BY <1>0, <1>1 DEF Entered, Kinds
<1>4. Entered(r)' /\ Detected(r)' BY <1>0, <1>1, <1>2, <1>3 DEF Entered, Detected
<1>5. /\ judged' \subseteq Times /\ judged \subseteq judged'
      /\ logged' \subseteq Times /\ logged \subseteq logged'
  BY <1>0, <1>1
<1>6. "done" \in Steps BY DEF Steps, Answered
<1>7. stored' = stored /\ fresh' = fresh /\ last' = last /\ judges' = judges BY <1>1
<1>8. \A k \in Kinds : last[k] <= last'[k] BY <1>0, <1>7
<1> QED BY <1>0, <1>1, <1>4, <1>5, <1>6, <1>7, <1>8, ProcessKeeps

\* A failed insert may have been done, by a request that found the detection new.
LEMMA FailKeeps == ASSUME DeliveryInv, NEW r \in Posts, Fail(r) PROVE DeliveryInv'
<1>0. /\ Entered(r) /\ Detected(r) /\ Time(r) \in Times /\ Kind(r) \in Kinds
      /\ step \in [Posts -> Steps] /\ fresh \subseteq Posts
      /\ stored \in [Kinds -> SUBSET Times] /\ last \in [Kinds -> Nat]
      /\ judged \subseteq Times /\ logged \subseteq Times
  BY PostTypes DEF DeliveryInv, DeliveryTypes, ServerInv
<1>1. /\ step[r] \in {"save", "update"} \/ (step[r] = "posted" /\ Kind(r) = "entry")
      /\ \/ stored' = stored
         \/ step[r] # "update" /\ stored' = [stored EXCEPT ![Kind(r)] = @ \cup {Time(r)}]
      /\ step' = [step EXCEPT ![r] = "error"]
      /\ UNCHANGED <<laneVars, fresh, last, judges, judged, logged>>
  BY DEF Fail, Go, judgeVars
<1>2. step'[r] = "error" BY <1>0, <1>1
<1>3. Entered(r)' /\ Detected(r)' BY <1>2 DEF Entered, Detected
<1>4. stored' \in [Kinds -> SUBSET Times] /\ \A k \in Kinds : stored[k] \subseteq stored'[k]
  BY <1>0, <1>1
<1>5. ASSUME NEW t \in stored'["detection"] PROVE t \in stored["detection"] \/ Following(r, t)'
  <2>1. CASE t \notin stored["detection"]
    <3>1. step[r] = "save" /\ Kind(r) = "detection" /\ t = Time(r)
      BY <1>0, <1>1, <1>5, <2>1 DEF Kinds
    <3>2. r \in fresh BY <1>0, <2>1, <3>1 DEF Detected
    <3> QED BY <1>1, <1>2, <3>1, <3>2 DEF Following
  <2> QED BY <2>1
<1>6. "error" \in Steps BY DEF Steps, Answered
<1>7. /\ fresh' = fresh /\ last' = last
      /\ judges' = judges /\ judged' = judged /\ logged' = logged
  BY <1>1
<1>8. \A k \in Kinds : last[k] <= last'[k] BY <1>0, <1>7
<1> QED BY <1>0, <1>1, <1>3, <1>4, <1>5, <1>6, <1>7, <1>8, ProcessKeeps

-----------------------------------------------------------------------------
(* The lanes.                                                              *)

\* A request that a lane makes was not made before.
LEMMA PostKeeps ==
  ASSUME DeliveryInv, NEW k \in Kinds, NEW t \in Times, NEW a \in Attempts,
         Post(<<k, t, a>>), step[<<k, t, a>>] = "none",
         frame' = [frame EXCEPT ![k] = t], attempt' = [attempt EXCEPT ![k] = a],
         t > frame[k] \/ (t = frame[k] /\ attempt[k] > 0 /\ a > attempt[k]),
         UNCHANGED <<acked, fresh, storeVars>>
  PROVE  DeliveryInv'
<1> DEFINE r == <<k, t, a>>
<1>1. /\ r \in Posts /\ Kind(r) = k /\ Time(r) = t /\ r[3] = a
      /\ t \in Nat /\ a \in Nat \ {0} /\ a <= MaxRetries + 1
  BY DeliveryAssumption DEF Posts, Kind, Time, Attempts
<1> HIDE DEF r
<1>2. /\ step' = [step EXCEPT ![r] = "posted"] /\ step[r] = "none"
      /\ UNCHANGED <<acked, fresh, stored, last, judges, judged, logged>>
  BY DEF Post, r, storeVars, judgeVars
<1>3. /\ step'[r] = "posted" /\ \A q \in Posts : q # r => step'[q] = step[q]
      /\ frame'[k] = t /\ attempt'[k] = a
      /\ \A l \in Kinds : l # k => frame'[l] = frame[l] /\ attempt'[l] = attempt[l]
  BY <1>1, <1>2 DEF DeliveryInv, DeliveryTypes
<1>4. DeliveryTypes'
  <2>1. frame' \in [Kinds -> Nat] /\ attempt' \in [Kinds -> 0..(MaxRetries + 1)]
    BY <1>1, DeliveryAssumption DEF DeliveryInv, DeliveryTypes
  <2>2. \A l \in Kinds : attempt'[l] > 0 => frame'[l] \in Times
    BY <1>3 DEF DeliveryInv, DeliveryTypes
  <2>3. step' \in [Posts -> Steps] BY <1>2 DEF DeliveryInv, DeliveryTypes, Steps
  <2> QED BY <1>2, <2>1, <2>2, <2>3 DEF DeliveryInv, DeliveryTypes
<1>5. ASSUME NEW q \in Posts PROVE Made(q)' /\ Entered(q)' /\ Detected(q)'
  <2>0. Made(q) /\ Entered(q) /\ Detected(q) BY DEF DeliveryInv, ServerInv
  <2>1. CASE q = r BY <1>1, <1>3, <2>1 DEF Made, Entered, Detected
  <2>2. CASE q # r
    <3>1. Entered(q)' /\ Detected(q)' BY <1>2, <1>3, <2>0, <2>2 DEF Entered, Detected
    <3>2. /\ Kind(q) \in Kinds /\ Time(q) \in Nat /\ q[3] \in Nat
      BY PostTypes DEF Attempts
    <3>3. frame[k] \in Nat /\ attempt[k] \in Nat BY DEF DeliveryInv, DeliveryTypes
    <3>4. Made(q)' BY <1>1, <1>3, <2>0, <2>2, <3>2, <3>3 DEF Made
    <3> QED BY <3>1, <3>4
  <2> QED BY <2>1, <2>2
<1>6. ASSUME NEW d \in stored'["detection"] PROVE Followed(d)'
  <2>1. CASE Tried(d) BY <1>2, <2>1 DEF Followed, Tried
  <2>2. ASSUME NEW q \in Posts, Following(q, d) PROVE Followed(d)'
    <3>1. q # r BY <1>2, <2>2 DEF Following
    <3> QED BY <1>2, <1>3, <2>2, <3>1 DEF Followed, Following
  <2> QED BY <1>2, <1>6, <2>1, <2>2 DEF DeliveryInv, ServerInv, Followed
<1>7. AckedInv' BY <1>2 DEF DeliveryInv, AckedInv, AckedIsEntered
<1> QED BY <1>4, <1>5, <1>6, <1>7 DEF DeliveryInv, ServerInv

\* A lane that is done with its event is free.
LEMMA FreeKeeps ==
  ASSUME DeliveryInv, NEW k \in Kinds, attempt' = [attempt EXCEPT ![k] = 0],
         UNCHANGED <<frame, step, fresh, storeVars>>,
         acked' \in [Kinds -> SUBSET Times], AckedInv'
  PROVE  DeliveryInv'
<1>1. UNCHANGED <<stored, last, judges, judged, logged>> BY DEF storeVars, judgeVars
<1>2. attempt' \in [Kinds -> 0..(MaxRetries + 1)]
  BY DeliveryAssumption DEF DeliveryInv, DeliveryTypes
<1>3. \A l \in Kinds : attempt'[l] \in {attempt[l], 0} BY DEF DeliveryInv, DeliveryTypes
<1>4. DeliveryTypes' BY <1>1, <1>2, <1>3 DEF DeliveryInv, DeliveryTypes
<1>5. ASSUME NEW r \in Posts PROVE Made(r)' /\ Entered(r)' /\ Detected(r)'
  BY <1>1, <1>3, PostTypes DEF DeliveryInv, ServerInv, Made, Entered, Detected
<1>6. \A t \in stored'["detection"] : Followed(t)'
  BY <1>1 DEF DeliveryInv, ServerInv, Followed, Tried, Following
<1> QED BY <1>4, <1>5, <1>6 DEF DeliveryInv, ServerInv

LEMMA TryAgainKeeps ==
  ASSUME DeliveryInv, NEW k \in Kinds, attempt[k] > 0, TryAgain(k),
         UNCHANGED <<frame, acked, fresh, storeVars>>
  PROVE  DeliveryInv'
<1>0. /\ attempt[k] \in Nat \ {0} /\ attempt[k] <= MaxRetries + 1 /\ frame[k] \in Times
      /\ attempt \in [Kinds -> 0..(MaxRetries + 1)] /\ frame \in [Kinds -> Nat]
  BY DeliveryAssumption DEF DeliveryInv, DeliveryTypes
<1>1. CASE attempt[k] > MaxRetries
  <2>1. attempt' = [attempt EXCEPT ![k] = 0] /\ UNCHANGED step BY <1>1 DEF TryAgain
  <2>2. AckedInv' BY DEF DeliveryInv, AckedInv, AckedIsEntered, storeVars
  <2>3. acked' \in [Kinds -> SUBSET Times] BY DEF DeliveryInv, DeliveryTypes
  <2> QED BY <2>1, <2>2, <2>3, FreeKeeps
<1>2. CASE ~(attempt[k] > MaxRetries)
  <2>1. PICK a \in Attempts : a = attempt[k] + 1
    BY <1>0, <1>2, DeliveryAssumption DEF Attempts
  <2>2. PICK t \in Times : t = frame[k] BY <1>0
  <2>3. attempt' = [attempt EXCEPT ![k] = a] /\ Post(<<k, t, a>>)
    BY <1>0, <1>2, <2>1, <2>2 DEF TryAgain
  <2>4. frame' = [frame EXCEPT ![k] = t] BY <1>0, <2>2
  <2>5. step[<<k, t, a>>] = "none"
    <3>1. PICK r \in Posts : r = <<k, t, a>> BY DEF Posts
    <3>2. Kind(r) = k /\ Time(r) = t /\ r[3] = a BY <3>1 DEF Kind, Time
    <3>3. Made(r) BY DEF DeliveryInv, ServerInv
    <3>4. ~(a <= attempt[k]) /\ attempt[k] # 0 BY <1>0, <2>1
    <3> QED BY <2>2, <3>1, <3>2, <3>3, <3>4 DEF Made
  <2>6. a > attempt[k] BY <1>0, <2>1
  <2> QED BY <2>2, <2>3, <2>4, <2>5, <2>6, PostKeeps
<1> QED BY <1>1, <1>2

LEMMA HandleKeeps ==
  ASSUME DeliveryInv, NEW k \in Kinds, NEW t \in Times, Handle(k, t) PROVE DeliveryInv'
<1>1. /\ attempt[k] = 0 /\ t > frame[k] /\ Post(<<k, t, 1>>)
      /\ frame' = [frame EXCEPT ![k] = t] /\ attempt' = [attempt EXCEPT ![k] = 1]
      /\ UNCHANGED <<acked, fresh, storeVars>>
  BY DEF Handle
<1>2. 1 \in Attempts BY DeliveryAssumption DEF Attempts
<1>3. step[<<k, t, 1>>] = "none"
  <2>1. PICK r \in Posts : r = <<k, t, 1>> BY <1>2 DEF Posts
  <2>2. Kind(r) = k /\ Time(r) = t BY <2>1 DEF Kind, Time
  <2>3. Made(r) /\ t \in Nat /\ frame[k] \in Nat
    BY DeliveryAssumption DEF DeliveryInv, ServerInv, DeliveryTypes
  <2> QED BY <1>1, <2>1, <2>2, <2>3 DEF Made
<1> QED BY <1>1, <1>2, <1>3, PostKeeps

\* The answer that tells a worker its event is stored comes from a request that has
\* written what it had to.
LEMMA HearKeeps == ASSUME DeliveryInv, NEW k \in Kinds, Hear(k) PROVE DeliveryInv'
<1>0. attempt[k] > 0 /\ UNCHANGED <<frame, fresh, storeVars>> BY DEF Hear
<1>1. CASE step[Current(k)] # "done"
  <2>1. TryAgain(k) /\ UNCHANGED acked BY <1>1 DEF Hear
  <2> QED BY <1>0, <2>1, TryAgainKeeps
<1>2. CASE step[Current(k)] = "done"
  <2>0. frame[k] \in Times /\ attempt[k] \in Attempts
    BY <1>0, DeliveryAssumption DEF Attempts, DeliveryInv, DeliveryTypes
  <2>1. PICK r \in Posts : r = Current(k) BY <2>0 DEF Posts, Current
  <2>2. Kind(r) = k /\ Time(r) = frame[k] /\ step[r] = "done"
    BY <1>2, <2>1 DEF Kind, Time, Current
  <2>3. Entered(r) /\ Detected(r) BY DEF DeliveryInv, ServerInv
  <2>4. PICK t \in Times : t = frame[k] BY <1>0 DEF DeliveryInv, DeliveryTypes
  <2>5. /\ acked' = [acked EXCEPT ![k] = @ \cup {t}] /\ attempt' = [attempt EXCEPT ![k] = 0]
        /\ UNCHANGED step
    BY <1>2, <2>4 DEF Hear
  <2>6. acked' \in [Kinds -> SUBSET Times] BY <2>5 DEF DeliveryInv, DeliveryTypes
  <2>7. UNCHANGED <<stored, last>> BY <1>0 DEF storeVars
  <2>8. \A l \in Kinds : acked'[l] = IF l = k THEN acked[l] \cup {t} ELSE acked[l]
    BY <2>5 DEF DeliveryInv, DeliveryTypes
  <2>9. AckedInv'
    BY <2>2, <2>3, <2>4, <2>7, <2>8
       DEF DeliveryInv, AckedInv, AckedIsEntered, Entered, Detected, Kinds
  <2> QED BY <1>0, <2>5, <2>6, <2>9, FreeKeeps
<1> QED BY <1>1, <1>2

LEMMA InitDelivery == DeliveryInit => DeliveryInv /\ BusInv
<1> SUFFICES ASSUME DeliveryInit PROVE DeliveryInv /\ BusInv OBVIOUS
<1>1. DeliveryTypes BY DeliveryAssumption DEF DeliveryInit, DeliveryTypes, Steps
<1>2. ServerInv /\ AckedInv
  BY DEF DeliveryInit, ServerInv, AckedInv, AckedIsEntered, Made, Entered, Detected, Kinds
<1>3. BusInv
  BY DEF DeliveryInit, BusInv, Bus!BusInit, Bus!NoWalk, Bus!Walking, Walks
<1> QED BY <1>1, <1>2, <1>3 DEF DeliveryInv

LEMMA NextDelivery ==
  DeliveryInv /\ BusInv /\ [DeliveryNext]_deliveryVars => DeliveryInv' /\ BusInv'
<1> SUFFICES ASSUME DeliveryInv, BusInv, [DeliveryNext]_deliveryVars PROVE DeliveryInv' /\ BusInv'
  OBVIOUS
<1>1. ASSUME UNCHANGED busVars PROVE BusInv' BY <1>1 DEF busVars, BusInv, Ahead, Bus!Walking
<1>2. ASSUME UNCHANGED <<laneVars, step, fresh, storeVars>> PROVE DeliveryInv'
  BY <1>2 DEF laneVars, storeVars, judgeVars, Tried, DeliveryInv, DeliveryTypes, ServerInv, AckedInv, AckedIsEntered,
              Made, Entered, Detected, Followed, Following
<1>3. ASSUME NEW k \in Kinds, NEW t \in Times, Handle(k, t) PROVE DeliveryInv' /\ BusInv'
  <2>1. UNCHANGED busVars BY <1>3 DEF Handle
  <2> QED BY <1>1, <1>3, <2>1, HandleKeeps
<1>4. ASSUME NEW k \in Kinds, Hear(k) PROVE DeliveryInv' /\ BusInv'
  <2>1. UNCHANGED busVars BY <1>4 DEF Hear
  <2> QED BY <1>1, <1>4, <2>1, HearKeeps
<1>5. ASSUME NEW k \in Kinds, TimeOut(k) PROVE DeliveryInv' /\ BusInv'
  <2>1. UNCHANGED busVars BY <1>5 DEF TimeOut
  <2>2. attempt[k] > 0 /\ TryAgain(k) /\ UNCHANGED <<frame, acked, fresh, storeVars>>
    BY <1>5 DEF TimeOut
  <2> QED BY <1>1, <2>1, <2>2, TryAgainKeeps
<1>6. ASSUME NEW r \in Posts, Process(r) PROVE DeliveryInv' /\ BusInv'
  <2>1. CASE StartShow(r)
    <3>1. Bus!StartWalk(r) BY <2>1 DEF StartShow
    <3> QED BY <2>1, <3>1, ShowKeeps, StartWalkKeeps
  <2>2. CASE Show(r)
    <3>1. Bus!PutNext(r) /\ UNCHANGED <<laneVars, step, fresh, storeVars>> BY <2>2 DEF Show
    <3> QED BY <1>2, <3>1, PutNextKeeps
  <2>3. CASE EndShow(r) \/ Find(r)
    <3>1. Bus!EndWalk(r) BY <2>3 DEF EndShow, Find
    <3> QED BY <2>3, <3>1, ShowKeeps, EndWalkKeeps
  <2>4. CASE Save(r) \/ Update(r) \/ Judge(r) \/ Fail(r)
    <3>1. UNCHANGED busVars BY <2>4 DEF Save, Update, Judge, Fail
    <3> QED BY <1>1, <2>4, <3>1, SaveKeeps, UpdateKeeps, JudgeKeeps, FailKeeps
  <2> QED BY <1>6, <2>1, <2>2, <2>3, <2>4 DEF Process
<1>7. ASSUME NEW s \in Subscribers, Connection(s), UNCHANGED <<laneVars, step, fresh, storeVars>>
      PROVE  DeliveryInv' /\ BusInv'
  BY <1>2, <1>7, ConnectionKeeps
<1>8. CASE UNCHANGED deliveryVars BY <1>1, <1>2, <1>8 DEF deliveryVars
<1> QED BY <1>3, <1>4, <1>5, <1>6, <1>7, <1>8 DEF DeliveryNext

-----------------------------------------------------------------------------
(* The theorems of the delivery.                                           *)

\* The lanes, the requests they made, the stores these write and the walks over the
\* subscribers stay within their types, and no lane makes a request twice.
THEOREM DeliveryInvariance == DeliverySpec => [](DeliveryInv /\ BusInv)
BY InitDelivery, NextDelivery, PTL DEF DeliverySpec

\* Whatever screens connect and leave while events are published, a walk that ends has
\* reached everyone who was there and stayed.
THEOREM EveryoneIsToldAlways == DeliverySpec => []EveryoneIsTold
BY BusTold, DeliveryInvariance, PTL

\* However attempts overlap, fail and get lost, an entry event the worker was told to be
\* stored is stored and entered.
THEOREM AckedIsEnteredAlways == DeliverySpec => []AckedIsEntered
<1>1. DeliveryInv => AckedIsEntered BY DEF DeliveryInv, AckedInv
<1> QED BY <1>1, DeliveryInvariance, PTL

\* A detection of a camera that judges seats, which the worker was told to be stored, is
\* judged, or what went wrong with that is in the log, or a request that found it new is
\* going to judge it or failed after the insert.
THEOREM AckedIsJudgedAlways == DeliverySpec => []AckedIsJudged
<1>1. DeliveryInv => AckedIsJudged
  BY DEF DeliveryInv, ServerInv, AckedInv, AckedIsJudged, Followed, Tried, Following
<1> QED BY <1>1, DeliveryInvariance, PTL
-----------------------------------------------------------------------------
(* Assignments of seats.                                                   *)

Ops == {"assign", "unassign", "delete", "edit", None}
ReqType ==
  [op : Ops, step : {"idle", "read", "open", "done"}, seat : Seats \cup {None},
   student : Students \cup {None}, at : Status, of : Assignments,
   written : SUBSET Documents, attempt : 0..RetryLimit - 1]

\* A request that works knows what it works on.
Shaped(e) ==
  e.step \in {"read", "open"} =>
    /\ e.seat \in Seats
    /\ e.op \in {"assign", "unassign", "delete", "edit"}
    /\ e.op = "assign" => e.student \in Students
    /\ e.step = "open" => e.op # "edit"
    /\ e.op = "edit" => e.at # "gone"

\* What an open transaction has not been told to be written is as in its snapshot: the
\* assignments of the seats, and the students who have got no other seat.
Sees(e, a) ==
  e.step = "open" =>
    /\ \A s \in Seats : <<"assignment", s>> \notin e.written => e.of[s] = a[s]
    /\ \A s \in Seats, st \in Students :
         <<"student", st>> \notin e.written /\ a[s] = st => e.of[s] = st

\* Nor is the seat of an assignment gone, which was there at the snapshot.
Finds(e, st) ==
  e.step = "open" /\ e.op = "assign" /\ <<"seat", e.seat>> \notin e.written =>
    st[e.seat] # "gone"

AssignmentInv ==
  /\ TypeOK
  /\ OneSeatPerStudent
  /\ \A r \in Requests : Shaped(req[r]) /\ Sees(req[r], assigned) /\ Finds(req[r], status)

-----------------------------------------------------------------------------
(* One request's step as the others see it.                                *)

\* The table of requests stays within its type.
LEMMA StepType ==
  ASSUME req \in [Requests -> ReqType],
         NEW r \in Requests, NEW entry \in ReqType, NEW written \in SUBSET Documents,
         Step(r, entry, written)
  PROVE  req' \in [Requests -> ReqType]
<1>1. ASSUME NEW q \in Requests
      PROVE  [req[q] EXCEPT !.written = req[q].written \cup written] \in ReqType
  BY DEF ReqType
<1> QED BY <1>1 DEF Step

\* The request goes to its entry; another one keeps what it has, and learns what was
\* written if it is open.
LEMMA StepOthers ==
  ASSUME req \in [Requests -> ReqType],
         NEW r \in Requests, NEW entry \in ReqType, NEW written \in SUBSET Documents,
         Step(r, entry, written)
  PROVE  /\ req'[r] = entry
         /\ \A q \in Requests \ {r} :
              /\ req'[q].step = req[q].step /\ req'[q].seat = req[q].seat
              /\ req'[q].op = req[q].op /\ req'[q].student = req[q].student
              /\ req'[q].of = req[q].of /\ req'[q].at = req[q].at
              /\ req[q].step = "open" => req'[q].written = req[q].written \cup written
BY DEF Step, ReqType

\* Steps that leave the assignments alone keep the invariant when the entry is good.
LEMMA QuietStep ==
  ASSUME AssignmentInv, assigned' = assigned,
         NEW r \in Requests, NEW entry \in ReqType, NEW written \in SUBSET Documents,
         status' \in [Seats -> Status],
         \A s \in Seats : status'[s] = "gone" => status[s] = "gone",
         Shaped(entry), Sees(entry, assigned), Finds(entry, status'),
         Step(r, entry, written)
  PROVE  AssignmentInv'
<1>1. req \in [Requests -> ReqType]
  BY DEF AssignmentInv, TypeOK, ReqType, Ops
<1>2. TypeOK'
  BY <1>1, StepType DEF AssignmentInv, TypeOK, ReqType, Ops
<1>3. OneSeatPerStudent'
  BY DEF AssignmentInv, OneSeatPerStudent
<1>4. ASSUME NEW q \in Requests
      PROVE  Shaped(req[q])' /\ Sees(req[q], assigned)' /\ Finds(req[q], status)'
  <2>1. CASE q = r
    BY <1>1, <2>1, StepOthers DEF Shaped, Sees, Finds
  <2>2. CASE q # r
    <3>1. Shaped(req[q])' /\ Sees(req[q], assigned)'
      BY <1>1, <2>2, StepOthers DEF AssignmentInv, Shaped, Sees
    <3>2. Finds(req[q], status)'
      BY <1>1, <2>2, StepOthers DEF AssignmentInv, Finds, Shaped
    <3> QED BY <3>1, <3>2
  <2> QED BY <2>1, <2>2
<1> QED BY <1>2, <1>3, <1>4 DEF AssignmentInv

-----------------------------------------------------------------------------
(* The steps.                                                              *)

LEMMA InitAssignment == Init => AssignmentInv
<1> SUFFICES ASSUME Init PROVE AssignmentInv
  OBVIOUS
<1>1. NoRequest \in ReqType
  BY AssignmentAssumption DEF NoRequest, ReqType, Ops, Assignments, Status
<1>2. TypeOK
  BY <1>1 DEF Init, TypeOK, ReqType, Ops, Status
<1>3. OneSeatPerStudent
  BY DEF Init, OneSeatPerStudent
<1> QED BY <1>2, <1>3 DEF Init, AssignmentInv, NoRequest, Shaped, Sees, Finds

\* A request that is over.
LEMMA DoneGood ==
  ASSUME AssignmentInv, NEW r \in Requests
  PROVE  /\ Done(r) \in ReqType /\ Shaped(Done(r)) /\ Sees(Done(r), assigned)
         /\ \A st : Finds(Done(r), st)
<1>1. req[r].op \in Ops
  BY DEF AssignmentInv, TypeOK, Ops
<1>2. NoRequest \in ReqType
  BY AssignmentAssumption DEF NoRequest, ReqType, Ops, Assignments, Status
<1>3. Done(r) \in ReqType /\ Done(r).step = "done"
  BY <1>1, <1>2 DEF Done, ReqType, NoRequest
<1> QED BY <1>3 DEF Shaped, Sees, Finds

LEMMA ReadKeeps ==
  ASSUME AssignmentInv, NEW r \in Requests, NEW op, NEW s \in Seats, NEW st \in Students \cup {None},
         Read(r, op, s, st)
  PROVE  AssignmentInv'
<1> DEFINE entry == [NoRequest EXCEPT !.op = op, !.step = "read", !.seat = s, !.student = st,
                                      !.at = status[s]]
           over == [NoRequest EXCEPT !.op = op, !.step = "done"]
<1>1. NoRequest \in ReqType
  BY AssignmentAssumption DEF NoRequest, ReqType, Ops, Assignments, Status
<1>2. op \in Ops /\ status[s] \in Status /\ status' = status /\ assigned' = assigned
  BY DEF Read, Ops, AssignmentInv, TypeOK
<1>3. entry \in ReqType /\ over \in ReqType
  BY <1>1, <1>2 DEF ReqType, NoRequest
<1>4. ASSUME Fit(s)
      PROVE  Shaped(entry) /\ Sees(entry, assigned) /\ Finds(entry, status')
  BY <1>4, AssignmentAssumption DEF Shaped, Sees, Finds, NoRequest, Read, Fit
<1>5. Shaped(over) /\ Sees(over, assigned) /\ Finds(over, status')
  BY DEF Shaped, Sees, Finds, NoRequest
<1>6. status' \in [Seats -> Status]
  BY <1>2 DEF AssignmentInv, TypeOK
<1>7. CASE Fit(s)
  <2>1. Step(r, entry, {})
    BY <1>7 DEF Read
  <2>2. Shaped(entry) /\ Sees(entry, assigned) /\ Finds(entry, status')
    BY <1>4, <1>7
  <2> HIDE DEF entry
  <2> QED BY <2>1, <2>2, <1>2, <1>3, <1>6, QuietStep
<1>8. CASE ~Fit(s)
  <2>1. Step(r, over, {})
    BY <1>8 DEF Read
  <2> HIDE DEF over
  <2> QED BY <2>1, <1>2, <1>3, <1>5, <1>6, QuietStep
<1> QED BY <1>7, <1>8

LEMMA StartUnassignKeeps ==
  ASSUME AssignmentInv, NEW r \in Requests, NEW s \in Seats, StartUnassign(r, s)
  PROVE  AssignmentInv'
<1> DEFINE entry == [NoRequest EXCEPT !.op = "unassign", !.step = "read", !.seat = s]
<1>1. NoRequest \in ReqType
  BY AssignmentAssumption DEF NoRequest, ReqType, Ops, Assignments, Status
<1>2. entry \in ReqType
  BY <1>1 DEF ReqType, NoRequest, Ops
<1>3. Shaped(entry) /\ Sees(entry, assigned) /\ Finds(entry, status')
  BY DEF Shaped, Sees, Finds, NoRequest
<1>4. Step(r, entry, {}) /\ assigned' = assigned /\ status' = status /\ status \in [Seats -> Status]
  BY DEF StartUnassign, AssignmentInv, TypeOK
<1> HIDE DEF entry
<1> QED BY <1>2, <1>3, <1>4, QuietStep

LEMMA OpenKeeps ==
  ASSUME AssignmentInv, NEW r \in Requests, Open(r)
  PROVE  AssignmentInv'
<1> DEFINE entry == [req[r] EXCEPT !.step = "open", !.at = status[req[r].seat],
                                   !.of = assigned, !.written = {}]
<1>1. req[r] \in ReqType /\ assigned \in Assignments /\ status \in [Seats -> Status]
  BY DEF AssignmentInv, TypeOK, ReqType, Ops
<1>2. req[r].step = "read" /\ req[r].op # "edit" /\ Shaped(req[r])
  BY DEF Open, AssignmentInv
<1>3. req[r].seat \in Seats
  BY <1>2 DEF Shaped
<1>4. entry \in ReqType
  BY <1>1, <1>3 DEF ReqType
<1>5. Shaped(entry) /\ Sees(entry, assigned)
  BY <1>1, <1>2 DEF Shaped, Sees, ReqType
<1>6. assigned' = assigned /\ status' = status
  BY <1>1 DEF Open
<1>7. (Step(r, entry, {}) /\ (req[r].op = "assign" => status[req[r].seat] = "active"))
        \/ Step(r, Done(r), {})
  BY <1>2 DEF Open
<1>10. entry.seat = req[r].seat /\ entry.op = req[r].op
  BY <1>1 DEF ReqType
<1> HIDE DEF entry
<1>8. CASE Step(r, entry, {}) /\ (req[r].op = "assign" => status[req[r].seat] = "active")
  <2>1. Finds(entry, status')
    BY <1>6, <1>8, <1>10 DEF Finds
  <2> QED BY <1>1, <1>4, <1>5, <1>6, <1>8, <2>1, QuietStep
<1>9. CASE Step(r, Done(r), {})
  BY <1>1, <1>6, <1>9, DoneGood, QuietStep
<1> QED BY <1>7, <1>8, <1>9

LEMMA AbortKeeps ==
  ASSUME AssignmentInv, NEW r \in Requests, Abort(r)
  PROVE  AssignmentInv'
<1> DEFINE entry == [req[r] EXCEPT !.step = "read", !.attempt = req[r].attempt + 1]
<1>1. req[r] \in ReqType /\ status \in [Seats -> Status]
  BY DEF AssignmentInv, TypeOK, ReqType, Ops
<1>2. req[r].step = "open" /\ Shaped(req[r])
  BY DEF Abort, AssignmentInv
<1>3. ASSUME MayRetry(r) PROVE entry \in ReqType
  <2>1. req[r].attempt + 1 \in 0..RetryLimit - 1
    BY <1>1, <1>3, AssignmentAssumption DEF MayRetry, ReqType
  <2> QED BY <1>1, <2>1 DEF ReqType
<1>4. Shaped(entry) /\ Sees(entry, assigned) /\ Finds(entry, status')
  BY <1>1, <1>2 DEF Shaped, Sees, Finds, ReqType
<1>5. assigned' = assigned /\ status' = status /\ status' \in [Seats -> Status]
  BY <1>1 DEF Abort
<1>6. CASE MayRetry(r)
  <2>1. Step(r, entry, {})
    BY <1>6 DEF Abort
  <2> HIDE DEF entry
  <2> QED BY <1>3, <1>4, <1>5, <1>6, <2>1, QuietStep
<1>7. CASE ~MayRetry(r)
  <2>1. Step(r, Done(r), {})
    BY <1>7 DEF Abort
  <2> QED BY <1>5, <2>1, DoneGood, QuietStep
<1> QED BY <1>6, <1>7

LEMMA EditKeeps ==
  ASSUME AssignmentInv, NEW r \in Requests, NEW isActive \in {"active", "inactive", None},
         Edit(r, isActive)
  PROVE  AssignmentInv'
<1>1. req[r].at \in Status /\ status \in [Seats -> Status] /\ assigned' = assigned
  BY DEF AssignmentInv, TypeOK, Edit
<1>2. status' \in [Seats -> Status] /\ \A s \in Seats : status'[s] = "gone" => status[s] = "gone"
  <2>1. req[r].at # "gone"
    BY DEF Edit, AssignmentInv, Shaped
  <2> QED BY <1>1, <2>1 DEF Edit, Status
<1>3. req[r].seat \in Seats
  BY DEF AssignmentInv, Shaped, Edit
<1>4. {<<"seat", req[r].seat>>} \in SUBSET Documents
  BY <1>3 DEF Documents
<1>5. Step(r, Done(r), {}) \/ Step(r, Done(r), {<<"seat", req[r].seat>>})
  BY DEF Edit
<1> QED BY <1>1, <1>2, <1>4, <1>5, DoneGood, QuietStep

-----------------------------------------------------------------------------
(* A commit.                                                               *)

\* What a transaction writes covers every assignment it changes, and every student it
\* gives a seat.
LEMMA WritesCover ==
  ASSUME AssignmentInv, NEW r \in Requests, req[r].step = "open"
  PROVE  /\ Writes(r) \in SUBSET Documents
         /\ AssignedBy(r) \in Assignments
         /\ \A s \in Seats : AssignedBy(r)[s] # assigned[s] => <<"assignment", s>> \in Writes(r)
         /\ \A s \in Seats, st \in Students :
              AssignedBy(r)[s] = st /\ assigned[s] # st => <<"student", st>> \in Writes(r)
<1>1. /\ req[r].seat \in Seats /\ req[r].op \in {"assign", "unassign", "delete"}
      /\ req[r].op = "assign" => req[r].student \in Students
      /\ assigned \in Assignments
  BY DEF AssignmentInv, TypeOK, Shaped
<1>2. CASE req[r].op = "assign"
  <2>1. Writes(r) = {"assignment"} \X ({req[r].seat} \cup OldSeats(r))
                      \cup {<<"student", req[r].student>>}
    BY <1>2 DEF Writes
  <2>2. AssignedBy(r) = [s \in Seats |-> IF s = req[r].seat THEN req[r].student
                                         ELSE IF s \in OldSeats(r) THEN None ELSE assigned[s]]
    BY <1>2 DEF AssignedBy
  <2>3. OldSeats(r) \subseteq Seats
    BY DEF OldSeats
  <2> QED BY <1>1, <1>2, <2>1, <2>2, <2>3, AssignmentAssumption DEF Documents, Assignments
<1>3. CASE req[r].op # "assign"
  <2>1. /\ {"assignment"} \X {t \in {req[r].seat} : req[r].of[t] # None} \subseteq Writes(r)
        /\ Writes(r) \subseteq Documents
    BY <1>1, <1>3 DEF Writes, Documents
  <2>2. AssignedBy(r) = [s \in Seats |-> IF s = req[r].seat /\ req[r].of[s] # None
                                         THEN None ELSE assigned[s]]
    BY <1>3 DEF AssignedBy
  <2> QED BY <1>1, <2>1, <2>2, AssignmentAssumption DEF Assignments
<1> QED BY <1>2, <1>3

\* The transaction that commits has seen every other seat of its student.
LEMMA CommitOneSeat ==
  ASSUME AssignmentInv, NEW r \in Requests, Commit(r)
  PROVE  OneSeatPerStudent'
<1>1. /\ req[r].step = "open" /\ Shaped(req[r]) /\ Sees(req[r], assigned)
      /\ Writes(r) \cap req[r].written = {} /\ assigned' = AssignedBy(r)
      /\ OneSeatPerStudent
  BY DEF Commit, Conflict, AssignmentInv
<1>2. CASE req[r].op = "assign"
  <2>1. <<"student", req[r].student>> \notin req[r].written
    BY <1>1, <1>2 DEF Writes
  <2>2. \A s \in Seats \ {req[r].seat} : assigned[s] = req[r].student => s \in OldSeats(r)
    BY <1>1, <1>2, <2>1 DEF Sees, Shaped, OldSeats
  <2>3. assigned' = [s \in Seats |-> IF s = req[r].seat THEN req[r].student
                                     ELSE IF s \in OldSeats(r) THEN None ELSE assigned[s]]
    BY <1>1, <1>2 DEF AssignedBy
  <2> QED BY <1>1, <2>2, <2>3 DEF OneSeatPerStudent
<1>3. CASE req[r].op # "assign"
  <2>1. assigned' = [s \in Seats |-> IF s = req[r].seat /\ req[r].of[s] # None
                                     THEN None ELSE assigned[s]]
    BY <1>1, <1>3 DEF AssignedBy
  <2> QED BY <1>1, <2>1 DEF OneSeatPerStudent
<1> QED BY <1>2, <1>3

LEMMA CommitKeeps ==
  ASSUME AssignmentInv, NEW r \in Requests, Commit(r)
  PROVE  AssignmentInv'
<1>1. /\ req[r].step = "open" /\ assigned' = AssignedBy(r) /\ Step(r, Done(r), Writes(r))
      /\ req \in [Requests -> ReqType] /\ status \in [Seats -> Status]
  BY DEF Commit, AssignmentInv, TypeOK, ReqType, Ops
<1>2. /\ Writes(r) \in SUBSET Documents
      /\ assigned' \in Assignments
      /\ \A s \in Seats : assigned'[s] # assigned[s] => <<"assignment", s>> \in Writes(r)
      /\ \A s \in Seats, st \in Students :
           assigned'[s] = st /\ assigned[s] # st => <<"student", st>> \in Writes(r)
  BY <1>1, WritesCover
<1>3. Done(r) \in ReqType /\ Done(r).step = "done"
  <2>1. req[r].op \in Ops /\ NoRequest \in ReqType
    BY <1>1, AssignmentAssumption DEF NoRequest, ReqType, Ops, Assignments, Status
  <2> QED BY <2>1 DEF Done, ReqType, NoRequest
<1>4. TypeOK'
  <2>1. status' \in [Seats -> Status]
    BY <1>1 DEF Commit, Status
  <2>2. req' \in [Requests -> ReqType]
    BY <1>1, <1>2, <1>3, StepType
  <2> QED BY <1>2, <2>1, <2>2 DEF TypeOK, ReqType, Ops
<1>7. \A s \in Seats : status'[s] = "gone" => status[s] = "gone" \/ <<"seat", s>> \in Writes(r)
  BY <1>1 DEF Commit, Writes
<1>5. ASSUME NEW q \in Requests
      PROVE  Shaped(req[q])' /\ Sees(req[q], assigned)' /\ Finds(req[q], status)'
  <2>1. CASE q = r
    BY <1>1, <1>2, <1>3, <2>1, StepOthers DEF Shaped, Sees, Finds
  <2>2. CASE q # r
    <3>1. /\ req'[q].step = req[q].step /\ req'[q].seat = req[q].seat
          /\ req'[q].op = req[q].op /\ req'[q].student = req[q].student
          /\ req'[q].of = req[q].of /\ req'[q].at = req[q].at
          /\ req[q].step = "open" => req'[q].written = req[q].written \cup Writes(r)
      BY <1>1, <1>2, <1>3, <2>2, StepOthers
    <3>2. Shaped(req[q]) /\ Sees(req[q], assigned) /\ Finds(req[q], status)
      BY DEF AssignmentInv
    <3>3. Shaped(req[q])'
      BY <3>1, <3>2 DEF Shaped
    <3>4. Sees(req[q], assigned)'
      BY <1>2, <3>1, <3>2 DEF Sees
    <3>5. Finds(req[q], status)'
      BY <1>7, <3>1, <3>2 DEF Finds, Shaped
    <3> QED BY <3>3, <3>4, <3>5
  <2> QED BY <2>1, <2>2
<1>6. OneSeatPerStudent'
  BY CommitOneSeat
<1> QED BY <1>4, <1>5, <1>6 DEF AssignmentInv

LEMMA NextAssignment == AssignmentInv /\ [Next]_vars => AssignmentInv'
<1> SUFFICES ASSUME AssignmentInv, [Next]_vars PROVE AssignmentInv'
  OBVIOUS
<1>1. CASE UNCHANGED vars
  BY <1>1 DEF AssignmentInv, TypeOK, OneSeatPerStudent, Shaped, Sees, Finds, vars
<1>2. ASSUME NEW r \in Requests, Serve(r) PROVE AssignmentInv'
  BY <1>2, ReadKeeps, StartUnassignKeeps, OpenKeeps, CommitKeeps, AbortKeeps, EditKeeps
  DEF Serve
<1> QED BY <1>1, <1>2 DEF Next

-----------------------------------------------------------------------------
(* Students left on seats that are gone.                                   *)

Overlapped(r, s) ==
  /\ req[r].step = "open" /\ req[r].seat = s
  /\ \/ req[r].op = "assign" /\ <<"seat", s>> \in req[r].written
     \/ req[r].op = "delete" /\ <<"assignment", s>> \in req[r].written

\* Only a commit makes a seat gone or gives it a student. An assignment whose seat is
\* gone has not seen it written; a deletion that leaves a student has not seen the
\* assignment.
LEMMA CommitOrphans ==
  ASSUME AssignmentInv, NEW r \in Requests, Commit(r), NEW s \in Seats, Orphan(s)', ~Orphan(s)
  PROVE  Overlapped(r, s)
<1>1. /\ req[r].step = "open" /\ Shaped(req[r]) /\ Sees(req[r], assigned)
      /\ Finds(req[r], status) /\ assigned' = AssignedBy(r)
      /\ status' = IF req[r].op = "delete" THEN [status EXCEPT ![req[r].seat] = "gone"]
                   ELSE status
      /\ status \in [Seats -> Status]
  BY DEF Commit, AssignmentInv, TypeOK
<1>2. CASE req[r].op = "assign"
  <2>1. assigned' = [t \in Seats |-> IF t = req[r].seat THEN req[r].student
                                     ELSE IF t \in OldSeats(r) THEN None ELSE assigned[t]]
    BY <1>1, <1>2 DEF AssignedBy
  <2>2. s = req[r].seat /\ status[s] = "gone"
    BY <1>1, <1>2, <2>1 DEF Orphan
  <2> QED BY <1>1, <1>2, <2>2 DEF Finds, Overlapped
<1>3. CASE req[r].op = "delete"
  <2>1. assigned' = [t \in Seats |-> IF t = req[r].seat /\ req[r].of[t] # None
                                     THEN None ELSE assigned[t]]
    BY <1>1, <1>3 DEF AssignedBy
  <2>2. s = req[r].seat /\ req[r].of[s] = None /\ assigned[s] # None
    BY <1>1, <1>3, <2>1 DEF Orphan
  <2> QED BY <1>1, <1>3, <2>2 DEF Sees, Overlapped
<1>4. CASE req[r].op = "unassign"
  <2>1. status' = status /\ (assigned'[s] # None => assigned[s] # None)
    BY <1>1, <1>4 DEF AssignedBy
  <2> QED BY <2>1 DEF Orphan
<1> QED BY <1>1, <1>2, <1>3, <1>4 DEF Shaped

LEMMA OrphanStep ==
  ASSUME AssignmentInv, [Next]_vars, NEW s \in Seats, Orphan(s)', ~Orphan(s)
  PROVE  \E r \in Requests : Overlapped(r, s)
<1>1. CASE UNCHANGED vars
  BY <1>1 DEF vars, Orphan
<1>2. ASSUME NEW r \in Requests, Serve(r) PROVE Overlapped(r, s)
  <2>1. CASE Commit(r)
    BY <2>1, CommitOrphans
  <2>2. CASE \E isActive \in {"active", "inactive", None} : Edit(r, isActive)
    <3>1. req[r].at # "gone" /\ assigned' = assigned /\ status \in [Seats -> Status]
      BY <2>2 DEF Edit, AssignmentInv, Shaped, TypeOK
    <3>2. status'[s] = "gone" => status[s] = "gone"
      BY <2>2, <3>1 DEF Edit
    <3> QED BY <3>1, <3>2 DEF Orphan
  <2>3. CASE status' = status /\ assigned' = assigned
    BY <2>3 DEF Orphan
  <2> QED BY <1>2, <2>1, <2>2, <2>3 DEF Serve, Read, StartUnassign, Open, Abort
<1> QED BY <1>1, <1>2 DEF Next

-----------------------------------------------------------------------------
(* The theorems of the assignments.                                        *)

\* The state of seats, assignments and requests stays within its type.
THEOREM AssignmentTypes == Spec => []TypeOK
<1>1. AssignmentInv => TypeOK
  BY DEF AssignmentInv
<1> QED BY <1>1, InitAssignment, NextAssignment, PTL DEF Spec

\* However assignments, moves, withdrawals and deletions of seats overlap, no student
\* has two seats of a classroom.
THEOREM OneSeatAlways == Spec => []OneSeatPerStudent
<1>1. AssignmentInv => OneSeatPerStudent
  BY DEF AssignmentInv
<1> QED BY <1>1, InitAssignment, NextAssignment, PTL DEF Spec

\* A student is left on a seat that is gone only by an assignment and a deletion that
\* overlap.
THEOREM OrphansOnlyFromOverlapAlways == Spec => OrphansOnlyFromOverlap
<1>1. AssignmentInv /\ [Next]_vars =>
        [\A s \in Seats : Orphan(s)' /\ ~Orphan(s) =>
           \E r \in Requests :
             /\ req[r].step = "open" /\ req[r].seat = s
             /\ \/ req[r].op = "assign" /\ <<"seat", s>> \in req[r].written
                \/ req[r].op = "delete" /\ <<"assignment", s>> \in req[r].written]_vars
  BY OrphanStep DEF Overlapped
<1> QED BY <1>1, InitAssignment, NextAssignment, PTL DEF Spec, OrphansOnlyFromOverlap
=============================================================================
