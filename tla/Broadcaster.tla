---------------------------- MODULE Broadcaster -----------------------------
(***************************************************************************)
(* The bus of the server's events, app/shared/broadcaster.py: one bounded  *)
(* queue per SSE connection.  Connections come and go in the event loop;   *)
(* publish runs in the request threads and walks the list of queues while  *)
(* it changes.  What an event says is left to the modules that publish.    *)
(***************************************************************************)
EXTENDS Naturals, FiniteSets, Sequences, SequencesExt

CONSTANTS
  Subscribers, \* the SSE connections
  Publishers,  \* the requests that publish
  Capacity,    \* maxsize of a subscriber's queue
  MaxWalks     \* bound on the requests that publish at the same time

VARIABLES
  subs,  \* _subscribers
  queue, \* how many events wait in the queue of each subscriber
  walk   \* where each publisher is in the list: [at, owed], at = 0 when it is not

\* owed are the subscribers that were there at the start and have not been reached; once
\* one has left during the walk nobody is owed anything.
NoWalk == [at |-> 0, owed |-> {}]

IsIn(s) == s \in Range(subs)
Walking(p) == walk[p].at > 0

\* subscribe appends.
Added(s) == Append(subs, s)

Subscribe(s) ==
  /\ ~IsIn(s)
  /\ subs' = Added(s)
  /\ UNCHANGED <<queue, walk>>

\* unsubscribe takes the queue out of the list; those behind it move up.
Unsubscribe(s) ==
  /\ \E i \in DOMAIN subs : subs[i] = s /\ subs' = RemoveAt(subs, i)
  /\ walk' = [p \in Publishers |->
       IF Walking(p) THEN [walk[p] EXCEPT !.owed = {}] ELSE walk[p]]
  /\ queue' = [queue EXCEPT ![s] = 0]

StartWalk(p) ==
  /\ ~Walking(p)
  /\ Cardinality({q \in Publishers : Walking(q)}) < MaxWalks
  /\ walk' = [walk EXCEPT ![p] = [at |-> 1, owed |-> Range(subs)]]
  /\ UNCHANGED <<subs, queue>>

Full(s) == queue[s] = Capacity

\* Mutant of After: a full queue ends the walk.
AfterFull(p) == IF Full(subs[walk[p].at]) THEN Len(subs) + 1 ELSE walk[p].at + 1

\* The walk goes on after a full queue as after any other.
After(p) == walk[p].at + 1

\* put_nowait into the next queue; QueueFull is suppressed.
PutNext(p) ==
  LET s == subs[walk[p].at] IN
  /\ Walking(p) /\ walk[p].at <= Len(subs)
  /\ queue' = [queue EXCEPT ![s] = IF Full(s) THEN @ ELSE @ + 1]
  /\ walk' = [walk EXCEPT ![p] = [at |-> After(p), owed |-> @.owed \ {s}]]
  /\ UNCHANGED subs

AtEnd(p) == Walking(p) /\ walk[p].at > Len(subs)

EndWalk(p) ==
  /\ AtEnd(p)
  /\ walk' = [walk EXCEPT ![p] = NoWalk]
  /\ UNCHANGED <<subs, queue>>

\* The connection takes the next event from its queue.
Deliver(s) ==
  /\ IsIn(s) /\ queue[s] > 0
  /\ queue' = [queue EXCEPT ![s] = @ - 1]
  /\ UNCHANGED <<subs, walk>>

BusInit ==
  /\ subs = <<>>
  /\ queue = [s \in Subscribers |-> 0]
  /\ walk = [p \in Publishers |-> NoWalk]

\* Every event gets to each subscriber that is there while it is published, unless that
\* one's queue is full, or a subscriber leaves and the list moves under the walk: a
\* slow screen never keeps an event from the others.
EveryoneIsTold == \A p \in Publishers : AtEnd(p) => walk[p].owed = {}
=============================================================================
