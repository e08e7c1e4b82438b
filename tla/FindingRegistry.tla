--------------------------- MODULE FindingRegistry ---------------------------
(***************************************************************************)
(* gateway.py, class FindingRegistry, with the SSE handler of /v0.5/stream *)
(* that drives FindingRegistry.subscribe().                                *)
(*                                                                         *)
(* The registry lives on an asyncio event loop.  Every critical section    *)
(* under `self._lock` runs without an await inside, so the lock is never   *)
(* contended and each section is one step of the loop.  What interleaves:  *)
(* the coroutines of the subscribers, the handlers that add, and -- when   *)
(* OffLoop is TRUE -- threads that call add_sync while the loop is in the  *)
(* middle of a query.                                                      *)
(*                                                                         *)
(* A finding or a correlation is named by the order of its creation, a     *)
(* number in 1..created.                                                   *)
(***************************************************************************)
EXTENDS Naturals, Sequences, FiniteSets, SequencesExt

CONSTANTS Subscribers,  \* connections to /v0.5/stream, each used once
          Contents,     \* what a finding may say (see Content)
          Requests,     \* the filters of a query (see Request)
          None,         \* Python's None
          MaxSize,      \* max_size of the registry
          QueueCap,     \* maxsize of a subscriber's queue, 1000 in the code
          MaxItems,     \* bound: items created in a behaviour
          OffLoop       \* may add_sync run on another thread than the loop?

ASSUME SizesAssumption == /\ MaxSize \in Nat
                          /\ QueueCap \in Nat \ {0}
                          /\ MaxItems \in Nat
ASSUME OffLoopAssumption == OffLoop \in BOOLEAN

\* The nullable and the plain filters of a query, compared for equality.
Fields == {"source", "severity", "host", "cve"}

\* `ts` and `since` are points in time; `plain` tells whether json.dumps can
\* encode the finding's metadata.
ASSUME ContentsAssumption ==
    \A c \in Contents : /\ DOMAIN c = Fields \cup {"ts", "plain"}
                        /\ c.plain \in BOOLEAN
                        /\ c.ts \in Nat \cup {None}
ASSUME RequestsAssumption ==
    \A r \in Requests : /\ DOMAIN r = Fields \cup {"since", "limit"}
                        /\ r.since \in Nat \cup {None}
                        /\ r.limit \in Nat
ASSUME NoneAssumption == None \notin Nat

VARIABLES findings,      \* _findings: deque of [id, body], oldest first
          correlations,  \* _correlations: deque of ids
          subscribers,   \* _subscribers: whose queue the registry holds
          queue,         \* the asyncio.Queue of each subscriber
          phase,         \* where each connection's coroutine stands
          query,         \* the query the loop's thread is running
          created,       \* history: number of items created so far
          correlated,    \* history: which of them are correlations
          published,     \* history: items that add/add_correlation published
          cursor,        \* history: the last item handed to the subscriber,
                         \* or the last one created before it registered
          missed         \* history: items it lost because its queue was full

store   == <<findings, correlations, correlated>>
streams == <<subscribers, queue, phase, cursor, missed>>
vars    == <<findings, correlations, subscribers, queue, phase, query,
             created, correlated, published, cursor, missed>>

Item  == [id : Nat, body : Contents]
Event == [kind : {"finding", "correlation"}, id : Nat, plain : BOOLEAN]
QueryRecord ==
    [phase : {"idle", "scanning", "done", "error"}, req : Requests \cup {None},
     snapshot : Seq(Item), pos : Nat, results : Seq(Item), dirty : BOOLEAN]
Phase == {"absent", "opened", "waiting", "sending", "abandoned", "gone"}
-----------------------------------------------------------------------------
(***************************************************************************)
(* The deques and queues.                                                  *)
(***************************************************************************)
\* Mutants: a full queue drops its oldest item; a queue is filled from the
\* front; correlations are never dropped.
OfferDropsOldest(q, e) ==
    IF Len(q) < QueueCap THEN Append(q, e) ELSE Append(Tail(q), e)
OfferAtFront(q, e) == IF Len(q) < QueueCap THEN <<e>> \o q ELSE q
OfferKeepsCorrelations(q, e) ==
    IF Len(q) < QueueCap \/ e.kind = "correlation" THEN Append(q, e) ELSE q

\* deque(maxlen=MaxSize).append
Retain(d, x) == IF Len(d) < MaxSize THEN Append(d, x) ELSE Tail(Append(d, x))

\* if not q.full(): q.put_nowait(e)
Offer(q, e) == IF Len(q) < QueueCap THEN Append(q, e) ELSE q

\* Registered, and its client still there.
Connected(s) == phase[s] \in {"waiting", "sending"}

\* The loop of add and add_correlation over _subscribers.
Publish(e) ==
    /\ queue' = [s \in Subscribers |->
                    IF s \in subscribers THEN Offer(queue[s], e) ELSE queue[s]]
    /\ missed' = [s \in Subscribers |->
                    IF Connected(s) /\ Len(queue[s]) >= QueueCap
                    THEN missed[s] \cup {e.id} ELSE missed[s]]
    /\ published' = published \cup {e.id}
    /\ UNCHANGED <<subscribers, phase, cursor>>

\* No coroutine runs while the loop's thread is inside query().
LoopIdle == query.phase # "scanning"

CanCreate == created < MaxItems
Fresh     == created + 1
-----------------------------------------------------------------------------
(***************************************************************************)
(* Adding.                                                                 *)
(***************************************************************************)
Add(body) ==
    /\ LoopIdle /\ CanCreate
    /\ created' = Fresh
    /\ findings' = Retain(findings, [id |-> Fresh, body |-> body])
    /\ Publish([kind |-> "finding", id |-> Fresh, plain |-> body.plain])
    /\ UNCHANGED <<correlations, correlated, query>>

\* Mutant: both kinds share the room of one deque.
AddCorrelationCrowds ==
    /\ LoopIdle /\ CanCreate
    /\ created' = Fresh /\ correlated' = correlated \cup {Fresh}
    /\ correlations' = Retain(correlations, Fresh)
    /\ findings' = IF Len(findings) < MaxSize THEN findings ELSE Tail(findings)
    /\ Publish([kind |-> "correlation", id |-> Fresh, plain |-> TRUE])
    /\ UNCHANGED query

AddCorrelation ==
    /\ LoopIdle /\ CanCreate
    /\ created' = Fresh /\ correlated' = correlated \cup {Fresh}
    /\ correlations' = Retain(correlations, Fresh)
    /\ Publish([kind |-> "correlation", id |-> Fresh, plain |-> TRUE])
    /\ UNCHANGED <<findings, query>>

\* A running iterator notices that its deque changed.
Touch(q) == [q EXCEPT !.dirty = (q.phase = "scanning")]

\* add_sync stores without publishing.  On a thread of its own it may run
\* between two iterations of a query, whose iterator then notices.
AddSync(body) ==
    /\ OffLoop \/ LoopIdle
    /\ CanCreate
    /\ created' = Fresh
    /\ findings' = Retain(findings, [id |-> Fresh, body |-> body])
    /\ query' = Touch(query)
    /\ UNCHANGED <<correlations, correlated, streams, published>>
-----------------------------------------------------------------------------
(***************************************************************************)
(* query(): one step per iteration of `for f in reversed(self._findings)`. *)
(***************************************************************************)
\* A filter on a field rejects a finding whose field is None; `since` keeps
\* a finding without a timestamp.
Matches(body, req) ==
    /\ \A k \in Fields : req[k] # None => body[k] = req[k]
    /\ req.since # None /\ body.ts # None => body.ts >= req.since

QueryStart(req) ==
    /\ LoopIdle
    /\ query' = [phase |-> "scanning", req |-> req, snapshot |-> findings,
                 pos |-> Len(findings), results |-> <<>>, dirty |-> FALSE]
    /\ UNCHANGED <<store, streams, created, published>>

\* The iterator is exhausted: it stops before it looks for a mutation.
QueryEnd ==
    /\ query.phase = "scanning" /\ query.pos = 0
    /\ query' = [query EXCEPT !.phase = "done"]
    /\ UNCHANGED <<store, streams, created, published>>

\* RuntimeError: deque mutated during iteration.
QueryRaise ==
    /\ query.phase = "scanning" /\ query.pos > 0 /\ query.dirty
    /\ query' = [query EXCEPT !.phase = "error"]
    /\ UNCHANGED <<store, streams, created, published>>

\* Mutant: the limit counts the findings that were looked at.
QueryStepCountsMisses ==
    /\ query.phase = "scanning" /\ query.pos > 0 /\ ~query.dirty
    /\ LET f    == findings[query.pos]
           got  == IF Matches(f.body, query.req)
                   THEN Append(query.results, f) ELSE query.results
           seen == Len(query.snapshot) - query.pos + 1
       IN  query' = [query EXCEPT !.pos = @ - 1, !.results = got,
                         !.phase = IF seen >= query.req.limit THEN "done" ELSE @]
    /\ UNCHANGED <<store, streams, created, published>>

\* The limit is looked at only after a match was kept.
QueryStep ==
    /\ query.phase = "scanning" /\ query.pos > 0 /\ ~query.dirty
    /\ LET f    == findings[query.pos]
           keep == Matches(f.body, query.req)
           got  == IF keep THEN Append(query.results, f) ELSE query.results
           full == keep /\ Len(got) >= query.req.limit
       IN  query' = [query EXCEPT !.pos = @ - 1, !.results = got,
                                  !.phase = IF full THEN "done" ELSE @]
    /\ UNCHANGED <<store, streams, created, published>>
-----------------------------------------------------------------------------
(***************************************************************************)
(* A connection to /v0.5/stream.  `subscribe` is an async generator: its   *)
(* body, and so the registration, runs only when the response iterates it. *)
(***************************************************************************)
\* The handler returns its StreamingResponse.
Open(s) ==
    /\ LoopIdle /\ phase[s] = "absent"
    /\ phase' = [phase EXCEPT ![s] = "opened"]
    /\ UNCHANGED <<store, subscribers, queue, cursor, missed, query, created,
                   published>>

\* First __anext__: a fresh queue is registered, the generator awaits q.get().
Register(s) ==
    /\ LoopIdle /\ phase[s] = "opened"
    /\ phase' = [phase EXCEPT ![s] = "waiting"]
    /\ subscribers' = subscribers \cup {s}
    /\ queue' = [queue EXCEPT ![s] = <<>>]
    /\ cursor' = [cursor EXCEPT ![s] = created]
    /\ UNCHANGED <<store, missed, query, created, published>>

\* q.get() can return.
ReadyLate(s) == LoopIdle /\ phase[s] = "waiting" /\ Len(queue[s]) > 1  \* mutant
Ready(s)     == LoopIdle /\ phase[s] = "waiting" /\ queue[s] # <<>>

\* q.get() returns; event_gen encodes the item and the response sends it.
Deliver(s) ==
    /\ Ready(s) /\ Head(queue[s]).plain
    /\ phase' = [phase EXCEPT ![s] = "sending"]
    /\ cursor' = [cursor EXCEPT ![s] = Head(queue[s]).id]
    /\ queue' = [queue EXCEPT ![s] = Tail(@)]
    /\ UNCHANGED <<store, subscribers, missed, query, created, published>>

\* json.dumps raises in event_gen: the response ends, and the generator of
\* subscribe is dropped at its yield without being closed.
DeliverFails(s) ==
    /\ Ready(s) /\ ~Head(queue[s]).plain
    /\ phase' = [phase EXCEPT ![s] = "abandoned"]
    /\ queue' = [queue EXCEPT ![s] = Tail(@)]
    /\ UNCHANGED <<store, subscribers, cursor, missed, query, created,
                   published>>

\* The client took the chunk; the generator resumes and awaits q.get().
Sent(s) ==
    /\ LoopIdle /\ phase[s] = "sending"
    /\ phase' = [phase EXCEPT ![s] = "waiting"]
    /\ UNCHANGED <<store, subscribers, queue, cursor, missed, query, created,
                   published>>

\* Mutant: the queue stays in the list.
UnsubscribeLeaks(s) ==
    /\ phase' = [phase EXCEPT ![s] = "gone"]
    /\ UNCHANGED <<subscribers, queue, store, cursor, missed, query, created,
                   published>>

\* `finally: if q in self._subscribers: self._subscribers.remove(q)`
Unsubscribe(s) ==
    /\ phase' = [phase EXCEPT ![s] = "gone"]
    /\ subscribers' = subscribers \ {s}
    /\ queue' = [queue EXCEPT ![s] = <<>>]
    /\ UNCHANGED <<store, cursor, missed, query, created, published>>

\* The client disconnects before the generator started or while it awaits
\* q.get(): the cancellation runs its `finally` at once.
Cancel(s) ==
    /\ LoopIdle /\ phase[s] \in {"opened", "waiting"}
    /\ Unsubscribe(s)

\* The client disconnects while a chunk is being sent: the generator is left
\* suspended at its yield.
Abandon(s) ==
    /\ LoopIdle /\ phase[s] = "sending"
    /\ phase' = [phase EXCEPT ![s] = "abandoned"]
    /\ UNCHANGED <<store, subscribers, queue, cursor, missed, query, created,
                   published>>

\* The loop's finalizer hook for async generators closes the dropped one.
Reap(s) ==
    /\ LoopIdle /\ phase[s] = "abandoned"
    /\ Unsubscribe(s)
-----------------------------------------------------------------------------
Init ==
    /\ findings = <<>> /\ correlations = <<>>
    /\ subscribers = {}
    /\ queue = [s \in Subscribers |-> <<>>]
    /\ phase = [s \in Subscribers |-> "absent"]
    /\ query = [phase |-> "idle", req |-> None, snapshot |-> <<>>, pos |-> 0,
                results |-> <<>>, dirty |-> FALSE]
    /\ created = 0 /\ correlated = {} /\ published = {}
    /\ cursor = [s \in Subscribers |-> 0]
    /\ missed = [s \in Subscribers |-> {}]

Connection(s) ==
    \/ Open(s) \/ Register(s) \/ Deliver(s) \/ DeliverFails(s) \/ Sent(s)
    \/ Cancel(s) \/ Abandon(s) \/ Reap(s)

\* What the handlers on the loop call.
Handler ==
    \/ \E body \in Contents : Add(body)
    \/ AddCorrelation
    \/ \E req \in Requests : QueryStart(req)
    \/ QueryEnd \/ QueryRaise \/ QueryStep

Next ==
    \/ Handler
    \/ \E body \in Contents : AddSync(body)
    \/ \E s \in Subscribers : Connection(s)

\* The loop runs its ready coroutines and callbacks in the order they became
\* ready, so a handler that is always ready to query again does not starve them
\* (SF: a query that runs keeps them waiting); a query is a finite synchronous
\* loop.  Nothing is assumed of the clients: Sent needs a client that reads.
Fairness ==
    /\ WF_vars(QueryEnd) /\ WF_vars(QueryRaise) /\ WF_vars(QueryStep)
    /\ \A s \in Subscribers :
          /\ SF_vars(Register(s)) /\ SF_vars(Deliver(s))
          /\ SF_vars(DeliverFails(s)) /\ SF_vars(Reap(s))

Spec     == Init /\ [][Next]_vars
FairSpec == Spec /\ Fairness
-----------------------------------------------------------------------------
(***************************************************************************)
(* Correctness.                                                            *)
(***************************************************************************)
\* Every variable keeps its type, the deques and the queues keep their bounds,
\* and the registry holds the queues of exactly the connections whose
\* generator has neither run its `finally` nor been closed.
TypeOK ==
    /\ findings \in Seq(Item) /\ Len(findings) <= MaxSize
    /\ correlations \in Seq(Nat) /\ Len(correlations) <= MaxSize
    /\ queue \in [Subscribers -> Seq(Event)]
    /\ \A s \in Subscribers : Len(queue[s]) <= QueueCap
    /\ phase \in [Subscribers -> Phase]
    /\ subscribers = {s \in Subscribers :
                         phase[s] \in {"waiting", "sending", "abandoned"}}
    /\ query \in QueryRecord
    /\ created \in Nat /\ correlated \subseteq 1..created
    /\ published \subseteq 1..created
    /\ cursor \in [Subscribers -> Nat]
    /\ missed \in [Subscribers -> SUBSET (1..created)]

\* What a query relies on while it iterates: the deque is the one it started
\* on until a thread changes it, and from then on the query knows.
Iterating ==
    query.phase = "scanning" =>
        /\ query.pos <= Len(query.snapshot)
        /\ ~query.dirty => findings = query.snapshot

Ids(q)     == {q[i].id : i \in DOMAIN q}
InOrder(q) == \A i, j \in DOMAIN q : i < j => q[i].id < q[j].id
Queued(s)  == Ids(queue[s])

\* A connected client's queue holds, in the order they were published,
\* exactly the items published since the last one it was handed (or since its
\* registration), except the ones that met a full queue: no add is lost
\* between the registration and the first item, none is queued twice, and
\* add_sync puts nothing in the stream.
StreamFaithful ==
    \A s \in Subscribers : Connected(s) =>
        /\ InOrder(queue[s])
        /\ Queued(s) = {n \in published : n > cursor[s]} \ missed[s]

\* An item is missing from the deque of its kind only if newer items of that
\* kind pushed it out: the deque is full, and all it holds is newer.  What is
\* added of the other kind never costs it its place.
PushedOut(n, ids) == Len(ids) = MaxSize /\ \A i \in DOMAIN ids : n < ids[i]

FindingIds == [i \in DOMAIN findings |-> findings[i].id]

Kept(n, ids) == n \in ToSet(ids) \/ PushedOut(n, ids)

StoreIsNewest ==
    /\ \A n \in (1..created) \ correlated : Kept(n, FindingIds)
    /\ \A n \in correlated : Kept(n, correlations)
    /\ ToSet(FindingIds) \cap correlated = {} /\ ToSet(correlations) \subseteq correlated

NewestFirst(q) == \A i, j \in DOMAIN q : i < j => q[i].id > q[j].id

\* What query() promises, written without its loop: the newest matches
\* first, at most `limit` of them -- but never less than one, a limit of 0
\* included -- out of the findings stored when it was called, whatever a
\* thread adds meanwhile.  A match is left out only if the answer is full of
\* newer ones.
NewestMatches(answer, stored, req) ==
    LET hits == {f \in ToSet(stored) : Matches(f.body, req)}
        got  == ToSet(answer)
        most == IF req.limit = 0 THEN 1 ELSE req.limit
    IN  /\ got \subseteq hits /\ NewestFirst(answer) /\ Len(answer) <= most
        /\ \A f \in hits \ got : Len(answer) = most /\ \A g \in got : f.id < g.id

QueryAnswer ==
    query.phase = "done" => NewestMatches(query.results, query.snapshot, query.req)

\* If the client keeps reading, or leaves, every queued item is handed to it
\* or its queue is discarded: no item is stuck, whatever the others do and
\* also when an item cannot be encoded.
EventuallyDelivered ==
    \A s \in Subscribers : ([]<>(phase[s] # "sending")) =>
        \A n \in 1..MaxItems :
            (n \in Queued(s)) ~> (cursor[s] >= n \/ phase[s] = "gone")

(***************************************************************************)
(* The stream that clients are promised, of which the queues are one       *)
(* implementation.                                                         *)
(***************************************************************************)
Stream == INSTANCE EventStream WITH
              Cap       <- QueueCap,
              horizon   <- created,
              listening <- {s \in Subscribers : Connected(s)},
              lost      <- missed

\* The registry and its handler implement the promised stream.
ImplementsStream == Stream!Spec
=============================================================================
