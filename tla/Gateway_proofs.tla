--------------------------- MODULE Gateway_proofs ---------------------------
(***************************************************************************)
(* Proofs about FindingRegistry and Gateway, for all values of their       *)
(* constants.  First the registry by itself: types, streams, what it       *)
(* stores, what a query answers, and that it implements EventStream; this  *)
(* part uses no assumption of Gateway.  Then the gateway: what is proved   *)
(* of the registry holds in it, no client sees a correlation without the   *)
(* finding it is about, and a scan emits exactly the correlations that its *)
(* rules owe, whatever the rules are.                                      *)
(***************************************************************************)
EXTENDS Gateway, SequenceTheorems, FiniteSetTheorems, FunctionTheorems,
        WellFoundedInduction, TLAPS

\* A bounded deque keeps the type of its elements and its bound.
LEMMA RetainType ==
    ASSUME NEW S, NEW d \in Seq(S), NEW x \in S, Len(d) <= MaxSize
    PROVE  /\ Retain(d, x) \in Seq(S)
           /\ Len(Retain(d, x)) <= MaxSize
  BY SizesAssumption DEF Retain

\* A bounded queue keeps the type of its elements and its bound.
LEMMA OfferType ==
    ASSUME NEW S, NEW q \in Seq(S), NEW e \in S, Len(q) <= QueueCap
    PROVE  /\ Offer(q, e) \in Seq(S)
           /\ Len(Offer(q, e)) <= QueueCap
  BY SizesAssumption DEF Offer
-----------------------------------------------------------------------------
\* TypeOK is inductive together with what a running query relies on.
TypeInv == TypeOK /\ Iterating

LEMMA TypeInit == Init => TypeInv
  BY SizesAssumption DEF Init, TypeInv, TypeOK, Iterating, QueryRecord, Phase

LEMMA PublishType ==
    ASSUME TypeInv, NEW e \in Event, e.id = Fresh, Publish(e), created' = Fresh
    PROVE  /\ queue' \in [Subscribers -> Seq(Event)]
           /\ \A s \in Subscribers : Len(queue'[s]) <= QueueCap
           /\ published' \subseteq 1..created'
           /\ cursor' \in [Subscribers -> Nat]
           /\ missed' \in [Subscribers -> SUBSET (1..created')]
           /\ UNCHANGED <<subscribers, phase>>
<1>1. \A s \in Subscribers : /\ Offer(queue[s], e) \in Seq(Event)
                             /\ Len(Offer(queue[s], e)) <= QueueCap
  BY OfferType DEF TypeInv, TypeOK
<1>2. /\ queue' \in [Subscribers -> Seq(Event)]
      /\ \A s \in Subscribers : Len(queue'[s]) <= QueueCap
  BY <1>1 DEF Publish, TypeInv, TypeOK
<1>3. /\ published' \subseteq 1..created'
      /\ cursor' \in [Subscribers -> Nat]
  BY DEF Publish, Fresh, TypeInv, TypeOK
<1>4. missed' \in [Subscribers -> SUBSET (1..created')]
  BY DEF Publish, Fresh, TypeInv, TypeOK
<1> QED
  BY <1>2, <1>3, <1>4 DEF Publish

LEMMA TypeStep == TypeInv /\ [Next]_vars => TypeInv'
<1> SUFFICES ASSUME TypeInv, [Next]_vars PROVE TypeInv'
  OBVIOUS
<1> USE DEF TypeInv
<1>1. ASSUME NEW body \in Contents, Add(body) PROVE TypeInv'
  <2>1. [id |-> Fresh, body |-> body] \in Item
    BY <1>1 DEF Item, Fresh, TypeOK
  <2>2. [kind |-> "finding", id |-> Fresh, plain |-> body.plain] \in Event
    BY <1>1, ContentsAssumption DEF Event, Fresh, TypeOK
  <2>3. findings' \in Seq(Item) /\ Len(findings') <= MaxSize
    BY <1>1, <2>1, RetainType DEF Add, TypeOK
  <2>4. TypeOK'
    BY <1>1, <2>2, <2>3, PublishType DEF Add, TypeOK, Fresh
  <2> QED
    BY <1>1, <2>4 DEF Add, Iterating, LoopIdle
<1>2. ASSUME AddCorrelation PROVE TypeInv'
  <2>1. [kind |-> "correlation", id |-> Fresh, plain |-> TRUE] \in Event
    BY DEF Event, Fresh, TypeOK
  <2>2. correlations' \in Seq(Nat) /\ Len(correlations') <= MaxSize
    BY <1>2, RetainType DEF AddCorrelation, Fresh, TypeOK
  <2>3. TypeOK'
    BY <1>2, <2>1, <2>2, PublishType DEF AddCorrelation, TypeOK, Fresh
  <2> QED
    BY <1>2, <2>3 DEF AddCorrelation, Iterating
<1>3. ASSUME NEW body \in Contents, AddSync(body) PROVE TypeInv'
  <2>1. [id |-> Fresh, body |-> body] \in Item
    BY <1>3 DEF Item, Fresh, TypeOK
  <2>2. findings' \in Seq(Item) /\ Len(findings') <= MaxSize
    BY <1>3, <2>1, RetainType DEF AddSync, TypeOK
  <2>3. query' \in QueryRecord
    <3> DEFINE scanning == query.phase = "scanning"
    <3>1. scanning \in BOOLEAN
      OBVIOUS
    <3>2. query' = [query EXCEPT !.dirty = scanning]
      BY <1>3 DEF AddSync, Touch
    <3> HIDE DEF scanning
    <3> QED
      BY <3>1, <3>2 DEF TypeOK, QueryRecord
  <2>4. /\ created' \in Nat /\ published' \subseteq 1..created'
        /\ correlated' \subseteq 1..created'
        /\ cursor' \in [Subscribers -> Nat]
        /\ missed' \in [Subscribers -> SUBSET (1..created')]
    BY <1>3 DEF AddSync, TypeOK, Fresh, streams
  <2>5. TypeOK'
    BY <1>3, <2>2, <2>3, <2>4 DEF AddSync, TypeOK, streams
  <2> QED
    BY <1>3, <2>3, <2>5 DEF AddSync, Touch, Iterating, TypeOK, QueryRecord
<1>4. ASSUME NEW req \in Requests, QueryStart(req) PROVE TypeInv'
  BY <1>4 DEF QueryStart, TypeOK, Iterating, store, streams, QueryRecord
<1>5. CASE QueryEnd \/ QueryRaise
  BY <1>5 DEF QueryEnd, QueryRaise, TypeOK, Iterating, store, streams, QueryRecord
<1>6. CASE QueryStep
  <2>1. findings[query.pos] \in Item
    BY <1>6 DEF QueryStep, TypeOK, Iterating, QueryRecord
  <2>2. Append(query.results, findings[query.pos]) \in Seq(Item)
    BY <2>1 DEF TypeOK, QueryRecord
  <2>3. query' \in QueryRecord
    <3> DEFINE got == IF Matches(findings[query.pos].body, query.req)
                      THEN Append(query.results, findings[query.pos])
                      ELSE query.results
               full == /\ Matches(findings[query.pos].body, query.req)
                       /\ Len(got) >= query.req.limit
    <3>1. got \in Seq(Item)
      BY <2>2 DEF TypeOK, QueryRecord
    <3>2. query.pos - 1 \in Nat
      BY <1>6 DEF QueryStep, TypeOK, QueryRecord
    <3>3. query' = [query EXCEPT !.pos = @ - 1, !.results = got,
                                 !.phase = IF full THEN "done" ELSE @]
      BY <1>6 DEF QueryStep
    <3> HIDE DEF got, full
    <3> QED
      BY <3>1, <3>2, <3>3 DEF TypeOK, QueryRecord
  <2>4. TypeOK'
    BY <1>6, <2>3 DEF QueryStep, TypeOK, store, streams
  <2> QED
    BY <1>6, <2>4 DEF QueryStep, Iterating, TypeOK, store, QueryRecord
<1>7. ASSUME NEW s \in Subscribers, Connection(s) PROVE TypeInv'
  <2> USE DEF store, Iterating
  <2>1. CASE Open(s) \/ Sent(s) \/ Abandon(s)
    BY <1>7, <2>1 DEF Open, Sent, Abandon, TypeOK, Phase
  <2>2. CASE Register(s)
    <3>1. /\ queue' \in [Subscribers -> Seq(Event)]
          /\ \A t \in Subscribers : Len(queue'[t]) <= QueueCap
      BY <2>2, SizesAssumption DEF Register, TypeOK
    <3>2. /\ phase' \in [Subscribers -> Phase]
          /\ subscribers' = {t \in Subscribers :
                phase'[t] \in {"waiting", "sending", "abandoned"}}
      BY <2>2 DEF Register, TypeOK, Phase
    <3> QED
      BY <2>2, <3>1, <3>2 DEF Register, TypeOK
  <2>3. CASE Deliver(s) \/ DeliverFails(s)
    <3>1. /\ Head(queue[s]) \in Event /\ Tail(queue[s]) \in Seq(Event)
          /\ Len(Tail(queue[s])) <= QueueCap
      BY <2>3, SizesAssumption DEF Deliver, Ready, DeliverFails, TypeOK
    <3>3. /\ queue' \in [Subscribers -> Seq(Event)]
          /\ \A t \in Subscribers : Len(queue'[t]) <= QueueCap
      BY <2>3, <3>1 DEF Deliver, Ready, DeliverFails, TypeOK
    <3>4. cursor' \in [Subscribers -> Nat]
      BY <2>3, <3>1 DEF Deliver, Ready, DeliverFails, TypeOK, Event
    <3>2. /\ phase' \in [Subscribers -> Phase]
          /\ subscribers' = {t \in Subscribers :
                phase'[t] \in {"waiting", "sending", "abandoned"}}
      BY <2>3 DEF Deliver, Ready, DeliverFails, TypeOK, Phase
    <3> QED
      BY <2>3, <3>2, <3>3, <3>4 DEF Deliver, Ready, DeliverFails, TypeOK
  <2>4. CASE Cancel(s) \/ Reap(s)
    <3>1. Unsubscribe(s)
      BY <2>4 DEF Cancel, Reap
    <3>2. /\ queue' \in [Subscribers -> Seq(Event)]
          /\ \A t \in Subscribers : Len(queue'[t]) <= QueueCap
      BY <3>1, SizesAssumption DEF Unsubscribe, TypeOK
    <3>3. /\ phase' \in [Subscribers -> Phase]
          /\ subscribers' = {t \in Subscribers :
                phase'[t] \in {"waiting", "sending", "abandoned"}}
      BY <3>1 DEF Unsubscribe, TypeOK, Phase
    <3> QED
      BY <3>1, <3>2, <3>3 DEF Unsubscribe, TypeOK
  <2> QED
    BY <1>7, <2>1, <2>2, <2>3, <2>4 DEF Connection
<1>8. CASE UNCHANGED vars
  BY <1>8 DEF vars, TypeOK, Iterating
<1> QED
  BY <1>1, <1>2, <1>3, <1>4, <1>5, <1>6, <1>7, <1>8 DEF Next, Handler

\* Every behaviour keeps the types, the bounds of the deques and the queues,
\* and the registry's list of queues in step with the connections.
THEOREM TypeCorrect == Spec => []TypeOK
<1>1. TypeInv => TypeOK
  BY DEF TypeInv
<1> QED
  BY TypeInit, TypeStep, <1>1, PTL DEF Spec
-----------------------------------------------------------------------------
(***************************************************************************)
(* The streams.                                                            *)
(***************************************************************************)
\* Appending an event adds its id.
LEMMA AppendIds ==
    ASSUME NEW q \in Seq(Event), NEW e \in Event
    PROVE  /\ Ids(Append(q, e)) = Ids(q) \cup {e.id}
           /\ InOrder(q) /\ (\A n \in Ids(q) : n < e.id) => InOrder(Append(q, e))
<1> DEFINE r == Append(q, e)
<1>1. /\ r \in Seq(Event) /\ Len(r) = Len(q) + 1
      /\ \A i \in 1..Len(q) : r[i] = q[i]
      /\ r[Len(r)] = e
  BY AppendProperties
<1>2. DOMAIN q = 1..Len(q) /\ DOMAIN r = 1..Len(r)
  BY <1>1, LenProperties
<1> HIDE DEF r
<1>3. Ids(r) = Ids(q) \cup {e.id}
  <2>1. ASSUME NEW n \in Ids(r) PROVE n \in Ids(q) \cup {e.id}
    <3>1. PICK i \in 1..Len(r) : n = r[i].id
      BY <1>2 DEF Ids
    <3> QED
      BY <1>1, <1>2, <3>1, LenProperties DEF Ids
  <2>2. ASSUME NEW n \in Ids(q) PROVE n \in Ids(r)
    <3>1. PICK i \in 1..Len(q) : n = q[i].id
      BY <1>2 DEF Ids
    <3>2. i \in 1..Len(r) /\ r[i] = q[i]
      BY <1>1, <3>1, LenProperties
    <3> QED
      BY <1>2, <3>1, <3>2 DEF Ids
  <2>3. e.id \in Ids(r)
    BY <1>1, <1>2, LenProperties DEF Ids
  <2> QED
    BY <2>1, <2>2, <2>3
<1>4. ASSUME InOrder(q), \A n \in Ids(q) : n < e.id PROVE InOrder(r)
  <2> SUFFICES ASSUME NEW i \in 1..Len(r), NEW j \in 1..Len(r), i < j
               PROVE  r[i].id < r[j].id
    BY <1>2 DEF InOrder
  <2>1. i \in 1..Len(q) /\ q[i].id \in Ids(q)
    BY <1>1, <1>2, LenProperties DEF Ids
  <2> QED
    BY SMTT(30), <1>1, <1>2, <1>4, <2>1, LenProperties DEF InOrder
<1> QED
  BY <1>3, <1>4 DEF r

\* The head of an ordered queue has the least id; the tail has the others.
LEMMA TailIds ==
    ASSUME NEW q \in Seq(Event), q # <<>>, InOrder(q)
    PROVE  /\ Head(q).id \in Ids(q)
           /\ \A n \in Ids(Tail(q)) : Head(q).id < n
           /\ Ids(q) = Ids(Tail(q)) \cup {Head(q).id}
           /\ InOrder(Tail(q))
<1> DEFINE r == Tail(q)
<1>1. /\ r \in Seq(Event) /\ Len(r) = Len(q) - 1 /\ Len(q) >= 1
      /\ \A i \in 1..Len(r) : r[i] = q[i+1]
      /\ Head(q) = q[1]
  OBVIOUS
<1>2. DOMAIN q = 1..Len(q) /\ DOMAIN r = 1..Len(r) /\ Len(q) \in Nat
  BY <1>1, LenProperties
<1> HIDE DEF r
<1>3. \A i \in 1..Len(r) : q[1].id < r[i].id
  BY <1>1, <1>2 DEF InOrder
<1>4. Ids(q) = Ids(r) \cup {q[1].id}
  <2>1. ASSUME NEW n \in Ids(q) PROVE n \in Ids(r) \cup {q[1].id}
    <3>1. PICK i \in 1..Len(q) : n = q[i].id
      BY <1>2 DEF Ids
    <3>2. CASE i = 1
      BY <3>1, <3>2
    <3>3. CASE i # 1
      <4>1. i - 1 \in 1..Len(r) /\ r[i - 1] = q[i]
        BY <1>1, <1>2, <3>3
      <4> QED
        BY <1>2, <3>1, <4>1 DEF Ids
    <3> QED
      BY <3>2, <3>3
  <2>2. ASSUME NEW n \in Ids(r) PROVE n \in Ids(q)
    <3>1. PICK i \in 1..Len(r) : n = r[i].id
      BY <1>2 DEF Ids
    <3>2. i + 1 \in 1..Len(q) /\ r[i] = q[i + 1]
      BY <1>1, <1>2, <3>1
    <3> QED
      BY <1>2, <3>1, <3>2 DEF Ids
  <2>3. q[1].id \in Ids(q)
    BY <1>1, <1>2 DEF Ids
  <2> QED
    BY <2>1, <2>2, <2>3
<1>5. InOrder(r)
  <2> SUFFICES ASSUME NEW i \in 1..Len(r), NEW j \in 1..Len(r), i < j
               PROVE  r[i].id < r[j].id
    BY <1>2 DEF InOrder
  <2>1. /\ i + 1 \in DOMAIN q /\ j + 1 \in DOMAIN q /\ i + 1 < j + 1
        /\ r[i] = q[i + 1] /\ r[j] = q[j + 1]
    BY <1>1, <1>2
  <2> QED
    BY <2>1 DEF InOrder
<1>6. \A n \in Ids(r) : q[1].id < n
  BY <1>2, <1>3 DEF Ids
<1> QED
  BY <1>1, <1>4, <1>5, <1>6 DEF r

\* The invariant of the streams: what StreamFaithful says, and that nobody
\* was handed an item that does not exist yet.
StreamInv ==
    /\ TypeInv
    /\ StreamFaithful
    /\ \A s \in Subscribers : Connected(s) => cursor[s] <= created

LEMMA StreamInit == Init => StreamInv
  BY TypeInit DEF Init, StreamInv, StreamFaithful, Connected

\* Publishing a fresh item keeps every connected client's queue exact.
LEMMA PublishFaithful ==
    ASSUME StreamInv, NEW e \in Event, e.id = Fresh, Publish(e), created' = Fresh
    PROVE  /\ StreamFaithful'
           /\ \A s \in Subscribers : Connected(s)' => cursor'[s] <= created'
<1> USE DEF StreamInv
<1> SUFFICES ASSUME NEW s \in Subscribers, Connected(s)'
             PROVE  /\ InOrder(queue'[s])
                    /\ Ids(queue'[s]) =
                          {n \in published' : n > cursor'[s]} \ missed'[s]
                    /\ cursor'[s] <= created'
  BY DEF StreamFaithful, Queued
<1>1. /\ Connected(s) /\ s \in subscribers /\ queue[s] \in Seq(Event)
      /\ cursor' = cursor /\ cursor[s] \in Nat /\ created \in Nat
      /\ cursor[s] <= created
  BY DEF Publish, Connected, TypeInv, TypeOK
<1>2. /\ InOrder(queue[s])
      /\ Ids(queue[s]) = {n \in published : n > cursor[s]} \ missed[s]
  BY <1>1 DEF StreamFaithful, Queued
<1>3. /\ published \subseteq 1..created /\ missed[s] \subseteq 1..created
      /\ published' = published \cup {Fresh}
  BY DEF Publish, TypeInv, TypeOK
<1>4. /\ Fresh > cursor[s] /\ Fresh \notin published /\ Fresh \notin missed[s]
      /\ \A n \in Ids(queue[s]) : n < Fresh
  <2>1. \A n \in published \cup missed[s] : n \in Nat /\ n <= created
    <3>1. \A n \in 1..created : n \in Nat /\ n <= created
      BY <1>1
    <3> QED
      BY <1>3, <3>1
  <2>2. Ids(queue[s]) \subseteq published
    BY <1>2
  <2> QED
    BY <1>1, <2>1, <2>2 DEF Fresh
<1>5. CASE Len(queue[s]) < QueueCap
  <2>1. queue'[s] = Append(queue[s], e) /\ missed'[s] = missed[s]
    BY <1>1, <1>5, SizesAssumption DEF Publish, Offer
  <2>2. /\ Ids(queue'[s]) = Ids(queue[s]) \cup {Fresh}
        /\ InOrder(queue'[s])
    BY <1>1, <1>2, <1>4, <2>1, AppendIds
  <2> QED
    BY <1>1, <1>2, <1>3, <1>4, <2>1, <2>2 DEF Fresh
<1>6. CASE ~(Len(queue[s]) < QueueCap)
  <2>1. queue'[s] = queue[s] /\ missed'[s] = missed[s] \cup {Fresh}
    BY <1>1, <1>6, SizesAssumption DEF Publish, Offer
  <2> QED
    BY <1>1, <1>2, <1>3, <1>4, <2>1 DEF Fresh
<1> QED
  BY <1>5, <1>6

\* A step of one connection keeps its own queue exact and touches no other.
LEMMA ConnectionFaithful ==
    ASSUME StreamInv, NEW s \in Subscribers, Connection(s)
    PROVE  /\ StreamFaithful'
           /\ \A t \in Subscribers : Connected(t)' => cursor'[t] <= created'
<1> USE DEF StreamInv
<1> SUFFICES ASSUME NEW t \in Subscribers, Connected(t)'
             PROVE  /\ InOrder(queue'[t])
                    /\ Ids(queue'[t]) =
                          {n \in published' : n > cursor'[t]} \ missed'[t]
                    /\ cursor'[t] <= created'
  BY DEF StreamFaithful, Queued
<1>0. /\ published' = published /\ missed' = missed /\ created' = created
      /\ queue \in [Subscribers -> Seq(Event)] /\ cursor \in [Subscribers -> Nat]
      /\ phase \in [Subscribers -> Phase]
      /\ created \in Nat /\ published \subseteq 1..created
  BY DEF Connection, Open, Register, Deliver, DeliverFails, Sent, Cancel,
         Abandon, Reap, Unsubscribe, TypeInv, TypeOK
<1>1. ASSUME Connected(t), queue'[t] = queue[t], cursor'[t] = cursor[t]
      PROVE  /\ InOrder(queue'[t])
             /\ Ids(queue'[t]) =
                   {n \in published' : n > cursor'[t]} \ missed'[t]
             /\ cursor'[t] <= created'
  BY <1>0, <1>1 DEF StreamFaithful, Queued
<1>2. CASE Open(s) \/ DeliverFails(s) \/ Cancel(s) \/ Abandon(s) \/ Reap(s)
  <2>1. /\ t # s /\ Connected(t)
        /\ queue'[t] = queue[t] /\ cursor'[t] = cursor[t]
    BY <1>0, <1>2 DEF Open, DeliverFails, Cancel, Abandon, Reap, Unsubscribe,
                      Connected
  <2> QED
    BY <1>1, <2>1
<1>3. CASE Sent(s)
  <2>1. Connected(t) /\ queue'[t] = queue[t] /\ cursor'[t] = cursor[t]
    BY <1>0, <1>3 DEF Sent, Connected
  <2> QED
    BY <1>1, <2>1
<1>4. CASE Register(s)
  <2>1. CASE t = s
    <3>1. queue'[t] = <<>> /\ cursor'[t] = created
      BY <1>0, <1>4, <2>1 DEF Register
    <3>2. InOrder(<<>>) /\ Ids(<<>>) = {}
      BY DEF InOrder, Ids
    <3>3. \A n \in published : ~(n > created)
      BY <1>0
    <3>4. {n \in published : n > created} \ missed'[t] = {}
      BY <3>3
    <3>5. InOrder(queue'[t]) /\ Ids(queue'[t]) = {}
      BY <3>1, <3>2
    <3> QED
      BY <1>0, <3>1, <3>4, <3>5
  <2>2. CASE t # s
    <3>1. Connected(t) /\ queue'[t] = queue[t] /\ cursor'[t] = cursor[t]
      BY <1>0, <1>4, <2>2 DEF Register, Connected
    <3> QED
      BY <1>1, <3>1
  <2> QED
    BY <2>1, <2>2
<1>5. CASE Deliver(s)
  <2>1. CASE t = s
    <3>1. /\ queue[t] \in Seq(Event) /\ queue[t] # <<>>
          /\ queue'[t] = Tail(queue[t]) /\ cursor'[t] = Head(queue[t]).id
          /\ Connected(t)
      BY <1>0, <1>5, <2>1 DEF Deliver, Ready, Connected
    <3>2. /\ InOrder(queue[t])
          /\ Ids(queue[t]) = {n \in published : n > cursor[t]} \ missed[t]
          /\ cursor[t] <= created
      BY <3>1 DEF StreamFaithful, Queued
    <3>3. /\ Head(queue[t]).id \in Ids(queue[t])
          /\ \A n \in Ids(Tail(queue[t])) : Head(queue[t]).id < n
          /\ Ids(queue[t]) = Ids(Tail(queue[t])) \cup {Head(queue[t]).id}
          /\ InOrder(Tail(queue[t]))
      BY <3>1, <3>2, TailIds
    <3>4. \A n \in published : n \in Nat /\ n <= created
      BY <1>0
    <3>5. cursor[t] < Head(queue[t]).id /\ Head(queue[t]).id \in published
      BY <3>2, <3>3
    <3>6. Ids(Tail(queue[t])) =
             {n \in published : n > Head(queue[t]).id} \ missed[t]
      <4>1. ASSUME NEW n \in Ids(Tail(queue[t]))
            PROVE  n \in published /\ n > Head(queue[t]).id /\ n \notin missed[t]
        <5>1. n \in published /\ n \notin missed[t]
          BY <3>2, <3>3
        <5> QED
          BY <3>3, <3>4, <3>5, <5>1
      <4>2. ASSUME NEW n \in published, n > Head(queue[t]).id, n \notin missed[t]
            PROVE  n \in Ids(Tail(queue[t]))
        <5>1. n > cursor[t] /\ n # Head(queue[t]).id
          <6>1. n \in Nat /\ Head(queue[t]).id \in Nat /\ cursor[t] \in Nat
            BY <1>0, <3>4, <3>5, <4>2
          <6> QED
            BY <3>5, <4>2, <6>1
        <5>2. n \in Ids(queue[t])
          BY <3>2, <4>2, <5>1
        <5> QED
          BY <3>3, <5>1, <5>2
      <4> QED
        BY <4>1, <4>2
    <3> QED
      BY <1>0, <3>1, <3>3, <3>4, <3>5, <3>6
  <2>2. CASE t # s
    <3>1. Connected(t) /\ queue'[t] = queue[t] /\ cursor'[t] = cursor[t]
      BY <1>0, <1>5, <2>2 DEF Deliver, Ready, Connected
    <3> QED
      BY <1>1, <3>1
  <2> QED
    BY <2>1, <2>2
<1> QED
  BY <1>2, <1>3, <1>4, <1>5 DEF Connection

LEMMA StreamStep == StreamInv /\ [Next]_vars => StreamInv'
<1> SUFFICES ASSUME StreamInv, [Next]_vars PROVE StreamInv'
  OBVIOUS
<1>0. TypeInv /\ TypeInv'
  BY TypeStep DEF StreamInv
<1>1. ASSUME NEW body \in Contents, Add(body) PROVE StreamInv'
  <2>1. [kind |-> "finding", id |-> Fresh, plain |-> body.plain] \in Event
    BY <1>0, ContentsAssumption DEF Event, Fresh, TypeInv, TypeOK
  <2> QED
    BY <1>0, <1>1, <2>1, PublishFaithful DEF Add, StreamInv
<1>2. CASE AddCorrelation
  <2>1. [kind |-> "correlation", id |-> Fresh, plain |-> TRUE] \in Event
    BY <1>0 DEF Event, Fresh, TypeInv, TypeOK
  <2> QED
    BY <1>0, <1>2, <2>1, PublishFaithful DEF AddCorrelation, StreamInv
<1>3. ASSUME created \in Nat, created' >= created, UNCHANGED <<streams, published>>
      PROVE  StreamInv'
  <2>1. \A s \in Subscribers : cursor[s] \in Nat
    BY <1>0 DEF TypeInv, TypeOK
  <2> QED
    BY <1>0, <1>3, <2>1 DEF StreamInv, StreamFaithful, Connected, Queued, Ids,
                           streams, TypeInv, TypeOK
<1>4. ASSUME NEW body \in Contents, AddSync(body) PROVE StreamInv'
  BY <1>0, <1>3, <1>4 DEF AddSync, Fresh, TypeInv, TypeOK
<1>5. CASE \/ \E req \in Requests : QueryStart(req)
           \/ QueryEnd \/ QueryRaise \/ QueryStep
  BY <1>0, <1>3, <1>5 DEF QueryStart, QueryEnd, QueryRaise, QueryStep, TypeInv, TypeOK
<1>6. ASSUME NEW s \in Subscribers, Connection(s) PROVE StreamInv'
  BY <1>0, <1>6, ConnectionFaithful DEF StreamInv
<1>7. CASE UNCHANGED vars
  BY <1>0, <1>3, <1>7 DEF vars, streams, TypeInv, TypeOK
<1> QED
  BY <1>1, <1>2, <1>4, <1>5, <1>6, <1>7 DEF Next, Handler

\* A connected client's queue is exact in every behaviour: every item
\* published since the last one it was handed, in order, less the items that
\* met a full queue.
THEOREM StreamsAreFaithful == Spec => []StreamFaithful
<1>1. StreamInv => StreamFaithful
  BY DEF StreamInv
<1> QED
  BY StreamInit, StreamStep, <1>1, PTL DEF Spec
-----------------------------------------------------------------------------
(***************************************************************************)
(* The deques.                                                             *)
(***************************************************************************)
Ascending(d) == \A i, j \in 1..Len(d) : i < j => d[i] < d[j]

\* A deque that takes an item younger than all it holds stays in order, drops
\* none but the oldest, and takes nothing else.
LEMMA RetainKeeps ==
    ASSUME NEW d \in Seq(Nat), NEW x \in Nat, Len(d) <= MaxSize, Ascending(d),
           \A i \in 1..Len(d) : d[i] < x
    PROVE  /\ Ascending(Retain(d, x))
           /\ \A i \in 1..Len(Retain(d, x)) : Retain(d, x)[i] <= x
           /\ Kept(x, Retain(d, x))
           /\ \A n \in Nat : n < x /\ Kept(n, d) => Kept(n, Retain(d, x))
           /\ ToSet(Retain(d, x)) \subseteq ToSet(d) \cup {x}
<1> DEFINE r == Retain(d, x)
<1>1. /\ Len(d) \in Nat /\ MaxSize \in Nat /\ \A i \in 1..Len(d) : d[i] \in Nat
      /\ \A i, j \in 1..Len(d) : i < j => d[i] < d[j]
      /\ \A i \in 1..Len(d) : d[i] < x
  BY SizesAssumption, ElementOfSeq DEF Ascending
<1>2. /\ r \in Seq(Nat)
      /\ Len(d) < MaxSize => Len(r) = Len(d) + 1
      /\ Len(d) = MaxSize => Len(r) = Len(d)
      /\ Len(r) \in Nat
  BY <1>1 DEF Retain
<1>3. \A n : /\ n \in ToSet(d) <=> \E i \in 1..Len(d) : n = d[i]
             /\ n \in ToSet(r) <=> \E i \in 1..Len(r) : n = r[i]
             /\ PushedOut(n, d) <=> Len(d) = MaxSize /\ \A i \in 1..Len(d) : n < d[i]
             /\ PushedOut(n, r) <=> Len(r) = MaxSize /\ \A i \in 1..Len(r) : n < r[i]
  <2>1. DOMAIN d = 1..Len(d) /\ DOMAIN r = 1..Len(r)
    BY <1>2, LenProperties
  <2> HIDE DEF r
  <2> QED
    BY <2>1 DEF ToSet, PushedOut
<1>4. CASE Len(d) < MaxSize
  <2>1. /\ \A i \in 1..Len(d) : r[i] = d[i]
        /\ r[Len(d) + 1] = x
    BY <1>1, <1>4 DEF Retain
  <2> HIDE DEF r
  <2>2. \A i \in 1..Len(r) : /\ i <= Len(d) => i \in 1..Len(d) /\ r[i] = d[i]
                             /\ ~(i <= Len(d)) => i = Len(d) + 1 /\ r[i] = x
    BY <1>1, <1>2, <1>4, <2>1
  <2>6. \A i \in 1..Len(r) : r[i] <= x
    BY <1>1, <2>2
  <2>7. Ascending(r)
    <3> SUFFICES ASSUME NEW i \in 1..Len(r), NEW j \in 1..Len(r), i < j PROVE r[i] < r[j]
      BY DEF Ascending
    <3>1. i <= Len(d)
      BY <1>1, <1>2, <1>4
    <3> QED
      BY <1>1, <2>2, <3>1
  <2>8. Len(d) + 1 \in 1..Len(r) /\ \A i \in 1..Len(d) : i \in 1..Len(r)
    BY <1>1, <1>2, <1>4
  <2>3. x \in ToSet(r)
    BY <1>3, <2>1, <2>8
  <2>4. \A n \in ToSet(d) : n \in ToSet(r)
    BY <1>3, <2>1, <2>8
  <2>5. \A n : ~PushedOut(n, d)
    BY <1>1, <1>3, <1>4
  <2>9. ToSet(r) \subseteq ToSet(d) \cup {x}
    BY <1>1, <1>3, <2>2
  <2> QED
    BY <2>3, <2>4, <2>5, <2>6, <2>7, <2>9 DEF Kept, r
<1>5. CASE Len(d) = MaxSize
  <2>1. \A i \in 1..Len(d) : r[i] = IF i < Len(d) THEN d[i + 1] ELSE x
    <3>1. r = Tail(Append(d, x))
      BY <1>1, <1>5 DEF Retain
    <3>2. /\ Append(d, x) \in Seq(Nat) /\ Len(Append(d, x)) = Len(d) + 1
          /\ \A i \in 1..Len(d) : Append(d, x)[i] = d[i]
          /\ Append(d, x)[Len(d) + 1] = x
      BY <1>1
    <3>3. \A i \in 1..Len(d) : r[i] = Append(d, x)[i + 1]
      BY <1>1, <3>1, <3>2
    <3> QED
      BY <1>1, <3>2, <3>3
  <2> HIDE DEF r
  <2>2. \A i \in 1..Len(r) : /\ i < Len(d) => i + 1 \in 1..Len(d) /\ r[i] = d[i + 1]
                             /\ i = Len(d) => r[i] = x
                             /\ i <= Len(d) /\ i \in Nat
    BY <1>1, <1>2, <1>5, <2>1
  <2>6. ASSUME NEW i \in 1..Len(r) PROVE r[i] <= x
    <3>1. CASE i < Len(d)
      BY <1>1, <2>2, <3>1
    <3>2. CASE i = Len(d)
      BY <2>2, <3>2
    <3> QED
      BY <1>1, <2>2, <3>1, <3>2
  <2>7. Ascending(r)
    <3> SUFFICES ASSUME NEW i \in 1..Len(r), NEW j \in 1..Len(r), i < j PROVE r[i] < r[j]
      BY DEF Ascending
    <3>1. i < Len(d) /\ r[i] = d[i + 1] /\ i + 1 \in 1..Len(d)
      BY <1>1, <2>2
    <3>2. CASE j = Len(d)
      BY <1>1, <2>2, <3>1, <3>2
    <3>3. CASE j # Len(d)
      <4>1. r[j] = d[j + 1] /\ j + 1 \in 1..Len(d) /\ i + 1 < j + 1
        BY <1>1, <2>2, <3>3
      <4> QED
        BY <1>1, <3>1, <4>1
    <3> QED
      BY <3>2, <3>3
  <2>3. Kept(x, r)
    <3>1. CASE Len(d) = 0
      BY <1>2, <1>3, <1>5, <3>1 DEF Kept
    <3>2. CASE Len(d) # 0
      <4>1. Len(d) \in 1..Len(r) /\ r[Len(d)] = x
        BY <1>1, <1>2, <1>5, <2>1, <3>2
      <4> QED
        BY <1>3, <4>1 DEF Kept
    <3> QED
      BY <3>1, <3>2
  <2>4. ASSUME NEW n \in ToSet(d) PROVE Kept(n, r)
    <3>1. PICK k \in 1..Len(d) : n = d[k]
      BY <1>3
    <3>2. CASE k = 1
      <4>1. \A i \in 1..Len(r) : n < r[i]
        BY <1>1, <1>2, <1>5, <2>1, <3>1, <3>2
      <4> QED
        BY <1>2, <1>3, <1>5, <4>1 DEF Kept
    <3>3. CASE k # 1
      <4>1. k - 1 \in 1..Len(r) /\ r[k - 1] = n
        BY <1>1, <1>2, <1>5, <2>1, <3>1, <3>3
      <4> QED
        BY <1>3, <4>1 DEF Kept
    <3> QED
      BY <3>2, <3>3
  <2>5. ASSUME NEW n \in Nat, n < x, PushedOut(n, d) PROVE Kept(n, r)
    <3>1. \A i \in 1..Len(r) : n < r[i]
      BY <1>1, <1>2, <1>3, <1>5, <2>1, <2>5
    <3> QED
      BY <1>2, <1>3, <1>5, <3>1 DEF Kept
  <2>9. ASSUME NEW n \in ToSet(r) PROVE n \in ToSet(d) \cup {x}
    <3>1. PICK i \in 1..Len(r) : n = r[i]
      BY <1>3
    <3>2. i < Len(d) \/ i = Len(d)
      BY <1>1, <2>2
    <3> QED
      BY <1>3, <2>2, <3>1, <3>2
  <2> QED
    BY <2>3, <2>4, <2>5, <2>6, <2>7, <2>9 DEF Kept, r
<1> QED
  BY <1>1, <1>4, <1>5

\* The deques are in the order of creation, and hold the newest of their kind.
StoreInv ==
    /\ TypeInv
    /\ Ascending(FindingIds) /\ \A i \in 1..Len(FindingIds) : FindingIds[i] <= created
    /\ Ascending(correlations) /\ \A i \in 1..Len(correlations) : correlations[i] <= created
    /\ StoreIsNewest

LEMMA IdsOfDeque ==
    ASSUME TypeOK
    PROVE  FindingIds \in Seq(Nat) /\ Len(FindingIds) = Len(findings)
<1>1. /\ DOMAIN findings = 1..Len(findings) /\ Len(findings) \in Nat
      /\ \A i \in 1..Len(findings) : findings[i] \in Item
  BY ElementOfSeq DEF TypeOK
<1>2. \A i \in 1..Len(findings) : findings[i].id \in Nat
  BY <1>1 DEF Item
<1>3. FindingIds \in [1..Len(findings) -> Nat]
  BY <1>1, <1>2 DEF FindingIds
<1> QED
  BY <1>1, <1>3, IsASeq, LenProperties

\* The ids of the deque that took a finding.
LEMMA IdsOfRetain ==
    ASSUME TypeOK, NEW f \in Item, findings' = Retain(findings, f)
    PROVE  FindingIds' = Retain(FindingIds, f.id)
<1>1. /\ FindingIds \in Seq(Nat) /\ Len(FindingIds) = Len(findings) /\ findings \in Seq(Item)
      /\ Len(findings) \in Nat /\ f.id \in Nat
      /\ \A i \in 1..Len(findings) : FindingIds[i] = findings[i].id
  BY IdsOfDeque DEF TypeOK, Item, FindingIds
<1>2. /\ Append(findings, f) \in Seq(Item)
      /\ Len(Append(findings, f)) = Len(findings) + 1
      /\ \A i \in 1..(Len(findings) + 1) :
            Append(findings, f)[i] = IF i = Len(findings) + 1 THEN f ELSE findings[i]
  BY <1>1
<1>3. /\ Append(FindingIds, f.id) \in Seq(Nat)
      /\ Len(Append(FindingIds, f.id)) = Len(findings) + 1
      /\ \A i \in 1..(Len(findings) + 1) :
            Append(FindingIds, f.id)[i] = IF i = Len(findings) + 1 THEN f.id ELSE FindingIds[i]
  BY <1>1
<1>4. FindingIds' = [i \in 1..Len(findings') |-> findings'[i].id]
  BY <1>1, <1>2 DEF Retain, FindingIds
<1>5. CASE Len(findings) < MaxSize
  <2>1. /\ Len(findings') = Len(findings) + 1
        /\ \A i \in 1..(Len(findings) + 1) :
              findings'[i].id = Append(FindingIds, f.id)[i]
    BY <1>1, <1>2, <1>3, <1>5 DEF Retain
  <2>2. Append(FindingIds, f.id) =
            [i \in 1..(Len(findings) + 1) |-> Append(FindingIds, f.id)[i]]
    BY <1>1
  <2> QED
    BY <1>1, <1>4, <1>5, <2>1, <2>2 DEF Retain
<1>6. CASE ~(Len(findings) < MaxSize)
  <2> DEFINE t == Tail(Append(FindingIds, f.id))
  <2>1. /\ t \in Seq(Nat) /\ Len(t) = Len(findings)
        /\ \A i \in 1..Len(findings) : t[i] = Append(FindingIds, f.id)[i + 1]
    BY <1>1, <1>3
  <2>2. /\ Len(findings') = Len(findings)
        /\ \A i \in 1..Len(findings) : findings'[i] = Append(findings, f)[i + 1]
    BY <1>1, <1>2, <1>6 DEF Retain
  <2> HIDE DEF t
  <2>3. ASSUME NEW i \in 1..Len(findings) PROVE findings'[i].id = t[i]
    <3>1. i + 1 \in 1..(Len(findings) + 1)
      BY <1>1
    <3>2. CASE i = Len(findings)
      BY <1>1, <1>2, <1>3, <2>1, <2>2, <3>1, <3>2
    <3>3. CASE i # Len(findings)
      <4>1. i + 1 \in 1..Len(findings) /\ i + 1 # Len(findings) + 1
        BY <1>1, <3>3
      <4>2. /\ t[i] = FindingIds[i + 1] /\ findings'[i] = findings[i + 1]
        BY <1>2, <1>3, <2>1, <2>2, <3>1, <4>1
      <4> QED
        BY <1>1, <4>1, <4>2
    <3> QED
      BY <3>2, <3>3
  <2>4. t = [i \in 1..Len(findings) |-> t[i]]
    BY <2>1
  <2>5. FindingIds' = t
    BY <1>4, <2>2, <2>3, <2>4
  <2> QED
    BY <1>1, <1>6, <2>5 DEF Retain, t
<1> QED
  BY <1>5, <1>6

LEMMA StoreInit == Init => StoreInv
<1> SUFFICES ASSUME Init PROVE StoreInv
  OBVIOUS
<1>1. Len(FindingIds) = 0 /\ Len(correlations) = 0 /\ created = 0 /\ correlated = {}
  BY DEF Init, FindingIds
<1>2. ToSet(FindingIds) = {} /\ ToSet(correlations) = {}
  BY DEF Init, FindingIds, ToSet
<1> QED
  BY <1>1, <1>2, TypeInit DEF StoreInv, Ascending, StoreIsNewest

LEMMA StoreStep == StoreInv /\ [Next]_vars => StoreInv'
<1> SUFFICES ASSUME StoreInv, [Next]_vars PROVE StoreInv'
  OBVIOUS
<1>0. /\ TypeInv /\ TypeInv' /\ TypeOK
      /\ FindingIds \in Seq(Nat) /\ Len(FindingIds) <= MaxSize
      /\ correlations \in Seq(Nat) /\ Len(correlations) <= MaxSize /\ created \in Nat
      /\ correlated \subseteq 1..created
  BY TypeStep, IdsOfDeque DEF StoreInv, TypeInv, TypeOK
<1>1. StoreInv' <=>
         /\ TypeInv'
         /\ Ascending(FindingIds') /\ \A i \in 1..Len(FindingIds') : FindingIds'[i] <= created'
         /\ Ascending(correlations')
         /\ \A i \in 1..Len(correlations') : correlations'[i] <= created'
         /\ \A n \in (1..created') \ correlated' : Kept(n, FindingIds')
         /\ \A n \in correlated' : Kept(n, correlations')
         /\ ToSet(FindingIds') \cap correlated' = {}
         /\ ToSet(correlations') \subseteq correlated'
  BY DEF StoreInv, StoreIsNewest, Kept, Ascending, PushedOut, ToSet
<1>2. /\ Ascending(FindingIds) /\ \A i \in 1..Len(FindingIds) : FindingIds[i] <= created
      /\ Ascending(correlations)
      /\ \A i \in 1..Len(correlations) : correlations[i] <= created
      /\ \A n \in (1..created) \ correlated : Kept(n, FindingIds)
      /\ \A n \in correlated : Kept(n, correlations)
      /\ ToSet(FindingIds) \cap correlated = {} /\ ToSet(correlations) \subseteq correlated
  BY DEF StoreInv, StoreIsNewest
<1>3. ASSUME NEW body \in Contents, created' = Fresh, correlations' = correlations,
             correlated' = correlated,
             findings' = Retain(findings, [id |-> Fresh, body |-> body])
      PROVE  StoreInv'
  <2>1. FindingIds' = Retain(FindingIds, Fresh)
    <3>1. [id |-> Fresh, body |-> body] \in Item
      BY <1>0 DEF Item, Fresh
    <3> QED
      BY <1>0, <1>3, <3>1, IdsOfRetain
  <2>2. /\ Ascending(Retain(FindingIds, Fresh))
        /\ \A i \in 1..Len(Retain(FindingIds, Fresh)) : Retain(FindingIds, Fresh)[i] <= Fresh
        /\ Kept(Fresh, Retain(FindingIds, Fresh))
        /\ \A n \in Nat : n < Fresh /\ Kept(n, FindingIds) => Kept(n, Retain(FindingIds, Fresh))
        /\ ToSet(Retain(FindingIds, Fresh)) \subseteq ToSet(FindingIds) \cup {Fresh}
    <3>1. Fresh \in Nat /\ \A i \in 1..Len(FindingIds) : FindingIds[i] < Fresh
      <4>1. \A i \in 1..Len(FindingIds) : FindingIds[i] \in Nat
        BY <1>0, ElementOfSeq
      <4> QED
        BY <1>0, <1>2, <4>1 DEF Fresh
    <3> QED
      BY <1>0, <1>2, <3>1, RetainKeeps
  <2>3. /\ \A n \in 1..created' : n \in Nat /\ (n # Fresh => n \in 1..created /\ n < Fresh)
        /\ Fresh \notin correlated
    BY <1>0, <1>3 DEF Fresh
  <2>4. /\ \A n \in (1..created') \ correlated' : Kept(n, FindingIds')
        /\ \A n \in correlated' : Kept(n, correlations')
        /\ ToSet(FindingIds') \cap correlated' = {}
        /\ ToSet(correlations') \subseteq correlated'
    <3>1. ASSUME NEW n \in (1..created') \ correlated' PROVE Kept(n, FindingIds')
      BY <1>2, <1>3, <2>1, <2>2, <2>3
    <3> QED
      BY <1>2, <1>3, <2>1, <2>2, <2>3, <3>1
  <2>5. \A i \in 1..Len(FindingIds') : FindingIds'[i] <= created'
    BY <1>3, <2>1, <2>2
  <2>6. \A i \in 1..Len(correlations') : correlations'[i] <= created'
    <3>1. \A i \in 1..Len(correlations) : correlations[i] \in Nat
      BY <1>0, ElementOfSeq
    <3> QED
      BY <1>0, <1>2, <1>3, <3>1 DEF Fresh
  <2> QED
    BY <1>0, <1>1, <1>2, <1>3, <2>1, <2>2, <2>4, <2>5, <2>6
<1>4. CASE AddCorrelation
  <2>1. /\ created' = Fresh /\ correlated' = correlated \cup {Fresh}
        /\ findings' = findings /\ correlations' = Retain(correlations, Fresh)
    BY <1>4 DEF AddCorrelation
  <2>2. FindingIds' = FindingIds
    BY <2>1 DEF FindingIds
  <2>3. /\ Ascending(Retain(correlations, Fresh))
        /\ \A i \in 1..Len(Retain(correlations, Fresh)) : Retain(correlations, Fresh)[i] <= Fresh
        /\ Kept(Fresh, Retain(correlations, Fresh))
        /\ \A n \in Nat : n < Fresh /\ Kept(n, correlations)
                            => Kept(n, Retain(correlations, Fresh))
        /\ ToSet(Retain(correlations, Fresh)) \subseteq ToSet(correlations) \cup {Fresh}
    <3>1. Fresh \in Nat /\ \A i \in 1..Len(correlations) : correlations[i] < Fresh
      <4>1. \A i \in 1..Len(correlations) : correlations[i] \in Nat
        BY <1>0, ElementOfSeq
      <4> QED
        BY <1>0, <1>2, <4>1 DEF Fresh
    <3> QED
      BY <1>0, <1>2, <3>1, RetainKeeps
  <2>4. /\ \A n \in 1..created' : n \in Nat /\ (n # Fresh => n \in 1..created /\ n < Fresh)
        /\ \A n \in correlated : n \in Nat /\ n < Fresh
        /\ Fresh \notin ToSet(FindingIds)
    <3>1. \A i \in 1..Len(FindingIds) : FindingIds[i] \in Nat /\ FindingIds[i] # Fresh
      <4>1. \A i \in 1..Len(FindingIds) : FindingIds[i] \in Nat
        BY <1>0, ElementOfSeq
      <4> QED
        BY <1>0, <1>2, <4>1 DEF Fresh
    <3>2. DOMAIN FindingIds = 1..Len(FindingIds)
      BY <1>0, LenProperties
    <3>3. Fresh \notin ToSet(FindingIds)
      BY <3>1, <3>2 DEF ToSet
    <3> QED
      BY <1>0, <2>1, <3>3 DEF Fresh
  <2>5. /\ \A n \in (1..created') \ correlated' : Kept(n, FindingIds')
        /\ \A n \in correlated' : Kept(n, correlations')
        /\ ToSet(FindingIds') \cap correlated' = {}
        /\ ToSet(correlations') \subseteq correlated'
    <3>1. ASSUME NEW n \in correlated' PROVE Kept(n, correlations')
      BY <1>2, <2>1, <2>3, <2>4
    <3>2. ASSUME NEW n \in (1..created') \ correlated' PROVE Kept(n, FindingIds')
      BY <1>2, <2>1, <2>2, <2>4
    <3>3. ToSet(FindingIds') \cap correlated' = {}
      BY <1>2, <2>1, <2>2, <2>4
    <3> QED
      BY <1>2, <2>1, <2>3, <3>1, <3>2, <3>3
  <2>6. \A i \in 1..Len(FindingIds') : FindingIds'[i] <= created'
    <3>1. \A i \in 1..Len(FindingIds) : FindingIds[i] \in Nat
      BY <1>0, ElementOfSeq
    <3> QED
      BY <1>0, <1>2, <2>1, <2>2, <3>1 DEF Fresh
  <2> QED
    BY <1>0, <1>1, <1>2, <2>1, <2>2, <2>3, <2>5, <2>6
<1>5. ASSUME UNCHANGED <<store, created>> PROVE StoreInv'
  <2>1. FindingIds' = FindingIds
    BY <1>5 DEF FindingIds, store
  <2> QED
    BY <1>0, <1>1, <1>2, <1>5, <2>1 DEF store
<1>6. ASSUME NEW body \in Contents, Add(body) \/ AddSync(body) PROVE StoreInv'
  BY <1>3, <1>6 DEF Add, AddSync
<1>7. CASE \/ \E req \in Requests : QueryStart(req)
           \/ QueryEnd \/ QueryRaise \/ QueryStep
  BY <1>5, <1>7 DEF QueryStart, QueryEnd, QueryRaise, QueryStep
<1>8. ASSUME NEW s \in Subscribers, Connection(s) PROVE StoreInv'
  BY <1>5, <1>8 DEF Connection, Open, Register, Deliver, DeliverFails, Sent, Cancel,
                    Abandon, Reap, Unsubscribe
<1>9. CASE UNCHANGED vars
  BY <1>5, <1>9 DEF vars, store
<1> QED
  BY <1>4, <1>6, <1>7, <1>8, <1>9 DEF Next, Handler

\* Whatever is added in whatever order, each deque holds what is newest of its
\* kind: a finding is missing only when the findings' deque is full of newer
\* findings, a correlation only when the other deque is full of newer
\* correlations.
THEOREM StoreHoldsTheNewest == Spec => []StoreIsNewest
<1>1. StoreInv => StoreIsNewest
  BY DEF StoreInv
<1> QED
  BY StoreInit, StoreStep, <1>1, PTL DEF Spec
-----------------------------------------------------------------------------
(***************************************************************************)
(* The queries.                                                            *)
(***************************************************************************)
Hits(stored, req) == {f \in ToSet(stored) : Matches(f.body, req)}

\* The matches behind position p, which a query at p has seen.
HitsAfter(p, stored, req) ==
    {stored[i] : i \in {j \in 1..Len(stored) : j > p /\ Matches(stored[j].body, req)}}

Most(req) == IF req.limit = 0 THEN 1 ELSE req.limit

\* A query that runs has kept, newest first, the matches it has seen, and is
\* not full.
QueryInv ==
    /\ StoreInv
    /\ InOrder(query.snapshot)
    /\ query.phase = "scanning" =>
          /\ query.req \in Requests
          /\ NewestFirst(query.results) /\ Len(query.results) < Most(query.req)
          /\ ToSet(query.results) = HitsAfter(query.pos, query.snapshot, query.req)
    /\ QueryAnswer

LEMMA FindingsInOrder == StoreInv => InOrder(findings)
<1> SUFFICES ASSUME StoreInv PROVE InOrder(findings)
  OBVIOUS
<1>1. /\ FindingIds \in Seq(Nat) /\ Len(FindingIds) = Len(findings)
      /\ \A i, j \in 1..Len(FindingIds) : i < j => FindingIds[i] < FindingIds[j]
  BY IdsOfDeque DEF StoreInv, TypeInv, Ascending
<1>2. DOMAIN findings = 1..Len(findings)
  BY LenProperties DEF StoreInv, TypeInv, TypeOK
<1>3. \A i \in 1..Len(findings) : FindingIds[i] = findings[i].id
  BY <1>2 DEF FindingIds
<1> QED
  BY <1>1, <1>2, <1>3 DEF InOrder

\* What lies before p is older than what lies behind it.
LEMMA OlderBefore ==
    ASSUME NEW stored \in Seq(Item), InOrder(stored), NEW req, NEW p \in 0..Len(stored)
    PROVE  /\ HitsAfter(p, stored, req) \subseteq Hits(stored, req)
           /\ HitsAfter(0, stored, req) = Hits(stored, req)
           /\ \A f \in Hits(stored, req) \ HitsAfter(p, stored, req) :
                 \A g \in HitsAfter(p, stored, req) : f.id < g.id
<1>1. DOMAIN stored = 1..Len(stored) /\ Len(stored) \in Nat
  BY LenProperties
<1>2. \A f \in Hits(stored, req) :
         \E i \in 1..Len(stored) : f = stored[i] /\ Matches(stored[i].body, req)
  BY <1>1 DEF Hits, ToSet
<1>3. \A f \in HitsAfter(p, stored, req) :
         \E i \in 1..Len(stored) : f = stored[i] /\ i > p /\ Matches(stored[i].body, req)
  BY DEF HitsAfter
<1>4. HitsAfter(p, stored, req) \subseteq Hits(stored, req)
  BY <1>1 DEF Hits, HitsAfter, ToSet
<1>5. HitsAfter(0, stored, req) = Hits(stored, req)
  BY <1>1 DEF Hits, HitsAfter, ToSet
<1>6. ASSUME NEW f \in Hits(stored, req) \ HitsAfter(p, stored, req),
             NEW g \in HitsAfter(p, stored, req)
      PROVE  f.id < g.id
  <2>1. PICK i \in 1..Len(stored) : f = stored[i] /\ Matches(stored[i].body, req)
    BY <1>2, <1>6
  <2>2. PICK j \in 1..Len(stored) : g = stored[j] /\ j > p
    BY <1>3, <1>6
  <2>3. ~(i > p)
    BY <1>6, <2>1 DEF HitsAfter
  <2>4. i < j
    BY <1>1, <2>2, <2>3
  <2> QED
    BY <1>1, <2>1, <2>2, <2>4 DEF InOrder
<1> QED
  BY <1>4, <1>5, <1>6

\* The next older match goes to the end of the answer.
LEMMA NextMatch ==
    ASSUME NEW stored \in Seq(Item), InOrder(stored), NEW req, NEW p \in 1..Len(stored),
           NEW res \in Seq(Item), NewestFirst(res), ToSet(res) = HitsAfter(p, stored, req),
           Matches(stored[p].body, req)
    PROVE  /\ NewestFirst(Append(res, stored[p]))
           /\ ToSet(Append(res, stored[p])) = HitsAfter(p - 1, stored, req)
<1> DEFINE f == stored[p]  got == Append(res, f)
<1>1. /\ DOMAIN stored = 1..Len(stored) /\ Len(stored) \in Nat
      /\ DOMAIN res = 1..Len(res) /\ Len(res) \in Nat /\ f \in Item
  BY LenProperties, ElementOfSeq
<1>2. /\ got \in Seq(Item) /\ Len(got) = Len(res) + 1
      /\ \A i \in 1..Len(res) : got[i] = res[i]
      /\ got[Len(res) + 1] = f
  BY <1>1
<1>3. DOMAIN got = 1..(Len(res) + 1)
  BY <1>2, LenProperties
<1>4. \A g \in HitsAfter(p, stored, req) : f.id < g.id
  <2> SUFFICES ASSUME NEW j \in 1..Len(stored), j > p PROVE f.id < stored[j].id
    BY DEF HitsAfter
  <2> QED
    BY <1>1 DEF InOrder
<1>5. HitsAfter(p - 1, stored, req) = HitsAfter(p, stored, req) \cup {f}
  <2>1. \A j \in 1..Len(stored) : j > p - 1 <=> j > p \/ j = p
    BY <1>1
  <2> QED
    BY <2>1 DEF HitsAfter
<1> HIDE DEF f, got
<1>6. ToSet(got) = ToSet(res) \cup {f}
  <2>1. ASSUME NEW x \in ToSet(got) PROVE x \in ToSet(res) \cup {f}
    <3>1. PICK i \in 1..(Len(res) + 1) : x = got[i]
      BY <1>3 DEF ToSet
    <3>2. i \in 1..Len(res) \/ i = Len(res) + 1
      BY <1>1
    <3> QED
      BY <1>1, <1>2, <3>1, <3>2 DEF ToSet
  <2>2. ASSUME NEW x \in ToSet(res) PROVE x \in ToSet(got)
    <3>1. PICK i \in 1..Len(res) : x = res[i]
      BY <1>1 DEF ToSet
    <3>2. i \in 1..(Len(res) + 1) /\ x = got[i]
      BY <1>1, <1>2, <3>1
    <3> QED
      BY <1>3, <3>2 DEF ToSet
  <2>3. Len(res) + 1 \in 1..(Len(res) + 1)
    BY <1>1
  <2>4. f \in ToSet(got)
    BY <1>2, <1>3, <2>3 DEF ToSet
  <2> QED
    BY <2>1, <2>2, <2>4
<1>7. NewestFirst(got)
  <2> SUFFICES ASSUME NEW i \in 1..(Len(res) + 1), NEW j \in 1..(Len(res) + 1), i < j
               PROVE  got[i].id > got[j].id
    BY <1>3 DEF NewestFirst
  <2>1. i \in 1..Len(res) /\ got[i] = res[i] /\ res[i] \in ToSet(res)
    BY <1>1, <1>2 DEF ToSet
  <2>2. CASE j = Len(res) + 1
    <3>1. f.id < res[i].id
      BY <1>4, <2>1
    <3>2. f \in Item /\ res[i] \in Item
      BY <1>1, <2>1, ElementOfSeq
    <3>3. f.id \in Nat /\ res[i].id \in Nat
      BY <3>2 DEF Item
    <3> QED
      BY <1>2, <2>1, <2>2, <3>1, <3>3
  <2>3. CASE j # Len(res) + 1
    <3>1. j \in 1..Len(res) /\ got[j] = res[j]
      BY <1>1, <1>2, <2>3
    <3> QED
      BY <1>1, <2>1, <3>1 DEF NewestFirst
  <2> QED
    BY <2>2, <2>3
<1> QED
  BY <1>5, <1>6, <1>7 DEF got, f

LEMMA QueryInit == Init => QueryInv
<1> SUFFICES ASSUME Init PROVE QueryInv
  OBVIOUS
<1>1. query.phase = "idle" /\ query.snapshot = <<>>
  BY DEF Init
<1>2. InOrder(query.snapshot)
  BY <1>1 DEF InOrder
<1> QED
  BY <1>1, <1>2, StoreInit DEF QueryInv, QueryAnswer

\* A step that is none of the query's.
LEMMA QueryUntouched ==
    ASSUME QueryInv, StoreInv', query' = query \/ query' = Touch(query)
    PROVE  QueryInv'
<1>1. /\ query'.phase = query.phase /\ query'.snapshot = query.snapshot
      /\ query'.results = query.results /\ query'.pos = query.pos /\ query'.req = query.req
  BY DEF Touch, QueryInv, StoreInv, TypeInv, TypeOK, QueryRecord
<1> QED
  BY <1>1 DEF QueryInv, QueryAnswer

LEMMA QueryStartKeeps ==
    ASSUME QueryInv, StoreInv', NEW req \in Requests, QueryStart(req)
    PROVE  QueryInv'
<1>1. /\ query'.phase = "scanning" /\ query'.snapshot = findings /\ query'.req = req
      /\ query'.pos = Len(findings) /\ query'.results = <<>>
  BY DEF QueryStart
<1>2. InOrder(query'.snapshot)
  BY <1>1, FindingsInOrder DEF QueryInv
<1>3. ToSet(<<>>) = HitsAfter(Len(findings), findings, req)
  <2>1. Len(findings) \in Nat
    BY DEF QueryInv, StoreInv, TypeInv, TypeOK
  <2>2. HitsAfter(Len(findings), findings, req) = {}
    BY <2>1 DEF HitsAfter
  <2> QED
    BY <2>2 DEF ToSet
<1>4. NewestFirst(<<>>) /\ Len(<<>>) < Most(req)
  BY RequestsAssumption DEF NewestFirst, Most
<1> QED
  BY <1>1, <1>2, <1>3, <1>4 DEF QueryInv, QueryAnswer

LEMMA QueryRaiseKeeps == ASSUME QueryInv, StoreInv', QueryRaise PROVE QueryInv'
<1>1. query'.phase = "error" /\ query'.snapshot = query.snapshot
  BY DEF QueryRaise, QueryInv, StoreInv, TypeInv, TypeOK, QueryRecord
<1> QED
  BY <1>1 DEF QueryInv, QueryAnswer

LEMMA QueryEndKeeps == ASSUME QueryInv, StoreInv', QueryEnd PROVE QueryInv'
<1>1. /\ query.phase = "scanning" /\ query.pos = 0 /\ query'.phase = "done"
      /\ query'.snapshot = query.snapshot /\ query'.results = query.results
      /\ query'.req = query.req
  BY DEF QueryEnd, QueryInv, StoreInv, TypeInv, TypeOK, QueryRecord
<1>2. ToSet(query.results) = Hits(query.snapshot, query.req)
  <2>1. query.snapshot \in Seq(Item) /\ 0 \in 0..Len(query.snapshot)
    BY DEF QueryInv, StoreInv, TypeInv, TypeOK, QueryRecord
  <2> QED
    BY <1>1, <2>1, OlderBefore DEF QueryInv
<1>3. Len(query.results) \in Nat /\ Len(query.results) < Most(query.req) /\ NewestFirst(query.results)
  BY <1>1 DEF QueryInv, StoreInv, TypeInv, TypeOK, QueryRecord
<1>4. query.req \in Requests
  BY <1>1 DEF QueryInv
<1>5. NewestMatches(query.results, query.snapshot, query.req)
  BY <1>2, <1>3, <1>4, RequestsAssumption DEF NewestMatches, Hits, Most
<1> QED
  BY <1>1, <1>5 DEF QueryInv, QueryAnswer

LEMMA QueryStepKeeps == ASSUME QueryInv, StoreInv', QueryStep PROVE QueryInv'
<1> DEFINE p == query.pos  stored == query.snapshot  req == query.req  f == stored[p]
           got == Append(query.results, f)
<1>1. /\ stored \in Seq(Item) /\ InOrder(stored) /\ p \in 1..Len(stored)
      /\ query.results \in Seq(Item) /\ NewestFirst(query.results)
      /\ ToSet(query.results) = HitsAfter(p, stored, req)
      /\ Len(query.results) < Most(req) /\ req \in Requests /\ req.limit \in Nat
      /\ query.phase = "scanning" /\ findings[p] = f
  BY RequestsAssumption DEF QueryStep, QueryInv, StoreInv, TypeInv, TypeOK, Iterating,
     QueryRecord
<1>2. query'.snapshot = stored /\ query'.req = req /\ query'.pos = p - 1
  BY DEF QueryStep, QueryInv, StoreInv, TypeInv, TypeOK, QueryRecord
<1>3. CASE ~Matches(f.body, req)
  <2>1. query'.phase = "scanning" /\ query'.results = query.results
    BY <1>1, <1>3 DEF QueryStep, QueryInv, StoreInv, TypeInv, TypeOK, QueryRecord
  <2>2. HitsAfter(p - 1, stored, req) = HitsAfter(p, stored, req)
    <3>1. \A j \in 1..Len(stored) : j > p - 1 <=> j > p \/ j = p
      BY <1>1
    <3> QED
      BY <1>3, <3>1 DEF HitsAfter
  <2> QED
    BY <1>1, <1>2, <2>1, <2>2 DEF QueryInv, QueryAnswer
<1>4. CASE Matches(f.body, req)
  <2>1. /\ query'.results = got
        /\ query'.phase = IF Len(got) >= req.limit THEN "done" ELSE "scanning"
    BY <1>1, <1>4 DEF QueryStep, QueryInv, StoreInv, TypeInv, TypeOK, QueryRecord
  <2>2. NewestFirst(got) /\ ToSet(got) = HitsAfter(p - 1, stored, req)
    BY <1>1, <1>4, NextMatch
  <2>3. Len(got) = Len(query.results) + 1 /\ Len(query.results) \in Nat
    BY <1>1
  <2>4. CASE ~(Len(got) >= req.limit)
    <3>1. Len(got) < Most(req)
      BY <1>1, <2>3, <2>4 DEF Most
    <3> QED
      BY <1>1, <1>2, <2>1, <2>2, <2>4, <3>1 DEF QueryInv, QueryAnswer
  <2>5. CASE Len(got) >= req.limit
    <3>1. Len(got) = Most(req)
      BY <1>1, <2>3, <2>5 DEF Most
    <3>2. /\ ToSet(got) \subseteq Hits(stored, req)
          /\ \A x \in Hits(stored, req) \ ToSet(got) : \A g \in ToSet(got) : x.id < g.id
      <4>1. p - 1 \in 0..Len(stored)
        BY <1>1
      <4> QED
        BY <1>1, <2>2, <4>1, OlderBefore
    <3>3. NewestMatches(got, stored, req)
      BY <1>1, <2>2, <2>3, <3>1, <3>2 DEF NewestMatches, Hits, Most
    <3> QED
      BY <1>1, <1>2, <2>1, <2>5, <3>3 DEF QueryInv, QueryAnswer
  <2> QED
    BY <2>4, <2>5
<1> QED
  BY <1>3, <1>4

LEMMA QueryNextKeeps == QueryInv /\ [Next]_vars => QueryInv'
<1> SUFFICES ASSUME QueryInv, [Next]_vars PROVE QueryInv'
  OBVIOUS
<1>0. StoreInv'
  BY StoreStep DEF QueryInv
<1>1. ASSUME NEW body \in Contents, Add(body) \/ AddSync(body) PROVE QueryInv'
  BY <1>0, <1>1, QueryUntouched DEF Add, AddSync
<1>2. CASE AddCorrelation
  BY <1>0, <1>2, QueryUntouched DEF AddCorrelation
<1>3. ASSUME NEW req \in Requests, QueryStart(req) PROVE QueryInv'
  BY <1>0, <1>3, QueryStartKeeps
<1>4. ASSUME NEW s \in Subscribers, Connection(s) PROVE QueryInv'
  <2>1. query' = query
    BY <1>4 DEF Connection, Open, Register, Deliver, DeliverFails, Sent, Cancel,
                Abandon, Reap, Unsubscribe
  <2> QED
    BY <1>0, <2>1, QueryUntouched
<1>5. CASE UNCHANGED vars
  BY <1>0, <1>5, QueryUntouched DEF vars
<1> QED
  BY <1>0, <1>1, <1>2, <1>3, <1>4, <1>5, QueryEndKeeps, QueryRaiseKeeps, QueryStepKeeps
     DEF Next, Handler

\* A query that ends without an error returns the newest matches of the moment
\* it was called, whatever threads add while it runs.
THEOREM QueriesAreAnswered == Spec => []QueryAnswer
<1>1. QueryInv => QueryAnswer
  BY DEF QueryInv
<1> QED
  BY QueryInit, QueryNextKeeps, <1>1, PTL DEF Spec
-----------------------------------------------------------------------------
(***************************************************************************)
(* The registry implements EventStream.                                    *)
(***************************************************************************)
\* An ordered queue holds as many different items as it is long.
LEMMA InOrderCardinality ==
    ASSUME NEW q \in Seq(Event), InOrder(q)
    PROVE  Cardinality(Ids(q)) = Len(q)
<1> DEFINE F == [i \in 1..Len(q) |-> q[i].id]
<1>1. DOMAIN q = 1..Len(q) /\ Len(q) \in Nat
  BY LenProperties
<1>2. \A i \in 1..Len(q) : q[i].id \in Nat
  <2> TAKE i \in 1..Len(q)
  <2>1. q[i] \in Event
    BY <1>1, ElementOfSeq
  <2> QED
    BY <2>1 DEF Event
<1>3. F \in [1..Len(q) -> Ids(q)]
  BY <1>1 DEF Ids
<1>4. \A i, j \in 1..Len(q) : F[i] = F[j] => i = j
  <2> SUFFICES ASSUME NEW i \in 1..Len(q), NEW j \in 1..Len(q), i < j
               PROVE  F[i] # F[j]
    BY <1>1
  <2> QED
    BY <1>1, <1>2 DEF InOrder
<1>5. \A n \in Ids(q) : \E i \in 1..Len(q) : F[i] = n
  BY <1>1 DEF Ids
<1> HIDE DEF F
<1>6. F \in Bijection(1..Len(q), Ids(q))
  BY <1>3, <1>4, <1>5, Fun_IsBij
<1> QED
  BY <1>1, <1>6, FS_CountingElements DEF ExistsBijection

\* What a connected client has still to hear is what its queue holds.
LEMMA PendingIsQueued ==
    ASSUME StreamInv, NEW s \in Subscribers, Connected(s)
    PROVE  /\ Stream!Pending(s) = Ids(queue[s])
           /\ Cardinality(Stream!Pending(s)) = Len(queue[s])
<1>1. /\ queue[s] \in Seq(Event) /\ InOrder(queue[s])
      /\ Ids(queue[s]) = {n \in published : n > cursor[s]} \ missed[s]
  BY DEF StreamInv, StreamFaithful, Queued, TypeInv, TypeOK
<1> QED
  BY <1>1, InOrderCardinality DEF Stream!Pending

\* The connected clients, and who of them loses what is published now.
Listening == {s \in Subscribers : Connected(s)}
Losers    == {s \in Subscribers : Connected(s) /\ Len(queue[s]) >= QueueCap}

LEMMA PublishImplements ==
    ASSUME StreamInv, NEW e \in Event, e.id = Fresh, Publish(e), created' = Fresh
    PROVE  Stream!Publish
<1>1. created' = created + 1 /\ published' = published \cup {created'}
  BY DEF Publish, Fresh
<1>2. Listening' = Listening /\ cursor' = cursor
  BY DEF Publish, Listening, Connected
<1>3. Losers \subseteq {s \in Subscribers : Stream!Behind(s)}
  <2> SUFFICES ASSUME NEW s \in Subscribers, Connected(s), Len(queue[s]) >= QueueCap
               PROVE  Stream!Behind(s)
    BY DEF Losers
  <2>1. Cardinality(Stream!Pending(s)) = Len(queue[s])
    BY PendingIsQueued
  <2>2. s \in {t \in Subscribers : Connected(t)}
    OBVIOUS
  <2>3. Cardinality(Stream!Pending(s)) >= QueueCap
    BY <2>1
  <2>4. Stream!Cardinality(Stream!Pending(s)) >= QueueCap
    BY <2>3, Zenon DEF Cardinality, Stream!Cardinality
  <2> QED
    BY <2>2, <2>4, Zenon DEF Stream!Behind
<1>4. missed' = [s \in Subscribers |->
                    IF s \in Losers THEN missed[s] \cup {created'} ELSE missed[s]]
  BY DEF Publish, Losers, Fresh
<1>5. \E losers \in SUBSET {s \in Subscribers : Stream!Behind(s)} :
         missed' = [s \in Subscribers |->
                      IF s \in losers THEN missed[s] \cup {created'} ELSE missed[s]]
  <2>1. Losers \in SUBSET {s \in Subscribers : Stream!Behind(s)}
    BY <1>3
  <2> QED
    BY <1>4, <2>1, Zenon
<1> QED
  BY <1>1, <1>2, <1>5, Zenon DEF Stream!Publish, Listening

LEMMA ConnectionImplements ==
    ASSUME StreamInv, NEW s \in Subscribers, Connection(s)
    PROVE  \/ Stream!Join(s) \/ Stream!Hear(s) \/ Stream!Leave(s)
           \/ UNCHANGED Stream!vars
<1> USE DEF Stream!vars
<1>0. /\ phase \in [Subscribers -> Phase] /\ queue \in [Subscribers -> Seq(Event)]
      /\ published \subseteq Nat /\ cursor \in [Subscribers -> Nat]
  BY DEF StreamInv, TypeInv, TypeOK
<1>1. CASE Open(s) \/ Sent(s) \/ Reap(s)
  <2>1. Listening' = Listening
    BY <1>0, <1>1 DEF Open, Sent, Reap, Unsubscribe, Listening, Connected
  <2> QED
    BY <1>1, <2>1 DEF Open, Sent, Reap, Unsubscribe, Listening
<1>2. CASE Register(s)
  <2>1. s \notin Listening /\ Listening' = Listening \cup {s}
    BY <1>0, <1>2 DEF Register, Listening, Connected
  <2> QED
    BY <1>2, <2>1 DEF Register, Listening, Stream!Join
<1>3. CASE DeliverFails(s) \/ Abandon(s)
  <2>1. s \in Listening /\ Listening' = Listening \ {s}
    BY <1>0, <1>3 DEF DeliverFails, Ready, Abandon, Listening, Connected
  <2> QED
    BY <1>3, <2>1 DEF DeliverFails, Ready, Abandon, Listening, Stream!Leave
<1>4. CASE Cancel(s)
  <2>1. CASE phase[s] = "opened"
    <3>1. Listening' = Listening
      BY <1>0, <1>4, <2>1 DEF Cancel, Unsubscribe, Listening, Connected
    <3> QED
      BY <1>4, <3>1 DEF Cancel, Unsubscribe, Listening
  <2>2. CASE phase[s] = "waiting"
    <3>1. s \in Listening /\ Listening' = Listening \ {s}
      BY <1>0, <1>4, <2>2 DEF Cancel, Unsubscribe, Listening, Connected
    <3> QED
      BY <1>4, <3>1 DEF Cancel, Unsubscribe, Listening, Stream!Leave
  <2> QED
    BY <1>4, <2>1, <2>2 DEF Cancel
<1>5. CASE Deliver(s)
  <2> DEFINE n == Head(queue[s]).id
  <2>1. s \in Listening /\ Listening' = Listening
    BY <1>0, <1>5 DEF Deliver, Ready, Listening, Connected
  <2>2. /\ Stream!Pending(s) = Ids(queue[s]) /\ InOrder(queue[s])
        /\ Ids(queue[s]) \subseteq Nat
    BY <1>0, <2>1, PendingIsQueued
       DEF StreamInv, StreamFaithful, Queued, Listening, Stream!Pending
  <2>3. /\ n \in Ids(queue[s])
        /\ \A m \in Ids(Tail(queue[s])) : n < m
        /\ Ids(queue[s]) = Ids(Tail(queue[s])) \cup {n}
    BY <1>0, <1>5, <2>2, TailIds DEF Deliver, Ready
  <2>4. n \in Stream!Pending(s) /\ \A m \in Stream!Pending(s) : n <= m
    BY <2>2, <2>3
  <2>5. cursor' = [cursor EXCEPT ![s] = n]
    BY <1>5 DEF Deliver
  <2> HIDE DEF n
  <2> QED
    BY <1>5, <2>1, <2>4, <2>5 DEF Deliver, Ready, Listening, Stream!Hear
<1> QED
  BY <1>1, <1>2, <1>3, <1>4, <1>5 DEF Connection

LEMMA StepImplements == StreamInv /\ [Next]_vars => [Stream!Next]_(Stream!vars)
<1> SUFFICES ASSUME StreamInv, [Next]_vars PROVE [Stream!Next]_(Stream!vars)
  OBVIOUS
<1>0. TypeOK
  BY DEF StreamInv, TypeInv
<1>1. ASSUME NEW body \in Contents, Add(body) PROVE Stream!Next
  <2>1. [kind |-> "finding", id |-> Fresh, plain |-> body.plain] \in Event
    BY <1>0, ContentsAssumption DEF Event, Fresh, TypeOK
  <2> QED
    BY <1>1, <2>1, PublishImplements DEF Add, Stream!Next
<1>2. CASE AddCorrelation
  <2>1. [kind |-> "correlation", id |-> Fresh, plain |-> TRUE] \in Event
    BY <1>0 DEF Event, Fresh, TypeOK
  <2> QED
    BY <1>2, <2>1, PublishImplements DEF AddCorrelation, Stream!Next
<1>3. ASSUME NEW body \in Contents, AddSync(body) PROVE Stream!Next
  BY <1>3 DEF AddSync, Fresh, streams, Connected, Stream!CreateSilently, Stream!Next
<1>4. CASE \/ \E req \in Requests : QueryStart(req)
           \/ QueryEnd \/ QueryRaise \/ QueryStep
  BY <1>4 DEF QueryStart, QueryEnd, QueryRaise, QueryStep, streams, Connected,
              Stream!vars
<1>5. ASSUME NEW s \in Subscribers, Connection(s)
      PROVE  [Stream!Next]_(Stream!vars)
  BY <1>5, ConnectionImplements DEF Stream!Next
<1>6. CASE UNCHANGED vars
  BY <1>6 DEF vars, Connected, Stream!vars
<1> QED
  BY <1>1, <1>2, <1>3, <1>4, <1>5, <1>6 DEF Next, Handler

LEMMA InitImplements == Init => Stream!Init
  BY DEF Init, Connected, Stream!Init

\* The registry implements the promised stream: each client is handed every
\* published item exactly once and in order from the moment it registered,
\* except items published while QueueCap others were waiting for it.
THEOREM RegistryImplementsStream == Spec => ImplementsStream
  BY InitImplements, StepImplements, StreamInit, StreamStep, PTL
     DEF Spec, ImplementsStream, Stream!Spec
-----------------------------------------------------------------------------
(***************************************************************************)
(* The gateway.                                                            *)
(***************************************************************************)
\* A step of the gateway is a step of the registry, or leaves it alone.
LEMMA GatewayStepIsRegistryStep == [GatewayNext]_allVars => [Next]_vars
<1> SUFFICES ASSUME [GatewayNext]_allVars PROVE [Next]_vars
  OBVIOUS
<1>1. ASSUME NEW x \in Scans, NEW body \in Contents, ScanFinding(x, body)
      PROVE  Next
  BY <1>1 DEF ScanFinding, Next, Handler
<1>2. CASE EmitCorrelation
  BY <1>2 DEF EmitCorrelation, Next, Handler
<1>3. CASE RegistryStep
  BY <1>3 DEF RegistryStep, Next
<1>4. CASE \/ \E x \in Scans, source \in Sources : StartScan(x, source)
           \/ RunRule \/ RuleBreaks \/ EndTurn
           \/ \E x \in Scans : AdapterRaises(x) \/ FinishScan(x)
  BY <1>4 DEF StartScan, RunRule, RuleBreaks, EndTurn, AdapterRaises, FinishScan
<1>5. CASE UNCHANGED allVars
  BY <1>5 DEF allVars
<1> QED
  BY <1>1, <1>2, <1>3, <1>4, <1>5 DEF GatewayNext

\* Every behaviour of the gateway is one of the registry: what is proved of
\* the registry alone holds with scans on top of it.
THEOREM GatewayImplementsRegistry == GatewaySpec => Spec
<1>1. GatewayInit => Init
  BY DEF GatewayInit
<1> QED
  BY <1>1, GatewayStepIsRegistryStep, PTL DEF GatewaySpec, Spec

\* The clients of the gateway have the streams that the registry promises.
THEOREM GatewayStreamsAreFaithful == GatewaySpec => []StreamFaithful
  BY GatewayImplementsRegistry, StreamsAreFaithful, PTL
-----------------------------------------------------------------------------
\* A correlation is younger than its finding, a client has heard nothing that
\* does not exist and nothing before it registered, and while a finding is
\* being handled every client has it, or has a full queue -- which stays full
\* until the turn ends, so the finding's correlations do not get in either.
AboutInv ==
    \A c \in DOMAIN about : /\ c \in 1..created
                            /\ about[c].new \in Nat /\ about[c].new < c

HeardInv ==
    /\ heard \in [Subscribers -> SUBSET (1..created)]
    /\ \A s \in Subscribers : phase[s] \in {"absent", "opened"} => heard[s] = {}

Has(s, n) == n \in heard[s] \cup Queued(s)

TurnInv ==
    turn # None =>
        /\ "new" \in DOMAIN turn /\ turn.new.id \in 1..created
        /\ \A s \in Subscribers : Connected(s) =>
              Has(s, turn.new.id) \/ Len(queue[s]) >= QueueCap

OrphanInv ==
    StreamInv /\ AboutInv /\ HeardInv /\ TurnInv /\ NoOrphanCorrelation

LEMMA OrphanInit == GatewayInit => OrphanInv
<1> SUFFICES ASSUME GatewayInit PROVE OrphanInv
  OBVIOUS
<1>1. StreamInv
  BY StreamInit DEF GatewayInit
<1>2. DOMAIN about = {} /\ turn = None
  BY DEF GatewayInit
<1>3. HeardInv
  BY DEF GatewayInit, HeardInv
<1> QED
  BY <1>1, <1>2, <1>3 DEF OrphanInv, AboutInv, TurnInv, NoOrphanCorrelation

\* What publishing a fresh item does to the queue of a connected client.
LEMMA PublishQueues ==
    ASSUME StreamInv, NEW e \in Event, e.id = Fresh, Publish(e),
           NEW s \in Subscribers, Connected(s)'
    PROVE  /\ Connected(s)
           /\ \/ /\ Len(queue[s]) >= QueueCap
                 /\ queue'[s] = queue[s] /\ Queued(s)' = Queued(s)
              \/ /\ Len(queue[s]) < QueueCap
                 /\ Queued(s)' = Queued(s) \cup {Fresh}
           /\ Fresh \notin Queued(s)
<1> USE DEF StreamInv
<1>1. /\ Connected(s) /\ s \in subscribers /\ queue[s] \in Seq(Event)
      /\ created \in Nat /\ published \subseteq 1..created
  BY DEF Publish, Connected, TypeInv, TypeOK
<1>2. Queued(s) \subseteq published
  BY <1>1 DEF StreamFaithful
<1>3. Fresh \notin Queued(s)
  BY <1>1, <1>2 DEF Fresh
<1>4. queue'[s] = Offer(queue[s], e)
  BY <1>1 DEF Publish
<1>5. Len(queue[s]) \in Nat /\ QueueCap \in Nat
  BY <1>1, SizesAssumption
<1>6. CASE Len(queue[s]) < QueueCap
  <2>1. queue'[s] = Append(queue[s], e)
    BY <1>4, <1>6 DEF Offer
  <2> QED
    BY <1>1, <1>3, <1>6, <2>1, AppendIds DEF Queued
<1>7. CASE Len(queue[s]) >= QueueCap
  <2>1. queue'[s] = queue[s]
    BY <1>4, <1>5, <1>7 DEF Offer
  <2> QED
    BY <1>1, <1>3, <1>7, <2>1 DEF Queued
<1> QED
  BY <1>5, <1>6, <1>7

\* Publishing outside a turn, or the finding of a new turn, keeps NoOrphan:
\* the fresh item is no recorded correlation, and no queue loses an item.
LEMMA PublishNoOrphan ==
    ASSUME OrphanInv, NEW e \in Event, e.id = Fresh, Publish(e), created' = Fresh,
           UNCHANGED <<about, heard>>
    PROVE  AboutInv' /\ HeardInv' /\ NoOrphanCorrelation'
<1> USE DEF OrphanInv, StreamInv
<1>1. created \in Nat /\ created' = created + 1 /\ phase' = phase
  BY DEF Fresh, Publish, TypeInv, TypeOK
<1>2. AboutInv'
  BY <1>1 DEF AboutInv
<1>3. HeardInv'
  BY <1>1 DEF HeardInv
<1>4. ASSUME NEW s \in Subscribers, Connected(s)', NEW c \in DOMAIN about
      PROVE  /\ c \in heard[s] => about[c].new \in heard[s]
             /\ c \in Queued(s)' => about[c].new \in heard[s] \cup Queued(s)'
  <2>1. Connected(s) /\ Queued(s) \subseteq Queued(s)'
                     /\ Queued(s)' \subseteq Queued(s) \cup {Fresh}
    BY <1>4, PublishQueues
  <2>2. c # Fresh
    BY <1>1 DEF AboutInv, Fresh
  <2>3. /\ c \in heard[s] => about[c].new \in heard[s]
        /\ c \in Queued(s) => about[c].new \in heard[s] \cup Queued(s)
    BY <2>1 DEF NoOrphanCorrelation
  <2> QED
    BY <2>1, <2>2, <2>3
<1>5. NoOrphanCorrelation'
  BY <1>4 DEF NoOrphanCorrelation
<1> QED
  BY <1>2, <1>3, <1>5

\* A finding opens a turn: each client was offered it.
LEMMA ScanFindingStep ==
    ASSUME OrphanInv, NEW x \in Scans, NEW body \in Contents, ScanFinding(x, body)
    PROVE  AboutInv' /\ HeardInv' /\ TurnInv' /\ NoOrphanCorrelation'
<1> USE DEF OrphanInv, StreamInv
<1> DEFINE e == [kind |-> "finding", id |-> Fresh, plain |-> body.plain]
<1>1. /\ e \in Event /\ e.id = Fresh /\ Publish(e) /\ created' = Fresh
      /\ UNCHANGED <<about, heard>>
  BY ContentsAssumption DEF ScanFinding, Add, Event, Fresh, TypeInv, TypeOK
<1>2. /\ "new" \in DOMAIN turn' /\ turn'.new.id = Fresh
      /\ Fresh \in 1..created'
  BY <1>1 DEF ScanFinding, Fresh, TypeInv, TypeOK
<1> HIDE DEF e
<1>3. ASSUME NEW s \in Subscribers, Connected(s)'
      PROVE  Fresh \in Queued(s)' \/ Len(queue'[s]) >= QueueCap
  BY <1>1, <1>3, PublishQueues
<1>4. TurnInv'
  <2>1. \A s \in Subscribers : Connected(s)' =>
           turn'.new.id \in Queued(s)' \/ Len(queue'[s]) >= QueueCap
    BY <1>2, <1>3
  <2> QED
    BY <1>2, <2>1 DEF TurnInv, Has
<1> QED
  BY <1>1, <1>4, PublishNoOrphan

\* A correlation joins a queue only where its finding did.
LEMMA EmitCorrelationStep ==
    ASSUME OrphanInv, EmitCorrelation
    PROVE  AboutInv' /\ HeardInv' /\ TurnInv' /\ NoOrphanCorrelation'
<1> USE DEF OrphanInv, StreamInv
<1> DEFINE e == [kind |-> "correlation", id |-> Fresh, plain |-> TRUE]
<1>1. /\ e \in Event /\ e.id = Fresh /\ Publish(e) /\ created' = Fresh
      /\ heard' = heard /\ created \in Nat /\ phase' = phase
  BY DEF EmitCorrelation, AddCorrelation, Publish, Event, Fresh, TypeInv, TypeOK
<1>2. /\ turn # None /\ "new" \in DOMAIN turn /\ turn.new.id \in 1..created
      /\ turn' = [turn EXCEPT !.links = Tail(@)]
  BY DEF EmitCorrelation, TurnInv
<1>3. "new" \in DOMAIN turn' /\ turn'.new = turn.new
  BY <1>2
<1>4. /\ DOMAIN about' = DOMAIN about \cup {Fresh}
      /\ about'[Fresh].new = turn.new.id
      /\ \A c \in DOMAIN about : c # Fresh => about'[c] = about[c]
  BY <1>2 DEF EmitCorrelation
<1> HIDE DEF e
<1>5. \A c \in DOMAIN about : c # Fresh /\ c \in 1..created /\ about[c].new \in Nat
                               /\ about[c].new < c
  BY <1>1 DEF AboutInv, Fresh
<1>6. AboutInv'
  <2>1. ASSUME NEW c \in DOMAIN about'
        PROVE  c \in 1..created' /\ about'[c].new \in Nat /\ about'[c].new < c
    <3>1. CASE c = Fresh
      BY <1>1, <1>2, <1>4, <3>1 DEF Fresh
    <3>2. CASE c # Fresh
      BY <1>1, <1>4, <1>5, <3>2 DEF Fresh
    <3> QED
      BY <3>1, <3>2
  <2> QED
    BY <2>1 DEF AboutInv
<1>7. HeardInv'
  BY <1>1 DEF HeardInv, Fresh
<1>8. ASSUME NEW s \in Subscribers, Connected(s)'
      PROVE  /\ Connected(s)
             /\ \/ /\ Len(queue[s]) >= QueueCap
                   /\ queue'[s] = queue[s] /\ Queued(s)' = Queued(s)
                \/ /\ Len(queue[s]) < QueueCap
                   /\ Queued(s)' = Queued(s) \cup {Fresh}
             /\ Fresh \notin Queued(s) /\ Fresh \notin heard[s]
             /\ Len(queue[s]) < QueueCap => turn.new.id \in heard[s] \cup Queued(s)
  <2>1. Fresh \notin heard[s]
    BY <1>1 DEF HeardInv, Fresh
  <2>2. /\ Connected(s)
        /\ \/ /\ Len(queue[s]) >= QueueCap
              /\ queue'[s] = queue[s] /\ Queued(s)' = Queued(s)
           \/ /\ Len(queue[s]) < QueueCap
              /\ Queued(s)' = Queued(s) \cup {Fresh}
        /\ Fresh \notin Queued(s)
    BY <1>1, <1>8, PublishQueues
  <2>3. turn.new.id \in heard[s] \cup Queued(s) \/ Len(queue[s]) >= QueueCap
    BY <1>2, <2>2 DEF TurnInv, Has
  <2>4. Len(queue[s]) \in Nat /\ QueueCap \in Nat
    BY SizesAssumption, LenProperties DEF TypeInv, TypeOK
  <2>5. Len(queue[s]) < QueueCap => ~(Len(queue[s]) >= QueueCap)
    BY <2>4
  <2> QED
    BY <2>1, <2>2, <2>3, <2>5
<1>9. TurnInv'
  <2>1. ASSUME NEW s \in Subscribers, Connected(s)'
        PROVE  turn'.new.id \in heard'[s] \cup Queued(s)' \/ Len(queue'[s]) >= QueueCap
    BY <1>1, <1>3, <1>8, <2>1
  <2>2. turn'.new.id \in 1..created'
    BY <1>1, <1>2, <1>3 DEF Fresh
  <2> QED
    BY <1>3, <2>1, <2>2 DEF TurnInv, Has
<1>10. ASSUME NEW s \in Subscribers, Connected(s)', NEW c \in DOMAIN about'
       PROVE  /\ c \in heard'[s] => about'[c].new \in heard'[s]
              /\ c \in Queued(s)' => about'[c].new \in heard'[s] \cup Queued(s)'
  <2>1. CASE c = Fresh
    BY <1>1, <1>4, <1>8, <1>10, <2>1
  <2>2. CASE c # Fresh
    <3>1. c \in DOMAIN about /\ about'[c] = about[c]
      BY <1>4, <2>2
    <3>2. /\ c \in heard[s] => about[c].new \in heard[s]
          /\ c \in Queued(s) => about[c].new \in heard[s] \cup Queued(s)
      BY <1>8, <1>10, <3>1 DEF NoOrphanCorrelation
    <3> QED
      BY <1>1, <1>8, <1>10, <2>2, <3>1, <3>2
  <2> QED
    BY <2>1, <2>2
<1>11. NoOrphanCorrelation'
  BY <1>10 DEF NoOrphanCorrelation
<1> QED
  BY <1>6, <1>7, <1>9, <1>11

\* A connection hears the least of its queue, so a finding before its
\* correlations.
LEMMA ConnectionStep ==
    ASSUME OrphanInv, turn = None, UNCHANGED gatewayVars,
           NEW s \in Subscribers, Connection(s), Hear(s)
    PROVE  AboutInv' /\ HeardInv' /\ TurnInv' /\ NoOrphanCorrelation'
<1> USE DEF OrphanInv, StreamInv
<1>1. /\ created' = created /\ about' = about /\ turn' = None
      /\ queue \in [Subscribers -> Seq(Event)] /\ cursor \in [Subscribers -> Nat]
      /\ phase \in [Subscribers -> Phase] /\ created \in Nat
      /\ published \subseteq 1..created
      /\ heard \in [Subscribers -> SUBSET (1..created)]
  BY DEF Connection, Open, Register, Deliver, DeliverFails, Sent, Cancel,
         Abandon, Reap, Unsubscribe, TypeInv, TypeOK, gatewayVars, HeardInv
<1>2. AboutInv' /\ TurnInv'
  BY <1>1 DEF AboutInv, TurnInv
<1>3. \A t \in Subscribers \ {s} :
         queue'[t] = queue[t] /\ phase'[t] = phase[t] /\ heard'[t] = heard[t]
  BY <1>1 DEF Connection, Open, Register, Deliver, DeliverFails, Sent, Cancel,
              Abandon, Reap, Unsubscribe, Hear
\* After the step: what NoOrphan and HeardInv say of client s.
<1> DEFINE Safe ==
       \A c \in DOMAIN about :
          /\ c \in heard'[s] => about[c].new \in heard'[s]
          /\ c \in Ids(queue'[s]) => about[c].new \in heard'[s] \cup Ids(queue'[s])
           Goal == /\ heard'[s] \subseteq 1..created
                   /\ phase'[s] \in {"absent", "opened"} => heard'[s] = {}
                   /\ phase'[s] \in {"waiting", "sending"} => Safe
<1>4. ASSUME Deliver(s) PROVE Goal
  <2>1. /\ Connected(s) /\ queue[s] \in Seq(Event) /\ queue[s] # <<>>
        /\ queue'[s] = Tail(queue[s]) /\ cursor'[s] = Head(queue[s]).id
        /\ phase'[s] = "sending"
    BY <1>1, <1>4 DEF Deliver, Ready, Connected
  <2>2. /\ InOrder(queue[s])
        /\ Ids(queue[s]) = {n \in published : n > cursor[s]} \ missed[s]
        /\ \A c \in DOMAIN about :
              /\ c \in heard[s] => about[c].new \in heard[s]
              /\ c \in Ids(queue[s]) => about[c].new \in heard[s] \cup Ids(queue[s])
    BY <2>1 DEF StreamFaithful, NoOrphanCorrelation, Queued
  <2>3. PICK h : /\ h = Head(queue[s]).id
                 /\ h \in Ids(queue[s])
                 /\ Ids(queue[s]) = Ids(queue'[s]) \cup {h}
                 /\ \A n \in Ids(queue'[s]) : h < n
    BY <2>1, <2>2, TailIds
  <2>4. /\ Ids(queue[s]) \subseteq 1..created
        /\ h \in 1..created /\ h > cursor[s]
    BY <1>1, <2>2, <2>3
  <2>5. cursor'[s] # cursor[s]
    BY <1>1, <2>1, <2>3, <2>4
  <2>6. heard'[s] = heard[s] \cup {h}
    BY <1>1, <2>1, <2>3, <2>5 DEF Hear
  <2>7. ASSUME NEW c \in DOMAIN about
        PROVE  /\ c \in heard'[s] => about[c].new \in heard'[s]
               /\ c \in Ids(queue'[s])
                     => about[c].new \in heard'[s] \cup Ids(queue'[s])
    <3>1. about[c].new \in Nat /\ about[c].new < c /\ c \in Nat
      BY <1>1 DEF AboutInv
    <3>2. CASE c = h
      <4>1. about[c].new \in heard[s] \cup Ids(queue[s])
        BY <2>2, <2>3, <3>2
      <4>2. about[c].new \notin Ids(queue'[s]) /\ c \notin Ids(queue'[s])
        BY <2>3, <3>1, <3>2
      <4> QED
        BY <2>3, <2>6, <3>1, <3>2, <4>1, <4>2
    <3>3. CASE c # h
      BY <2>2, <2>3, <2>6, <3>3
    <3> QED
      BY <3>2, <3>3
  <2>8. heard'[s] \subseteq 1..created
    BY <1>1, <2>4, <2>6
  <2> QED
    BY <2>1, <2>7, <2>8
<1>5. ASSUME Register(s) PROVE Goal
  <2>1. /\ phase'[s] = "waiting" /\ queue'[s] = <<>>
        /\ cursor'[s] = created /\ heard[s] = {} /\ heard'[s] = heard[s]
    BY <1>1, <1>5 DEF Register, Hear, HeardInv
  <2>2. Ids(queue'[s]) = {}
    BY <2>1 DEF Ids
  <2> QED
    BY <1>1, <2>1, <2>2
<1>6. ASSUME Sent(s) PROVE Goal
  <2>1. /\ Connected(s) /\ phase'[s] = "waiting" /\ queue'[s] = queue[s]
        /\ heard'[s] = heard[s]
    BY <1>1, <1>6 DEF Sent, Hear, Connected
  <2> QED
    BY <1>1, <2>1 DEF NoOrphanCorrelation, Queued
<1>7. ASSUME Open(s) \/ DeliverFails(s) \/ Cancel(s) \/ Abandon(s) \/ Reap(s)
      PROVE  Goal
  <2>1. /\ phase'[s] \in {"opened", "abandoned", "gone"}
        /\ phase'[s] = "opened" => phase[s] = "absent"
        /\ heard'[s] = heard[s]
    BY <1>1, <1>7 DEF Open, DeliverFails, Cancel, Abandon, Reap, Unsubscribe, Hear
  <2> QED
    BY <1>1, <2>1 DEF HeardInv
<1>8. Goal
  BY <1>4, <1>5, <1>6, <1>7 DEF Connection
<1>9. HeardInv'
  <2>1. heard' \in [Subscribers -> SUBSET (1..created)]
    BY <1>1, <1>8 DEF Hear
  <2> QED
    BY <1>1, <1>3, <1>8, <2>1 DEF HeardInv
<1>10. NoOrphanCorrelation'
  <2>1. ASSUME NEW t \in Subscribers, phase'[t] \in {"waiting", "sending"},
               NEW c \in DOMAIN about
        PROVE  /\ c \in heard'[t] => about[c].new \in heard'[t]
               /\ c \in Ids(queue'[t])
                     => about[c].new \in heard'[t] \cup Ids(queue'[t])
    <3>1. CASE t = s
      BY <1>8, <2>1, <3>1
    <3>2. CASE t # s
      <4>1. /\ Connected(t) /\ queue'[t] = queue[t] /\ heard'[t] = heard[t]
        BY <1>3, <2>1, <3>2 DEF Connected
      <4> QED
        BY <4>1 DEF NoOrphanCorrelation, Queued
    <3> QED
      BY <3>1, <3>2
  <2> QED
    BY <1>1, <2>1 DEF NoOrphanCorrelation, Connected, Queued
<1> QED
  BY <1>2, <1>9, <1>10
-----------------------------------------------------------------------------
\* Each action preserves the invariant.
LEMMA OrphanStep == OrphanInv /\ [GatewayNext]_allVars => OrphanInv'
<1> SUFFICES ASSUME OrphanInv, [GatewayNext]_allVars PROVE OrphanInv'
  OBVIOUS
<1> USE DEF OrphanInv
<1>1. StreamInv'
  BY GatewayStepIsRegistryStep, StreamStep
<1>2. ASSUME NEW x \in Scans, NEW body \in Contents, ScanFinding(x, body)
      PROVE  AboutInv' /\ HeardInv' /\ TurnInv' /\ NoOrphanCorrelation'
  BY <1>2, ScanFindingStep
<1>3. ASSUME EmitCorrelation
      PROVE  AboutInv' /\ HeardInv' /\ TurnInv' /\ NoOrphanCorrelation'
  BY <1>3, EmitCorrelationStep
\* Nothing moves that the invariant reads, except that a turn may end.
<1>4. ASSUME UNCHANGED <<created, phase, queue, about, heard>>,
             \/ turn' = None \/ turn' = turn
             \/ /\ turn # None
                /\ "new" \in DOMAIN turn' /\ turn'.new = turn.new
      PROVE  AboutInv' /\ HeardInv' /\ TurnInv' /\ NoOrphanCorrelation'
  <2>1. AboutInv' /\ HeardInv' /\ NoOrphanCorrelation'
    BY <1>4 DEF AboutInv, HeardInv, NoOrphanCorrelation, Connected, Queued
  <2>2. TurnInv'
    BY <1>4 DEF TurnInv, Has, Connected, Queued
  <2> QED
    BY <2>1, <2>2
<1>5. CASE \/ \E x \in Scans, source \in Sources : StartScan(x, source)
           \/ RuleBreaks \/ EndTurn
           \/ \E x \in Scans : AdapterRaises(x) \/ FinishScan(x)
           \/ UNCHANGED allVars
  <2>1. UNCHANGED <<created, phase, queue, about, heard>>
    BY <1>5 DEF StartScan, RuleBreaks, EndTurn, AdapterRaises, FinishScan,
                allVars, vars, gatewayVars
  <2>2. turn' = None \/ turn' = turn
    BY <1>5 DEF StartScan, RuleBreaks, EndTurn, AdapterRaises, FinishScan,
                allVars, gatewayVars
  <2> QED
    BY <1>1, <1>4, <2>1, <2>2
<1>6. CASE RunRule
  <2>1. UNCHANGED <<created, phase, queue, about, heard>>
    BY <1>6 DEF RunRule, vars
  <2>2. turn # None /\ "new" \in DOMAIN turn
    BY <1>6 DEF RunRule, TurnInv
  <2>3. PICK rest, rule, links :
           turn' = [turn EXCEPT !.rules = rest, !.rule = rule, !.links = links]
    BY <1>6, Zenon DEF RunRule
  <2>4. "new" \in DOMAIN turn' /\ turn'.new = turn.new
    BY <2>2, <2>3
  <2> QED
    BY <1>1, <1>4, <2>1, <2>2, <2>4
<1>7. CASE RegistryStep /\ UNCHANGED gatewayVars
  <2>1. turn' = turn /\ about' = about
    BY <1>7 DEF gatewayVars
  <2>2. ASSUME NEW s \in Subscribers, LoopFree, Connection(s), Hear(s)
        PROVE  AboutInv' /\ HeardInv' /\ TurnInv' /\ NoOrphanCorrelation'
    BY <1>7, <2>2, ConnectionStep DEF LoopFree
  <2>3. ASSUME NEW e \in Event, e.id = Fresh, Publish(e), created' = Fresh,
               LoopFree, UNCHANGED heard
        PROVE  AboutInv' /\ HeardInv' /\ TurnInv' /\ NoOrphanCorrelation'
    BY <2>1, <2>3, PublishNoOrphan DEF LoopFree, TurnInv
  <2>4. ASSUME NEW body \in Contents, Add(body), LoopFree, UNCHANGED heard
        PROVE  AboutInv' /\ HeardInv' /\ TurnInv' /\ NoOrphanCorrelation'
    <3> DEFINE e == [kind |-> "finding", id |-> Fresh, plain |-> body.plain]
    <3>1. e \in Event /\ e.id = Fresh /\ Publish(e) /\ created' = Fresh
      BY <2>4, ContentsAssumption DEF Add, Event, Fresh, StreamInv, TypeInv, TypeOK
    <3> QED
      BY <2>3, <2>4, <3>1
  <2>5. ASSUME AddCorrelation, LoopFree, UNCHANGED heard
        PROVE  AboutInv' /\ HeardInv' /\ TurnInv' /\ NoOrphanCorrelation'
    <3> DEFINE e == [kind |-> "correlation", id |-> Fresh, plain |-> TRUE]
    <3>1. e \in Event /\ e.id = Fresh /\ Publish(e) /\ created' = Fresh
      BY <2>5 DEF AddCorrelation, Event, Fresh, StreamInv, TypeInv, TypeOK
    <3> QED
      BY <2>3, <2>5, <3>1
  <2>6. ASSUME NEW body \in Contents, AddSync(body), UNCHANGED heard
        PROVE  AboutInv' /\ HeardInv' /\ TurnInv' /\ NoOrphanCorrelation'
    <3>1. created \in Nat /\ created' = created + 1
      BY <2>6 DEF AddSync, Fresh, StreamInv, TypeInv, TypeOK
    <3>2. UNCHANGED <<phase, queue, about, heard, turn>>
      BY <2>1, <2>6 DEF AddSync, streams
    <3>3. AboutInv'
      BY <3>1, <3>2 DEF AboutInv
    <3>4. HeardInv'
      BY <3>1, <3>2 DEF HeardInv
    <3>5. TurnInv'
      BY <3>1, <3>2 DEF TurnInv, Has, Connected, Queued
    <3>6. NoOrphanCorrelation'
      BY <3>2 DEF NoOrphanCorrelation, Connected, Queued
    <3> QED
      BY <3>3, <3>4, <3>5, <3>6
  <2>7. ASSUME (\E req \in Requests : QueryStart(req)) \/ QueryEnd \/ QueryRaise
                  \/ QueryStep,
               UNCHANGED heard
        PROVE  AboutInv' /\ HeardInv' /\ TurnInv' /\ NoOrphanCorrelation'
    <3>1. UNCHANGED <<created, phase, queue>>
      BY <2>7 DEF QueryStart, QueryEnd, QueryRaise, QueryStep, streams
    <3> QED
      BY <1>4, <2>1, <2>7, <3>1
  <2> QED
    BY <1>1, <1>7, <2>2, <2>4, <2>5, <2>6, <2>7 DEF RegistryStep, Handler
<1> QED
  BY <1>1, <1>2, <1>3, <1>5, <1>6, <1>7 DEF GatewayNext

\* Scans add findings and their correlations while clients come, read, lag
\* behind and go: none of them ever holds a correlation whose finding it was
\* neither handed nor is about to be handed (the handler of gateway.py adds a
\* finding before what its rules emit, without an await in between).
THEOREM NoClientSeesOrphans == GatewaySpec => []NoOrphanCorrelation
<1>1. OrphanInv => NoOrphanCorrelation
  BY DEF OrphanInv
<1> QED
  BY OrphanInit, OrphanStep, <1>1, PTL DEF GatewaySpec
-----------------------------------------------------------------------------
(***************************************************************************)
(* What FlattenSeq returns.                                                *)
(***************************************************************************)
\* Induction over the naturals, as a fact about a set (the library's takes the
\* property as an operator): what contains zero and successors contains them all.
LEMMA NatMin ==
    ASSUME NEW T \in SUBSET Nat, T # {}
    PROVE  \E n \in T : \A m \in T : n <= m
<1> DEFINE R == OpToRel(<, Nat)
<1>1. IsWellFoundedOn(R, Nat)
  BY NatLessThanWellFounded
<1>2. \A x, y \in Nat : <<y, x>> \in R <=> y < x
  BY DEF OpToRel
<1> HIDE DEF R
<1>3. PICK x \in T : \A y \in T : ~ (<<y, x>> \in R)
  BY <1>1, WFMin
<1>4. \A y \in T : y \in Nat /\ x \in Nat /\ ~(y < x)
  BY <1>2, <1>3
<1> QED
  BY <1>3, <1>4

\* Induction, as a fact about sets of naturals.
LEMMA SetInduction ==
    ASSUME NEW S \in SUBSET Nat, 0 \in S, \A n \in S : n + 1 \in S
    PROVE  S = Nat
<1> SUFFICES ASSUME Nat \ S # {} PROVE FALSE
  OBVIOUS
<1>1. PICK n \in Nat \ S : \A m \in Nat \ S : n <= m
  <2>1. Nat \ S \in SUBSET Nat
    OBVIOUS
  <2> QED
    BY <2>1, NatMin
<1>2. n # 0 /\ n - 1 \in Nat /\ n - 1 \in S
  BY <1>1
<1> QED
  BY <1>1, <1>2

\* f[i] is what FlattenSeq makes of the first i of n sequences.
Flattens(f, seqs, n) ==
    f = [i \in 1..n |-> IF i = 1 THEN seqs[i] ELSE f[i - 1] \o seqs[i]]

\* Each of its values comes from the one before.
LEMMA FlattensAt ==
    ASSUME NEW seqs, NEW n \in Nat, NEW f, Flattens(f, seqs, n), NEW i \in 1..n
    PROVE  f[i] = IF i = 1 THEN seqs[i] ELSE f[i - 1] \o seqs[i]
<1> DEFINE e(j) == IF j = 1 THEN seqs[j] ELSE f[j - 1] \o seqs[j]
<1>1. f = [j \in 1..n |-> e(j)]
  BY DEF Flattens
<1> HIDE DEF e
<1>2. f[i] = e(i)
  BY <1>1, Zenon
<1> QED
  BY <1>2 DEF e

\* There is such a function, and what FlattenSeq chooses is one.
LEMMA FlattensExists ==
    ASSUME NEW seqs, NEW n \in Nat PROVE \E f : Flattens(f, seqs, n)
<1> DEFINE S == {m \in Nat : \E f : Flattens(f, seqs, m)}
<1>1. 0 \in S
  <2>1. Flattens([i \in {} |-> {}], seqs, 0)
    BY DEF Flattens
  <2> QED
    BY <2>1
<1>2. ASSUME NEW m \in S PROVE m + 1 \in S
  <2>1. PICK f : Flattens(f, seqs, m)
    BY <1>2
  <2>0. \A i \in 1..m : f[i] = IF i = 1 THEN seqs[i] ELSE f[i - 1] \o seqs[i]
    BY <2>1, FlattensAt
  <2> DEFINE g == [i \in 1..(m + 1) |->
                      IF i <= m THEN f[i]
                      ELSE IF i = 1 THEN seqs[i] ELSE f[m] \o seqs[i]]
  <2>2. \A i \in 1..(m + 1) : g[i] = IF i = 1 THEN seqs[i] ELSE g[i - 1] \o seqs[i]
    BY <2>0
  <2>3. Flattens(g, seqs, m + 1)
    BY <2>2 DEF Flattens
  <2> QED
    BY <2>3
<1> QED
  BY <1>1, <1>2, SetInduction

\* It reads only the sequences up to its index.
LEMMA FlattensUnique ==
    ASSUME NEW seqs, NEW more, NEW n \in Nat, NEW f, NEW g,
           \A i \in 1..n : seqs[i] = more[i],
           Flattens(f, seqs, n), Flattens(g, more, n + 1)
    PROVE  \A i \in 1..n : f[i] = g[i]
<1> DEFINE S == {m \in Nat : m \in 1..n => f[m] = g[m]}
<1>1. 0 \in S
  OBVIOUS
<1>2. ASSUME NEW m \in S PROVE m + 1 \in S
  <2> SUFFICES ASSUME m + 1 \in 1..n PROVE f[m + 1] = g[m + 1]
    OBVIOUS
  <2>1. f[m + 1] = IF m + 1 = 1 THEN seqs[m + 1] ELSE f[m] \o seqs[m + 1]
    BY FlattensAt
  <2>2. g[m + 1] = IF m + 1 = 1 THEN more[m + 1] ELSE g[m] \o more[m + 1]
    BY FlattensAt
  <2> QED
    BY <2>1, <2>2
<1>3. S = Nat
  <2> HIDE DEF S
  <2>1. S \in SUBSET Nat
    BY DEF S
  <2> QED
    BY <1>1, <1>2, <2>1, SetInduction
<1> QED
  BY <1>3

\* The flattened sequence is the last of these values.
LEMMA FlattenIs ==
    ASSUME NEW seqs, NEW n \in Nat, n = Len(seqs), n > 0
    PROVE  \E f : Flattens(f, seqs, n) /\ FlattenSeq(seqs) = f[n]
<1> DEFINE h == CHOOSE f : Flattens(f, seqs, n)
<1>1. Flattens(h, seqs, n)
  BY FlattensExists
<1>2. FlattenSeq(seqs) = h[n]
  BY DEF FlattenSeq, Flattens
<1> QED
  BY <1>1, <1>2

\* Nothing flattens to nothing, one sequence to itself, and one more sequence
\* to what the others flatten to, followed by it.
LEMMA FlattenEmpty == FlattenSeq(<<>>) = <<>>
  BY DEF FlattenSeq

HasLength(seqs, n) == Len(seqs) = n

\* One sequence more adds its elements at the end.
LEMMA FlattenLast ==
    ASSUME NEW seqs, NEW more, NEW n \in Nat, n > 0,
           HasLength(seqs, n), HasLength(more, n + 1), \A i \in 1..n : seqs[i] = more[i]
    PROVE  FlattenSeq(more) = FlattenSeq(seqs) \o more[n + 1]
<1>1. PICK f : Flattens(f, seqs, n) /\ FlattenSeq(seqs) = f[n]
  BY FlattenIs DEF HasLength
<1>2. PICK g : Flattens(g, more, n + 1) /\ FlattenSeq(more) = g[n + 1]
  BY FlattenIs DEF HasLength
<1>3. \A i \in 1..n : f[i] = g[i]
  BY <1>1, <1>2, FlattensUnique
<1>4. g[n + 1] = IF n + 1 = 1 THEN more[n + 1] ELSE g[n] \o more[n + 1]
  BY <1>2, FlattensAt
<1>5. g[n + 1] = f[n] \o more[n + 1]
  <2>1. n \in 1..n /\ n + 1 # 1
    OBVIOUS
  <2> QED
    BY <1>3, <1>4, <2>1
<1> QED
  BY <1>1, <1>2, <1>5

\* One sequence is flattened to itself.
LEMMA FlattenOne ==
    ASSUME NEW seqs, HasLength(seqs, 1) PROVE FlattenSeq(seqs) = seqs[1]
<1>1. PICK f : Flattens(f, seqs, 1) /\ FlattenSeq(seqs) = f[1]
  BY FlattenIs DEF HasLength
<1>2. f[1] = IF 1 = 1 THEN seqs[1] ELSE f[1 - 1] \o seqs[1]
  BY <1>1, FlattensAt
<1> QED
  BY <1>1, <1>2

\* The same for Append, with types.
LEMMA FlattenAppend ==
    ASSUME NEW T, NEW seqs \in Seq(Seq(T)), NEW s \in Seq(T)
    PROVE  FlattenSeq(Append(seqs, s)) = FlattenSeq(seqs) \o s
<1> DEFINE more == Append(seqs, s)
<1> PICK n \in Nat : n = Len(seqs)
  BY LenProperties
<1>1. /\ Len(more) = n + 1 /\ more[n + 1] = s /\ \A i \in 1..n : more[i] = seqs[i]
  OBVIOUS
<1> HIDE DEF more
<1>2. CASE n = 0
  <2>1. seqs = <<>>
    BY <1>2, EmptySeq
  <2>2. FlattenSeq(more) = s
    BY <1>1, <1>2, FlattenOne DEF HasLength
  <2> QED
    BY <2>1, <2>2, FlattenEmpty, ConcatEmptySeq DEF more
<1>3. CASE n > 0
  BY <1>1, <1>3, FlattenLast DEF more, HasLength
<1> QED
  BY <1>2, <1>3

\* The elements keep their type.
LEMMA FlattenType ==
    ASSUME NEW T, NEW seqs \in Seq(Seq(T))
    PROVE  FlattenSeq(seqs) \in Seq(T)
<1> PICK n \in Nat : n = Len(seqs)
  BY LenProperties
<1>1. CASE n = 0
  <2>1. seqs = <<>>
    BY <1>1, EmptySeq
  <2> QED
    BY <2>1, FlattenEmpty, EmptySeq
<1>2. CASE n > 0
  <2>1. PICK f : Flattens(f, seqs, n) /\ FlattenSeq(seqs) = f[n]
    BY <1>2, FlattenIs
  <2>5. ASSUME NEW i \in 1..n
        PROVE  f[i] = IF i = 1 THEN seqs[i] ELSE f[i - 1] \o seqs[i]
    BY <2>1, FlattensAt
  <2>6. \A i \in 1..n : seqs[i] \in Seq(T)
    BY ElementOfSeq
  <2> DEFINE S == {m \in Nat : m \in 1..n => f[m] \in Seq(T)}
  <2>2. 0 \in S
    OBVIOUS
  <2>3. ASSUME NEW m \in S PROVE m + 1 \in S
    <3> SUFFICES ASSUME m + 1 \in 1..n PROVE f[m + 1] \in Seq(T)
      OBVIOUS
    <3>1. f[m + 1] = IF m + 1 = 1 THEN seqs[m + 1] ELSE f[m] \o seqs[m + 1]
      BY <2>5
    <3>2. seqs[m + 1] \in Seq(T)
      BY <2>6
    <3>3. m + 1 # 1 => f[m] \in Seq(T)
      OBVIOUS
    <3> QED
      BY <3>1, <3>2, <3>3, ConcatProperties
  <2>4. S = Nat
    <3> HIDE DEF S
    <3>1. S \in SUBSET Nat
      BY DEF S
    <3> QED
      BY <2>2, <2>3, <3>1, SetInduction
  <2>7. n \in S /\ n \in 1..n
    BY <1>2, <2>4
  <2> QED
    BY <2>1, <2>7
<1> QED
  BY <1>1, <1>2
-----------------------------------------------------------------------------
(***************************************************************************)
(* Types.                                                                  *)
(***************************************************************************)
ScanPhase == {"absent", "rejected", "running", "done", "adapter_failed", "rule_failed"}

ScanRecord ==
    [phase : ScanPhase, existing : Seq(Known), collected : Seq(Known),
     emitted : Seq(Nat)]

\* Types, of which a rule's output is one because it was called with findings
\* of the registry only; a correlation that was recorded was published.
ScansTyped ==
    /\ scan \in [Scans -> ScanRecord]
    /\ \A x \in Scans : /\ Len(scan[x].existing) <= MaxSize
                        /\ scan[x].emitted \in Seq(DOMAIN about)
    /\ turn # None => turn \in TurnRecord /\ scan[turn.scan].phase = "running"
    /\ DOMAIN about \subseteq published
    /\ \A n \in DOMAIN about : about[n].links \in SUBSET Nat

GatewayTypeInv ==
    /\ StreamInv
    /\ created <= MaxItems /\ findings \in Seq(Known)
    /\ ScansTyped
    /\ \A s \in Subscribers : heard[s] \subseteq published

\* What a rule can be called with is an item of the registry.
LEMMA KnownItems == Known \subseteq Item
  BY SizesAssumption DEF Known, Item

\* What one rule emits over a snapshot of the registry.
Output(rule, new, existing) ==
    IF rule \in Raising THEN <<>> ELSE Correlate(rule, new, existing)

\* It is a sequence of sets of ids: the rule is called with known findings only.
LEMMA OutputType ==
    ASSUME NEW rule \in ToSet(Rules), NEW new \in Known, NEW existing \in Seq(Known),
           Len(existing) <= MaxSize
    PROVE  Output(rule, new, existing) \in Seq(SUBSET Nat)
<1>1. existing \in BoundedSeq(Known, MaxSize)
  <2>1. Len(existing) \in 0..MaxSize
    BY SizesAssumption, LenProperties
  <2>2. existing \in [1..Len(existing) -> Known]
    BY LenProperties
  <2> QED
    BY <2>1, <2>2 DEF BoundedSeq, SeqOf
<1>2. Correlate(rule, new, existing) \in Seq(SUBSET Nat)
  BY <1>1, CorrelateAssumption
<1> QED
  BY <1>2 DEF Output

\* The rules are numbered from 1.
LEMMA RulesAreSeq ==
    /\ Len(Rules) \in Nat /\ DOMAIN Rules = 1..Len(Rules) /\ Rules \in Seq(ToSet(Rules))
    /\ \A i \in 1..Len(Rules) : Rules[i] \in ToSet(Rules)
<1>1. /\ Len(Rules) \in Nat /\ DOMAIN Rules = 1..Len(Rules)
      /\ Rules \in [1..Len(Rules) -> STRING]
  BY RulesAssumption, LenProperties
<1>2. \A i \in 1..Len(Rules) : Rules[i] \in ToSet(Rules)
  BY <1>1 DEF ToSet
<1>3. Rules \in Seq(ToSet(Rules))
  BY <1>2, RulesAssumption
<1> QED
  BY <1>1, <1>2, <1>3

\* The types hold initially.
LEMMA GatewayTypeInit == GatewayInit => GatewayTypeInv
<1> SUFFICES ASSUME GatewayInit PROVE GatewayTypeInv
  OBVIOUS
<1>1. StreamInv
  BY StreamInit DEF GatewayInit
<1>2. /\ scan = [x \in Scans |-> Request("absent", <<>>)] /\ turn = None /\ about = <<>>
      /\ heard = [s \in Subscribers |-> {}]
      /\ findings = <<>> /\ created = 0
  BY DEF GatewayInit, Init
<1>3. DOMAIN about = {} /\ <<>> \in Seq(DOMAIN about) /\ <<>> \in Seq(Known)
      /\ Len(<<>>) = 0 /\ <<>> \in Seq(Nat)
  BY <1>2
<1>4. Request("absent", <<>>) \in ScanRecord
  BY <1>3 DEF Request, ScanRecord, ScanPhase
<1>5. scan \in [Scans -> ScanRecord]
  BY <1>2, <1>4
<1>6. \A x \in Scans : scan[x].existing = <<>> /\ scan[x].emitted = <<>>
  BY <1>2 DEF Request
<1>7. ScansTyped
  <2>1. ASSUME NEW x \in Scans
        PROVE  Len(scan[x].existing) <= MaxSize /\ scan[x].emitted \in Seq(DOMAIN about)
    <3>1. 0 <= MaxSize
      BY SizesAssumption
    <3>2. scan[x].existing = <<>> /\ scan[x].emitted = <<>>
      BY <1>6
    <3> QED
      BY <1>3, <3>1, <3>2
  <2> QED
    BY <1>2, <1>3, <1>5, <2>1 DEF ScansTyped
<1>8. created <= MaxItems /\ findings \in Seq(Known)
  BY <1>2, <1>3, SizesAssumption
<1> QED
  BY <1>1, <1>2, <1>7, <1>8 DEF GatewayTypeInv

\* What the steps of the registry do to what the scans read of it.
LEMMA StoreGrows ==
    ASSUME GatewayTypeInv, [Next]_vars
    PROVE  /\ created' <= MaxItems /\ findings' \in Seq(Known)
           /\ published \subseteq published'
<1>1. /\ created \in Nat /\ created <= MaxItems /\ findings \in Seq(Known)
      /\ MaxItems \in Nat /\ Len(findings) <= MaxSize
  BY SizesAssumption DEF GatewayTypeInv, StreamInv, TypeInv, TypeOK
<1>2. ASSUME NEW body \in Contents, Add(body) \/ AddSync(body)
      PROVE  created' <= MaxItems /\ findings' \in Seq(Known)
  <2>1. CanCreate /\ created' = Fresh
        /\ findings' = Retain(findings, [id |-> Fresh, body |-> body])
    BY <1>2 DEF Add, AddSync
  <2>2. Fresh \in 1..MaxItems /\ [id |-> Fresh, body |-> body] \in Known
    BY <1>1, <2>1 DEF CanCreate, Fresh, Known
  <2>3. findings' \in Seq(Known)
    BY <1>1, <2>1, <2>2, RetainType
  <2> QED
    BY <1>1, <2>1, <2>2, <2>3
<1>3. CASE AddCorrelation
  BY <1>1, <1>3 DEF AddCorrelation, Fresh, CanCreate, Publish
<1>4. CASE \/ \E req \in Requests : QueryStart(req)
           \/ QueryEnd \/ QueryRaise \/ QueryStep
           \/ \E s \in Subscribers : Connection(s)
           \/ UNCHANGED vars
  <2>1. UNCHANGED <<created, findings, published>>
    BY <1>4 DEF QueryStart, QueryEnd, QueryRaise, QueryStep, Connection, Open, Register,
       Deliver, DeliverFails, Sent, Cancel, Abandon, Reap, Unsubscribe, store, vars
  <2> QED
    BY <1>1, <2>1
<1>5. ASSUME NEW body \in Contents, Add(body) \/ AddSync(body)
      PROVE  published \subseteq published'
  BY <1>5 DEF Add, AddSync, Publish
<1> QED
  BY <1>2, <1>3, <1>4, <1>5 DEF Next, Handler

\* A step of one request, that leaves the turn and the correlations alone.
LEMMA RequestKeeps ==
    ASSUME ScansTyped, NEW x \in Scans, NEW r \in ScanRecord,
           scan' = [scan EXCEPT ![x] = r], UNCHANGED about, published \subseteq published',
           turn' = None, Len(r.existing) <= MaxSize, r.emitted \in Seq(DOMAIN about)
    PROVE  ScansTyped'
<1>1. scan' \in [Scans -> ScanRecord]
  BY DEF ScansTyped
<1>2. \A y \in Scans : scan'[y] = IF y = x THEN r ELSE scan[y]
  BY DEF ScansTyped
<1> QED
  BY <1>1, <1>2 DEF ScansTyped

\* The finding that opens a turn is a known one.
LEMMA ScanFindingTyped ==
    ASSUME GatewayTypeInv, NEW x \in Scans, NEW body \in Contents, ScanFinding(x, body),
           published \subseteq published'
    PROVE  ScansTyped' /\ turn' # None
<1> DEFINE new == [id |-> Fresh, body |-> body]
           r   == [scan[x] EXCEPT !.collected = Append(@, new)]
<1>1. /\ scan \in [Scans -> ScanRecord] /\ scan[x] \in ScanRecord
      /\ created \in Nat /\ MaxItems \in Nat
  BY SizesAssumption DEF GatewayTypeInv, ScansTyped, StreamInv, TypeInv, TypeOK
<1>2. new \in Known
  BY <1>1 DEF ScanFinding, Add, CanCreate, Fresh, Known
<1>3. /\ scan' = [scan EXCEPT ![x] = r]
      /\ turn' = [scan |-> x, new |-> new, rules |-> Rules, rule |-> None, links |-> <<>>]
      /\ about' = about /\ scan[x].phase = "running"
  BY <1>1 DEF ScanFinding, ScanRecord
<1> HIDE DEF new
<1>4. r \in ScanRecord /\ r.phase = "running" /\ r.existing = scan[x].existing
      /\ r.emitted = scan[x].emitted
  <2>1. scan[x].collected \in Seq(Known)
    BY <1>1 DEF ScanRecord
  <2>2. Append(scan[x].collected, new) \in Seq(Known)
    BY <1>2, <2>1
  <2> QED
    BY <1>1, <1>3, <2>2 DEF ScanRecord
<1>5. turn' \in TurnRecord /\ turn'.scan = x
  <2>1. <<>> \in Seq(SUBSET Nat)
    OBVIOUS
  <2> QED
    BY <1>2, <1>3, <2>1, RulesAreSeq DEF TurnRecord
<1> HIDE DEF r
<1>6. /\ scan' \in [Scans -> ScanRecord]
      /\ \A y \in Scans : scan'[y] = IF y = x THEN r ELSE scan[y]
  BY <1>1, <1>3, <1>4
<1> QED
  BY <1>3, <1>4, <1>5, <1>6, NoTurnAssumption DEF GatewayTypeInv, ScansTyped

\* The fields of a turn.
LEMMA TurnIsTyped ==
    ASSUME ScansTyped, turn # None
    PROVE  /\ turn \in TurnRecord /\ turn.scan \in Scans /\ turn.new \in Known
           /\ turn.rules \in Seq(ToSet(Rules)) /\ turn.links \in Seq(SUBSET Nat)
           /\ scan[turn.scan].phase = "running" /\ scan[turn.scan] \in ScanRecord
           /\ scan[turn.scan].existing \in Seq(Known)
           /\ Len(scan[turn.scan].existing) <= MaxSize
<1>1. turn \in TurnRecord /\ scan[turn.scan].phase = "running"
  BY DEF ScansTyped
<1>2. turn.scan \in Scans
  BY <1>1 DEF TurnRecord
<1>3. scan[turn.scan] \in ScanRecord /\ Len(scan[turn.scan].existing) <= MaxSize
  BY <1>2 DEF ScansTyped
<1> QED
  BY <1>1, <1>2, <1>3 DEF TurnRecord, ScanRecord

\* What the run of a rule changes.
LEMMA RunRuleEffect ==
    ASSUME ScansTyped, RunRule
    PROVE  /\ turn' \in TurnRecord /\ turn'.scan = turn.scan /\ turn'.new = turn.new
           /\ turn'.rules = Tail(turn.rules)
           /\ turn.rules # <<>> /\ turn.links = <<>>
           /\ turn'.links = Output(Head(turn.rules), turn.new, scan[turn.scan].existing)
           /\ UNCHANGED <<vars, scan, about, heard>>
<1> DEFINE rule == Head(turn.rules)
<1>1. turn # None /\ turn.links = <<>> /\ turn.rules # <<>>
      /\ turn' = [turn EXCEPT !.rules = Tail(turn.rules), !.rule = rule,
                               !.links = Emitted(rule)]
      /\ UNCHANGED <<vars, scan, about, heard>>
  BY TurnIsTyped DEF RunRule, TurnRecord
<1>2. rule \in ToSet(Rules) /\ Tail(turn.rules) \in Seq(ToSet(Rules))
  BY <1>1, TurnIsTyped, HeadTailProperties
<1>3. Emitted(rule) = Output(rule, turn.new, scan[turn.scan].existing)
  BY DEF Emitted, Output
<1>4. Emitted(rule) \in Seq(SUBSET Nat)
  BY <1>1, <1>2, <1>3, TurnIsTyped, OutputType
<1> HIDE DEF rule
<1>5. turn \in TurnRecord
  BY <1>1, TurnIsTyped
<1>6. turn' \in TurnRecord
  BY <1>1, <1>2, <1>4, <1>5 DEF TurnRecord
<1>7. /\ turn'.scan = turn.scan /\ turn'.new = turn.new /\ turn'.rules = Tail(turn.rules)
      /\ turn'.links = Emitted(rule)
  BY <1>1, <1>5 DEF TurnRecord
<1> QED
  BY <1>1, <1>3, <1>6, <1>7 DEF rule

\* What an added correlation changes.
LEMMA EmitCorrelationEffect ==
    ASSUME GatewayTypeInv, EmitCorrelation
    PROVE  /\ turn # None /\ turn' \in TurnRecord /\ turn'.scan = turn.scan
           /\ turn'.new = turn.new /\ turn'.rules = turn.rules
           /\ turn.links # <<>> /\ turn'.links = Tail(turn.links)
           /\ Fresh \notin DOMAIN about /\ DOMAIN about' = DOMAIN about \cup {Fresh}
           /\ about'[Fresh].links = Head(turn.links) /\ Head(turn.links) \in SUBSET Nat
           /\ \A n \in DOMAIN about : about'[n] = about[n]
           /\ scan' = [scan EXCEPT ![turn.scan].emitted = Append(@, Fresh)]
           /\ Fresh \in Nat /\ published' = published \cup {Fresh}
<1>1. /\ turn # None /\ turn.links # <<>> /\ AddCorrelation
      /\ about' = [n \in DOMAIN about \cup {Fresh} |->
                      IF n = Fresh THEN [new |-> turn.new.id, links |-> Head(turn.links)]
                      ELSE about[n]]
      /\ scan' = [scan EXCEPT ![turn.scan].emitted = Append(@, Fresh)]
      /\ turn' = [turn EXCEPT !.links = Tail(turn.links)]
  BY TurnIsTyped DEF EmitCorrelation, TurnRecord, GatewayTypeInv
<1>2. /\ created \in Nat /\ published \subseteq 1..created
      /\ DOMAIN about \subseteq published /\ ScansTyped
  BY DEF GatewayTypeInv, ScansTyped, StreamInv, TypeInv, TypeOK
<1>3. Fresh \in Nat /\ Fresh \notin DOMAIN about
  BY <1>2 DEF Fresh
<1>4. turn \in TurnRecord /\ Tail(turn.links) \in Seq(SUBSET Nat)
      /\ Head(turn.links) \in SUBSET Nat
  BY <1>1, <1>2, TurnIsTyped, HeadTailProperties
<1>5. /\ turn' \in TurnRecord /\ turn'.scan = turn.scan /\ turn'.new = turn.new
      /\ turn'.rules = turn.rules /\ turn'.links = Tail(turn.links)
  BY <1>1, <1>4 DEF TurnRecord
<1>6. published' = published \cup {Fresh}
  BY <1>1 DEF AddCorrelation, Publish
<1>7. /\ DOMAIN about' = DOMAIN about \cup {Fresh}
      /\ about'[Fresh].links = Head(turn.links)
      /\ \A n \in DOMAIN about : about'[n] = about[n]
  BY <1>1, <1>3
<1> QED
  BY <1>1, <1>3, <1>4, <1>5, <1>6, <1>7

\* An added correlation is published, and its links are ids.
LEMMA EmitCorrelationTyped ==
    ASSUME GatewayTypeInv, EmitCorrelation PROVE ScansTyped'
<1> DEFINE x == turn.scan
           r == [scan[x] EXCEPT !.emitted = Append(@, Fresh)]
<1>1. /\ turn # None /\ turn' \in TurnRecord /\ turn'.scan = turn.scan
      /\ DOMAIN about' = DOMAIN about \cup {Fresh}
      /\ about'[Fresh].links = Head(turn.links) /\ Head(turn.links) \in SUBSET Nat
      /\ \A n \in DOMAIN about : about'[n] = about[n]
      /\ scan' = [scan EXCEPT ![x].emitted = Append(@, Fresh)]
      /\ Fresh \in Nat /\ published' = published \cup {Fresh}
  BY EmitCorrelationEffect
<1>2. ScansTyped
  BY DEF GatewayTypeInv
<1>3. /\ scan \in [Scans -> ScanRecord] /\ x \in Scans /\ scan[x] \in ScanRecord
      /\ scan[x].phase = "running" /\ Len(scan[x].existing) <= MaxSize
      /\ scan[x].emitted \in Seq(DOMAIN about)
  BY <1>1, <1>2, TurnIsTyped DEF ScansTyped
<1>4. Append(scan[x].emitted, Fresh) \in Seq(DOMAIN about')
  <2>1. scan[x].emitted \in Seq(DOMAIN about') /\ Fresh \in DOMAIN about'
    BY <1>1, <1>3, SeqMonotonic
  <2> QED
    BY <2>1
<1>5. Append(scan[x].emitted, Fresh) \in Seq(Nat)
  BY <1>1, <1>3 DEF ScanRecord
<1>6. /\ r \in ScanRecord /\ r.phase = "running" /\ r.existing = scan[x].existing
      /\ r.emitted = Append(scan[x].emitted, Fresh)
  BY <1>3, <1>5 DEF ScanRecord
<1>7. scan' = [scan EXCEPT ![x] = r]
  BY <1>1, <1>3 DEF ScanRecord
<1> HIDE DEF r, x
<1>8. /\ scan' \in [Scans -> ScanRecord]
      /\ \A y \in Scans : scan'[y] = IF y = x THEN r ELSE scan[y]
  BY <1>3, <1>6, <1>7
<1>9. ASSUME NEW y \in Scans
      PROVE  Len(scan'[y].existing) <= MaxSize /\ scan'[y].emitted \in Seq(DOMAIN about')
  <2>1. scan[y].emitted \in Seq(DOMAIN about) /\ Len(scan[y].existing) <= MaxSize
    BY <1>2 DEF ScansTyped
  <2>2. scan[y].emitted \in Seq(DOMAIN about')
    BY <1>1, <2>1, SeqMonotonic
  <2> QED
    BY <1>3, <1>4, <1>6, <1>8, <2>1, <2>2
<1>10. /\ DOMAIN about' \subseteq published'
       /\ \A n \in DOMAIN about' : about'[n].links \in SUBSET Nat
  BY <1>1, <1>2 DEF ScansTyped
<1>11. turn' \in TurnRecord /\ scan'[turn'.scan].phase = "running"
  BY <1>1, <1>3, <1>6, <1>8 DEF x
<1> QED
  BY <1>8, <1>9, <1>10, <1>11 DEF ScansTyped

\* A client is handed what its queue holds, and that was published.
LEMMA HeardIsPublished ==
    ASSUME GatewayTypeInv, published \subseteq published', NEW s \in Subscribers,
           Connection(s), Hear(s)
    PROVE  \A t \in Subscribers : heard'[t] \subseteq published'
<1>1. cursor'[s] # cursor[s] /\ phase'[s] = "sending" => cursor'[s] \in published
  <2> SUFFICES ASSUME cursor'[s] # cursor[s], phase'[s] = "sending"
               PROVE  cursor'[s] \in published
    OBVIOUS
  <2>1. cursor \in [Subscribers -> Nat] /\ phase \in [Subscribers -> Phase]
        /\ queue[s] \in Seq(Event)
    BY DEF GatewayTypeInv, StreamInv, TypeInv, TypeOK
  <2>2. Deliver(s)
    BY <2>1 DEF Connection, Open, Register, DeliverFails, Sent, Cancel, Abandon, Reap,
       Unsubscribe
  <2>3. Connected(s) /\ queue[s] # <<>> /\ cursor'[s] = Head(queue[s]).id
    BY <2>1, <2>2 DEF Deliver, Ready, Connected
  <2>4. Head(queue[s]).id \in Queued(s)
    BY <2>1, <2>3 DEF Queued, Ids
  <2>5. Queued(s) \subseteq published
    BY <2>3 DEF GatewayTypeInv, StreamInv, StreamFaithful
  <2> QED
    BY <2>3, <2>4, <2>5
<1>2. \A t \in Subscribers : heard[t] \subseteq published
  BY DEF GatewayTypeInv
<1> QED
  BY <1>1, <1>2 DEF Hear

\* The steps of the request's handler between the turns, and the ends of a turn.
LEMMA HandlerTyped ==
    ASSUME GatewayTypeInv, published \subseteq published',
           \/ \E x \in Scans, source \in Sources : StartScan(x, source)
           \/ RuleBreaks \/ EndTurn
           \/ \E x \in Scans : AdapterRaises(x) \/ FinishScan(x)
    PROVE  ScansTyped'
<1>1. ScansTyped /\ findings \in Seq(Known) /\ Len(findings) <= MaxSize
  BY DEF GatewayTypeInv, StreamInv, TypeInv, TypeOK
<1>2. ASSUME NEW x \in Scans, NEW source \in Sources, StartScan(x, source)
      PROVE  ScansTyped'
  <2> DEFINE r == IF source \in Products THEN Request("running", findings)
                                         ELSE Request("rejected", <<>>)
  <2>1. turn' = None /\ about' = about /\ scan' = [scan EXCEPT ![x] = r]
    BY <1>2 DEF StartScan, LoopFree
  <2>2. /\ <<>> \in Seq(Known) /\ <<>> \in Seq(Nat) /\ <<>> \in Seq(DOMAIN about)
        /\ Len(<<>>) = 0 /\ 0 <= MaxSize
    BY SizesAssumption
  <2>3. r \in ScanRecord /\ Len(r.existing) <= MaxSize /\ r.emitted \in Seq(DOMAIN about)
    BY <1>1, <2>2 DEF Request, ScanRecord, ScanPhase
  <2> HIDE DEF r
  <2> QED
    BY <1>1, <2>1, <2>3, RequestKeeps
<1>3. ASSUME NEW x \in Scans, NEW p \in ScanPhase, turn' = None, about' = about,
             scan' = [scan EXCEPT ![x].phase = p]
      PROVE  ScansTyped'
  <2> DEFINE r == [scan[x] EXCEPT !.phase = p]
  <2>1. scan[x] \in ScanRecord /\ Len(scan[x].existing) <= MaxSize
        /\ scan[x].emitted \in Seq(DOMAIN about) /\ scan \in [Scans -> ScanRecord]
    BY <1>1 DEF ScansTyped
  <2>2. r \in ScanRecord /\ r.existing = scan[x].existing /\ r.emitted = scan[x].emitted
    BY <2>1 DEF ScanRecord
  <2>3. scan' = [scan EXCEPT ![x] = r]
    BY <1>3, <2>1 DEF ScanRecord
  <2> HIDE DEF r
  <2> QED
    BY <1>1, <1>3, <2>1, <2>2, <2>3, RequestKeeps
<1>4. ASSUME NEW x \in Scans, AdapterRaises(x) \/ FinishScan(x) PROVE ScansTyped'
  <2>1. PICK p \in {"adapter_failed", "done"} : scan' = [scan EXCEPT ![x].phase = p]
    BY <1>4 DEF AdapterRaises, FinishScan
  <2>2. turn' = None /\ about' = about /\ p \in ScanPhase
    BY <1>4, <2>1 DEF AdapterRaises, FinishScan, LoopFree, ScanPhase
  <2> QED
    BY <1>3, <2>1, <2>2
<1>5. CASE RuleBreaks
  <2>1. turn.scan \in Scans
    BY <1>1, <1>5, TurnIsTyped DEF RuleBreaks
  <2>2. /\ turn' = None /\ about' = about /\ "rule_failed" \in ScanPhase
        /\ scan' = [scan EXCEPT ![turn.scan].phase = "rule_failed"]
    BY <1>5 DEF RuleBreaks, ScanPhase
  <2> QED
    BY <1>3, <2>1, <2>2
<1>6. CASE EndTurn
  BY <1>1, <1>6 DEF EndTurn, ScansTyped
<1> QED
  BY <1>2, <1>4, <1>5, <1>6

\* Every step keeps the types.
LEMMA GatewayTypeStep == GatewayTypeInv /\ [GatewayNext]_allVars => GatewayTypeInv'
<1> SUFFICES ASSUME GatewayTypeInv, [GatewayNext]_allVars PROVE GatewayTypeInv'
  OBVIOUS
<1>1. /\ StreamInv' /\ created' <= MaxItems /\ findings' \in Seq(Known)
      /\ published \subseteq published'
  BY GatewayStepIsRegistryStep, StreamStep, StoreGrows DEF GatewayTypeInv
<1>2. \A s \in Subscribers : heard[s] \subseteq published'
  BY <1>1 DEF GatewayTypeInv
<1>3. ScansTyped
  BY DEF GatewayTypeInv
<1>4. CASE \E x \in Scans, body \in Contents : ScanFinding(x, body)
  BY <1>1, <1>2, <1>4, ScanFindingTyped DEF ScanFinding, GatewayTypeInv
<1>5. CASE RunRule
  <2>1. /\ turn' \in TurnRecord /\ turn'.scan = turn.scan /\ turn # None
        /\ UNCHANGED <<vars, scan, about, heard>>
    BY <1>3, <1>5, RunRuleEffect DEF RunRule
  <2>2. ScansTyped'
    BY <1>1, <1>3, <2>1 DEF ScansTyped
  <2> QED
    BY <1>1, <1>2, <2>1, <2>2 DEF GatewayTypeInv
<1>6. CASE EmitCorrelation
  BY <1>1, <1>2, <1>6, EmitCorrelationTyped DEF EmitCorrelation, GatewayTypeInv
<1>7. CASE \/ \E x \in Scans, source \in Sources : StartScan(x, source)
           \/ RuleBreaks \/ EndTurn
           \/ \E x \in Scans : AdapterRaises(x) \/ FinishScan(x)
  <2>1. heard' = heard
    BY <1>7 DEF StartScan, RuleBreaks, EndTurn, AdapterRaises, FinishScan
  <2> QED
    BY <1>1, <1>2, <1>7, <2>1, HandlerTyped DEF GatewayTypeInv
<1>8. CASE (RegistryStep /\ UNCHANGED gatewayVars) \/ UNCHANGED allVars
  <2>1. UNCHANGED <<scan, turn, about>>
    BY <1>8 DEF gatewayVars, allVars
  <2>2. ScansTyped'
    BY <1>1, <1>3, <2>1 DEF ScansTyped
  <2>3. \A s \in Subscribers : heard'[s] \subseteq published'
    BY <1>1, <1>2, <1>8, HeardIsPublished DEF RegistryStep, allVars
  <2> QED
    BY <1>1, <2>2, <2>3 DEF GatewayTypeInv
<1> QED
  BY <1>4, <1>5, <1>6, <1>7, <1>8 DEF GatewayNext

\* The invariant is as strong as the property.
LEMMA GatewayTypeImplies == GatewayTypeInv => GatewayTypeOK
<1> SUFFICES ASSUME GatewayTypeInv PROVE GatewayTypeOK
  OBVIOUS
<1>1. ScansTyped
  BY DEF GatewayTypeInv
<1>2. ASSUME NEW x \in Scans
      PROVE  /\ scan[x].phase \in ScanPhase
             /\ scan[x].existing \in Seq(Item) /\ scan[x].collected \in Seq(Item)
             /\ scan[x].emitted \in Seq(DOMAIN about)
  <2>1. scan[x] \in ScanRecord /\ scan[x].emitted \in Seq(DOMAIN about)
    BY <1>1 DEF ScansTyped
  <2>2. scan[x].existing \in Seq(Known) /\ scan[x].collected \in Seq(Known)
    BY <2>1 DEF ScanRecord
  <2>3. scan[x].existing \in Seq(Item) /\ scan[x].collected \in Seq(Item)
    BY <2>2, KnownItems, SeqMonotonic
  <2> QED
    BY <2>1, <2>3 DEF ScanRecord
<1>3. turn # None => turn \in TurnRecord /\ scan[turn.scan].phase = "running"
  BY <1>1, TurnIsTyped
<1> QED
  BY <1>1, <1>2, <1>3 DEF GatewayTypeOK, GatewayTypeInv, ScansTyped, ScanPhase
-----------------------------------------------------------------------------
\* One sequence more.
LEMMA FlattenGrow ==
    ASSUME NEW T, NEW n \in Nat, NEW e, \A i \in 1..(n + 1) : e[i] \in Seq(T)
    PROVE  /\ FlattenSeq([i \in 1..(n + 1) |-> e[i]]) =
                  FlattenSeq([i \in 1..n |-> e[i]]) \o e[n + 1]
           /\ FlattenSeq([i \in 1..n |-> e[i]]) \in Seq(T)
<1> DEFINE less == [i \in 1..n |-> e[i]]
           more == [i \in 1..(n + 1) |-> e[i]]
<1>1. less \in Seq(Seq(T)) /\ Len(less) = n /\ more \in Seq(Seq(T)) /\ Len(more) = n + 1
  OBVIOUS
<1>2. e[n + 1] \in Seq(T)
  OBVIOUS
<1>3. Append(less, e[n + 1]) = more
  <2>1. /\ Append(less, e[n + 1]) \in Seq(Seq(T)) /\ Len(Append(less, e[n + 1])) = n + 1
    BY <1>1, <1>2
  <2>2. \A i \in 1..(n + 1) : Append(less, e[n + 1])[i] = more[i]
    BY <1>1
  <2> HIDE DEF less, more
  <2> QED
    BY <1>1, <2>1, <2>2, SeqEqual
<1> HIDE DEF less, more
<1>4. FlattenSeq(more) = FlattenSeq(less) \o e[n + 1] /\ FlattenSeq(less) \in Seq(T)
  BY <1>1, <1>2, <1>3, FlattenAppend, FlattenType
<1> QED
  BY <1>4 DEF less, more

\* What the first k rules emit for a finding, and what all rules emit for the
\* first n findings.
FirstRules(new, existing, k) ==
    FlattenSeq([i \in 1..k |-> Output(Rules[i], new, existing)])
FirstLinks(found, existing, n) ==
    FlattenSeq([i \in 1..n |-> LinksOf(found[i], existing)])

\* Before the first rule, and before the first finding.
LEMMA NothingYet ==
    /\ \A new, existing : FirstRules(new, existing, 0) = <<>>
    /\ \A found, existing : FirstLinks(found, existing, 0) = <<>>
<1>1. \A f : [i \in 1..0 |-> f[i]] = <<>>
  OBVIOUS
<1> QED
  BY FlattenEmpty DEF FirstRules, FirstLinks

\* One rule more.
LEMMA NextRule ==
    ASSUME NEW new \in Known, NEW existing \in Seq(Known), Len(existing) <= MaxSize,
           NEW k \in Nat, k + 1 <= Len(Rules)
    PROVE  FirstRules(new, existing, k + 1) =
               FirstRules(new, existing, k) \o Output(Rules[k + 1], new, existing)
<1> DEFINE e == [i \in 1..(k + 1) |-> Output(Rules[i], new, existing)]
<1>1. \A i \in 1..(k + 1) : Rules[i] \in ToSet(Rules)
  BY RulesAreSeq
<1>2. \A i \in 1..(k + 1) : /\ e[i] = Output(Rules[i], new, existing)
                            /\ e[i] \in Seq(SUBSET Nat)
  BY <1>1, OutputType
<1>3. FlattenSeq([i \in 1..(k + 1) |-> e[i]]) =
          FlattenSeq([i \in 1..k |-> e[i]]) \o e[k + 1]
  <2> HIDE DEF e
  <2> QED
    BY <1>2, FlattenGrow
<1>4. /\ [i \in 1..(k + 1) |-> e[i]] =
             [i \in 1..(k + 1) |-> Output(Rules[i], new, existing)]
      /\ [i \in 1..k |-> e[i]] = [i \in 1..k |-> Output(Rules[i], new, existing)]
  BY <1>2
<1>5. e[k + 1] = Output(Rules[k + 1], new, existing)
  BY <1>2
<1> HIDE DEF e
<1>6. /\ FirstRules(new, existing, k + 1) = FlattenSeq([i \in 1..(k + 1) |-> e[i]])
      /\ FirstRules(new, existing, k) = FlattenSeq([i \in 1..k |-> e[i]])
  BY <1>4 DEF FirstRules
<1> QED
  BY <1>3, <1>5, <1>6

\* What the first rules emit is typed.
LEMMA FirstRulesType ==
    ASSUME NEW new \in Known, NEW existing \in Seq(Known), Len(existing) <= MaxSize,
           NEW k \in Nat, k <= Len(Rules)
    PROVE  FirstRules(new, existing, k) \in Seq(SUBSET Nat)
<1> DEFINE s == [i \in 1..k |-> Output(Rules[i], new, existing)]
<1>1. \A i \in 1..k : Output(Rules[i], new, existing) \in Seq(SUBSET Nat)
  BY RulesAreSeq, OutputType
<1>2. s \in Seq(Seq(SUBSET Nat))
  BY <1>1
<1> HIDE DEF s
<1>3. FlattenSeq(s) \in Seq(SUBSET Nat)
  BY <1>2, FlattenType
<1> QED
  BY <1>3 DEF s, FirstRules

\* All rules emit what a scan is expected to emit for the finding.
LEMMA AllRules ==
    ASSUME NEW new, NEW existing
    PROVE  LinksOf(new, existing) = FirstRules(new, existing, Len(Rules))
  BY RulesAreSeq DEF LinksOf, FirstRules, Output

\* One finding more.
LEMMA NextFinding ==
    ASSUME NEW found \in Seq(Known), NEW existing \in Seq(Known),
           Len(existing) <= MaxSize, NEW n \in Nat, n + 1 <= Len(found)
    PROVE  FirstLinks(found, existing, n + 1) =
               FirstLinks(found, existing, n) \o LinksOf(found[n + 1], existing)
<1> DEFINE e == [i \in 1..(n + 1) |-> LinksOf(found[i], existing)]
<1>1. \A i \in 1..(n + 1) : found[i] \in Known
  BY ElementOfSeq
<1>2. \A i \in 1..(n + 1) : /\ e[i] = LinksOf(found[i], existing)
                            /\ e[i] \in Seq(SUBSET Nat)
  BY <1>1, RulesAreSeq, AllRules, FirstRulesType
<1>3. FlattenSeq([i \in 1..(n + 1) |-> e[i]]) =
          FlattenSeq([i \in 1..n |-> e[i]]) \o e[n + 1]
  <2> HIDE DEF e
  <2> QED
    BY <1>2, FlattenGrow
<1>4. /\ [i \in 1..(n + 1) |-> e[i]] = [i \in 1..(n + 1) |-> LinksOf(found[i], existing)]
      /\ [i \in 1..n |-> e[i]] = [i \in 1..n |-> LinksOf(found[i], existing)]
  BY <1>2
<1>5. e[n + 1] = LinksOf(found[n + 1], existing)
  BY <1>2
<1> HIDE DEF e
<1>6. /\ FirstLinks(found, existing, n + 1) = FlattenSeq([i \in 1..(n + 1) |-> e[i]])
      /\ FirstLinks(found, existing, n) = FlattenSeq([i \in 1..n |-> e[i]])
  BY <1>4 DEF FirstLinks
<1> QED
  BY <1>3, <1>5, <1>6

\* What is emitted for the first findings is typed.
LEMMA FirstLinksType ==
    ASSUME NEW found \in Seq(Known), NEW existing \in Seq(Known),
           Len(existing) <= MaxSize, NEW n \in Nat, n <= Len(found)
    PROVE  FirstLinks(found, existing, n) \in Seq(SUBSET Nat)
<1> DEFINE s == [i \in 1..n |-> LinksOf(found[i], existing)]
<1>1. \A i \in 1..n : found[i] \in Known
  BY ElementOfSeq
<1>2. \A i \in 1..n : LinksOf(found[i], existing) \in Seq(SUBSET Nat)
  BY <1>1, RulesAreSeq, AllRules, FirstRulesType
<1>3. s \in Seq(Seq(SUBSET Nat))
  BY <1>2
<1> HIDE DEF s
<1>4. FlattenSeq(s) \in Seq(SUBSET Nat)
  BY <1>3, FlattenType
<1> QED
  BY <1>4 DEF s, FirstLinks

\* Both read no more of the findings than they are told to.
LEMMA SamePrefix ==
    ASSUME NEW found, NEW more, NEW existing, NEW n \in Nat,
           \A i \in 1..n : found[i] = more[i]
    PROVE  FirstLinks(found, existing, n) = FirstLinks(more, existing, n)
  BY DEF FirstLinks
-----------------------------------------------------------------------------
(***************************************************************************)
(* Scans are correlated: the links of what a scan emitted are those that   *)
(* the rules give for what it collected.                                   *)
(***************************************************************************)
EmittedLinks(x) ==
    [i \in DOMAIN scan[x].emitted |-> about[scan[x].emitted[i]].links]

UpToDate(x) ==
    EmittedLinks(x) =
        FirstLinks(scan[x].collected, scan[x].existing, Len(scan[x].collected))

\* In a turn, what was emitted and what the current rule still has to emit are
\* all correlations of the earlier findings and those of the first k rules.
InTurn(x) ==
    \E k \in Nat, n \in Nat :
       /\ k + Len(turn.rules) = Len(Rules)
       /\ \A i \in 1..Len(turn.rules) : turn.rules[i] = Rules[k + i]
       /\ n + 1 = Len(scan[x].collected) /\ scan[x].collected[n + 1] = turn.new
       /\ EmittedLinks(x) \o turn.links =
             FirstLinks(scan[x].collected, scan[x].existing, n)
                \o FirstRules(turn.new, scan[x].existing, k)

Live == {"running", "done", "adapter_failed"}

LinksOK(x) ==
    scan[x].phase \in Live =>
        IF turn # None /\ turn.scan = x THEN InTurn(x) ELSE UpToDate(x)

LinksInv == GatewayTypeInv /\ \A x \in Scans : LinksOK(x)

\* What the type invariant says of one scan.
LEMMA ScanIsTyped ==
    ASSUME ScansTyped, NEW x \in Scans
    PROVE  /\ scan[x] \in ScanRecord /\ scan[x].existing \in Seq(Known)
           /\ Len(scan[x].existing) <= MaxSize /\ scan[x].collected \in Seq(Known)
           /\ Len(scan[x].collected) \in Nat
           /\ scan[x].emitted \in Seq(DOMAIN about) /\ scan[x].emitted \in Seq(Nat)
           /\ EmittedLinks(x) \in Seq(SUBSET Nat)
           /\ Len(EmittedLinks(x)) = Len(scan[x].emitted)
           /\ \A i \in 1..Len(scan[x].emitted) :
                 /\ scan[x].emitted[i] \in DOMAIN about
                 /\ EmittedLinks(x)[i] = about[scan[x].emitted[i]].links
<1>1. /\ scan[x] \in ScanRecord /\ Len(scan[x].existing) <= MaxSize
      /\ scan[x].emitted \in Seq(DOMAIN about)
      /\ \A n \in DOMAIN about : about[n].links \in SUBSET Nat
  BY DEF ScansTyped
<1>2. scan[x].existing \in Seq(Known) /\ scan[x].collected \in Seq(Known)
      /\ scan[x].emitted \in Seq(Nat)
  BY <1>1 DEF ScanRecord
<1>3. /\ Len(scan[x].emitted) \in Nat /\ DOMAIN scan[x].emitted = 1..Len(scan[x].emitted)
      /\ \A i \in 1..Len(scan[x].emitted) : scan[x].emitted[i] \in DOMAIN about
  BY <1>1, LenProperties, ElementOfSeq
<1>4. \A i \in 1..Len(scan[x].emitted) : about[scan[x].emitted[i]].links \in SUBSET Nat
  BY <1>1, <1>3
<1>5. EmittedLinks(x) =
          [i \in 1..Len(scan[x].emitted) |-> about[scan[x].emitted[i]].links]
  BY <1>3 DEF EmittedLinks
<1>6. EmittedLinks(x) \in Seq(SUBSET Nat) /\ Len(EmittedLinks(x)) = Len(scan[x].emitted)
  BY <1>3, <1>4, <1>5
<1> QED
  BY <1>1, <1>2, <1>3, <1>5, <1>6, LenProperties

\* The links of a request stay while it emits nothing.
LEMMA SameLinks ==
    ASSUME ScansTyped, NEW x \in Scans, scan'[x].emitted = scan[x].emitted,
           \A n \in DOMAIN about : about'[n] = about[n]
    PROVE  EmittedLinks(x)' = EmittedLinks(x)
<1>1. /\ DOMAIN scan[x].emitted = 1..Len(scan[x].emitted)
      /\ \A i \in 1..Len(scan[x].emitted) : scan[x].emitted[i] \in DOMAIN about
  BY ScanIsTyped, LenProperties
<1> QED
  BY <1>1 DEF EmittedLinks

\* A request that is up to date, whose fields stay, and that has no turn.
LEMMA RequestStays ==
    ASSUME ScansTyped, NEW x \in Scans, scan'[x].phase \in Live => UpToDate(x),
           scan'[x].emitted = scan[x].emitted, scan'[x].collected = scan[x].collected,
           scan'[x].existing = scan[x].existing,
           \A n \in DOMAIN about : about'[n] = about[n],
           turn' = None \/ turn'.scan # x
    PROVE  LinksOK(x)'
<1>1. EmittedLinks(x)' = EmittedLinks(x)
  BY SameLinks
<1>2. UpToDate(x) => UpToDate(x)'
  BY <1>1 DEF UpToDate
<1> QED
  BY <1>2 DEF LinksOK

\* A new finding opens a turn: nothing is emitted for it yet, and no rule ran.
LEMMA ScanFindingLinks ==
    ASSUME LinksInv, NEW x \in Scans, NEW body \in Contents, ScanFinding(x, body),
           published \subseteq published', NEW y \in Scans
    PROVE  LinksOK(y)'
<1> DEFINE new == [id |-> Fresh, body |-> body]
<1>1. /\ ScansTyped /\ LinksOK(y) /\ LinksOK(x) /\ scan \in [Scans -> ScanRecord]
      /\ scan[x] \in ScanRecord
  BY DEF LinksInv, GatewayTypeInv, ScansTyped
<1>2. /\ turn = None /\ scan[x].phase = "running" /\ about' = about
      /\ scan' = [scan EXCEPT ![x].collected = Append(@, new)]
      /\ turn' = [scan |-> x, new |-> new, rules |-> Rules, rule |-> None, links |-> <<>>]
  BY DEF ScanFinding, LoopFree
<1>3. turn'.scan = x /\ turn'.new = new /\ turn'.rules = Rules /\ turn'.links = <<>>
  BY <1>2
<1>4. CASE y # x
  <2>1. scan'[y] = scan[y]
    BY <1>1, <1>2, <1>4
  <2>2. scan'[y].phase \in Live => UpToDate(y)
    BY <1>1, <1>2, <2>1 DEF LinksOK
  <2> QED
    BY <1>1, <1>2, <1>3, <1>4, <2>1, <2>2, RequestStays
<1>5. CASE y = x
  <2> DEFINE old == scan[x].collected
             had == scan[x].existing
  <2> PICK n \in Nat : n = Len(old)
    BY <1>1, ScanIsTyped
  <2>1. /\ scan'[x].collected = Append(old, new) /\ scan'[x].existing = had
        /\ scan'[x].emitted = scan[x].emitted
    BY <1>1, <1>2 DEF ScanRecord
  <2>2. EmittedLinks(x)' = EmittedLinks(x) /\ EmittedLinks(x) \in Seq(SUBSET Nat)
    BY <1>1, <1>2, <2>1, SameLinks, ScanIsTyped
  <2>3. EmittedLinks(x) = FirstLinks(old, had, n)
    BY <1>1, <1>2 DEF LinksOK, UpToDate, Live
  <2>4. /\ Len(scan'[x].collected) = n + 1 /\ scan'[x].collected[n + 1] = new
        /\ \A i \in 1..n : old[i] = scan'[x].collected[i]
    BY <1>1, <2>1, ScanIsTyped
  <2>5. FirstLinks(scan'[x].collected, had, n) = FirstLinks(old, had, n)
    <3>1. \A i \in 1..n : old[i] = scan'[x].collected[i]
      BY <2>4
    <3> HIDE DEF old, had
    <3> QED
      BY <3>1, SamePrefix
  <2>6. FirstRules(new, had, 0) = <<>>
    BY NothingYet
  <2>7. EmittedLinks(x)' \o turn'.links =
            FirstLinks(scan'[x].collected, had, n) \o FirstRules(new, had, 0)
    BY <1>3, <2>2, <2>3, <2>5, <2>6
  <2>8. 0 + Len(Rules) = Len(Rules) /\ \A i \in 1..Len(Rules) : Rules[i] = Rules[0 + i]
    BY RulesAreSeq
  <2> HIDE DEF new
  <2>9. InTurn(x)'
    BY <1>3, <2>1, <2>4, <2>7, <2>8 DEF InTurn
  <2>10. turn' # None => LinksOK(x)'
    BY <1>3, <2>9 DEF LinksOK
  <2>11. turn' # None
    BY ScanFindingTyped DEF LinksInv
  <2> QED
    BY <1>5, <2>10, <2>11
<1> QED
  BY <1>4, <1>5

\* Concatenation associates.
LEMMA LinksAssociate ==
    ASSUME NEW a \in Seq(SUBSET Nat), NEW b \in Seq(SUBSET Nat), NEW c \in Seq(SUBSET Nat)
    PROVE  (a \o b) \o c = a \o (b \o c)
<1> DEFINE T == SUBSET Nat
<1>1. a \in Seq(T) /\ b \in Seq(T) /\ c \in Seq(T)
  OBVIOUS
<1> HIDE DEF T
<1> QED
  BY <1>1, ConcatAssociative

\* The rules that are left, after one of them ran.
LEMMA RulesLeft ==
    ASSUME NEW S, NEW rules \in Seq(S), rules # <<>>, NEW all, NEW m \in Nat,
           NEW k \in Nat, k + Len(rules) = m, \A i \in 1..Len(rules) : rules[i] = all[k + i]
    PROVE  /\ k + 1 <= m /\ Head(rules) = all[k + 1]
           /\ (k + 1) + Len(Tail(rules)) = m
           /\ \A i \in 1..Len(Tail(rules)) : Tail(rules)[i] = all[(k + 1) + i]
<1>1. /\ Len(rules) \in Nat /\ Len(rules) # 0 /\ Len(Tail(rules)) = Len(rules) - 1
      /\ \A i \in 1..Len(Tail(rules)) : Tail(rules)[i] = rules[i + 1]
  BY EmptySeq, HeadTailProperties
<1>2. Head(rules) = rules[1]
  OBVIOUS
<1>3. k + 1 <= m /\ (k + 1) + Len(Tail(rules)) = m /\ Head(rules) = all[k + 1]
  BY <1>1, <1>2
<1>4. ASSUME NEW i \in 1..Len(Tail(rules)) PROVE Tail(rules)[i] = all[(k + 1) + i]
  <2>1. i + 1 \in 1..Len(rules) /\ k + (i + 1) = (k + 1) + i
    BY <1>1
  <2>2. rules[i + 1] = all[k + (i + 1)]
    BY <2>1
  <2> QED
    BY <1>1, <2>1, <2>2
<1> QED
  BY <1>3, <1>4

\* A rule runs: what it emits is to be added, and the next rule is due.
LEMMA RunRuleLinks ==
    ASSUME LinksInv, RunRule, NEW y \in Scans PROVE LinksOK(y)'
<1>1. ScansTyped /\ turn # None
  BY DEF LinksInv, GatewayTypeInv, RunRule
<1> PICK x \in Scans : x = turn.scan
  BY <1>1, TurnIsTyped
<1> DEFINE found == scan[x].collected
           had == scan[x].existing
<1>2. /\ turn' \in TurnRecord /\ turn'.scan = x /\ turn'.new = turn.new
      /\ turn'.rules = Tail(turn.rules) /\ turn.rules # <<>> /\ turn.links = <<>>
      /\ turn'.links = Output(Head(turn.rules), turn.new, had)
      /\ UNCHANGED <<vars, scan, about, heard>>
  BY <1>1, RunRuleEffect
<1>3. CASE y # x
  <2>1. scan'[y].phase \in Live => UpToDate(y)
    BY <1>2, <1>3 DEF LinksInv, LinksOK
  <2> QED
    BY <1>1, <1>2, <1>3, <2>1, RequestStays
<1>4. CASE y = x
  <2>1. /\ x \in Scans /\ turn.new \in Known /\ turn.rules \in Seq(ToSet(Rules))
        /\ had \in Seq(Known) /\ Len(had) <= MaxSize /\ scan[x].phase = "running"
        /\ found \in Seq(Known) /\ Len(found) \in Nat
    BY <1>1, TurnIsTyped, ScanIsTyped
  <2>2. InTurn(x)
    BY <1>1, <2>1 DEF LinksInv, LinksOK, Live
  <2>3. PICK k \in Nat, n \in Nat :
           /\ k + Len(turn.rules) = Len(Rules)
           /\ \A i \in 1..Len(turn.rules) : turn.rules[i] = Rules[k + i]
           /\ n + 1 = Len(found) /\ found[n + 1] = turn.new
           /\ EmittedLinks(x) \o turn.links = FirstLinks(found, had, n)
                                                 \o FirstRules(turn.new, had, k)
    BY <2>2 DEF InTurn
  <2>4. Len(Rules) \in Nat
    BY RulesAreSeq
  <2>5. k + 1 <= Len(Rules) /\ Head(turn.rules) = Rules[k + 1]
    BY <1>2, <2>1, <2>3, <2>4, RulesLeft
  <2>6. /\ (k + 1) + Len(turn'.rules) = Len(Rules)
        /\ \A i \in 1..Len(turn'.rules) : turn'.rules[i] = Rules[(k + 1) + i]
    <3>1. /\ (k + 1) + Len(Tail(turn.rules)) = Len(Rules)
          /\ \A i \in 1..Len(Tail(turn.rules)) : Tail(turn.rules)[i] = Rules[(k + 1) + i]
      <4> DEFINE rules == turn.rules
      <4>1. /\ rules \in Seq(ToSet(Rules)) /\ rules # <<>> /\ k + Len(rules) = Len(Rules)
            /\ \A i \in 1..Len(rules) : rules[i] = Rules[k + i]
        BY <1>2, <2>1, <2>3
      <4> HIDE DEF rules
      <4>2. /\ (k + 1) + Len(Tail(rules)) = Len(Rules)
            /\ \A i \in 1..Len(Tail(rules)) : Tail(rules)[i] = Rules[(k + 1) + i]
        BY <2>4, <4>1, RulesLeft
      <4> QED
        BY <4>2 DEF rules
    <3> QED
      BY <1>2, <3>1
  <2>7. EmittedLinks(x) \in Seq(SUBSET Nat) /\ EmittedLinks(x)' = EmittedLinks(x)
    BY <1>1, <1>2, <2>1, SameLinks, ScanIsTyped
  <2>8. EmittedLinks(x) = FirstLinks(found, had, n) \o FirstRules(turn.new, had, k)
    BY <1>2, <2>3, <2>7, ConcatEmptySeq
  <2>9. /\ FirstLinks(found, had, n) \in Seq(SUBSET Nat)
        /\ FirstRules(turn.new, had, k) \in Seq(SUBSET Nat)
        /\ Output(Rules[k + 1], turn.new, had) \in Seq(SUBSET Nat)
    <3>1. n <= Len(found) /\ k <= Len(Rules) /\ k + 1 \in 1..Len(Rules)
      <4> HIDE DEF found, had
      <4>1. n + 1 = Len(found) /\ Len(found) \in Nat
        BY <2>1, <2>3
      <4>2. n <= Len(found)
        BY <4>1
      <4> QED
        BY <2>4, <2>5, <4>2
    <3>2. Rules[k + 1] \in ToSet(Rules)
      BY <3>1, RulesAreSeq
    <3> HIDE DEF found, had
    <3>3. FirstLinks(found, had, n) \in Seq(SUBSET Nat)
      BY <2>1, <3>1, FirstLinksType
    <3>4. FirstRules(turn.new, had, k) \in Seq(SUBSET Nat)
      BY <2>1, <3>1, FirstRulesType
    <3> QED
      BY <2>1, <3>2, <3>3, <3>4, OutputType
  <2>10. FirstRules(turn.new, had, k + 1) =
            FirstRules(turn.new, had, k) \o Output(Rules[k + 1], turn.new, had)
    BY <2>1, <2>5, NextRule
  <2>11. EmittedLinks(x)' \o turn'.links =
            FirstLinks(found, had, n) \o FirstRules(turn.new, had, k + 1)
    <3> DEFINE a == FirstLinks(found, had, n)
               b == FirstRules(turn.new, had, k)
               c == Output(Rules[k + 1], turn.new, had)
    <3>2. EmittedLinks(x)' = a \o b /\ turn'.links = c
      BY <1>2, <2>5, <2>7, <2>8
    <3>0. a \in Seq(SUBSET Nat) /\ b \in Seq(SUBSET Nat) /\ c \in Seq(SUBSET Nat)
      BY <2>9
    <3> HIDE DEF a, b, c
    <3>1. (a \o b) \o c = a \o (b \o c)
      BY <3>0, LinksAssociate
    <3>3. EmittedLinks(x)' \o turn'.links = a \o (b \o c)
      BY <3>1, <3>2
    <3> QED
      BY <2>10, <3>3 DEF a, b, c
  <2>12. InTurn(x)'
    <3>1. scan'[x].collected = found /\ scan'[x].existing = had /\ k + 1 \in Nat
      BY <1>2
    <3>2. /\ n + 1 = Len(scan'[x].collected) /\ scan'[x].collected[n + 1] = turn'.new
          /\ EmittedLinks(x)' \o turn'.links =
                FirstLinks(scan'[x].collected, scan'[x].existing, n)
                   \o FirstRules(turn'.new, scan'[x].existing, k + 1)
      BY <1>2, <2>3, <2>11, <3>1
    <3> QED
      BY <2>6, <3>1, <3>2 DEF InTurn
  <2> QED
    BY <1>2, <1>4, <2>12, NoTurnAssumption DEF LinksOK
<1> QED
  BY <1>3, <1>4

\* The first element moves from one sequence to the end of the other.
LEMMA HeadFirst ==
    ASSUME NEW T, NEW s \in Seq(T), NEW t \in Seq(T), t # <<>>
    PROVE  Append(s, Head(t)) \o Tail(t) = s \o t
<1> DEFINE a == Append(s, Head(t))
<1>1. /\ Head(t) \in T /\ Head(t) = t[1] /\ Tail(t) \in Seq(T) /\ Len(Tail(t)) = Len(t) - 1
      /\ Len(t) \in Nat /\ Len(t) > 0 /\ Len(s) \in Nat
      /\ \A i \in 1..Len(Tail(t)) : Tail(t)[i] = t[i + 1]
  BY HeadTailProperties, EmptySeq
<1>2. /\ a \in Seq(T) /\ Len(a) = Len(s) + 1 /\ a[Len(s) + 1] = t[1]
      /\ \A i \in 1..Len(s) : a[i] = s[i]
  BY <1>1
<1> HIDE DEF a
<1>3. /\ a \o Tail(t) \in Seq(T) /\ Len(a \o Tail(t)) = Len(s) + Len(t)
      /\ \A i \in 1..(Len(s) + Len(t)) :
            (a \o Tail(t))[i] = IF i <= Len(s) + 1 THEN a[i] ELSE Tail(t)[i - (Len(s) + 1)]
  <2>1. /\ a \o Tail(t) \in Seq(T) /\ Len(a \o Tail(t)) = Len(a) + Len(Tail(t))
        /\ \A i \in 1..(Len(a) + Len(Tail(t))) :
              (a \o Tail(t))[i] = IF i <= Len(a) THEN a[i] ELSE Tail(t)[i - Len(a)]
    BY <1>1, <1>2, ConcatProperties
  <2>2. Len(a) + Len(Tail(t)) = Len(s) + Len(t)
    BY <1>1, <1>2
  <2> QED
    BY <1>2, <2>1, <2>2
<1>4. /\ s \o t \in Seq(T) /\ Len(s \o t) = Len(s) + Len(t)
      /\ \A i \in 1..(Len(s) + Len(t)) :
            (s \o t)[i] = IF i <= Len(s) THEN s[i] ELSE t[i - Len(s)]
  BY ConcatProperties
<1>5. ASSUME NEW i \in 1..(Len(s) + Len(t)) PROVE (a \o Tail(t))[i] = (s \o t)[i]
  <2>1. CASE i <= Len(s)
    BY <1>1, <1>2, <1>3, <1>4, <2>1
  <2>2. CASE i = Len(s) + 1
    BY <1>1, <1>2, <1>3, <1>4, <2>2
  <2>3. CASE i > Len(s) + 1
    <3>1. /\ i - (Len(s) + 1) \in 1..Len(Tail(t))
          /\ (i - (Len(s) + 1)) + 1 = i - Len(s) /\ ~(i <= Len(s) + 1) /\ ~(i <= Len(s))
      BY <1>1, <2>3
    <3> QED
      BY <1>1, <1>3, <1>4, <3>1
  <2>4. i \in Int /\ Len(s) \in Int
    BY <1>1
  <2>5. i <= Len(s) \/ i = Len(s) + 1 \/ i > Len(s) + 1
    BY <2>4
  <2> QED
    BY <2>1, <2>2, <2>3, <2>5
<1> QED
  BY <1>3, <1>4, <1>5, SeqEqual DEF a

\* A sequence with one more element than another, and the same before it.
LEMMA OneLonger ==
    ASSUME NEW T, NEW s \in Seq(T), NEW t, NEW m \in Nat, HasLength(s, m),
           t = [i \in 1..(m + 1) |-> t[i]], \A i \in 1..m : t[i] = s[i]
    PROVE  t = Append(s, t[m + 1])
<1> USE DEF HasLength
<1> DEFINE a == Append(s, t[m + 1])
<1>1. /\ a = [i \in 1..(m + 1) |-> a[i]] /\ a[m + 1] = t[m + 1]
      /\ \A i \in 1..m : a[i] = s[i]
  OBVIOUS
<1>2. \A i \in 1..(m + 1) : i \in 1..m \/ i = m + 1
  OBVIOUS
<1> HIDE DEF a
<1>3. \A i \in 1..(m + 1) : a[i] = t[i]
  BY <1>1, <1>2
<1>4. a = t
  BY <1>1, <1>3
<1> QED
  BY <1>4 DEF a

\* The next correlation is added.
LEMMA EmitCorrelationLinks ==
    ASSUME LinksInv, ScansTyped', EmitCorrelation, NEW y \in Scans PROVE LinksOK(y)'
<1>1. ScansTyped /\ turn # None /\ GatewayTypeInv
  BY DEF LinksInv, GatewayTypeInv, EmitCorrelation
<1> PICK x \in Scans : x = turn.scan
  BY <1>1, TurnIsTyped
<1> PICK c : c = Fresh
  OBVIOUS
<1>2. /\ turn' \in TurnRecord /\ turn'.scan = x /\ turn'.new = turn.new
      /\ turn'.rules = turn.rules /\ turn.links # <<>> /\ turn'.links = Tail(turn.links)
      /\ c \notin DOMAIN about /\ about'[c].links = Head(turn.links)
      /\ \A n \in DOMAIN about : about'[n] = about[n]
      /\ scan' = [scan EXCEPT ![x].emitted = Append(@, c)]
  BY <1>1, EmitCorrelationEffect
<1>3. scan \in [Scans -> ScanRecord] /\ scan[x] \in ScanRecord
  BY <1>1 DEF ScansTyped
<1>4. CASE y # x
  <2>1. scan'[y] = scan[y]
    BY <1>2, <1>3, <1>4
  <2>2. scan'[y].phase \in Live => UpToDate(y)
    BY <1>4, <2>1 DEF LinksInv, LinksOK
  <2> QED
    BY <1>1, <1>2, <1>4, <2>1, <2>2, RequestStays
<1>5. CASE y = x
  <2>1. scan[x].phase = "running" /\ turn.links \in Seq(SUBSET Nat) /\ InTurn(x)
    BY <1>1, TurnIsTyped DEF LinksInv, LinksOK, Live
  <2>2. /\ scan'[x].collected = scan[x].collected /\ scan'[x].existing = scan[x].existing
        /\ scan'[x].emitted = Append(scan[x].emitted, c)
    BY <1>2, <1>3 DEF ScanRecord
  <2>3. EmittedLinks(x)' = Append(EmittedLinks(x), Head(turn.links))
    <3> PICK m \in Nat : m = Len(scan[x].emitted)
      BY <1>1, ScanIsTyped, LenProperties
    <3>1. /\ EmittedLinks(x) \in Seq(SUBSET Nat) /\ Len(EmittedLinks(x)) = m
          /\ \A i \in 1..m : /\ scan[x].emitted[i] \in DOMAIN about
                             /\ EmittedLinks(x)[i] = about[scan[x].emitted[i]].links
      BY <1>1, ScanIsTyped
    <3>2. /\ DOMAIN scan'[x].emitted = 1..(m + 1) /\ scan'[x].emitted[m + 1] = c
          /\ \A i \in 1..m : scan'[x].emitted[i] = scan[x].emitted[i]
      BY <1>1, <2>2, ScanIsTyped
    <3>4. Head(turn.links) \in SUBSET Nat
      BY <1>2, <2>1, HeadTailProperties
    <3>11. EmittedLinks(x)' = [i \in 1..(m + 1) |-> about'[scan'[x].emitted[i]].links]
      BY <3>2 DEF EmittedLinks
    <3>12. \A i \in 1..m : about'[scan'[x].emitted[i]].links = EmittedLinks(x)[i]
      BY <1>2, <3>1, <3>2
    <3>13. about'[scan'[x].emitted[m + 1]].links = Head(turn.links)
      BY <1>2, <3>2
    <3> DEFINE old == EmittedLinks(x)
               new == EmittedLinks(x)'
               h   == Head(turn.links)
    <3>5. new = [i \in 1..(m + 1) |-> new[i]]
      BY <3>11
    <3>6. ASSUME NEW i \in 1..m PROVE new[i] = old[i]
      <4>1. i \in 1..(m + 1)
        OBVIOUS
      <4> QED
        BY <3>11, <3>12, <4>1
    <3>7. new[m + 1] = h
      <4>1. m + 1 \in 1..(m + 1)
        OBVIOUS
      <4> HIDE DEF h
      <4> QED
        BY <3>11, <3>13, <4>1 DEF h
    <3> DEFINE T == SUBSET Nat
    <3>8. old \in Seq(T) /\ HasLength(old, m)
      BY <3>1 DEF HasLength
    <3> HIDE DEF old, new, h, T
    <3>9. new = Append(old, new[m + 1])
      BY <3>5, <3>6, <3>8, OneLonger
    <3>10. new = Append(old, h)
      BY <3>7, <3>9
    <3> QED
      BY <3>10 DEF old, new, h
  <2>4. EmittedLinks(x)' \o turn'.links = EmittedLinks(x) \o turn.links
    <3>1. EmittedLinks(x) \in Seq(SUBSET Nat)
      BY <1>1, ScanIsTyped
    <3> QED
      BY <1>2, <2>1, <2>3, <3>1, HeadFirst
  <2>5. InTurn(x)'
    <3>1. PICK k \in Nat, n \in Nat :
             /\ k + Len(turn.rules) = Len(Rules)
             /\ \A i \in 1..Len(turn.rules) : turn.rules[i] = Rules[k + i]
             /\ n + 1 = Len(scan[x].collected) /\ scan[x].collected[n + 1] = turn.new
             /\ EmittedLinks(x) \o turn.links =
                   FirstLinks(scan[x].collected, scan[x].existing, n)
                      \o FirstRules(turn.new, scan[x].existing, k)
      BY <2>1 DEF InTurn
    <3>2. EmittedLinks(x)' \o turn'.links =
              FirstLinks(scan'[x].collected, scan'[x].existing, n)
                 \o FirstRules(turn'.new, scan'[x].existing, k)
      BY <1>2, <2>2, <2>4, <3>1
    <3> QED
      BY <1>2, <2>2, <3>1, <3>2 DEF InTurn
  <2> QED
    BY <1>2, <1>5, <2>5, NoTurnAssumption DEF LinksOK
<1> QED
  BY <1>4, <1>5

\* The turn ends when all rules ran and all their correlations were added.
LEMMA EndTurnLinks ==
    ASSUME LinksInv, EndTurn, NEW y \in Scans PROVE LinksOK(y)'
<1>1. /\ ScansTyped /\ turn # None /\ turn.links = <<>> /\ turn.rules = <<>>
      /\ turn' = None /\ UNCHANGED <<scan, about>>
  BY DEF LinksInv, GatewayTypeInv, EndTurn
<1>2. scan[y].phase \in Live => UpToDate(y)
  <2> SUFFICES ASSUME scan[y].phase \in Live, turn.scan = y PROVE UpToDate(y)
    BY <1>1 DEF LinksInv, LinksOK
  <2> DEFINE found == scan[y].collected
             had == scan[y].existing
  <2>1. /\ turn.new \in Known /\ had \in Seq(Known) /\ Len(had) <= MaxSize
        /\ found \in Seq(Known) /\ Len(found) \in Nat
        /\ EmittedLinks(y) \in Seq(SUBSET Nat)
    BY <1>1, TurnIsTyped, ScanIsTyped
  <2>2. PICK k \in Nat, n \in Nat :
           /\ k + Len(turn.rules) = Len(Rules)
           /\ n + 1 = Len(found) /\ found[n + 1] = turn.new
           /\ EmittedLinks(y) \o turn.links = FirstLinks(found, had, n)
                                                 \o FirstRules(turn.new, had, k)
    BY <1>1 DEF LinksInv, LinksOK, InTurn
  <2>3. k = Len(Rules)
    BY <1>1, <2>2, RulesAreSeq
  <2>4. EmittedLinks(y) \o turn.links = EmittedLinks(y)
    BY <1>1, <2>1, ConcatEmptySeq
  <2> HIDE DEF found, had
  <2>5. FirstRules(turn.new, had, k) = LinksOf(found[n + 1], had)
    BY <2>2, <2>3, AllRules
  <2>6. FirstLinks(found, had, n + 1) =
            FirstLinks(found, had, n) \o LinksOf(found[n + 1], had)
    <3>1. n + 1 <= Len(found)
      BY <2>1, <2>2
    <3> QED
      BY <2>1, <3>1, NextFinding
  <2>7. EmittedLinks(y) = FirstLinks(found, had, Len(found))
    BY <2>2, <2>4, <2>5, <2>6
  <2> QED
    BY <2>7 DEF UpToDate, found, had
<1> QED
  BY <1>1, <1>2, RequestStays

\* The other steps of a request: a fresh one has nothing to emit, one that
\* broke promises nothing, one that ends was up to date.
LEMMA RequestLinks ==
    ASSUME LinksInv, NEW y \in Scans,
           \/ \E x \in Scans, source \in Sources : StartScan(x, source)
           \/ RuleBreaks
           \/ \E x \in Scans : AdapterRaises(x) \/ FinishScan(x)
    PROVE  LinksOK(y)'
<1>1. ScansTyped /\ scan \in [Scans -> ScanRecord] /\ scan[y] \in ScanRecord
  BY DEF LinksInv, GatewayTypeInv, ScansTyped
<1>2. turn' = None /\ about' = about
  BY DEF StartScan, RuleBreaks, AdapterRaises, FinishScan, LoopFree
<1>3. ASSUME NEW x \in Scans, NEW source \in Sources, StartScan(x, source)
      PROVE  LinksOK(y)'
  <2> DEFINE r == IF source \in Products THEN Request("running", findings)
                                         ELSE Request("rejected", <<>>)
  <2>1. turn = None /\ scan' = [scan EXCEPT ![x] = r]
    BY <1>3 DEF StartScan, LoopFree
  <2>2. r.emitted = <<>> /\ r.collected = <<>>
    BY DEF Request
  <2> HIDE DEF r
  <2>3. CASE y = x
    <3>1. scan'[y] = r
      BY <1>1, <2>1, <2>3
    <3>2. EmittedLinks(y)' = <<>>
      BY <2>2, <3>1 DEF EmittedLinks
    <3>3. FirstLinks(scan'[y].collected, scan'[y].existing, 0) = <<>>
      BY NothingYet
    <3>4. Len(scan'[y].collected) = 0
      BY <2>2, <3>1
    <3>5. UpToDate(y)'
      BY <3>2, <3>3, <3>4 DEF UpToDate
    <3> QED
      BY <1>2, <3>5 DEF LinksOK
  <2>4. CASE y # x
    <3>1. scan'[y] = scan[y]
      BY <1>1, <2>1, <2>4
    <3>2. scan'[y].phase \in Live => UpToDate(y)
      BY <2>1, <3>1 DEF LinksInv, LinksOK
    <3> QED
      BY <1>1, <1>2, <3>1, <3>2, RequestStays
  <2> QED
    BY <2>3, <2>4
<1>4. CASE RuleBreaks
  <2>1. turn # None /\ turn.scan \in Scans
        /\ scan' = [scan EXCEPT ![turn.scan].phase = "rule_failed"]
    BY <1>1, <1>4, TurnIsTyped DEF RuleBreaks
  <2>2. CASE y = turn.scan
    <3>1. scan'[y].phase = "rule_failed"
      BY <1>1, <2>1, <2>2 DEF ScanRecord
    <3> QED
      BY <3>1 DEF LinksOK, Live
  <2>3. CASE y # turn.scan
    <3>1. scan'[y] = scan[y]
      BY <1>1, <2>1, <2>3
    <3>2. scan'[y].phase \in Live => UpToDate(y)
      BY <2>3, <3>1 DEF LinksInv, LinksOK
    <3> QED
      BY <1>1, <1>2, <3>1, <3>2, RequestStays
  <2> QED
    BY <2>2, <2>3
<1>5. ASSUME NEW x \in Scans, AdapterRaises(x) \/ FinishScan(x) PROVE LinksOK(y)'
  <2>1. turn = None /\ scan[x].phase = "running"
    BY <1>5 DEF AdapterRaises, FinishScan, LoopFree
  <2>2. PICK p : scan' = [scan EXCEPT ![x].phase = p]
    BY <1>5 DEF AdapterRaises, FinishScan
  <2>3. /\ scan'[y].emitted = scan[y].emitted /\ scan'[y].collected = scan[y].collected
        /\ scan'[y].existing = scan[y].existing
    BY <1>1, <2>2 DEF ScanRecord
  <2>4. y # x => scan'[y] = scan[y]
    BY <1>1, <2>2
  <2>5. scan'[y].phase \in Live => UpToDate(y)
    BY <2>1, <2>4 DEF LinksInv, LinksOK, Live
  <2> QED
    BY <1>1, <1>2, <2>3, <2>5, RequestStays
<1> QED
  BY <1>3, <1>4, <1>5

\* No request has begun.
LEMMA LinksInit == GatewayInit => LinksInv
<1> SUFFICES ASSUME GatewayInit PROVE LinksInv
  OBVIOUS
<1>1. GatewayTypeInv
  BY GatewayTypeInit
<1>2. \A x \in Scans : scan[x].phase = "absent"
  BY DEF GatewayInit, Request
<1> QED
  BY <1>1, <1>2 DEF LinksInv, LinksOK, Live

\* Every step keeps the correlations in line.
LEMMA LinksStep == LinksInv /\ [GatewayNext]_allVars => LinksInv'
<1> SUFFICES ASSUME LinksInv, [GatewayNext]_allVars PROVE LinksInv'
  OBVIOUS
<1>1. GatewayTypeInv /\ ScansTyped
  BY DEF LinksInv, GatewayTypeInv
<1>2. GatewayTypeInv' /\ ScansTyped'
  BY <1>1, GatewayTypeStep DEF GatewayTypeInv
<1>3. published \subseteq published'
  BY <1>1, GatewayStepIsRegistryStep, StoreGrows
<1> SUFFICES ASSUME NEW y \in Scans PROVE LinksOK(y)'
  BY <1>2 DEF LinksInv
<1>4. CASE \E x \in Scans, body \in Contents : ScanFinding(x, body)
  BY <1>3, <1>4, ScanFindingLinks
<1>5. CASE RunRule
  BY <1>5, RunRuleLinks
<1>6. CASE EmitCorrelation
  BY <1>2, <1>6, EmitCorrelationLinks
<1>7. CASE EndTurn
  BY <1>7, EndTurnLinks
<1>8. CASE \/ \E x \in Scans, source \in Sources : StartScan(x, source)
           \/ RuleBreaks
           \/ \E x \in Scans : AdapterRaises(x) \/ FinishScan(x)
  BY <1>8, RequestLinks
<1>9. CASE (RegistryStep /\ UNCHANGED gatewayVars) \/ UNCHANGED allVars
  <2>1. UNCHANGED <<scan, turn, about>>
    BY <1>9 DEF gatewayVars, allVars
  <2>2. EmittedLinks(y)' = EmittedLinks(y)
    BY <2>1 DEF EmittedLinks
  <2>3. UpToDate(y)' = UpToDate(y) /\ InTurn(y)' = InTurn(y)
    BY <2>1, <2>2 DEF UpToDate, InTurn
  <2> QED
    BY <2>1, <2>3 DEF LinksInv, LinksOK
<1> QED
  BY <1>4, <1>5, <1>6, <1>7, <1>8, <1>9 DEF GatewayNext

\* Between two turns, that is the property.
LEMMA LinksImply == LinksInv => CorrelationsUpToDate
<1> SUFFICES ASSUME LinksInv, turn = None, NEW x \in Scans, scan[x].phase \in Live
             PROVE  EmittedLinks(x) = ExpectedLinks(x)
  BY DEF CorrelationsUpToDate, EmittedLinks, LoopFree, Live
<1>1. UpToDate(x)
  BY DEF LinksInv, LinksOK
<1>2. DOMAIN scan[x].collected = 1..Len(scan[x].collected)
  BY ScanIsTyped, LenProperties DEF LinksInv, GatewayTypeInv
<1> QED
  BY <1>1, <1>2 DEF UpToDate, FirstLinks, ExpectedLinks

\* Every variable of the gateway keeps its type.
THEOREM GatewayTypeCorrect == GatewaySpec => []GatewayTypeOK
<1>1. GatewaySpec => []GatewayTypeInv
  BY GatewayTypeInit, GatewayTypeStep, PTL DEF GatewaySpec
<1> QED
  BY <1>1, GatewayTypeImplies, PTL

\* Between two turns, every finding of a scan that did not break off has all its
\* correlations and no others, in the order of the findings and of the rules.
THEOREM ScansAreCorrelated == GatewaySpec => []CorrelationsUpToDate
<1>1. GatewaySpec => []LinksInv
  BY LinksInit, LinksStep, PTL DEF GatewaySpec
<1> QED
  BY <1>1, LinksImply, PTL

\* The gateway's store and its answers are those of the registry.
THEOREM GatewayStoreIsSound == GatewaySpec => [](StoreIsNewest /\ QueryAnswer)
  BY GatewayImplementsRegistry, StoreHoldsTheNewest, QueriesAreAnswered, PTL
=============================================================================
