----------------------------- MODULE EventStream -----------------------------
(***************************************************************************)
(* What gateway.py promises a client of /v0.5/stream, without queues: items *)
(* arrive once, in the order they were published, starting with the first  *)
(* one published after the client joined, and an item is lost only when the *)
(* client already has `Cap` items to catch up with.                        *)
(***************************************************************************)
EXTENDS Naturals, FiniteSets

CONSTANTS Subscribers,
          Cap            \* how far a client may lag before it loses items

VARIABLES horizon,       \* items are numbered 1..horizon as they are created
          published,     \* the items that are announced
          listening,     \* the clients that joined and did not leave
          cursor,        \* the last item each client was handed
          lost           \* the items each client lost

vars == <<horizon, published, listening, cursor, lost>>

\* What a client has not been handed yet.
Pending(s) == {n \in published : n > cursor[s]} \ lost[s]
Behind(s)  == s \in listening /\ Cardinality(Pending(s)) >= Cap

Init ==
    /\ horizon = 0
    /\ published = {}
    /\ listening = {}
    /\ cursor = [s \in Subscribers |-> 0]
    /\ lost = [s \in Subscribers |-> {}]

Publish ==
    /\ horizon' = horizon + 1
    /\ published' = published \cup {horizon'}
    /\ \E losers \in SUBSET {s \in Subscribers : Behind(s)} :
          lost' = [s \in Subscribers |->
                      IF s \in losers THEN lost[s] \cup {horizon'} ELSE lost[s]]
    /\ UNCHANGED <<listening, cursor>>

\* An item that is stored and never announced.
CreateSilently ==
    /\ horizon' = horizon + 1
    /\ UNCHANGED <<published, listening, cursor, lost>>

Join(s) ==
    /\ s \notin listening
    /\ listening' = listening \cup {s}
    /\ cursor' = [cursor EXCEPT ![s] = horizon]
    /\ UNCHANGED <<horizon, published, lost>>

Hear(s) ==
    /\ s \in listening
    /\ \E n \in Pending(s) :
          /\ \A m \in Pending(s) : n <= m
          /\ cursor' = [cursor EXCEPT ![s] = n]
    /\ UNCHANGED <<horizon, published, listening, lost>>

Leave(s) ==
    /\ s \in listening
    /\ listening' = listening \ {s}
    /\ UNCHANGED <<horizon, published, cursor, lost>>

Next ==
    \/ Publish
    \/ CreateSilently
    \/ \E s \in Subscribers : Join(s) \/ Hear(s) \/ Leave(s)

Spec == Init /\ [][Next]_vars
=============================================================================
