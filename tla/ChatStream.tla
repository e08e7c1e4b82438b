----------------------------- MODULE ChatStream -----------------------------
(***************************************************************************)
(* LLMClient.stream (client.py): a generator that turns the lines of one   *)
(* streamed reply into text.  It works only while its caller asks for the  *)
(* next piece; the caller may pause, or drop it; the provider may end the  *)
(* reply, with or without [DONE], or break off; close() may come from      *)
(* another thread.  The streams of a client share its connections.         *)
(*                                                                         *)
(* A piece of text is named by the number of its line.                     *)
(***************************************************************************)
EXTENDS Naturals, Sequences, FiniteSets

CONSTANTS Streams,
          PoolSize,   \* connections of the HTTP client
          MaxLines    \* bound: lines per reply

ASSUME PoolAssumption == PoolSize \in Nat \ {0} /\ MaxLines \in Nat

\* "delta" carries text; "other" does not: a comment, an empty line, a chunk
\* with no content; "bad" is no JSON or has an empty list of choices.
Kinds == {"delta", "other", "done", "bad"}

VARIABLES phase,   \* the generator of each stream
          pos,     \* the lines it has looked at
          got,     \* what it yielded: numbers of lines
          posts,   \* the requests it sent
          sent,    \* the lines the provider sent
          conns,   \* the streams that hold a connection
          wire,    \* the reply: "none" so far, "open", "eof", "broken"
          closed   \* close() was called

vars == <<phase, pos, got, posts, sent, conns, wire, closed>>
-----------------------------------------------------------------------------
(***************************************************************************)
(* The generator.                                                          *)
(***************************************************************************)
\* The `with` block is left, however that happens: the connection is given back.
End(s, how) ==
    /\ phase' = [phase EXCEPT ![s] = how]
    /\ conns' = conns \ {s}
    /\ UNCHANGED wire

\* The first next() sends the request; nothing was sent before.
Connect(s) ==
    /\ phase[s] = "created" /\ ~closed /\ Cardinality(conns) < PoolSize
    /\ phase' = [phase EXCEPT ![s] = "reading"]
    /\ conns' = conns \cup {s} /\ wire' = [wire EXCEPT ![s] = "open"]
    /\ posts' = [posts EXCEPT ![s] = @ + 1]
    /\ UNCHANGED <<pos, got, sent, closed>>

\* No connection in time, a closed client, or an error status.
ConnectFails(s) ==
    /\ phase[s] = "created"
    /\ \E k \in {0, 1} : posts' = [posts EXCEPT ![s] = @ + k]
    /\ phase' = [phase EXCEPT ![s] = "raised"]
    /\ UNCHANGED <<pos, got, sent, conns, wire, closed>>

HasLine(s) == phase[s] = "reading" /\ pos[s] < Len(sent[s])
Line(s)    == sent[s][pos[s] + 1]
Advance(s) == pos' = [pos EXCEPT ![s] = @ + 1] /\ UNCHANGED <<posts, sent, closed>>

Yield(s) ==
    /\ HasLine(s) /\ Line(s) = "delta"
    /\ Advance(s)
    /\ got' = [got EXCEPT ![s] = Append(@, pos[s] + 1)]
    /\ phase' = [phase EXCEPT ![s] = "suspended"]
    /\ UNCHANGED <<conns, wire>>

SkipLine(s) ==
    /\ HasLine(s) /\ Line(s) = "other"
    /\ Advance(s)
    /\ UNCHANGED <<phase, got, conns, wire>>

\* Mutant: [DONE] is a line without text.
SkipDone(s) ==
    /\ HasLine(s) /\ Line(s) = "done"
    /\ Advance(s)
    /\ UNCHANGED <<phase, got, conns, wire>>

ReadDone(s) ==
    /\ HasLine(s) /\ Line(s) = "done"
    /\ Advance(s) /\ End(s, "exhausted")
    /\ UNCHANGED got

ReadBad(s) ==
    /\ HasLine(s) /\ Line(s) = "bad"
    /\ Advance(s) /\ End(s, "raised")
    /\ UNCHANGED got

\* The reply ends in good order, with [DONE] or without.
ReadEof(s) ==
    /\ phase[s] = "reading" /\ wire[s] = "eof" /\ pos[s] = Len(sent[s])
    /\ End(s, "exhausted")
    /\ UNCHANGED <<pos, got, posts, sent, closed>>

\* Mutants: a broken stream is asked for again, or taken for complete.
ReadBrokenRetries(s) ==
    /\ phase[s] = "reading" /\ wire[s] = "broken"
    /\ End(s, "created")
    /\ UNCHANGED <<pos, got, posts, sent, closed>>
ReadBrokenEnds(s) ==
    /\ phase[s] = "reading" /\ wire[s] = "broken"
    /\ End(s, "exhausted")
    /\ UNCHANGED <<pos, got, posts, sent, closed>>

\* A transport error or the read timeout, with or without the lines that had
\* come before it: not retried.
ReadBroken(s) ==
    /\ phase[s] = "reading" /\ wire[s] = "broken"
    /\ End(s, "raised")
    /\ UNCHANGED <<pos, got, posts, sent, closed>>
-----------------------------------------------------------------------------
(***************************************************************************)
(* Its caller.                                                             *)
(***************************************************************************)
\* next()
Resume(s) ==
    /\ phase[s] = "suspended"
    /\ phase' = [phase EXCEPT ![s] = "reading"]
    /\ UNCHANGED <<pos, got, posts, sent, conns, wire, closed>>

\* Mutant: a dropped generator keeps its connection.
DropLeaks(s) ==
    /\ phase[s] \in {"created", "suspended"}
    /\ phase' = [phase EXCEPT ![s] = "dropped"]
    /\ UNCHANGED <<pos, got, posts, sent, conns, wire, closed>>

\* The generator is closed or garbage: GeneratorExit at its yield.
Drop(s) ==
    /\ phase[s] \in {"created", "suspended"}
    /\ End(s, "dropped")
    /\ UNCHANGED <<pos, got, posts, sent, closed>>

\* LLMClient.close: replies break off, except those that are at their end, or
\* in a buffer, or whose reader is in the middle of a read.
Close ==
    /\ ~closed /\ closed' = TRUE
    /\ \E cut \in SUBSET conns :
          wire' = [s \in Streams |-> IF s \in cut THEN "broken" ELSE wire[s]]
    /\ UNCHANGED <<phase, pos, got, posts, sent, conns>>
-----------------------------------------------------------------------------
(***************************************************************************)
(* The provider, at its own pace.                                          *)
(***************************************************************************)
Send(s, kind) ==
    /\ s \in conns /\ wire[s] = "open" /\ Len(sent[s]) < MaxLines
    /\ sent' = [sent EXCEPT ![s] = Append(@, kind)]
    /\ UNCHANGED <<phase, pos, got, posts, conns, wire, closed>>

Finish(s) ==
    /\ s \in conns /\ wire[s] = "open"
    /\ \E how \in {"eof", "broken"} : wire' = [wire EXCEPT ![s] = how]
    /\ UNCHANGED <<phase, pos, got, posts, sent, conns, closed>>
-----------------------------------------------------------------------------
Init ==
    /\ phase = [s \in Streams |-> "created"]
    /\ pos = [s \in Streams |-> 0] /\ posts = [s \in Streams |-> 0]
    /\ got = [s \in Streams |-> <<>>] /\ sent = [s \in Streams |-> <<>>]
    /\ conns = {} /\ wire = [s \in Streams |-> "none"]
    /\ closed = FALSE

\* What the generator does once it is asked.
Read(s) ==
    \/ Connect(s) \/ ConnectFails(s)
    \/ Yield(s) \/ SkipLine(s) \/ ReadDone(s) \/ ReadBad(s)
    \/ ReadEof(s) \/ ReadBroken(s)

Next ==
    \/ Close
    \/ \E s \in Streams :
          \/ Read(s) \/ Resume(s) \/ Drop(s) \/ Finish(s)
          \/ \E kind \in Kinds : Send(s, kind)

Spec == Init /\ [][Next]_vars
-----------------------------------------------------------------------------
Ended(s) == phase[s] \in {"exhausted", "raised", "dropped"}

\* Every variable keeps its type; no request is sent twice.
TypeOK ==
    /\ phase \in [Streams -> {"created", "reading", "suspended",
                              "exhausted", "raised", "dropped"}]
    /\ sent \in [Streams -> Seq(Kinds)] /\ got \in [Streams -> Seq(Nat)]
    /\ posts \in [Streams -> {0, 1}]
    /\ wire \in [Streams -> {"none", "open", "eof", "broken"}]
    /\ conns \subseteq Streams /\ closed \in BOOLEAN
    /\ pos \in [Streams -> Nat] /\ \A s \in Streams : pos[s] <= Len(sent[s])

\* Exactly the generators that wait for a line or for their caller hold a
\* connection, however the others ended; one that its caller leaves suspended
\* keeps it, and with PoolSize of them nothing else can be asked.
ConnectionsAreGivenBack ==
    /\ conns = {s \in Streams : phase[s] \in {"reading", "suspended"}}
    /\ Cardinality(conns) <= PoolSize

\* The lines whose text the caller has.
Texts(s) == {got[s][k] : k \in DOMAIN got[s]}

\* What the caller has is the text of the lines looked at so far, in order,
\* nothing twice and nothing skipped, however it is paced; and nothing behind
\* the first [DONE] or behind a line that cannot be read.
TextIsInOrder ==
    \A s \in Streams :
        /\ Texts(s) = {i \in 1..pos[s] : sent[s][i] = "delta"}
        /\ \A j, k \in DOMAIN got[s] : j < k => got[s][j] < got[s][k]
        /\ \A i \in 1..pos[s] : sent[s][i] \in {"done", "bad"} =>
              i = pos[s] /\ Ended(s)

\* A caller that sees the normal end has all text up to [DONE] -- or all text,
\* if the provider ended its reply without [DONE], which looks the same to the
\* caller; a reply that broke off never looks complete.
EndMeansComplete ==
    \A s \in Streams : phase[s] = "exhausted" =>
        \/ pos[s] > 0 /\ sent[s][pos[s]] = "done"
        \/ /\ wire[s] = "eof"
           /\ Texts(s) = {i \in DOMAIN sent[s] : sent[s][i] = "delta"}
=============================================================================
