------------------------------ MODULE ChatCall ------------------------------
(***************************************************************************)
(* LLMRouter.chat (router.py) with the client's retries (client.py), the   *)
(* audit sink (audit.py) and the span around the call (telemetry.py).      *)
(*                                                                         *)
(* Each call runs on a thread of its own; the calls share the router, the  *)
(* HTTP clients that close() closes, and the audit sink.  The provider is  *)
(* outside the code: what it carried out is known to the model only.       *)
(***************************************************************************)
EXTENDS Naturals, Sequences

CONSTANTS Calls,        \* calls of router.chat
          Unroutable,   \* those whose tier has no rule or no enabled provider
          MaxAttempts,  \* stop_after_attempt, 3 in the code
          Backend,      \* AuditConfig.backend; "none" for a router without audit
          Interruptible \* the calls that an interrupt may hit: Python raises
                        \* KeyboardInterrupt on the main thread only

ASSUME CallsAssumption == Unroutable \subseteq Calls
ASSUME AttemptsAssumption == MaxAttempts \in Nat \ {0}
ASSUME InterruptibleAssumption == Interruptible \subseteq Calls
ASSUME BackendAssumption == Backend \in {"jsonl", "stdout", "noop", "none"}

VARIABLES phase,     \* where each call stands
          attempt,   \* the number of the current or last HTTP attempt
          span,      \* llm.call: not started, or its llm.success
          sink,      \* the audit file or stream: [call, whole], in write order
          closed,    \* router.close() was called
          served,    \* history: requests of the call the provider carried out
          killed     \* history: calls that an interrupt hit

vars == <<phase, attempt, span, sink, closed, served, killed>>

AuditRecord == [call : Calls, whole : BOOLEAN]

\* "noop" and a missing audit log write nothing.
Appends == Backend \in {"jsonl", "stdout"}
-----------------------------------------------------------------------------
Goto(c, p) == phase' = [phase EXCEPT ![c] = p]

\* An attempt begins.  If close() came before, the client refuses to send.
Posting == IF closed THEN "refusing" ELSE "posting"

\* resolve() finds a client: the span opens and the first attempt begins.
Resolve(c) ==
    /\ phase[c] = "idle" /\ c \notin Unroutable
    /\ Goto(c, Posting)
    /\ attempt' = [attempt EXCEPT ![c] = 1]
    /\ span' = [span EXCEPT ![c] = "unset"]
    /\ UNCHANGED <<sink, closed, served, killed>>

\* resolve() raises KeyError, before any span.
ResolveFails(c) ==
    /\ phase[c] = "idle" /\ c \in Unroutable
    /\ Goto(c, "raised")
    /\ UNCHANGED <<attempt, span, sink, closed, served, killed>>

\* A 200 reply that parses.
PostSucceeds(c) ==
    /\ phase[c] = "posting"
    /\ Goto(c, "answered")
    /\ served' = [served EXCEPT ![c] = @ + 1]
    /\ UNCHANGED <<attempt, span, sink, closed, killed>>

\* Mutant: one attempt too many.
GiveUpOrWaitLate(c) ==
    Goto(c, IF attempt[c] <= MaxAttempts THEN "waiting" ELSE "failing")

\* Any exception makes tenacity try again, after a wait, until the last
\* attempt, whose exception it raises.
GiveUpOrWait(c) ==
    Goto(c, IF attempt[c] < MaxAttempts THEN "waiting" ELSE "failing")

\* The request never reaches the provider, is refused with an error status,
\* or meets a closed client.
PostRefused(c) ==
    /\ phase[c] \in {"posting", "refusing"}
    /\ GiveUpOrWait(c)
    /\ UNCHANGED <<attempt, span, sink, closed, served, killed>>

\* The provider carries the request out, but the reply is lost or late, is no
\* JSON, or is one that _parse rejects -- the null content of a tool call, for
\* one.
ReplyLost(c) ==
    /\ phase[c] = "posting"
    /\ served' = [served EXCEPT ![c] = @ + 1]
    /\ GiveUpOrWait(c)
    /\ UNCHANGED <<attempt, span, sink, closed, killed>>

Retry(c) ==
    /\ phase[c] = "waiting"
    /\ Goto(c, Posting)
    /\ attempt' = [attempt EXCEPT ![c] = @ + 1]
    /\ UNCHANGED <<span, sink, closed, served, killed>>

\* audit.record succeeds, or there is nothing to write.
Record(c) ==
    /\ phase[c] = "answered"
    /\ sink' = IF Appends THEN Append(sink, [call |-> c, whole |-> TRUE]) ELSE sink
    /\ Goto(c, "recorded")
    /\ UNCHANGED <<attempt, span, closed, served, killed>>

\* What a broken-off audit.record leaves: nothing, a part of the line, or all.
MayAppend(c) ==
    \/ UNCHANGED sink
    \/ /\ Appends
       /\ \E whole \in BOOLEAN : sink' = Append(sink, [call |-> c, whole |-> whole])

\* Mutant: the error of audit.record is swallowed.
RecordFailsSwallowed(c) ==
    /\ phase[c] = "answered" /\ Backend # "none"
    /\ MayAppend(c)
    /\ Goto(c, "recorded")
    /\ UNCHANGED <<attempt, span, closed, served, killed>>

\* audit.record raises: the text of the reply is no valid Unicode (whatever the
\* backend), opening fails, the disk fills up in the middle of the line, or the
\* error comes after all of it was written.
RecordFails(c) ==
    /\ phase[c] = "answered" /\ Backend # "none"
    /\ MayAppend(c)
    /\ Goto(c, "failing")
    /\ UNCHANGED <<attempt, span, closed, served, killed>>

\* Mutant: a paid answer counts as a success, recorded or not.
NoteFailureOfClient(c) ==
    /\ phase[c] = "failing"
    /\ span' = [span EXCEPT ![c] = IF served[c] = attempt[c] THEN "success" ELSE "failure"]
    /\ Goto(c, "raised")
    /\ UNCHANGED <<attempt, sink, closed, served, killed>>

\* The handler of `except BaseException` notes the failure and raises again.
NoteFailure(c) ==
    /\ phase[c] = "failing"
    /\ span' = [span EXCEPT ![c] = "failure"]
    /\ Goto(c, "raised")
    /\ UNCHANGED <<attempt, sink, closed, served, killed>>

\* Behind the try, the success is noted ...
NoteSuccess(c) ==
    /\ phase[c] = "recorded" /\ span[c] = "unset"
    /\ span' = [span EXCEPT ![c] = "success"]
    /\ UNCHANGED <<phase, attempt, sink, closed, served, killed>>

\* ... and the response is returned.
Return(c) ==
    /\ phase[c] = "recorded" /\ span[c] = "success"
    /\ Goto(c, "returned")
    /\ UNCHANGED <<attempt, span, sink, closed, served, killed>>

\* KeyboardInterrupt or SystemExit inside the try, which tenacity does not
\* retry: the request may have been carried out, the record been written.
Interrupt(c) ==
    /\ c \in Interruptible
    /\ phase[c] \in {"posting", "refusing", "waiting", "answered"}
    /\ killed' = killed \cup {c}
    /\ \/ UNCHANGED served
       \/ phase[c] = "posting" /\ served' = [served EXCEPT ![c] = @ + 1]
    /\ UNCHANGED sink \/ (phase[c] = "answered" /\ MayAppend(c))
    /\ Goto(c, "failing")
    /\ UNCHANGED <<attempt, span, closed>>

\* ... or before the try, behind it, or in its handler: nothing more is noted.
InterruptOutside(c) ==
    /\ c \in Interruptible
    /\ \/ phase[c] \in {"posting", "refusing"} /\ attempt[c] = 1
       \/ phase[c] \in {"failing", "recorded"}
    /\ killed' = killed \cup {c}
    /\ Goto(c, "raised")
    /\ UNCHANGED <<attempt, span, sink, closed, served>>

\* router.close(), by any thread, at any time.
Close ==
    /\ ~closed /\ closed' = TRUE
    /\ UNCHANGED <<phase, attempt, span, sink, served, killed>>
-----------------------------------------------------------------------------
Init ==
    /\ phase = [c \in Calls |-> "idle"]
    /\ attempt = [c \in Calls |-> 0]
    /\ span = [c \in Calls |-> "none"]
    /\ sink = <<>>
    /\ closed = FALSE
    /\ served = [c \in Calls |-> 0]
    /\ killed = {}

Step(c) ==
    \/ Resolve(c) \/ ResolveFails(c)
    \/ PostSucceeds(c) \/ PostRefused(c) \/ ReplyLost(c) \/ Retry(c)
    \/ Record(c) \/ RecordFails(c)
    \/ NoteFailure(c) \/ NoteSuccess(c) \/ Return(c)
    \/ Interrupt(c) \/ InterruptOutside(c)

Next == Close \/ \E c \in Calls : Step(c)

Spec == Init /\ [][Next]_vars
-----------------------------------------------------------------------------
\* Where a call is before its audit.record ends.
Unrecorded == {"idle", "posting", "refusing", "waiting", "answered"}
Phase      == Unrecorded \cup {"recorded", "failing", "returned", "raised"}

\* Every variable keeps its type, no call is tried more often than allowed,
\* and the provider carried out no more requests than were made.
TypeOK ==
    /\ phase \in [Calls -> Phase]
    /\ attempt \in [Calls -> 0..MaxAttempts]
    /\ span \in [Calls -> {"none", "unset", "success", "failure"}]
    /\ sink \in Seq(AuditRecord)
    /\ closed \in BOOLEAN
    /\ served \in [Calls -> 0..MaxAttempts]
    /\ killed \subseteq {c \in Calls : phase[c] \in {"failing", "raised"}}

Ended(c)     == phase[c] \in {"returned", "raised"}
RecordsOf(c) == {i \in DOMAIN sink : sink[i].call = c}

\* The audit trail and the outcomes agree: a returned answer has exactly one
\* record, a complete one; no call is recorded twice, or while it may still be
\* tried again; and an incomplete record belongs to a call that fails.
TrailMatchesOutcomes ==
    \A c \in Calls :
        /\ \A i, j \in RecordsOf(c) : i = j
        /\ phase[c] \in Unrecorded => RecordsOf(c) = {}
        /\ \A i \in RecordsOf(c) : ~sink[i].whole => phase[c] \in {"failing", "raised"}
        /\ phase[c] \in {"recorded", "returned"} /\ Appends => RecordsOf(c) # {}

\* A record is readable when it is complete and starts on a line of its own.
Readable(i) == sink[i].whole /\ (i > 1 => sink[i - 1].whole)

\* A failed write costs the reader of the trail at most one other call: a
\* returned call whose record cannot be read follows the torn record of a call
\* that fails, and no two calls are lost to the same torn record.
LossIsBounded ==
    \A c \in Calls : phase[c] = "returned" =>
        \A i \in RecordsOf(c) :
            ~Readable(i) => i > 1 /\ phase[sink[i - 1].call] \in {"failing", "raised"}

\* llm.success tells the outcome.  Every call that returns says success, every
\* call that raises by itself says failure -- also one whose answer was paid for
\* but not recorded --, and an interrupt never turns one into the other: whatever
\* hit the call, success means that its answer is there and completely on record,
\* and failure that it is not returned.
SpanMatchesOutcome ==
    \A c \in Calls :
        /\ phase[c] = "returned" => span[c] = "success"
        /\ phase[c] = "raised" /\ c \notin killed \cup Unroutable => span[c] = "failure"
        /\ span[c] = "failure" => phase[c] = "raised"
        /\ span[c] = "success" =>
              /\ served[c] > 0
              /\ phase[c] \in {"recorded", "returned"} \/ c \in killed
              /\ Appends => \E i \in RecordsOf(c) : sink[i].whole

\* docs/v0.1-contract.md: a failing audit write does not affect what chat
\* returns.
AuditFailureHarmless ==
    [][\A c \in Calls : phase[c] = "answered" => phase'[c] # "failing"]_vars
=============================================================================
