------------------------------ MODULE SpanGuard ------------------------------
(***************************************************************************)
(* telemetry.span (telemetry.py), nested as products nest it: an entry     *)
(* span around calls of router.chat, each with a span of its own.          *)
(*                                                                         *)
(* The tracer is a library that may be disabled, absent, or fail at any    *)
(* call, and an interrupt may come at any point.  Of the library only this *)
(* is assumed: __enter__ makes the span current, __exit__ makes current    *)
(* what was so before, a call that fails has done its work or nothing.     *)
(* One thread; spans are numbered as they begin.                           *)
(***************************************************************************)
EXTENDS Naturals, Sequences

CONSTANTS None, Remote,  \* no span; the one that `traceparent` names
          MaxSpans,      \* bound: how many spans begin
          MaxDepth       \* bound: how deep they nest

ASSUME NamesAssumption == None \notin Nat /\ Remote \notin Nat
ASSUME BoundsAssumption == MaxSpans \in Nat /\ MaxDepth \in Nat

VARIABLES enabled,    \* SHARED_LLM_OTEL_ENABLED, and the library is installed
          carried,    \* `traceparent` in the environment: absent, valid,
                      \* malformed, or such that extract() raises
          frames,     \* the span() blocks the thread is in, outermost first
          current,    \* the library's current span
          begun,      \* how many spans began
          done,       \* history: the spans that ended
          strays      \* history: the spans that a failure or an interrupt left
                      \* current, until a block around them is left

vars == <<enabled, carried, frames, current, begun, done, strays>>

Top       == frames[Len(frames)]
InPhase(p) == frames # <<>> /\ Top.phase = p
Goto(frame) == frames' = [frames EXCEPT ![Len(frames)] = frame]

\* The block is left: what its body did, what its caller sees, and how often
\* __exit__ was called.
Leave(seen, exits) ==
    /\ frames' = SubSeq(frames, 1, Len(frames) - 1)
    /\ done' = done \cup {[id |-> Top.id, body |-> Top.body, seen |-> seen,
                           entered |-> Top.real, exits |-> exits]}

\* The span detaches: with it goes what was left behind inside its block.
Detach == current' = Top.before /\ strays' = {s \in strays : s < Top.id}

\* Nobody detaches the span, or the one that __enter__ has just made current.
Stray       == current' = current /\ strays' = strays \cup {Top.id}
LeftCurrent == current' = Top.id /\ strays' = strays \cup {Top.id}
-----------------------------------------------------------------------------
\* A span begins, in no span or in the body of one.
Begin ==
    /\ begun < MaxSpans /\ Len(frames) < MaxDepth
    /\ frames # <<>> => Top.phase = "body"
    /\ begun' = begun + 1
    /\ frames' = Append(frames, [id |-> begun', phase |-> "starting", real |-> FALSE,
                                 before |-> None, parent |-> None, body |-> "none"])
    /\ UNCHANGED <<enabled, carried, current, done, strays>>

\* Mutant: the environment counts only where there is no span yet.
ParentLocalFirst == IF current = None /\ carried = "valid" THEN Remote ELSE current

\* _parent_context and what the library makes of it: the span that the
\* environment names; no parent, if extract() finds none in a malformed value and
\* so returns an empty context; without a context, the current span.
Parent == CASE carried = "valid" -> Remote
            [] carried = "malformed" -> None
            [] carried \in {"absent", "unreadable"} -> current

\* get_tracer, start_as_current_span and __enter__ succeed.
Start ==
    /\ InPhase("starting") /\ enabled
    /\ Goto([Top EXCEPT !.phase = "attributes", !.real = TRUE, !.before = current,
                        !.parent = Parent])
    /\ current' = Top.id
    /\ UNCHANGED <<enabled, carried, begun, done, strays>>

\* Mutant: the exception of the tracer reaches the caller.
StartFailsLoudly ==
    /\ InPhase("starting") /\ Leave("error", 0)
    /\ UNCHANGED <<enabled, carried, current, begun, strays>>

\* The no-op tracer, or one of the three raised an Exception: the manager is
\* the no-op one.
StartFails ==
    /\ InPhase("starting")
    /\ UNCHANGED <<current, strays>> \/ (enabled /\ LeftCurrent)
    /\ Goto([Top EXCEPT !.phase = "attributes"])
    /\ UNCHANGED <<enabled, carried, begun, done>>

\* _SafeSpan swallows what set_attribute raises.
SetAttributes ==
    /\ InPhase("attributes")
    /\ Goto([Top EXCEPT !.phase = "body"])
    /\ UNCHANGED <<enabled, carried, current, begun, done, strays>>

\* The body returns, or raises anything.
EndBody ==
    /\ InPhase("body")
    /\ \/ Goto([Top EXCEPT !.phase = "closing", !.body = "value"])
       \/ Goto([Top EXCEPT !.phase = "recording", !.body = "error"])
    /\ UNCHANGED <<enabled, carried, current, begun, done, strays>>

\* record_exception; an Exception it raises is swallowed.
RecordException ==
    /\ InPhase("recording")
    /\ Goto([Top EXCEPT !.phase = "closing"])
    /\ UNCHANGED <<enabled, carried, current, begun, done, strays>>

Exits == IF Top.real THEN 1 ELSE 0

\* Mutant: a body that raises leaves the span without __exit__.
ExitOnValueOnly ==
    /\ InPhase("closing")
    /\ IF Top.real /\ Top.body = "value" THEN Detach ELSE UNCHANGED <<current, strays>>
    /\ Leave(Top.body, IF Top.body = "value" THEN Exits ELSE 0)
    /\ UNCHANGED <<enabled, carried, begun>>

\* __exit__ gets the body's exception, which is then raised again.
Exit ==
    /\ InPhase("closing")
    /\ IF Top.real THEN Detach ELSE UNCHANGED <<current, strays>>
    /\ Leave(Top.body, Exits)
    /\ UNCHANGED <<enabled, carried, begun>>

\* __exit__ raises an Exception, which is swallowed; the span may stay current.
ExitFails ==
    /\ InPhase("closing") /\ Top.real
    /\ Detach \/ Stray
    /\ Leave(Top.body, 1)
    /\ UNCHANGED <<enabled, carried, begun>>

\* KeyboardInterrupt, which no suppress(Exception) stops.  While the span is
\* started, __enter__ may have made it current.
InterruptStart ==
    /\ InPhase("starting")
    /\ UNCHANGED <<current, strays>> \/ (enabled /\ LeftCurrent)
    /\ Leave("interrupt", 0)
    /\ UNCHANGED <<enabled, carried, begun>>

\* Between __enter__ and `try`, or behind the body and before __exit__: nobody
\* calls __exit__.
InterruptOpen ==
    /\ \E p \in {"attributes", "recording", "closing"} : InPhase(p)
    /\ IF Top.real THEN Stray ELSE UNCHANGED <<current, strays>>
    /\ Leave("interrupt", 0)
    /\ UNCHANGED <<enabled, carried, begun>>

\* Inside __exit__, or behind it.
InterruptExit ==
    /\ InPhase("closing") /\ Top.real
    /\ Detach \/ Stray
    /\ Leave("interrupt", 1)
    /\ UNCHANGED <<enabled, carried, begun>>
-----------------------------------------------------------------------------
Carriers == {"absent", "valid", "malformed", "unreadable"}

Init ==
    /\ enabled \in BOOLEAN /\ carried \in Carriers
    /\ frames = <<>> /\ current = None
    /\ begun = 0 /\ done = {} /\ strays = {}

Next ==
    \/ Begin \/ Start \/ StartFails \/ SetAttributes
    \/ EndBody \/ RecordException \/ Exit \/ ExitFails
    \/ InterruptStart \/ InterruptOpen \/ InterruptExit

Spec == Init /\ [][Next]_vars
-----------------------------------------------------------------------------
Outcome == {"none", "value", "error"}

Frame == [id : 1..MaxSpans,
          phase : {"starting", "attributes", "body", "recording", "closing"},
          real : BOOLEAN, before : {None} \cup (1..MaxSpans),
          parent : {None, Remote} \cup (1..MaxSpans), body : Outcome]

\* Every variable keeps its type; only the innermost block is anywhere but in
\* its body; without tracing there is no real span.
TypeOK ==
    /\ enabled \in BOOLEAN /\ carried \in Carriers
    /\ strays \subseteq 1..begun
    /\ frames \in Seq(Frame)
    /\ current \in {None} \cup (1..begun) /\ begun \in 0..MaxSpans
    /\ done \subseteq [id : 1..MaxSpans, body : Outcome, seen : Outcome \cup {"interrupt"},
                       entered : BOOLEAN, exits : {0, 1}]
    /\ \A i \in DOMAIN frames :
          /\ i < Len(frames) => frames[i].phase = "body"
          /\ frames[i].real => enabled

\* "never hides application exceptions": whatever the tracer does, the body runs
\* and the caller of the block sees what it did.
OutcomeIsTheBodys ==
    \A d \in done : d.seen # "interrupt" => d.body # "none" /\ d.seen = d.body

\* A span that was entered is exited exactly once when its block ends, one that
\* was not never is, also when the body raises and whatever the tracer raises.
\* If an interrupt ends the block -- before the body, or behind it while the span
\* is closed -- an entered span may be left open, but is not exited twice.
EnteredIsExited ==
    \A d \in done :
        LET owed == IF d.entered THEN 1 ELSE 0
        IN  d.exits <= owed /\ (d.seen # "interrupt" => d.exits = owed)

\* x is the innermost real span of the first n blocks.
Innermost(x, n) ==
    \/ x = None /\ \A i \in 1..n : ~frames[i].real
    \/ \E i \in 1..n : /\ frames[i].real /\ x = frames[i].id
                       /\ \A j \in (i + 1)..n : ~frames[j].real

\* The current span -- the trace id that is reported, and the context that a
\* child process gets -- is the innermost live one, however blocks ended and
\* whichever spans failed to start.  A span that was left behind spoils this
\* only until a real block around it is left.
ContextIsInnermost == strays = {} => Innermost(current, Len(frames))

\* The trace tree.  A `traceparent` that names a span is the parent of every span
\* of the process, also of one that has a live span around it; one that is
\* malformed makes every span a root; without one, or if extract() raises, a
\* span's parent is the next real span around it.
ParentIsKnown ==
    \A i \in DOMAIN frames : frames[i].real =>
        /\ carried = "valid" => frames[i].parent = Remote
        /\ carried = "malformed" => frames[i].parent = None
        /\ carried \in {"absent", "unreadable"}
                /\ {s \in strays : s < frames[i].id} = {}
           => Innermost(frames[i].parent, i - 1)
=============================================================================
