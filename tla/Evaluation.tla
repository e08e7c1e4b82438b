----------------------------- MODULE Evaluation -----------------------------
(***************************************************************************)
(* run_eval and its checks (evaluation.py): the cases of a suite are judged *)
(* one by one, on recorded replies or on what a callback returns now.      *)
(*                                                                         *)
(* A reply is a record with a `kind`: "object" with its output; "text" and  *)
(* "model" wrap a reply; "envelope" is a ChatResponse around the content of *)
(* its first choice; "junk" is anything else.  An output keeps what the    *)
(* checks look at: the paths of its fields, severity and confidence.       *)
(***************************************************************************)
EXTENDS Integers, Sequences

CONSTANTS None,       \* an absent field or rule; no reply
          Wrong,      \* a value of the wrong type
          Escapes,    \* invoke raises something that run_eval does not catch
          Suites      \* sequences of cases: the reply, whether the id is a file
                      \* name, what is expected, and -- for the properties only --
                      \* the output that the reply is meant to carry

ASSUME ValuesAssumption == Wrong \notin Int /\ None # Escapes

\* The positions in _SEVERITY_ORDER; other severities are not numbers.
Levels == 0..4

VARIABLES mode,      \* SHARED_LLM_EVAL_MODE
          callback,  \* was an invoke callback passed?
          cases,     \* the suite
          phase, results,
          invoked    \* how often the callback was called

vars == <<mode, callback, cases, phase, results, invoked>>

\* Mutant: a severity may only fall.
Fall(a, b) == IF a < b THEN b - a ELSE 0

Distance(a, b) == IF a < b THEN b - a ELSE a - b
-----------------------------------------------------------------------------
(***************************************************************************)
(* _coerce_output                                                          *)
(***************************************************************************)
Unwrap(reply, kind) == IF reply.kind = kind THEN reply.of ELSE reply
IsMapping(reply)    == reply.kind \in {"object", "envelope"}

\* An envelope as such has none of the fields.
Output(reply) == IF reply.kind = "object" THEN reply.out
                 ELSE [fields |-> {}, severity |-> None, confidence |-> None]

\* The output of a reply, or Wrong for a TypeError or a ValueError.  The content
\* of an envelope is decoded only if it is a string.
Coerce(reply) ==
    LET raw == Unwrap(Unwrap(reply, "model"), "text")
    IN  IF ~IsMapping(raw) THEN Wrong
        ELSE IF raw.kind = "envelope" /\ raw.of.kind = "text"
             THEN IF IsMapping(raw.of.of) THEN Output(raw.of.of) ELSE Wrong
             ELSE Output(raw)

\* Suites are lists, confidences and their bounds numbers or of the wrong type.
ASSUME SuitesAssumption ==
    \A suite \in Suites :
        /\ suite \in Seq({suite[i] : i \in DOMAIN suite})
        /\ \A i \in DOMAIN suite :
              LET conf == suite[i].expected.confidence  meant == suite[i].meant
              IN  /\ conf # Wrong => {conf.min, conf.max} \subseteq Int \cup {Wrong}
                  /\ meant # Wrong => meant.confidence \in Int \cup {None, Wrong}

\* What a reply is meant to carry is what the coercion gets out of it: `meant` is
\* given with the suite, so an instance compares the coercion with it.
ASSUME CoercionAssumption ==
    \A suite \in Suites : \A i \in DOMAIN suite :
        LET case == suite[i]
        IN  case.meant = IF case.reply \in {None, Escapes} THEN Wrong ELSE Coerce(case.reply)
-----------------------------------------------------------------------------
(***************************************************************************)
(* _check_output: each check contributes names for its deviations.        *)
(***************************************************************************)
Flag(name, condition) == IF condition THEN {name} ELSE {}

CheckRequired(out, required) ==
    IF required = Wrong THEN {"required_fields"}
    ELSE required \ out.fields

\* Both severities have to be canonical, the bound a natural number, no bool.
CheckDrift(severity, rule) ==
    IF {rule.baseline, severity} \subseteq Levels /\ rule.drift \in Nat
    THEN Flag("drifted", Distance(severity, rule.baseline) > rule.drift)
    ELSE {"drift"}

\* The rule is looked at only if the output has a severity.
CheckSeverity(out, rule) ==
    IF rule = Wrong THEN {"severity"}
    ELSE IF out.severity = None THEN {}
    ELSE IF rule.allowed = Wrong THEN {"allowed"}
    ELSE Flag("not allowed", out.severity \notin rule.allowed)
            \cup IF rule.baseline = None THEN {} ELSE CheckDrift(out.severity, rule)

\* A bool is no confidence; nor is NaN, which no range contains.
CheckConfidence(out, rule) ==
    IF rule = Wrong THEN {"confidence"}
    ELSE IF out.confidence = None THEN {}
    ELSE Flag("out of range",
              \/ {out.confidence, rule.min, rule.max} \cap {Wrong} # {}
              \/ ~(rule.min <= out.confidence /\ out.confidence <= rule.max))

CheckOutput(out, expected) ==
    CheckRequired(out, expected.required)
        \cup CheckSeverity(out, expected.severity)
        \cup CheckConfidence(out, expected.confidence)
-----------------------------------------------------------------------------
(***************************************************************************)
(* run_eval                                                                *)
(***************************************************************************)
At   == Len(results) + 1
Case == cases[At]
Looping == phase = "running" /\ At \in DOMAIN cases

\* What the case is judged on: the callback's reply, or the recorded one if
\* there is one and the id can be its file name.
Source(case) ==
    IF mode = "live" \/ (case.safe /\ case.reply # Escapes) THEN case.reply ELSE None

\* An unknown mode, or live mode without a callback, is a ValueError.
Reject ==
    /\ phase = "called"
    /\ mode = "other" \/ (mode = "live" /\ ~callback)
    /\ phase' = "raised"
    /\ UNCHANGED <<mode, callback, cases, results, invoked>>

Accept ==
    /\ phase = "called"
    /\ mode = "replay" \/ (mode = "live" /\ callback)
    /\ phase' = "running"
    /\ UNCHANGED <<mode, callback, cases, results, invoked>>

\* No reply -- OSError, or a TypeError or ValueError of the callback -- and no
\* output are deviations, too.
Verdict(case) ==
    LET out == IF Source(case) = None THEN Wrong ELSE Coerce(Source(case))
    IN  IF out = Wrong THEN {"evaluation failed"} ELSE CheckOutput(out, case.expected)

\* Mutant: a fixture that is missing is recorded on the fly.
CallsToRecord == IF mode = "live" \/ Source(Case) = None THEN 1 ELSE 0

Calls == IF mode = "live" THEN 1 ELSE 0

\* Mutant: the first case that fails ends the suite.
JudgeUntilFailure ==
    /\ Looping /\ Source(Case) # Escapes
    /\ invoked' = invoked + Calls
    /\ results' = Append(results, [case |-> Case, passed |-> Verdict(Case) = {}])
    /\ phase' = IF Verdict(Case) = {} THEN phase ELSE "returned"
    /\ UNCHANGED <<mode, callback, cases>>

Judge ==
    /\ Looping /\ Source(Case) # Escapes
    /\ invoked' = invoked + Calls
    /\ results' = Append(results, [case |-> Case, passed |-> Verdict(Case) = {}])
    /\ UNCHANGED <<mode, callback, cases, phase>>

\* The callback raises anything else -- an HTTP error, a KeyError of the router:
\* the results so far are lost.
CallbackEscapes ==
    /\ Looping /\ Source(Case) = Escapes
    /\ invoked' = invoked + 1
    /\ phase' = "raised"
    /\ UNCHANGED <<mode, callback, cases, results>>

Return ==
    /\ phase = "running" /\ At > Len(cases)
    /\ phase' = "returned"
    /\ UNCHANGED <<mode, callback, cases, results, invoked>>

Init ==
    /\ mode \in {"replay", "live", "other"} /\ callback \in BOOLEAN
    /\ cases \in Suites
    /\ phase = "called" /\ results = <<>> /\ invoked = 0

Next == Reject \/ Accept \/ Judge \/ CallbackEscapes \/ Return

Spec == Init /\ [][Next]_vars
-----------------------------------------------------------------------------
\* Every variable keeps its type; only live mode ever calls the callback, once
\* per case and not again after a failure.
TypeOK ==
    /\ mode \in {"replay", "live", "other"} /\ callback \in BOOLEAN
    /\ cases \in Suites
    /\ phase \in {"called", "running", "returned", "raised"}
    /\ Len(results) <= Len(cases)
    /\ invoked = IF mode # "live" THEN 0
                 ELSE IF phase = "raised" /\ callback THEN Len(results) + 1
                 ELSE Len(results)

\* What is expected of an output, without the order and the early returns of the
\* checks: every malformed rule that applies is a failure, a rule about an absent
\* severity or confidence does not apply.
Meets(out, expected) ==
    LET sev == expected.severity  conf == expected.confidence
    IN  /\ expected.required # Wrong /\ sev # Wrong /\ conf # Wrong
        /\ expected.required \subseteq out.fields
        /\ out.severity # None =>
              /\ sev.allowed # Wrong /\ out.severity \in sev.allowed
              /\ sev.baseline # None =>
                    /\ sev.baseline \in Levels /\ sev.drift \in Nat
                    /\ out.severity \in {l \in Levels : \E step \in 0..sev.drift :
                                           l = sev.baseline + step \/ l = sev.baseline - step}
        /\ out.confidence # None =>
              /\ Wrong \notin {conf.min, conf.max}
              /\ out.confidence \in conf.min..conf.max

\* A suite's verdicts: the results are those of its cases, in order, and a case
\* passes exactly when it has a reply, the reply carries a JSON object, and the
\* object meets what is expected -- whatever the reply is wrapped in, and
\* whatever became of the cases before it.
VerdictsAreRight ==
    \A i \in DOMAIN results :
        LET case == cases[i]
        IN  /\ results[i].case = case
            /\ results[i].passed <=> /\ mode = "live" \/ case.safe
                                     /\ case.meant # Wrong
                                     /\ Meets(case.meant, case.expected)

\* No failing case ends the suite early: a run that returns has judged every
\* case, and a run that does not was called wrongly or was left by an exception
\* of the callback outside the caught types, in live mode.
EveryCaseIsJudged ==
    /\ phase = "returned" => Len(results) = Len(cases)
    /\ phase = "raised" /\ mode # "other" =>
          mode = "live" /\ (callback => Case.reply = Escapes)
=============================================================================
