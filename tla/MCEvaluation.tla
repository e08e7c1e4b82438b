---------------------------- MODULE MCEvaluation ----------------------------
(***************************************************************************)
(* Small suites for TLC: every single case over a few values of each field *)
(* and rule, and pairs of cases with the ways a reply can be wrapped.      *)
(***************************************************************************)
EXTENDS Evaluation, SequencesExt, TLC

CONSTANTS odd   \* a severity that is not one of the five

Outputs == [fields : {{}, {"host"}}, severity : {None, odd, 0, 2, 3},
            confidence : {None, Wrong, 0, 4, 10}]

SeverityRules == {Wrong} \cup
    [allowed : {Wrong, Levels, {odd, 2, 3}}, baseline : {None, odd, 1, 3}, drift : {Wrong, 0, 1}]
ConfidenceRules == {Wrong} \cup [min : {Wrong, 0, 4}, max : {4, 10}]
AnySeverity   == [allowed |-> Levels, baseline |-> None, drift |-> 0]
AnyConfidence == [min |-> 0, max |-> 10]

Expectations ==
    [required : {Wrong, {}, {"host"}}, severity : SeverityRules, confidence : {AnyConfidence}]
        \cup [required : {{}}, severity : {AnySeverity}, confidence : ConfidenceRules]

Object(out)     == [kind |-> "object", out |-> out]
Wrap(k, reply)  == [kind |-> k, of |-> reply]
Junk            == [kind |-> "junk"]
Case0(reply, meant, expected) ==
    [safe |-> TRUE, reply |-> reply, meant |-> meant, expected |-> expected]

Good == [fields |-> {"host"}, severity |-> 3, confidence |-> 4]
Bare == [fields |-> {}, severity |-> None, confidence |-> None]
Expected == [required |-> {"host"}, confidence |-> AnyConfidence,
             severity |-> [allowed |-> Levels, baseline |-> 2, drift |-> 1]]

\* The ways a reply can come, and what it carries.
Carriers ==
    LET obj == Object(Good)
    IN  {<<r, Good>> : r \in {Wrap("text", obj), Wrap("model", obj), Wrap("model", Wrap("text", obj)),
                              Wrap("envelope", Wrap("text", obj)),
                              Wrap("model", Wrap("envelope", Wrap("text", obj))),
                              Wrap("text", Wrap("envelope", Wrap("text", obj)))}}
        \cup {<<r, Wrong>> : r \in {None, Escapes, Junk, Wrap("text", Junk), Wrap("text", Wrap("text", obj)),
                                    Wrap("envelope", Wrap("text", Junk))}}
        \cup {<<r, Bare>> : r \in {Wrap("envelope", Junk),
                                   Wrap("envelope", Wrap("text", Wrap("envelope", Wrap("text", obj))))}}

Singles == {<<Case0(Object(o), o, e)>> : o \in Outputs, e \in Expectations}
Carried == {[Case0(c[1], c[2], Expected) EXCEPT !.safe = s] : c \in Carriers, s \in BOOLEAN}
SmallSuites == Singles \cup BoundedSeq(Carried, 2)
=============================================================================
