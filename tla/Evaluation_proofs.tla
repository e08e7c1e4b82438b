-------------------------- MODULE Evaluation_proofs --------------------------
(***************************************************************************)
(* Proofs about Evaluation, for any suites, severities, confidences and    *)
(* bounds: the checks of an output amount to what is expected of it, and   *)
(* every case of a suite gets its own verdict.                             *)
(***************************************************************************)
EXTENDS Evaluation, SequenceTheorems, TLAPS

(***************************************************************************)
(* The checks.                                                             *)
(***************************************************************************)
\* Within a number of steps up or down.
LEMMA WithinSteps ==
    ASSUME NEW a \in Int, NEW b \in Int, NEW n \in Nat
    PROVE  Distance(a, b) <= n <=>
               \E step \in 0..n : a = b + step \/ a = b - step
<1> DEFINE d == Distance(a, b)
<1>1. d \in Nat /\ (a = b + d \/ a = b - d)
  BY DEF Distance
<1>2. ASSUME d <= n PROVE \E step \in 0..n : a = b + step \/ a = b - step
  <2>1. d \in 0..n
    BY <1>1, <1>2
  <2> HIDE DEF d
  <2> QED
    BY <1>1, <2>1
<1>3. ASSUME NEW step \in 0..n, a = b + step \/ a = b - step PROVE d <= n
  BY <1>3 DEF Distance
<1> QED
  BY <1>2, <1>3

\* The drift check passes if the severity is a level near the baseline.
LEMMA DriftIsMet ==
    ASSUME NEW severity, NEW rule
    PROVE  CheckDrift(severity, rule) = {} <=>
              /\ rule.baseline \in Levels /\ rule.drift \in Nat
              /\ severity \in {l \in Levels : \E step \in 0..rule.drift :
                                 l = rule.baseline + step \/ l = rule.baseline - step}
<1> DEFINE base == rule.baseline
           most == rule.drift
<1>1. CASE ~({base, severity} \subseteq Levels /\ most \in Nat)
  <2>1. CheckDrift(severity, rule) = {"drift"}
    BY <1>1 DEF CheckDrift
  <2> QED
    BY <1>1, <2>1
<1>2. CASE {base, severity} \subseteq Levels /\ most \in Nat
  <2>1. base \in Levels /\ severity \in Levels /\ base \in Int /\ severity \in Int
        /\ most \in Nat
    BY <1>2 DEF Levels
  <2>2. CheckDrift(severity, rule) = Flag("drifted", Distance(severity, base) > most)
    BY <1>2 DEF CheckDrift
  <2>3. Distance(severity, base) \in Int
    BY <2>1 DEF Distance
  <2>4. CheckDrift(severity, rule) = {} <=> Distance(severity, base) <= most
    BY <2>1, <2>2, <2>3 DEF Flag
  <2> HIDE DEF base, most
  <2>5. Distance(severity, base) <= most <=>
            \E step \in 0..most : severity = base + step \/ severity = base - step
    BY <2>1, WithinSteps
  <2>6. CheckDrift(severity, rule) = {} <=>
            severity \in {l \in Levels : \E step \in 0..most : l = base + step \/ l = base - step}
    BY <2>1, <2>4, <2>5
  <2> QED
    BY <2>1, <2>6 DEF base, most
<1> QED
  BY <1>1, <1>2

SeverityMet(out, rule) ==
    /\ rule # Wrong
    /\ out.severity # None =>
          /\ rule.allowed # Wrong /\ out.severity \in rule.allowed
          /\ rule.baseline # None => CheckDrift(out.severity, rule) = {}

\* The check of a severity, with its early returns.
LEMMA SeverityIsMet ==
    ASSUME NEW out, NEW rule
    PROVE  CheckSeverity(out, rule) = {} <=> SeverityMet(out, rule)
<1>1. CASE rule = Wrong
  BY <1>1 DEF CheckSeverity, SeverityMet
<1>2. CASE rule # Wrong /\ out.severity = None
  BY <1>2 DEF CheckSeverity, SeverityMet
<1>3. CASE rule # Wrong /\ out.severity # None /\ rule.allowed = Wrong
  BY <1>3 DEF CheckSeverity, SeverityMet
<1>4. CASE rule # Wrong /\ out.severity # None /\ rule.allowed # Wrong
  <2>1. CheckSeverity(out, rule) =
            Flag("not allowed", out.severity \notin rule.allowed)
               \cup IF rule.baseline = None THEN {} ELSE CheckDrift(out.severity, rule)
    BY <1>4 DEF CheckSeverity
  <2>2. Flag("not allowed", out.severity \notin rule.allowed) = {}
            <=> out.severity \in rule.allowed
    BY DEF Flag
  <2> QED
    BY <1>4, <2>1, <2>2 DEF SeverityMet
<1> QED
  BY <1>1, <1>2, <1>3, <1>4

ConfidenceMet(out, rule) ==
    /\ rule # Wrong
    /\ out.confidence # None => /\ Wrong \notin {rule.min, rule.max}
                                /\ out.confidence \in rule.min..rule.max

\* The check of a confidence, whatever is malformed.
LEMMA ConfidenceIsMet ==
    ASSUME NEW out, NEW rule, out.confidence \in Int \cup {None, Wrong},
           rule # Wrong => rule.min \in Int \cup {Wrong} /\ rule.max \in Int \cup {Wrong}
    PROVE  CheckConfidence(out, rule) = {} <=> ConfidenceMet(out, rule)
<1>1. CASE rule = Wrong
  BY <1>1 DEF CheckConfidence, ConfidenceMet
<1>2. CASE rule # Wrong /\ out.confidence = None
  BY <1>2 DEF CheckConfidence, ConfidenceMet
<1>3. CASE rule # Wrong /\ out.confidence # None
  <2> DEFINE c    == out.confidence
             low  == rule.min
             high == rule.max
  <2>1. c \in Int \cup {Wrong} /\ low \in Int \cup {Wrong} /\ high \in Int \cup {Wrong}
    BY <1>3
  <2>2. CheckConfidence(out, rule) = {} <=>
            ~({c, low, high} \cap {Wrong} # {} \/ ~(low <= c /\ c <= high))
    BY <1>3 DEF CheckConfidence, Flag
  <2>3. ConfidenceMet(out, rule) <=> Wrong \notin {low, high} /\ c \in low..high
    BY <1>3 DEF ConfidenceMet
  <2> HIDE DEF c, low, high
  <2>4. CASE Wrong \in {c, low, high}
    <3>1. Wrong \notin {low, high} => c = Wrong /\ low \in Int /\ high \in Int
      BY <2>1, <2>4
    <3>2. Wrong \notin {low, high} => c \notin low..high
      BY <3>1, ValuesAssumption
    <3> QED
      BY <2>2, <2>3, <2>4, <3>2
  <2>5. CASE Wrong \notin {c, low, high}
    <3>1. c \in Int /\ low \in Int /\ high \in Int
      BY <2>1, <2>5
    <3>2. c \in low..high <=> low <= c /\ c <= high
      BY <3>1
    <3> QED
      BY <2>2, <2>3, <2>5, <3>2
  <2> QED
    BY <2>4, <2>5
<1> QED
  BY <1>1, <1>2, <1>3

\* The checks of an output, with their order and their early returns, find
\* nothing exactly when the output meets what is expected, for every severity,
\* drift, confidence and bound.
THEOREM ChecksAreExpectations ==
    ASSUME NEW out, NEW expected, out.confidence \in Int \cup {None, Wrong},
           expected.confidence # Wrong =>
              /\ expected.confidence.min \in Int \cup {Wrong}
              /\ expected.confidence.max \in Int \cup {Wrong}
    PROVE  CheckOutput(out, expected) = {} <=> Meets(out, expected)
<1>1. CheckRequired(out, expected.required) = {} <=>
          expected.required # Wrong /\ expected.required \subseteq out.fields
  BY DEF CheckRequired
<1>2. CheckSeverity(out, expected.severity) = {} <=> SeverityMet(out, expected.severity)
  BY SeverityIsMet
<1>3. CheckConfidence(out, expected.confidence) = {} <=>
          ConfidenceMet(out, expected.confidence)
  BY ConfidenceIsMet
<1>4. CheckDrift(out.severity, expected.severity) = {} <=>
          LET sev == expected.severity
          IN  /\ sev.baseline \in Levels /\ sev.drift \in Nat
              /\ out.severity \in {l \in Levels : \E step \in 0..sev.drift :
                                     l = sev.baseline + step \/ l = sev.baseline - step}
  BY DriftIsMet
<1>5. CheckOutput(out, expected) = {} <=>
          /\ CheckRequired(out, expected.required) = {}
          /\ CheckSeverity(out, expected.severity) = {}
          /\ CheckConfidence(out, expected.confidence) = {}
  BY DEF CheckOutput
<1> QED
  BY <1>1, <1>2, <1>3, <1>4, <1>5 DEF SeverityMet, ConfidenceMet, Meets

(***************************************************************************)
(* The runs.                                                               *)
(***************************************************************************)
Judged == Seq([case : {cases[i] : i \in DOMAIN cases}, passed : BOOLEAN])

\* The inductive invariant: before the first case there are no results, and only
\* a mode that was accepted gets to the cases.
EvalInv ==
    /\ TypeOK /\ VerdictsAreRight /\ EveryCaseIsJudged
    /\ results \in Judged
    /\ phase = "called" => results = <<>>
    /\ phase = "running" => mode = "replay" \/ (mode = "live" /\ callback)

\* The results of a case, on a reply from where its mode looks for one.
LEMMA VerdictIsRight ==
    ASSUME NEW suite \in Suites, NEW i \in DOMAIN suite,
           mode \in {"replay", "live", "other"}, Source(suite[i]) # Escapes
    PROVE  Verdict(suite[i]) = {} <=>
              /\ mode = "live" \/ suite[i].safe
              /\ suite[i].meant # Wrong
              /\ Meets(suite[i].meant, suite[i].expected)
<1> DEFINE case == suite[i]
           conf == case.expected.confidence
<1>1. /\ conf # Wrong => conf.min \in Int \cup {Wrong} /\ conf.max \in Int \cup {Wrong}
      /\ case.meant = IF case.reply \in {None, Escapes} THEN Wrong ELSE Coerce(case.reply)
      /\ case.meant # Wrong => case.meant.confidence \in Int \cup {None, Wrong}
  BY SuitesAssumption, CoercionAssumption
<1>2. CASE Source(case) = None
  <2>1. Verdict(case) = {"evaluation failed"}
    BY <1>2 DEF Verdict
  <2>2. ~(mode = "live" \/ case.safe) \/ case.meant = Wrong
    BY <1>1, <1>2 DEF Source
  <2> QED
    BY <2>1, <2>2
<1>3. CASE Source(case) # None
  <2>1. Source(case) = case.reply /\ case.reply \notin {None, Escapes}
        /\ (mode = "live" \/ case.safe)
    BY <1>3 DEF Source
  <2>2. case.meant = Coerce(Source(case))
    BY <1>1, <2>1
  <2>3. Verdict(case) = IF case.meant = Wrong THEN {"evaluation failed"}
                        ELSE CheckOutput(case.meant, case.expected)
    BY <1>3, <2>2 DEF Verdict
  <2>4. case.meant # Wrong =>
            (CheckOutput(case.meant, case.expected) = {} <=> Meets(case.meant, case.expected))
    BY <1>1, ChecksAreExpectations
  <2> QED
    BY <2>1, <2>3, <2>4
<1> QED
  BY <1>2, <1>3

\* The one part of the assumption that the states need.
LEMMA SuitesAreSequences ==
    ASSUME NEW suite \in Suites
    PROVE  suite \in Seq({suite[i] : i \in DOMAIN suite})
BY SuitesAssumption

LEMMA EvalInit == Init => EvalInv
<1> SUFFICES ASSUME Init PROVE EvalInv
  OBVIOUS
<1>1. Len(cases) \in Nat
  BY SuitesAreSequences DEF Init
<1>2. results = <<>> /\ DOMAIN results = {} /\ Len(results) = 0 /\ results \in Judged
  BY DEF Init, Judged
<1>3. TypeOK
  BY <1>1, <1>2 DEF Init, TypeOK
<1> QED
  BY <1>2, <1>3 DEF Init, EvalInv, VerdictsAreRight, EveryCaseIsJudged

\* The case at hand is one of the suite's, and its result one of the results.
LEMMA CaseAtHand ==
    ASSUME EvalInv
    PROVE  /\ Len(cases) \in Nat /\ DOMAIN cases = 1..Len(cases)
           /\ Len(results) \in Nat /\ DOMAIN results = 1..Len(results)
<1>1. cases \in Seq({cases[i] : i \in DOMAIN cases})
  BY SuitesAreSequences DEF EvalInv, TypeOK
<1>2. results \in Judged
  BY DEF EvalInv
<1> HIDE DEF EvalInv
<1> QED
  BY <1>1, <1>2 DEF Judged

\* A judged case adds the result that it deserves.
LEMMA JudgeKeeps == EvalInv /\ Judge => EvalInv'
<1> SUFFICES ASSUME EvalInv, Judge PROVE EvalInv'
  OBVIOUS
<1> DEFINE result == [case |-> Case, passed |-> Verdict(Case) = {}]
<1>1. /\ TypeOK /\ VerdictsAreRight /\ EveryCaseIsJudged /\ results \in Judged
      /\ mode = "replay" \/ (mode = "live" /\ callback)
      /\ phase = "running"
  BY DEF EvalInv, Judge, Looping
<1>2. /\ UNCHANGED <<mode, callback, cases, phase>>
      /\ invoked' = invoked + Calls
      /\ results' = Append(results, result)
      /\ At \in DOMAIN cases /\ Source(Case) # Escapes
  BY DEF Judge, Looping
<1>3. /\ Len(cases) \in Nat /\ DOMAIN cases = 1..Len(cases)
      /\ Len(results) \in Nat /\ DOMAIN results = 1..Len(results)
  BY CaseAtHand
<1>4. result \in [case : {cases[i] : i \in DOMAIN cases}, passed : BOOLEAN]
  BY <1>2 DEF Case
<1> HIDE DEF result
<1>5. /\ results' \in Judged
      /\ Len(results') = Len(results) + 1
      /\ DOMAIN results' = 1..(Len(results) + 1)
      /\ \A i \in DOMAIN results : results'[i] = results[i]
      /\ results'[Len(results) + 1] = result
  BY <1>1, <1>2, <1>3, <1>4 DEF Judged
<1>6. Judged' = Judged
  BY <1>2 DEF Judged
<1>7. Len(results') <= Len(cases)
  BY <1>2, <1>3, <1>5 DEF At
<1>8. invoked' = IF mode # "live" THEN 0 ELSE Len(results')
  <2>1. invoked = IF mode # "live" THEN 0 ELSE Len(results)
    BY <1>1 DEF TypeOK
  <2>2. CASE mode = "live"
    BY <1>2, <1>5, <2>1, <2>2 DEF Calls
  <2>3. CASE mode # "live"
    BY <1>2, <2>1, <2>3 DEF Calls
  <2> QED
    BY <2>2, <2>3
<1>9. TypeOK'
  BY <1>1, <1>2, <1>7, <1>8 DEF TypeOK
<1>10. result.case = Case /\ (result.passed <=> /\ mode = "live" \/ Case.safe
                                                /\ Case.meant # Wrong
                                                /\ Meets(Case.meant, Case.expected))
  <2>1. Verdict(Case) = {} <=> /\ mode = "live" \/ Case.safe
                               /\ Case.meant # Wrong
                               /\ Meets(Case.meant, Case.expected)
    BY <1>1, <1>2, VerdictIsRight DEF Case, TypeOK
  <2> QED
    BY <2>1 DEF result
<1>11. VerdictsAreRight'
  <2> SUFFICES ASSUME NEW i \in DOMAIN results'
               PROVE  LET case == cases[i]
                      IN  /\ results'[i].case = case
                          /\ results'[i].passed <=> /\ mode = "live" \/ case.safe
                                                    /\ case.meant # Wrong
                                                    /\ Meets(case.meant, case.expected)
    BY <1>2 DEF VerdictsAreRight
  <2>1. CASE i \in DOMAIN results
    BY <1>1, <1>5, <2>1 DEF VerdictsAreRight
  <2>2. CASE i = Len(results) + 1
    BY <1>5, <1>10, <2>2 DEF Case, At
  <2> QED
    BY <1>3, <1>5, <2>1, <2>2
<1>12. EveryCaseIsJudged'
  BY <1>1, <1>2 DEF EveryCaseIsJudged
<1> QED
  BY <1>1, <1>2, <1>5, <1>6, <1>9, <1>11, <1>12 DEF EvalInv

\* Each action preserves the invariant.
LEMMA EvalStep == EvalInv /\ [Next]_vars => EvalInv'
<1> SUFFICES ASSUME EvalInv, [Next]_vars PROVE EvalInv'
  OBVIOUS
<1> USE DEF EvalInv
<1>1. CASE Reject
  BY <1>1 DEF Reject, TypeOK, VerdictsAreRight, EveryCaseIsJudged, Judged, Case, At
<1>2. CASE Accept
  BY <1>2 DEF Accept, TypeOK, VerdictsAreRight, EveryCaseIsJudged, Judged
<1>3. CASE Judge
  BY <1>3, JudgeKeeps
<1>4. CASE CallbackEscapes
  <2>1. mode = "live" /\ callback /\ Case.reply = Escapes
    BY <1>4, ValuesAssumption DEF CallbackEscapes, Looping, Source
  <2>2. UNCHANGED <<mode, callback, cases, results, Case>>
    BY <1>4 DEF CallbackEscapes, Case, At
  <2>3. phase = "running" /\ phase' = "raised" /\ invoked' = invoked + 1
    BY <1>4 DEF CallbackEscapes, Looping
  <2>4. TypeOK'
    BY <2>1, <2>2, <2>3 DEF TypeOK
  <2>5. VerdictsAreRight'
    BY <2>2 DEF VerdictsAreRight
  <2>6. EveryCaseIsJudged'
    BY <2>1, <2>2, <2>3 DEF EveryCaseIsJudged
  <2> QED
    BY <2>2, <2>3, <2>4, <2>5, <2>6 DEF Judged
<1>5. CASE Return
  <2>1. Len(results) = Len(cases)
    BY <1>5, CaseAtHand DEF Return, At, TypeOK
  <2> QED
    BY <1>5, <2>1 DEF Return, TypeOK, VerdictsAreRight, EveryCaseIsJudged, Judged
<1>6. CASE UNCHANGED vars
  BY <1>6 DEF vars, TypeOK, VerdictsAreRight, EveryCaseIsJudged, Judged, Case, At
<1> QED
  BY <1>1, <1>2, <1>3, <1>4, <1>5, <1>6 DEF Next

LEMMA EvalIsInvariant == Spec => []EvalInv
BY EvalInit, EvalStep, PTL DEF Spec

\* Only live mode calls the callback: once per judged case, once more for the
\* call that escapes, and never in replay mode.
THEOREM SuitesAreTyped == Spec => []TypeOK
<1>1. EvalInv => TypeOK
  BY DEF EvalInv
<1> QED
  BY <1>1, EvalIsInvariant, PTL

\* Every result is that of its own case: it passes exactly when there is a reply
\* for it, which carries an object, which meets what is expected.  What a reply
\* carries is the coercion's output here; the runs compare it with wrappings
\* whose content is known.
THEOREM EveryVerdictIsRight == Spec => []VerdictsAreRight
<1>1. EvalInv => VerdictsAreRight
  BY DEF EvalInv
<1> QED
  BY <1>1, EvalIsInvariant, PTL

\* A run that returns has judged the whole suite, failing cases or not; one that
\* raises was called wrongly or was left by an exception of the live callback.
THEOREM SuitesAreFinished == Spec => []EveryCaseIsJudged
<1>1. EvalInv => EveryCaseIsJudged
  BY DEF EvalInv
<1> QED
  BY <1>1, EvalIsInvariant, PTL
=============================================================================
