---------------------------- MODULE BuiltinRules ----------------------------
(***************************************************************************)
(* The two rules of rules/builtin.py, as rules of the engine.  A context is *)
(* a pair of facts: failed_logins, None if it is no int, and version, None *)
(* if it is not hashable.                                                  *)
(***************************************************************************)
EXTENDS RuleEngine, Integers

CONSTANTS None,
          MaxFloat,         \* the largest float
          KnownVulnerable,  \* _KNOWN_VULN
          Threshold         \* the built-in rules' thresholds

Quiet  == [items |-> 0, broken |-> FALSE]
Fires  == [items |-> 1, broken |-> FALSE]
Raises == [items |-> 0, broken |-> TRUE]

\* Mutant: the threshold itself counts.
BruteForceAtLeast(threshold, x) ==
    IF x.failed = None THEN Quiet
    ELSE IF x.failed < threshold \/ threshold = 0 THEN Quiet
    ELSE Fires

\* The confidence failed / (4 * threshold) is capped by 1.0; division by zero
\* raises, and so do a quotient that is too large for a float and a Finding with
\* a negative confidence.
BruteForce(threshold, x) ==
    IF x.failed = None THEN Quiet
    ELSE IF x.failed <= threshold THEN Quiet
    ELSE IF threshold = 0 \/ (threshold < 0 /\ x.failed > 0) THEN Raises
    ELSE IF threshold > 0 /\ x.failed > MaxFloat * 4 * threshold THEN Raises
    ELSE Fires

KnownCVE(x) ==
    IF x.version = None THEN Raises
    ELSE IF x.version \in KnownVulnerable THEN Fires ELSE Quiet

\* The rules with a threshold are brute-force rules.
ASSUME MaxFloatAssumption == MaxFloat \in Nat \ {0}
ASSUME BuiltinAssumption ==
    \A r \in DOMAIN Threshold :
        /\ Threshold[r] \in Int
        /\ \A x \in Contexts : /\ x.failed = None \/ x.failed \in Int
                               /\ Does[r][x] = BruteForce(Threshold[r], x)

\* What a returned scan of all rules says of the brute-force rule at place p.
Reported(c, p) ==
    \E i \in DOMAIN scan[c].results : scan[c].results[i].place = p

Exceeded(c, p) ==
    scan[c].ctx.failed # None /\ Threshold[origin[c][p]] < scan[c].ctx.failed

WholeScans == {c \in Scans : scan[c].phase = "returned" /\ scan[c].whole}
BruteForceRules(c) == {p \in DOMAIN origin[c] : origin[c][p] \in DOMAIN Threshold}

\* A scan of all rules raises no false alarm about brute force; and whatever
\* other rules fail or are replaced, it gives the alarm of every rule with a
\* positive threshold that is exceeded, up to the largest number of failed
\* logins whose confidence is a float.
BruteForceReported ==
    \A c \in WholeScans : \A p \in BruteForceRules(c) :
        LET t == Threshold[origin[c][p]]
        IN  /\ Reported(c, p) => Exceeded(c, p)
            /\ /\ Exceeded(c, p)
               /\ t > 0 /\ scan[c].ctx.failed <= MaxFloat * 4 * t
               => Reported(c, p)
=============================================================================
