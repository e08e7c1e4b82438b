---------------------------- MODULE MCRuleEngine ----------------------------
(***************************************************************************)
(* A small instance of the rule engine for TLC: the built-in rules, and    *)
(* two of a product that have one id, between which threads may race to    *)
(* the registry: a brute-force rule with threshold zero, and a generator   *)
(* that raises after its second finding.  MaxFloat is scaled down to 1.    *)
(***************************************************************************)
EXTENDS BuiltinRules, TLC

CONSTANTS brute, strict, cve, generator, e1, e2

TwoScans == {e1, e2}

FourRules == {brute, strict, cve, generator}
RuleIds   == brute :> "core-brute-force" @@ cve :> "core-known-cve" @@
             strict :> "product" @@ generator :> "product"

\* Thresholds 5 and 0 of the code, scaled down.
TwoThresholds == brute :> 1 @@ strict :> 0

Facts(failed, version) == [failed |-> failed, version |-> version]
\* At the threshold, above it, too large for a float.
ThreeContexts == {Facts(1, "old"), Facts(2, None), Facts(5, "new")}

FourDo == [r \in FourRules |-> [x \in ThreeContexts |->
              CASE r \in {brute, strict} -> BruteForce(TwoThresholds[r], x)
                [] r = cve               -> KnownCVE(x)
                [] r = generator         -> [items |-> 2, broken |-> TRUE]]]

BuiltIns == <<brute, cve>>

\* Not the order of registration, one id twice, one that may be missing.
TwoSelections == {<<"product", "core-brute-force", "product">>, <<"core-known-cve">>}
=============================================================================
