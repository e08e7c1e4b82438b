------------------------------ MODULE MCGateway ------------------------------
(***************************************************************************)
(* Small instances of Gateway for TLC.                                     *)
(***************************************************************************)
EXTENDS Gateway, TLC

CONSTANTS s1, x1, x2

TwoScans == {x1, x2}
Interchangeable == Permutations(TwoScans)

Body(src) == [source |-> src, severity |-> "high", host |-> "h", cve |-> None,
              ts |-> None, plain |-> TRUE]
TwoBodies == {Body("soc"), Body("vuln")}
KnownSources == {"soc", "vuln", "lab"}
NoRequests == {}

TwoRules == <<"boom", "host">>
OneRule  == <<"host">>

\* HostCorrelationRule of tests/test_gateway.py: one correlation that links
\* the new finding to its peers, those of another source on the same host.
HostCorrelate(rule, new, existing) ==
    LET peers == {f \in ToSet(existing) : /\ f.body.host = new.body.host
                                          /\ f.body.source # new.body.source}
    IN  IF new.body.host = None \/ peers = {} THEN <<>>
        ELSE << {new.id} \cup {f.id : f \in peers} >>
=============================================================================
