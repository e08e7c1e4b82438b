-------------------------- MODULE MCFindingRegistry --------------------------
(***************************************************************************)
(* Small instances of FindingRegistry for TLC.                             *)
(***************************************************************************)
EXTENDS FindingRegistry, TLC

CONSTANTS s1, s2

\* Two connections, interchangeable.
TwoSubscribers == {s1, s2}
OneSubscriber  == {s1}
Interchangeable == Permutations(TwoSubscribers)

Body(src, host, ts, ok) ==
    [source |-> src, severity |-> "high", host |-> host, cve |-> None,
     ts |-> ts, plain |-> ok]

\* For the streams only `plain` matters: one finding that json.dumps can
\* encode and one that it cannot.
StreamContents == {Body("soc", "h", None, TRUE), Body("soc", "h", None, FALSE)}

\* For the queries: hosts and timestamps with None; the second cannot be
\* encoded.
QueryContents == {Body("soc", "h", 1, TRUE), Body("code", None, None, FALSE)}

Ask(src, host, since, limit) ==
    [source |-> src, severity |-> None, host |-> host, cve |-> None,
     since |-> since, limit |-> limit]

QueryRequests == {Ask("soc", None, None, 0), Ask(None, "h", None, 5), Ask(None, None, 2, 2)}
NoRequests == {}
=============================================================================
