---------------------------- MODULE MCTemplates ----------------------------
(***************************************************************************)
(* A small instance of Templates for TLC: the files 9.yml and 10.yml.      *)
(***************************************************************************)
EXTENDS Templates, TLC

CONSTANTS a, b, d, broken, k1, k2

TwoVersions == {<<9>>, <<1, 0>>}
OneFile == [v \in TwoVersions |-> IF v = <<9>> THEN a ELSE None]
\* The callers are interchangeable, and so are two of the contents.
Alike == Permutations({k1, k2}) \cup Permutations({b, d})
=============================================================================
