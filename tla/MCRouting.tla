------------------------------ MODULE MCRouting ------------------------------
(***************************************************************************)
(* Small instances of Routing for TLC.                                     *)
(***************************************************************************)
EXTENDS Routing, SequencesExt

P(n, m, ok, on) == [name |-> n, model |-> m, complete |-> ok, enabled |-> on]
Env(ps, a)      == [providers |-> ps, audit |-> a]
File(k, ps, a)  == [kind |-> k, providers |-> ps, audit |-> a]

\* Lists of at most two providers of the environment: local and two remote
\* ones, complete or not, enabled or not.  A name that LLM_PROVIDERS repeats
\* has the same settings both times.
EnvProviders == {P("local", "env-l", TRUE, TRUE), P("claude", "env-c", TRUE, TRUE),
                 P("claude", "env-c", TRUE, FALSE), P("openai", "env-o", TRUE, TRUE),
                 P("openai", "env-o", FALSE, TRUE)}
EnvLists == {ps \in BoundedSeq(EnvProviders, 2) :
                \A i, j \in DOMAIN ps : ps[i].name = ps[j].name => ps[i] = ps[j]}
SomeEnvironments == {Env(ps, a) : ps \in EnvLists, a \in {None, "noop"}}

FileProviders == {P("local", "yml-l", TRUE, FALSE), P("claude", "yml-c", TRUE, TRUE),
                  P("openai", "yml-o", TRUE, TRUE), P("openai", "yml-o", FALSE, TRUE)}
SomeFiles == {File("absent", <<>>, None), File("missing", <<>>, None)} \cup
             {File("readable", ps, a) : ps \in BoundedSeq(FileProviders, 2),
                                        a \in {None, "stdout"}}

Rule(t, p, m) == [tier |-> t, provider |-> p, model |-> m]
SomeRules == {None, <<Rule("local", "local", "r1"), Rule("cheap", "claude", "r2"),
                      Rule("cheap", "openai", "r3")>>}
SomeModels == {None, "asked"}
=============================================================================
