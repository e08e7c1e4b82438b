------------------------------- MODULE Routing -------------------------------
(***************************************************************************)
(* From the environment and the YAML file to the provider that serves a    *)
(* tier: load_config (config.py), then LLMRouter.from_env, __init__,       *)
(* _default_rules and resolve (router.py).                                 *)
(*                                                                         *)
(* A provider's configuration is its name, its default model, whether its  *)
(* mandatory settings are all there (`complete`) and whether it is         *)
(* enabled.  A Python dict is a sequence without two entries of one name,  *)
(* in insertion order: _default_rules depends on that order.               *)
(***************************************************************************)
EXTENDS Naturals, Sequences, FiniteSetsExt

CONSTANTS Environments,  \* LLM_* settings: [providers, audit]
          Files,         \* YAML files: [kind, providers, audit]
          RuleLists,     \* the `rules` argument of from_env, or None
          Models,        \* what req.model may be; None leaves it to the route
          None

Tiers == {"cheap", "standard", "premium", "local"}

IsList(q) == q \in Seq({q[i] : i \in DOMAIN q})

ASSUME EnvironmentsAssumption == \A e \in Environments : IsList(e.providers)

\* "absent": no yaml_path; "missing": no such file.
ASSUME FilesAssumption ==
    \A f \in Files : /\ f.kind \in {"absent", "missing", "readable"}
                     /\ IsList(f.providers)
                     /\ f.kind # "readable" => f.providers = <<>>
ASSUME RulesAssumption ==
    \A l \in RuleLists \ {None} :
        \A i \in DOMAIN l : l[i].tier \in Tiers

VARIABLES env, file, given,  \* the inputs of this process
          stage,     \* "start", "failed", "loaded" or "ready"
          cfg,       \* cfg.providers
          audit,     \* cfg.audit.backend
          route,     \* _rules: per tier a [provider, model], or None
          clients,   \* the names in _clients
          call       \* the last call: what it asked for, where it went

inputs == <<env, file, given>>
vars   == <<env, file, given, stage, cfg, audit, route, clients, call>>
-----------------------------------------------------------------------------
Names(q) == {q[i].name : i \in DOMAIN q}

\* providers[e.name] = e, which keeps the place of an entry it replaces.  Mutant:
\* the entry moves to the end.
PutAtEnd(d, e) ==
    IF e.name \in Names(d)
    THEN LET at == CHOOSE i \in DOMAIN d : d[i].name = e.name
         IN  Append(SubSeq(d, 1, at - 1) \o SubSeq(d, at + 1, Len(d)), e)
    ELSE Append(d, e)
Put(d, e) == IF e.name \in Names(d)
             THEN [i \in DOMAIN d |-> IF d[i].name = e.name THEN e ELSE d[i]]
             ELSE Append(d, e)

\* The dict after all entries, of which the incomplete ones are skipped.
Merged(entries) ==
    LET after[n \in 0..Len(entries)] ==
            IF n = 0 THEN <<>>
            ELSE IF entries[n].complete THEN Put(after[n - 1], entries[n])
            ELSE after[n - 1]
    IN  after[Len(entries)]

\* The providers of the environment, then those of the file.
Entries == env.providers \o file.providers

\* FileNotFoundError, the KeyError of an incomplete entry of the file, or the
\* ValueError of a configuration without providers.
LoadFails ==
    \/ file.kind = "missing"
    \/ \E i \in DOMAIN file.providers : ~file.providers[i].complete
    \/ Merged(Entries) = <<>>

OrDefault(backend) == IF backend = None THEN "jsonl" ELSE backend

LoadConfig ==
    /\ stage = "start"
    /\ IF LoadFails
       THEN stage' = "failed" /\ UNCHANGED <<cfg, audit>>
       ELSE /\ stage' = "loaded"
            /\ cfg' = Merged(Entries)
            /\ audit' = OrDefault(IF file.kind = "readable" THEN file.audit
                                                            ELSE env.audit)
    /\ UNCHANGED <<inputs, route, clients, call>>
-----------------------------------------------------------------------------
RouteTo(p, m) == [provider |-> p, model |-> m]

\* A route to the first of some of the providers in c.
FirstOf(c, places) ==
    IF places = {} THEN None ELSE RouteTo(c[Min(places)].name, c[Min(places)].model)

Locals(c)  == {i \in DOMAIN c : c[i].name = "local"}
Remotes(c) == {i \in DOMAIN c : c[i].name # "local"}

\* Where STANDARD and PREMIUM lead.
Preferred(c) == FirstOf(c, IF Remotes(c) # {} THEN Remotes(c) ELSE Locals(c))

\* _default_rules: no look at `enabled`, and no rule for LOCAL.  Mutant: CHEAP
\* falls back to a remote provider too.
DefaultRulesAnyCheap(c) ==
    [t \in Tiers |-> CASE t = "cheap" -> FirstOf(c, IF Locals(c) # {} THEN Locals(c) ELSE Remotes(c))
                       [] t = "local" -> None
                       [] OTHER       -> Preferred(c)]
DefaultRules(c) ==
    [t \in Tiers |-> CASE t = "cheap" -> FirstOf(c, Locals(c))
                       [] t = "local" -> None
                       [] OTHER       -> Preferred(c)]

\* {r.tier: r for r in rules}: the last rule of a tier counts.
RuleTable(rules) ==
    [t \in Tiers |->
        LET mine == {i \in DOMAIN rules : rules[i].tier = t}
        IN  IF mine = {} THEN None
            ELSE RouteTo(rules[Max(mine)].provider, rules[Max(mine)].model)]

BuildRouter ==
    /\ stage = "loaded"
    /\ stage' = "ready"
    /\ clients' = {cfg[i].name : i \in {j \in DOMAIN cfg : cfg[j].enabled}}
    /\ route' = IF given = None THEN DefaultRules(cfg) ELSE RuleTable(given)
    /\ UNCHANGED <<inputs, cfg, audit, call>>

\* Where a tier leads: None stands for the KeyError of a tier without a rule
\* or of a rule whose provider has no client.
Resolve(tier) ==
    IF route[tier] # None /\ route[tier].provider \in clients THEN route[tier] ELSE None

\* chat(): the route's model is used when the request names none.
Chat(tier, model) ==
    /\ stage = "ready"
    /\ LET to == Resolve(tier)
       IN  call' = [tier     |-> tier,
                    asked    |-> model,
                    provider |-> IF to = None THEN None ELSE to.provider,
                    model    |-> IF to # None /\ model = None THEN to.model ELSE model]
    /\ UNCHANGED <<inputs, stage, cfg, audit, route, clients>>
-----------------------------------------------------------------------------
Init ==
    /\ env \in Environments /\ file \in Files /\ given \in RuleLists
    /\ stage = "start" /\ cfg = <<>> /\ audit = None
    /\ route = [t \in Tiers |-> None] /\ clients = {} /\ call = None

Next ==
    \/ LoadConfig
    \/ BuildRouter
    \/ \E tier \in Tiers, model \in Models : Chat(tier, model)

Spec == Init /\ [][Next]_vars
-----------------------------------------------------------------------------
\* Where a name is mentioned with complete settings.
Complete    == {i \in DOMAIN Entries : Entries[i].complete}
Mentions(n) == {i \in Complete : Entries[i].name = n}

\* The file wins for a provider that both configure -- the last mention counts --
\* and yet the order in which providers are preferred is that of their first
\* mention: overriding a provider in the file does not change which remote one
\* serves the tiers.
MergeIsFaithful ==
    cfg # <<>> =>
        /\ Names(cfg) = {Entries[i].name : i \in Complete}
        /\ \A i \in DOMAIN cfg : \E k \in Mentions(cfg[i].name) :
              cfg[i] = Entries[k] /\ \A m \in Mentions(cfg[i].name) : m <= k
        /\ \A i, j \in DOMAIN cfg :
              i < j => \E k \in Mentions(cfg[i].name) : \A m \in Mentions(cfg[j].name) : k < m

\* With the default rules, a call is served by an enabled provider under the
\* model that this very provider is configured with; a CHEAP call never leaves
\* the local provider; and a call goes to the local one out of preference
\* (CHEAP) or because nothing else is configured.
DefaultCallsAreSound ==
    given = None /\ call # None /\ call.provider # None =>
        /\ \E i \in DOMAIN cfg :
              /\ cfg[i].name = call.provider /\ cfg[i].enabled
              /\ call.asked = None => call.model = cfg[i].model
        /\ call.tier = "cheap" => call.provider = "local"
        /\ call.provider = "local" => call.tier = "cheap" \/ Names(cfg) = {"local"}
=============================================================================
