----------------------------- MODULE RuleEngine -----------------------------
(***************************************************************************)
(* RuleRegistry and RuleEngine.evaluate (rule_engine.py).                  *)
(*                                                                         *)
(* evaluate() runs rules one after the other and collects their findings.  *)
(* A rule is foreign code: it may be a generator that raises after some    *)
(* findings, and it -- or another thread -- may register and unregister    *)
(* rules while a scan is under way.  A finding is named by its rule, the   *)
(* place of that rule in the scan, and its number there.                   *)
(***************************************************************************)
EXTENDS Naturals, Sequences

CONSTANTS Rules,      \* rule objects
          IdOf,       \* their ids; two objects may have the same
          Contexts,   \* what a scan can be about
          Does,       \* Does[r][x]: the findings of rule r in context x, and
                      \* whether it raises after them
          Scans,      \* calls of evaluate()
          Selections, \* the rule_ids that callers pass
          Preloaded,  \* the rules of a new registry: none, or the built-in ones
          MaxChanges  \* bound: how often rules are registered or unregistered

ASSUME DoesAssumption ==
    Does \in [Rules -> [Contexts -> [items : Nat, broken : BOOLEAN]]]
ASSUME IdAssumption == \A r \in Rules : IdOf[r] # ""
ASSUME PreloadedAssumption ==
    /\ Preloaded \in Seq(Rules)
    /\ \A i, j \in DOMAIN Preloaded :
          IdOf[Preloaded[i]] = IdOf[Preloaded[j]] => i = j
ASSUME SelectionsAssumption == Selections \subseteq Seq({IdOf[r] : r \in Rules})

VARIABLES registry,   \* _rules: the dict's values, in insertion order
          adding,     \* rules that register() has let through its check and
                      \* not yet inserted, on other threads
          scan,       \* each evaluate(): phase, context, targets, results
          origin,     \* history: the registry when a scan of all rules began
          seen,       \* history: the rules registered while a selection was
                      \* looked up
          changes     \* how often the registry changed

vars == <<registry, adding, scan, origin, seen, changes>>

Finding == [rule : Rules, place : Nat, nth : Nat]

Registered(id) == \E i \in DOMAIN registry : IdOf[registry[i]] = id
Content        == {registry[i] : i \in DOMAIN registry}
-----------------------------------------------------------------------------
(***************************************************************************)
(* RuleRegistry.                                                           *)
(***************************************************************************)
\* register() looks whether the id is free -- an id that is taken is a
\* ValueError -- and another thread may run before it inserts the rule.
Register(r) ==
    /\ changes < MaxChanges /\ changes' = changes + 1
    /\ r \notin adding /\ ~Registered(IdOf[r])
    /\ adding' = adding \cup {r}
    /\ UNCHANGED <<registry, scan, origin, seen>>

\* The insertion: a new id goes to the end of the dict; one that another thread
\* has inserted since the check keeps its place and loses its rule.
Insert(r) ==
    /\ r \in adding /\ adding' = adding \ {r}
    /\ registry' = IF Registered(IdOf[r])
                   THEN [i \in DOMAIN registry |->
                            IF IdOf[registry[i]] = IdOf[r] THEN r ELSE registry[i]]
                   ELSE Append(registry, r)
    /\ seen' = [c \in Scans |-> IF scan[c].phase = "lookup" THEN seen[c] \cup {r}
                                                           ELSE seen[c]]
    /\ UNCHANGED <<scan, origin, changes>>

Unregister(id) ==
    /\ changes < MaxChanges /\ changes' = changes + 1
    /\ \E i \in DOMAIN registry :
          /\ IdOf[registry[i]] = id
          /\ registry' = SubSeq(registry, 1, i - 1)
                            \o SubSeq(registry, i + 1, Len(registry))
    /\ UNCHANGED <<adding, scan, origin, seen>>
-----------------------------------------------------------------------------
(***************************************************************************)
(* RuleEngine.evaluate.                                                    *)
(***************************************************************************)
\* rule_ids is None: the targets are a copy of what is registered now.
EvaluateAll(c) ==
    /\ scan[c].phase = "idle"
    /\ scan' = [scan EXCEPT ![c].phase = "running", ![c].targets = registry]
    /\ origin' = [origin EXCEPT ![c] = registry]
    /\ UNCHANGED <<registry, adding, seen, changes>>

EvaluateSome(c, ids) ==
    /\ scan[c].phase = "idle"
    /\ scan' = [scan EXCEPT ![c].phase = "lookup", ![c].ids = ids,
                            ![c].whole = FALSE]
    /\ seen' = [seen EXCEPT ![c] = Content]
    /\ UNCHANGED <<registry, adding, origin, changes>>

NextId(c) == scan[c].ids[Len(scan[c].targets) + 1]

\* One get() of the list comprehension; another thread may run in between.
Lookup(c) ==
    /\ scan[c].phase = "lookup" /\ Len(scan[c].targets) < Len(scan[c].ids)
    /\ \E r \in Content :
          /\ IdOf[r] = NextId(c)
          /\ scan' = [scan EXCEPT ![c].targets = Append(@, r)]
    /\ UNCHANGED <<registry, adding, origin, seen, changes>>

\* KeyError: the scan ends before any rule ran.
LookupFails(c) ==
    /\ scan[c].phase = "lookup" /\ Len(scan[c].targets) < Len(scan[c].ids)
    /\ ~Registered(NextId(c))
    /\ scan' = [scan EXCEPT ![c].phase = "raised"]
    /\ UNCHANGED <<registry, adding, origin, seen, changes>>

LookupDone(c) ==
    /\ scan[c].phase = "lookup" /\ Len(scan[c].targets) = Len(scan[c].ids)
    /\ scan' = [scan EXCEPT ![c].phase = "running"]
    /\ UNCHANGED <<registry, adding, origin, seen, changes>>

\* Mutant: the loop iterates over the registry itself.
LiveTarget(c) ==
    IF scan[c].whole /\ scan[c].at \in DOMAIN registry THEN registry[scan[c].at]
                                                     ELSE scan[c].targets[scan[c].at]

Target(c) == scan[c].targets[scan[c].at]
Current(c) == Does[Target(c)][scan[c].ctx]

AtRule(c)  == scan[c].phase = "running" /\ scan[c].at \in DOMAIN scan[c].targets

\* list.extend takes the rule's findings one by one.
Produce(c) ==
    /\ AtRule(c) /\ scan[c].made < Current(c).items
    /\ scan' = [scan EXCEPT
          ![c].made = @ + 1,
          ![c].results = Append(@, [rule |-> Target(c), place |-> scan[c].at,
                                    nth |-> scan[c].made + 1])]
    /\ UNCHANGED <<registry, adding, origin, seen, changes>>

NextRule(c) ==
    /\ scan' = [scan EXCEPT ![c].at = @ + 1, ![c].made = 0]
    /\ UNCHANGED <<registry, adding, origin, seen, changes>>

RuleEnds(c) ==
    /\ AtRule(c) /\ scan[c].made = Current(c).items /\ ~Current(c).broken
    /\ NextRule(c)

\* Mutants: a failing rule takes its findings along, or is tried again.
RuleFailsDiscards(c) ==
    /\ AtRule(c) /\ scan[c].made = Current(c).items /\ Current(c).broken
    /\ scan' = [scan EXCEPT ![c].at = @ + 1, ![c].made = 0,
                   ![c].results = SubSeq(@, 1, Len(@) - scan[c].made)]
    /\ UNCHANGED <<registry, adding, origin, seen, changes>>
RuleFailsAgain(c) ==
    /\ AtRule(c) /\ scan[c].made = Current(c).items /\ Current(c).broken
    /\ UNCHANGED vars

\* The rule raises an Exception, which is caught; its findings so far stay.
RuleFails(c) ==
    /\ AtRule(c) /\ scan[c].made = Current(c).items /\ Current(c).broken
    /\ NextRule(c)

\* KeyboardInterrupt or SystemExit, which is not: the results are lost.
Interrupt(c) ==
    /\ scan[c].phase \in {"lookup", "running"}
    /\ scan' = [scan EXCEPT ![c].phase = "raised"]
    /\ UNCHANGED <<registry, adding, origin, seen, changes>>

Return(c) ==
    /\ scan[c].phase = "running" /\ scan[c].at > Len(scan[c].targets)
    /\ scan' = [scan EXCEPT ![c].phase = "returned"]
    /\ UNCHANGED <<registry, adding, origin, seen, changes>>
-----------------------------------------------------------------------------
NoScan(x) == [phase |-> "idle", ctx |-> x, whole |-> TRUE, ids |-> <<>>,
              targets |-> <<>>, at |-> 1, made |-> 0, results |-> <<>>]

Init ==
    /\ registry = Preloaded /\ adding = {}
    /\ \E ctx \in [Scans -> Contexts] : scan = [c \in Scans |-> NoScan(ctx[c])]
    /\ origin = [c \in Scans |-> <<>>]
    /\ seen = [c \in Scans |-> {}]
    /\ changes = 0

Begin(c) == EvaluateAll(c) \/ \E ids \in Selections : EvaluateSome(c, ids)

\* What the scan's own thread does next.
Step(c) ==
    \/ Lookup(c) \/ LookupFails(c) \/ LookupDone(c)
    \/ Produce(c) \/ RuleEnds(c) \/ RuleFails(c) \/ Return(c)

Next ==
    \/ \E r \in Rules : Register(r) \/ Insert(r) \/ Unregister(IdOf[r])
    \/ \E c \in Scans : Begin(c) \/ Step(c) \/ Interrupt(c)

Spec == Init /\ [][Next]_vars

\* A rule is a finite computation and the thread of a scan runs on.
FairSpec == Spec /\ \A c \in Scans : WF_vars(Step(c))
-----------------------------------------------------------------------------
ScanRecord == [phase : {"idle", "lookup", "running", "returned", "raised"},
               ctx : Contexts, whole : BOOLEAN, ids : Seq({IdOf[r] : r \in Rules}),
               targets : Seq(Rules), at : Nat \ {0}, made : Nat,
               results : Seq(Finding)]

\* Every variable keeps its type, and no two registered rules share an id.
TypeOK ==
    /\ registry \in Seq(Rules)
    /\ \A i, j \in DOMAIN registry :
          IdOf[registry[i]] = IdOf[registry[j]] => i = j
    /\ adding \subseteq Rules
    /\ scan \in [Scans -> ScanRecord]
    /\ origin \in [Scans -> Seq(Rules)]
    /\ seen \in [Scans -> SUBSET Rules]
    /\ changes \in Nat

Before(f, g) == f.place < g.place \/ (f.place = g.place /\ f.nth < g.nth)

\* q lists what the rules rs find in context x: only that, all of it -- what a
\* rule found before it failed included -- and in order.
Lists(q, rs, x) ==
    /\ \A i \in DOMAIN q : /\ q[i].place \in DOMAIN rs
                           /\ q[i].rule = rs[q[i].place]
                           /\ q[i].nth \in 1..Does[q[i].rule][x].items
    /\ \A p \in DOMAIN rs : \A n \in 1..Does[rs[p]][x].items :
          \E i \in DOMAIN q : q[i].place = p /\ q[i].nth = n
    /\ \A i, j \in DOMAIN q : i < j => Before(q[i], q[j])

\* A scan of all rules that returns answers as if it had run in one moment, the
\* one of its call: the findings of exactly the rules registered then, in the
\* order of their registration, whatever was registered or unregistered
\* meanwhile, and with what a failing rule found before it failed.
WholeScanIsAtomic ==
    \A c \in Scans :
        scan[c].phase = "returned" /\ scan[c].whole =>
            Lists(scan[c].results, origin[c], scan[c].ctx)

\* A selection that returns has run what was asked for and nothing else: its
\* findings come from rules that were registered, at some moment of the lookup,
\* under an id of the request; every id of the request has such a rule, all of
\* whose findings are there -- what it found before it failed included -- and
\* each run of a rule keeps their order.  The rules need not have been
\* registered together, if another thread changes the registry.
SelectionIsServed ==
    \A c \in Scans :
        scan[c].phase = "returned" /\ ~scan[c].whole =>
            LET ids  == {scan[c].ids[k] : k \in DOMAIN scan[c].ids}
                got  == scan[c].results
                all(r) == 1..Does[r][scan[c].ctx].items
            IN  /\ \A i \in DOMAIN got : /\ got[i].rule \in seen[c]
                                         /\ IdOf[got[i].rule] \in ids
                                         /\ got[i].nth \in all(got[i].rule)
                /\ \A id \in ids : \E r \in seen[c] :
                      /\ IdOf[r] = id
                      /\ \A n \in all(r) : \E i \in DOMAIN got :
                            got[i].rule = r /\ got[i].nth = n
                /\ \A i, j \in DOMAIN got :
                      i < j /\ got[i].place = got[j].place => got[i].nth < got[j].nth

\* No rule, failing or not, and no change of the registry keeps a scan from its
\* end.  (Each is called once, so that none is under way again and again means
\* that each ends.)
ScansEnd == []<>(\A c \in Scans : scan[c].phase \notin {"lookup", "running"})
=============================================================================
