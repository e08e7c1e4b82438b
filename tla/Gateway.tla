------------------------------- MODULE Gateway -------------------------------
(***************************************************************************)
(* gateway.py, class IntegrationGateway: the scan endpoint on top of the   *)
(* FindingRegistry, with its streams and queries.                          *)
(*                                                                         *)
(* A scan awaits only its adapter's next finding.  Once that arrives, the  *)
(* handler adds it, runs every correlation rule and adds what they emit,   *)
(* without giving up the event loop (the registry's lock is never          *)
(* contended): that stretch is `turn`, one step per rule and per added     *)
(* correlation, during which no other coroutine moves.  Only add_sync on   *)
(* another thread can come in between.                                     *)
(***************************************************************************)
EXTENDS FindingRegistry

CONSTANTS Scans,         \* requests to POST /v0.5/{source}/scan
          Products,      \* the sources with a registered adapter
          Sources,       \* the {source} a request may name, known or not
          Rules,         \* the correlation rules, in order
          Raising,       \* the rules whose correlate() raises
          Breaking,      \* the rules that may raise outside correlate(): a
                         \* generator that raises, a result that is no list
          Correlate(_, _, _)  \* what a rule emits for a new finding and the
                         \* existing ones: a sequence of sets of finding ids

\* What a rule can be called with: the findings that may come into being.
Known == [id : 1..MaxItems, body : Contents]

ASSUME RulesAssumption == Rules \in Seq(STRING)
ASSUME CorrelateAssumption ==
    \A rule \in ToSet(Rules), new \in Known, existing \in BoundedSeq(Known, MaxSize) :
        Correlate(rule, new, existing) \in Seq(SUBSET Nat)

\* A handler in the middle of its turn.
TurnRecord == [scan : Scans, new : Known, rules : Seq(ToSet(Rules)),
               rule : ToSet(Rules) \cup {None}, links : Seq(SUBSET Nat)]
ASSUME NoTurnAssumption == None \notin TurnRecord

VARIABLES scan,     \* each request: where it stands and its local variables
          turn,     \* the finding being handled, or None
          about,    \* history: per correlation, the new finding and the ids
          heard     \* history: what each client was handed since it registered

gatewayVars == <<scan, turn, about>>
allVars     == <<vars, gatewayVars, heard>>

\* Between two turns.  Mutant: the handler awaits inside its turn.
LoopFreeAlways == TRUE
LoopFree == turn = None
-----------------------------------------------------------------------------
(***************************************************************************)
(* The scan handler.                                                       *)
(***************************************************************************)
Request(p, existing) ==
    [phase |-> p, existing |-> existing, collected |-> <<>>, emitted |-> <<>>]

\* 404 for a source that is unknown or has no adapter; otherwise the handler
\* takes its snapshot of the registry and starts the adapter.
StartScan(x, source) ==
    /\ LoopFree /\ LoopIdle /\ scan[x].phase = "absent"
    /\ scan' = [scan EXCEPT ![x] =
                   IF source \in Products THEN Request("running", findings)
                                          ELSE Request("rejected", <<>>)]
    /\ UNCHANGED <<vars, turn, about, heard>>

\* The adapter yields a finding, which the handler adds and collects.
ScanFinding(x, body) ==
    /\ LoopFree /\ scan[x].phase = "running"
    /\ Add(body)
    /\ LET new == [id |-> Fresh, body |-> body]
       IN  /\ scan' = [scan EXCEPT ![x].collected = Append(@, new)]
           /\ turn' = [scan |-> x, new |-> new, rules |-> Rules, rule |-> None,
                       links |-> <<>>]
    /\ UNCHANGED <<about, heard>>

\* What a rule emits for the new finding, over the snapshot of the handler's
\* start; one that raises in correlate() emits nothing.  Mutant: the rule sees
\* the registry as it is now.
EmittedLive(rule) ==
    IF rule \in Raising THEN <<>> ELSE Correlate(rule, turn.new, findings)
Emitted(rule) ==
    IF rule \in Raising THEN <<>>
    ELSE Correlate(rule, turn.new, scan[turn.scan].existing)

\* The next rule runs.
RunRule ==
    /\ turn # None /\ turn.links = <<>> /\ turn.rules # <<>>
    /\ LoopIdle
    /\ LET rule == Head(turn.rules)
       IN  turn' = [turn EXCEPT !.rules = Tail(@), !.rule = rule,
                                !.links = Emitted(rule)]
    /\ UNCHANGED <<vars, scan, about, heard>>

\* The next correlation the rule emitted is added.
EmitCorrelation ==
    /\ turn # None /\ turn.links # <<>>
    /\ AddCorrelation
    /\ about' = [n \in DOMAIN about \cup {Fresh} |->
                    IF n = Fresh THEN [new |-> turn.new.id, links |-> Head(turn.links)]
                    ELSE about[n]]
    /\ scan' = [scan EXCEPT ![turn.scan].emitted = Append(@, Fresh)]
    /\ turn' = [turn EXCEPT !.links = Tail(@)]
    /\ UNCHANGED heard

\* An exception of the rule outside its try block ends the request with a 500.
RuleBreaks ==
    /\ turn # None /\ turn.rule \in Breaking
    /\ LoopIdle
    /\ scan' = [scan EXCEPT ![turn.scan].phase = "rule_failed"]
    /\ turn' = None
    /\ UNCHANGED <<vars, about, heard>>

\* The handler awaits its adapter again.
EndTurn ==
    /\ turn # None /\ turn.links = <<>> /\ turn.rules = <<>>
    /\ turn' = None
    /\ UNCHANGED <<vars, scan, about, heard>>

\* Mutant: a failed scan takes its findings back.
AdapterRaisesRollback(x) ==
    /\ LoopFree /\ LoopIdle /\ scan[x].phase = "running"
    /\ scan' = [scan EXCEPT ![x].phase = "adapter_failed"]
    /\ findings' = SelectSeq(findings, LAMBDA f : f \notin ToSet(scan[x].collected))
    /\ UNCHANGED <<correlations, correlated, streams, query, created, published,
                   turn, about, heard>>

\* The adapter raises: a 500, and what was added stays in the registry.
AdapterRaises(x) ==
    /\ LoopFree /\ LoopIdle /\ scan[x].phase = "running"
    /\ scan' = [scan EXCEPT ![x].phase = "adapter_failed"]
    /\ UNCHANGED <<vars, turn, about, heard>>

\* The adapter is exhausted: the reply lists what was collected and emitted.
FinishScan(x) ==
    /\ LoopFree /\ LoopIdle /\ scan[x].phase = "running"
    /\ scan' = [scan EXCEPT ![x].phase = "done"]
    /\ UNCHANGED <<vars, turn, about, heard>>
-----------------------------------------------------------------------------
(***************************************************************************)
(* Everything else the registry does, between two turns.                   *)
(***************************************************************************)
\* Recorded for the properties: what a client is handed while connected.
Hear(s) == heard' = [heard EXCEPT ![s] =
                        IF cursor'[s] # cursor[s] /\ phase'[s] = "sending"
                        THEN @ \cup {cursor'[s]} ELSE @]

RegistryStep ==
    \/ /\ LoopFree
       /\ Handler
       /\ UNCHANGED heard
    \/ /\ OffLoop \/ LoopFree
       /\ \E body \in Contents : AddSync(body)
       /\ UNCHANGED heard
    \/ /\ LoopFree
       /\ \E s \in Subscribers : Connection(s) /\ Hear(s)

GatewayInit ==
    /\ Init
    /\ scan = [x \in Scans |-> Request("absent", <<>>)]
    /\ turn = None
    /\ about = <<>>
    /\ heard = [s \in Subscribers |-> {}]

GatewayNext ==
    \/ \E x \in Scans, source \in Sources : StartScan(x, source)
    \/ \E x \in Scans, body \in Contents : ScanFinding(x, body)
    \/ RunRule \/ EmitCorrelation \/ RuleBreaks \/ EndTurn
    \/ \E x \in Scans : AdapterRaises(x) \/ FinishScan(x)
    \/ RegistryStep /\ UNCHANGED gatewayVars

GatewaySpec == GatewayInit /\ [][GatewayNext]_allVars
-----------------------------------------------------------------------------
(***************************************************************************)
(* Correctness.                                                            *)
(***************************************************************************)
\* Every variable of the gateway keeps its type, and the loop is held by a
\* request that is running.
GatewayTypeOK ==
    /\ \A x \in Scans :
          /\ scan[x].phase \in {"absent", "rejected", "running", "done",
                                "adapter_failed", "rule_failed"}
          /\ scan[x].existing \in Seq(Item) /\ scan[x].collected \in Seq(Item)
          /\ scan[x].emitted \in Seq(DOMAIN about)
    /\ turn # None => turn \in TurnRecord /\ scan[turn.scan].phase = "running"
    /\ DOMAIN about \subseteq published
    /\ \A s \in Subscribers : heard[s] \subseteq published

\* A client never sees a correlation without the finding it is about: the
\* stream brings the new finding first, or neither -- also when the client's
\* queue is full, and when it connects while a scan is under way.
NoOrphanCorrelation ==
    \A s \in Subscribers : Connected(s) =>
        \A c \in DOMAIN about :
            /\ c \in heard[s] => about[c].new \in heard[s]
            /\ c \in Queued(s) => about[c].new \in heard[s] \cup Queued(s)

\* What a scan must have emitted, written without its loop: for every finding
\* in the order it was yielded, what every rule that does not raise emits over
\* the registry's content when the scan started.
LinksOf(new, existing) ==
    FlattenSeq([i \in DOMAIN Rules |->
                   IF Rules[i] \in Raising THEN <<>>
                   ELSE Correlate(Rules[i], new, existing)])
ExpectedLinks(x) ==
    FlattenSeq([i \in DOMAIN scan[x].collected |->
                   LinksOf(scan[x].collected[i], scan[x].existing)])

\* Whenever a coroutine may look -- a query, another scan's snapshot, a new
\* client, the reply itself -- every finding a scan has added has all its
\* correlations and no others, whatever other scans did in between, whichever
\* rule raised, and also when the adapter failed later.
CorrelationsUpToDate ==
    LoopFree => \A x \in Scans :
        scan[x].phase \in {"running", "done", "adapter_failed"} =>
            [i \in DOMAIN scan[x].emitted |-> about[scan[x].emitted[i]].links]
                = ExpectedLinks(x)
=============================================================================
