# Specifications of shared-llm-core

TLA+ models of the parts of `shared_llm_core` that keep state, run
concurrently or have to survive failures, the TLC runs that check them on small
instances, and proofs about them for all values of their constants. Paths are
relative to `src/src/shared_llm_core/`, unless they start with `docs/`, `tests/`
or `README.md`.

## 1. Inventory

| Component | State | Operations | Hard behaviour | What makes it correct | Modules |
|---|---|---|---|---|---|
| **Finding registry** `gateway.py:44` | two bounded deques, the list of subscriber queues | `add`, `add_sync`, `add_correlation`, `query`, `subscribe` | `add_sync` on a thread while the loop is in `query`; queues that fill up; generators dropped at a `yield` | bounds; the newest are kept; streams complete and in order; queries answer for the moment they began; no leaked queue | `FindingRegistry`, `EventStream` |
| **Event stream** `gateway.py:276` | the response's generator | connect, iterate, disconnect | disconnects at every await; an item that `json.dumps` rejects; items added before the generator first runs | every queued item is delivered or its queue is discarded | `FindingRegistry` |
| **Scan endpoint** `gateway.py:221` | per request: snapshot, collected, emitted | `scan` with adapters and correlation rules | concurrent scans, stale snapshot, adapter and rules that raise half way | each finding gets exactly the correlations its rules owe; none is seen before its finding | `Gateway` |
| **Router** `router.py` | routes, clients | `resolve`, `chat`, `close` | failure between answer, audit and span; `close` during calls | trail, span and caller agree; every call ends | `ChatCall`, `Routing` |
| **LLM client** `client.py` | an HTTP client | `chat` with three attempts, `stream`, `close` | lost replies, replies that do not parse, retries of what was carried out; streams that break off, pause or are dropped | attempts are bounded and end; streamed text is complete and in order; connections come back | `ChatCall`, `ChatStream` |
| **Audit log** `audit.py` | a file or a stream | `record` | torn writes, concurrent writers | one record per answered call; a torn one costs at most one more | `ChatCall` |
| **Configuration** `config.py` | none: environment and YAML are merged | `load_config` | two sources, order of dicts, incomplete and disabled providers | the file wins per provider; the order of preference is stable | `Routing` |
| **Missions** `multi_agent.py` | scratchpad, results | `run` | a role that fails before or after it was paid; several missions over one router | prompts, results, calls and trail fit together; a mission returns | `Mission` |
| **Telemetry** `telemetry.py` | the current span | `span`, `get_tracer`, `current_trace_id`, `trace_context_environment` | a tracer that fails at any call, nested spans, interrupts | callers never notice; entered spans are exited; the current span is the innermost live one | `SpanGuard`; the span of a call: `ChatCall` |
| **Rule engine** `rule_engine.py`, `rules/builtin.py` | ordered registry of rules | `register`, `unregister`, `get`, `evaluate` | a rule that raises half way; a registry that changes during a scan | a scan answers for one moment; one rule's failure loses no other rule's findings | `RuleEngine`, `BuiltinRules` |
| **Prompt templates** `templates.py` | cache of loaded templates | `get` | the directory changes under the cache, several threads load | a template is one that was on disk; the latest is the latest | `Templates` |
| **Evaluation** `evaluation.py` | none | `run_eval` | a callback that raises, malformed rules, wrapped replies | a verdict per case, and the right one | `Evaluation` |
| **Finding codec** `finding.py` | none | `to_dict`, `from_dict` | none | round trip | not modelled |
| **Untrusted wrapping** `untrusted.py` | none | string scrubbing | none | | not modelled |
| **Demo, exports** `demo.py`, `__init__.py` | none | | | | not modelled |

Interactions: the scan endpoint calls the registry, which puts items into the
queues of the streams. The orchestrator calls `LLMRouter.chat` for each role; it
calls the client inside a span and then the audit log. `LLMRouter.__init__`
builds clients and routes from the configuration. The two halves, gateway and
router, share no state. The rule engine, the template registry and the evaluation
harness are used by products directly; of them only the evaluation meets another
part, a product's callback that may call the router.

The hazards of this code, each with its line and the properties that cover it,
are listed in `PROJECT.json`.

## 2. Modules

    EventStream <--implemented by-- FindingRegistry <--implemented by-- Gateway
    ChatCall <--extended by-- Mission            Routing       ChatStream   SpanGuard
    RuleEngine <--extended by-- BuiltinRules     Templates     Evaluation

`X_proofs` holds the proofs about X and about the module X extends (`Gateway_proofs`
those about `FindingRegistry`, `Mission_proofs` those about `ChatCall`,
`RuleEngine_proofs` those about `BuiltinRules`), `MCX` its instances for TLC.
Operators marked *mutant* are plausible bugs of the code: each property is known to
be violated when one of them takes the place of the definition it mutates
(`mutants` in `PROJECT.json`).

### FindingRegistry

One event loop. None of the sections under `self._lock` contains an await, so
the lock is never contended and each section is one step. What interleaves are
the coroutines (`Add`, `AddCorrelation`, one connection's `Register`, `Deliver`,
`Sent`, ...) and, if `OffLoop`, `AddSync` on another thread, which takes no asyncio
lock and can come between two iterations of a query. That is why `query()` is
split into `QueryStart`, one `QueryStep` per iteration, `QueryEnd` and
`QueryRaise`; while it runs (`~LoopIdle`) no coroutine moves.

An item is the number of its creation. `findings` and `correlations` are the
deques, `queue[s]` a subscriber's `asyncio.Queue`, `subscribers` the list
`_subscribers`. `phase[s]` follows a connection:

| `phase` | the code |
|---|---|
| `absent` | not connected |
| `opened` | the `StreamingResponse` was returned; `subscribe()` has not begun, so nothing is registered |
| `waiting` | at `await q.get()` (`gateway.py:122`) |
| `sending` | at the `yield`, the chunk on its way to the client |
| `abandoned` | dropped at its `yield` without `aclose()`: still registered |
| `gone` | the `finally` has run |

A disconnect in `opened` or `waiting` cancels the generator and runs its
`finally` (`Cancel`). One in `sending` (`Abandon`) and an item that `json.dumps`
rejects (`DeliverFails`) leave the inner generator to the loop's finalizer hook
(`Reap`). `created`, `published`, `cursor` and `missed` are history
variables: what the properties compare the queues with.

`EventStream` is the same service without queues: an abstract client is handed
every published item above its cursor in order, and may lose one only if it
already has `Cap` items to catch up with.

### Gateway

Adds `scan`, the requests, and `turn`, the finding being handled. From the moment
an adapter yields a finding until the handler awaits the adapter again, it does
not give up the loop: `ScanFinding`, one `RunRule` per rule and one
`EmitCorrelation` per emitted correlation are separate steps during which only
`AddSync` on another thread may happen (`LoopFree` guards the rest). Rules are an
operator `Correlate`: what a rule emits for a new finding and the
existing ones. A rule in `Raising` raises in `correlate()`, where the code catches
it; one in `Breaking` may fail while its result is iterated, outside the `try`
(`RuleBreaks`). `about` and `heard` are history: what each correlation links, and
what each client was handed.

### ChatCall

`phase[c]` follows one `router.chat()`:

| `phase` | the code |
|---|---|
| `idle` | not called |
| `posting`, `refusing` | an attempt is under way; `refusing` if it began on a closed client, which sends nothing |
| `waiting` | between two attempts |
| `answered` | the response is parsed, `audit.record` is not done (`router.py:106-116`) |
| `recorded` | behind the `try`: `NoteSuccess` sets `llm.success`, `Return` returns (`router.py:122-124`) |
| `failing` | in the `except BaseException` handler: `NoteFailure` (`router.py:117-121`) |
| `returned`, `raised` | done |

A provider is outside the code: an attempt may be refused, answered, or carried out
with a reply that is lost, late or of no use to `_parse` (`ReplyLost`). `served` is
history: what the provider carried out. `RecordFails` covers every way `audit.record` raises:
nothing written, a part of the line, all of it. A record is handed to the file in
one buffered write in append mode, so concurrent records do not mix within a line;
this is assumed for records longer than the buffer as well. `Close` may come at
any time: an attempt in flight may still be answered, one that begins later is
refused. An interrupt is a `BaseException`, which tenacity does not retry. Inside the
`try` (`Interrupt`) it leads to the handler, and the request may have been carried
out, the record been written. Before the `try`, behind it or in the handler
(`InterruptOutside`) it leaves `chat()` at once, with `llm.success` as it is. Python raises
`KeyboardInterrupt` on the main thread; `Interruptible` are the calls that run there.
`killed` is history: the calls that an interrupt hit.

Not in the model: the payload of a request and durations. The tracer works here;
`SpanGuard` shows what `span()` makes of one that does not. `LLMClient.stream` is
not called by the router and has its own module.

### Routing

`LoadConfig` puts the environment's and then the file's providers, one after the
other (`Merged`, a recursive function over the `Entries`), into a dict, which keeps
the place of an entry that is replaced; `BuildRouter` makes clients for the enabled
providers and the route table; `Chat` resolves. Numeric
settings, the `include_*` flags and the parsing of booleans are left out.

### Mission

Extends `ChatCall`: call `<<m, i>>` is the one of role `i` of mission `m`. `Ask`
builds the prompt and starts the call, `AskFails` is a prompt or a `ChatRequest` that
cannot be built, which is outside the loop's `try` and ends the mission; `TakeAnswer`,
`TakeFailure` are the two ends of an iteration. Any number of missions and
calls run over the same router and sink. A line of the scratchpad is
named by the call that wrote it. `AbortInChat` is the interrupt that a call passes
on, `AbortBetween` one that comes between two calls.

### RuleEngine and BuiltinRules

`scan[c]` is one `evaluate()`: `idle`, `lookup` (the list comprehension over
`rule_ids`), `running`, `returned` or `raised`. Rules are foreign code: `Does[r][x]`
says how many findings a rule gives in a context and whether it raises after
them. `Produce` is one finding taken by `list.extend`, so that a rule that is a
generator can fail half way (`RuleFails`), and `Register`, `Insert` and `Unregister` -- by
the rule itself or by another thread -- may come between any two steps. `Register` is the
check of `register()`, `Insert` its insertion: of two threads that pass the check with one
id, the second takes the place of the first (`adding` holds the rules in between). A finding is
named by its rule, the place of the rule in the scan and its number. `origin` and
`seen` are history: the registry when a scan of all rules began, and every rule
that was registered at some moment of a lookup. `BuiltinRules` gives `Does` for the
two shipped rules, with the division by zero of a threshold of zero and the overflow of
a quotient that no float can hold (`MaxFloat`).

### Templates

Templates of different names share nothing, so there is one name. `disk` is its
directory, which `Edit` changes at any moment; `call[c]` one `get()`: `listing`
(`_latest_version`), `lookup` (`key not in self._cache`), `loading` (read, not yet
stored), then `lookup` again, as the code looks the key up a second time. A content
in `Malformed` is one that `_load` raises on, half of a file that is being written
included; a half that is valid YAML with a `user`, which `_load` cannot tell from a whole
one, is assumed away. Versions are sequences of characters: the order of strings makes `9`
later than `10`. `written`, `listings` and `served` are history.

### SpanGuard

`frames` are the `span()` blocks a thread is in. Each goes from `starting` (tracer,
parent context, `__enter__`) over `attributes`, `body` and, if that raised, `recording`
(`record_exception`) to `closing`; `real` says whether the tracer's span was entered or
the no-op one took its place. Of the library only this is assumed: `__enter__` makes
the span current, `__exit__` restores what was current, and a call that fails has done
its work or nothing. `suppress(Exception)` stops no `KeyboardInterrupt`, so an interrupt can
come in each phase: `InterruptStart`, `InterruptOpen` (before the `try` block, in
`record_exception`, before `__exit__`), `InterruptExit`; in the body it is what the body
raises. `strays` are the spans that stay current though nobody will detach them: left by a
failing `__enter__` or `__exit__` that has done half its work, or by an interrupt.
`carried` is what `traceparent` holds. For a malformed value OpenTelemetry's `extract()`
does not raise but returns an empty context, and a span that is started with it is a
root.

### ChatStream

A generator works only when its caller asks: `Connect`, one step per line (`Yield`,
`SkipLine`, `ReadDone`, `ReadBad`), `ReadEof`, `ReadBroken`; between, `Resume` and `Drop`
are its caller's. The provider sends lines, ends the reply or breaks it off at its
own pace (`Send`, `Finish`, external), `Close` comes from another thread and breaks those of
the open replies that are not yet in the buffer, any subset. `conns` are
the streams that hold one of the `PoolSize` connections. A piece of text is named
by its line.

### Evaluation

A reply is a nest of wrappings (string, pydantic model, ChatResponse envelope)
around an output, of which the checks see fields, severity and confidence; `Coerce`
and the `Check` operators follow the code's early returns. `Judge` is one case.
`Meets` states what an expectation asks of an output without that order, as the
reference. `meant`, the output a reply is made to carry, is given with the suite.
Two failures are assumed away: an expectation that is no mapping (`AttributeError`) and
a reply so deep that `json.loads` raises `RecursionError`. The loop catches neither, so
each would end the run, in replay mode as well.

## 3. Runs

`CHECK_DEADLOCK FALSE` everywhere: each behaviour may end because its bound
(`MaxItems`, the given calls) is used up or all is done.

| Run | Asks | Instance, and why it is enough |
|---|---|---|
| `registry_streams` | `TypeOK`, `StreamFaithful`, `StoreIsNewest`, `ImplementsStream` | two clients, queues and deques of two, five items: both clients can overflow independently, deques evict several times, one client can leave and be reaped while the other lags |
| `registry_delivery` | `QueryAnswer`; `EventuallyDelivered` under `FairSpec` | one client (clients do not influence each other), deques and queue of two, three items, plain and not: threads evict what a query is about to read; filters with and without None, limits from zero up |
| `gateway_scans` | `GatewayTypeOK`, `CorrelationsUpToDate` | two scans, two sources, a rule that raises and one that may break, four items |
| `gateway_streams` | `NoOrphanCorrelation`, `Spec` | one scan, one client with a queue of two that overflows between a finding and its correlation |
| `missions` | `TypeOK`, `TrailMatchesOutcomes`, `LossIsBounded`, `SpanMatchesOutcome` of the calls; `MissionTypeOK`, `ResultsMatchCalls`, `PromptsSeeEarlier`, `TrailInRoleOrder`; `MissionsReturn` under `MissionFairSpec` | missions of three and two roles over one sink, one role of each without a provider; two attempts per call, so that it is answered at once, after a retry, or never; three records suffice for a torn one, the one it spoils and one after it; the second mission is on the main thread, where interrupts come |
| `routing_tiers` | `MergeIsFaithful`, `DefaultCallsAreSound` | all lists of up to two providers in the environment and in the file: enough for every way an entry is added, replaced, repeated, incomplete or disabled |
| `chat_audit_failure` | `AuditFailureHarmless`, violated | section 6: two calls, three attempts |
| `rule_scans` | `WholeScanIsAtomic`, `SelectionIsServed`, `BruteForceReported`; `ScansEnd` under `FairSpec` | two scans, the built-in rules and two of one id, one of them a generator that raises; thresholds 0 and 1, `MaxFloat` 1 so that a quotient can be too large; two changes of the registry: a rule goes while another comes, or two threads race for one id |
| `template_edits` | `TypeOK`, `ServedWasWritten`, `LatestIsFresh`, `ContentsAreFew` | two threads, two versions, three edits: a file can be added, rewritten and rolled back around one load |
| `span_failures` | `OutcomeIsTheBodys`, `EnteredIsExited`, `ContextIsInnermost`, `ParentIsKnown` | four spans, three deep: a stray span inside, beside and around live ones; every kind of `traceparent` |
| `stream_replies` | `TypeOK`, `ConnectionsAreGivenBack`, `TextIsInOrder`, `EndMeansComplete` | two streams that compete for one connection, replies of up to three lines: text before and after [DONE] or a bad line |
| `eval_suites` | `TypeOK`, `VerdictsAreRight`, `EveryCaseIsJudged` | every single case over the values where a check changes its mind; every suite of up to two replies with each of the nestings that `_coerce_output` tells apart |

Queries during scans have no run of their own: `GatewayImplementsRegistry` carries
`QueryAnswer` over from the registry. Single calls have none either: a mission of
one role is one, and the theorems about `ChatCall` hold for any calls.

The bounds: `MaxItems` (items created), `QueueCap` (1000 in the code), `MaxSize`
(100000 in the code), `MaxAttempts` (2 in `missions`; 3 in the code and in `chat_audit_failure`),
`MaxFloat` (about 1.8e308), `MaxChanges` (of a rule registry), `MaxEdits` (of a
directory), `MaxSpans` and `MaxDepth`, `MaxLines` (of a reply), `PoolSize` (100 in
httpx), the sets of calls, missions, scans and clients.
Symmetry is used only where no run checks liveness.

### Fairness

- `FindingRegistry!FairSpec`: weak fairness of a query's steps, and strong
  fairness of each connection's `Register`, `Deliver`, `DeliverFails` and `Reap`. A
  query is a finite synchronous loop. It disables every other step of the event
  loop while it runs, and queries may come again and again; but asyncio runs ready
  callbacks in the order in which they became ready, so a callback that is ready
  whenever the loop is free gets its turn: strong fairness. `Sent` has none: it
  needs a client that reads. `EventuallyDelivered` therefore says "if the client is
  not stuck in `sending` forever".
- `Mission!MissionFairSpec`: weak fairness of each mission's thread, which runs the calls
  of its roles as well: threads run on, the HTTP client has a timeout, tenacity's wait is
  at most a few seconds, the audit write is a local one. The timeout is one per read, not
  per request: that a provider which drips its reply byte by byte ends it at some time is
  assumed. Interrupts and `close()` have no fairness: nothing makes them come.
- `RuleEngine!FairSpec`: weak fairness of each scan's `Step`: a rule is a finite
  computation.

## 4. Proofs

All for arbitrary constants. Every invariant that a passing run checks is also proved.

### Assumptions

What the constants have to be, named in the modules and evaluated by TLC on its
instances:

- sizes and bounds are naturals, a queue holds at least one item, a pool at least
  one connection (`SizesAssumption`, `PoolAssumption`, `BoundsAssumption`,
  `AttemptsAssumption`); None and the like are no numbers (`NoneAssumption`,
  `NamesAssumption`, `ValuesAssumption`, `NoTurnAssumption`);
- what the code is given has the type that its signatures name: contents and
  requests have their fields, provider lists, suites, teams and scratchpads are
  lists, thresholds are integers (`ContentsAssumption`, `RequestsAssumption`,
  `EnvironmentsAssumption`, `FilesAssumption`, `TeamsAssumption`, `GivenAssumption`, ...);
- foreign code returns something: a correlation rule, for any finding and any
  snapshot, a sequence of links (`CorrelateAssumption`), which links is left open; a
  rule of the engine some findings (`DoesAssumption`), and the built-in ones those
  of `BruteForce` (`BuiltinAssumption`);
- threads are finitely many (`CallersAssumption`);
- `CoercionAssumption`: what a reply is meant to carry is what `Coerce` gets out of it.
  So `EveryVerdictIsRight` is relative to the coercion. That the coercion is
  right is not proved: TLC compares it, in the assumption and in the property, with
  wrappings whose content the instance states by itself.

### Theorems

`Gateway_proofs`, first about `FindingRegistry` alone (no assumption of `Gateway` is
used), then about `Gateway`:

| Theorem | States | Inductive invariant, and why it is needed |
|---|---|---|
| `TypeCorrect` | `Spec => []TypeOK` | `TypeInv`: `TypeOK` with `Iterating`. A query step reads `findings[pos]`, so its type needs that the deque is still the one the query started on |
| `StreamsAreFaithful` | `Spec => []StreamFaithful` | `StreamInv`: `TypeInv`, `StreamFaithful`, and no cursor beyond `created`; else a fresh item could lie below the cursor |
| `StoreHoldsTheNewest` | `Spec => []StoreIsNewest` | `StoreInv`: both deques ascend and hold nothing beyond `created`; else what a full deque drops need not be its oldest; findings are in the one, correlations in the other |
| `QueriesAreAnswered` | `Spec => []QueryAnswer` | `QueryInv`: `StoreInv`; the snapshot ascends; a running query has room left and has kept exactly the matches from its position on, newest first. A query that reached its limit has then seen only newer ones than those it leaves out |
| `RegistryImplementsStream` | `Spec => ImplementsStream` | steps of the registry mapped to steps or stutters of `EventStream`, using `StreamInv`: a queue is full exactly when its client has `Cap` pending items (the ids in a queue are distinct because they ascend), and the head of a queue is the least pending item |
| `GatewayImplementsRegistry` | `GatewaySpec => Spec` | none: each gateway step is a registry step or leaves it alone |
| `GatewayStreamsAreFaithful`, `GatewayStoreIsSound` | `GatewaySpec => []StreamFaithful`, `[](StoreIsNewest /\ QueryAnswer)` | from those above |
| `NoClientSeesOrphans` | `GatewaySpec => []NoOrphanCorrelation` | `OrphanInv`: `StreamInv`; a correlation is younger than its finding; a client heard nothing before it registered; and while a finding is handled, every client has it or has a queue that is full and stays so until the turn ends |
| `GatewayTypeCorrect` | `GatewaySpec => []GatewayTypeOK` | `GatewayTypeInv`: `StreamInv`, and all findings in the deque, in snapshots and in turns are known ones, so that rules are called with findings only |
| `ScansAreCorrelated` | `GatewaySpec => []CorrelationsUpToDate` | `LinksInv`: `GatewayTypeInv`; outside its turn a scan has emitted the links of all it collected; inside, what was emitted and what the current rule still has to emit are the links of the earlier findings followed by those of the first k rules (`InTurn`) |

`CorrelationsUpToDate` compares with `FlattenSeq`, a recursion over its argument.
What the proof needs of it -- what one more sequence adds -- is proved from its
definition by induction in the form of set theory: the set of the naturals for
which a claim holds has 0 and with n also n + 1 (`SetInduction`, from the
well-foundedness of the naturals). That form has no operator parameter.

`Mission_proofs`, first about `ChatCall` alone, then about `Mission`:

| Theorem | States | Inductive invariant |
|---|---|---|
| `ChatTypeCorrect` | `Spec => []TypeOK` | `TypeInv`: an attempt under way has not been carried out, so `served` stays within the attempts |
| `TrailIsTrue` | `Spec => []TrailMatchesOutcomes` | `TrailInv`: `TypeInv` and the trail; a call has no record before its `audit.record` ends (`Unrecorded`), so the one it then writes is its only one |
| `LossStaysBounded` | `Spec => []LossIsBounded` | follows from the trail: an unreadable record of a returned call is complete, so the record before it is torn, and torn records belong to calls that fail |
| `SpansTellOutcomes` | `Spec => []SpanMatchesOutcome` | `SpanInv`: these; a call whose answer is recorded was carried out, and `llm.success` is set in the handler or behind the `try`, nowhere before (`Unrecorded`) |
| `MissionTypeCorrect`, `ResultsAreTheCalls`, `PromptsRepeatAnswers`, `TrailKeepsRoleOrder` | `MissionSpec => []MissionTypeOK`, `ResultsMatchCalls`, `PromptsSeeEarlier`, `TrailInRoleOrder` | `MissionInv`: `TrailInv`; the roles before the current one have ended calls, those behind it idle ones, so no record of theirs is in the trail; the scratchpad repeats the answers so far; each prompt was the scratchpad when its role was asked |
| `MissionImplementsCalls`, `CallsOfMissionsAreSound` | `MissionSpec => Spec`; with it, the four theorems about calls hold for the calls of missions | `MissionInv`: a mission starts idle calls only |

The others:

| Theorem | States | Inductive invariant |
|---|---|---|
| `ProvidersAreMerged` | `Spec => []MergeIsFaithful` of `Routing` | that `Merged` is right for a list of any length is proved by set induction over the entries (`IsMerge` after the first n); the state part is that `cfg` is the merge or still empty |
| `DefaultCallsAreServed` | `Spec => []DefaultCallsAreSound` of `Routing` | `RoutingInv`: clients and routes are those of `cfg`, and the last call went along its route. The first mentions are strictly in order, so a name has one place in the merge, and the enabled entry that gave the client is the one whose model the route has |
| `EngineTypeCorrect` | `Spec => []TypeOK` of `RuleEngine`, with ids unique | `ScanInv`, below |
| `WholeScansAreAtomic` | `Spec => []WholeScanIsAtomic` | `ScanInv`: per scan, what it has collected is everything of the rules before the one it is at, and of that one the findings made, in order (`Collected`); the targets of a scan of all rules are `origin` |
| `SelectionsAreServed` | `Spec => []SelectionIsServed` | `ScanInv`: the targets found so far are one per id and in `seen`, which includes the whole registry as long as the lookup lasts |
| `BruteForceIsReported` | `Spec => []BruteForceReported` of `BuiltinRules` | `ScanInv`: a returned scan of all rules has the findings of each place. The run has thresholds 0 and 1; that negative ones raise no false alarm is covered by the theorem alone |
| `SpanTypeCorrect`, `CallersSeeTheBody`, `SpansAreExited`, `ContextIsRight`, `ParentsAreKnown` | `Spec => []TypeOK`, `OutcomeIsTheBodys`, `EnteredIsExited`, `ContextIsInnermost`, `ParentIsKnown` of `SpanGuard` | `SpanInv`: these, with what a block knows in each phase, ids that grow inwards, with a span left behind belonging to no live one (`OrderInv`), and that what a span restores is the innermost live span around it, unless one was left behind before it began (`BeforeInv`); without it, `__exit__` could make anything current |
| `TemplatesTypeCorrect`, `TemplatesWereWritten`, `LatestIsTheLatest` | `Spec => []TypeOK`, `ServedWasWritten`, `LatestIsFresh` of `Templates` | `TemplateInv`: what is on disk, cached or about to be was written; a caller that is about to list has a listing with what is on disk now; one that has listed has the last version of one of its listings |
| `TemplatesAreFew` | `Spec => []ContentsAreFew` of `Templates` | `FewInv`: the contents a version was or will be given out with, and the callers that still load it, are together no more than the callers; without the loaders in the sum the bound would not survive their next store |
| `StreamTypeCorrect`, `NoConnectionLeaks`, `CallersHaveTheText`, `BrokenRepliesRaise` | `Spec => []TypeOK`, `ConnectionsAreGivenBack`, `TextIsInOrder`, `EndMeansComplete` of `ChatStream` | `ReplyInv`: these, with which wire states and requests go with each phase |
| `ChecksAreExpectations` | `CheckOutput(out, expected) = {} <=> Meets(out, expected)` | none; by cases of the rules, for all integers |
| `SuitesAreTyped`, `EveryVerdictIsRight`, `SuitesAreFinished` | `Spec => []TypeOK`, `VerdictsAreRight`, `EveryCaseIsJudged` of `Evaluation` | `EvalInv`: these, no results before the first case, and only an accepted mode gets to the cases; with `ChecksAreExpectations` for the verdict |

The `TypeOK` of `RuleEngine` and of `SpanGuard` is proved and has no run.

### Only model-checked

- Everything under fairness (`EventuallyDelivered`, `MissionsReturn`, `ScansEnd`),
  which the prover does not reach.
- That `Coerce` finds what a reply carries: the nesting of replies has no bound that
  an induction over naturals could use, and the reference is given case by case.

## 5. Not modelled

- *Finding codec, untrusted wrapping, demo, exports*: no state and no control
  flow beyond a field or a character at a time. The one effect of the codec on
  others, metadata that `json.dumps` rejects, is `plain` in `FindingRegistry`.
- *`PromptTemplate.render`*: Jinja's work on two strings; it keeps no state.
- *`LLMClient._payload` and `_parse`*: which fields a request and a response have. What
  matters to the callers, whether a reply can be parsed, is in `ChatCall`.
- *Numeric settings, `include_*` flags, parsing of booleans* in `config.py`.
- *`/health` and `/v0.5/correlations`*: they read the registry and change nothing.

## 6. Where code and documents disagree

One disagreement is a run that TLC ends with a counterexample; `PROJECT.json` quotes the
document. In `chat_audit_failure` a failing audit write turns a paid answer into an
exception.

Others were met while modelling and have no run of their own. The models behave as the
code does. In the first three the properties leave open what document and code see
differently:

- A call whose attempts all fail leaves no audit record (`NoteFailure`, `router.py:117`);
  `docs/v0.1-contract.md:306` wants one for every call. `TrailMatchesOutcomes` demands the
  record of a call that returns, and allows one, but asks for none, if a call fails.
- `evaluate(rule_ids=...)` runs the rules in the order of the request (`Lookup`,
  `rule_engine.py:130`), and one twice that is named twice; its docstring
  (`rule_engine.py:125`) and `docs/v0.5-contract.md:152` say "in registration order".
  `SelectionIsServed` says which rules ran and that their findings are complete, not
  in which order the rules come or how often one runs.
- A brute-force rule with a threshold of zero divides by zero, which the engine swallows:
  the strictest rule is silent (`BruteForce`, `rules/builtin.py:26`), where
  `rules/builtin.py:14` says "exceeds a threshold". `BruteForceReported` asks for the
  alarm of positive thresholds, within the range of floats, and otherwise only that
  there is no false one.

In the others, where a property states what the code does, it is named:

- Two concurrent scans miss correlations between their findings: both took their
  snapshot before either added (`gateway.py:230`); `docs/v0.5-contract.md:389` says that
  registering a finding triggers the correlation check. `CorrelationsUpToDate` is about
  what is owed for the snapshot.
- With `configs/default.yml` and the default rules a STANDARD call, the one of
  `README.md:65`, raises `KeyError`: it is routed to the disabled `claude`
  (`DefaultRules`, `router.py:134`).
- `get(name)` raises `FileNotFoundError` when the newest version is rolled back
  between the listing and the read, although an older one is there (`LoadFails`,
  `templates.py:66`); "without a redeploy" (`templates.py:6`) makes that an everyday
  edit. A rewritten file has no effect once it is loaded (`ContentsAreFew`).
- A streamed reply that the provider ends without [DONE] looks complete (`ReadEof`,
  `client.py:132`); `EndMeansComplete` says so.
- With `traceparent` in the environment nested spans all hang below the remote
  parent, or are all roots if it is malformed (`Parent`, `telemetry.py:97`); `ParentIsKnown` describes
  that tree. No document speaks of nesting.
- `query()` raises `RuntimeError` when a thread calls `add_sync` during its loop
  (`QueryRaise`); the docstring at `gateway.py:81` promises producers on threads
  safety. `QueryAnswer` is about queries that return.
- A rule whose result raises when it is iterated ends the scan with a 500
  (`RuleBreaks`); `tests/test_gateway.py:395`: "A broken correlation rule must not
  break scan or other rules." `CorrelationsUpToDate` asks nothing of a scan that ended so.
- Two threads that register rules of one id may both succeed (`Insert`,
  `rule_engine.py:74-76`); `register` is to refuse the second.
- A 200 reply that does not parse is requested, and paid for, again
  (`ReplyLost`); the docstring at `client.py:121` speaks of transport errors.
- After a torn write the next record shares its line (`Readable`);
  `docs/v0.1-contract.md:225`: one record per line. `LossIsBounded` says how
  little is lost.
- The default rules have no route for LOCAL (`DefaultRules`), which `router.py:30`
  describes as forcing the local provider.
- With a YAML file, `LLM_AUDIT_BACKEND` is ignored even if the file has no audit
  section (`LoadConfig`, `config.py:113`); `config.py:93`: "YAML wins when present for
  the same key".
- A request that names a model keeps it, whatever the route says (`Chat`,
  `router.py:93`); missions always name "multi-agent" (`multi_agent.py:131`).
- Nothing reads `scratchpad_size` (`multi_agent.py:101`): prompts grow without
  bound, although `docs/v0.5-contract.md:89` gives it in tokens.

## 7. Plan

In this order:

1. Refinement: an abstract gateway in which a finding and its correlations appear
   in one step, implemented by `Gateway` as its coroutines see it, so that
   `CorrelationsUpToDate` and `NoOrphanCorrelation` follow from one abstraction.
2. Refinement: an abstract rule scan that answers in one step, implemented by a
   `RuleEngine` scan of all rules, of which `WholeScanIsAtomic` is the invariant.
3. Composition: `ChatCall` over `SpanGuard`, so that a call's span and the trail are
   shown to agree for a tracer that fails as well.
