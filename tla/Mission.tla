------------------------------- MODULE Mission -------------------------------
(***************************************************************************)
(* MultiAgentOrchestrator.run (multi_agent.py) on top of LLMRouter.chat.   *)
(*                                                                         *)
(* A mission asks its roles one after the other; what a role answers goes  *)
(* to the scratchpad, which every later prompt of the mission repeats.     *)
(* Several missions run on threads of their own over one router and one    *)
(* audit sink.                                                             *)
(*                                                                         *)
(* Call <<m, i>> is the one for the i-th role of mission m; a scratchpad   *)
(* line is named by the call that wrote it.                                *)
(***************************************************************************)
EXTENDS ChatCall, SequencesExt

CONSTANTS Missions,
          Team,        \* per mission, the roles it runs
          Given,       \* per mission, the lines its scratchpad starts with
          TierOf,      \* _TIER_BY_ROLE
          Served       \* the tiers that lead to a provider

\* _TIER_BY_ROLE of the code.
RoleTiers == [scout |-> "cheap", analyst |-> "standard", exploiter |-> "standard",
              synthesizer |-> "standard", reviewer |-> "premium"]

CallsOf(m) == {<<m, i>> : i \in DOMAIN Team[m]}

ASSUME CallsOfMissionsAssumption == Calls = UNION {CallsOf(m) : m \in Missions}
ASSUME TeamsAssumption ==
    \A m \in Missions :
        /\ Team[m] \in Seq(DOMAIN TierOf)
        /\ \A i \in DOMAIN Team[m] :
              <<m, i>> \in Unroutable <=> TierOf[Team[m][i]] \notin Served
ASSUME GivenAssumption == \A m \in Missions : Given[m] \in Seq(ToSet(Given[m]))

VARIABLES mission,   \* each run(): phase, position, scratchpad, results
          prompt     \* history: the scratchpad that each call's prompt repeats

missionVars == <<mission, prompt>>
allVars     == <<vars, missionVars>>

Current(m)   == <<m, mission[m].at>>
Running(m)   == mission[m].phase = "running"
-----------------------------------------------------------------------------
\* run() is called.
Run(m) ==
    /\ mission[m].phase = "idle"
    /\ mission' = [mission EXCEPT ![m].at    = 1,
                                  ![m].pad   = Given[m],
                                  ![m].phase = IF Team[m] = <<>> THEN "returned"
                                                                 ELSE "running"]
    /\ UNCHANGED <<vars, prompt>>

\* _build_prompt repeats every line of the scratchpad.
BuiltPrompt(m) == mission[m].pad

\* The prompt is built and router.chat resolves its tier.
Ask(m) ==
    /\ Running(m)
    /\ Resolve(Current(m)) \/ ResolveFails(Current(m))
    /\ prompt' = [prompt EXCEPT ![Current(m)] = BuiltPrompt(m)]
    /\ UNCHANGED mission

\* The loop's end: the result is kept, the next role is up.
NextRole(m, result, pad) ==
    mission' = [mission EXCEPT ![m].results = Append(@, result),
                               ![m].pad     = pad,
                               ![m].at      = @ + 1,
                               ![m].phase   = IF mission[m].at = Len(Team[m])
                                              THEN "returned" ELSE "running"]

Result(m, ok) == [role |-> Team[m][mission[m].at], call |-> Current(m), ok |-> ok]

\* chat returned and the response has a choice.
TakeAnswer(m) ==
    /\ Running(m) /\ phase[Current(m)] = "returned"
    /\ NextRole(m, Result(m, TRUE), Append(mission[m].pad, Current(m)))
    /\ UNCHANGED <<vars, prompt>>

\* Mutants: a slow role is given up while its call goes on; the router's
\* KeyError is not caught.
FailsOnTimeout(m) == phase[Current(m)] # "idle" /\ Current(m) \notin killed
FailsInClientOnly(m) ==
    \/ phase[Current(m)] = "returned"
    \/ phase[Current(m)] = "raised" /\ attempt[Current(m)] > 0
       /\ Current(m) \notin killed

\* The response has no choices, or chat raised an Exception.
Fails(m) ==
    \/ phase[Current(m)] = "returned"
    \/ phase[Current(m)] = "raised" /\ Current(m) \notin killed

\* Mutant: the scratchpad gets a line also when the role failed.
TakeFailureNoted(m) ==
    /\ Running(m)
    /\ Fails(m)
    /\ NextRole(m, Result(m, FALSE), Append(mission[m].pad, Current(m)))
    /\ UNCHANGED <<vars, prompt>>

\* Mutant: the mission goes on with the next role, without a result.
TakeFailureSkips(m) ==
    /\ Running(m)
    /\ Fails(m)
    /\ mission' = [mission EXCEPT ![m].at = @ + 1,
                                  ![m].phase = IF mission[m].at = Len(Team[m])
                                               THEN "returned" ELSE "running"]
    /\ UNCHANGED <<vars, prompt>>

\* The role's result carries the error.
TakeFailure(m) ==
    /\ Running(m)
    /\ Fails(m)
    /\ NextRole(m, Result(m, FALSE), mission[m].pad)
    /\ UNCHANGED <<vars, prompt>>

\* An exception leaves run(): the results so far are lost.
Abort(m) ==
    /\ Running(m)
    /\ mission' = [mission EXCEPT ![m].phase = "aborted"]
    /\ UNCHANGED <<vars, prompt>>

\* _build_prompt or ChatRequest raises, on inputs that cannot be rendered.
AskFails(m) == Abort(m) /\ phase[Current(m)] = "idle"

\* KeyboardInterrupt or SystemExit, out of chat or between two calls.
AbortInChat(m)  == Abort(m) /\ phase[Current(m)] = "raised" /\ Current(m) \in killed
AbortBetween(m) ==
    /\ Current(m) \in Interruptible
    /\ Abort(m) /\ phase[Current(m)] \in {"idle", "returned", "raised"}

\* A call that its mission began goes on.
CallStep(c) ==
    /\ phase[c] # "idle"
    /\ Step(c)
    /\ UNCHANGED <<mission, prompt>>

MissionInit ==
    /\ Init
    /\ mission = [m \in Missions |-> [phase |-> "idle", at |-> 0, pad |-> <<>>,
                                      results |-> <<>>]]
    /\ prompt = [c \in Calls |-> <<>>]

MissionStep(m) ==
    \/ Run(m) \/ Ask(m) \/ AskFails(m)
    \/ TakeAnswer(m) \/ TakeFailure(m) \/ AbortInChat(m)

\* A mission and its calls run on one thread.
Thread(m) == MissionStep(m) \/ \E c \in CallsOf(m) : CallStep(c)

MissionNext ==
    \/ \E m \in Missions : MissionStep(m) \/ AbortBetween(m)
    \/ \E c \in Calls : CallStep(c)
    \/ Close /\ UNCHANGED missionVars

MissionSpec == MissionInit /\ [][MissionNext]_allVars

\* Every attempt ends, at the latest with the client's timeout; every wait is
\* finite; the threads run on.  Nothing makes an interrupt come.
MissionFairSpec == MissionSpec /\ \A m \in Missions : WF_allVars(Thread(m))
-----------------------------------------------------------------------------
\* Every variable keeps its type; a mission is at one role beyond its results
\* while it runs, and only the role it is at has a call under way.
MissionTypeOK ==
    /\ \A m \in Missions :
          LET run == mission[m]
          IN  /\ run.phase \in {"idle", "running", "returned", "aborted"}
              /\ run.phase = "running" =>
                    run.at \in DOMAIN Team[m] /\ Len(run.results) = run.at - 1
              /\ run.phase = "returned" => Len(run.results) = Len(Team[m])
              /\ \A i \in DOMAIN Team[m] :
                    phase[<<m, i>>] \notin {"idle", "returned", "raised"} =>
                        run.phase = "running" /\ run.at = i

\* Results and calls agree: the i-th result is the i-th role's; it is an
\* answer only if its chat returned, and then -- with a sink -- the answer is
\* on record; if its chat raised, it is an error; and no role is asked before
\* all earlier ones have ended.
ResultsMatchCalls ==
    \A m \in Missions : \A i \in DOMAIN mission[m].results :
        LET result == mission[m].results[i]
        IN  /\ result.role = Team[m][i] /\ result.call = <<m, i>>
            /\ result.ok => /\ phase[<<m, i>>] = "returned"
                            /\ Appends => RecordsOf(<<m, i>>) # {}
            /\ \A j \in DOMAIN Team[m] :
                  phase[<<m, j>>] # "idle" /\ i < j => Ended(<<m, i>>)

\* What a prompt must repeat, written without the loop: the given lines, then
\* the answers of the earlier roles that succeeded, in the order of the roles.
Answers(m, i) == {<<m, j>> : j \in {k \in 1..(i - 1) : mission[m].results[k].ok}}
Repeats(lines, given, answers) ==
    LET n   == Len(given)
        own == (n + 1)..Len(lines)
    IN  /\ Len(lines) >= n /\ \A k \in 1..n : lines[k] = given[k]
        /\ {lines[k] : k \in own} = answers
        /\ \A p, q \in own : p < q => lines[p][2] < lines[q][2]

\* Each prompt repeats exactly the answers of the earlier roles of the same
\* mission: nothing of a failed role, nothing of another mission, nothing twice
\* and in order, whatever runs at the same time.
PromptsSeeEarlier ==
    \A m \in Missions : \A i \in DOMAIN Team[m] :
        phase[<<m, i>>] # "idle" =>
            Repeats(prompt[<<m, i>>], Given[m], Answers(m, i))

\* In the audit trail the records of one mission come in the order of its
\* roles, whichever other missions write in between.
TrailInRoleOrder ==
    \A m \in Missions : \A p, q \in DOMAIN sink :
        (/\ p < q
         /\ sink[p].call \in CallsOf(m) /\ sink[q].call \in CallsOf(m))
            => sink[p].call[2] < sink[q].call[2]

\* A mission returns, with a result per role, unless an interrupt reaches it or a
\* prompt cannot be built: no failure of a role, of the router or of the audit
\* sink, no retry loop and no closed client keeps a role's call or its mission
\* from its end.  (A mission runs once: that none runs again and again means
\* that each ends.)
MissionsReturn == []<>(\A m \in Missions : ~Running(m))
=============================================================================
