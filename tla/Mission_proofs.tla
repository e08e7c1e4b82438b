---------------------------- MODULE Mission_proofs ----------------------------
(***************************************************************************)
(* Proofs about ChatCall and Mission: first, for any number of calls and   *)
(* attempts and every audit backend, about the calls alone -- Spec and     *)
(* Next are those of ChatCall, and no assumption of Mission is used --;    *)
(* then, for any missions, roles, tiers and given lines, that the calls of *)
(* missions are such calls, and that results, prompts and trail are those  *)
(* of the roles, in their order.                                           *)
(***************************************************************************)
EXTENDS Mission, SequenceTheorems, TLAPS

(***************************************************************************)
(* One call (ChatCall).                                                    *)
(***************************************************************************)
\* TypeOK is inductive once it is known that an attempt under way has not
\* been carried out yet.
TypeInv ==
    /\ TypeOK
    /\ \A c \in Calls :
          /\ served[c] <= attempt[c]
          /\ phase[c] = "idle" => attempt[c] = 0
          /\ phase[c] \in {"posting", "refusing"} => served[c] < attempt[c]
          /\ phase[c] = "waiting" => attempt[c] < MaxAttempts
          /\ phase[c] = "answered" => served[c] > 0

LEMMA TypeInit == Init => TypeInv
<1> SUFFICES ASSUME Init PROVE TypeInv
  OBVIOUS
<1> USE AttemptsAssumption DEF Init, TypeInv, TypeOK, Phase, Unrecorded
<1>1. attempt \in [Calls -> 0..MaxAttempts] /\ served \in [Calls -> 0..MaxAttempts]
  OBVIOUS
<1>2. \A c \in Calls : served[c] = 0 /\ attempt[c] = 0 /\ phase[c] = "idle"
  OBVIOUS
<1>3. phase \in [Calls -> Phase] /\ span \in [Calls -> {"none", "unset", "success", "failure"}]
  OBVIOUS
<1>4. sink \in Seq(AuditRecord) /\ killed = {}
  OBVIOUS
<1>5. closed \in BOOLEAN
  BY Zenon
<1>6. TypeOK
  BY <1>1, <1>3, <1>4, <1>5
<1> QED
  BY <1>2, <1>6

\* What every step of a call keeps of the types; and which phases it leads to.
LEMMA CallPhases ==
    ASSUME TypeInv, NEW c \in Calls, Step(c)
    PROVE  /\ phase' \in [Calls -> Phase] /\ ~Ended(c) /\ phase'[c] # "idle"
           /\ \A d \in Calls \ {c} : phase'[d] = phase[d] /\ span'[d] = span[d]
           /\ span' \in [Calls -> {"none", "unset", "success", "failure"}]
           /\ closed' = closed /\ killed \subseteq killed' /\ killed' \subseteq killed \cup {c}
           /\ c \in killed' => phase'[c] \in {"failing", "raised"}
           /\ \A d \in killed : phase[d] \in {"failing", "raised"}
<1> USE DEF TypeInv, TypeOK, Phase, Unrecorded, Ended, Goto
<1>1. CASE Resolve(c) \/ ResolveFails(c) \/ Retry(c)
  BY <1>1 DEF Resolve, ResolveFails, Retry, Posting
<1>2. CASE PostSucceeds(c) \/ PostRefused(c) \/ ReplyLost(c)
  BY <1>2 DEF PostSucceeds, PostRefused, ReplyLost, GiveUpOrWait
<1>3. CASE Record(c) \/ RecordFails(c)
  BY <1>3 DEF Record, RecordFails
<1>4. CASE NoteFailure(c) \/ NoteSuccess(c) \/ Return(c)
  BY <1>4 DEF NoteFailure, NoteSuccess, Return
<1>5. CASE Interrupt(c) \/ InterruptOutside(c)
  BY <1>5 DEF Interrupt, InterruptOutside
<1> QED
  BY <1>1, <1>2, <1>3, <1>4, <1>5 DEF Step

\* What a step of a call does to its counters.
LEMMA CallCounts ==
    ASSUME TypeInv, NEW c \in Calls, Step(c)
    PROVE  /\ attempt' \in [Calls -> 0..MaxAttempts]
           /\ served' \in [Calls -> 0..MaxAttempts]
           /\ \A d \in Calls \ {c} : attempt'[d] = attempt[d] /\ served'[d] = served[d]
           /\ served'[c] >= served[c] /\ served'[c] <= attempt'[c]
           /\ phase'[c] \in {"posting", "refusing"} => served'[c] < attempt'[c]
           /\ phase'[c] = "waiting" => attempt'[c] < MaxAttempts
           /\ phase'[c] = "answered" => served'[c] > 0
<1> USE AttemptsAssumption DEF TypeInv, TypeOK, Phase, Unrecorded, Goto
<1>0. /\ attempt[c] \in 0..MaxAttempts /\ served[c] \in 0..MaxAttempts
      /\ served[c] <= attempt[c]
  OBVIOUS
<1>1. CASE Resolve(c)
  <2>1. attempt' = [attempt EXCEPT ![c] = 1] /\ served' = served /\ served[c] = 0
    BY <1>0, <1>1 DEF Resolve
  <2>2. phase'[c] \in {"posting", "refusing"}
    BY <1>1 DEF Resolve, Posting
  <2> QED
    BY <2>1, <2>2
<1>2. CASE ResolveFails(c)
  BY <1>0, <1>2 DEF ResolveFails
<1>3. CASE PostSucceeds(c)
  <2>1. served' = [served EXCEPT ![c] = @ + 1] /\ attempt' = attempt
        /\ served[c] < attempt[c] /\ phase'[c] = "answered"
    BY <1>3 DEF PostSucceeds
  <2> QED
    BY <1>0, <2>1
<1>4. CASE PostRefused(c)
  BY <1>0, <1>4 DEF PostRefused, GiveUpOrWait
<1>5. CASE ReplyLost(c)
  <2>1. /\ served' = [served EXCEPT ![c] = @ + 1] /\ attempt' = attempt
        /\ served[c] < attempt[c]
        /\ phase'[c] = IF attempt[c] < MaxAttempts THEN "waiting" ELSE "failing"
    BY <1>5 DEF ReplyLost, GiveUpOrWait
  <2> QED
    BY <1>0, <2>1
<1>6. CASE Retry(c)
  <2>1. /\ attempt' = [attempt EXCEPT ![c] = @ + 1] /\ served' = served
        /\ attempt[c] < MaxAttempts /\ phase'[c] \in {"posting", "refusing"}
    BY <1>6 DEF Retry, Posting
  <2> QED
    BY <1>0, <2>1
<1>7. CASE Record(c) \/ RecordFails(c) \/ NoteFailure(c) \/ Return(c) \/ InterruptOutside(c)
  BY <1>0, <1>7 DEF Record, RecordFails, NoteFailure, Return, InterruptOutside
<1>8. CASE NoteSuccess(c)
  BY <1>0, <1>8 DEF NoteSuccess
<1>9. CASE Interrupt(c)
  <2>1. /\ attempt' = attempt /\ phase'[c] = "failing"
        /\ \/ served' = served
           \/ served' = [served EXCEPT ![c] = @ + 1] /\ served[c] < attempt[c]
    BY <1>9 DEF Interrupt
  <2> QED
    BY <1>0, <2>1
<1> QED
  BY <1>1, <1>2, <1>3, <1>4, <1>5, <1>6, <1>7, <1>8, <1>9 DEF Step

\* What a step of a call does to the audit trail.
LEMMA CallAppends ==
    ASSUME TypeInv, NEW c \in Calls, Step(c)
    PROVE  \/ sink' = sink /\ (phase'[c] = "recorded" /\ phase[c] # "recorded" => ~Appends)
           \/ /\ phase[c] = "answered"
              /\ \E whole \in BOOLEAN :
                    /\ sink' = Append(sink, [call |-> c, whole |-> whole])
                    /\ phase'[c] = "failing" \/ (phase'[c] = "recorded" /\ whole)
<1> USE DEF TypeInv, TypeOK, Goto
<1>1. CASE Record(c)
  <2>1. /\ phase[c] = "answered" /\ phase'[c] = "recorded"
        /\ sink' = IF Appends THEN Append(sink, [call |-> c, whole |-> TRUE]) ELSE sink
    BY <1>1 DEF Record
  <2> QED
    BY <2>1
<1>2. CASE RecordFails(c) \/ Interrupt(c)
  <2>1. /\ phase'[c] = "failing"
        /\ UNCHANGED sink \/ (phase[c] = "answered" /\ MayAppend(c))
    BY <1>2 DEF RecordFails, Interrupt
  <2> QED
    BY <2>1 DEF MayAppend
<1>3. CASE ~(Record(c) \/ RecordFails(c) \/ Interrupt(c))
  <2>1. sink' = sink /\ (phase'[c] = "recorded" => phase[c] = "recorded")
    BY <1>3 DEF Step, Resolve, ResolveFails, PostSucceeds, PostRefused, ReplyLost, Retry,
       NoteFailure, NoteSuccess, Return, InterruptOutside, Posting, GiveUpOrWait
  <2> QED
    BY <2>1
<1> QED
  BY <1>1, <1>2, <1>3

LEMMA TypeStep == TypeInv /\ [Next]_vars => TypeInv'
<1> SUFFICES ASSUME TypeInv, [Next]_vars PROVE TypeInv'
  OBVIOUS
<1>1. CASE Close
  BY <1>1 DEF Close, TypeInv, TypeOK
<1>2. ASSUME NEW c \in Calls, Step(c) PROVE TypeInv'
  <2>1. sink' \in Seq(AuditRecord)
    <3>1. \A whole \in BOOLEAN : [call |-> c, whole |-> whole] \in AuditRecord
      BY DEF AuditRecord
    <3>2. sink \in Seq(AuditRecord)
      BY DEF TypeInv, TypeOK
    <3>3. ASSUME NEW r \in AuditRecord, sink' = Append(sink, r)
          PROVE  sink' \in Seq(AuditRecord)
      BY <3>2, <3>3
    <3>4. sink' = sink \/ \E whole \in BOOLEAN :
                            sink' = Append(sink, [call |-> c, whole |-> whole])
      BY <1>2, CallAppends
    <3> QED
      BY <3>1, <3>2, <3>3, <3>4
  <2>2. killed' \subseteq {d \in Calls : phase'[d] \in {"failing", "raised"}}
    <3>1. killed \subseteq Calls
      BY DEF TypeInv, TypeOK
    <3> QED
      BY <1>2, <3>1, CallPhases
  <2>3. TypeOK'
    BY <1>2, <2>1, <2>2, CallPhases, CallCounts DEF TypeInv, TypeOK
  <2>4. ASSUME NEW d \in Calls
        PROVE  /\ served'[d] <= attempt'[d]
               /\ phase'[d] = "idle" => attempt'[d] = 0
               /\ phase'[d] \in {"posting", "refusing"} => served'[d] < attempt'[d]
               /\ phase'[d] = "waiting" => attempt'[d] < MaxAttempts
               /\ phase'[d] = "answered" => served'[d] > 0
    <3>1. CASE d = c
      BY <1>2, <3>1, CallPhases, CallCounts
    <3>2. CASE d # c
      <4>1. phase'[d] = phase[d] /\ attempt'[d] = attempt[d] /\ served'[d] = served[d]
        BY <1>2, <3>2, CallPhases, CallCounts
      <4> QED
        BY <4>1 DEF TypeInv
    <3> QED
      BY <3>1, <3>2
  <2> QED
    BY <2>3, <2>4 DEF TypeInv
<1>3. CASE UNCHANGED vars
  BY <1>3 DEF vars, TypeInv, TypeOK
<1> QED
  BY <1>1, <1>2, <1>3 DEF Next

\* Every behaviour keeps the types, makes at most MaxAttempts attempts per
\* call, and the provider carries out no more than that.
THEOREM ChatTypeCorrect == Spec => []TypeOK
<1>1. TypeInv => TypeOK
  BY DEF TypeInv
<1> QED
  BY TypeInit, TypeStep, <1>1, PTL DEF Spec
-----------------------------------------------------------------------------
(***************************************************************************)
(* The audit trail.                                                        *)
(***************************************************************************)
\* What the trail says of an outcome holds because a call is recorded only when
\* it is answered, and that phase it leaves with the record.
TrailInv == TypeInv /\ TrailMatchesOutcomes

LEMMA TrailInit == Init => TrailInv
<1> SUFFICES ASSUME Init PROVE TrailInv
  OBVIOUS
<1>1. DOMAIN sink = {}
  BY DEF Init
<1>2. \A c \in Calls : RecordsOf(c) = {}
  BY <1>1 DEF RecordsOf
<1>3. \A c \in Calls : phase[c] = "idle"
  BY DEF Init
<1> QED
  BY <1>2, <1>3, TypeInit DEF TrailInv, TrailMatchesOutcomes

\* Adding a record at the end of the sink.
LEMMA AppendRecord ==
    ASSUME sink \in Seq(AuditRecord), NEW r \in AuditRecord, sink' = Append(sink, r)
    PROVE  /\ \A d \in Calls \ {r.call} : RecordsOf(d)' = RecordsOf(d)
           /\ RecordsOf(r.call) = {} => RecordsOf(r.call)' = {Len(sink')}
           /\ sink'[Len(sink')] = r
           /\ \A i \in DOMAIN sink : sink'[i] = sink[i]
<1>1. /\ DOMAIN sink = 1..Len(sink) /\ DOMAIN sink' = 1..(Len(sink) + 1)
      /\ Len(sink') = Len(sink) + 1 /\ Len(sink) \in Nat
      /\ \A i \in 1..Len(sink) : sink'[i] = sink[i]
      /\ sink'[Len(sink) + 1] = r
  OBVIOUS
<1>2. \A i : i \in DOMAIN sink' <=> i \in DOMAIN sink \/ i = Len(sink')
  BY <1>1
<1>3. \A d : RecordsOf(d)' = RecordsOf(d) \cup (IF r.call = d THEN {Len(sink')} ELSE {})
  BY <1>1, <1>2 DEF RecordsOf
<1> QED
  BY <1>1, <1>3

\* A step that leaves the sink alone, and takes no call back behind its record.
LEMMA SinkUntouched ==
    ASSUME TrailInv, NEW c \in Calls, sink' = sink,
           \A d \in Calls \ {c} : phase'[d] = phase[d],
           phase'[c] \in Unrecorded => phase[c] \in Unrecorded,
           phase[c] = "failing" => phase'[c] \in {"failing", "raised"},
           phase[c] \in {"returned", "raised"} => phase'[c] = phase[c],
           phase'[c] = "recorded" => phase[c] = "recorded" \/ ~Appends,
           phase'[c] = "returned" => phase[c] \in {"recorded", "returned"}
    PROVE  TrailMatchesOutcomes'
<1>1. \A d \in Calls : RecordsOf(d)' = RecordsOf(d)
  BY DEF RecordsOf
<1>2. ASSUME NEW d \in Calls
      PROVE  /\ \A i, j \in RecordsOf(d) : i = j
             /\ phase'[d] \in Unrecorded => RecordsOf(d) = {}
             /\ \A i \in RecordsOf(d) : ~sink[i].whole => phase'[d] \in {"failing", "raised"}
             /\ phase'[d] \in {"recorded", "returned"} /\ Appends => RecordsOf(d) # {}
  <2>0. /\ \A i, j \in RecordsOf(d) : i = j
        /\ phase[d] \in Unrecorded => RecordsOf(d) = {}
        /\ \A i \in RecordsOf(d) : ~sink[i].whole => phase[d] \in {"failing", "raised"}
        /\ phase[d] \in {"recorded", "returned"} /\ Appends => RecordsOf(d) # {}
    BY DEF TrailInv, TrailMatchesOutcomes
  <2>1. CASE d # c
    BY <2>0, <2>1
  <2>2. CASE d = c
    BY <2>0, <2>2
  <2> QED
    BY <2>1, <2>2
<1> QED
  BY <1>1, <1>2 DEF TrailMatchesOutcomes

\* A step that writes the record of an answered call.
LEMMA SinkAppended ==
    ASSUME TrailInv, NEW c \in Calls, NEW whole \in BOOLEAN, phase[c] = "answered",
           sink' = Append(sink, [call |-> c, whole |-> whole]),
           \A d \in Calls \ {c} : phase'[d] = phase[d],
           phase'[c] = "failing" \/ (phase'[c] = "recorded" /\ whole)
    PROVE  TrailMatchesOutcomes'
<1> DEFINE r == [call |-> c, whole |-> whole]
<1>1. /\ \A d \in Calls \ {c} : RecordsOf(d)' = RecordsOf(d)
      /\ RecordsOf(c) = {} => RecordsOf(c)' = {Len(sink')}
      /\ sink'[Len(sink')].whole = whole
      /\ \A i \in DOMAIN sink : sink'[i] = sink[i]
  <2>1. r \in AuditRecord /\ r.call = c /\ r.whole = whole
    BY DEF AuditRecord
  <2>2. sink' = Append(sink, r) /\ sink \in Seq(AuditRecord)
    BY DEF TrailInv, TypeInv, TypeOK
  <2> HIDE DEF r
  <2> QED
    BY <2>1, <2>2, AppendRecord
<1>2. RecordsOf(c) = {}
  BY DEF TrailInv, TrailMatchesOutcomes, Unrecorded
<1>3. ASSUME NEW d \in Calls \ {c}
      PROVE  /\ RecordsOf(d)' = RecordsOf(d) /\ phase'[d] = phase[d]
             /\ \A i \in RecordsOf(d) : sink'[i] = sink[i]
  BY <1>1, <1>3 DEF RecordsOf
<1> SUFFICES ASSUME NEW d \in Calls
             PROVE  /\ \A i, j \in RecordsOf(d)' : i = j
                    /\ phase'[d] \in Unrecorded => RecordsOf(d)' = {}
                    /\ \A i \in RecordsOf(d)' :
                          ~sink'[i].whole => phase'[d] \in {"failing", "raised"}
                    /\ phase'[d] \in {"recorded", "returned"} /\ Appends => RecordsOf(d)' # {}
  BY DEF TrailMatchesOutcomes
<1>4. CASE d = c
  BY <1>1, <1>2, <1>4 DEF Unrecorded
<1>5. CASE d # c
  <2>1. /\ RecordsOf(d)' = RecordsOf(d) /\ phase'[d] = phase[d]
        /\ \A i \in RecordsOf(d) : sink'[i] = sink[i]
    BY <1>3, <1>5
  <2> QED
    BY ZenonT(60), <2>1 DEF TrailInv, TrailMatchesOutcomes
<1> QED
  BY <1>4, <1>5

LEMMA TrailStep == TrailInv /\ [Next]_vars => TrailInv'
<1> SUFFICES ASSUME TrailInv, [Next]_vars PROVE TrailInv'
  OBVIOUS
<1>0. TypeInv /\ TypeInv'
  BY TypeStep DEF TrailInv
<1>1. CASE Close \/ UNCHANGED vars
  BY <1>0, <1>1 DEF Close, vars, TrailInv, TrailMatchesOutcomes, RecordsOf
<1>2. ASSUME NEW c \in Calls, Step(c) PROVE TrailInv'
  <2>1. /\ ~Ended(c) /\ phase'[c] # "idle" /\ \A d \in Calls \ {c} : phase'[d] = phase[d]
    BY <1>0, <1>2, CallPhases
  <2>2. CASE sink' = sink /\ (phase'[c] = "recorded" /\ phase[c] # "recorded" => ~Appends)
    <3>1. /\ phase'[c] \in Unrecorded => phase[c] \in Unrecorded
          /\ phase[c] = "failing" => phase'[c] \in {"failing", "raised"}
          /\ phase'[c] = "returned" => phase[c] \in {"recorded", "returned"}
      BY <1>0, <1>2 DEF Step, Resolve, ResolveFails, PostSucceeds, PostRefused, ReplyLost, Retry,
         Record, RecordFails, NoteFailure, NoteSuccess, Return, Interrupt, InterruptOutside,
         Goto, GiveUpOrWait, Posting, TypeInv, TypeOK, Unrecorded
    <3> QED
      BY <1>0, <2>1, <2>2, <3>1, SinkUntouched DEF TrailInv, Ended
  <2>3. ASSUME phase[c] = "answered", NEW whole \in BOOLEAN,
               sink' = Append(sink, [call |-> c, whole |-> whole]),
               phase'[c] = "failing" \/ (phase'[c] = "recorded" /\ whole)
        PROVE  TrailInv'
    BY <1>0, <2>1, <2>3, SinkAppended DEF TrailInv
  <2> QED
    BY <1>0, <1>2, <2>2, <2>3, CallAppends
<1> QED
  BY <1>1, <1>2 DEF Next

\* Every returned answer is recorded exactly once and completely, no call is
\* recorded twice or before its attempts are over, and a torn record is that of a
\* call that fails.
THEOREM TrailIsTrue == Spec => []TrailMatchesOutcomes
<1>1. TrailInv => TrailMatchesOutcomes
  BY DEF TrailInv
<1> QED
  BY TrailInit, TrailStep, <1>1, PTL DEF Spec

LEMMA TrailBoundsLoss == TypeInv /\ TrailMatchesOutcomes => LossIsBounded
<1> SUFFICES ASSUME TypeInv, TrailMatchesOutcomes,
                    NEW c \in Calls, phase[c] = "returned",
                    NEW i \in RecordsOf(c), ~Readable(i)
             PROVE  i > 1 /\ phase[sink[i - 1].call] \in {"failing", "raised"}
  BY DEF LossIsBounded
<1>1. sink[i].whole
  BY DEF TrailMatchesOutcomes
<1>2. i > 1 /\ ~sink[i - 1].whole
  BY <1>1 DEF Readable
<1>3. i - 1 \in DOMAIN sink /\ sink[i - 1] \in AuditRecord
  BY <1>2, ElementOfSeq DEF RecordsOf, TypeInv, TypeOK
<1>4. sink[i - 1].call \in Calls /\ i - 1 \in RecordsOf(sink[i - 1].call)
  BY <1>3 DEF RecordsOf, AuditRecord
<1> QED
  BY <1>2, <1>4 DEF TrailMatchesOutcomes

\* A failed write spoils the record of at most one returned call, the one
\* written right after it.
THEOREM LossStaysBounded == Spec => []LossIsBounded
<1>1. TrailInv => LossIsBounded
  BY TrailBoundsLoss DEF TrailInv
<1> QED
  BY TrailInit, TrailStep, <1>1, PTL DEF Spec
-----------------------------------------------------------------------------
(***************************************************************************)
(* The span.                                                               *)
(***************************************************************************)
\* The span and the outcome agree because nothing is noted before the record, and
\* the failure only on the way to the exception.
SpanInv ==
    /\ TrailInv
    /\ SpanMatchesOutcome
    /\ \A c \in Calls :
          /\ phase[c] = "recorded" => served[c] > 0
          /\ phase[c] \in Unrecorded \cup {"failing"} => span[c] \in {"none", "unset"}

LEMMA SpanInit == Init => SpanInv
<1> SUFFICES ASSUME Init PROVE SpanInv
  OBVIOUS
<1>1. \A c \in Calls : phase[c] = "idle" /\ span[c] = "none"
  BY DEF Init
<1> QED
  BY <1>1, TrailInit DEF SpanInv, SpanMatchesOutcome

\* A record that is complete stays.
LEMMA WholeStays ==
    ASSUME TypeInv, NEW c \in Calls, Step(c), NEW d \in Calls,
           \E i \in RecordsOf(d) : sink[i].whole
    PROVE  \E i \in RecordsOf(d)' : sink'[i].whole
<1>1. PICK i \in DOMAIN sink : sink[i].call = d /\ sink[i].whole
  BY DEF RecordsOf
<1>2. i \in DOMAIN sink' /\ sink'[i] = sink[i]
  <2>1. CASE sink' = sink
    BY <2>1
  <2>2. ASSUME NEW r, sink' = Append(sink, r) PROVE i \in DOMAIN sink' /\ sink'[i] = sink[i]
    BY <2>2 DEF TypeInv, TypeOK
  <2> QED
    BY <2>1, <2>2, CallAppends
<1> QED
  BY <1>1, <1>2 DEF RecordsOf

\* What a step of a call does to its own span.
LEMMA CallNotes ==
    ASSUME SpanInv, NEW c \in Calls, Step(c)
    PROVE  /\ phase'[c] = "returned" => span'[c] = "success"
           /\ phase'[c] = "raised" /\ c \notin killed' \cup Unroutable => span'[c] = "failure"
           /\ span'[c] = "failure" => phase'[c] = "raised"
           /\ span'[c] = "success" => /\ phase[c] = "recorded"
                                      /\ phase'[c] \in {"recorded", "returned"} \/ c \in killed'
           /\ phase'[c] = "recorded" => phase[c] \in {"recorded", "answered"}
           /\ phase'[c] \in Unrecorded \cup {"failing"} => span'[c] \in {"none", "unset"}
<1>0. /\ phase \in [Calls -> Phase] /\ span \in [Calls -> {"none", "unset", "success", "failure"}]
      /\ killed \subseteq Calls
      /\ phase[c] \in Unrecorded \cup {"failing"} => span[c] \in {"none", "unset"}
      /\ phase[c] = "recorded" => span[c] # "failure"
  BY DEF SpanInv, TrailInv, TypeInv, TypeOK, SpanMatchesOutcome
<1> USE DEF Phase, Unrecorded, Goto
<1>1. CASE Resolve(c) \/ ResolveFails(c) \/ Retry(c)
  BY <1>0, <1>1 DEF Resolve, ResolveFails, Retry, Posting
<1>2. CASE PostSucceeds(c) \/ PostRefused(c) \/ ReplyLost(c)
  BY <1>0, <1>2 DEF PostSucceeds, PostRefused, ReplyLost, GiveUpOrWait
<1>3. CASE Record(c) \/ RecordFails(c)
  BY <1>0, <1>3 DEF Record, RecordFails
<1>4. CASE NoteFailure(c) \/ NoteSuccess(c) \/ Return(c)
  BY <1>0, <1>4 DEF NoteFailure, NoteSuccess, Return
<1>5. CASE Interrupt(c)
  BY <1>0, <1>5 DEF Interrupt
<1>6. CASE InterruptOutside(c)
  BY <1>0, <1>6 DEF InterruptOutside
<1> QED
  BY <1>1, <1>2, <1>3, <1>4, <1>5, <1>6 DEF Step

LEMMA SpanStep == SpanInv /\ [Next]_vars => SpanInv'
<1> SUFFICES ASSUME SpanInv, [Next]_vars PROVE SpanInv'
  OBVIOUS
<1>0. TrailInv /\ TrailInv' /\ TypeInv /\ TypeInv'
  BY TrailStep DEF SpanInv, TrailInv
<1>1. CASE Close \/ UNCHANGED vars
  BY <1>0, <1>1 DEF Close, vars, SpanInv, SpanMatchesOutcome, RecordsOf
<1>2. ASSUME NEW c \in Calls, Step(c) PROVE SpanInv'
  <2>1. ASSUME NEW d \in Calls
        PROVE  /\ phase'[d] = "returned" => span'[d] = "success"
               /\ phase'[d] = "raised" /\ d \notin killed' \cup Unroutable => span'[d] = "failure"
               /\ span'[d] = "failure" => phase'[d] = "raised"
               /\ span'[d] = "success" =>
                     /\ served'[d] > 0
                     /\ phase'[d] \in {"recorded", "returned"} \/ d \in killed'
                     /\ Appends => \E i \in RecordsOf(d)' : sink'[i].whole
               /\ phase'[d] = "recorded" => served'[d] > 0
               /\ phase'[d] \in Unrecorded \cup {"failing"} => span'[d] \in {"none", "unset"}
    <3>1. CASE d = c
      <4>0. served \in [Calls -> Nat] /\ served'[c] \in Nat /\ served'[c] >= served[c]
        BY SMTT(30), <1>0, <1>2, CallCounts, AttemptsAssumption DEF TypeInv, TypeOK
      <4>1. phase[c] \in {"recorded", "answered"} => served'[c] > 0
        BY <1>0, <4>0 DEF SpanInv, TypeInv
      <4>2. phase[c] = "recorded" /\ Appends => \E i \in RecordsOf(c)' : sink'[i].whole
        <5>1. phase[c] = "recorded" /\ Appends => \E i \in RecordsOf(c) : sink[i].whole
          BY <1>0 DEF TrailInv, TrailMatchesOutcomes
        <5> QED
          BY <1>0, <1>2, <5>1, WholeStays
      <4> QED
        BY <1>2, <3>1, <4>1, <4>2, CallNotes
    <3>2. CASE d # c
      <4>1. /\ phase'[d] = phase[d] /\ span'[d] = span[d] /\ served'[d] = served[d]
            /\ d \in killed' <=> d \in killed
        BY <1>0, <1>2, <3>2, CallPhases, CallCounts
      <4>2. span[d] = "success" /\ Appends => \E i \in RecordsOf(d)' : sink'[i].whole
        BY <1>0, <1>2, WholeStays DEF SpanInv, SpanMatchesOutcome
      <4> QED
        BY <4>1, <4>2 DEF SpanInv, SpanMatchesOutcome
    <3> QED
      BY <3>1, <3>2
  <2> QED
    BY <1>0, <2>1 DEF SpanInv, SpanMatchesOutcome
<1> QED
  BY <1>1, <1>2 DEF Next

\* For any number of calls, every call that returns says success, every call that
\* raises by itself failure; and wherever an interrupt hits, success means an
\* answer on record, and failure one that is not returned.
THEOREM SpansTellOutcomes == Spec => []SpanMatchesOutcome
<1>1. SpanInv => SpanMatchesOutcome
  BY DEF SpanInv
<1> QED
  BY SpanInit, SpanStep, <1>1, PTL DEF Spec
-----------------------------------------------------------------------------
(***************************************************************************)
(* The roles of a mission (Mission).                                       *)
(***************************************************************************)
Lines      == Calls \cup UNION {ToSet(Given[m]) : m \in Missions}
RoleResult == [role : DOMAIN TierOf, call : Calls, ok : BOOLEAN]
RunRecord ==
    [phase : {"idle", "running", "returned", "aborted"}, at : Nat, pad : Seq(Lines),
     results : Seq(RoleResult)]

\* Where a run is, its results say, and its scratchpad repeats the answers.
RunInv(m) ==
    LET run == mission[m]
    IN  /\ run.phase = "idle" => run.at = 0 /\ run.results = <<>>
        /\ run.phase # "idle" => /\ run.at = Len(run.results) + 1
                                 /\ Repeats(run.pad, Given[m], Answers(m, run.at))
        /\ run.phase \in {"running", "aborted"} => run.at \in 1..Len(Team[m])
        /\ run.phase = "returned" => run.at = Len(Team[m]) + 1

\* The roles before the current one have ended, the ones after it have not begun.
RoleInv(m, i) ==
    LET run == mission[m]
    IN  /\ i > run.at => phase[<<m, i>>] = "idle"
        /\ i < run.at => Ended(<<m, i>>)
        /\ i = run.at /\ run.phase = "aborted" => phase[<<m, i>>] = "idle" \/ Ended(<<m, i>>)

ResultInv(m, i) ==
    LET result == mission[m].results[i]
    IN  /\ result.role = Team[m][i] /\ result.call = <<m, i>>
        /\ result.ok => phase[<<m, i>>] = "returned"

MissionInv ==
    /\ TrailInv
    /\ mission \in [Missions -> RunRecord]
    /\ prompt \in [Calls -> Seq(Lines)]
    /\ \A m \in Missions :
          /\ RunInv(m)
          /\ \A i \in 1..Len(Team[m]) : RoleInv(m, i)
          /\ \A i \in 1..Len(mission[m].results) : ResultInv(m, i)
    /\ PromptsSeeEarlier
    /\ TrailInRoleOrder
-----------------------------------------------------------------------------
(***************************************************************************)
(* Calls and their names.                                                  *)
(***************************************************************************)
LEMMA TeamIsSeq ==
    ASSUME NEW m \in Missions
    PROVE  /\ Team[m] \in Seq(DOMAIN TierOf) /\ DOMAIN Team[m] = 1..Len(Team[m])
           /\ Len(Team[m]) \in Nat /\ \A i \in 1..Len(Team[m]) : Team[m][i] \in DOMAIN TierOf
  BY TeamsAssumption, LenProperties, ElementOfSeq

LEMMA CallNames ==
    /\ \A m \in Missions : \A i \in 1..Len(Team[m]) : <<m, i>> \in CallsOf(m)
    /\ \A m \in Missions : CallsOf(m) \subseteq Calls
    /\ \A m \in Missions : \A c \in CallsOf(m) : \E i \in 1..Len(Team[m]) : c = <<m, i>>
    /\ \A c \in Calls : \E m \in Missions : c \in CallsOf(m)
<1>1. \A m \in Missions : CallsOf(m) = {<<m, i>> : i \in 1..Len(Team[m])}
  BY TeamIsSeq DEF CallsOf
<1>2. Calls = UNION {CallsOf(m) : m \in Missions}
  BY CallsOfMissionsAssumption
<1>3. \A m \in Missions : CallsOf(m) \subseteq Calls
  BY <1>2
<1>4. \A c \in Calls : \E m \in Missions : c \in CallsOf(m)
  BY <1>2
<1> QED
  BY <1>1, <1>3, <1>4

LEMMA CurrentIsCall ==
    ASSUME MissionInv, NEW m \in Missions, Running(m)
    PROVE  /\ mission[m].at \in 1..Len(Team[m]) /\ Current(m) = <<m, mission[m].at>>
           /\ Current(m) \in CallsOf(m) /\ Current(m) \in Calls
<1>1. mission[m].at \in 1..Len(Team[m]) /\ Current(m) = <<m, mission[m].at>>
  BY DEF MissionInv, RunInv, Running, Current
<1> QED
  BY <1>1, CallNames

\* A call under way is the current one of a mission that runs.
LEMMA ActiveIsCurrent ==
    ASSUME MissionInv, NEW m \in Missions, NEW i \in 1..Len(Team[m]),
           phase[<<m, i>>] # "idle", ~Ended(<<m, i>>)
    PROVE  Running(m) /\ i = mission[m].at
<1>1. RoleInv(m, i) /\ RunInv(m) /\ mission[m].at \in Nat /\ i \in Nat /\ Len(Team[m]) \in Nat
      /\ mission[m].phase \in {"idle", "running", "returned", "aborted"}
  BY TeamIsSeq DEF MissionInv, RunRecord
<1>2. ~(i > mission[m].at) /\ ~(i < mission[m].at)
  BY <1>1 DEF RoleInv
<1>3. i = mission[m].at
  BY <1>1, <1>2
<1> QED
  BY <1>1, <1>3 DEF RoleInv, RunInv, Running, Ended

\* A step of the missions is a step of one call, or leaves the calls alone.
LEMMA MissionStepIsCallStep == MissionInv /\ [MissionNext]_allVars => [Next]_vars
<1> SUFFICES ASSUME MissionInv, [MissionNext]_allVars PROVE [Next]_vars
  OBVIOUS
<1> USE DEF Next
<1>1. ASSUME NEW m \in Missions, MissionStep(m) \/ AbortBetween(m) PROVE [Next]_vars
  <2>1. CASE Ask(m)
    <3>1. Current(m) \in Calls
      BY <2>1, CurrentIsCall DEF Ask
    <3> QED
      BY <2>1, <3>1 DEF Ask, Step
  <2>2. CASE \/ Run(m) \/ TakeAnswer(m) \/ TakeFailure(m)
             \/ AskFails(m) \/ AbortInChat(m) \/ AbortBetween(m)
    BY <2>2 DEF Run, TakeAnswer, TakeFailure, AskFails, AbortInChat, AbortBetween, Abort
  <2> QED
    BY <1>1, <2>1, <2>2 DEF MissionStep
<1>2. ASSUME NEW c \in Calls, CallStep(c) PROVE [Next]_vars
  BY <1>2 DEF CallStep
<1>3. CASE Close
  BY <1>3
<1>4. CASE UNCHANGED allVars
  BY <1>4 DEF allVars
<1> QED
  BY <1>1, <1>2, <1>3, <1>4 DEF MissionNext

\* What a step of a call does to the others and to the trail.
LEMMA CallEffects ==
    ASSUME TrailInv, NEW c \in Calls, Step(c)
    PROVE  /\ ~Ended(c) /\ phase'[c] # "idle"
           /\ \A d \in Calls \ {c} : phase'[d] = phase[d]
           /\ \/ sink' = sink
              \/ /\ phase[c] = "answered"
                 /\ \E r \in AuditRecord : r.call = c /\ sink' = Append(sink, r)
<1>1. /\ ~Ended(c) /\ phase'[c] # "idle"
      /\ \A d \in Calls \ {c} : phase'[d] = phase[d]
  BY CallPhases DEF TrailInv
<1>2. \A whole \in BOOLEAN : /\ [call |-> c, whole |-> whole] \in AuditRecord
                             /\ [call |-> c, whole |-> whole].call = c
  BY DEF AuditRecord
<1> QED
  BY <1>1, <1>2, CallAppends DEF TrailInv

LEMMA RunIsTyped ==
    ASSUME MissionInv, NEW m \in Missions
    PROVE  /\ mission[m].at \in Nat /\ mission[m].results \in Seq(RoleResult)
           /\ mission[m].phase \in {"idle", "running", "returned", "aborted"}
           /\ mission[m].pad \in Seq(Lines) /\ Len(mission[m].results) \in Nat
<1>1. mission[m] \in RunRecord
  BY DEF MissionInv
<1> QED
  BY <1>1 DEF RunRecord
-----------------------------------------------------------------------------
(***************************************************************************)
(* Scratchpads.                                                            *)
(***************************************************************************)
\* The given lines repeat no answer.
LEMMA GivenAlone ==
    ASSUME NEW m \in Missions
    PROVE  /\ Given[m] \in Seq(Lines)
           /\ Repeats(Given[m], Given[m], {})
<1>1. Given[m] \in Seq(ToSet(Given[m])) /\ ToSet(Given[m]) \subseteq Lines
  BY GivenAssumption DEF Lines
<1>2. Given[m] \in Seq(Lines)
  BY <1>1, SeqMonotonic
<1>3. Len(Given[m]) \in Nat /\ (Len(Given[m]) + 1)..Len(Given[m]) = {}
  BY <1>2, LenProperties
<1> QED
  BY <1>2, <1>3 DEF Repeats

\* A line added at the end, of a later role than the lines before it.
LEMMA LineAdded ==
    ASSUME NEW S, NEW lines \in Seq(S), NEW given, Len(given) \in Nat, NEW answers,
           Repeats(lines, given, answers), NEW c \in S, \A a \in answers : a[2] < c[2]
    PROVE  Repeats(Append(lines, c), given, answers \cup {c})
<1> DEFINE more == Append(lines, c)
           n == Len(given)
<1>1. /\ Len(more) = Len(lines) + 1 /\ Len(lines) \in Nat /\ more[Len(lines) + 1] = c
      /\ \A k \in 1..Len(lines) : more[k] = lines[k]
  OBVIOUS
<1>2. /\ Len(lines) >= n /\ \A k \in 1..n : lines[k] = given[k]
      /\ {lines[k] : k \in (n + 1)..Len(lines)} = answers
      /\ \A p, q \in (n + 1)..Len(lines) : p < q => lines[p][2] < lines[q][2]
  BY DEF Repeats
<1> HIDE DEF more
<1>3. (n + 1)..Len(more) = (n + 1)..Len(lines) \cup {Len(lines) + 1}
  BY <1>1, <1>2
<1>4. \A k \in (n + 1)..Len(lines) : more[k] = lines[k] /\ lines[k] \in answers
  BY <1>1, <1>2
<1>5. {more[k] : k \in (n + 1)..Len(more)} = answers \cup {c}
  BY <1>1, <1>2, <1>3, <1>4
<1>6. ASSUME NEW p \in (n + 1)..Len(more), NEW q \in (n + 1)..Len(more), p < q
      PROVE  more[p][2] < more[q][2]
  <2>1. p \in (n + 1)..Len(lines)
    BY <1>1, <1>6
  <2>2. CASE q \in (n + 1)..Len(lines)
    BY <1>2, <1>4, <1>6, <2>1, <2>2
  <2>3. CASE q = Len(lines) + 1
    BY <1>1, <1>4, <2>1, <2>3
  <2> QED
    BY <1>3, <2>2, <2>3
<1>7. Len(more) >= n /\ \A k \in 1..n : more[k] = given[k]
  BY <1>1, <1>2
<1> QED
  BY <1>5, <1>6, <1>7 DEF Repeats, more

\* The answers of the roles up to the current one, when its result is kept.
LEMMA AnswersGrow ==
    ASSUME MissionInv, NEW m \in Missions, Running(m), NEW r \in RoleResult,
           NEW at \in Nat, at = mission[m].at,
           mission'[m].results = Append(mission[m].results, r)
    PROVE  /\ \A i \in 1..at : Answers(m, i)' = Answers(m, i)
           /\ Answers(m, at + 1)' = IF r.ok THEN Answers(m, at) \cup {Current(m)}
                                            ELSE Answers(m, at)
<1> DEFINE old == mission[m].results
           new == mission'[m].results
<1>1. /\ at \in Nat \ {0} /\ at = Len(old) + 1 /\ old \in Seq(RoleResult)
  BY RunIsTyped DEF MissionInv, RunInv, Running
<1>2. new[at] = r /\ \A k \in 1..(at - 1) : new[k] = old[k]
  BY <1>1
<1>3. \A i \in 1..at : 1..(i - 1) \subseteq 1..(at - 1)
  BY <1>1
<1>4. 1..((at + 1) - 1) = 1..(at - 1) \cup {at} /\ at \notin 1..(at - 1)
  BY <1>1
<1>5. Answers(m, at) = {<<m, j>> : j \in {k \in 1..(at - 1) : old[k].ok}}
  BY DEF Answers
<1>6. \A i : Answers(m, i)' = {<<m, j>> : j \in {k \in 1..(i - 1) : new[k].ok}}
  BY DEF Answers
<1>7. \A i : Answers(m, i) = {<<m, j>> : j \in {k \in 1..(i - 1) : old[k].ok}}
  BY DEF Answers
<1>8. Current(m) = <<m, at>>
  BY DEF Current
<1> HIDE DEF old, new
<1>9. \A i \in 1..at : Answers(m, i)' = Answers(m, i)
  BY <1>2, <1>3, <1>6, <1>7
<1>10. {k \in 1..((at + 1) - 1) : new[k].ok} =
           IF r.ok THEN {k \in 1..(at - 1) : old[k].ok} \cup {at}
                   ELSE {k \in 1..(at - 1) : old[k].ok}
  BY <1>2, <1>4
<1>11. Answers(m, at + 1)' = IF r.ok THEN Answers(m, at) \cup {Current(m)} ELSE Answers(m, at)
  <2> DEFINE T == {k \in 1..(at - 1) : old[k].ok}
             U == {k \in 1..((at + 1) - 1) : new[k].ok}
  <2>1. Answers(m, at + 1)' = {<<m, j>> : j \in U} /\ Answers(m, at) = {<<m, j>> : j \in T}
    BY <1>5, <1>6
  <2>2. U = IF r.ok THEN T \cup {at} ELSE T
    BY <1>10
  <2> HIDE DEF T, U
  <2>3. {<<m, j>> : j \in T \cup {at}} = {<<m, j>> : j \in T} \cup {<<m, at>>}
    OBVIOUS
  <2> QED
    BY <1>8, <2>1, <2>2, <2>3
<1> QED
  BY <1>9, <1>11
-----------------------------------------------------------------------------
(***************************************************************************)
(* The steps.                                                              *)
(***************************************************************************)
\* A step of run() outside of chat moves its own mission only.
LEMMA OneMissionMoves ==
    ASSUME MissionInv, NEW m \in Missions, UNCHANGED <<vars, prompt>>,
           mission' \in [Missions -> RunRecord],
           \A n \in Missions \ {m} : mission'[n] = mission[n],
           RunInv(m)', \A i \in 1..Len(Team[m]) : RoleInv(m, i)',
           \A i \in 1..Len(mission'[m].results) : ResultInv(m, i)',
           \A i \in 1..Len(Team[m]) :
              phase[<<m, i>>] # "idle" => Answers(m, i)' = Answers(m, i)
    PROVE  MissionInv'
<1>1. TrailInv'
  BY TrailStep DEF MissionInv
<1>2. prompt' \in [Calls -> Seq(Lines)] /\ TrailInRoleOrder'
  BY DEF MissionInv, vars, TrailInRoleOrder
<1>3. ASSUME NEW n \in Missions \ {m}
      PROVE  /\ RunInv(n)' /\ \A i \in 1..Len(Team[n]) : RoleInv(n, i)'
             /\ \A i \in 1..Len(mission'[n].results) : ResultInv(n, i)'
             /\ \A i : Answers(n, i)' = Answers(n, i)
  <2>1. mission'[n] = mission[n] /\ phase' = phase
    BY DEF vars
  <2>2. /\ RunInv(n) /\ \A i \in 1..Len(Team[n]) : RoleInv(n, i)
        /\ \A i \in 1..Len(mission[n].results) : ResultInv(n, i)
    BY DEF MissionInv
  <2>3. \A i : Answers(n, i)' = Answers(n, i)
    BY <2>1 DEF Answers
  <2>4. RunInv(n)'
    BY <2>1, <2>2 DEF RunInv, Answers
  <2>5. \A i \in 1..Len(Team[n]) : RoleInv(n, i)'
    BY <2>1, <2>2 DEF RoleInv, Ended
  <2>6. \A i \in 1..Len(mission'[n].results) : ResultInv(n, i)'
    BY <2>1, <2>2 DEF ResultInv
  <2> QED
    BY <2>3, <2>4, <2>5, <2>6
<1>4. PromptsSeeEarlier'
  <2>1. prompt' = prompt /\ phase' = phase
    BY DEF vars
  <2>2. \A n \in Missions : \A i \in DOMAIN Team[n] :
           phase[<<n, i>>] # "idle" => Answers(n, i)' = Answers(n, i)
    BY <1>3, TeamIsSeq
  <2> QED
    BY <2>1, <2>2 DEF MissionInv, PromptsSeeEarlier
<1> QED
  BY <1>1, <1>2, <1>3, <1>4 DEF MissionInv

\* A role after the current one, or the current one before it is asked, is idle.
LEMMA LaterRolesIdle ==
    ASSUME MissionInv, NEW m \in Missions, NEW i \in 1..Len(Team[m]),
           mission[m].at < i \/ mission[m].phase = "idle"
    PROVE  phase[<<m, i>>] = "idle"
<1>1. RoleInv(m, i) /\ RunInv(m) /\ mission[m].at \in Nat /\ i \in Nat /\ i > 0
  BY RunIsTyped, TeamIsSeq DEF MissionInv
<1> QED
  BY <1>1 DEF RoleInv, RunInv

LEMMA RunKeeps == ASSUME MissionInv, NEW m \in Missions, Run(m) PROVE MissionInv'
<1> DEFINE new == [mission[m] EXCEPT !.at = 1, !.pad = Given[m],
                       !.phase = IF Team[m] = <<>> THEN "returned" ELSE "running"]
<1>1. mission[m].phase = "idle" /\ UNCHANGED <<vars, prompt>>
  BY DEF Run
<1>2. mission[m] \in RunRecord /\ mission \in [Missions -> RunRecord]
  BY DEF MissionInv
<1>3. mission' = [mission EXCEPT ![m] = new]
  BY <1>2 DEF Run, RunRecord
<1>4. /\ new \in RunRecord /\ new.at = 1 /\ new.pad = Given[m] /\ new.results = <<>>
      /\ new.phase = IF Team[m] = <<>> THEN "returned" ELSE "running"
  <2>1. mission[m].results = <<>>
    BY <1>1 DEF MissionInv, RunInv
  <2> QED
    BY <1>2, <2>1, GivenAlone DEF RunRecord
<1>5. Team[m] = <<>> <=> Len(Team[m]) = 0
  BY TeamIsSeq, EmptySeq
<1> HIDE DEF new
<1>6. mission'[m] = new /\ \A n \in Missions \ {m} : mission'[n] = mission[n]
  BY <1>2, <1>3
<1>7. mission' \in [Missions -> RunRecord]
  BY <1>2, <1>3, <1>4
<1>8. \A i \in 1..Len(Team[m]) : phase[<<m, i>>] = "idle" /\ phase' = phase
  BY <1>1, LaterRolesIdle DEF vars
<1>9. Answers(m, 1)' = {}
  BY DEF Answers
<1>10. RunInv(m)'
  <2>1. Len(<<>>) = 0 /\ Len(Team[m]) \in Nat
    BY TeamIsSeq
  <2>2. Repeats(mission'[m].pad, Given[m], Answers(m, mission[m].at)')
    BY <1>4, <1>6, <1>9, GivenAlone DEF Answers
  <2>3. /\ mission'[m].at = 1 /\ Len(mission'[m].results) = 0
        /\ mission'[m].phase = IF Len(Team[m]) = 0 THEN "returned" ELSE "running"
    BY <1>4, <1>5, <1>6, <2>1
  <2> QED
    BY <2>1, <2>2, <2>3 DEF RunInv
<1>11. \A i \in 1..Len(Team[m]) : RoleInv(m, i)'
  <2>1. \A i \in 1..Len(Team[m]) : i \in Nat /\ i >= 1
    BY TeamIsSeq
  <2> QED
    BY <1>4, <1>6, <1>8, <2>1 DEF RoleInv
<1>12. 1..Len(mission'[m].results) = {}
  BY <1>4, <1>6
<1> QED
  BY <1>1, <1>6, <1>7, <1>8, <1>10, <1>11, <1>12, OneMissionMoves

LEMMA AbortKeeps ==
    ASSUME MissionInv, NEW m \in Missions, AskFails(m) \/ AbortInChat(m) \/ AbortBetween(m)
    PROVE  MissionInv'
<1>1. /\ Running(m) /\ UNCHANGED <<vars, prompt>>
      /\ mission' = [mission EXCEPT ![m].phase = "aborted"]
      /\ phase[Current(m)] = "idle" \/ Ended(Current(m))
  BY DEF AskFails, AbortInChat, AbortBetween, Abort, Ended
<1>2. mission[m] \in RunRecord /\ mission \in [Missions -> RunRecord]
  BY DEF MissionInv
<1>3. /\ mission'[m].at = mission[m].at /\ mission'[m].results = mission[m].results
      /\ mission'[m].pad = mission[m].pad /\ mission'[m].phase = "aborted"
      /\ \A n \in Missions \ {m} : mission'[n] = mission[n]
  BY <1>1, <1>2 DEF RunRecord
<1>4. mission' \in [Missions -> RunRecord]
  BY <1>1, <1>2 DEF RunRecord
<1>5. \A i : Answers(m, i)' = Answers(m, i)
  BY <1>3 DEF Answers
<1>6. RunInv(m)'
  <2>1. RunInv(m) /\ mission[m].phase = "running"
    BY <1>1 DEF MissionInv, Running
  <2>2. Repeats(mission[m].pad, Given[m], Answers(m, mission[m].at))
    BY <2>1 DEF RunInv
  <2>3. Repeats(mission'[m].pad, Given[m], Answers(m, mission[m].at)')
    BY <1>3, <1>5, <2>2 DEF Answers
  <2> QED
    BY <1>3, <2>1, <2>3 DEF RunInv
<1>7. \A i \in 1..Len(Team[m]) : RoleInv(m, i)'
  <2>1. \A i \in 1..Len(Team[m]) : RoleInv(m, i)
    BY DEF MissionInv
  <2>2. phase' = phase /\ Current(m) = <<m, mission[m].at>>
    BY <1>1 DEF vars, Current
  <2> QED
    BY <1>1, <1>3, <2>1, <2>2 DEF RoleInv, Ended
<1>8. \A i \in 1..Len(mission'[m].results) : ResultInv(m, i)'
  <2>1. \A i \in 1..Len(mission[m].results) : ResultInv(m, i)
    BY DEF MissionInv
  <2>2. phase' = phase
    BY <1>1 DEF vars
  <2> QED
    BY <1>3, <2>1, <2>2 DEF ResultInv
<1> QED
  BY <1>1, <1>3, <1>4, <1>5, <1>6, <1>7, <1>8, OneMissionMoves

\* The end of the loop's body: a result is kept, and a line only of an answer.
LEMMA NextRoleKeeps ==
    ASSUME MissionInv, NEW m \in Missions, Running(m), NEW ok \in BOOLEAN,
           Ended(Current(m)), ok => phase[Current(m)] = "returned",
           NextRole(m, Result(m, ok), IF ok THEN Append(mission[m].pad, Current(m))
                                            ELSE mission[m].pad),
           UNCHANGED <<vars, prompt>>
    PROVE  MissionInv'
<1> DEFINE old == mission[m]
           r   == Result(m, ok)
           pad == IF ok THEN Append(old.pad, Current(m)) ELSE old.pad
           new == [old EXCEPT !.results = Append(@, r), !.pad = pad, !.at = @ + 1,
                     !.phase = IF old.at = Len(Team[m]) THEN "returned" ELSE "running"]
<1> PICK at \in Nat : at = old.at
  BY RunIsTyped
<1>1. /\ at \in 1..Len(Team[m]) /\ Current(m) = <<m, at>> /\ Current(m) \in Calls
      /\ Len(Team[m]) \in Nat
  BY CurrentIsCall, TeamIsSeq
<1>2. /\ mission \in [Missions -> RunRecord] /\ old \in RunRecord
      /\ at = Len(old.results) + 1 /\ Repeats(old.pad, Given[m], Answers(m, at))
      /\ old.results \in Seq(RoleResult) /\ old.pad \in Seq(Lines)
  BY RunIsTyped DEF MissionInv, RunInv, Running
<1>3. r \in RoleResult /\ r.role = Team[m][at] /\ r.call = <<m, at>> /\ r.ok = ok
  BY <1>1, TeamIsSeq DEF Result, RoleResult
<1>4. Current(m) \in Lines
  BY <1>1 DEF Lines
<1>5. pad \in Seq(Lines)
  BY <1>2, <1>4
<1>6. mission' = [mission EXCEPT ![m] = new]
  BY <1>2 DEF NextRole, RunRecord
<1>7. Append(old.results, r) \in Seq(RoleResult)
  BY <1>2, <1>3
<1>8. /\ new \in RunRecord /\ new.at = at + 1 /\ new.results = Append(old.results, r)
      /\ new.pad = pad
      /\ new.phase = IF at = Len(Team[m]) THEN "returned" ELSE "running"
  <2> HIDE DEF r, pad
  <2>1. at + 1 \in Nat
    OBVIOUS
  <2>2. (IF at = Len(Team[m]) THEN "returned" ELSE "running")
           \in {"idle", "running", "returned", "aborted"}
    OBVIOUS
  <2> QED
    BY <1>2, <1>5, <1>7, <2>1, <2>2 DEF RunRecord
<1>9. UNCHANGED <<vars, prompt>> /\ phase' = phase
  BY DEF vars
<1>10. /\ \A i \in 1..at : Answers(m, i)' = Answers(m, i)
       /\ Answers(m, at + 1)' = IF ok THEN Answers(m, at) \cup {Current(m)}
                                      ELSE Answers(m, at)
  <2>1. mission'[m].results = Append(mission[m].results, r)
    BY <1>2, <1>6, <1>8
  <2> HIDE DEF r
  <2> QED
    BY <1>3, <2>1, AnswersGrow
<1>11. Repeats(pad, Given[m], Answers(m, at + 1)')
  <2>1. \A a \in Answers(m, at) : a[2] < at
    BY <1>1 DEF Answers
  <2>2. Len(Given[m]) \in Nat
    BY GivenAlone, LenProperties
  <2>3. CASE ok
    <3>1. \A a \in Answers(m, at) : a[2] < Current(m)[2]
      BY <1>1, <2>1
    <3>2. Repeats(Append(old.pad, Current(m)), Given[m], Answers(m, at) \cup {Current(m)})
      BY <1>2, <1>4, <2>2, <3>1, LineAdded
    <3> QED
      BY <1>10, <2>3, <3>2
  <2>4. CASE ~ok
    BY <1>2, <1>10, <2>4
  <2> QED
    BY <2>3, <2>4
<1>12. \A i \in 1..Len(old.results) : ResultInv(m, i)
  BY DEF MissionInv
<1>13. \A i \in 1..Len(Team[m]) : RoleInv(m, i)
  BY DEF MissionInv
<1> HIDE DEF r, pad, new
<1>14. mission'[m] = new /\ \A n \in Missions \ {m} : mission'[n] = mission[n]
  BY <1>2, <1>6
<1>15. mission' \in [Missions -> RunRecord]
  BY <1>2, <1>6, <1>8
<1>16. Len(mission'[m].results) = at
  BY <1>2, <1>3, <1>8, <1>14
<1>17. RunInv(m)'
  <2>1. Answers(m, mission[m].at)' = Answers(m, at + 1)'
    BY <1>8, <1>14 DEF Answers
  <2>2. Repeats(mission'[m].pad, Given[m], Answers(m, mission[m].at)')
    BY <1>8, <1>11, <1>14, <2>1
  <2>3. /\ mission'[m].at = at + 1 /\ Len(mission'[m].results) = at
        /\ mission'[m].phase = IF at = Len(Team[m]) THEN "returned" ELSE "running"
    BY <1>8, <1>14, <1>16
  <2> QED
    BY <1>1, <2>2, <2>3 DEF RunInv
<1>18. \A i \in 1..Len(Team[m]) : RoleInv(m, i)'
  <2>1. mission'[m].at = at + 1 /\ mission'[m].phase # "aborted"
    BY <1>8, <1>14
  <2> SUFFICES ASSUME NEW i \in 1..Len(Team[m]) PROVE RoleInv(m, i)'
    OBVIOUS
  <2>2. i > at + 1 => phase[<<m, i>>] = "idle"
    BY <1>1, <1>13 DEF RoleInv
  <2>3. i < at + 1 => Ended(<<m, i>>)
    BY <1>1, <1>13 DEF RoleInv
  <2> QED
    BY <1>9, <2>1, <2>2, <2>3 DEF RoleInv, Ended
<1>19. \A i \in 1..Len(mission'[m].results) : ResultInv(m, i)'
  <2> SUFFICES ASSUME NEW i \in 1..at PROVE ResultInv(m, i)'
    BY <1>16
  <2>1. CASE i = at
    <3>1. mission'[m].results[i] = r
      BY <1>2, <1>8, <1>14, <2>1
    <3> QED
      BY <1>1, <1>3, <1>9, <2>1, <3>1 DEF ResultInv
  <2>2. CASE i # at
    <3>1. i \in 1..Len(old.results) /\ mission'[m].results[i] = old.results[i]
      BY <1>2, <1>8, <1>14, <2>2
    <3> QED
      BY <1>9, <1>12, <3>1 DEF ResultInv
  <2> QED
    BY <2>1, <2>2
<1>20. \A i \in 1..Len(Team[m]) : phase[<<m, i>>] # "idle" => Answers(m, i)' = Answers(m, i)
  <2> SUFFICES ASSUME NEW i \in 1..Len(Team[m]), phase[<<m, i>>] # "idle"
               PROVE  i \in 1..at
    BY <1>10
  <2> QED
    BY <1>1, LaterRolesIdle
<1> QED
  BY <1>9, <1>14, <1>15, <1>17, <1>18, <1>19, <1>20, OneMissionMoves

LEMMA TakeKeeps ==
    ASSUME MissionInv, NEW m \in Missions, TakeAnswer(m) \/ TakeFailure(m)
    PROVE  MissionInv'
<1>1. CASE TakeAnswer(m)
  <2>1. /\ Running(m) /\ Ended(Current(m)) /\ phase[Current(m)] = "returned"
        /\ UNCHANGED <<vars, prompt>>
        /\ NextRole(m, Result(m, TRUE), Append(mission[m].pad, Current(m)))
    BY <1>1 DEF TakeAnswer, Ended
  <2> QED
    BY <2>1, NextRoleKeeps
<1>2. CASE TakeFailure(m)
  <2>1. /\ Running(m) /\ Ended(Current(m)) /\ UNCHANGED <<vars, prompt>>
        /\ NextRole(m, Result(m, FALSE), mission[m].pad)
    BY <1>2 DEF TakeFailure, Fails, Ended
  <2> QED
    BY <2>1, NextRoleKeeps
<1> QED
  BY <1>1, <1>2

\* One call moves while the missions stand still.  It is the current call of a
\* mission that runs, so that no result speaks of it yet, and what it adds to
\* the trail comes after the records of the earlier roles.
LEMMA CallMoves ==
    ASSUME MissionInv, NEW m \in Missions, NEW i \in 1..Len(Team[m]), NEW c, c = <<m, i>>,
           mission' = mission, i = mission[m].at, Running(m), Step(c),
           prompt' \in [Calls -> Seq(Lines)], \A d \in Calls \ {c} : prompt'[d] = prompt[d],
           Repeats(prompt'[c], Given[m], Answers(m, i))
    PROVE  MissionInv'
<1>0. c \in Calls
  BY CallNames
<1>1. TrailInv /\ TrailInv'
  BY <1>0, TrailStep DEF MissionInv, Next
<1>2. /\ ~Ended(c) /\ phase'[c] # "idle"
      /\ \A d \in Calls \ {c} : phase'[d] = phase[d]
      /\ \/ sink' = sink
         \/ /\ phase[c] = "answered"
            /\ \E r \in AuditRecord : r.call = c /\ sink' = Append(sink, r)
  BY <1>0, <1>1, CallEffects
<1>3. \A n \in Missions : \A j \in 1..Len(Team[n]) : <<n, j>> \in Calls
  BY CallNames
<1>4. \A n, j : Answers(n, j)' = Answers(n, j)
  BY DEF Answers
<1>5. \A n \in Missions : RunInv(n)'
  <2>1. \A n \in Missions : RunInv(n)
    BY DEF MissionInv
  <2> QED
    BY <2>1 DEF RunInv, Answers
<1>6. ASSUME NEW n \in Missions, NEW j \in 1..Len(Team[n]) PROVE RoleInv(n, j)'
  <2>1. RoleInv(n, j)
    BY DEF MissionInv
  <2>2. CASE <<n, j>> = c
    <3>1. n = m /\ j = i /\ mission[n].phase = "running" /\ i \in Nat
      BY <2>2, TeamIsSeq DEF Running
    <3> QED
      BY <3>1 DEF RoleInv
  <2>3. CASE <<n, j>> # c
    BY <1>2, <1>3, <2>1, <2>3 DEF RoleInv, Ended
  <2> QED
    BY <2>2, <2>3
<1>7. ASSUME NEW n \in Missions, NEW j \in 1..Len(mission[n].results)
      PROVE  ResultInv(n, j)'
  <2>1. ResultInv(n, j) /\ RunInv(n) /\ mission[n].at \in Nat /\ Len(Team[n]) \in Nat
        /\ Len(mission[n].results) \in Nat
        /\ mission[n].phase \in {"idle", "running", "returned", "aborted"}
    BY RunIsTyped, TeamIsSeq DEF MissionInv
  <2>2. j < mission[n].at /\ j \in 1..Len(Team[n])
    <3>1. mission[n].phase # "idle"
      BY <2>1, EmptySeq DEF RunInv
    <3> QED
      BY <2>1, <3>1 DEF RunInv
  <2>3. <<n, j>> # c
    BY <2>1, <2>2
  <2>4. phase'[<<n, j>>] = phase[<<n, j>>]
    BY <1>2, <1>3, <2>2, <2>3
  <2> QED
    BY <2>1, <2>4 DEF ResultInv
<1>8. PromptsSeeEarlier'
  <2> SUFFICES ASSUME NEW n \in Missions, NEW j \in 1..Len(Team[n]),
                      phase'[<<n, j>>] # "idle"
               PROVE  Repeats(prompt'[<<n, j>>], Given[n], Answers(n, j)')
    BY TeamIsSeq DEF PromptsSeeEarlier
  <2>1. CASE <<n, j>> = c
    <3>1. n = m /\ j = i
      BY <2>1
    <3> QED
      BY <1>4, <3>1
  <2>2. CASE <<n, j>> # c
    <3>1. /\ prompt'[<<n, j>>] = prompt[<<n, j>>] /\ phase[<<n, j>>] # "idle"
      BY <1>2, <1>3, <2>2
    <3>2. Repeats(prompt[<<n, j>>], Given[n], Answers(n, j))
      BY <3>1, TeamIsSeq DEF MissionInv, PromptsSeeEarlier
    <3> QED
      BY <1>4, <3>1, <3>2
  <2> QED
    BY <2>1, <2>2
<1>9. TrailInRoleOrder'
  <2>1. CASE sink' = sink
    BY <2>1 DEF MissionInv, TrailInRoleOrder
  <2>2. ASSUME phase[c] = "answered", NEW r \in AuditRecord, r.call = c,
               sink' = Append(sink, r)
        PROVE  TrailInRoleOrder'
    <3>1. /\ sink \in Seq(AuditRecord) /\ Len(sink) \in Nat
          /\ DOMAIN sink = 1..Len(sink) /\ DOMAIN sink' = 1..(Len(sink) + 1)
          /\ sink'[Len(sink) + 1] = r /\ \A p \in 1..Len(sink) : sink'[p] = sink[p]
      BY <1>1, <2>2 DEF TrailInv, TypeInv, TypeOK
    <3>2. ASSUME NEW p \in 1..Len(sink), sink[p].call \in CallsOf(m)
          PROVE  sink[p].call[2] < i
      <4>1. PICK j \in 1..Len(Team[m]) : sink[p].call = <<m, j>>
        BY <3>2, CallNames
      <4>2. <<m, j>> \in Calls /\ p \in RecordsOf(<<m, j>>)
        BY <1>3, <3>1, <4>1 DEF RecordsOf
      <4>3. phase[<<m, j>>] \notin Unrecorded
        BY <1>1, <4>2 DEF TrailInv, TrailMatchesOutcomes
      <4>4. j # i
        BY <2>2, <4>3 DEF Unrecorded
      <4> j \in Nat /\ i \in Nat
        BY TeamIsSeq
      <4>5. ~(j > i)
        BY <4>3, LaterRolesIdle DEF Unrecorded
      <4> QED
        BY <4>1, <4>4, <4>5
    <3>3. ASSUME NEW n \in Missions, NEW p \in DOMAIN sink', NEW q \in DOMAIN sink', p < q,
                 sink'[p].call \in CallsOf(n), sink'[q].call \in CallsOf(n)
          PROVE  sink'[p].call[2] < sink'[q].call[2]
      <4>1. p \in 1..Len(sink) /\ sink'[p] = sink[p]
        BY <3>1, <3>3
      <4>2. CASE q \in 1..Len(sink)
        BY <3>1, <3>3, <4>1, <4>2 DEF MissionInv, TrailInRoleOrder
      <4>3. CASE q = Len(sink) + 1
        <5>1. sink'[q].call = <<m, i>>
          BY <2>2, <3>1, <4>3
        <5>2. n = m
          BY <3>3, <5>1, CallNames
        <5> QED
          BY <3>2, <3>3, <4>1, <5>1, <5>2
      <4> QED
        BY <3>1, <4>2, <4>3
    <3> QED
      BY <3>3 DEF TrailInRoleOrder
  <2> QED
    BY <1>2, <2>1, <2>2
<1> QED
  BY <1>1, <1>5, <1>6, <1>7, <1>8, <1>9 DEF MissionInv

LEMMA AskKeeps == ASSUME MissionInv, NEW m \in Missions, Ask(m) PROVE MissionInv'
<1> PICK i \in 1..Len(Team[m]) : i = mission[m].at /\ Current(m) = <<m, i>>
  BY CurrentIsCall DEF Ask
<1>1. /\ Running(m) /\ Current(m) \in Calls /\ Step(Current(m)) /\ mission' = mission
      /\ prompt' = [prompt EXCEPT ![Current(m)] = mission[m].pad]
  BY CurrentIsCall DEF Ask, Step, BuiltPrompt
<1>2. prompt \in [Calls -> Seq(Lines)] /\ mission[m].pad \in Seq(Lines)
  BY RunIsTyped DEF MissionInv
<1>3. /\ prompt' \in [Calls -> Seq(Lines)] /\ prompt'[Current(m)] = mission[m].pad
      /\ \A d \in Calls \ {Current(m)} : prompt'[d] = prompt[d]
  BY <1>1, <1>2
<1>4. Repeats(mission[m].pad, Given[m], Answers(m, i))
  BY <1>1 DEF MissionInv, RunInv, Running
<1> QED
  BY <1>1, <1>3, <1>4, CallMoves

LEMMA CallStepKeeps == ASSUME MissionInv, NEW c \in Calls, CallStep(c) PROVE MissionInv'
<1>1. phase[c] # "idle" /\ Step(c) /\ mission' = mission /\ prompt' = prompt
  BY DEF CallStep
<1>3. ~Ended(c)
  BY <1>1, CallEffects DEF MissionInv
<1> PICK m \in Missions : c \in CallsOf(m)
  BY CallNames
<1> PICK i \in 1..Len(Team[m]) : c = <<m, i>>
  BY CallNames
<1>4. Running(m) /\ i = mission[m].at
  BY <1>1, <1>3, ActiveIsCurrent
<1>5. Repeats(prompt'[c], Given[m], Answers(m, i)) /\ prompt' \in [Calls -> Seq(Lines)]
  BY <1>1, TeamIsSeq DEF MissionInv, PromptsSeeEarlier
<1> QED
  BY <1>1, <1>4, <1>5, CallMoves
-----------------------------------------------------------------------------
(***************************************************************************)
(* The theorems.                                                           *)
(***************************************************************************)
LEMMA MissionInvInit == MissionInit => MissionInv
<1> SUFFICES ASSUME MissionInit PROVE MissionInv
  OBVIOUS
<1>1. TrailInv
  BY TrailInit DEF MissionInit
<1>2. /\ mission = [m \in Missions |-> [phase |-> "idle", at |-> 0, pad |-> <<>>,
                                        results |-> <<>>]]
      /\ prompt = [c \in Calls |-> <<>>] /\ sink = <<>>
      /\ phase = [c \in Calls |-> "idle"]
  BY DEF MissionInit, Init
<1>3. <<>> \in Seq(Lines) /\ <<>> \in Seq(RoleResult) /\ Len(<<>>) = 0
  BY EmptySeq
<1>4. mission \in [Missions -> RunRecord] /\ prompt \in [Calls -> Seq(Lines)]
  BY <1>2, <1>3 DEF RunRecord
<1>5. ASSUME NEW m \in Missions, NEW i \in 1..Len(Team[m])
      PROVE  phase[<<m, i>>] = "idle" /\ i \in Nat /\ i > 0
  <2>1. <<m, i>> \in Calls
    BY CallNames
  <2>2. Len(Team[m]) \in Nat
    BY TeamIsSeq
  <2> QED
    BY <1>2, <2>1, <2>2
<1>6. ASSUME NEW m \in Missions
      PROVE  /\ RunInv(m) /\ \A i \in 1..Len(Team[m]) : RoleInv(m, i)
             /\ \A i \in 1..Len(mission[m].results) : ResultInv(m, i)
  <2>1. /\ mission[m].phase = "idle" /\ mission[m].at = 0 /\ mission[m].results = <<>>
    BY <1>2
  <2>2. RunInv(m)
    BY <2>1 DEF RunInv
  <2>3. \A i \in 1..Len(Team[m]) : RoleInv(m, i)
    BY <1>5, <2>1, TeamIsSeq DEF RoleInv
  <2> QED
    BY <1>3, <2>1, <2>2, <2>3
<1>7. PromptsSeeEarlier
  BY <1>5, TeamIsSeq DEF PromptsSeeEarlier
<1>8. TrailInRoleOrder
  BY <1>2 DEF TrailInRoleOrder
<1> QED
  BY <1>1, <1>2, <1>4, <1>6, <1>7, <1>8 DEF MissionInv

LEMMA StutterKeeps ==
    ASSUME MissionInv, (Close /\ UNCHANGED missionVars) \/ UNCHANGED allVars
    PROVE  MissionInv'
<1>1. UNCHANGED <<phase, sink, mission, prompt>> /\ [Next]_vars
  BY DEF Close, missionVars, allVars, vars, Next
<1>2. TrailInv'
  BY <1>1, TrailStep DEF MissionInv
<1>3. \A m \in Missions :
         /\ RunInv(m)' /\ \A i \in 1..Len(Team[m]) : RoleInv(m, i)'
         /\ \A i \in 1..Len(mission'[m].results) : ResultInv(m, i)'
  <2> SUFFICES ASSUME NEW m \in Missions
               PROVE  /\ RunInv(m)' /\ \A i \in 1..Len(Team[m]) : RoleInv(m, i)'
                      /\ \A i \in 1..Len(mission'[m].results) : ResultInv(m, i)'
    OBVIOUS
  <2>1. /\ RunInv(m) /\ \A i \in 1..Len(Team[m]) : RoleInv(m, i)
        /\ \A i \in 1..Len(mission[m].results) : ResultInv(m, i)
    BY DEF MissionInv
  <2>2. RunInv(m)'
    BY <1>1, <2>1 DEF RunInv, Answers
  <2> QED
    BY <1>1, <2>1, <2>2 DEF RoleInv, ResultInv, Ended
<1>4. PromptsSeeEarlier'
  BY <1>1 DEF MissionInv, PromptsSeeEarlier, Answers
<1>5. TrailInRoleOrder'
  BY <1>1 DEF MissionInv, TrailInRoleOrder
<1>6. mission' \in [Missions -> RunRecord] /\ prompt' \in [Calls -> Seq(Lines)]
  BY <1>1 DEF MissionInv
<1> QED
  BY <1>2, <1>3, <1>4, <1>5, <1>6 DEF MissionInv

LEMMA MissionInvStep == MissionInv /\ [MissionNext]_allVars => MissionInv'
<1> SUFFICES ASSUME MissionInv, [MissionNext]_allVars PROVE MissionInv'
  OBVIOUS
<1>1. ASSUME NEW m \in Missions, MissionStep(m) \/ AbortBetween(m) PROVE MissionInv'
  BY <1>1, RunKeeps, AskKeeps, TakeKeeps, AbortKeeps DEF MissionStep
<1>2. ASSUME NEW c \in Calls, CallStep(c) PROVE MissionInv'
  BY <1>2, CallStepKeeps
<1>3. CASE (Close /\ UNCHANGED missionVars) \/ UNCHANGED allVars
  BY <1>3, StutterKeeps
<1> QED
  BY <1>1, <1>2, <1>3 DEF MissionNext

LEMMA MissionInvImplies ==
    MissionInv => MissionTypeOK /\ ResultsMatchCalls /\ PromptsSeeEarlier /\ TrailInRoleOrder
<1> SUFFICES ASSUME MissionInv PROVE MissionTypeOK /\ ResultsMatchCalls
  BY DEF MissionInv
<1>1. MissionTypeOK
  <2>2. ASSUME NEW m \in Missions
        PROVE  /\ mission[m].phase \in {"idle", "running", "returned", "aborted"}
               /\ mission[m].phase = "running" => /\ mission[m].at \in DOMAIN Team[m]
                                                  /\ Len(mission[m].results) = mission[m].at - 1
               /\ mission[m].phase = "returned" => Len(mission[m].results) = Len(Team[m])
    <3>1. RunInv(m)
      BY DEF MissionInv
    <3>2. /\ mission[m].at \in Nat /\ Len(mission[m].results) \in Nat
          /\ mission[m].phase \in {"idle", "running", "returned", "aborted"}
      BY RunIsTyped
    <3>3. DOMAIN Team[m] = 1..Len(Team[m]) /\ Len(Team[m]) \in Nat
      BY TeamIsSeq
    <3> QED
      BY <3>1, <3>2, <3>3 DEF RunInv
  <2>3. ASSUME NEW m \in Missions, NEW i \in 1..Len(Team[m]),
               phase[<<m, i>>] \notin {"idle", "returned", "raised"}
        PROVE  mission[m].phase = "running" /\ mission[m].at = i
    BY <2>3, ActiveIsCurrent DEF Ended, Running
  <2> QED
    BY <2>2, <2>3, TeamIsSeq DEF MissionTypeOK
<1>2. ResultsMatchCalls
  <2> SUFFICES ASSUME NEW m \in Missions, NEW i \in 1..Len(mission[m].results)
               PROVE  LET result == mission[m].results[i]
                      IN  /\ result.role = Team[m][i] /\ result.call = <<m, i>>
                          /\ result.ok => /\ phase[<<m, i>>] = "returned"
                                          /\ Appends => RecordsOf(<<m, i>>) # {}
                          /\ \A j \in DOMAIN Team[m] :
                                phase[<<m, j>>] # "idle" /\ i < j => Ended(<<m, i>>)
    <3>1. \A m \in Missions : DOMAIN mission[m].results = 1..Len(mission[m].results)
      BY RunIsTyped, LenProperties
    <3> QED
      BY <3>1 DEF ResultsMatchCalls
  <2>1. ResultInv(m, i) /\ RunInv(m) /\ \A j \in 1..Len(Team[m]) : RoleInv(m, j)
    BY DEF MissionInv
  <2>2. i \in 1..Len(Team[m]) /\ i < mission[m].at
    <3>1. mission[m].phase # "idle"
      BY <2>1, RunIsTyped, EmptySeq DEF RunInv
    <3> QED
      BY <2>1, <3>1, RunIsTyped, TeamIsSeq DEF RunInv
  <2>3. <<m, i>> \in Calls
    BY <2>2, CallNames
  <2>4. Ended(<<m, i>>)
    BY <2>1, <2>2 DEF RoleInv
  <2>5. phase[<<m, i>>] = "returned" /\ Appends => RecordsOf(<<m, i>>) # {}
    BY <2>3 DEF MissionInv, TrailInv, TrailMatchesOutcomes
  <2> QED
    BY <2>1, <2>4, <2>5 DEF ResultInv
<1> QED
  BY <1>1, <1>2

LEMMA MissionInvHolds == MissionSpec => []MissionInv
  BY MissionInvInit, MissionInvStep, PTL DEF MissionSpec

\* A run is at one role beyond its results, and only that role's call is under
\* way.
THEOREM MissionTypeCorrect == MissionSpec => []MissionTypeOK
  BY MissionInvHolds, MissionInvImplies, PTL

\* A result is the one of its role and call, an answer is one that returned and
\* is on record, and no role is asked before the earlier ones have ended.
THEOREM ResultsAreTheCalls == MissionSpec => []ResultsMatchCalls
  BY MissionInvHolds, MissionInvImplies, PTL

\* Every prompt repeats the given lines and the answers of the earlier roles of
\* its own mission, once each and in the order of the roles.
THEOREM PromptsRepeatAnswers == MissionSpec => []PromptsSeeEarlier
  BY MissionInvHolds, MissionInvImplies, PTL

\* The audit trail keeps the order of the roles, however missions interleave.
THEOREM TrailKeepsRoleOrder == MissionSpec => []TrailInRoleOrder
  BY MissionInvHolds, MissionInvImplies, PTL

\* The missions are users of the router: what they do to its calls, ChatCall
\* allows.
THEOREM MissionImplementsCalls == MissionSpec => Spec
<1>1. MissionInit => Init
  BY DEF MissionInit
<1> QED
  BY <1>1, MissionInvHolds, MissionStepIsCallStep, PTL DEF MissionSpec, Spec

\* So the calls of missions keep what every call of the router keeps: types and
\* attempts, the audit trail, the bounded loss of a torn record, and the spans.
THEOREM CallsOfMissionsAreSound ==
    MissionSpec => [](TypeOK /\ TrailMatchesOutcomes /\ LossIsBounded /\ SpanMatchesOutcome)
  BY MissionImplementsCalls, ChatTypeCorrect, TrailIsTrue, LossStaysBounded,
     SpansTellOutcomes, PTL
=============================================================================
