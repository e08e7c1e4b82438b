-------------------------- MODULE SpanGuard_proofs --------------------------
(***************************************************************************)
(* Proofs about SpanGuard, for any number of spans and any depth.          *)
(***************************************************************************)
EXTENDS SpanGuard, SequenceTheorems, TLAPS

\* What the types rest on: a block that has not tried to start its span has
\* none, and a block is left by its body's outcome only after the body ended.
PhaseInv ==
    \A i \in DOMAIN frames :
        /\ frames[i].phase = "starting" => ~frames[i].real /\ frames[i].id = begun
        /\ frames[i].phase \in {"recording", "closing"} <=> frames[i].body # "none"

\* Blocks are numbered from the outside in, and a span that was left behind is
\* that of none of them: a block it came from counts as one without a span.
OrderInv ==
    /\ \A i, j \in DOMAIN frames : i < j => frames[i].id < frames[j].id
    /\ \A i \in DOMAIN frames :
          /\ frames[i].id <= begun
          /\ frames[i].id \in strays => ~frames[i].real /\ frames[i].phase # "starting"
          /\ frames[i].before \in {None} \cup (1..begun)

\* What __exit__ will make current is the innermost span around the block,
\* unless something that began before the block was left behind.
BeforeInv ==
    \A i \in DOMAIN frames :
        frames[i].real /\ {s \in strays : s < frames[i].id} = {} =>
            Innermost(frames[i].before, i - 1)

SpanInv ==
    /\ TypeOK /\ PhaseInv /\ OrderInv /\ BeforeInv
    /\ OutcomeIsTheBodys /\ EnteredIsExited
    /\ ContextIsInnermost /\ ParentIsKnown

LEMMA SpanInit == Init => SpanInv
<1> SUFFICES ASSUME Init PROVE SpanInv
  OBVIOUS
<1> USE DEF Init
<1>0. frames \in Seq(Frame) /\ Len(frames) = 0 /\ DOMAIN frames = {}
  BY EmptySeq
<1>1. TypeOK
  BY <1>0, BoundsAssumption DEF TypeOK
<1>2. Innermost(current, Len(frames))
  <2>1. current = None /\ 1..Len(frames) = {}
    BY <1>0
  <2> QED
    BY <2>1 DEF Innermost
<1> QED
  BY <1>0, <1>1, <1>2 DEF SpanInv, PhaseInv, OrderInv, BeforeInv, OutcomeIsTheBodys,
                    EnteredIsExited, ContextIsInnermost, ParentIsKnown
-----------------------------------------------------------------------------
(***************************************************************************)
(* What the three ways to change `frames` do.                              *)
(***************************************************************************)
LEMMA TopIsAFrame ==
    ASSUME frames \in Seq(Frame), frames # <<>>
    PROVE  /\ Len(frames) \in Nat \ {0} /\ DOMAIN frames = 1..Len(frames)
           /\ Top \in Frame /\ Top = frames[Len(frames)]
           /\ \A i \in 1..Len(frames) : frames[i] \in Frame
  BY DEF Top

LEMMA GotoFrames ==
    ASSUME frames \in Seq(Frame), frames # <<>>, NEW f \in Frame, Goto(f)
    PROVE  /\ frames' \in Seq(Frame) /\ Len(frames') = Len(frames)
           /\ frames'[Len(frames)] = f
           /\ \A i \in 1..(Len(frames) - 1) : frames'[i] = frames[i]
<1>1. Len(frames) \in 1..Len(frames)
  BY TopIsAFrame
<1>2. frames' = [frames EXCEPT ![Len(frames)] = f]
  BY DEF Goto
<1> QED
  BY <1>1, <1>2, ExceptSeq

LEMMA LeaveFrames ==
    ASSUME frames \in Seq(Frame), frames # <<>>,
           frames' = SubSeq(frames, 1, Len(frames) - 1)
    PROVE  /\ frames' \in Seq(Frame) /\ Len(frames') = Len(frames) - 1
           /\ \A i \in 1..(Len(frames) - 1) : frames'[i] = frames[i]
  BY TopIsAFrame, SubSeqProperties

LEMMA InnermostKept ==
    ASSUME NEW n \in Nat,
           \A i \in 1..n : /\ frames'[i].id = frames[i].id
                           /\ frames'[i].real = frames[i].real
    PROVE  \A x : Innermost(x, n)' <=> Innermost(x, n)
<1> SUFFICES ASSUME NEW x
             PROVE  Innermost(x, n)' <=> Innermost(x, n)
  OBVIOUS
<1>1. \A i \in 1..n : \A j \in (i + 1)..n : j \in 1..n
  OBVIOUS
<1> QED
  BY <1>1 DEF Innermost

\* A block without a span does not hide the one around it.
LEMMA InnermostSkips ==
    ASSUME NEW n \in Nat \ {0}, ~frames[n].real, NEW x
    PROVE  Innermost(x, n) <=> Innermost(x, n - 1)
  BY DEF Innermost
-----------------------------------------------------------------------------
(***************************************************************************)
(* The blocks' own bookkeeping.                                            *)
(***************************************************************************)
\* A block moves on and its span, if it has one, stays what it is.
LEMMA GotoKeeps ==
    ASSUME SpanInv, frames # <<>>, NEW f \in Frame, Goto(f),
           f.id = Top.id, f.real = Top.real, f.before = Top.before,
           f.parent = Top.parent, f.phase # "starting",
           f.phase \in {"recording", "closing"} <=> f.body # "none",
           UNCHANGED <<enabled, carried, begun, done>>,
           \/ UNCHANGED <<current, strays>>
           \/ Top.phase = "starting" /\ LeftCurrent
    PROVE  SpanInv'
<1> USE DEF SpanInv
<1>0. frames \in Seq(Frame)
  BY DEF TypeOK
<1>1. /\ frames' \in Seq(Frame) /\ Len(frames') = Len(frames)
      /\ \A i \in 1..(Len(frames) - 1) : frames'[i] = frames[i]
      /\ frames'[Len(frames)] = f
      /\ Len(frames) \in Nat \ {0} /\ DOMAIN frames = 1..Len(frames)
      /\ DOMAIN frames' = 1..Len(frames) /\ Top = frames[Len(frames)]
  BY <1>0, GotoFrames, TopIsAFrame
<1>2. \A i \in 1..Len(frames) :
         /\ frames'[i].id = frames[i].id /\ frames'[i].real = frames[i].real
         /\ frames'[i].before = frames[i].before /\ frames'[i].parent = frames[i].parent
  BY <1>1
<1>b. UNCHANGED <<current, strays>> \/ (Top.phase = "starting" /\ LeftCurrent)
  OBVIOUS
<1>c. Top \in Frame /\ \A i \in 1..Len(frames) : frames[i] \in Frame
  BY <1>0, TopIsAFrame
<1>d. Top.id \in 1..begun
  BY <1>1, <1>c DEF OrderInv, Frame
<1>e. Top.phase = "starting" => ~Top.real /\ Top.id \notin strays
  BY <1>1 DEF PhaseInv, OrderInv
<1>f. \A i \in 1..(Len(frames) - 1) : frames[i].id < Top.id
  BY <1>1 DEF OrderInv
<1>3. TypeOK'
  <2>1. strays' \subseteq 1..begun /\ current' \in {None} \cup (1..begun)
    BY <1>b, <1>d DEF TypeOK, LeftCurrent
  <2>2. ASSUME NEW i \in 1..Len(frames)
        PROVE  /\ i < Len(frames) => frames'[i].phase = "body"
               /\ frames'[i].real => enabled
    BY <1>1, <1>2 DEF TypeOK
  <2>3. ASSUME NEW i \in DOMAIN frames'
        PROVE  /\ i < Len(frames') => frames'[i].phase = "body"
               /\ frames'[i].real => enabled'
    <3>1. i \in 1..Len(frames) /\ Len(frames') = Len(frames)
      BY ONLY <1>1
    <3> QED
      BY <2>2, <3>1
  <2> QED
    BY <1>1, <2>1, <2>3 DEF TypeOK
<1>4. PhaseInv'
  <2>1. \A i \in 1..(Len(frames) - 1) : frames'[i] = frames[i]
    BY <1>1
  <2> QED
    BY <1>1, <2>1 DEF PhaseInv
<1>5. OrderInv'
  <2>1. \A i \in 1..(Len(frames) - 1) :
           frames'[i].id \in strays' => frames'[i].id \in strays
    BY <1>1, <1>b, <1>c, <1>d, <1>f DEF LeftCurrent, Frame
  <2>2. f.id \in strays' => ~f.real /\ f.phase # "starting"
    BY <1>1, <1>b, <1>e DEF OrderInv
  <2> QED
    BY <1>1, <1>2, <2>1, <2>2 DEF OrderInv
<1>6. \A n \in 0..Len(frames) : \A x : Innermost(x, n)' <=> Innermost(x, n)
  <2> SUFFICES ASSUME NEW n \in 0..Len(frames)
               PROVE  \A x : Innermost(x, n)' <=> Innermost(x, n)
    OBVIOUS
  <2>1. \A i \in 1..n : i \in 1..Len(frames)
    BY <1>1
  <2>2. \A i \in 1..n : frames'[i].id = frames[i].id /\ frames'[i].real = frames[i].real
    BY <1>2, <2>1
  <2>3. n \in Nat
    BY <1>1
  <2> QED
    BY ONLY <2>2, <2>3, InnermostKept
<1>g. \A i \in 1..Len(frames) :
         {s \in strays' : s < frames[i].id} = {s \in strays : s < frames[i].id}
  <2> TAKE i \in 1..Len(frames)
  <2>0. frames[i].id \in Nat /\ Top.id \in Nat
    BY <1>c DEF Frame
  <2>1. frames[i].id <= Top.id
    BY <1>1, <1>f, <2>0
  <2> QED
    BY <1>b, <2>0, <2>1 DEF LeftCurrent
<1>7. BeforeInv'
  <2>1. \A i \in 1..Len(frames) : i - 1 \in 0..Len(frames)
    BY <1>1
  <2> QED
    BY <1>1, <1>2, <1>6, <1>g, <2>1 DEF BeforeInv
<1>8. ParentIsKnown'
  <2>1. \A i \in 1..Len(frames) : i - 1 \in 0..Len(frames)
    BY <1>1
  <2> QED
    BY <1>1, <1>2, <1>6, <1>g, <2>1 DEF ParentIsKnown
<1>9. ContextIsInnermost'
  BY <1>1, <1>6, <1>b DEF ContextIsInnermost, LeftCurrent
<1>10. OutcomeIsTheBodys' /\ EnteredIsExited'
  BY DEF OutcomeIsTheBodys, EnteredIsExited
<1> QED
  BY <1>3, <1>4, <1>5, <1>7, <1>8, <1>9, <1>10

\* A block is left: its span is exited, or left behind, or there is none.
LEMMA LeaveKeeps ==
    ASSUME SpanInv, frames # <<>>,
           NEW seen \in Outcome \cup {"interrupt"}, NEW exits \in {0, 1},
           Leave(seen, exits),
           \/ seen = "interrupt" /\ (Top.real \/ exits = 0)
           \/ /\ seen = Top.body /\ Top.body # "none"
              /\ exits = IF Top.real THEN 1 ELSE 0,
           UNCHANGED <<enabled, carried, begun>>,
           \/ ~Top.real /\ UNCHANGED <<current, strays>>
           \/ Top.real /\ Detach
           \/ Stray
           \/ LeftCurrent
    PROVE  SpanInv'
<1> USE DEF SpanInv
<1> DEFINE n == Len(frames)
<1>0. frames \in Seq(Frame)
  BY DEF TypeOK
<1>1. /\ n \in Nat \ {0} /\ DOMAIN frames = 1..n /\ Top = frames[n]
      /\ \A i \in 1..n : frames[i] \in Frame
  BY <1>0, TopIsAFrame
<1>2. /\ frames' \in Seq(Frame) /\ Len(frames') = n - 1
      /\ \A i \in 1..(n - 1) : frames'[i] = frames[i]
      /\ DOMAIN frames' = 1..(n - 1)
  BY <1>0, LeaveFrames DEF Leave
<1>3. Top.id \in 1..begun /\ Top.before \in {None} \cup (1..begun)
  BY <1>1 DEF Frame, OrderInv
<1>4. \A i \in 1..(n - 1) : frames[i].id < Top.id
  BY <1>1 DEF OrderInv
<1>5. \A k \in 0..(n - 1) : \A x : Innermost(x, k)' <=> Innermost(x, k)
  <2> TAKE k \in 0..(n - 1)
  <2>1. k \in Nat /\ \A i \in 1..k : frames'[i] = frames[i]
    BY <1>1, <1>2
  <2> QED
    BY <2>1, InnermostKept
<1>6. strays' \subseteq 1..begun /\ current' \in {None} \cup (1..begun)
  <2>1. CASE ~Top.real /\ UNCHANGED <<current, strays>>
    BY <2>1 DEF TypeOK
  <2>2. CASE Stray \/ LeftCurrent
    BY <2>2, <1>3 DEF Stray, LeftCurrent, TypeOK
  <2>3. CASE Detach
    BY <2>3, <1>3 DEF Detach, TypeOK
  <2> QED
    BY <2>1, <2>2, <2>3
<1>7. \A i \in 1..(n - 1) :
         {s \in strays' : s < frames[i].id} = {s \in strays : s < frames[i].id}
  <2> TAKE i \in 1..(n - 1)
  <2>0. /\ frames[i].id \in Nat /\ frames[i].id < Top.id /\ Top.id \in Nat
        /\ strays \subseteq Nat
    BY <1>1, <1>3, <1>4 DEF Frame, TypeOK
  <2>1. CASE ~Top.real /\ UNCHANGED <<current, strays>>
    BY <2>1
  <2>2. CASE Stray \/ LeftCurrent
    BY <2>0, <2>2 DEF Stray, LeftCurrent
  <2>3. CASE Detach
    <3>1. \A s \in strays : s < frames[i].id => s < Top.id
      BY <2>0
    <3>2. strays' = {s \in strays : s < Top.id}
      BY <2>3 DEF Detach
    <3> QED
      BY <3>1, <3>2
  <2> QED
    BY <2>1, <2>2, <2>3
<1>8. TypeOK'
  <2>1. [id |-> Top.id, body |-> Top.body, seen |-> seen, entered |-> Top.real,
         exits |-> exits]
          \in [id : 1..MaxSpans, body : Outcome, seen : Outcome \cup {"interrupt"},
              entered : BOOLEAN, exits : {0, 1}]
    BY <1>1 DEF Frame
  <2>2. done' = done \cup {[id |-> Top.id, body |-> Top.body, seen |-> seen,
                            entered |-> Top.real, exits |-> exits]}
    BY DEF Leave
  <2>3. \A i \in 1..(n - 1) : /\ i < Len(frames') => frames'[i].phase = "body"
                              /\ frames'[i].real => enabled
    <3>1. \A i \in 1..(n - 1) : i \in 1..n /\ i < n
      BY <1>1
    <3> QED
      BY <1>1, <1>2, <3>1 DEF TypeOK
  <2> QED
    BY <1>2, <1>6, <2>1, <2>2, <2>3 DEF TypeOK
<1>9. PhaseInv'
  BY <1>1, <1>2 DEF PhaseInv
<1>10. OrderInv'
  <2>1. \A i \in 1..(n - 1) : frames[i].id \in strays' => frames[i].id \in strays
    BY <1>1, <1>3, <1>4 DEF Stray, LeftCurrent, Detach, Frame
  <2> QED
    BY SMTT(30), <1>1, <1>2, <2>1 DEF OrderInv
<1>11. BeforeInv'
  BY <1>1, <1>2, <1>5, <1>7 DEF BeforeInv
<1>12. ParentIsKnown'
  BY <1>1, <1>2, <1>5, <1>7 DEF ParentIsKnown
<1>13. ASSUME strays' = {}, NEW k \in Nat, k = n - 1
       PROVE  Innermost(current, k)'
  <2>1. CASE ~Top.real /\ UNCHANGED <<current, strays>>
    <3>1. Innermost(current, n)
      BY <1>13, <2>1 DEF ContextIsInnermost
    <3>2. Innermost(current, k)
      BY <1>1, <1>13, <2>1, <3>1, InnermostSkips
    <3>3. k \in 0..(n - 1)
      BY <1>1, <1>13
    <3>4. \A x : Innermost(x, k)' <=> Innermost(x, k)
      BY <1>5, <3>3
    <3>5. Innermost(current, k)' <=> Innermost(current, k)
      BY <2>1, <3>4
    <3> QED
      BY <3>2, <3>5
  <2>2. CASE Stray \/ LeftCurrent
    BY <1>13, <2>2 DEF Stray, LeftCurrent
  <2>3. CASE Top.real /\ Detach
    <3>1. {s \in strays : s < Top.id} = {} /\ current' = frames[n].before
      BY <1>1, <1>13, <2>3 DEF Detach
    <3>2. Innermost(frames[n].before, k)
      BY <1>1, <1>13, <2>3, <3>1 DEF BeforeInv
    <3> QED
      BY <1>1, <1>5, <1>13, <3>1, <3>2
  <2> QED
    BY <2>1, <2>2, <2>3
<1>15. ContextIsInnermost'
  <2> DEFINE k == n - 1
  <2>1. k \in Nat /\ k = n - 1 /\ Len(frames') = k
    BY <1>1, <1>2
  <2> HIDE DEF k
  <2> QED
    BY <2>1, <1>13 DEF ContextIsInnermost
<1>16. OutcomeIsTheBodys' /\ EnteredIsExited'
  <2>1. done' = done \cup {[id |-> Top.id, body |-> Top.body, seen |-> seen,
                            entered |-> Top.real, exits |-> exits]}
    BY DEF Leave
  <2> QED
    BY <1>1, <2>1 DEF OutcomeIsTheBodys, EnteredIsExited, Frame, Outcome
<1> QED
  BY <1>8, <1>9, <1>10, <1>11, <1>12, <1>15, <1>16
-----------------------------------------------------------------------------
(***************************************************************************)
(* A span begins, and starts.                                              *)
(***************************************************************************)
LEMMA BeginKeeps == SpanInv /\ Begin => SpanInv'
<1> SUFFICES ASSUME SpanInv, Begin PROVE SpanInv'
  OBVIOUS
<1> USE DEF SpanInv
<1> DEFINE n == Len(frames)
           f == [id |-> begun + 1, phase |-> "starting", real |-> FALSE,
                 before |-> None, parent |-> None, body |-> "none"]
<1>1. /\ n \in Nat /\ DOMAIN frames = 1..n /\ frames \in Seq(Frame)
      /\ \A i \in 1..n : frames[i] \in Frame
      /\ n > 0 => frames # <<>> /\ Top = frames[n]
  BY DEF TypeOK, Top
<1>2. begun' \in 1..MaxSpans /\ begun' = begun + 1 /\ f \in Frame
  BY BoundsAssumption DEF Begin, TypeOK, Frame, Outcome
<1>3. /\ frames' \in Seq(Frame) /\ Len(frames') = n + 1 /\ frames'[n + 1] = f
      /\ \A i \in 1..n : frames'[i] = frames[i]
      /\ DOMAIN frames' = 1..(n + 1)
  <2>1. frames' = Append(frames, f)
    BY DEF Begin
  <2> QED
    BY <1>1, <1>2, <2>1, AppendProperties
<1>4. UNCHANGED <<enabled, carried, current, done, strays>>
  BY DEF Begin
<1>5. TypeOK'
  <2>1. \A i \in 1..n : frames[i].phase = "body"
    BY <1>1 DEF TypeOK, Begin
  <2> QED
    BY <1>1, <1>2, <1>3, <1>4, <2>1 DEF TypeOK
<1>6. PhaseInv'
  <2>1. \A i \in 1..n : frames[i].phase = "body"
    BY <1>1 DEF TypeOK, Begin
  <2> QED
    BY <1>1, <1>2, <1>3, <2>1 DEF PhaseInv
<1>7. OrderInv'
  <2>1. begun \in Nat /\ strays \subseteq 1..begun
    BY DEF TypeOK
  <2>2. \A i \in 1..n : frames[i].id \in Nat /\ frames[i].id <= begun
    BY <1>1 DEF Frame, OrderInv
  <2>3. {None} \cup (1..begun) \subseteq {None} \cup (1..begun')
    BY <1>2, <2>1
  <2>4. /\ f.id = begun + 1 /\ f.before = None
    OBVIOUS
  <2> HIDE DEF f
  <2>5. \A i, j \in 1..(n + 1) : i < j => frames'[i].id < frames'[j].id
    <3>1. \A i, j \in 1..n : i < j => frames'[i].id < frames'[j].id
      BY <1>1, <1>3 DEF OrderInv
    <3>2. \A i \in 1..n : frames'[i].id < frames'[n + 1].id
      BY <1>3, <2>1, <2>2, <2>4
    <3> QED
      BY <1>1, <3>1, <3>2
  <2>6. \A i \in 1..n :
           /\ frames'[i].id <= begun'
           /\ frames'[i].id \in strays' => ~frames'[i].real /\ frames'[i].phase # "starting"
           /\ frames'[i].before \in {None} \cup (1..begun')
    BY SMTT(30), <1>1, <1>2, <1>3, <1>4, <2>1, <2>2, <2>3 DEF OrderInv
  <2>7. f.id <= begun' /\ f.id \notin strays'
    BY <1>2, <1>4, <2>1, <2>4
  <2> QED
    BY <1>1, <1>3, <2>4, <2>5, <2>6, <2>7 DEF OrderInv
<1>8. \A k \in 0..n : \A x : Innermost(x, k)' <=> Innermost(x, k)
  <2> TAKE k \in 0..n
  <2>1. k \in Nat /\ \A i \in 1..k : frames'[i] = frames[i]
    BY <1>1, <1>3
  <2> QED
    BY <2>1, InnermostKept
<1>9. BeforeInv'
  BY <1>1, <1>3, <1>4, <1>8 DEF BeforeInv
<1>10. ParentIsKnown'
  BY <1>1, <1>3, <1>4, <1>8 DEF ParentIsKnown
<1>11. ASSUME NEW x, Innermost(x, n), NEW k \in Nat, k = n + 1
       PROVE  Innermost(x, k)'
  BY <1>1, <1>3, <1>11 DEF Innermost
<1>12. ContextIsInnermost'
  <2> DEFINE k == n + 1
  <2>1. k \in Nat /\ k = n + 1 /\ Len(frames') = k
    BY <1>1, <1>3
  <2> HIDE DEF k
  <2> QED
    BY <1>4, <1>11, <2>1 DEF ContextIsInnermost
<1>13. OutcomeIsTheBodys' /\ EnteredIsExited'
  BY <1>4 DEF OutcomeIsTheBodys, EnteredIsExited
<1> QED
  BY <1>5, <1>6, <1>7, <1>9, <1>10, <1>12, <1>13

LEMMA StartKeeps == SpanInv /\ Start => SpanInv'
<1> SUFFICES ASSUME SpanInv, Start PROVE SpanInv'
  OBVIOUS
<1> USE DEF SpanInv
<1> DEFINE n == Len(frames)
<1>0. frames \in Seq(Frame) /\ frames # <<>> /\ Top.phase = "starting"
  BY DEF TypeOK, Start, InPhase
<1>1. /\ n \in Nat \ {0} /\ DOMAIN frames = 1..n /\ Top = frames[n]
      /\ \A i \in 1..n : frames[i] \in Frame
  BY <1>0, TopIsAFrame
<1>2. Goto([Top EXCEPT !.phase = "attributes", !.real = TRUE, !.before = current,
                       !.parent = Parent])
  BY DEF Start
<1>a. PICK f : f = [Top EXCEPT !.phase = "attributes", !.real = TRUE, !.before = current,
                               !.parent = Parent]
  OBVIOUS
<1>3. enabled /\ current' = Top.id /\ UNCHANGED <<enabled, carried, begun, done, strays>>
  BY DEF Start
<1>4. /\ f \in Frame /\ f.id = Top.id /\ f.phase = "attributes" /\ f.real = TRUE
      /\ f.before = current /\ f.parent = Parent /\ f.body = Top.body
  <2>1. current \in {None} \cup (1..MaxSpans)
    BY BoundsAssumption DEF TypeOK
  <2>2. Parent \in {None, Remote} \cup (1..MaxSpans)
    BY <2>1 DEF Parent, TypeOK, Carriers
  <2>3. Top \in Frame
    BY <1>1
  <2> QED
    BY <1>a, <2>1, <2>2, <2>3 DEF Frame
<1>5. /\ frames' \in Seq(Frame) /\ Len(frames') = n /\ frames'[n] = f
      /\ \A i \in 1..(n - 1) : frames'[i] = frames[i]
      /\ DOMAIN frames' = 1..n
  BY <1>a, <1>0, <1>1, <1>2, <1>4, GotoFrames
<1>6. ~Top.real /\ Top.id = begun /\ Top.body = "none"
  BY <1>0, <1>1 DEF PhaseInv
<1>7. begun \in 1..MaxSpans /\ strays \subseteq 1..begun
  BY <1>1, <1>6 DEF TypeOK, Frame
<1>8. TypeOK'
  BY <1>1, <1>3, <1>4, <1>5, <1>6, <1>7 DEF TypeOK
<1>9. PhaseInv'
  BY <1>1, <1>3, <1>4, <1>5, <1>6 DEF PhaseInv
<1>10. OrderInv'
  <2>1. current \in {None} \cup (1..begun)
    BY DEF TypeOK
  <2>2. /\ \A i \in 1..(n - 1) : frames'[i].before = frames[i].before
        /\ frames'[n].before = current
    BY <1>4, <1>5
  <2>3. \A i \in 1..n : frames'[i].id = frames[i].id
    BY <1>1, <1>4, <1>5
  <2> QED
    BY <1>1, <1>3, <1>4, <1>5, <2>1, <2>2, <2>3, <1>0 DEF OrderInv
<1>11. \A x : \A k \in 0..(n - 1) : Innermost(x, k)' <=> Innermost(x, k)
  <2> TAKE x
  <2> TAKE k \in 0..(n - 1)
  <2>1. k \in Nat /\ \A i \in 1..k : frames'[i] = frames[i]
    BY <1>1, <1>5
  <2> QED
    BY <2>1, InnermostKept
<1>12. {s \in strays : s < Top.id} = {} => Innermost(current, n - 1)
  <2> SUFFICES ASSUME {s \in strays : s < Top.id} = {} PROVE Innermost(current, n - 1)
    OBVIOUS
  <2>1. Top.id \notin strays
    BY <1>0, <1>1 DEF OrderInv
  <2>2. strays = {}
    BY <1>6, <1>7, <2>1
  <2>3. Innermost(current, n)
    BY <2>2 DEF ContextIsInnermost
  <2>4. n \in Nat \ {0} /\ ~frames[n].real
    BY <1>1, <1>6
  <2> QED
    BY <2>3, <2>4, InnermostSkips
<1>13. BeforeInv'
  BY <1>1, <1>3, <1>4, <1>5, <1>11, <1>12 DEF BeforeInv
<1>14. ParentIsKnown'
  BY <1>1, <1>3, <1>4, <1>5, <1>11, <1>12 DEF ParentIsKnown, Parent
<1>15. ASSUME NEW k \in Nat, k = n PROVE Innermost(current, k)'
  BY <1>1, <1>3, <1>4, <1>5, <1>15 DEF Innermost
<1>16. ContextIsInnermost'
  BY <1>1, <1>3, <1>5, <1>15 DEF ContextIsInnermost
<1>17. OutcomeIsTheBodys' /\ EnteredIsExited'
  BY <1>3 DEF OutcomeIsTheBodys, EnteredIsExited
<1> QED
  BY <1>8, <1>9, <1>10, <1>13, <1>14, <1>16, <1>17
-----------------------------------------------------------------------------
LEMMA TopInPhase ==
    ASSUME SpanInv, NEW p, InPhase(p)
    PROVE  /\ frames # <<>> /\ Top \in Frame /\ Top.phase = p
           /\ Top.body \in Outcome /\ Top.real \in BOOLEAN
           /\ p = "starting" => ~Top.real
           /\ p \in {"recording", "closing"} <=> Top.body # "none"
<1>1. frames # <<>> /\ Top.phase = p /\ frames \in Seq(Frame)
  BY DEF InPhase, SpanInv, TypeOK
<1>2. Top = frames[Len(frames)] /\ Len(frames) \in DOMAIN frames /\ Top \in Frame
  BY <1>1, TopIsAFrame
<1> QED
  BY <1>1, <1>2 DEF Frame, SpanInv, PhaseInv

LEMMA SpanStep == SpanInv /\ [Next]_vars => SpanInv'
<1> SUFFICES ASSUME SpanInv, [Next]_vars PROVE SpanInv'
  OBVIOUS
<1>1. CASE Begin
  BY <1>1, BeginKeeps
<1>2. CASE Start
  BY <1>2, StartKeeps
<1>3. CASE StartFails
  <2> DEFINE f == [Top EXCEPT !.phase = "attributes"]
  <2>1. /\ InPhase("starting") /\ Goto(f)
        /\ UNCHANGED <<enabled, carried, begun, done>>
        /\ UNCHANGED <<current, strays>> \/ LeftCurrent
    BY <1>3 DEF StartFails
  <2>2. Top.phase = "starting" /\ frames # <<>> /\ Top \in Frame /\ Top.body = "none"
    BY <2>1, TopInPhase
  <2>3. /\ f \in Frame /\ f.id = Top.id /\ f.real = Top.real /\ f.before = Top.before
        /\ f.parent = Top.parent /\ f.phase = "attributes" /\ f.body = "none"
    BY <2>2 DEF Frame
  <2> HIDE DEF f
  <2> QED
    BY <2>1, <2>2, <2>3, GotoKeeps
<1>4. CASE SetAttributes
  <2> DEFINE f == [Top EXCEPT !.phase = "body"]
  <2>1. InPhase("attributes") /\ Goto(f)
        /\ UNCHANGED <<enabled, carried, current, begun, done, strays>>
    BY <1>4 DEF SetAttributes
  <2>2. Top.phase = "attributes" /\ frames # <<>> /\ Top \in Frame /\ Top.body = "none"
    BY <2>1, TopInPhase
  <2>3. /\ f \in Frame /\ f.id = Top.id /\ f.real = Top.real /\ f.before = Top.before
        /\ f.parent = Top.parent /\ f.phase = "body" /\ f.body = "none"
    BY <2>2 DEF Frame
  <2> HIDE DEF f
  <2> QED
    BY <2>1, <2>2, <2>3, GotoKeeps
<1>5. CASE EndBody
  <2>1. PICK phase \in {"recording", "closing"}, outcome \in {"value", "error"} :
           Goto([Top EXCEPT !.phase = phase, !.body = outcome])
    BY <1>5 DEF EndBody
  <2> DEFINE f == [Top EXCEPT !.phase = phase, !.body = outcome]
  <2>2. InPhase("body") /\ UNCHANGED <<enabled, carried, current, begun, done, strays>>
    BY <1>5 DEF EndBody
  <2>3. frames # <<>> /\ Top \in Frame
    BY <2>2, TopInPhase
  <2>4. /\ f \in Frame /\ f.id = Top.id /\ f.real = Top.real /\ f.before = Top.before
        /\ f.parent = Top.parent /\ f.phase = phase /\ f.body = outcome
    BY <2>3 DEF Frame, Outcome
  <2>5. Goto(f)
    BY <2>1
  <2> HIDE DEF f
  <2> QED
    BY <2>2, <2>3, <2>4, <2>5, GotoKeeps
<1>6. CASE RecordException
  <2> DEFINE f == [Top EXCEPT !.phase = "closing"]
  <2>1. InPhase("recording") /\ Goto(f)
        /\ UNCHANGED <<enabled, carried, current, begun, done, strays>>
    BY <1>6 DEF RecordException
  <2>2. Top.phase = "recording" /\ frames # <<>> /\ Top \in Frame /\ Top.body # "none"
    BY <2>1, TopInPhase
  <2>3. /\ f \in Frame /\ f.id = Top.id /\ f.real = Top.real /\ f.before = Top.before
        /\ f.parent = Top.parent /\ f.phase = "closing" /\ f.body = Top.body
    BY <2>2 DEF Frame
  <2> HIDE DEF f
  <2> QED
    BY <2>1, <2>2, <2>3, GotoKeeps
<1>7. ASSUME InPhase("closing")
      PROVE  /\ frames # <<>> /\ Top.phase = "closing" /\ Top.body # "none"
             /\ Top.body \in Outcome /\ Top.real \in BOOLEAN
  BY <1>7, TopInPhase
<1>8. CASE Exit
  <2>1. /\ InPhase("closing") /\ Leave(Top.body, IF Top.real THEN 1 ELSE 0)
        /\ IF Top.real THEN Detach ELSE UNCHANGED <<current, strays>>
        /\ UNCHANGED <<enabled, carried, begun>>
    BY <1>8 DEF Exit, Exits
  <2> QED
    BY <1>7, <2>1, LeaveKeeps
<1>9. CASE ExitFails
  <2>1. /\ InPhase("closing") /\ Top.real /\ Leave(Top.body, 1)
        /\ Detach \/ Stray
        /\ UNCHANGED <<enabled, carried, begun>>
    BY <1>9 DEF ExitFails
  <2> QED
    BY <1>7, <2>1, LeaveKeeps
<1>10. CASE InterruptStart
  <2>1. frames # <<>> /\ ~Top.real
    BY <1>10, TopInPhase DEF InterruptStart
  <2>2. /\ Leave("interrupt", 0) /\ UNCHANGED <<enabled, carried, begun>>
        /\ UNCHANGED <<current, strays>> \/ LeftCurrent
    BY <1>10 DEF InterruptStart
  <2> QED
    BY <2>1, <2>2, LeaveKeeps
<1>11. CASE InterruptOpen
  <2>1. frames # <<>> /\ Top.real \in BOOLEAN
    BY <1>11, TopInPhase DEF InterruptOpen
  <2>2. Leave("interrupt", 0) /\ UNCHANGED <<enabled, carried, begun>>
        /\ IF Top.real THEN Stray ELSE UNCHANGED <<current, strays>>
    BY <1>11 DEF InterruptOpen
  <2> QED
    BY <2>1, <2>2, LeaveKeeps
<1>12. CASE InterruptExit
  <2>1. /\ InPhase("closing") /\ Top.real /\ Leave("interrupt", 1)
        /\ Detach \/ Stray
        /\ UNCHANGED <<enabled, carried, begun>>
    BY <1>12 DEF InterruptExit
  <2> QED
    BY <1>7, <2>1, LeaveKeeps
<1>13. CASE UNCHANGED vars
  BY <1>13 DEF vars, SpanInv, TypeOK, PhaseInv, OrderInv, BeforeInv, Innermost,
      OutcomeIsTheBodys, EnteredIsExited, ContextIsInnermost, ParentIsKnown
<1> QED
  BY <1>1, <1>2, <1>3, <1>4, <1>5, <1>6, <1>8, <1>9, <1>10, <1>11, <1>12, <1>13
      DEF Next
-----------------------------------------------------------------------------
LEMMA SpanInvariant == Spec => []SpanInv
  BY SpanInit, SpanStep, PTL DEF Spec

\* The types are kept, whatever the tracer does.
THEOREM SpanTypeCorrect == Spec => []TypeOK
<1>1. SpanInv => TypeOK
  BY DEF SpanInv
<1> QED
  BY <1>1, SpanInvariant, PTL

\* span() never hides what its body did, and never invents an exception.
THEOREM CallersSeeTheBody == Spec => []OutcomeIsTheBodys
<1>1. SpanInv => OutcomeIsTheBodys
  BY DEF SpanInv
<1> QED
  BY <1>1, SpanInvariant, PTL

\* Every span that was entered is exited once if its block ends by its body's
\* outcome, and never twice, wherever an interrupt hits.
THEOREM SpansAreExited == Spec => []EnteredIsExited
<1>1. SpanInv => EnteredIsExited
  BY DEF SpanInv
<1> QED
  BY <1>1, SpanInvariant, PTL

\* The current span is the innermost live one, at any depth.
THEOREM ContextIsRight == Spec => []ContextIsInnermost
<1>1. SpanInv => ContextIsInnermost
  BY DEF SpanInv
<1> QED
  BY <1>1, SpanInvariant, PTL

\* Every span has the parent that `traceparent` and the blocks give it, at any
\* depth.
THEOREM ParentsAreKnown == Spec => []ParentIsKnown
<1>1. SpanInv => ParentIsKnown
  BY DEF SpanInv
<1> QED
  BY <1>1, SpanInvariant, PTL
=============================================================================
