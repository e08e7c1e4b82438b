-------------------------- MODULE ChatStream_proofs --------------------------
(***************************************************************************)
(* Proofs about ChatStream, for any number of streams, replies of any      *)
(* length and any number of connections.                                   *)
(***************************************************************************)
EXTENDS ChatStream, SequenceTheorems, FiniteSetTheorems, TLAPS

\* A request is sent by the first next() only, and the connections can be
\* counted.
RequestInv ==
    /\ \A s \in Streams : phase[s] = "created" => posts[s] = 0
    /\ IsFiniteSet(conns)

ReplyInv ==
    /\ TypeOK /\ RequestInv
    /\ ConnectionsAreGivenBack /\ TextIsInOrder /\ EndMeansComplete

LEMMA ReplyInit == Init => ReplyInv
<1> SUFFICES ASSUME Init PROVE ReplyInv
  OBVIOUS
<1> USE DEF Init
<1>0. <<>> \in Seq(Nat) /\ <<>> \in Seq(Kinds) /\ Len(<<>>) = 0
  BY EmptySeq
<1>1. \A s \in Streams : /\ got[s] \in Seq(Nat) /\ sent[s] \in Seq(Kinds)
                         /\ DOMAIN got[s] = {} /\ Len(sent[s]) = 0 /\ pos[s] = 0
  BY <1>0
<1>2. TypeOK
  <2>1. /\ sent \in [Streams -> Seq(Kinds)] /\ got \in [Streams -> Seq(Nat)]
        /\ pos \in [Streams -> Nat]
    BY <1>0
  <2>2. \A s \in Streams : pos[s] <= Len(sent[s])
    BY <1>1
  <2>3. /\ phase \in [Streams -> {"created", "reading", "suspended",
                                  "exhausted", "raised", "dropped"}]
        /\ posts \in [Streams -> {0, 1}]
        /\ wire \in [Streams -> {"none", "open", "eof", "broken"}]
    OBVIOUS
  <2> QED
    BY <2>1, <2>2, <2>3 DEF TypeOK
<1>3. RequestInv /\ ConnectionsAreGivenBack
  BY FS_EmptySet, PoolAssumption DEF RequestInv, ConnectionsAreGivenBack
<1>4. TextIsInOrder
  BY <1>1 DEF TextIsInOrder, Texts
<1>5. EndMeansComplete
  BY DEF EndMeansComplete
<1> QED
  BY <1>2, <1>3, <1>4, <1>5 DEF ReplyInv
-----------------------------------------------------------------------------
(***************************************************************************)
(* The four parts of a step that the actions share.                        *)
(***************************************************************************)
\* Whichever way a generator ends, its connection is given back.
LEMMA EndGivesBack ==
    ASSUME ReplyInv, NEW s \in Streams, NEW how \in {"exhausted", "raised", "dropped"},
           End(s, how)
    PROVE  ConnectionsAreGivenBack' /\ IsFiniteSet(conns')
<1> USE DEF ReplyInv
<1>1. phase' = [phase EXCEPT ![s] = how] /\ conns' = conns \ {s}
  BY DEF End
<1>2. conns' = {t \in Streams : phase'[t] \in {"reading", "suspended"}}
  BY <1>1 DEF TypeOK, ConnectionsAreGivenBack
<1>3. IsFiniteSet(conns') /\ Cardinality(conns') <= Cardinality(conns)
  <2>1. /\ IsFiniteSet(conns \ {s}) /\ Cardinality(conns) \in Nat
        /\ Cardinality(conns \ {s}) = IF s \in conns THEN Cardinality(conns) - 1
                                                     ELSE Cardinality(conns)
    BY FS_RemoveElement, FS_CardinalityType DEF RequestInv
  <2> QED
    BY <1>1, <2>1
<1>4. Cardinality(conns) \in Nat /\ Cardinality(conns') \in Nat
  BY <1>3, FS_CardinalityType DEF RequestInv
<1> QED
  BY <1>2, <1>3, <1>4, PoolAssumption DEF ConnectionsAreGivenBack

\* A generator that keeps what it has changes no text; its reply may grow.
LEMMA TextKept ==
    ASSUME ReplyInv, UNCHANGED <<pos, got>>,
           \A s \in Streams : Ended(s) => Ended(s)',
           \A s \in Streams : \A i \in 1..pos[s] : sent'[s][i] = sent[s][i]
    PROVE  TextIsInOrder'
<1> USE DEF ReplyInv
<1> SUFFICES ASSUME NEW s \in Streams
             PROVE  /\ Texts(s)' = {i \in 1..pos[s] : sent'[s][i] = "delta"}
                    /\ \A j, k \in DOMAIN got[s] : j < k => got[s][j] < got[s][k]
                    /\ \A i \in 1..pos[s] : sent'[s][i] \in {"done", "bad"} =>
                          i = pos[s] /\ Ended(s)'
  BY DEF TextIsInOrder
<1>1. Texts(s)' = Texts(s)
  BY DEF Texts
<1> QED
  BY <1>1 DEF TextIsInOrder

\* Looking at a line without text adds none.
LEMMA LineWithoutText ==
    ASSUME ReplyInv, NEW s \in Streams, HasLine(s), Line(s) # "delta",
           Advance(s), got' = got,
           Line(s) \in {"done", "bad"} => Ended(s)',
           \A t \in Streams \ {s} : phase'[t] = phase[t]
    PROVE  TextIsInOrder'
<1> USE DEF ReplyInv
<1>1. pos' = [pos EXCEPT ![s] = @ + 1] /\ sent' = sent
  BY DEF Advance
<1>2. pos[s] \in Nat /\ pos'[s] = pos[s] + 1 /\ sent[s][pos[s] + 1] # "delta"
  BY <1>1 DEF TypeOK, Line
<1>3. \A t \in Streams : Texts(t)' = Texts(t)
  BY DEF Texts
<1>4. \A i \in 1..pos[s] : sent[s][i] \notin {"done", "bad"}
  BY DEF TextIsInOrder, HasLine, Ended
<1>5. Texts(s) = {i \in 1..pos'[s] : sent'[s][i] = "delta"}
  BY <1>1, <1>2 DEF TextIsInOrder
<1>6. \A i \in 1..pos'[s] : sent'[s][i] \in {"done", "bad"} => i = pos'[s] /\ Ended(s)'
  BY <1>1, <1>2, <1>4 DEF Line
<1>7. \A t \in Streams \ {s} : pos'[t] = pos[t] /\ (Ended(t) => Ended(t)')
  BY <1>1 DEF TypeOK, Ended
<1> QED
  BY <1>1, <1>3, <1>5, <1>6, <1>7 DEF TextIsInOrder

\* A generator that has ended is left as it is.
Complete(s) == phase[s] = "exhausted" =>
    \/ pos[s] > 0 /\ sent[s][pos[s]] = "done"
    \/ /\ wire[s] = "eof"
       /\ Texts(s) = {i \in DOMAIN sent[s] : sent[s][i] = "delta"}

LEMMA CompleteKept ==
    ASSUME ReplyInv, NEW s \in Streams,
           phase'[s] = "exhausted" =>
               /\ phase[s] = "exhausted" /\ pos'[s] = pos[s] /\ got'[s] = got[s]
               /\ sent'[s] = sent[s] /\ wire'[s] = wire[s]
    PROVE  Complete(s)'
  BY DEF ReplyInv, EndMeansComplete, Complete, Texts

LEMMA CompleteIsEnd == (\A s \in Streams : Complete(s)') => EndMeansComplete'
  BY DEF Complete, EndMeansComplete
-----------------------------------------------------------------------------
(***************************************************************************)
(* The generator's steps.                                                  *)
(***************************************************************************)
LEMMA ConnectKeeps ==
    ASSUME ReplyInv, NEW s \in Streams, Connect(s)
    PROVE  ReplyInv'
<1> USE DEF ReplyInv, Connect
<1>1. TypeOK'
  BY DEF TypeOK, RequestInv
<1>2. /\ \A t \in Streams : phase'[t] = "created" => posts'[t] = 0
      /\ IsFiniteSet(conns')
  BY FS_AddElement DEF RequestInv, TypeOK
<1>3. conns' = {t \in Streams : phase'[t] \in {"reading", "suspended"}}
  BY DEF TypeOK, ConnectionsAreGivenBack
<1>4. Cardinality(conns) \in Nat /\ Cardinality(conns') \in Nat
      /\ Cardinality(conns') <= Cardinality(conns) + 1
  BY <1>2, FS_AddElement, FS_CardinalityType DEF RequestInv
<1>5. ConnectionsAreGivenBack'
  BY <1>3, <1>4, PoolAssumption DEF ConnectionsAreGivenBack
<1>6. TextIsInOrder'
  BY TextKept DEF Ended, TypeOK
<1>7. \A t \in Streams : Complete(t)'
  BY CompleteKept DEF TypeOK
<1> QED
  BY <1>1, <1>2, <1>5, <1>6, <1>7, CompleteIsEnd DEF RequestInv

LEMMA ConnectFailsKeeps ==
    ASSUME ReplyInv, NEW s \in Streams, ConnectFails(s)
    PROVE  ReplyInv'
<1> USE DEF ReplyInv
<1>0. PICK k \in {0, 1} : posts' = [posts EXCEPT ![s] = @ + k]
  BY DEF ConnectFails
<1>00. /\ phase[s] = "created" /\ phase' = [phase EXCEPT ![s] = "raised"]
       /\ UNCHANGED <<pos, got, sent, conns, wire, closed>>
  BY DEF ConnectFails
<1>1. TypeOK'
  BY <1>0, <1>00 DEF TypeOK, RequestInv
<1>2. RequestInv'
  BY <1>0, <1>00 DEF RequestInv, TypeOK
<1>3. ConnectionsAreGivenBack'
  BY <1>00 DEF TypeOK, ConnectionsAreGivenBack
<1>4. TextIsInOrder'
  BY <1>00, TextKept DEF Ended, TypeOK
<1>5. \A t \in Streams : Complete(t)'
  BY <1>00, CompleteKept DEF TypeOK
<1> QED
  BY <1>1, <1>2, <1>3, <1>4, <1>5, CompleteIsEnd

LEMMA YieldKeeps ==
    ASSUME ReplyInv, NEW s \in Streams, Yield(s)
    PROVE  ReplyInv'
<1> USE DEF ReplyInv
<1>1. /\ phase[s] = "reading" /\ pos[s] < Len(sent[s]) /\ sent[s][pos[s] + 1] = "delta"
      /\ pos' = [pos EXCEPT ![s] = @ + 1]
      /\ got' = [got EXCEPT ![s] = Append(@, pos[s] + 1)]
      /\ phase' = [phase EXCEPT ![s] = "suspended"]
      /\ UNCHANGED <<posts, sent, closed, conns, wire>>
  BY DEF Yield, HasLine, Line, Advance
<1>2. /\ pos[s] \in Nat /\ got[s] \in Seq(Nat) /\ Len(sent[s]) \in Nat
      /\ pos'[s] = pos[s] + 1 /\ got'[s] = Append(got[s], pos[s] + 1)
      /\ \A t \in Streams \ {s} : pos'[t] = pos[t] /\ got'[t] = got[t] /\ phase'[t] = phase[t]
  BY <1>1 DEF TypeOK
<1> DEFINE n == Len(got[s])
<1>3. /\ got'[s] \in Seq(Nat) /\ DOMAIN got[s] = 1..n /\ DOMAIN got'[s] = 1..(n + 1)
      /\ n \in Nat /\ got'[s][n + 1] = pos[s] + 1
      /\ \A i \in 1..n : got'[s][i] = got[s][i]
  BY <1>2, AppendProperties
<1>4. TypeOK'
  BY <1>1, <1>2, <1>3 DEF TypeOK
<1>5. RequestInv' /\ ConnectionsAreGivenBack'
  BY <1>1 DEF TypeOK, RequestInv, ConnectionsAreGivenBack
<1>6. /\ \A i \in 1..pos[s] : sent[s][i] \notin {"done", "bad"}
      /\ {got[s][k] : k \in 1..n} = {i \in 1..pos[s] : sent[s][i] = "delta"}
      /\ \A j, k \in 1..n : j < k => got[s][j] < got[s][k]
  BY <1>1, <1>3 DEF TextIsInOrder, Texts, Ended
<1>7. Texts(s)' = {i \in 1..pos'[s] : sent[s][i] = "delta"}
  <2>1. Texts(s)' = {got[s][k] : k \in 1..n} \cup {pos[s] + 1}
    <3>1. Texts(s)' = {got'[s][k] : k \in 1..(n + 1)}
      BY <1>3 DEF Texts
    <3>2. 1..(n + 1) = (1..n) \cup {n + 1}
      BY <1>3
    <3>3. Texts(s)' = {got'[s][k] : k \in 1..n} \cup {got'[s][n + 1]}
      BY <3>1, <3>2
    <3>4. {got'[s][k] : k \in 1..n} = {got[s][k] : k \in 1..n}
      BY <1>3
    <3> QED
      BY <1>3, <3>3, <3>4
  <2> QED
    BY <1>1, <1>2, <1>6, <2>1
<1>8. \A j, k \in 1..(n + 1) : j < k => got'[s][j] < got'[s][k]
  <2>1. \A j \in 1..n : got[s][j] \in 1..pos[s]
    BY <1>6
  <2> QED
    BY SMTT(30), <1>2, <1>3, <1>6, <2>1
<1>9. TextIsInOrder'
  <2> SUFFICES ASSUME NEW t \in Streams
               PROVE  /\ Texts(t)' = {i \in 1..pos'[t] : sent[t][i] = "delta"}
                      /\ \A j, k \in DOMAIN got'[t] : j < k => got'[t][j] < got'[t][k]
                      /\ \A i \in 1..pos'[t] : sent[t][i] \in {"done", "bad"} =>
                            i = pos'[t] /\ Ended(t)'
    BY <1>1 DEF TextIsInOrder
  <2>1. CASE t = s
    <3>1. Texts(t)' = {i \in 1..pos'[t] : sent[t][i] = "delta"}
      BY <1>7, <2>1
    <3>2. \A j, k \in DOMAIN got'[t] : j < k => got'[t][j] < got'[t][k]
      BY <1>3, <1>8, <2>1
    <3>3. \A i \in 1..pos'[t] : sent[t][i] \notin {"done", "bad"}
      BY <1>1, <1>2, <1>6, <2>1
    <3> QED
      BY <3>1, <3>2, <3>3
  <2>2. CASE t # s
    BY <1>2, <2>2 DEF TextIsInOrder, Texts, Ended
  <2> QED
    BY <2>1, <2>2
<1>10. \A t \in Streams : Complete(t)'
  BY <1>1, <1>2, CompleteKept DEF TypeOK
<1> QED
  BY <1>4, <1>5, <1>9, <1>10, CompleteIsEnd

LEMMA SkipLineKeeps ==
    ASSUME ReplyInv, NEW s \in Streams, SkipLine(s)
    PROVE  ReplyInv'
<1> USE DEF ReplyInv
<1>1. /\ HasLine(s) /\ Line(s) = "other" /\ Advance(s)
      /\ UNCHANGED <<phase, got, conns, wire>>
      /\ phase[s] = "reading" /\ pos[s] < Len(sent[s])
      /\ pos' = [pos EXCEPT ![s] = @ + 1] /\ UNCHANGED <<posts, sent, closed>>
  BY DEF SkipLine, HasLine, Advance
<1>2. TypeOK'
  BY <1>1 DEF TypeOK
<1>3. RequestInv' /\ ConnectionsAreGivenBack'
  BY <1>1 DEF RequestInv, ConnectionsAreGivenBack
<1>4. TextIsInOrder'
  BY <1>1, LineWithoutText
<1>5. \A t \in Streams : Complete(t)'
  BY <1>1, CompleteKept DEF TypeOK
<1> QED
  BY <1>2, <1>3, <1>4, <1>5, CompleteIsEnd

\* [DONE] and a line that cannot be read end the generator.
LEMMA LastLineKeeps ==
    ASSUME ReplyInv, NEW s \in Streams, ReadDone(s) \/ ReadBad(s)
    PROVE  ReplyInv'
<1> USE DEF ReplyInv
<1>1. PICK how \in {"exhausted", "raised"} :
         /\ End(s, how)
         /\ how = "exhausted" => Line(s) = "done"
         /\ HasLine(s) /\ Line(s) \in {"done", "bad"} /\ Advance(s) /\ got' = got
  BY DEF ReadDone, ReadBad
<1>2. /\ phase[s] = "reading" /\ pos[s] < Len(sent[s])
      /\ pos' = [pos EXCEPT ![s] = @ + 1] /\ UNCHANGED <<posts, sent, closed, wire>>
      /\ phase' = [phase EXCEPT ![s] = how] /\ conns' = conns \ {s}
  BY <1>1 DEF HasLine, Advance, End
<1>3. pos[s] \in Nat /\ pos'[s] = pos[s] + 1 /\ phase'[s] = how
  BY <1>2 DEF TypeOK
<1>4. TypeOK'
  BY <1>1, <1>2 DEF TypeOK
<1>5. ConnectionsAreGivenBack' /\ RequestInv'
  BY <1>1, <1>2, EndGivesBack DEF RequestInv, TypeOK
<1>6. TextIsInOrder'
  BY <1>1, <1>2, <1>3, LineWithoutText DEF Ended, TypeOK
<1>7. Complete(s)'
  BY <1>1, <1>2, <1>3 DEF Complete, Line
<1>8. \A t \in Streams \ {s} : Complete(t)'
  BY <1>1, <1>2, CompleteKept DEF TypeOK
<1> QED
  BY <1>4, <1>5, <1>6, <1>7, <1>8, CompleteIsEnd

\* The reply is over, or the generator is dropped, between two lines.
LEMMA EndKeeps ==
    ASSUME ReplyInv, NEW s \in Streams, ReadEof(s) \/ ReadBroken(s) \/ Drop(s)
    PROVE  ReplyInv'
<1> USE DEF ReplyInv
<1>1. PICK how \in {"exhausted", "raised", "dropped"} :
         /\ End(s, how) /\ UNCHANGED <<pos, got, posts, sent, closed>>
         /\ how = "exhausted" => wire[s] = "eof" /\ pos[s] = Len(sent[s])
         /\ phase[s] \in {"created", "reading", "suspended"}
  BY DEF ReadEof, ReadBroken, Drop
<1>2. phase' = [phase EXCEPT ![s] = how] /\ conns' = conns \ {s} /\ wire' = wire
  BY <1>1 DEF End
<1>3. TypeOK'
  BY <1>1, <1>2 DEF TypeOK
<1>4. ConnectionsAreGivenBack' /\ RequestInv'
  BY <1>1, <1>2, EndGivesBack DEF RequestInv, TypeOK
<1>5. TextIsInOrder'
  BY <1>1, <1>2, TextKept DEF Ended, TypeOK
<1>6. Complete(s)'
  <2>1. Texts(s)' = Texts(s)
    BY <1>1 DEF Texts
  <2>2. Texts(s) = {i \in 1..pos[s] : sent[s][i] = "delta"}
    BY DEF TextIsInOrder
  <2>3. DOMAIN sent[s] = 1..Len(sent[s]) /\ phase'[s] = how
    BY <1>2 DEF TypeOK
  <2> QED
    BY <1>1, <1>2, <2>1, <2>2, <2>3 DEF Complete
<1>7. \A t \in Streams \ {s} : Complete(t)'
  BY <1>1, <1>2, CompleteKept DEF TypeOK
<1> QED
  BY <1>3, <1>4, <1>5, <1>6, <1>7, CompleteIsEnd
-----------------------------------------------------------------------------
(***************************************************************************)
(* The caller's and the provider's steps.                                  *)
(***************************************************************************)
LEMMA ResumeKeeps ==
    ASSUME ReplyInv, NEW s \in Streams, Resume(s)
    PROVE  ReplyInv'
<1> USE DEF ReplyInv, Resume
<1>1. TypeOK'
  BY DEF TypeOK
<1>2. RequestInv' /\ ConnectionsAreGivenBack'
  BY DEF RequestInv, ConnectionsAreGivenBack, TypeOK
<1>3. TextIsInOrder'
  BY TextKept DEF Ended, TypeOK
<1>4. \A t \in Streams : Complete(t)'
  BY CompleteKept DEF TypeOK
<1> QED
  BY <1>1, <1>2, <1>3, <1>4, CompleteIsEnd

LEMMA CloseKeeps ==
    ASSUME ReplyInv, Close
    PROVE  ReplyInv'
<1> USE DEF ReplyInv, Close
<1>1. TypeOK'
  BY DEF TypeOK
<1>2. RequestInv' /\ ConnectionsAreGivenBack'
  BY DEF RequestInv, ConnectionsAreGivenBack
<1>3. TextIsInOrder'
  BY TextKept DEF Ended
<1>4. \A t \in Streams : Complete(t)'
  BY CompleteKept DEF ConnectionsAreGivenBack
<1> QED
  BY <1>1, <1>2, <1>3, <1>4, CompleteIsEnd

LEMMA SendKeeps ==
    ASSUME ReplyInv, NEW s \in Streams, NEW kind \in Kinds, Send(s, kind)
    PROVE  ReplyInv'
<1> USE DEF ReplyInv
<1>1. /\ s \in conns /\ sent' = [sent EXCEPT ![s] = Append(@, kind)]
      /\ UNCHANGED <<phase, pos, got, posts, conns, wire, closed>>
  BY DEF Send
<1>2. sent[s] \in Seq(Kinds) /\ pos[s] \in Nat /\ pos[s] <= Len(sent[s])
  BY DEF TypeOK
<1>3. /\ Append(sent[s], kind) \in Seq(Kinds) /\ Len(Append(sent[s], kind)) = Len(sent[s]) + 1
      /\ \A i \in 1..Len(sent[s]) : Append(sent[s], kind)[i] = sent[s][i]
      /\ Len(sent[s]) \in Nat
  BY <1>2, AppendProperties
<1>4. \A t \in Streams : sent'[t] = IF t = s THEN Append(sent[s], kind) ELSE sent[t]
  BY <1>1 DEF TypeOK
<1>5. TypeOK'
  BY <1>1, <1>2, <1>3, <1>4 DEF TypeOK
<1>6. RequestInv' /\ ConnectionsAreGivenBack'
  BY <1>1 DEF RequestInv, ConnectionsAreGivenBack
<1>7. \A t \in Streams : \A i \in 1..pos[t] : sent'[t][i] = sent[t][i]
  <2>1. \A i \in 1..pos[s] : i \in 1..Len(sent[s])
    BY <1>2, <1>3
  <2> QED
    BY <1>3, <1>4, <2>1
<1>8. TextIsInOrder'
  BY <1>1, <1>7, TextKept DEF Ended
<1>9. \A t \in Streams : Complete(t)'
  BY <1>1, <1>4, CompleteKept DEF ConnectionsAreGivenBack
<1> QED
  BY <1>5, <1>6, <1>8, <1>9, CompleteIsEnd

LEMMA FinishKeeps ==
    ASSUME ReplyInv, NEW s \in Streams, Finish(s)
    PROVE  ReplyInv'
<1> USE DEF ReplyInv
<1>1. PICK how \in {"eof", "broken"} : wire' = [wire EXCEPT ![s] = how]
  BY DEF Finish
<1>2. s \in conns /\ UNCHANGED <<phase, pos, got, posts, sent, conns, closed>>
  BY DEF Finish
<1>3. TypeOK'
  BY <1>1, <1>2 DEF TypeOK
<1>4. RequestInv' /\ ConnectionsAreGivenBack'
  BY <1>2 DEF RequestInv, ConnectionsAreGivenBack
<1>5. TextIsInOrder'
  BY <1>2, TextKept DEF Ended
<1>6. \A t \in Streams : Complete(t)'
  BY <1>1, <1>2, CompleteKept DEF ConnectionsAreGivenBack, TypeOK
<1> QED
  BY <1>3, <1>4, <1>5, <1>6, CompleteIsEnd
-----------------------------------------------------------------------------
LEMMA ReplyStep == ReplyInv /\ [Next]_vars => ReplyInv'
<1> SUFFICES ASSUME ReplyInv, [Next]_vars PROVE ReplyInv'
  OBVIOUS
<1>1. ASSUME NEW s \in Streams, Read(s) PROVE ReplyInv'
  BY <1>1, ConnectKeeps, ConnectFailsKeeps, YieldKeeps, SkipLineKeeps,
     LastLineKeeps, EndKeeps DEF Read
<1>2. ASSUME NEW s \in Streams,
             Resume(s) \/ Drop(s) \/ Finish(s) \/ \E kind \in Kinds : Send(s, kind)
      PROVE  ReplyInv'
  BY <1>2, ResumeKeeps, EndKeeps, FinishKeeps, SendKeeps
<1>3. CASE Close
  BY <1>3, CloseKeeps
<1>4. CASE UNCHANGED vars
  BY <1>4 DEF vars, ReplyInv, TypeOK, RequestInv, ConnectionsAreGivenBack,
      TextIsInOrder, Texts, Ended, EndMeansComplete
<1> QED
  BY <1>1, <1>2, <1>3, <1>4 DEF Next

LEMMA ReplyInvariant == Spec => []ReplyInv
  BY ReplyInit, ReplyStep, PTL DEF Spec

\* The types are kept, and no stream sends its request twice.
THEOREM StreamTypeCorrect == Spec => []TypeOK
<1>1. ReplyInv => TypeOK
  BY DEF ReplyInv
<1> QED
  BY <1>1, ReplyInvariant, PTL

\* No stream keeps a connection after its end, and none is lost.
THEOREM NoConnectionLeaks == Spec => []ConnectionsAreGivenBack
<1>1. ReplyInv => ConnectionsAreGivenBack
  BY DEF ReplyInv
<1> QED
  BY <1>1, ReplyInvariant, PTL

\* A caller has the text of what was read, in order.
THEOREM CallersHaveTheText == Spec => []TextIsInOrder
<1>1. ReplyInv => TextIsInOrder
  BY DEF ReplyInv
<1> QED
  BY <1>1, ReplyInvariant, PTL

\* A reply that broke off never looks complete.
THEOREM BrokenRepliesRaise == Spec => []EndMeansComplete
<1>1. ReplyInv => EndMeansComplete
  BY DEF ReplyInv
<1> QED
  BY <1>1, ReplyInvariant, PTL
=============================================================================
