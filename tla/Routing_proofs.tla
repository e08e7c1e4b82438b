--------------------------- MODULE Routing_proofs ---------------------------
(***************************************************************************)
(* Proofs about Routing, for any environment, file, rules and models: the  *)
(* merge keeps values and order as it should, and the default rules serve  *)
(* a call by the right provider under the right model.                     *)
(***************************************************************************)
EXTENDS Routing, SequenceTheorems, FiniteSetTheorems, WellFoundedInduction, TLAPS

\* A set of places has a least one.
LEMMA LeastOf ==
    ASSUME NEW T \in SUBSET Nat, T # {}
    PROVE  Min(T) \in T /\ \A m \in T : Min(T) <= m
<1> DEFINE R == OpToRel(<, Nat)
<1>1. IsWellFoundedOn(R, Nat)
  BY NatLessThanWellFounded
<1>2. \A x, y \in Nat : <<y, x>> \in R <=> y < x
  BY DEF OpToRel
<1> HIDE DEF R
<1>3. PICK x \in T : \A y \in T : ~ (<<y, x>> \in R)
  BY <1>1, WFMin
<1>4. \A y \in T : y \in Nat /\ x \in Nat /\ ~(y < x)
  BY <1>2, <1>3
<1>5. \E y \in T : \A m \in T : y =< m
  BY <1>3, <1>4
<1> QED
  BY <1>5 DEF Min

\* Induction, as a fact about sets of naturals.
LEMMA SetInduction ==
    ASSUME NEW S \in SUBSET Nat, 0 \in S, \A n \in S : n + 1 \in S
    PROVE  S = Nat
<1> SUFFICES ASSUME Nat \ S # {} PROVE FALSE
  OBVIOUS
<1> DEFINE n == Min(Nat \ S)
<1>1. n \in Nat \ S /\ \A m \in Nat \ S : n <= m
  <2>1. Nat \ S \in SUBSET Nat
    OBVIOUS
  <2> QED
    BY <2>1, LeastOf
<1> HIDE DEF n
<1>2. n # 0 /\ n - 1 \in Nat /\ n - 1 \in S
  BY <1>1
<1> QED
  BY <1>1, <1>2

-----------------------------------------------------------------------------
(***************************************************************************)
(* The merge.                                                              *)
(***************************************************************************)
\* f[n] is the dict after the first n entries.
Merges(f, entries, last) ==
    f = [n \in 0..last |->
            IF n = 0 THEN <<>>
            ELSE IF entries[n].complete THEN Put(f[n - 1], entries[n])
            ELSE f[n - 1]]

\* Each of its dicts comes from the one before.
LEMMA MergesAt ==
    ASSUME NEW entries, NEW last \in Nat, NEW f, Merges(f, entries, last), NEW n \in 0..last
    PROVE  f[n] = IF n = 0 THEN <<>>
                  ELSE IF entries[n].complete THEN Put(f[n - 1], entries[n])
                  ELSE f[n - 1]
<1> DEFINE e(j) == IF j = 0 THEN <<>>
                   ELSE IF entries[j].complete THEN Put(f[j - 1], entries[j])
                   ELSE f[j - 1]
<1>1. f = [j \in 0..last |-> e(j)]
  BY DEF Merges
<1> HIDE DEF e
<1>2. f[n] = e(n)
  BY <1>1, Zenon
<1> QED
  BY <1>2 DEF e

\* There is such a function, so the merge's definition chooses one.
LEMMA MergesExists ==
    ASSUME NEW entries, NEW last \in Nat PROVE \E f : Merges(f, entries, last)
<1> DEFINE S == {m \in Nat : \E f : Merges(f, entries, m)}
<1>1. 0 \in S
  <2> DEFINE g == [n \in 0..0 |-> <<>>]
  <2>1. \A n \in 0..0 : g[n] = IF n = 0 THEN <<>>
                  ELSE IF entries[n].complete THEN Put(g[n - 1], entries[n])
                  ELSE g[n - 1]
    OBVIOUS
  <2>2. Merges(g, entries, 0)
    BY <2>1 DEF Merges
  <2> QED
    BY <2>2
<1>2. ASSUME NEW m \in S PROVE m + 1 \in S
  <2>1. PICK f : Merges(f, entries, m)
    BY <1>2
  <2>0. \A n \in 0..m : f[n] = IF n = 0 THEN <<>>
                  ELSE IF entries[n].complete THEN Put(f[n - 1], entries[n])
                  ELSE f[n - 1]
    BY <2>1, MergesAt
  <2> DEFINE g == [n \in 0..(m + 1) |->
                      IF n <= m THEN f[n]
                      ELSE IF entries[n].complete THEN Put(f[m], entries[n])
                      ELSE f[m]]
  <2>2. \A n \in 0..(m + 1) : g[n] = IF n = 0 THEN <<>>
                  ELSE IF entries[n].complete THEN Put(g[n - 1], entries[n])
                  ELSE g[n - 1]
    BY <2>0
  <2>3. Merges(g, entries, m + 1)
    BY <2>2 DEF Merges
  <2> QED
    BY <2>3
<1> QED
  BY <1>1, <1>2, SetInduction

\* The merge is the last of these dicts.
LEMMA MergedIs ==
    ASSUME NEW entries, NEW last \in Nat, last = Len(entries)
    PROVE  \E f : Merges(f, entries, last) /\ Merged(entries) = f[last]
<1> DEFINE h == CHOOSE f : Merges(f, entries, last)
<1>1. Merges(h, entries, last)
  BY MergesExists
<1>2. Merged(entries) = h[last]
  BY DEF Merged, Merges
<1> QED
  BY <1>1, <1>2

\* The mentions of a name among the first n entries, and a dict that is what
\* it should be after them.
MentionsIn(entries, n, name) ==
    {i \in 1..n : entries[i].complete /\ entries[i].name = name}

IsMerge(entries, n, d) ==
    /\ d \in Seq({entries[i] : i \in 1..n})
    /\ \A i \in 1..n : entries[i].complete => entries[i].name \in Names(d)
    /\ \A i \in DOMAIN d : \E k \in MentionsIn(entries, n, d[i].name) :
          d[i] = entries[k] /\ \A m \in MentionsIn(entries, n, d[i].name) : m <= k
    /\ \A i, j \in DOMAIN d :
          i < j => \E k \in MentionsIn(entries, n, d[i].name) :
                      \A m \in MentionsIn(entries, n, d[j].name) : k < m

\* An entry is no mention of another name.
LEMMA MentionsOfOthers ==
    ASSUME NEW entries, NEW n \in Nat, NEW name, name # entries[n + 1].name
    PROVE  MentionsIn(entries, n + 1, name) = MentionsIn(entries, n, name)
BY DEF MentionsIn

\* Without entries there is no provider.
LEMMA MergeOfNothing ==
    ASSUME NEW entries PROVE IsMerge(entries, 0, <<>>)
<1>1. DOMAIN <<>> = {} /\ <<>> \in Seq({entries[i] : i \in 1..0})
  OBVIOUS
<1> QED
  BY <1>1 DEF IsMerge

\* An incomplete entry is not mentioned.
LEMMA SkipKeepsMerge ==
    ASSUME NEW entries, NEW n \in Nat, NEW d, IsMerge(entries, n, d),
           ~entries[n + 1].complete
    PROVE  IsMerge(entries, n + 1, d)
<1>1. \A name : MentionsIn(entries, n + 1, name) = MentionsIn(entries, n, name)
  BY DEF MentionsIn
<1>2. d \in Seq({entries[i] : i \in 1..(n + 1)})
  <2>1. {entries[i] : i \in 1..n} \subseteq {entries[i] : i \in 1..(n + 1)}
    OBVIOUS
  <2>2. d \in Seq({entries[i] : i \in 1..n})
    BY DEF IsMerge
  <2> HIDE DEF IsMerge
  <2> QED
    BY <2>1, <2>2
<1>3. \A i \in 1..(n + 1) : entries[i].complete => i \in 1..n
  OBVIOUS
<1> QED
  BY <1>1, <1>2, <1>3 DEF IsMerge

\* An entry of a name that the dict has: the name's last mention, in its place.
LEMMA ReplaceKeepsMerge ==
    ASSUME NEW entries, NEW n \in Nat, NEW d, IsMerge(entries, n, d),
           entries[n + 1].complete, entries[n + 1].name \in Names(d)
    PROVE  IsMerge(entries, n + 1, Put(d, entries[n + 1]))
<1> DEFINE e == entries[n + 1]
           more == [i \in DOMAIN d |-> IF d[i].name = e.name THEN e ELSE d[i]]
           T == {entries[i] : i \in 1..n}
           U == {entries[i] : i \in 1..(n + 1)}
<1>1. Put(d, e) = more
  BY DEF Put
<1>2. DOMAIN more = DOMAIN d /\ \A i \in DOMAIN d : more[i].name = d[i].name
  OBVIOUS
<1>3. more \in Seq(U)
  <2>1. d \in Seq(T) /\ T \subseteq U /\ e \in U
    BY DEF IsMerge
  <2>2. Len(d) \in Nat /\ DOMAIN d = 1..Len(d) /\ \A i \in 1..Len(d) : d[i] \in U
    <3> HIDE DEF T, U
    <3> QED
      BY <2>1
  <2> HIDE DEF U, T, e
  <2>3. more \in [1..Len(d) -> U]
    BY <2>1, <2>2
  <2> QED
    BY <2>2, <2>3
<1>4. \A name : MentionsIn(entries, n + 1, name) =
                   MentionsIn(entries, n, name) \cup (IF name = e.name THEN {n + 1} ELSE {})
  BY DEF MentionsIn
<1>5. \A name : MentionsIn(entries, n, name) \subseteq 1..n
  BY DEF MentionsIn
<1>6. Names(more) = Names(d)
  BY <1>2 DEF Names
<1>7. \A i \in 1..(n + 1) : entries[i].complete => entries[i].name \in Names(more)
  <2>1. \A i \in 1..n : entries[i].complete => entries[i].name \in Names(d)
    BY DEF IsMerge
  <2> QED
    BY <1>6, <2>1
<1>8. ASSUME NEW i \in DOMAIN more
      PROVE  \E k \in MentionsIn(entries, n + 1, more[i].name) :
                more[i] = entries[k] /\ \A m \in MentionsIn(entries, n + 1, more[i].name) : m <= k
  <2>1. CASE d[i].name = e.name
    <3>1. more[i] = entries[n + 1] /\ more[i].name = e.name
      BY <1>2, <2>1
    <3>2. n + 1 \in MentionsIn(entries, n + 1, more[i].name)
      BY <1>4, <3>1
    <3>3. \A m \in MentionsIn(entries, n + 1, more[i].name) : m <= n + 1
      BY DEF MentionsIn
    <3> QED
      BY <3>1, <3>2, <3>3
  <2>2. CASE d[i].name # e.name
    <3>1. more[i] = d[i] /\ i \in DOMAIN d
      BY <2>2
    <3>2. MentionsIn(entries, n + 1, more[i].name) = MentionsIn(entries, n, d[i].name)
      <4>1. more[i].name = d[i].name
        BY <3>1
      <4> HIDE DEF more, e
      <4> QED
        BY <1>4, <2>2, <4>1
    <3> QED
      BY <3>1, <3>2 DEF IsMerge
  <2> QED
    BY <2>1, <2>2
<1>9. ASSUME NEW i \in DOMAIN more, NEW j \in DOMAIN more, i < j
      PROVE  \E k \in MentionsIn(entries, n + 1, more[i].name) :
                \A m \in MentionsIn(entries, n + 1, more[j].name) : k < m
  <2>1. PICK k \in MentionsIn(entries, n, d[i].name) :
                \A m \in MentionsIn(entries, n, d[j].name) : k < m
    BY <1>2, <1>9 DEF IsMerge
  <2>2. k \in MentionsIn(entries, n + 1, more[i].name) /\ k < n + 1
    BY <1>2, <1>4, <1>5, <2>1
  <2>3. MentionsIn(entries, n + 1, more[j].name) \subseteq
            MentionsIn(entries, n, d[j].name) \cup {n + 1}
    BY <1>2, <1>4
  <2> QED
    BY <2>1, <2>2, <2>3
<1> HIDE DEF more
<1> QED
  BY <1>1, <1>3, <1>7, <1>8, <1>9 DEF IsMerge

\* An entry of a new name comes last, and is the name's only mention so far.
LEMMA AppendKeepsMerge ==
    ASSUME NEW entries, NEW n \in Nat, NEW d, IsMerge(entries, n, d),
           entries[n + 1].complete, entries[n + 1].name \notin Names(d)
    PROVE  IsMerge(entries, n + 1, Put(d, entries[n + 1]))
<1> DEFINE e == entries[n + 1]
           more == Append(d, e)
           T == {entries[i] : i \in 1..n}
           U == {entries[i] : i \in 1..(n + 1)}
<1>1. Put(d, e) = more
  BY DEF Put
<1>2. /\ more \in Seq(U)
      /\ Len(d) \in Nat /\ DOMAIN d = 1..Len(d) /\ DOMAIN more = 1..(Len(d) + 1)
      /\ \A i \in DOMAIN d : more[i] = d[i]
      /\ more[Len(d) + 1] = e
  <2>1. d \in Seq(T) /\ T \subseteq U /\ e \in U
    BY DEF IsMerge
  <2> HIDE DEF U, T, e
  <2>2. d \in Seq(U)
    BY <2>1
  <2> QED
    BY <2>1, <2>2
<1> HIDE DEF more
<1>4. \A name : MentionsIn(entries, n + 1, name) =
                   MentionsIn(entries, n, name) \cup (IF name = e.name THEN {n + 1} ELSE {})
  BY DEF MentionsIn
<1>5. \A name : MentionsIn(entries, n, name) \subseteq 1..n
  BY DEF MentionsIn
<1>6. \A i \in 1..n : entries[i].complete => entries[i].name \in Names(d)
  BY DEF IsMerge
<1>7. MentionsIn(entries, n, e.name) = {}
  BY <1>6 DEF MentionsIn
<1>8. MentionsIn(entries, n + 1, e.name) = {n + 1}
  BY <1>4, <1>7
<1>9. \A i \in DOMAIN d : MentionsIn(entries, n + 1, d[i].name) = MentionsIn(entries, n, d[i].name)
  <2>1. \A i \in DOMAIN d : d[i].name \in Names(d)
    BY DEF Names
  <2> QED
    BY <2>1, MentionsOfOthers
<1>10. \A i \in 1..(n + 1) : entries[i].complete => entries[i].name \in Names(more)
  <2>1. Names(d) \subseteq Names(more) /\ e.name \in Names(more)
    BY <1>2 DEF Names
  <2> QED
    BY <1>6, <2>1
<1>11. ASSUME NEW i \in DOMAIN more
       PROVE  \E k \in MentionsIn(entries, n + 1, more[i].name) :
                 more[i] = entries[k] /\ \A m \in MentionsIn(entries, n + 1, more[i].name) : m <= k
  <2>1. CASE i \in DOMAIN d
    <3>1. more[i] = d[i]
      BY <1>2, <2>1
    <3>2. \E k \in MentionsIn(entries, n, d[i].name) :
             d[i] = entries[k] /\ \A m \in MentionsIn(entries, n, d[i].name) : m <= k
      BY <2>1 DEF IsMerge
    <3> QED
      BY <1>9, <2>1, <3>1, <3>2
  <2>2. CASE i = Len(d) + 1
    <3>1. more[i] = entries[n + 1] /\ n + 1 \in Nat
      BY <1>2, <2>2
    <3>2. MentionsIn(entries, n + 1, more[i].name) = {n + 1}
      BY <1>8, <3>1
    <3> HIDE DEF e
    <3> QED
      BY <3>1, <3>2
  <2> QED
    BY <1>2, <2>1, <2>2
<1>12. ASSUME NEW i \in DOMAIN more, NEW j \in DOMAIN more, i < j
       PROVE  \E k \in MentionsIn(entries, n + 1, more[i].name) :
                 \A m \in MentionsIn(entries, n + 1, more[j].name) : k < m
  <2>1. i \in DOMAIN d /\ more[i] = d[i]
    BY <1>2, <1>12
  <2>2. CASE j \in DOMAIN d
    <3>1. more[j] = d[j]
      BY <1>2, <2>2
    <3>2. \E k \in MentionsIn(entries, n, d[i].name) :
             \A m \in MentionsIn(entries, n, d[j].name) : k < m
      BY <1>12, <2>1, <2>2 DEF IsMerge
    <3> QED
      BY <1>9, <2>1, <2>2, <3>1, <3>2
  <2>3. CASE j = Len(d) + 1
    <3>1. PICK k \in MentionsIn(entries, n, d[i].name) : TRUE
      BY <2>1 DEF IsMerge
    <3>2. k < n + 1
      BY <1>5, <3>1
    <3>3. MentionsIn(entries, n + 1, more[j].name) = {n + 1}
      BY <1>2, <1>8, <2>3
    <3>4. k \in MentionsIn(entries, n + 1, more[i].name)
      BY <1>9, <2>1, <3>1
    <3> HIDE DEF e
    <3> QED
      BY <3>2, <3>3, <3>4
  <2> QED
    BY <1>2, <2>2, <2>3
<1> QED
  BY <1>1, <1>2, <1>10, <1>11, <1>12 DEF IsMerge

\* By induction over the entries, which are a list of any length.
LEMMA MergedIsMerge ==
    ASSUME NEW entries, NEW last \in Nat, last = Len(entries)
    PROVE  IsMerge(entries, last, Merged(entries))
<1> PICK f : Merges(f, entries, last) /\ Merged(entries) = f[last]
  BY MergedIs
<1> DEFINE S == {n \in Nat : n <= last => IsMerge(entries, n, f[n])}
<1>1. 0 \in S
  <2>1. f[0] = <<>>
    BY MergesAt
  <2> QED
    BY <2>1, MergeOfNothing
<1>2. ASSUME NEW n \in S PROVE n + 1 \in S
  <2> SUFFICES ASSUME n + 1 <= last PROVE IsMerge(entries, n + 1, f[n + 1])
    OBVIOUS
  <2>1. n \in Nat /\ IsMerge(entries, n, f[n])
    OBVIOUS
  <2>2. n + 1 \in 0..last /\ n + 1 # 0 /\ (n + 1) - 1 = n
    BY <2>1
  <2>3. f[n + 1] = IF entries[n + 1].complete THEN Put(f[n], entries[n + 1]) ELSE f[n]
    BY <2>2, MergesAt
  <2> HIDE DEF S
  <2> QED
    BY <2>1, <2>3, SkipKeepsMerge, ReplaceKeepsMerge, AppendKeepsMerge
<1>3. S = Nat
  <2> HIDE DEF S
  <2>1. S \in SUBSET Nat
    BY DEF S
  <2> QED
    BY <1>1, <1>2, <2>1, SetInduction
<1> QED
  BY <1>3

\* The entries of both sources are one list.
LEMMA EntriesAreAList ==
    ASSUME env \in Environments, file \in Files
    PROVE  /\ Len(Entries) \in Nat /\ DOMAIN Entries = 1..Len(Entries)
<1>1. IsList(env.providers) /\ IsList(file.providers)
  BY EnvironmentsAssumption, FilesAssumption
<1> DEFINE p == env.providers  q == file.providers
           T == {p[i] : i \in DOMAIN p} \cup {q[i] : i \in DOMAIN q}
<1>2. p \in Seq(T) /\ q \in Seq(T)
  <2>1. p \in Seq({p[i] : i \in DOMAIN p}) /\ q \in Seq({q[i] : i \in DOMAIN q})
    BY <1>1 DEF IsList
  <2>2. {p[i] : i \in DOMAIN p} \subseteq T /\ {q[i] : i \in DOMAIN q} \subseteq T
    OBVIOUS
  <2> HIDE DEF T, p, q
  <2> QED
    BY <2>1, <2>2
<1> HIDE DEF T
<1>3. Entries \in Seq(T)
  BY <1>2 DEF Entries
<1> HIDE DEF p, q
<1> QED
  BY <1>3

\* The merge of an environment and a file is as MergeIsFaithful wants it, and
\* has a place for each name.
LEMMA MergedIsFaithful ==
    ASSUME env \in Environments, file \in Files
    PROVE  LET d == Merged(Entries)
           IN  /\ d \in Seq({Entries[i] : i \in DOMAIN Entries})
               /\ Names(d) = {Entries[i].name : i \in Complete}
               /\ \A i \in DOMAIN d : \E k \in Mentions(d[i].name) :
                     d[i] = Entries[k] /\ \A m \in Mentions(d[i].name) : m <= k
               /\ \A i, j \in DOMAIN d :
                     i < j => \E k \in Mentions(d[i].name) : \A m \in Mentions(d[j].name) : k < m
<1> DEFINE d == Merged(Entries)
           last == Len(Entries)
<1>1. last \in Nat /\ DOMAIN Entries = 1..last
  BY EntriesAreAList
<1>2. IsMerge(Entries, last, d)
  BY <1>1, MergedIsMerge
<1>3. \A name : MentionsIn(Entries, last, name) = Mentions(name)
  BY <1>1 DEF MentionsIn, Mentions, Complete
<1>4. Complete = {i \in 1..last : Entries[i].complete}
  BY <1>1 DEF Complete
<1> HIDE DEF d, last
<1>5. Names(d) = {Entries[i].name : i \in Complete}
  <2>1. ASSUME NEW i \in DOMAIN d
        PROVE  \E k \in Complete : d[i].name = Entries[k].name
    <3>1. PICK k \in Mentions(d[i].name) : TRUE
      BY <1>2, <1>3 DEF IsMerge
    <3> QED
      BY <3>1 DEF Mentions
  <2>2. \A k \in Complete : Entries[k].name \in Names(d)
    BY <1>2, <1>4 DEF IsMerge
  <2> QED
    BY <2>1, <2>2 DEF Names
<1>6. d \in Seq({Entries[i] : i \in DOMAIN Entries})
  <2>1. d \in Seq({Entries[i] : i \in 1..last})
    BY <1>2 DEF IsMerge
  <2> QED
    BY <1>1, <2>1
<1>7. ASSUME NEW i \in DOMAIN d
      PROVE  \E k \in Mentions(d[i].name) :
                d[i] = Entries[k] /\ \A m \in Mentions(d[i].name) : m <= k
  BY <1>2, <1>3 DEF IsMerge
<1>8. ASSUME NEW i \in DOMAIN d, NEW j \in DOMAIN d, i < j
      PROVE  \E k \in Mentions(d[i].name) : \A m \in Mentions(d[j].name) : k < m
  <2>1. PICK k \in MentionsIn(Entries, last, d[i].name) :
                \A m \in MentionsIn(Entries, last, d[j].name) : k < m
    BY <1>2, <1>8 DEF IsMerge
  <2> QED
    BY <1>3, <2>1
<1> QED
  BY <1>5, <1>6, <1>7, <1>8 DEF d

-----------------------------------------------------------------------------
(***************************************************************************)
(* The routes.                                                             *)
(***************************************************************************)
\* A dict has one entry of a name.
OnePlacePerName(d) == \A i, j \in DOMAIN d : d[i].name = d[j].name => i = j

\* The router has the clients and, unless rules were given, the routes that the
\* configuration gives; the last call went where it was routed to.
RoutingInv ==
    /\ env \in Environments /\ file \in Files
    /\ stage \in {"start", "failed", "loaded", "ready"}
    /\ cfg \in {<<>>, Merged(Entries)}
    /\ stage = "ready" =>
          /\ clients = {cfg[i].name : i \in {j \in DOMAIN cfg : cfg[j].enabled}}
          /\ given = None => route = DefaultRules(cfg)
    /\ stage # "ready" => call = None
    /\ call # None =>
          /\ call.tier \in Tiers
          /\ call.provider # None =>
                /\ route[call.tier] # None
                /\ call.provider = route[call.tier].provider
                /\ call.provider \in clients
                /\ call.asked = None => call.model = route[call.tier].model

LEMMA RoutingInit == Init => RoutingInv
BY DEF Init, RoutingInv

\* Each action preserves the invariant.
LEMMA RoutingStep == RoutingInv /\ [Next]_vars => RoutingInv'
<1> SUFFICES ASSUME RoutingInv, [Next]_vars PROVE RoutingInv'
  OBVIOUS
<1>0. UNCHANGED <<env, file, given>> => UNCHANGED <<Entries, Merged(Entries)>>
  <2>1. UNCHANGED <<env, file, given>> => UNCHANGED Entries
    BY DEF Entries
  <2>2. UNCHANGED Entries => UNCHANGED Merged(Entries)
    BY DEF Merged
  <2> QED
    BY <2>1, <2>2
<1>1. CASE LoadConfig
  BY <1>0, <1>1 DEF LoadConfig, RoutingInv, inputs
<1>2. CASE BuildRouter
  BY <1>0, <1>2 DEF BuildRouter, RoutingInv, inputs
<1>3. ASSUME NEW tier \in Tiers, NEW model \in Models, Chat(tier, model) PROVE RoutingInv'
  <2>1. UNCHANGED <<env, file, given, stage, cfg, route, clients>> /\ stage = "ready"
    BY <1>3 DEF Chat, inputs
  <2> DEFINE to == Resolve(tier)
  <2>2. call' = [tier     |-> tier,
                 asked    |-> model,
                 provider |-> IF to = None THEN None ELSE to.provider,
                 model    |-> IF to # None /\ model = None THEN to.model ELSE model]
    BY <1>3 DEF Chat
  <2>3. to # None => to = route[tier] /\ to.provider \in clients
    BY DEF Resolve
  <2> HIDE DEF to
  <2>4. /\ call'.tier = tier /\ call'.asked = model
        /\ call'.provider # None =>
              /\ to # None /\ call'.provider = to.provider
              /\ model = None => call'.model = to.model
    BY <2>2
  <2>5. call' # None =>
          /\ call'.tier \in Tiers
          /\ call'.provider # None =>
                /\ route[call'.tier] # None
                /\ call'.provider = route[call'.tier].provider
                /\ call'.provider \in clients
                /\ call'.asked = None => call'.model = route[call'.tier].model
    BY <2>3, <2>4
  <2> HIDE DEF RoutingInv
  <2>6. RoutingInv
    OBVIOUS
  <2> QED
    BY <1>0, <2>1, <2>5, <2>6 DEF RoutingInv
<1>4. CASE UNCHANGED vars
  BY <1>0, <1>4 DEF vars, inputs, RoutingInv
<1> QED
  BY <1>1, <1>2, <1>3, <1>4 DEF Next

LEMMA RoutingInvariant == Spec => []RoutingInv
BY RoutingInit, RoutingStep, PTL DEF Spec

\* The merge keeps every provider once, with its last settings, in the order of
\* first mention.
THEOREM ProvidersAreMerged == Spec => []MergeIsFaithful
<1>1. RoutingInv => MergeIsFaithful
  BY MergedIsFaithful DEF RoutingInv, MergeIsFaithful
<1> QED
  BY <1>1, RoutingInvariant, PTL

\* No name is the key of two entries: its first mention would be before itself.
LEMMA PlacesAreUnique ==
    ASSUME env \in Environments, file \in Files
    PROVE  OnePlacePerName(Merged(Entries))
<1> DEFINE d == Merged(Entries)
<1> SUFFICES ASSUME NEW i \in DOMAIN d, NEW j \in DOMAIN d, d[i].name = d[j].name, i # j
             PROVE  FALSE
  BY DEF OnePlacePerName
<1>1. /\ d \in Seq({Entries[k] : k \in DOMAIN Entries})
      /\ \A a, b \in DOMAIN d :
            a < b => \E k \in Mentions(d[a].name) : \A m \in Mentions(d[b].name) : k < m
  BY MergedIsFaithful
<1>2. \A k \in Mentions(d[i].name) : k \in Nat
  BY EntriesAreAList DEF Mentions, Complete
<1> HIDE DEF d
<1>3. i \in Nat /\ j \in Nat
  BY <1>1, LenProperties
<1>4. CASE i < j
  <2>1. PICK k \in Mentions(d[i].name) : \A m \in Mentions(d[j].name) : k < m
    BY <1>1, <1>4
  <2> QED
    BY <1>2, <2>1
<1>5. CASE j < i
  <2>1. PICK k \in Mentions(d[j].name) : \A m \in Mentions(d[i].name) : k < m
    BY <1>1, <1>5
  <2> QED
    BY <1>2, <2>1
<1> QED
  BY <1>3, <1>4, <1>5

\* A route to the first of some places leads to one of them.
LEMMA FirstIsOne ==
    ASSUME NEW c, NEW places \in SUBSET Nat, FirstOf(c, places) # None
    PROVE  \E i \in places : FirstOf(c, places) = RouteTo(c[i].name, c[i].model)
<1>1. places # {}
  BY DEF FirstOf
<1>2. Min(places) \in places
  BY <1>1, LeastOf
<1> QED
  BY <1>1, <1>2 DEF FirstOf

\* Where a tier of the default rules leads.
LEMMA DefaultRoute ==
    ASSUME NEW T, NEW c \in Seq(T), NEW tier \in Tiers, DefaultRules(c)[tier] # None
    PROVE  \E i \in DOMAIN c :
              /\ DefaultRules(c)[tier] = RouteTo(c[i].name, c[i].model)
              /\ tier = "cheap" => c[i].name = "local"
              /\ c[i].name = "local" => tier = "cheap" \/ Names(c) = {"local"}
<1>1. Locals(c) \in SUBSET Nat /\ Remotes(c) \in SUBSET Nat
  BY DEF Locals, Remotes
<1>2. CASE tier = "cheap"
  <2>1. DefaultRules(c)[tier] = FirstOf(c, Locals(c))
    BY <1>2 DEF DefaultRules
  <2>2. PICK i \in Locals(c) : FirstOf(c, Locals(c)) = RouteTo(c[i].name, c[i].model)
    BY <1>1, <2>1, FirstIsOne
  <2> QED
    BY <1>2, <2>1, <2>2 DEF Locals
<1>3. tier # "local"
  BY DEF DefaultRules
<1>4. CASE tier # "cheap"
  <2>1. DefaultRules(c)[tier] = Preferred(c)
    BY <1>3, <1>4 DEF DefaultRules
  <2>2. CASE Remotes(c) # {}
    <3>1. Preferred(c) = FirstOf(c, Remotes(c))
      BY <2>2 DEF Preferred
    <3>2. PICK i \in Remotes(c) : FirstOf(c, Remotes(c)) = RouteTo(c[i].name, c[i].model)
      BY <1>1, <2>1, <3>1, FirstIsOne
    <3> QED
      BY <1>4, <2>1, <3>1, <3>2 DEF Remotes
  <2>3. CASE Remotes(c) = {}
    <3>1. Preferred(c) = FirstOf(c, Locals(c))
      BY <2>3 DEF Preferred
    <3>2. PICK i \in Locals(c) : FirstOf(c, Locals(c)) = RouteTo(c[i].name, c[i].model)
      BY <1>1, <2>1, <3>1, FirstIsOne
    <3>3. Names(c) = {"local"}
      BY <2>3, <3>2 DEF Names, Remotes, Locals
    <3> QED
      BY <1>4, <2>1, <3>1, <3>2, <3>3 DEF Locals
  <2> QED
    BY <2>2, <2>3
<1> QED
  BY <1>2, <1>4

\* A call that the default rules serve has a client, which is only made for an
\* enabled provider, and the model of that provider's one entry.
THEOREM DefaultCallsAreServed == Spec => []DefaultCallsAreSound
<1>1. RoutingInv => DefaultCallsAreSound
  <2> SUFFICES ASSUME RoutingInv, given = None, call # None, call.provider # None
               PROVE  /\ \E i \in DOMAIN cfg :
                            /\ cfg[i].name = call.provider /\ cfg[i].enabled
                            /\ call.asked = None => call.model = cfg[i].model
                      /\ call.tier = "cheap" => call.provider = "local"
                      /\ call.provider = "local" => call.tier = "cheap" \/ Names(cfg) = {"local"}
    BY DEF DefaultCallsAreSound
  <2>1. /\ stage = "ready" /\ route = DefaultRules(cfg)
        /\ clients = {cfg[i].name : i \in {j \in DOMAIN cfg : cfg[j].enabled}}
        /\ call.tier \in Tiers
        /\ route[call.tier] # None
        /\ call.provider = route[call.tier].provider
        /\ call.provider \in clients
        /\ call.asked = None => call.model = route[call.tier].model
    BY DEF RoutingInv
  <2>2. cfg \in Seq({Entries[i] : i \in DOMAIN Entries}) /\ OnePlacePerName(cfg)
    <3>1. CASE cfg = <<>>
      BY <3>1 DEF OnePlacePerName
    <3>2. CASE cfg = Merged(Entries)
      BY <3>2, MergedIsFaithful, PlacesAreUnique DEF RoutingInv
    <3> QED
      BY <3>1, <3>2 DEF RoutingInv
  <2>3. PICK i \in DOMAIN cfg :
            /\ route[call.tier] = RouteTo(cfg[i].name, cfg[i].model)
            /\ call.tier = "cheap" => cfg[i].name = "local"
            /\ cfg[i].name = "local" => call.tier = "cheap" \/ Names(cfg) = {"local"}
    BY <2>1, <2>2, DefaultRoute
  <2>4. call.provider = cfg[i].name /\ route[call.tier].model = cfg[i].model
    BY <2>1, <2>3 DEF RouteTo
  <2>5. PICK j \in DOMAIN cfg : cfg[j].enabled /\ cfg[j].name = call.provider
    BY <2>1
  <2>6. i = j
    BY <2>2, <2>4, <2>5 DEF OnePlacePerName
  <2> QED
    BY <2>1, <2>3, <2>4, <2>5, <2>6
<1> QED
  BY <1>1, RoutingInvariant, PTL
=============================================================================
