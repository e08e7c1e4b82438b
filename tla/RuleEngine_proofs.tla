-------------------------- MODULE RuleEngine_proofs --------------------------
(***************************************************************************)
(* Proofs about RuleEngine, for any rules, registries, selections and any  *)
(* number of scans.                                                        *)
(***************************************************************************)
EXTENDS BuiltinRules, SequenceTheorems, TLAPS

\* What the scan has collected so far: everything of the rules before the one
\* it is at, and of that one the findings made.
Collected(q, rs, x, at, made) ==
    /\ \A i \in DOMAIN q : /\ q[i].place \in DOMAIN rs /\ q[i].place <= at
                           /\ q[i].rule = rs[q[i].place]
                           /\ q[i].nth \in 1..Does[q[i].rule][x].items
                           /\ q[i].place = at => q[i].nth <= made
    /\ \A p \in DOMAIN rs : \A n \in 1..Does[rs[p]][x].items :
          p < at \/ (p = at /\ n <= made) =>
              \E i \in DOMAIN q : q[i].place = p /\ q[i].nth = n
    /\ \A i, j \in DOMAIN q : i < j => Before(q[i], q[j])

\* A scan that has not begun to run rules has collected nothing.
ProgressOf(s) ==
    /\ s.phase \in {"idle", "lookup"} => s.results = <<>> /\ s.at = 1 /\ s.made = 0
    /\ s.phase = "idle" => s.targets = <<>> /\ s.whole
    /\ s.phase = "returned" => s.at = Len(s.targets) + 1
    /\ s.at <= Len(s.targets) + 1
    /\ s.at = Len(s.targets) + 1 => s.made = 0
    /\ s.at \in DOMAIN s.targets => s.made <= Does[s.targets[s.at]][s.ctx].items
    /\ Collected(s.results, s.targets, s.ctx, s.at, s.made)

\* The targets are the registry of the call, or what the lookup has found so
\* far among the rules that were registered meanwhile.
TargetsOf(s, whole, some) ==
    /\ s.whole => s.phase # "lookup"
    /\ s.whole /\ s.phase # "idle" => s.targets = whole
    /\ s.phase = "lookup" => Content \subseteq some
    /\ ~s.whole =>
          /\ Len(s.targets) <= Len(s.ids)
          /\ s.phase \in {"running", "returned"} => Len(s.targets) = Len(s.ids)
          /\ \A i \in DOMAIN s.targets :
                s.targets[i] \in some /\ IdOf[s.targets[i]] = s.ids[i]

ScanInv ==
    /\ TypeOK
    /\ \A c \in Scans : ProgressOf(scan[c]) /\ TargetsOf(scan[c], origin[c], seen[c])
-----------------------------------------------------------------------------
(***************************************************************************)
(* Collecting.                                                             *)
(***************************************************************************)
LEMMA ItemsAreNat ==
    ASSUME NEW r \in Rules, NEW x \in Contexts
    PROVE  Does[r][x].items \in Nat
  BY DoesAssumption

LEMMA CollectedNothing ==
    ASSUME NEW rs \in Seq(Rules), NEW x \in Contexts
    PROVE  Collected(<<>>, rs, x, 1, 0)
<1>1. DOMAIN <<>> = {} /\ DOMAIN rs \subseteq Nat \ {0}
  BY EmptySeq
<1>2. \A p \in DOMAIN rs : rs[p] \in Rules
  OBVIOUS
<1>3. \A p \in DOMAIN rs : \A n \in 1..Does[rs[p]][x].items : ~(p < 1) /\ ~(n <= 0)
  BY <1>1, <1>2, ItemsAreNat
<1> QED
  BY <1>1, <1>3 DEF Collected

LEMMA FindingsHaveNumbers ==
    ASSUME NEW q \in Seq(Finding), NEW i \in DOMAIN q
    PROVE  q[i] \in Finding /\ q[i].place \in Nat /\ q[i].nth \in Nat
<1>1. q[i] \in Finding
  OBVIOUS
<1> QED
  BY <1>1 DEF Finding

LEMMA CollectedMore ==
    ASSUME NEW rs \in Seq(Rules), NEW x \in Contexts, NEW q \in Seq(Finding),
           NEW at \in DOMAIN rs, NEW made \in Nat,
           made < Does[rs[at]][x].items, Collected(q, rs, x, at, made),
           NEW f \in Finding, f.rule = rs[at], f.place = at, f.nth = made + 1
    PROVE  Collected(Append(q, f), rs, x, at, made + 1)
<1> DEFINE m == Len(q)
           g == Append(q, f)
<1>1. /\ m \in Nat /\ DOMAIN q = 1..m /\ DOMAIN g = 1..(m + 1)
      /\ g[m + 1] = f /\ \A i \in 1..m : g[i] = q[i]
  BY AppendProperties
<1>2. /\ at \in Nat /\ rs[at] \in Rules /\ Does[rs[at]][x].items \in Nat
      /\ \A p \in DOMAIN rs : p \in Nat /\ rs[p] \in Rules /\ Does[rs[p]][x].items \in Nat
  BY ItemsAreNat
<1>3. \A i \in 1..m : q[i] \in Finding /\ q[i].place \in Nat /\ q[i].nth \in Nat
  BY <1>1, FindingsHaveNumbers
<1> HIDE DEF g
<1>4. \A i \in DOMAIN g : /\ g[i].place \in DOMAIN rs /\ g[i].place <= at
                          /\ g[i].rule = rs[g[i].place]
                          /\ g[i].nth \in 1..Does[g[i].rule][x].items
                          /\ g[i].place = at => g[i].nth <= made + 1
  <2>1. \A i \in 1..m : /\ q[i].place \in DOMAIN rs /\ q[i].place <= at
                        /\ q[i].rule = rs[q[i].place]
                        /\ q[i].nth \in 1..Does[q[i].rule][x].items
                        /\ q[i].place = at => q[i].nth <= made
    BY <1>1 DEF Collected
  <2>2. \A i \in 1..m : q[i].place = at => q[i].nth <= made + 1
    BY <1>3, <2>1
  <2>3. f.nth \in 1..Does[f.rule][x].items
    BY <1>2
  <2> SUFFICES ASSUME NEW i \in 1..(m + 1)
               PROVE  /\ g[i].place \in DOMAIN rs /\ g[i].place <= at
                      /\ g[i].rule = rs[g[i].place]
                      /\ g[i].nth \in 1..Does[g[i].rule][x].items
                      /\ g[i].place = at => g[i].nth <= made + 1
    BY <1>1
  <2>4. CASE i \in 1..m
    BY <1>1, <2>1, <2>2, <2>4
  <2>5. CASE i = m + 1
    BY <1>1, <1>2, <2>3, <2>5
  <2> QED
    BY <1>1, <2>4, <2>5
<1>5. \A p \in DOMAIN rs : \A n \in 1..Does[rs[p]][x].items :
         p < at \/ (p = at /\ n <= made + 1) =>
             \E i \in DOMAIN g : g[i].place = p /\ g[i].nth = n
  <2> TAKE p \in DOMAIN rs
  <2> TAKE n \in 1..Does[rs[p]][x].items
  <2>1. CASE p = at /\ n = made + 1
    BY <1>1, <2>1
  <2>2. CASE p < at \/ (p = at /\ n <= made)
    <3>1. \E i \in DOMAIN q : q[i].place = p /\ q[i].nth = n
      BY <2>2 DEF Collected
    <3> QED
      BY <1>1, <3>1
  <2> QED
    BY <1>2, <2>1, <2>2
<1>6. \A i, j \in DOMAIN g : i < j => Before(g[i], g[j])
  <2>1. \A i, j \in 1..m : i < j => Before(g[i], g[j])
    BY <1>1 DEF Collected
  <2>2. \A i \in 1..m : Before(g[i], f)
    <3>1. \A i \in 1..m : q[i].place <= at /\ (q[i].place = at => q[i].nth <= made)
      BY <1>1 DEF Collected
    <3> QED
      BY <1>1, <1>2, <1>3, <3>1 DEF Before
  <2> QED
    BY <1>1, <2>1, <2>2
<1> QED
  BY <1>4, <1>5, <1>6 DEF Collected, g

LEMMA CollectedNext ==
    ASSUME NEW rs \in Seq(Rules), NEW x \in Contexts, NEW q \in Seq(Finding),
           NEW at \in DOMAIN rs, NEW made \in Nat,
           made = Does[rs[at]][x].items, Collected(q, rs, x, at, made)
    PROVE  Collected(q, rs, x, at + 1, 0)
<1>1. /\ at \in Nat /\ \A p \in DOMAIN rs : p \in Nat /\ Does[rs[p]][x].items \in Nat
      /\ \A i \in DOMAIN q : q[i].place \in Nat /\ q[i].nth \in Nat
  BY ItemsAreNat, FindingsHaveNumbers
<1>2. \A i \in DOMAIN q : /\ q[i].place \in DOMAIN rs /\ q[i].place <= at + 1
                          /\ q[i].rule = rs[q[i].place]
                          /\ q[i].nth \in 1..Does[q[i].rule][x].items
                          /\ q[i].place # at + 1
  BY <1>1 DEF Collected
<1>3. ASSUME NEW p \in DOMAIN rs, NEW n \in 1..Does[rs[p]][x].items,
             p < at + 1 \/ (p = at + 1 /\ n <= 0)
      PROVE  \E i \in DOMAIN q : q[i].place = p /\ q[i].nth = n
  <2>1. p < at \/ (p = at /\ n <= made)
    BY <1>1, <1>3
  <2> QED
    BY <2>1 DEF Collected
<1>4. \A i, j \in DOMAIN q : i < j => Before(q[i], q[j])
  BY DEF Collected
<1> QED
  BY <1>2, <1>3, <1>4 DEF Collected

LEMMA CollectedAll ==
    ASSUME NEW rs \in Seq(Rules), NEW x \in Contexts, NEW q \in Seq(Finding),
           Collected(q, rs, x, Len(rs) + 1, 0)
    PROVE  Lists(q, rs, x)
<1>1. \A p \in DOMAIN rs : p < Len(rs) + 1
  OBVIOUS
<1> QED
  BY <1>1 DEF Collected, Lists
-----------------------------------------------------------------------------
(***************************************************************************)
(* The invariant.                                                          *)
(***************************************************************************)
LEMMA ScanInit == Init => ScanInv
<1> SUFFICES ASSUME Init PROVE ScanInv
  OBVIOUS
<1> USE DEF Init
<1>0. PICK ctx \in [Scans -> Contexts] : scan = [c \in Scans |-> NoScan(ctx[c])]
  OBVIOUS
<1>1. \A c \in Scans :
         /\ scan[c] \in ScanRecord /\ scan[c].phase = "idle" /\ scan[c].whole
         /\ scan[c].targets = <<>> /\ scan[c].results = <<>>
         /\ scan[c].at = 1 /\ scan[c].made = 0 /\ scan[c].ctx \in Contexts
  <2> TAKE c \in Scans
  <2>1. scan[c] = NoScan(ctx[c]) /\ ctx[c] \in Contexts
    BY <1>0
  <2>2. <<>> \in Seq(Rules) /\ <<>> \in Seq(Finding) /\ <<>> \in Seq({IdOf[r] : r \in Rules})
    BY EmptySeq
  <2> QED
    BY <2>1, <2>2 DEF NoScan, ScanRecord
<1>2. TypeOK
  <2>1. scan \in [Scans -> ScanRecord]
    BY <1>0, <1>1
  <2>2. origin \in [Scans -> Seq(Rules)] /\ seen \in [Scans -> SUBSET Rules]
    BY EmptySeq
  <2> QED
    BY <2>1, <2>2, PreloadedAssumption DEF TypeOK
<1>3. ASSUME NEW c \in Scans PROVE ProgressOf(scan[c])
  <2>1. Collected(<<>>, <<>>, scan[c].ctx, 1, 0)
    BY <1>1, CollectedNothing, EmptySeq
  <2>2. Len(<<>>) = 0 /\ DOMAIN <<>> = {}
    BY EmptySeq
  <2> QED
    BY <1>1, <2>1, <2>2 DEF ProgressOf
<1>4. ASSUME NEW c \in Scans PROVE TargetsOf(scan[c], origin[c], seen[c])
  BY <1>1 DEF TargetsOf
<1> QED
  BY <1>2, <1>3, <1>4 DEF ScanInv

\* A step of one scan.
LEMMA OneScanMoves ==
    ASSUME ScanInv, NEW c \in Scans, NEW s \in ScanRecord,
           scan' = [scan EXCEPT ![c] = s], UNCHANGED <<registry, adding, changes>>,
           NEW o \in Seq(Rules), origin' = [origin EXCEPT ![c] = o],
           NEW h \in SUBSET Rules, seen' = [seen EXCEPT ![c] = h],
           ProgressOf(s), TargetsOf(s, o, h)
    PROVE  ScanInv'
<1> USE DEF ScanInv
<1>1. TypeOK'
  BY DEF TypeOK
<1>2. /\ scan'[c] = s /\ origin'[c] = o /\ seen'[c] = h
      /\ \A d \in Scans \ {c} : /\ scan'[d] = scan[d] /\ origin'[d] = origin[d]
                                /\ seen'[d] = seen[d]
  BY DEF TypeOK
<1>3. Content' = Content
  BY DEF Content
<1>4. \A d \in Scans : ProgressOf(scan'[d])
  BY <1>2
<1>5. \A d \in Scans : TargetsOf(scan[d], origin[d], seen[d])' 
  BY <1>2, <1>3 DEF TargetsOf
<1>6. \A d \in Scans : ProgressOf(scan[d])'
  BY <1>4 DEF ProgressOf, Collected
<1> QED
  BY <1>1, <1>5, <1>6

LEMMA TargetsAreKept ==
    ASSUME ScanInv, NEW c \in Scans, NEW s \in ScanRecord,
           scan' = [scan EXCEPT ![c] = s],
           UNCHANGED <<registry, adding, origin, seen, changes>>,
           ProgressOf(s), TargetsOf(s, origin[c], seen[c])
    PROVE  ScanInv'
<1>1. /\ origin[c] \in Seq(Rules) /\ origin' = [origin EXCEPT ![c] = origin[c]]
      /\ seen[c] \in SUBSET Rules /\ seen' = [seen EXCEPT ![c] = seen[c]]
  BY DEF ScanInv, TypeOK
<1> QED
  BY <1>1, OneScanMoves

LEMMA ScanTypes ==
    ASSUME ScanInv, NEW c \in Scans
    PROVE  /\ scan[c] \in ScanRecord /\ scan[c].ctx \in Contexts
           /\ scan[c].targets \in Seq(Rules) /\ scan[c].results \in Seq(Finding)
           /\ scan[c].at \in Nat \ {0} /\ scan[c].made \in Nat
           /\ scan[c].ids \in Seq({IdOf[r] : r \in Rules}) /\ scan[c].whole \in BOOLEAN
           /\ Len(scan[c].targets) \in Nat /\ Len(scan[c].ids) \in Nat
<1>1. scan[c] \in ScanRecord
  BY DEF ScanInv, TypeOK
<1>2. /\ scan[c].ctx \in Contexts
      /\ scan[c].targets \in Seq(Rules) /\ scan[c].results \in Seq(Finding)
      /\ scan[c].at \in Nat \ {0} /\ scan[c].made \in Nat
      /\ scan[c].ids \in Seq({IdOf[r] : r \in Rules}) /\ scan[c].whole \in BOOLEAN
  BY <1>1 DEF ScanRecord
<1> QED
  BY <1>1, <1>2

LEMMA ScanParts ==
    ASSUME ScanInv, NEW c \in Scans
    PROVE  /\ ProgressOf(scan[c]) /\ TargetsOf(scan[c], origin[c], seen[c])
           /\ registry \in Seq(Rules) /\ Content \subseteq Rules
  BY DEF ScanInv, TypeOK, Content
-----------------------------------------------------------------------------
(***************************************************************************)
(* The steps.                                                              *)
(***************************************************************************)
LEMMA EvaluateAllKeeps ==
    ASSUME ScanInv, NEW c \in Scans, EvaluateAll(c)
    PROVE  ScanInv'
<1>0. PICK s : s = [scan[c] EXCEPT !.phase = "running", !.targets = registry]
  OBVIOUS
<1>1. /\ scan[c].phase = "idle" /\ scan' = [scan EXCEPT ![c] = s]
      /\ origin' = [origin EXCEPT ![c] = registry] /\ UNCHANGED <<registry, adding, seen, changes>>
  BY <1>0 DEF EvaluateAll
<1>a. scan[c] \in ScanRecord /\ registry \in Seq(Rules) /\ ProgressOf(scan[c])
  BY ScanTypes, ScanParts
<1>2. /\ s \in ScanRecord /\ s.phase = "running" /\ s.targets = registry
      /\ s.ctx = scan[c].ctx /\ s.results = scan[c].results /\ s.at = scan[c].at
      /\ s.made = scan[c].made /\ s.whole = scan[c].whole /\ s.ids = scan[c].ids
  BY <1>0, <1>a DEF ScanRecord
<1>3. s.results = <<>> /\ s.at = 1 /\ s.made = 0 /\ s.whole
  BY <1>1, <1>2, <1>a DEF ProgressOf
<1>4. s.ctx \in Contexts
  BY <1>2 DEF ScanRecord
<1>5. Collected(<<>>, registry, s.ctx, 1, 0) /\ Len(registry) \in Nat
  BY <1>4, <1>a, CollectedNothing
<1>6. \A i \in DOMAIN registry : Does[registry[i]][s.ctx].items \in Nat
  <2>1. \A i \in DOMAIN registry : registry[i] \in Rules
    BY <1>a
  <2> QED
    BY <2>1, <1>4, ItemsAreNat
<1>7. ProgressOf(s)
  BY <1>2, <1>3, <1>5, <1>6 DEF ProgressOf
<1>8. TargetsOf(s, registry, seen[c])
  BY <1>2, <1>3 DEF TargetsOf
<1>9. seen[c] \in SUBSET Rules /\ seen' = [seen EXCEPT ![c] = seen[c]]
  BY <1>1 DEF ScanInv, TypeOK
<1> QED
  BY <1>1, <1>2, <1>7, <1>8, <1>9, <1>a, OneScanMoves

LEMMA EvaluateSomeKeeps ==
    ASSUME ScanInv, NEW c \in Scans, NEW ids \in Selections, EvaluateSome(c, ids)
    PROVE  ScanInv'
<1>0. PICK s : s = [scan[c] EXCEPT !.phase = "lookup", !.ids = ids, !.whole = FALSE]
  OBVIOUS
<1>1. /\ scan[c].phase = "idle" /\ scan' = [scan EXCEPT ![c] = s]
      /\ seen' = [seen EXCEPT ![c] = Content] /\ UNCHANGED <<registry, adding, origin, changes>>
  BY <1>0 DEF EvaluateSome
<1>a. /\ scan[c] \in ScanRecord /\ Content \subseteq Rules /\ ProgressOf(scan[c])
      /\ ids \in Seq({IdOf[r] : r \in Rules})
  BY ScanTypes, ScanParts, SelectionsAssumption
<1>2. /\ s \in ScanRecord /\ s.phase = "lookup" /\ s.targets = scan[c].targets
      /\ s.ctx = scan[c].ctx /\ s.results = scan[c].results /\ s.at = scan[c].at
      /\ s.made = scan[c].made /\ s.whole = FALSE /\ s.ids = ids
  BY <1>0, <1>a DEF ScanRecord
<1>3. s.results = <<>> /\ s.at = 1 /\ s.made = 0 /\ s.targets = <<>>
  BY <1>1, <1>2, <1>a DEF ProgressOf
<1>4. Len(<<>>) = 0 /\ DOMAIN <<>> = {} /\ Len(ids) \in Nat
  BY <1>a, EmptySeq
<1>5. Collected(<<>>, <<>>, s.ctx, 1, 0)
  <2>1. s.ctx \in Contexts /\ <<>> \in Seq(Rules)
    BY <1>2 DEF ScanRecord
  <2> QED
    BY <2>1, CollectedNothing
<1>6. ProgressOf(s)
  BY <1>2, <1>3, <1>4, <1>5 DEF ProgressOf
<1>7. TargetsOf(s, origin[c], Content)
  BY <1>2, <1>3, <1>4 DEF TargetsOf
<1>8. origin[c] \in Seq(Rules) /\ origin' = [origin EXCEPT ![c] = origin[c]]
  BY <1>1 DEF ScanInv, TypeOK
<1> QED
  BY <1>1, <1>2, <1>6, <1>7, <1>8, <1>a, OneScanMoves

LEMMA LookupKeeps ==
    ASSUME ScanInv, NEW c \in Scans, Lookup(c)
    PROVE  ScanInv'
<1>0. PICK r \in Content : /\ IdOf[r] = NextId(c)
                           /\ scan' = [scan EXCEPT ![c].targets = Append(@, r)]
  BY DEF Lookup
<1>1. /\ scan[c].phase = "lookup" /\ Len(scan[c].targets) < Len(scan[c].ids)
      /\ UNCHANGED <<registry, adding, origin, seen, changes>>
  BY DEF Lookup
<1>2. PICK s : s = [scan[c] EXCEPT !.targets = Append(@, r)]
  OBVIOUS
<1> DEFINE ts == scan[c].targets
           us == Append(ts, r)
<1>a. /\ scan[c] \in ScanRecord /\ scan[c].ctx \in Contexts /\ ts \in Seq(Rules)
      /\ Len(ts) \in Nat /\ Len(scan[c].ids) \in Nat
  BY ScanTypes
<1>b. /\ ProgressOf(scan[c]) /\ TargetsOf(scan[c], origin[c], seen[c])
      /\ Content \subseteq Rules
  BY ScanParts
<1>3. /\ r \in Rules /\ r \in seen[c] /\ IdOf[r] = scan[c].ids[Len(ts) + 1]
      /\ ~scan[c].whole
  BY <1>0, <1>1, <1>b DEF NextId, TargetsOf
<1>4. /\ us \in Seq(Rules) /\ Len(us) = Len(ts) + 1 /\ us[Len(ts) + 1] = r
      /\ \A i \in 1..Len(ts) : us[i] = ts[i]
      /\ DOMAIN us = 1..(Len(ts) + 1) /\ DOMAIN ts = 1..Len(ts)
  BY <1>3, <1>a, AppendProperties
<1>5. /\ s.phase = "lookup" /\ s.targets = us
      /\ s.ctx = scan[c].ctx /\ s.results = scan[c].results /\ s.at = scan[c].at
      /\ s.made = scan[c].made /\ s.whole = scan[c].whole /\ s.ids = scan[c].ids
      /\ s \in ScanRecord
  BY <1>1, <1>2, <1>4, <1>a DEF ScanRecord
<1> HIDE DEF ts, us
<1>6. s.results = <<>> /\ s.at = 1 /\ s.made = 0
  BY <1>1, <1>5, <1>b DEF ProgressOf
<1>7. ProgressOf(s)
  <2>1. Collected(<<>>, us, s.ctx, 1, 0)
    BY <1>4, <1>5, <1>a, CollectedNothing
  <2>2. us[1] \in Rules
    BY <1>4, <1>a
  <2>3. Does[us[1]][s.ctx].items \in Nat
    BY <2>2, <1>5, <1>a, ItemsAreNat
  <2> QED
    BY <1>4, <1>5, <1>6, <1>a, <2>1, <2>3 DEF ProgressOf
<1>8. TargetsOf(s, origin[c], seen[c])
  <2>1. \A i \in 1..Len(ts) : ts[i] \in seen[c] /\ IdOf[ts[i]] = scan[c].ids[i]
    BY <1>3, <1>4, <1>b DEF TargetsOf, ts
  <2>2. \A i \in DOMAIN us : us[i] \in seen[c] /\ IdOf[us[i]] = scan[c].ids[i]
    BY <1>3, <1>4, <1>a, <2>1
  <2>3. Len(us) <= Len(scan[c].ids)
    BY <1>1, <1>4, <1>a DEF ts
  <2>4. Content \subseteq seen[c]
    BY <1>1, <1>b DEF TargetsOf
  <2> QED
    BY <1>3, <1>5, <2>2, <2>3, <2>4 DEF TargetsOf
<1>9. scan' = [scan EXCEPT ![c] = s]
  BY <1>0, <1>2
<1> QED
  BY <1>1, <1>5, <1>7, <1>8, <1>9, TargetsAreKept

\* The scan goes from one phase to another and keeps all else.
LEMMA PhaseMoves ==
    ASSUME ScanInv, NEW c \in Scans, NEW p \in {"running", "returned", "raised"},
           scan' = [scan EXCEPT ![c].phase = p],
           UNCHANGED <<registry, adding, origin, seen, changes>>,
           scan[c].phase # "idle",
           p \in {"running", "returned"} /\ ~scan[c].whole =>
               Len(scan[c].targets) = Len(scan[c].ids),
           p = "returned" => scan[c].at > Len(scan[c].targets)
    PROVE  ScanInv'
<1>0. PICK s : s = [scan[c] EXCEPT !.phase = p]
  OBVIOUS
<1>1. scan' = [scan EXCEPT ![c] = s]
  BY <1>0
<1>a. /\ scan[c] \in ScanRecord /\ scan[c].at \in Nat /\ Len(scan[c].targets) \in Nat
  BY ScanTypes
<1>b. ProgressOf(scan[c]) /\ TargetsOf(scan[c], origin[c], seen[c])
  BY ScanParts
<1>2. /\ s \in ScanRecord /\ s.phase = p /\ s.targets = scan[c].targets
      /\ s.ctx = scan[c].ctx /\ s.results = scan[c].results /\ s.at = scan[c].at
      /\ s.made = scan[c].made /\ s.whole = scan[c].whole /\ s.ids = scan[c].ids
  BY <1>0, <1>a DEF ScanRecord
<1>3. ProgressOf(s)
  <2>1. /\ p \in {"running", "returned", "raised"}
        /\ p = "returned" => scan[c].at > Len(scan[c].targets)
    OBVIOUS
  <2>2. s.phase = "returned" => s.at = Len(s.targets) + 1
    BY ONLY <1>2, <1>a, <1>b, <2>1 DEF ProgressOf
  <2> QED
    BY ONLY <1>2, <1>b, <2>1, <2>2 DEF ProgressOf
<1>4. TargetsOf(s, origin[c], seen[c])
  BY <1>2, <1>b DEF TargetsOf
<1> QED
  BY <1>1, <1>2, <1>3, <1>4, TargetsAreKept

LEMMA ProduceKeeps ==
    ASSUME ScanInv, NEW c \in Scans, Produce(c)
    PROVE  ScanInv'
<1>0. PICK f : f = [rule |-> Target(c), place |-> scan[c].at, nth |-> scan[c].made + 1]
  OBVIOUS
<1>1. PICK s : s = [scan[c] EXCEPT !.made = @ + 1, !.results = Append(@, f)]
  OBVIOUS
<1>2. /\ scan' = [scan EXCEPT ![c] = s] /\ UNCHANGED <<registry, adding, origin, seen, changes>>
      /\ scan[c].phase = "running" /\ scan[c].at \in DOMAIN scan[c].targets
      /\ scan[c].made < Does[scan[c].targets[scan[c].at]][scan[c].ctx].items
  BY <1>0, <1>1 DEF Produce, AtRule, Current, Target
<1>a. /\ scan[c] \in ScanRecord /\ scan[c].ctx \in Contexts
      /\ scan[c].targets \in Seq(Rules) /\ scan[c].results \in Seq(Finding)
      /\ scan[c].at \in Nat /\ scan[c].made \in Nat
  BY ScanTypes
<1>b. ProgressOf(scan[c]) /\ TargetsOf(scan[c], origin[c], seen[c])
  BY ScanParts
<1>3. scan[c].targets[scan[c].at] \in Rules
  BY <1>2, <1>a
<1>4. /\ f \in Finding /\ f.rule = scan[c].targets[scan[c].at] /\ f.place = scan[c].at
      /\ f.nth = scan[c].made + 1
  BY <1>0, <1>3, <1>a DEF Finding, Target
<1>5. Append(scan[c].results, f) \in Seq(Finding)
  BY <1>4, <1>a, AppendProperties
<1>6. /\ s.phase = scan[c].phase /\ s.targets = scan[c].targets
      /\ s.ctx = scan[c].ctx /\ s.results = Append(scan[c].results, f) /\ s.at = scan[c].at
      /\ s.made = scan[c].made + 1 /\ s.whole = scan[c].whole /\ s.ids = scan[c].ids
      /\ s \in ScanRecord
  <2> DEFINE n == scan[c].made + 1
             q == Append(scan[c].results, f)
  <2>1. n \in Nat /\ q \in Seq(Finding)
    BY <1>5, <1>a
  <2>2. s = [scan[c] EXCEPT !.made = n, !.results = q]
    BY <1>1, <1>a DEF ScanRecord
  <2> HIDE DEF n, q
  <2>3. /\ s.phase = scan[c].phase /\ s.targets = scan[c].targets
        /\ s.ctx = scan[c].ctx /\ s.results = q /\ s.at = scan[c].at
        /\ s.made = n /\ s.whole = scan[c].whole /\ s.ids = scan[c].ids
        /\ s \in ScanRecord
    BY <2>1, <2>2, <1>a DEF ScanRecord
  <2> QED
    BY <2>3 DEF n, q
<1>7. Collected(scan[c].results, scan[c].targets, scan[c].ctx, scan[c].at, scan[c].made)
  BY <1>b DEF ProgressOf
<1>8. Collected(s.results, s.targets, s.ctx, s.at, s.made)
  BY <1>2, <1>4, <1>6, <1>7, <1>a, CollectedMore
<1>9. Does[scan[c].targets[scan[c].at]][scan[c].ctx].items \in Nat
  BY <1>3, <1>a, ItemsAreNat
<1>10. /\ s.at <= Len(s.targets) /\ s.at # Len(s.targets) + 1
       /\ s.made <= Does[s.targets[s.at]][s.ctx].items
  <2>1. scan[c].at \in 1..Len(scan[c].targets) /\ Len(scan[c].targets) \in Nat
    BY <1>2, <1>a
  <2>2. s.at <= Len(s.targets) /\ s.at # Len(s.targets) + 1
    BY <1>6, <2>1
  <2>3. scan[c].made + 1 <= Does[scan[c].targets[scan[c].at]][scan[c].ctx].items
    <3>1. /\ scan[c].made < Does[scan[c].targets[scan[c].at]][scan[c].ctx].items
          /\ scan[c].made \in Nat
      BY <1>2, <1>a
    <3> QED
      BY ONLY <3>1, <1>9
  <2> QED
    BY <1>6, <2>2, <2>3
<1>11. ProgressOf(s)
  <2>1. s.phase = "running" /\ Len(s.targets) \in Nat /\ s.at \in Nat
    BY <1>2, <1>6, <1>a
  <2>2. s.at <= Len(s.targets) + 1
    BY <1>10, <2>1
  <2> QED
    BY <1>8, <1>10, <2>1, <2>2 DEF ProgressOf
<1>12. TargetsOf(s, origin[c], seen[c])
  BY <1>6, <1>b DEF TargetsOf
<1> QED
  BY <1>2, <1>6, <1>11, <1>12, TargetsAreKept

\* A rule has ended, or failed.
LEMMA NextRuleKeeps ==
    ASSUME ScanInv, NEW c \in Scans, RuleEnds(c) \/ RuleFails(c)
    PROVE  ScanInv'
<1>1. PICK s : s = [scan[c] EXCEPT !.at = @ + 1, !.made = 0]
  OBVIOUS
<1>2. /\ scan' = [scan EXCEPT ![c] = s] /\ UNCHANGED <<registry, adding, origin, seen, changes>>
      /\ scan[c].phase = "running" /\ scan[c].at \in DOMAIN scan[c].targets
      /\ scan[c].made = Does[scan[c].targets[scan[c].at]][scan[c].ctx].items
  BY <1>1 DEF RuleEnds, RuleFails, NextRule, AtRule, Current, Target
<1>a. /\ scan[c] \in ScanRecord /\ scan[c].ctx \in Contexts
      /\ scan[c].targets \in Seq(Rules) /\ scan[c].results \in Seq(Finding)
      /\ scan[c].at \in Nat /\ scan[c].made \in Nat
  BY ScanTypes
<1>b. ProgressOf(scan[c]) /\ TargetsOf(scan[c], origin[c], seen[c])
  BY ScanParts
<1>3. /\ s.phase = scan[c].phase /\ s.targets = scan[c].targets
      /\ s.ctx = scan[c].ctx /\ s.results = scan[c].results /\ s.at = scan[c].at + 1
      /\ s.made = 0 /\ s.whole = scan[c].whole /\ s.ids = scan[c].ids
      /\ s \in ScanRecord
  <2> DEFINE n == scan[c].at + 1
  <2>1. n \in Nat \ {0}
    BY <1>a
  <2>2. s = [scan[c] EXCEPT !.at = n, !.made = 0]
    BY <1>1, <1>a DEF ScanRecord
  <2> HIDE DEF n
  <2>3. /\ s.phase = scan[c].phase /\ s.targets = scan[c].targets
        /\ s.ctx = scan[c].ctx /\ s.results = scan[c].results /\ s.at = n
        /\ s.made = 0 /\ s.whole = scan[c].whole /\ s.ids = scan[c].ids
        /\ s \in ScanRecord
    BY <2>1, <2>2, <1>a DEF ScanRecord
  <2> QED
    BY <2>3 DEF n
<1>4. Collected(scan[c].results, scan[c].targets, scan[c].ctx, scan[c].at, scan[c].made)
  BY <1>b DEF ProgressOf
<1>5. Collected(s.results, s.targets, s.ctx, s.at, s.made)
  BY <1>2, <1>3, <1>4, <1>a, CollectedNext
<1>6. s.at <= Len(s.targets) + 1
  BY <1>2, <1>3, <1>a
<1>7. s.at \in DOMAIN s.targets => s.made <= Does[s.targets[s.at]][s.ctx].items
  <2>1. s.at \in DOMAIN s.targets => s.targets[s.at] \in Rules
    BY <1>3, <1>a
  <2>2. s.at \in DOMAIN s.targets => Does[s.targets[s.at]][s.ctx].items \in Nat
    BY <2>1, <1>3, <1>a, ItemsAreNat
  <2> QED
    BY <2>2, <1>3
<1>8. ProgressOf(s)
  BY <1>2, <1>3, <1>5, <1>6, <1>7 DEF ProgressOf
<1>9. TargetsOf(s, origin[c], seen[c])
  BY <1>3, <1>b DEF TargetsOf
<1> QED
  BY <1>2, <1>3, <1>8, <1>9, TargetsAreKept

LEMMA RegisterKeeps ==
    ASSUME ScanInv, NEW r \in Rules, Register(r)
    PROVE  ScanInv'
<1>1. /\ UNCHANGED <<registry, scan, origin, seen>> /\ adding' = adding \cup {r}
      /\ changes' = changes + 1
  BY DEF Register
<1>2. TypeOK'
  BY <1>1 DEF ScanInv, TypeOK
<1> QED
  BY <1>1, <1>2 DEF ScanInv, TargetsOf, Content

\* The dict with the rule in it, at the end or at the place of its id.
LEMMA Inserted ==
    ASSUME ScanInv, NEW r \in Rules, Insert(r)
    PROVE  /\ registry' \in Seq(Rules)
           /\ \A i, j \in DOMAIN registry' : IdOf[registry'[i]] = IdOf[registry'[j]] => i = j
           /\ Content' \subseteq Content \cup {r}
<1>1. /\ registry \in Seq(Rules) /\ Len(registry) \in Nat /\ DOMAIN registry = 1..Len(registry)
      /\ \A i \in DOMAIN registry : registry[i] \in Rules
      /\ \A i, j \in DOMAIN registry : IdOf[registry[i]] = IdOf[registry[j]] => i = j
  BY DEF ScanInv, TypeOK
<1>2. CASE Registered(IdOf[r])
  <2>1. registry' = [i \in 1..Len(registry) |->
                        IF IdOf[registry[i]] = IdOf[r] THEN r ELSE registry[i]]
    BY <1>1, <1>2 DEF Insert
  <2>2. registry' \in Seq(Rules)
    <3>1. registry' \in [1..Len(registry) -> Rules]
      BY <1>1, <2>1
    <3> QED
      BY <1>1, <3>1, IsASeq
  <2>3. DOMAIN registry' = DOMAIN registry
        /\ \A i \in DOMAIN registry : /\ registry'[i] \in {r, registry[i]}
                                       /\ IdOf[registry'[i]] = IdOf[registry[i]]
    BY <1>1, <2>1
  <2> QED
    BY <1>1, <2>2, <2>3 DEF Content
<1>3. CASE ~Registered(IdOf[r])
  <2>1. registry' = Append(registry, r) /\ \A i \in DOMAIN registry : IdOf[registry[i]] # IdOf[r]
    BY <1>3 DEF Insert, Registered
  <2>2. /\ registry' \in Seq(Rules) /\ DOMAIN registry' = 1..(Len(registry) + 1)
        /\ \A i \in 1..Len(registry) : registry'[i] = registry[i]
        /\ registry'[Len(registry) + 1] = r
    BY <1>1, <2>1, AppendProperties
  <2>3. \A i, j \in DOMAIN registry' : IdOf[registry'[i]] = IdOf[registry'[j]] => i = j
    BY <1>1, <2>1, <2>2
  <2>4. Content' \subseteq Content \cup {r}
    BY <1>1, <2>2 DEF Content
  <2> QED
    BY <2>2, <2>3, <2>4
<1> QED
  BY <1>2, <1>3

LEMMA InsertKeeps ==
    ASSUME ScanInv, NEW r \in Rules, Insert(r)
    PROVE  ScanInv'
<1>1. /\ adding' = adding \ {r} /\ UNCHANGED <<scan, origin, changes>>
      /\ seen' = [c \in Scans |-> IF scan[c].phase = "lookup" THEN seen[c] \cup {r}
                                                             ELSE seen[c]]
  BY DEF Insert
<1>4. TypeOK'
  <2>1. seen' \in [Scans -> SUBSET Rules] /\ adding' \subseteq Rules
    BY <1>1 DEF ScanInv, TypeOK
  <2> QED
    BY <1>1, <2>1, Inserted DEF ScanInv, TypeOK
<1>5. Content' \subseteq Content \cup {r}
  BY Inserted
<1>6. ASSUME NEW c \in Scans PROVE ProgressOf(scan[c])'
  BY <1>1 DEF ScanInv
<1>7. ASSUME NEW c \in Scans PROVE TargetsOf(scan[c], origin[c], seen[c])'
  <2>1. TargetsOf(scan[c], origin[c], seen[c])
    BY DEF ScanInv
  <2>2. /\ seen[c] \subseteq seen'[c] /\ scan'[c] = scan[c] /\ origin'[c] = origin[c]
        /\ scan[c].phase = "lookup" => seen'[c] = seen[c] \cup {r}
    BY <1>1
  <2> QED
    BY <2>1, <2>2, <1>5 DEF TargetsOf
<1> QED
  BY <1>4, <1>6, <1>7 DEF ScanInv

\* p is what is left of q without its element number i.
LeavesOut(p, q, i) ==
    /\ p \in Seq(Rules) /\ DOMAIN p = 1..(Len(q) - 1)
    /\ \A k \in DOMAIN p : p[k] = q[IF k < i THEN k ELSE k + 1]

LEMMA WithoutOne ==
    ASSUME NEW q \in Seq(Rules), NEW i \in DOMAIN q
    PROVE  LeavesOut(SubSeq(q, 1, i - 1) \o SubSeq(q, i + 1, Len(q)), q, i)
<1> DEFINE a == SubSeq(q, 1, i - 1)
           b == SubSeq(q, i + 1, Len(q))
           p == a \o b
<1>1. i \in Nat /\ i >= 1 /\ i <= Len(q) /\ Len(q) \in Nat /\ DOMAIN q = 1..Len(q)
  OBVIOUS
<1>2. /\ a \in Seq(Rules) /\ Len(a) = i - 1 /\ \A k \in 1..(i - 1) : a[k] = q[k]
  BY <1>1, SubSeqProperties
<1>3. /\ b \in Seq(Rules) /\ Len(b) = Len(q) - i
      /\ \A k \in 1..(Len(q) - i) : b[k] = q[i + k]
  <2>1. i + 1 \in Int /\ Len(q) \in Int /\ \A k \in (i + 1)..Len(q) : q[k] \in Rules
    BY <1>1
  <2>2. /\ b \in Seq(Rules)
        /\ Len(b) = IF i + 1 <= Len(q) THEN Len(q) - (i + 1) + 1 ELSE 0
        /\ \A k \in 1..(Len(q) - (i + 1) + 1) : b[k] = q[(i + 1) + k - 1]
    BY <2>1, SubSeqProperties
  <2>3. Len(b) = Len(q) - i
    BY <1>1, <2>2
  <2> HIDE DEF b
  <2>4. ASSUME NEW k \in 1..(Len(q) - i) PROVE b[k] = q[i + k]
    <3>1. k \in 1..(Len(q) - (i + 1) + 1) /\ (i + 1) + k - 1 = i + k
      BY <1>1
    <3> QED
      BY <2>2, <3>1
  <2> QED
    BY <2>2, <2>3, <2>4
<1> HIDE DEF a, b, p
<1>4. /\ p \in Seq(Rules) /\ Len(p) = Len(q) - 1
      /\ \A k \in 1..(Len(q) - 1) : p[k] = IF k <= i - 1 THEN a[k] ELSE b[k - (i - 1)]
  <2>1. p = a \o b
    BY DEF p
  <2>2. /\ p \in Seq(Rules) /\ Len(p) = Len(a) + Len(b)
        /\ \A k \in 1..(Len(a) + Len(b)) :
              p[k] = IF k <= Len(a) THEN a[k] ELSE b[k - Len(a)]
    <3>1. a \in Seq(Rules) /\ b \in Seq(Rules)
      BY <1>2, <1>3
    <3> QED
      BY <2>1, <3>1, ConcatProperties, Zenon
  <2>3. Len(a) = i - 1 /\ Len(a) + Len(b) = Len(q) - 1
    BY <1>1, <1>2, <1>3
  <2> QED
    BY <2>2, <2>3
<1>5. ASSUME NEW k \in 1..(Len(q) - 1) PROVE p[k] = q[IF k < i THEN k ELSE k + 1]
  <2>1. CASE k < i
    <3>1. k \in 1..(i - 1) /\ k <= i - 1
      BY <1>1, <2>1
    <3> QED
      BY <1>2, <1>4, <2>1, <3>1
  <2>2. CASE ~(k < i)
    <3>1. /\ k - (i - 1) \in 1..(Len(q) - i) /\ i + (k - (i - 1)) = k + 1
          /\ ~(k <= i - 1)
      BY <1>1, <2>2
    <3>2. p[k] = b[k - (i - 1)]
      BY <1>4, <3>1
    <3>3. b[k - (i - 1)] = q[k + 1]
      BY <1>3, <3>1
    <3> QED
      BY <2>2, <3>2, <3>3
  <2> QED
    BY <2>1, <2>2
<1>6. DOMAIN p = 1..(Len(q) - 1)
  BY <1>1, <1>4
<1> QED
  BY <1>4, <1>5, <1>6 DEF LeavesOut, a, b, p

LEMMA UnregisterKeeps ==
    ASSUME ScanInv, NEW id, Unregister(id)
    PROVE  ScanInv'
<1>1. /\ changes' = changes + 1 /\ UNCHANGED <<adding, scan, origin, seen>>
      /\ \E i \in DOMAIN registry : registry' =
            SubSeq(registry, 1, i - 1) \o SubSeq(registry, i + 1, Len(registry))
  BY DEF Unregister
<1>2. PICK i \in DOMAIN registry : registry' =
         SubSeq(registry, 1, i - 1) \o SubSeq(registry, i + 1, Len(registry))
  BY <1>1
<1>3. /\ registry \in Seq(Rules) /\ changes \in Nat
      /\ \A j, k \in DOMAIN registry : IdOf[registry[j]] = IdOf[registry[k]] => j = k
  BY DEF ScanInv, TypeOK
<1>4. /\ registry' \in Seq(Rules) /\ DOMAIN registry' = 1..(Len(registry) - 1)
      /\ \A k \in DOMAIN registry' : registry'[k] = registry[IF k < i THEN k ELSE k + 1]
  <2>1. registry \in Seq(Rules)
    BY <1>3
  <2>2. LeavesOut(registry', registry, i)
    BY <1>2, <2>1, WithoutOne
  <2> QED
    BY <2>2 DEF LeavesOut
<1>5. i \in Nat /\ DOMAIN registry = 1..Len(registry) /\ Len(registry) \in Nat
  BY <1>3
<1>6. \A j, k \in DOMAIN registry' : IdOf[registry'[j]] = IdOf[registry'[k]] => j = k
  <2> DEFINE at(k) == IF k < i THEN k ELSE k + 1
  <2>1. \A k \in DOMAIN registry' : at(k) \in DOMAIN registry /\ registry'[k] = registry[at(k)]
    BY <1>4, <1>5
  <2>2. \A j, k \in DOMAIN registry' : at(j) = at(k) => j = k
    BY <1>4, <1>5
  <2> HIDE DEF at
  <2> QED
    BY <1>3, <2>1, <2>2
<1>7. TypeOK'
  <2>1. changes' \in Nat /\ registry' \in Seq(Rules)
    BY <1>1, <1>3, <1>4
  <2> QED
    BY <1>1, <1>6, <2>1 DEF ScanInv, TypeOK
<1>8. Content' \subseteq Content
  BY <1>4, <1>5 DEF Content
<1>9. ASSUME NEW c \in Scans PROVE ProgressOf(scan[c])'
  BY <1>1 DEF ScanInv
<1>10. ASSUME NEW c \in Scans PROVE TargetsOf(scan[c], origin[c], seen[c])'
  BY <1>1, <1>8 DEF ScanInv, TargetsOf
<1> QED
  BY <1>7, <1>9, <1>10 DEF ScanInv

LEMMA ScanStep == ScanInv /\ [Next]_vars => ScanInv'
<1> SUFFICES ASSUME ScanInv, [Next]_vars PROVE ScanInv'
  OBVIOUS
<1>1. ASSUME NEW r \in Rules, Register(r) PROVE ScanInv'
  BY <1>1, RegisterKeeps
<1>2. ASSUME NEW r \in Rules, Unregister(IdOf[r]) PROVE ScanInv'
  BY <1>2, UnregisterKeeps
<1>7. ASSUME NEW r \in Rules, Insert(r) PROVE ScanInv'
  BY <1>7, InsertKeeps
<1>3. ASSUME NEW c \in Scans, Begin(c) PROVE ScanInv'
  BY <1>3, EvaluateAllKeeps, EvaluateSomeKeeps DEF Begin
<1>4. ASSUME NEW c \in Scans, Step(c) PROVE ScanInv'
  <2>0. /\ TargetsOf(scan[c], origin[c], seen[c])
        /\ Len(scan[c].targets) \in Nat /\ Len(scan[c].ids) \in Nat
    BY ScanParts, ScanTypes
  <2>1. CASE Lookup(c)
    BY <2>1, LookupKeeps
  <2>2. CASE LookupFails(c)
    BY <2>2, PhaseMoves DEF LookupFails
  <2>3. CASE LookupDone(c)
    BY <2>3, PhaseMoves DEF LookupDone
  <2>4. CASE Produce(c)
    BY <2>4, ProduceKeeps
  <2>5. CASE RuleEnds(c) \/ RuleFails(c)
    BY <2>5, NextRuleKeeps
  <2>6. CASE Return(c)
    <3>1. ~scan[c].whole => Len(scan[c].targets) = Len(scan[c].ids)
      BY <2>0, <2>6 DEF Return, TargetsOf
    <3> QED
      BY <2>6, <3>1, PhaseMoves DEF Return
  <2> QED
    BY <1>4, <2>1, <2>2, <2>3, <2>4, <2>5, <2>6 DEF Step
<1>5. ASSUME NEW c \in Scans, Interrupt(c) PROVE ScanInv'
  BY <1>5, PhaseMoves DEF Interrupt
<1>6. CASE UNCHANGED vars
  BY <1>6 DEF vars, ScanInv, TypeOK, TargetsOf, Content
<1> QED
  BY <1>1, <1>2, <1>3, <1>4, <1>5, <1>6, <1>7 DEF Next

LEMMA ScanInvariant == Spec => []ScanInv
  BY ScanInit, ScanStep, PTL DEF Spec
-----------------------------------------------------------------------------
\* Every variable keeps its type, and ids stay unique, in every scan and after
\* every change of the registry.
THEOREM EngineTypeCorrect == Spec => []TypeOK
<1>1. ScanInv => TypeOK
  BY DEF ScanInv
<1> QED
  BY <1>1, ScanInvariant, PTL

LEMMA ReturnedScans ==
    ASSUME ScanInv, NEW c \in Scans, scan[c].phase = "returned"
    PROVE  Lists(scan[c].results, scan[c].targets, scan[c].ctx)
<1>1. /\ scan[c].ctx \in Contexts /\ scan[c].targets \in Seq(Rules)
      /\ scan[c].results \in Seq(Finding)
  BY ScanTypes
<1>2. scan[c].at = Len(scan[c].targets) + 1 /\ scan[c].made = 0
      /\ Collected(scan[c].results, scan[c].targets, scan[c].ctx, scan[c].at, scan[c].made)
  BY ScanParts DEF ProgressOf
<1> QED
  BY <1>1, <1>2, CollectedAll

\* evaluate() without rule_ids answers as if it had run in the moment of its
\* call, whatever is registered meanwhile and whichever rules fail.
THEOREM WholeScansAreAtomic == Spec => []WholeScanIsAtomic
<1>1. ScanInv => WholeScanIsAtomic
  <2> SUFFICES ASSUME ScanInv, NEW c \in Scans, scan[c].phase = "returned", scan[c].whole
               PROVE  Lists(scan[c].results, origin[c], scan[c].ctx)
    BY DEF WholeScanIsAtomic
  <2>1. scan[c].targets = origin[c]
    BY ScanParts DEF TargetsOf
  <2> QED
    BY <2>1, ReturnedScans
<1> QED
  BY <1>1, ScanInvariant, PTL

\* evaluate() with rule_ids gives all findings of the rules that were asked for
\* and of no others; each was registered at some moment of the lookup.
THEOREM SelectionsAreServed == Spec => []SelectionIsServed
<1>1. ScanInv => SelectionIsServed
  <2> SUFFICES ASSUME ScanInv, NEW c \in Scans, scan[c].phase = "returned", ~scan[c].whole
               PROVE  LET ids  == {scan[c].ids[k] : k \in DOMAIN scan[c].ids}
                          got  == scan[c].results
                          all(r) == 1..Does[r][scan[c].ctx].items
                      IN  /\ \A i \in DOMAIN got : /\ got[i].rule \in seen[c]
                                                   /\ IdOf[got[i].rule] \in ids
                                                   /\ got[i].nth \in all(got[i].rule)
                          /\ \A id \in ids : \E r \in seen[c] :
                                /\ IdOf[r] = id
                                /\ \A n \in all(r) : \E i \in DOMAIN got :
                                      got[i].rule = r /\ got[i].nth = n
                          /\ \A i, j \in DOMAIN got :
                                i < j /\ got[i].place = got[j].place
                                => got[i].nth < got[j].nth
    BY DEF SelectionIsServed
  <2> DEFINE rs == scan[c].targets
             q  == scan[c].results
  <2>1. /\ Len(rs) = Len(scan[c].ids)
        /\ \A i \in DOMAIN rs : rs[i] \in seen[c] /\ IdOf[rs[i]] = scan[c].ids[i]
    BY ScanParts DEF TargetsOf
  <2>2. DOMAIN rs = DOMAIN scan[c].ids
    <3>1. rs \in Seq(Rules) /\ scan[c].ids \in Seq({IdOf[r] : r \in Rules})
      BY ScanTypes
    <3> QED
      BY <2>1, <3>1
  <2>3. Lists(q, rs, scan[c].ctx)
    BY ReturnedScans
  <2>4. \A i \in DOMAIN q : /\ q[i].place \in DOMAIN rs /\ q[i].rule = rs[q[i].place]
                            /\ q[i].nth \in 1..Does[q[i].rule][scan[c].ctx].items
    BY <2>3 DEF Lists
  <2>5. \A p \in DOMAIN rs : \A n \in 1..Does[rs[p]][scan[c].ctx].items :
           \E i \in DOMAIN q : q[i].place = p /\ q[i].nth = n
    BY <2>3 DEF Lists
  <2>6. ASSUME NEW i \in DOMAIN q, NEW j \in DOMAIN q, i < j, q[i].place = q[j].place
        PROVE  q[i].nth < q[j].nth
    <3>1. Before(q[i], q[j])
      BY <2>3, <2>6 DEF Lists
    <3>2. q[i].place \in Nat /\ q[j].place \in Nat
      BY ScanTypes, FindingsHaveNumbers
    <3> QED
      BY <2>6, <3>1, <3>2 DEF Before
  <2>7. ASSUME NEW i \in DOMAIN q
        PROVE  /\ q[i].rule \in seen[c]
               /\ IdOf[q[i].rule] \in {scan[c].ids[k] : k \in DOMAIN scan[c].ids}
    BY <2>1, <2>2, <2>4
  <2>8. ASSUME NEW k \in DOMAIN scan[c].ids
        PROVE  \E r \in seen[c] :
                  /\ IdOf[r] = scan[c].ids[k]
                  /\ \A n \in 1..Does[r][scan[c].ctx].items : \E i \in DOMAIN q :
                        q[i].rule = r /\ q[i].nth = n
    <3>1. /\ k \in DOMAIN rs /\ rs[k] \in seen[c] /\ IdOf[rs[k]] = scan[c].ids[k]
      BY <2>1, <2>2
    <3>2. ASSUME NEW n \in 1..Does[rs[k]][scan[c].ctx].items
          PROVE  \E i \in DOMAIN q : q[i].rule = rs[k] /\ q[i].nth = n
      <4>1. PICK i \in DOMAIN q : q[i].place = k /\ q[i].nth = n
        BY ONLY <2>5, <3>1, <3>2
      <4>2. q[i].rule = rs[k]
        BY ONLY <2>4, <4>1
      <4> QED
        BY <4>1, <4>2
    <3> QED
      BY <3>1, <3>2
  <2> QED
    <3>1. \A i \in DOMAIN q :
             /\ q[i].rule \in seen[c]
             /\ IdOf[q[i].rule] \in {scan[c].ids[k] : k \in DOMAIN scan[c].ids}
             /\ q[i].nth \in 1..Does[q[i].rule][scan[c].ctx].items
      BY ONLY <2>4, <2>7
    <3>2. \A id \in {scan[c].ids[k] : k \in DOMAIN scan[c].ids} : \E r \in seen[c] :
             /\ IdOf[r] = id
             /\ \A n \in 1..Does[r][scan[c].ctx].items : \E i \in DOMAIN q :
                   q[i].rule = r /\ q[i].nth = n
      BY ONLY <2>8
    <3>3. \A i, j \in DOMAIN q : i < j /\ q[i].place = q[j].place => q[i].nth < q[j].nth
      BY ONLY <2>6
    <3> QED
      BY ONLY <3>1, <3>2, <3>3
<1> QED
  BY <1>1, ScanInvariant, PTL

\* What a brute-force rule finds in a context.
LEMMA BruteForceItems ==
    ASSUME NEW r \in Rules, r \in DOMAIN Threshold, NEW x \in Contexts
    PROVE  /\ Does[r][x].items >= 1 => x.failed # None /\ Threshold[r] < x.failed
           /\ /\ x.failed # None /\ Threshold[r] < x.failed
              /\ Threshold[r] > 0 /\ x.failed <= MaxFloat * 4 * Threshold[r]
              => Does[r][x].items >= 1
<1> DEFINE t == Threshold[r]
           n == x.failed
<1>1. t \in Int /\ (n = None \/ n \in Int) /\ Does[r][x] = BruteForce(t, x)
  BY BuiltinAssumption
<1>2. CASE n = None
  BY <1>1, <1>2 DEF BruteForce, Quiet
<1>3. CASE n # None
  <2> DEFINE big == MaxFloat * 4 * t
  <2>1. big \in Int /\ n \in Int /\ t \in Int
    BY <1>1, <1>3, MaxFloatAssumption
  <2>2. BruteForce(t, x) =
            IF n <= t THEN Quiet
            ELSE IF t = 0 \/ (t < 0 /\ n > 0) THEN Raises
            ELSE IF t > 0 /\ n > big THEN Raises
            ELSE Fires
    BY <1>3 DEF BruteForce
  <2> HIDE DEF big
  <2>3. /\ Does[r][x].items >= 1 => t < n
        /\ t < n /\ t > 0 /\ n <= big => Does[r][x].items >= 1
    BY <1>1, <2>1, <2>2 DEF Quiet, Fires, Raises
  <2> QED
    BY <1>3, <2>3 DEF big
<1> QED
  BY <1>2, <1>3

\* A scan of all rules raises no false alarm of brute force, and gives every
\* alarm of a positive threshold that is exceeded by a number whose confidence
\* is a float.
THEOREM BruteForceIsReported == Spec => []BruteForceReported
<1>1. ScanInv => BruteForceReported
  <2> SUFFICES ASSUME ScanInv, NEW c \in WholeScans, NEW p \in BruteForceRules(c)
               PROVE  LET t == Threshold[origin[c][p]]
                      IN  /\ Reported(c, p) => Exceeded(c, p)
                          /\ /\ Exceeded(c, p)
                             /\ t > 0 /\ scan[c].ctx.failed <= MaxFloat * 4 * t
                             => Reported(c, p)
    BY DEF BruteForceReported
  <2>0. /\ c \in Scans /\ scan[c].phase = "returned" /\ scan[c].whole
        /\ p \in DOMAIN origin[c] /\ origin[c][p] \in DOMAIN Threshold
    BY DEF WholeScans, BruteForceRules
  <2> DEFINE r == origin[c][p]
             x == scan[c].ctx
  <2>1. Lists(scan[c].results, origin[c], x)
    <3>1. scan[c].targets = origin[c]
      BY <2>0, ScanParts DEF TargetsOf
    <3> QED
      BY <2>0, <3>1, ReturnedScans
  <2>2. r \in Rules /\ x \in Contexts
    <3>1. origin[c] \in Seq(Rules) /\ x \in Contexts
      BY <2>0, ScanTypes DEF ScanInv, TypeOK
    <3> QED
      BY <2>0, <3>1
  <2>3. Does[r][x].items \in Nat
    BY <2>2, ItemsAreNat
  <2>4. Reported(c, p) <=> Does[r][x].items >= 1
    <3>1. ASSUME NEW i \in DOMAIN scan[c].results, scan[c].results[i].place = p
          PROVE  Does[r][x].items >= 1
      <4>1. scan[c].results[i].rule = r
            /\ scan[c].results[i].nth \in 1..Does[scan[c].results[i].rule][x].items
        BY <2>1, <3>1 DEF Lists
      <4> QED
        BY <2>3, <4>1
    <3>2. ASSUME Does[r][x].items >= 1
          PROVE  \E i \in DOMAIN scan[c].results : scan[c].results[i].place = p
      <4>1. 1 \in 1..Does[r][x].items
        BY <2>3, <3>2
      <4> QED
        BY <2>0, <2>1, <4>1 DEF Lists
    <3> QED
      BY <3>1, <3>2 DEF Reported
  <2>5. Exceeded(c, p) <=> x.failed # None /\ Threshold[r] < x.failed
    BY DEF Exceeded
  <2> HIDE DEF r, x
  <2>6. /\ Does[r][x].items >= 1 => x.failed # None /\ Threshold[r] < x.failed
        /\ /\ x.failed # None /\ Threshold[r] < x.failed
           /\ Threshold[r] > 0 /\ x.failed <= MaxFloat * 4 * Threshold[r]
           => Does[r][x].items >= 1
    BY <2>0, <2>2, BruteForceItems DEF r
  <2> QED
    BY <2>4, <2>5, <2>6 DEF r, x
<1> QED
  BY <1>1, ScanInvariant, PTL
=============================================================================
