--------------------------- MODULE Templates_proofs ---------------------------
(***************************************************************************)
(* Proofs about Templates, for any versions, contents, edits and any       *)
(* number of threads.                                                      *)
(***************************************************************************)
EXTENDS Templates, FiniteSetTheorems, TLAPS

\* What is on disk was written, and so was what is cached or about to be.
OnDisk  == \A v \in Versions : disk[v] # None => <<v, disk[v]>> \in written
Cached  == \A v \in Versions : cache[v] # None => <<v, cache[v]>> \in written
Loading ==
    \A c \in Callers :
        /\ call[c].phase \in {"lookup", "loading"} => call[c].version \in Versions
        /\ call[c].phase = "loading" => /\ call[c].read # None
                                        /\ <<call[c].version, call[c].read>> \in written

\* v is the last of the versions in one of the listings.
NewestIn(v, seen) ==
    \E present \in seen : v \in present /\ \A w \in present : ~SortsBefore(v, w)

\* A caller that lists sees what is on disk; one that has listed has its version
\* from a moment of its call.
Listed ==
    \A c \in Callers :
        /\ call[c].phase = "listing" => Present \in listings[c]
        /\ call[c].latest /\ call[c].phase \in {"lookup", "loading", "returned"} =>
              NewestIn(call[c].version, listings[c])

TemplateInv ==
    TypeOK /\ OnDisk /\ Cached /\ Loading /\ Listed /\ ServedWasWritten
-----------------------------------------------------------------------------
LEMMA TemplateInit == Init => TemplateInv
<1> SUFFICES ASSUME Init PROVE TemplateInv
  OBVIOUS
<1>1. TypeOK
  BY MalformedAssumption, InitiallyAssumption DEF Init, TypeOK, Present, Version
<1>2. OnDisk /\ Cached /\ Loading /\ Listed /\ ServedWasWritten
  BY DEF Init, OnDisk, Cached, Loading, Listed, ServedWasWritten, Present
<1> QED
  BY <1>1, <1>2 DEF TemplateInv

\* An edit only adds to what was written and to what was listed.
LEMMA EditKeeps ==
    ASSUME TemplateInv, NEW v \in Versions, NEW x \in Contents \cup {None}, Edit(v, x)
    PROVE  TemplateInv'
<1> USE DEF TemplateInv
<1>1. /\ disk' = [disk EXCEPT ![v] = x] /\ edits' = edits + 1
      /\ UNCHANGED <<cache, call, served>>
      /\ written' = IF x = None THEN written ELSE written \cup {<<v, x>>}
  BY DEF Edit
<1>2. /\ disk' \in [Versions -> Contents \cup {None}]
      /\ \A w \in Versions : disk'[w] = IF w = v THEN x ELSE disk[w]
  BY <1>1 DEF TypeOK
<1>3. /\ listings' \in [Callers -> SUBSET SUBSET Versions]
      /\ \A c \in Callers :
            /\ listings[c] \subseteq listings'[c]
            /\ call[c].phase = "listing" => Present' \in listings'[c]
  <2>1. \A c \in Callers :
           listings'[c] = IF call[c].phase \in {"listing", "lookup", "loading"}
                          THEN listings[c] \cup {Present'} ELSE listings[c]
    BY DEF Edit, Present
  <2>2. Present' \subseteq Versions
    BY DEF Present
  <2>3. listings' \in [Callers -> SUBSET SUBSET Versions]
    <3>1. \A c \in Callers : listings'[c] \in SUBSET SUBSET Versions
      <4> TAKE c \in Callers
      <4>1. listings[c] \in SUBSET SUBSET Versions /\ Present' \in SUBSET Versions
        BY <2>2 DEF TypeOK
      <4> QED
        BY <2>1, <4>1
    <3>2. listings' = [c \in Callers |-> listings'[c]]
      BY DEF Edit
    <3> QED
      BY <3>1, <3>2
  <2> QED
    BY <2>1, <2>3
<1>4. written \subseteq written' /\ written' \subseteq Versions \X Contents
  BY <1>1 DEF TypeOK
<1>5. TypeOK'
  BY <1>1, <1>2, <1>3, <1>4 DEF TypeOK
<1>6. OnDisk'
  BY <1>1, <1>2, <1>4 DEF OnDisk
<1>7. Cached' /\ Loading' /\ ServedWasWritten'
  BY <1>1, <1>4 DEF Cached, Loading, ServedWasWritten
<1>8. Listed'
  <2> SUFFICES ASSUME NEW c \in Callers
               PROVE  /\ call[c].phase = "listing" => Present' \in listings'[c]
                      /\ call[c].latest /\ call[c].phase \in {"lookup", "loading", "returned"}
                            => NewestIn(call[c].version, listings'[c])
    BY <1>1 DEF Listed
  <2> QED
    BY <1>3 DEF Listed, NewestIn
<1> QED
  BY <1>5, <1>6, <1>7, <1>8

\* What the invariant asks of one caller's state k with the listings it has seen.
CallFits(k, seen) ==
    /\ k \in [phase : {"idle", "listing", "lookup", "loading", "returned", "raised"},
              latest : BOOLEAN, version : Version,
              read : (Contents \ Malformed) \cup {None}]
    /\ seen \in SUBSET SUBSET Versions
    /\ k.phase \in {"lookup", "loading"} => k.version \in Versions
    /\ k.phase = "loading" => k.read # None /\ <<k.version, k.read>> \in written
    /\ k.phase = "listing" => Present \in seen
    /\ k.latest /\ k.phase \in {"lookup", "loading", "returned"} =>
          NewestIn(k.version, seen)

\* A step of one caller that keeps disk, cache and history.
LEMMA CallMoves ==
    ASSUME TemplateInv, NEW c \in Callers, NEW k,
           call' = [call EXCEPT ![c] = k], UNCHANGED <<disk, edits, written>>,
           NEW seen, CallFits(k, seen), listings' = [listings EXCEPT ![c] = seen],
           cache' \in [Versions -> (Contents \ Malformed) \cup {None}],
           \A v \in Versions : cache'[v] # None => <<v, cache'[v]>> \in written,
           served' \subseteq Versions \X (Contents \ Malformed), served' \subseteq written
    PROVE  TemplateInv'
<1> USE DEF TemplateInv, CallFits
<1>1. /\ call'[c] = k /\ listings'[c] = seen
      /\ \A d \in Callers \ {c} : call'[d] = call[d] /\ listings'[d] = listings[d]
  BY DEF TypeOK
<1>2. TypeOK'
  BY DEF TypeOK
<1>3. OnDisk' /\ Cached' /\ ServedWasWritten'
  BY DEF OnDisk, Cached, ServedWasWritten
<1>4. Loading'
  BY <1>1 DEF Loading
<1>5. Present' = Present
  BY DEF Present
<1>6. Listed'
  <2> SUFFICES ASSUME NEW d \in Callers
               PROVE  /\ call'[d].phase = "listing" => Present \in listings'[d]
                      /\ call'[d].latest /\ call'[d].phase \in {"lookup", "loading", "returned"}
                            => NewestIn(call'[d].version, listings'[d])
    BY <1>5 DEF Listed, NewestIn
  <2> QED
    BY <1>1 DEF Listed
<1> QED
  BY <1>2, <1>3, <1>4, <1>6

LEMMA CallTypes ==
    ASSUME TemplateInv, NEW c \in Callers
    PROVE  /\ call[c] \in
                 [phase : {"idle", "listing", "lookup", "loading", "returned", "raised"},
                  latest : BOOLEAN, version : Version,
                  read : (Contents \ Malformed) \cup {None}]
           /\ listings[c] \in SUBSET SUBSET Versions
           /\ listings = [listings EXCEPT ![c] = listings[c]]
  BY DEF TemplateInv, TypeOK
-----------------------------------------------------------------------------
LEMMA GetKeeps ==
    ASSUME TemplateInv, NEW c \in Callers, NEW v \in Versions, Get(c, v)
    PROVE  TemplateInv'
<1>1. PICK k : k = [phase |-> "lookup", latest |-> FALSE, version |-> v, read |-> None]
  OBVIOUS
<1>2. /\ call' = [call EXCEPT ![c] = k]
      /\ UNCHANGED <<disk, cache, edits, written, listings, served>>
  BY <1>1 DEF Get
<1>3. /\ k \in [phase : {"idle", "listing", "lookup", "loading", "returned", "raised"},
                latest : BOOLEAN, version : Version,
                read : (Contents \ Malformed) \cup {None}]
      /\ k.phase = "lookup" /\ ~k.latest /\ k.version = v
  BY <1>1 DEF Version
<1>4. /\ listings[c] \in SUBSET SUBSET Versions
      /\ listings' = [listings EXCEPT ![c] = listings[c]]
  BY <1>2, CallTypes
<1>5. /\ cache' \in [Versions -> (Contents \ Malformed) \cup {None}]
      /\ \A w \in Versions : cache'[w] # None => <<w, cache'[w]>> \in written
      /\ served' \subseteq Versions \X (Contents \ Malformed) /\ served' \subseteq written
  BY <1>2 DEF TemplateInv, TypeOK, Cached, ServedWasWritten
<1>6. CallFits(k, listings[c])
  BY <1>3, <1>4 DEF CallFits
<1> QED
  BY <1>2, <1>4, <1>5, <1>6, CallMoves

LEMMA GetLatestKeeps ==
    ASSUME TemplateInv, NEW c \in Callers, GetLatest(c)
    PROVE  TemplateInv'
<1>1. PICK k : k = [phase |-> "listing", latest |-> TRUE, version |-> None, read |-> None]
  OBVIOUS
<1>2. /\ call' = [call EXCEPT ![c] = k] /\ listings' = [listings EXCEPT ![c] = {Present}]
      /\ UNCHANGED <<disk, cache, edits, written, served>>
  BY <1>1 DEF GetLatest
<1>3. /\ k \in [phase : {"idle", "listing", "lookup", "loading", "returned", "raised"},
                latest : BOOLEAN, version : Version,
                read : (Contents \ Malformed) \cup {None}]
      /\ k.phase = "listing"
  BY <1>1 DEF Version
<1>4. {Present} \in SUBSET SUBSET Versions
  BY DEF Present
<1>5. /\ cache' \in [Versions -> (Contents \ Malformed) \cup {None}]
      /\ \A w \in Versions : cache'[w] # None => <<w, cache'[w]>> \in written
      /\ served' \subseteq Versions \X (Contents \ Malformed) /\ served' \subseteq written
  BY <1>2 DEF TemplateInv, TypeOK, Cached, ServedWasWritten
<1>6. CallFits(k, {Present})
  BY <1>3, <1>4 DEF CallFits
<1> QED
  BY <1>2, <1>5, <1>6, CallMoves

\* The call goes to another phase, with what it had, and serves nothing new.
LEMMA PhaseMoves ==
    ASSUME TemplateInv, NEW c \in Callers, NEW p \in {"lookup", "raised"},
           NEW v \in Version, call' = [call EXCEPT ![c].phase = p, ![c].version = v],
           p = "lookup" =>
               v \in Versions /\ (call[c].latest => NewestIn(v, listings[c])),
           UNCHANGED <<disk, cache, edits, written, listings, served>>
    PROVE  TemplateInv'
<1>1. PICK k : k = [call[c] EXCEPT !.phase = p, !.version = v]
  OBVIOUS
<1>2. call' = [call EXCEPT ![c] = k]
  BY <1>1
<1>3. /\ k \in [phase : {"idle", "listing", "lookup", "loading", "returned", "raised"},
                latest : BOOLEAN, version : Version,
                read : (Contents \ Malformed) \cup {None}]
      /\ k.phase = p /\ k.version = v /\ k.latest = call[c].latest
  BY <1>1, CallTypes
<1>4. /\ listings[c] \in SUBSET SUBSET Versions
      /\ listings' = [listings EXCEPT ![c] = listings[c]]
  BY CallTypes
<1>5. /\ cache' \in [Versions -> (Contents \ Malformed) \cup {None}]
      /\ \A w \in Versions : cache'[w] # None => <<w, cache'[w]>> \in written
      /\ served' \subseteq Versions \X (Contents \ Malformed) /\ served' \subseteq written
  BY DEF TemplateInv, TypeOK, Cached, ServedWasWritten
<1>6. CallFits(k, listings[c])
  BY <1>3, <1>4 DEF CallFits
<1> QED
  BY <1>2, <1>4, <1>5, <1>6, CallMoves

LEMMA ListKeeps ==
    ASSUME TemplateInv, NEW c \in Callers, List(c)
    PROVE  TemplateInv'
<1>1. PICK v \in Versions :
         /\ Pick(c, v)
         /\ call' = [call EXCEPT ![c].phase = "lookup", ![c].version = v]
  BY DEF List
<1>2. NewestIn(v, listings[c])
  <2>1. Present \in listings[c]
    BY DEF List, TemplateInv, Listed
  <2> QED
    BY <1>1, <2>1 DEF Pick, NewestIn
<1> QED
  BY <1>1, <1>2, PhaseMoves DEF List, Version

LEMMA RaiseKeeps ==
    ASSUME TemplateInv, NEW c \in Callers, ListFails(c) \/ LoadFails(c)
    PROVE  TemplateInv'
<1>1. /\ call' = [call EXCEPT ![c].phase = "raised"]
      /\ UNCHANGED <<disk, cache, edits, written, listings, served>>
  BY DEF ListFails, LoadFails
<1>2. /\ call[c].version \in Version
      /\ call' = [call EXCEPT ![c].phase = "raised", ![c].version = call[c].version]
  BY <1>1, CallTypes
<1> QED
  BY <1>1, <1>2, PhaseMoves

LEMMA ReturnCachedKeeps ==
    ASSUME TemplateInv, NEW c \in Callers, ReturnCached(c)
    PROVE  TemplateInv'
<1>1. PICK k : k = [call[c] EXCEPT !.phase = "returned"]
  OBVIOUS
<1>2. /\ call' = [call EXCEPT ![c] = k] /\ call[c].phase = "lookup"
      /\ served' = served \cup {<<call[c].version, cache[call[c].version]>>}
      /\ UNCHANGED <<disk, cache, edits, written, listings>>
      /\ cache[call[c].version] # None
  BY <1>1 DEF ReturnCached, Missing
<1>3. /\ k \in [phase : {"idle", "listing", "lookup", "loading", "returned", "raised"},
                latest : BOOLEAN, version : Version,
                read : (Contents \ Malformed) \cup {None}]
      /\ k.phase = "returned" /\ k.version = call[c].version /\ k.latest = call[c].latest
  BY <1>1, CallTypes
<1>4. /\ listings[c] \in SUBSET SUBSET Versions
      /\ listings' = [listings EXCEPT ![c] = listings[c]]
  BY <1>2, CallTypes
<1>5. call[c].version \in Versions
  BY <1>2 DEF TemplateInv, Loading
<1>6. /\ cache' \in [Versions -> (Contents \ Malformed) \cup {None}]
      /\ \A w \in Versions : cache'[w] # None => <<w, cache'[w]>> \in written
  BY <1>2 DEF TemplateInv, TypeOK, Cached
<1>7. served' \subseteq Versions \X (Contents \ Malformed) /\ served' \subseteq written
  <2>1. /\ cache[call[c].version] \in Contents \ Malformed
        /\ <<call[c].version, cache[call[c].version]>> \in written
    BY <1>2, <1>5 DEF TemplateInv, TypeOK, Cached
  <2> QED
    BY <1>2, <1>5, <2>1 DEF TemplateInv, TypeOK, ServedWasWritten
<1>8. k.latest => NewestIn(k.version, listings[c])
  BY <1>2, <1>3 DEF TemplateInv, Listed
<1>9. CallFits(k, listings[c])
  BY <1>3, <1>4, <1>8 DEF CallFits
<1> QED
  BY <1>2, <1>4, <1>6, <1>7, <1>9, CallMoves

LEMMA LoadKeeps ==
    ASSUME TemplateInv, NEW c \in Callers, Load(c)
    PROVE  TemplateInv'
<1> DEFINE x == disk[call[c].version]
<1>1. PICK k : k = [call[c] EXCEPT !.phase = "loading", !.read = x]
  OBVIOUS
<1>2. /\ call' = [call EXCEPT ![c] = k] /\ call[c].phase = "lookup"
      /\ x \notin Malformed \cup {None}
      /\ UNCHANGED <<disk, cache, edits, written, listings, served>>
  BY <1>1 DEF Load
<1>3. call[c].version \in Versions
  BY <1>2 DEF TemplateInv, Loading
<1>4. x \in Contents \ Malformed /\ x # None /\ <<call[c].version, x>> \in written
  BY <1>2, <1>3 DEF TemplateInv, TypeOK, OnDisk
<1> HIDE DEF x
<1>5. /\ k \in [phase : {"idle", "listing", "lookup", "loading", "returned", "raised"},
                latest : BOOLEAN, version : Version,
                read : (Contents \ Malformed) \cup {None}]
      /\ k.phase = "loading" /\ k.version = call[c].version /\ k.latest = call[c].latest
      /\ k.read = x
  BY <1>1, <1>4, CallTypes
<1>6. /\ listings[c] \in SUBSET SUBSET Versions
      /\ listings' = [listings EXCEPT ![c] = listings[c]]
  BY <1>2, CallTypes
<1>7. /\ cache' \in [Versions -> (Contents \ Malformed) \cup {None}]
      /\ \A w \in Versions : cache'[w] # None => <<w, cache'[w]>> \in written
      /\ served' \subseteq Versions \X (Contents \ Malformed) /\ served' \subseteq written
  BY <1>2 DEF TemplateInv, TypeOK, Cached, ServedWasWritten
<1>8. k.latest => NewestIn(k.version, listings[c])
  BY <1>2, <1>5 DEF TemplateInv, Listed
<1>9. CallFits(k, listings[c])
  BY <1>3, <1>4, <1>5, <1>6, <1>8 DEF CallFits
<1> QED
  BY <1>2, <1>6, <1>7, <1>9, CallMoves

LEMMA StoreKeeps ==
    ASSUME TemplateInv, NEW c \in Callers, Store(c)
    PROVE  TemplateInv'
<1>1. PICK k : k = [call[c] EXCEPT !.phase = "lookup", !.read = None]
  OBVIOUS
<1>2. /\ call' = [call EXCEPT ![c] = k] /\ call[c].phase = "loading"
      /\ cache' = [cache EXCEPT ![call[c].version] = call[c].read]
      /\ UNCHANGED <<disk, edits, written, listings, served>>
  BY <1>1 DEF Store
<1>3. /\ k \in [phase : {"idle", "listing", "lookup", "loading", "returned", "raised"},
                latest : BOOLEAN, version : Version,
                read : (Contents \ Malformed) \cup {None}]
      /\ k.phase = "lookup" /\ k.version = call[c].version /\ k.latest = call[c].latest
  BY <1>1, CallTypes
<1>4. /\ listings[c] \in SUBSET SUBSET Versions
      /\ listings' = [listings EXCEPT ![c] = listings[c]]
      /\ call[c].read \in (Contents \ Malformed) \cup {None}
  BY <1>2, CallTypes
<1>5. /\ call[c].version \in Versions
      /\ <<call[c].version, call[c].read>> \in written
  BY <1>2 DEF TemplateInv, Loading
<1>6. /\ cache' \in [Versions -> (Contents \ Malformed) \cup {None}]
      /\ \A w \in Versions : cache'[w] # None => <<w, cache'[w]>> \in written
  BY <1>2, <1>4, <1>5 DEF TemplateInv, TypeOK, Cached
<1>7. served' \subseteq Versions \X (Contents \ Malformed) /\ served' \subseteq written
  BY <1>2 DEF TemplateInv, TypeOK, ServedWasWritten
<1>8. k.latest => NewestIn(k.version, listings[c])
  BY <1>2, <1>3 DEF TemplateInv, Listed
<1>9. CallFits(k, listings[c])
  BY <1>3, <1>4, <1>5, <1>8 DEF CallFits
<1> QED
  BY <1>2, <1>4, <1>6, <1>7, <1>9, CallMoves

LEMMA TemplateStep == TemplateInv /\ [Next]_vars => TemplateInv'
<1> SUFFICES ASSUME TemplateInv, [Next]_vars PROVE TemplateInv'
  OBVIOUS
<1>1. ASSUME NEW v \in Versions, NEW x \in Contents \cup {None}, Edit(v, x)
      PROVE  TemplateInv'
  BY <1>1, EditKeeps
<1>2. ASSUME NEW c \in Callers, Step(c) PROVE TemplateInv'
  BY <1>2, ListKeeps, RaiseKeeps, ReturnCachedKeeps, LoadKeeps, StoreKeeps DEF Step
<1>3. ASSUME NEW c \in Callers, GetLatest(c) PROVE TemplateInv'
  BY <1>3, GetLatestKeeps
<1>4. ASSUME NEW c \in Callers, NEW v \in Versions, Get(c, v) PROVE TemplateInv'
  BY <1>4, GetKeeps
<1>5. CASE UNCHANGED vars
  BY <1>5 DEF vars, TemplateInv, TypeOK, OnDisk, Cached, Loading, Listed, NewestIn,
              ServedWasWritten, Present
<1> QED
  BY <1>1, <1>2, <1>3, <1>4, <1>5 DEF Next

LEMMA TemplateInvariant == Spec => []TemplateInv
  BY TemplateInit, TemplateStep, PTL DEF Spec
-----------------------------------------------------------------------------
\* Every variable keeps its type, and nothing malformed is ever cached or served.
THEOREM TemplatesTypeCorrect == Spec => []TypeOK
<1>1. TemplateInv => TypeOK
  BY DEF TemplateInv
<1> QED
  BY <1>1, TemplateInvariant, PTL

\* What get() returns was the content of that version's file at one moment,
\* however often files are edited and however many threads load them.
THEOREM TemplatesWereWritten == Spec => []ServedWasWritten
<1>1. TemplateInv => ServedWasWritten
  BY DEF TemplateInv
<1> QED
  BY <1>1, TemplateInvariant, PTL

\* get(name) gives what was the last version at one moment of the call.
THEOREM LatestIsTheLatest == Spec => []LatestIsFresh
<1>1. TemplateInv => LatestIsFresh
  BY DEF TemplateInv, Listed, NewestIn, LatestIsFresh
<1> QED
  BY <1>1, TemplateInvariant, PTL
-----------------------------------------------------------------------------
\* What a version was served with or would be, and who is loading it.
Given(v) ==
    {x \in Contents : <<v, x>> \in served} \cup ({cache[v]} \ {None})
LoadersOf(v) ==
    {c \in Callers : call[c].phase = "loading" /\ call[c].version = v}

\* Each loader may still bring one content; nobody starts to load a version that
\* is cached, and one that is not was never served.
Few(v) ==
    /\ IsFiniteSet(Given(v))
    /\ cache[v] = None => Given(v) = {}
    /\ Cardinality(Given(v)) + Cardinality(LoadersOf(v)) <= Cardinality(Callers)

FewInv == TemplateInv /\ \A v \in Versions : Few(v)

\* There are no more loaders than callers.
LEMMA Loaders ==
    ASSUME NEW v
    PROVE  /\ IsFiniteSet(LoadersOf(v)) /\ Cardinality(LoadersOf(v)) \in Nat
           /\ Cardinality(LoadersOf(v)) <= Cardinality(Callers)
           /\ Cardinality(Callers) \in Nat
<1>1. LoadersOf(v) \in SUBSET Callers
  BY DEF LoadersOf
<1> QED
  BY <1>1, CallersAssumption, FS_Subset, FS_CardinalityType

\* Nothing is cached or served at first.
LEMMA FewInit == Init => FewInv
<1> SUFFICES ASSUME Init, NEW v \in Versions PROVE Few(v)
  BY TemplateInit DEF FewInv
<1>1. Given(v) = {}
  BY DEF Init, Given
<1> QED
  BY <1>1, FS_EmptySet, Loaders DEF Few

\* Fewer loaders, and no content more.
LEMMA StaysFew ==
    ASSUME NEW v, Few(v), Given(v)' \subseteq Given(v),
           LoadersOf(v)' \subseteq LoadersOf(v), cache'[v] = None => cache[v] = None
    PROVE  Few(v)'
<1> PICK more, fewer : more = Given(v) /\ fewer = Given(v)'
  OBVIOUS
<1> PICK all, some : all = LoadersOf(v) /\ some = LoadersOf(v)'
  OBVIOUS
<1>1. IsFiniteSet(more) /\ IsFiniteSet(all) /\ Cardinality(all) \in Nat
  BY Loaders DEF Few
<1>2. /\ IsFiniteSet(fewer) /\ Cardinality(fewer) <= Cardinality(more)
      /\ IsFiniteSet(some) /\ Cardinality(some) <= Cardinality(all)
  BY <1>1, FS_Subset
<1>3. /\ Cardinality(more) \in Nat /\ Cardinality(fewer) \in Nat
      /\ Cardinality(some) \in Nat /\ Cardinality(Callers) \in Nat
  BY <1>1, <1>2, FS_CardinalityType, Loaders
<1>4. Cardinality(fewer) + Cardinality(some) <= Cardinality(Callers)
  BY <1>1, <1>2, <1>3 DEF Few
<1>5. cache'[v] = None => fewer = {}
  BY DEF Few
<1> QED
  BY <1>2, <1>4, <1>5 DEF Few

\* A version that is not cached gets one more loader.
LEMMA LoadFew ==
    ASSUME NEW v, Few(v), Given(v)' = Given(v), cache'[v] = None, cache[v] = None
    PROVE  Few(v)'
<1>1. Given(v)' = {}
  BY DEF Few
<1>2. Cardinality(LoadersOf(v)') \in Nat /\ Cardinality(LoadersOf(v)') <= Cardinality(Callers)
  <2>1. LoadersOf(v)' \in SUBSET Callers
    BY DEF LoadersOf
  <2> QED
    BY <2>1, CallersAssumption, FS_Subset, FS_CardinalityType
<1> QED
  BY <1>1, <1>2, FS_EmptySet DEF Few

\* A loader stores what it read, and is a loader no more.
LEMMA StoreFew ==
    ASSUME NEW v, Few(v), NEW x, Given(v)' \subseteq Given(v) \cup {x}, cache'[v] # None,
           NEW c \in LoadersOf(v), LoadersOf(v)' \subseteq LoadersOf(v) \ {c}
    PROVE  Few(v)'
<1> PICK old, new : old = Given(v) /\ new = Given(v)'
  OBVIOUS
<1> PICK all, some : all = LoadersOf(v) /\ some = LoadersOf(v)'
  OBVIOUS
<1>1. /\ IsFiniteSet(old) /\ IsFiniteSet(all) /\ Cardinality(old) \in Nat
      /\ Cardinality(all) \in Nat /\ Cardinality(Callers) \in Nat
  BY Loaders, FS_CardinalityType DEF Few
<1>2. /\ IsFiniteSet(old \cup {x}) /\ Cardinality(old \cup {x}) <= Cardinality(old) + 1
      /\ IsFiniteSet(all \ {c}) /\ Cardinality(all \ {c}) = Cardinality(all) - 1
      /\ Cardinality(old \cup {x}) \in Nat
  <2>1. c \in all
    OBVIOUS
  <2>2. IsFiniteSet(all \ {c}) /\ Cardinality(all \ {c}) = Cardinality(all) - 1
    BY <1>1, <2>1, FS_RemoveElement
  <2>3. /\ IsFiniteSet(old \cup {x})
        /\ Cardinality(old \cup {x}) = IF x \in old THEN Cardinality(old)
                                       ELSE Cardinality(old) + 1
    BY <1>1, FS_AddElement
  <2> QED
    BY <1>1, <2>2, <2>3
<1>3. /\ IsFiniteSet(new) /\ Cardinality(new) <= Cardinality(old \cup {x})
      /\ IsFiniteSet(some) /\ Cardinality(some) <= Cardinality(all \ {c})
  BY <1>2, FS_Subset
<1>4. Cardinality(new) \in Nat /\ Cardinality(some) \in Nat
  BY <1>3, FS_CardinalityType
<1>5. Cardinality(old) + Cardinality(all) <= Cardinality(Callers)
  BY DEF Few
<1>6. Cardinality(new) + Cardinality(some) <= Cardinality(Callers)
  BY <1>1, <1>2, <1>3, <1>4, <1>5
<1> QED
  BY <1>3, <1>6 DEF Few

\* Every step keeps the count.
LEMMA FewStep == FewInv /\ [Next]_vars => FewInv'
<1> SUFFICES ASSUME FewInv, [Next]_vars, NEW v \in Versions PROVE Few(v)'
  BY TemplateStep DEF FewInv
<1>1. /\ TypeOK /\ Loading /\ Few(v)
      /\ \A c \in Callers : call[c] \in
            [phase : {"idle", "listing", "lookup", "loading", "returned", "raised"},
             latest : BOOLEAN, version : Version,
             read : (Contents \ Malformed) \cup {None}]
  BY DEF FewInv, TemplateInv, TypeOK
<1>2. ASSUME UNCHANGED <<cache, served>>, LoadersOf(v)' \subseteq LoadersOf(v) PROVE Few(v)'
  <2>1. Given(v)' = Given(v)
    BY <1>2 DEF Given
  <2> QED
    BY <1>1, <1>2, <2>1, StaysFew
<1>3. ASSUME NEW c \in Callers, NEW k, call' = [call EXCEPT ![c] = k], k.phase # "loading"
      PROVE  LoadersOf(v)' \subseteq LoadersOf(v) \ {c}
  <2>1. \A d \in Callers : call'[d] = IF d = c THEN k ELSE call[d]
    BY <1>3 DEF TypeOK, FewInv, TemplateInv
  <2> QED
    BY <1>3, <2>1 DEF LoadersOf
<1>4. ASSUME NEW w \in Versions, NEW x \in Contents \cup {None}, Edit(w, x)
      PROVE  Few(v)'
  BY <1>2, <1>4 DEF Edit, LoadersOf
<1>5. ASSUME NEW c \in Callers, GetLatest(c) \/ \E w \in Versions : Get(c, w)
      PROVE  Few(v)'
  <2>1. PICK k : call' = [call EXCEPT ![c] = k] /\ k.phase # "loading"
    <3>1. CASE GetLatest(c)
      <4>1. PICK k : k = [phase |-> "listing", latest |-> TRUE, version |-> None,
                          read |-> None]
        OBVIOUS
      <4>2. call' = [call EXCEPT ![c] = k]
        BY <3>1, <4>1 DEF GetLatest
      <4>3. k.phase # "loading"
        BY <4>1
      <4> QED
        BY <4>2, <4>3
    <3>2. ASSUME NEW w \in Versions, Get(c, w)
          PROVE  \E k : call' = [call EXCEPT ![c] = k] /\ k.phase # "loading"
      <4>1. PICK k : k = [phase |-> "lookup", latest |-> FALSE, version |-> w,
                          read |-> None]
        OBVIOUS
      <4>2. call' = [call EXCEPT ![c] = k]
        BY <3>2, <4>1 DEF Get
      <4>3. k.phase # "loading"
        BY <4>1
      <4> QED
        BY <4>2, <4>3
    <3> QED
      BY <1>5, <3>1, <3>2
  <2>2. UNCHANGED <<cache, served>>
    BY <1>5 DEF GetLatest, Get
  <2> QED
    BY <1>2, <1>3, <2>1, <2>2
<1>6. ASSUME NEW c \in Callers, List(c) \/ ListFails(c) \/ LoadFails(c)
      PROVE  Few(v)'
  <2> DEFINE Moved == \E k : call' = [call EXCEPT ![c] = k] /\ k.phase # "loading"
  <2>1. ASSUME List(c) PROVE Moved
    <3>1. PICK w : call' = [call EXCEPT ![c].phase = "lookup", ![c].version = w]
      BY <2>1 DEF List
    <3>2. PICK k : k = [call[c] EXCEPT !.phase = "lookup", !.version = w]
      OBVIOUS
    <3>3. call' = [call EXCEPT ![c] = k] /\ k.phase # "loading"
      BY <1>1, <3>1, <3>2
    <3> QED
      BY <3>3
  <2>2. ASSUME ListFails(c) \/ LoadFails(c) PROVE Moved
    <3>1. call' = [call EXCEPT ![c].phase = "raised"]
      BY <2>2 DEF ListFails, LoadFails
    <3>2. PICK k : k = [call[c] EXCEPT !.phase = "raised"]
      OBVIOUS
    <3>3. call' = [call EXCEPT ![c] = k] /\ k.phase # "loading"
      BY <1>1, <3>1, <3>2
    <3> QED
      BY <3>3
  <2>3. PICK k : call' = [call EXCEPT ![c] = k] /\ k.phase # "loading"
    BY <1>6, <2>1, <2>2
  <2>4. UNCHANGED <<cache, served>>
    BY <1>6 DEF List, ListFails, LoadFails
  <2> QED
    BY <1>2, <1>3, <2>3, <2>4
<1>7. ASSUME NEW c \in Callers, ReturnCached(c) PROVE Few(v)'
  <2>1. PICK k : k = [call[c] EXCEPT !.phase = "returned"]
    OBVIOUS
  <2>2. call' = [call EXCEPT ![c] = k] /\ k.phase # "loading"
    BY <1>1, <1>7, <2>1 DEF ReturnCached
  <2>3. /\ cache' = cache /\ cache[call[c].version] # None
        /\ served' = served \cup {<<call[c].version, cache[call[c].version]>>}
    BY <1>7 DEF ReturnCached, Missing
  <2>4. Given(v)' \subseteq Given(v)
    BY <2>3 DEF Given
  <2>5. LoadersOf(v)' \subseteq LoadersOf(v)
    BY <1>3, <2>2
  <2> QED
    BY <1>1, <2>3, <2>4, <2>5, StaysFew
<1>8. ASSUME NEW c \in Callers, Load(c) PROVE Few(v)'
  <2>1. UNCHANGED <<cache, served>> /\ cache[call[c].version] = None
    BY <1>8 DEF Load, Missing
  <2>2. CASE call[c].version = v
    <3>1. Given(v)' = Given(v)
      BY <2>1 DEF Given
    <3> QED
      BY <1>1, <2>1, <2>2, <3>1, LoadFew
  <2>3. CASE call[c].version # v
    <3>1. \A d \in Callers : call'[d].phase = "loading" /\ call'[d].version = v =>
                                call[d].phase = "loading" /\ call[d].version = v
      BY <1>1, <1>8, <2>3 DEF Load, TypeOK
    <3>2. LoadersOf(v)' \subseteq LoadersOf(v)
      BY <3>1 DEF LoadersOf
    <3> QED
      BY <1>2, <2>1, <3>2
  <2> QED
    BY <2>2, <2>3
<1>9. ASSUME NEW c \in Callers, Store(c) PROVE Few(v)'
  <2>1. PICK k : k = [call[c] EXCEPT !.phase = "lookup", !.read = None]
    OBVIOUS
  <2>2. call' = [call EXCEPT ![c] = k] /\ k.phase # "loading"
    BY <1>1, <1>9, <2>1 DEF Store
  <2>3. /\ call[c].phase = "loading" /\ served' = served
        /\ cache' = [cache EXCEPT ![call[c].version] = call[c].read]
    BY <1>9 DEF Store
  <2>4. LoadersOf(v)' \subseteq LoadersOf(v) \ {c}
    BY <1>3, <2>2
  <2>5. CASE call[c].version = v
    <3>1. cache'[v] = call[c].read /\ call[c].read # None
      BY <1>1, <2>3, <2>5 DEF TypeOK, Loading
    <3>2. Given(v)' \subseteq Given(v) \cup {call[c].read}
      BY <2>3, <3>1 DEF Given
    <3>3. c \in LoadersOf(v)
      BY <2>3, <2>5 DEF LoadersOf
    <3> QED
      BY <1>1, <2>4, <3>1, <3>2, <3>3, StoreFew
  <2>6. CASE call[c].version # v
    <3>1. cache'[v] = cache[v]
      BY <1>1, <2>3, <2>6 DEF TypeOK
    <3>2. Given(v)' \subseteq Given(v)
      BY <2>3, <3>1 DEF Given
    <3>3. LoadersOf(v)' \subseteq LoadersOf(v)
      BY <2>4
    <3> QED
      BY <1>1, <3>1, <3>2, <3>3, StaysFew
  <2> QED
    BY <2>5, <2>6
<1>10. CASE UNCHANGED vars
  BY <1>2, <1>10 DEF vars, LoadersOf
<1> QED
  BY <1>4, <1>5, <1>6, <1>7, <1>8, <1>9, <1>10 DEF Next, Step

\* One version is served with at most as many contents as there are threads: only
\* those that loaded it before the first of them stored it can still replace it.
THEOREM TemplatesAreFew == Spec => []ContentsAreFew
<1>1. FewInv => ContentsAreFew
  <2> SUFFICES ASSUME FewInv, NEW v \in Versions
               PROVE  Cardinality({x \in Contents : <<v, x>> \in served}) <=
                          Cardinality(Callers)
    BY DEF ContentsAreFew
  <2> DEFINE few == {x \in Contents : <<v, x>> \in served}
  <2>1. IsFiniteSet(Given(v)) /\ few \in SUBSET Given(v)
        /\ Cardinality(Given(v)) + Cardinality(LoadersOf(v)) <= Cardinality(Callers)
    BY DEF FewInv, Few, Given
  <2> HIDE DEF few
  <2>2. /\ IsFiniteSet(few) /\ Cardinality(few) <= Cardinality(Given(v))
        /\ Cardinality(few) \in Nat /\ Cardinality(Given(v)) \in Nat
    BY <2>1, FS_Subset, FS_CardinalityType
  <2>3. Cardinality(few) <= Cardinality(Callers)
    BY <2>1, <2>2, Loaders
  <2> QED
    BY <2>3 DEF few
<1>2. Spec => []FewInv
  BY FewInit, FewStep, PTL DEF Spec
<1> QED
  BY <1>1, <1>2, PTL
=============================================================================
