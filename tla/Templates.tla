------------------------------ MODULE Templates ------------------------------
(***************************************************************************)
(* TemplateRegistry (templates.py) over a directory that operators edit    *)
(* while it is used: versions are added, rolled back and rewritten "without *)
(* a redeploy".  Templates of different names share nothing, so the module *)
(* has one name; a version is the stem of its file, a sequence of          *)
(* characters.  Callers may be threads that share the registry.            *)
(***************************************************************************)
EXTENDS Naturals, Sequences, FiniteSets

CONSTANTS Versions,   \* file stems
          Contents,   \* what a file may hold
          Malformed,  \* the contents that _load cannot use: no YAML, no mapping,
                      \* no `user`, or half of a file that is being written
          None,
          Callers,
          Initially,  \* the directory when the registry is made
          MaxEdits    \* bound: how often the directory is edited

ASSUME MalformedAssumption == Malformed \subseteq Contents /\ None \notin Contents
ASSUME VersionsAssumption  == Versions \subseteq Seq(Nat)
ASSUME InitiallyAssumption == Initially \in [Versions -> Contents \cup {None}]
ASSUME CallersAssumption   == IsFiniteSet(Callers)

VARIABLES disk,     \* the directory: content or None for each version
          cache,    \* _cache
          call,     \* each caller's get()
          edits,    \* how often the directory was edited
          written,  \* history: every <<version, content>> that was on disk
          listings, \* history: what was on disk at the moments of a call
          served    \* history: every <<version, content>> that a get() returned

vars == <<disk, cache, call, edits, written, listings, served>>

Present == {v \in Versions : disk[v] # None}

\* The order of Python strings.
SortsBefore(a, b) ==
    \E k \in 0..Len(a) :
        /\ k < Len(b) /\ SubSeq(a, 1, k) = SubSeq(b, 1, k)
        /\ k = Len(a) \/ (k < Len(a) /\ a[k + 1] < b[k + 1])
-----------------------------------------------------------------------------
\* An operator writes, rewrites or deletes a file.
Edit(v, x) ==
    /\ edits < MaxEdits /\ edits' = edits + 1
    /\ disk[v] # x /\ disk' = [disk EXCEPT ![v] = x]
    /\ written' = IF x = None THEN written ELSE written \cup {<<v, x>>}
    /\ listings' = [c \in Callers |->
           IF call[c].phase \in {"listing", "lookup", "loading"}
           THEN listings[c] \cup {{w \in Versions : disk'[w] # None}}
           ELSE listings[c]]
    /\ UNCHANGED <<cache, call, served>>

\* get(name, version) and get(name).
Get(c, v) ==
    /\ call[c].phase \in {"idle", "returned", "raised"}
    /\ call' = [call EXCEPT ![c] = [phase |-> "lookup", latest |-> FALSE, version |-> v,
                                    read |-> None]]
    /\ UNCHANGED <<disk, cache, edits, written, listings, served>>

GetLatest(c) ==
    /\ call[c].phase \in {"idle", "returned", "raised"}
    /\ call' = [call EXCEPT ![c] = [phase |-> "listing", latest |-> TRUE, version |-> None,
                                    read |-> None]]
    /\ listings' = [listings EXCEPT ![c] = {Present}]
    /\ UNCHANGED <<disk, cache, edits, written, served>>

\* Mutant: "latest" is the newest version that is loaded, if one is.
PickLoaded(c, v) ==
    LET loaded == {w \in Versions : cache[w] # None}
        known  == IF loaded = {} THEN Present ELSE loaded
    IN  v \in known /\ \A w \in known : ~SortsBefore(v, w)

\* `sorted(p.stem for p in d.glob("*.yml"))[-1]`
Pick(c, v) == v \in Present /\ \A w \in Present : ~SortsBefore(v, w)

\* _latest_version
List(c) ==
    /\ call[c].phase = "listing"
    /\ \E v \in Versions :
          /\ Pick(c, v)
          /\ call' = [call EXCEPT ![c].phase = "lookup", ![c].version = v]
    /\ UNCHANGED <<disk, cache, edits, written, listings, served>>

\* FileNotFoundError: no directory, or no file in it.
ListFails(c) ==
    /\ call[c].phase = "listing" /\ Present = {}
    /\ call' = [call EXCEPT ![c].phase = "raised"]
    /\ UNCHANGED <<disk, cache, edits, written, listings, served>>

\* `if key not in self._cache`
Missing(c) == cache[call[c].version] = None

\* The cached template is returned, never read again.
ReturnCached(c) ==
    /\ call[c].phase = "lookup" /\ ~Missing(c)
    /\ call' = [call EXCEPT ![c].phase = "returned"]
    /\ served' = served \cup {<<call[c].version, cache[call[c].version]>>}
    /\ UNCHANGED <<disk, cache, edits, written, listings>>

\* Mutants: a file is taken as it is; the newest file is read, whatever was
\* asked for.
LoadUnchecked(c) ==
    /\ call[c].phase = "lookup" /\ Missing(c) /\ disk[call[c].version] # None
    /\ call' = [call EXCEPT ![c].phase = "loading", ![c].read = disk[call[c].version]]
    /\ UNCHANGED <<disk, cache, edits, written, listings, served>>
LoadNewest(c) ==
    /\ call[c].phase = "lookup" /\ Missing(c)
    /\ \E v \in Versions :
          /\ Pick(c, v) /\ disk[v] \notin Malformed
          /\ call' = [call EXCEPT ![c].phase = "loading", ![c].read = disk[v]]
    /\ UNCHANGED <<disk, cache, edits, written, listings, served>>

\* _load reads the file, which may have changed since it was listed.
Load(c) ==
    /\ call[c].phase = "lookup" /\ Missing(c)
    /\ disk[call[c].version] \notin Malformed \cup {None}
    /\ call' = [call EXCEPT ![c].phase = "loading", ![c].read = disk[call[c].version]]
    /\ UNCHANGED <<disk, cache, edits, written, listings, served>>

\* _load raises before the cache is touched.
LoadFails(c) ==
    /\ call[c].phase = "lookup" /\ Missing(c)
    /\ disk[call[c].version] \in Malformed \cup {None}
    /\ call' = [call EXCEPT ![c].phase = "raised"]
    /\ UNCHANGED <<disk, cache, edits, written, listings, served>>

\* Mutant: what was read is returned and not kept.
StoreNothing(c) ==
    /\ call[c].phase = "loading"
    /\ call' = [call EXCEPT ![c].phase = "returned"]
    /\ served' = served \cup {<<call[c].version, call[c].read>>}
    /\ UNCHANGED <<cache, disk, edits, written, listings>>

\* The template goes to the cache, even if another thread was faster, and is
\* looked up there once more.
Store(c) ==
    /\ call[c].phase = "loading"
    /\ cache' = [cache EXCEPT ![call[c].version] = call[c].read]
    /\ call' = [call EXCEPT ![c].phase = "lookup", ![c].read = None]
    /\ UNCHANGED <<disk, edits, written, listings, served>>
-----------------------------------------------------------------------------
Init ==
    /\ disk = Initially
    /\ cache = [v \in Versions |-> None]
    /\ call = [c \in Callers |-> [phase |-> "idle", latest |-> FALSE, version |-> None,
                                  read |-> None]]
    /\ edits = 0
    /\ written = {<<v, disk[v]>> : v \in Present}
    /\ listings = [c \in Callers |-> {}]
    /\ served = {}

\* What get() does once it is called.
Step(c) ==
    \/ List(c) \/ ListFails(c)
    \/ ReturnCached(c) \/ Load(c) \/ LoadFails(c) \/ Store(c)

Next ==
    \/ \E v \in Versions, x \in Contents \cup {None} : Edit(v, x)
    \/ \E c \in Callers : Step(c) \/ GetLatest(c) \/ \E v \in Versions : Get(c, v)

Spec == Init /\ [][Next]_vars
-----------------------------------------------------------------------------
Version == Versions \cup {None}

\* Every variable keeps its type, and nothing malformed is cached.
TypeOK ==
    /\ disk \in [Versions -> Contents \cup {None}]
    /\ cache \in [Versions -> (Contents \ Malformed) \cup {None}]
    /\ call \in [Callers ->
          [phase : {"idle", "listing", "lookup", "loading", "returned", "raised"},
           latest : BOOLEAN, version : Version,
           read : (Contents \ Malformed) \cup {None}]]
    /\ edits \in Nat
    /\ written \subseteq Versions \X Contents
    /\ listings \in [Callers -> SUBSET SUBSET Versions]
    /\ served \subseteq Versions \X (Contents \ Malformed)

\* What get() returns was the whole content of that version's file at one
\* moment -- never another version's, never a mixture -- although the file may
\* have changed between the listing and the read.
ServedWasWritten == served \subseteq written

\* get(name) gives the last version, in the order of strings, of those on disk
\* at one moment of the call: a version that is rolled back before the call is
\* not served by it, even if it is cached, and a new one is, without a restart.
LatestIsFresh ==
    \A c \in Callers :
        (call[c].phase = "returned" /\ call[c].latest) =>
            \E present \in listings[c] :
                /\ call[c].version \in present
                /\ \A w \in present : ~SortsBefore(call[c].version, w)

\* The cache does not reload: however often a file is rewritten, one version is
\* served with at most as many contents as there are threads, one if there is
\* one thread.
ContentsAreFew ==
    \A v \in Versions :
        Cardinality({x \in Contents : <<v, x>> \in served}) <= Cardinality(Callers)
=============================================================================
