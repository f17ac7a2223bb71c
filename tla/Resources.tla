------------------------------- MODULE Resources -------------------------------
(***************************************************************************)
(* The resources of an app and the pointers its systems get into them      *)
(* (resources/mod.rs, resources/fetch.rs, app/mod.rs, app/plugin.rs): a    *)
(* system's arguments point into the boxes of the store, fetched when it   *)
(* starts or taken from the cache that cache_inputs filled earlier.        *)
(*                                                                         *)
(* The runs are those of OrderedRun, which the executors implement.  The   *)
(* store and the schedule are only changed between runs: run() of the      *)
(* multithreaded executor returns early, but systems.get_mut and the       *)
(* resource pointers of its tasks need both to stay where they are until   *)
(* full_sync.  A box never gets the name of an earlier one: a pointer to a *)
(* freed box is wrong whatever is allocated there next.                    *)
(***************************************************************************)
EXTENDS OrderedRun, Sequences, FiniteSets

CONSTANTS
    Types,     \* the resource types, by TypeId
    Args,      \* SystemEntry.ptrs: Args[s] is a sequence of [access, type]
    MaxBoxes,  \* bound on the number of boxes ever allocated
    MaxRuns    \* bound on the number of runs

None == 0      \* no box: the type is absent

\* OwnershipType
Ref == "ref"
Mut == "mut"

ASSUME ArgsAssumption == Args \in [Systems -> Seq([access : {Ref, Mut}, type : Types])]
ASSUME AfterAssumption == After \in [Systems -> SUBSET Systems]

VARIABLES
    store,     \* ResourceHandler.internal: store[t] is the box of type t
    boxes,     \* history: boxes[b] is the type that box b was allocated for
    added,     \* the systems of the schedule
    cache,     \* SystemEntry.cache: cache[s] is a sequence of boxes, <<>> for None
    holds,     \* holds[s]: the pointers the last call of s got
    failed,    \* history: the tasks that panicked on a missing resource
    touched    \* history: the types inserted or removed since the last
               \* cache_inputs that returned

storeVars == <<store, boxes, touched>>
resourceVars == <<orderedVars, storeVars, added, cache, holds, failed>>

ResourcesInit ==
    /\ OrderedInit
    /\ store = [t \in Types |-> None]
    /\ boxes = <<>>
    /\ touched = {}
    /\ added = {}
    /\ cache = [s \in Systems |-> <<>>]
    /\ holds = [s \in Systems |-> <<>>]
    /\ failed = {}

\* Nothing runs: the app is called only when a run has been synced.
Idle == finished = Systems \X (1..runs)

-----------------------------------------------------------------------------
(* The store *)

\* A resource is moved into a new box; the one of its type, if any, is freed.
Insert(t) ==
    /\ Len(boxes) < MaxBoxes
    /\ boxes' = Append(boxes, t)
    /\ store' = [store EXCEPT ![t] = Len(boxes) + 1]
    /\ touched' = touched \cup {t}

\* add_resource; add_plugins and install, which insert the plugin itself.
AddResource ==
    /\ Idle
    /\ \E t \in Types : Insert(t)
    /\ UNCHANGED <<orderedVars, added, cache, holds, failed>>

\* run_owned takes its resource out before it passes the app on, and panics
\* if there is none; the handler's own remove returns it.
Remove(t) ==
    /\ store[t] # None
    /\ store' = [store EXCEPT ![t] = None]
    /\ touched' = touched \cup {t}
    /\ UNCHANGED boxes

RunOwned ==
    /\ Idle
    /\ \E t \in Types : Remove(t)
    /\ UNCHANGED <<orderedVars, added, cache, holds, failed>>

-----------------------------------------------------------------------------
(* Fetching arguments *)

\* fetch_args_unchecked finds every type there ...
Present(s) == \A i \in DOMAIN Args[s] : store[Args[s][i].type] # None

\* ... and points at its box.
FetchArgs(s) == [i \in DOMAIN Args[s] |-> store[Args[s][i].type]]

\* Pointers a system can be called with: one per argument, each cast to its type.
PointsInto(s, pointers) ==
    /\ pointers \in [DOMAIN Args[s] -> DOMAIN boxes]
    /\ \A i \in DOMAIN Args[s] : boxes[pointers[i]] = Args[s][i].type

\* The duplicates check of fetch_args, within one system.
Disjoint(s) == \A i, j \in DOMAIN Args[s] : i # j => Args[s][i].type # Args[s][j].type

\* Two systems that share a type, one of them to write it.
Conflict(s, u) ==
    \E i \in DOMAIN Args[s], j \in DOMAIN Args[u] :
        /\ Args[s][i].type = Args[u][j].type
        /\ Mut \in {Args[s][i].access, Args[u][j].access}

\* cache_pointers fills the entries in key order.
CachedUpTo(done) == cache' = [s \in Systems |-> IF s \in done THEN FetchArgs(s) ELSE cache[s]]

\* Mutant of the operator below: entries that have a cache keep it.
CacheInputs_Once ==
    /\ Idle
    /\ \A s \in added : Present(s)
    /\ cache' = [s \in Systems |-> IF s \in added /\ cache[s] = <<>> THEN FetchArgs(s) ELSE cache[s]]
    /\ touched' = {}
    /\ UNCHANGED <<orderedVars, store, boxes, added, holds, failed>>

\* cache_inputs returns: every entry is cached anew.
CacheInputs ==
    /\ Idle
    /\ \A s \in added : Present(s)
    /\ CachedUpTo(added)
    /\ touched' = {}
    /\ UNCHANGED <<orderedVars, store, boxes, added, holds, failed>>

\* cache_inputs panics at the first entry that names an absent type; those
\* before it have been cached.
CacheInputsPanics ==
    /\ Idle
    /\ \E s \in added :
          /\ ~Present(s)
          /\ \A r \in added : r < s => Present(r)
          /\ CachedUpTo({r \in added : r < s})
    /\ UNCHANGED <<orderedVars, storeVars, added, holds, failed>>

-----------------------------------------------------------------------------
(* The schedule *)

\* add_systems: the entries S get the next keys, and have no cache.
AddSystems(S) ==
    /\ Idle
    /\ \A s \in S : \A r \in Systems \ (added \cup S) : s < r
    /\ added' = added \cup S
    /\ UNCHANGED <<orderedVars, storeVars, cache, holds, failed>>

\* add_schedule with the label of one that exists replaces it.
AddSchedule ==
    /\ Idle
    /\ added' = {}
    /\ cache' = [s \in Systems |-> <<>>]
    /\ UNCHANGED <<orderedVars, storeVars, holds, failed>>

-----------------------------------------------------------------------------
(* Runs *)

Run ==
    /\ runs < MaxRuns
    /\ added = Systems
    /\ Begin
    /\ UNCHANGED <<storeVars, added, cache, holds, failed>>

\* Mutant of the operator below: a missing type is not noticed.
StartSystem_Unchecked(s, k) ==
    /\ Start(s, k)
    /\ holds' = [holds EXCEPT ![s] = IF cache[s] # <<>> THEN cache[s] ELSE FetchArgs(s)]
    /\ UNCHANGED <<storeVars, added, cache, failed>>

\* A system is called with its cached arguments, or with fetched ones.
StartSystem(s, k) ==
    /\ Start(s, k)
    /\ cache[s] # <<>> \/ Present(s)
    /\ holds' = [holds EXCEPT ![s] = IF cache[s] # <<>> THEN cache[s] ELSE FetchArgs(s)]
    /\ UNCHANGED <<storeVars, added, cache, failed>>

\* Fetching panics on a missing type: the system is never called, and the
\* run never ends.
StartPanics(s, k) ==
    /\ Start(s, k)
    /\ cache[s] = <<>> /\ ~Present(s)
    /\ failed' = failed \cup {<<s, k>>}
    /\ UNCHANGED <<storeVars, added, cache, holds>>

SystemReturns(s, k) ==
    /\ Finish(s, k)
    /\ <<s, k>> \notin failed
    /\ UNCHANGED <<storeVars, added, cache, holds, failed>>

ResourcesNext ==
    \/ AddResource \/ RunOwned
    \/ CacheInputs \/ CacheInputsPanics
    \/ (\E S \in SUBSET (Systems \ added) : S # {} /\ AddSystems(S)) \/ AddSchedule
    \/ Run
    \/ \E s \in Systems, k \in 1..runs : StartSystem(s, k) \/ StartPanics(s, k) \/ SystemReturns(s, k)

ResourcesSpec == ResourcesInit /\ [][ResourcesNext]_resourceVars
-----------------------------------------------------------------------------
\* The systems that have been called and have not returned.
InProgress == {s \in Systems : <<s, runs>> \in started \ (finished \cup failed)}

(* Type correctness: whatever is replaced or removed, a pointer points at a *)
(* box of the type the system asked for, so it may be cast to it.           *)
ResourcesTypeOK ==
    /\ boxes \in Seq(Types)
    /\ store \in [Types -> 0..Len(boxes)]
    /\ touched \subseteq Types /\ added \subseteq Systems
    /\ failed \subseteq started \ finished
    /\ \A t \in Types : store[t] # None => boxes[store[t]] = t
    /\ \A s \in Systems : cache[s] # <<>> => PointsInto(s, cache[s])
    /\ \A s \in InProgress : PointsInto(s, holds[s])

(* A system in progress points at the boxes that are in the store now,      *)
(* unless their types have been inserted or removed since the last          *)
(* cache_inputs that returned: "the cache works well if that resource isnt  *)
(* deleted or replaced", "if not, you have to rebuild the entire cache"     *)
(* (single.rs:54-55), and rebuilding it is enough.                          *)
ArgumentsLive ==
    \A s \in InProgress : \A i \in DOMAIN Args[s] :
        Args[s][i].type \notin touched => holds[s][i] = store[Args[s][i].type]

(* No two arguments of the systems in progress are references to one box,   *)
(* one of them mutable: where the plan puts the systems that conflict in    *)
(* .order(), "Writer systems" have the "exclusive access" they require      *)
(* (tests/basic_quick_0.rs:68), though nothing in the code checks it.       *)
Exclusive ==
    \A s, u \in InProgress : \A i \in DOMAIN Args[s], j \in DOMAIN Args[u] :
        /\ <<s, i>> # <<u, j>>
        /\ holds[s][i] = holds[u][j]
        => Args[s][i].access = Ref /\ Args[u][j].access = Ref
=============================================================================
