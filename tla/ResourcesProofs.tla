---------------------------- MODULE ResourcesProofs ----------------------------
(***************************************************************************)
(* Proofs about Resources, for any resource types, arguments and schedule. *)
(***************************************************************************)
EXTENDS Resources, TLAPS

-----------------------------------------------------------------------------
(* Why it holds: runs do not overlap, so one that is under way keeps the   *)
(* app, and with it the store, from changing; and a cached pointer only    *)
(* goes stale by a change that `touched` remembers.                        *)

\* What OrderedRun keeps: all runs but the last are over, and a system that
\* has started follows everything before it.
OrderInv ==
    /\ runs \in Nat
    /\ started \subseteq Systems \X (1..runs)
    /\ finished \subseteq started
    /\ failed \subseteq started \ finished
    /\ \A s \in Systems : \A k \in 1..runs : k # runs => <<s, k>> \in finished
    /\ \A s \in Systems : \A k \in 1..runs :
          <<s, k>> \in started => \A p \in After[s] : <<p, k>> \in finished

\* Pointers that are good unless something has been touched.
Fresh(s, pointers) ==
    \A i \in DOMAIN Args[s] :
        Args[s][i].type \notin touched => pointers[i] = store[Args[s][i].type]

StoreInv ==
    /\ boxes \in Seq(Types)
    /\ store \in [Types -> 0..Len(boxes)]
    /\ touched \subseteq Types
    /\ \A t \in Types : store[t] # None => boxes[store[t]] = t

CacheInv ==
    /\ added \subseteq Systems
    /\ cache \in [Systems -> Seq(Nat)]
    /\ \A s \in Systems : cache[s] # <<>> => PointsInto(s, cache[s]) /\ Fresh(s, cache[s])
    /\ \A s \in Systems \ added : cache[s] = <<>>

HoldsInv ==
    /\ holds \in [Systems -> Seq(Nat)]
    /\ \A s \in InProgress : PointsInto(s, holds[s]) /\ Fresh(s, holds[s])

ResourcesInv == OrderInv /\ StoreInv /\ CacheInv /\ HoldsInv

-----------------------------------------------------------------------------
\* While a system is in progress, the app is not called.
LEMMA InProgressNotIdle ==
    ASSUME OrderInv, Idle
    PROVE  InProgress = {}
BY DEF OrderInv, Idle, InProgress

\* A new box leaves the pointers to the others what they are.
LEMMA PointsIntoGrows ==
    ASSUME NEW s \in Systems, NEW pointers, boxes \in Seq(Types),
           NEW t \in Types, boxes' = Append(boxes, t), PointsInto(s, pointers)
    PROVE  PointsInto(s, pointers)'
<1>1. DOMAIN boxes' = 1..Len(boxes) + 1 /\ DOMAIN boxes = 1..Len(boxes)
  OBVIOUS
<1>2. \A b \in DOMAIN boxes : boxes'[b] = boxes[b]
  OBVIOUS
<1> QED
  BY <1>1, <1>2 DEF PointsInto

LEMMA ArgType ==
    ASSUME NEW s \in Systems, NEW i \in DOMAIN Args[s]
    PROVE  Args[s][i].type \in Types /\ Args[s][i].access \in {Ref, Mut}
<1> DEFINE Arg == [access : {Ref, Mut}, type : Types]
<1>1. Args[s] \in Seq(Arg)
  BY ArgsAssumption
<1>2. Args[s][i] \in Arg
  <2> HIDE DEF Arg
  <2> QED
    BY <1>1
<1> QED
  BY <1>2

\* Fetching finds pointers to the boxes that are in the store.
LEMMA FetchGood ==
    ASSUME NEW s \in Systems, StoreInv, Present(s)
    PROVE  /\ FetchArgs(s) \in Seq(Nat)
           /\ PointsInto(s, FetchArgs(s))
           /\ Fresh(s, FetchArgs(s))
           /\ \A i \in DOMAIN Args[s] : FetchArgs(s)[i] = store[Args[s][i].type]
<1>1. Args[s] \in Seq([access : {Ref, Mut}, type : Types])
  BY ArgsAssumption
<1>2. \A i \in DOMAIN Args[s] : Args[s][i].type \in Types
  BY ArgType
<1>3. \A i \in DOMAIN Args[s] : FetchArgs(s)[i] = store[Args[s][i].type]
  BY DEF FetchArgs
<1>4. \A i \in DOMAIN Args[s] : /\ store[Args[s][i].type] \in 1..Len(boxes)
                                /\ boxes[store[Args[s][i].type]] = Args[s][i].type
  BY <1>2 DEF StoreInv, Present, None
<1>5. DOMAIN Args[s] = 1..Len(Args[s]) /\ Len(Args[s]) \in Nat /\ DOMAIN boxes = 1..Len(boxes)
  BY <1>1 DEF StoreInv
<1>6. FetchArgs(s) \in [DOMAIN Args[s] -> DOMAIN boxes]
  BY <1>4, <1>5 DEF FetchArgs
<1>7. FetchArgs(s) \in Seq(Nat)
  BY <1>4, <1>5 DEF FetchArgs, StoreInv
<1> QED
  BY <1>3, <1>4, <1>6, <1>7 DEF PointsInto, Fresh

LEMMA ResourcesInitOK == ResourcesInit => ResourcesInv
<1> SUFFICES ASSUME ResourcesInit PROVE ResourcesInv
  OBVIOUS
<1> USE DEF ResourcesInit, OrderedInit
<1>1. OrderInv
  BY DEF OrderInv
<1>2. StoreInv
  BY DEF StoreInv, None
<1>3. CacheInv
  BY DEF CacheInv
<1>4. HoldsInv
  BY DEF HoldsInv, InProgress
<1> QED
  BY <1>1, <1>2, <1>3, <1>4 DEF ResourcesInv

-----------------------------------------------------------------------------
(* One lemma per kind of step. *)

\* Calls of the app: nothing runs, before or after.
LEMMA IdleStep ==
    ASSUME ResourcesInv, Idle, UNCHANGED <<orderedVars, holds, failed>>
    PROVE  OrderInv' /\ HoldsInv'
<1>1. OrderInv'
  BY DEF ResourcesInv, OrderInv, orderedVars
<1>2. Idle'
  BY DEF Idle, orderedVars
<1>3. InProgress' = {}
  BY <1>1, <1>2 DEF OrderInv, Idle, InProgress
<1>4. HoldsInv'
  BY <1>3 DEF ResourcesInv, HoldsInv
<1> QED
  BY <1>1, <1>4

LEMMA InsertStep == ResourcesInv /\ AddResource => ResourcesInv'
<1> SUFFICES ASSUME ResourcesInv, AddResource PROVE ResourcesInv'
  OBVIOUS
<1>1. OrderInv' /\ HoldsInv'
  BY IdleStep DEF AddResource
<1>2. PICK t \in Types : Insert(t)
  BY DEF AddResource
<1>3. StoreInv /\ CacheInv
  BY DEF ResourcesInv
<1>4. boxes' = Append(boxes, t) /\ boxes \in Seq(Types)
  BY <1>2, <1>3 DEF Insert, StoreInv
<1>5. /\ boxes' \in Seq(Types)
      /\ Len(boxes') = Len(boxes) + 1 /\ Len(boxes) \in Nat
      /\ boxes'[Len(boxes) + 1] = t
      /\ \A b \in 1..Len(boxes) : boxes'[b] = boxes[b]
  BY <1>4
<1>6. /\ store' \in [Types -> 0..Len(boxes')]
      /\ store'[t] = Len(boxes) + 1
      /\ \A u \in Types \ {t} : store'[u] = store[u]
  BY <1>2, <1>3, <1>5 DEF Insert, StoreInv
<1>7. touched' = touched \cup {t} /\ added' = added /\ cache' = cache
  BY <1>2 DEF Insert, AddResource
<1>8. StoreInv'
  <2>1. ASSUME NEW u \in Types, store'[u] # None PROVE boxes'[store'[u]] = u
    <3>1. CASE u = t
      BY <3>1, <1>5, <1>6
    <3>2. CASE u # t
      <4>1. store'[u] = store[u] /\ store[u] \in 0..Len(boxes) /\ store[u] # 0
        BY <3>2, <2>1, <1>3, <1>6 DEF StoreInv, None
      <4>2. boxes[store[u]] = u
        BY <4>1, <1>3 DEF StoreInv, None
      <4> QED
        BY <4>1, <4>2, <1>5
    <3> QED
      BY <3>1, <3>2
  <2> QED
    BY <2>1, <1>3, <1>5, <1>6, <1>7 DEF StoreInv
<1>9. ASSUME NEW s \in Systems, cache'[s] # <<>>
      PROVE  PointsInto(s, cache[s])' /\ Fresh(s, cache[s])'
  <2>1. PointsInto(s, cache[s]) /\ Fresh(s, cache[s])
    BY <1>3, <1>7, <1>9 DEF CacheInv
  <2>2. PointsInto(s, cache[s])'
    BY <2>1, <1>4, <1>7, PointsIntoGrows DEF PointsInto
  <2>3. ASSUME NEW i \in DOMAIN Args[s], Args[s][i].type \notin touched'
        PROVE  cache[s][i] = store'[Args[s][i].type]
    <3>1. Args[s][i].type \in Types
      BY ArgType
    <3> QED
      BY <3>1, <2>1, <2>3, <1>6, <1>7 DEF Fresh
  <2> QED
    BY <2>2, <2>3, <1>7 DEF Fresh
<1>10. CacheInv'
  BY <1>3, <1>7, <1>9 DEF CacheInv
<1> QED
  BY <1>1, <1>8, <1>10 DEF ResourcesInv

LEMMA RemoveStep == ResourcesInv /\ RunOwned => ResourcesInv'
<1> SUFFICES ASSUME ResourcesInv, RunOwned PROVE ResourcesInv'
  OBVIOUS
<1>1. OrderInv' /\ HoldsInv'
  BY IdleStep DEF RunOwned
<1>2. PICK t \in Types : Remove(t)
  BY DEF RunOwned
<1>3. StoreInv /\ CacheInv
  BY DEF ResourcesInv
<1>4. /\ boxes' = boxes /\ touched' = touched \cup {t} /\ added' = added /\ cache' = cache
      /\ store' = [store EXCEPT ![t] = None]
  BY <1>2 DEF Remove, RunOwned
<1>5. /\ store' \in [Types -> 0..Len(boxes)]
      /\ store'[t] = None
      /\ \A u \in Types \ {t} : store'[u] = store[u]
  BY <1>3, <1>4 DEF StoreInv, None
<1>6. StoreInv'
  BY <1>3, <1>4, <1>5 DEF StoreInv
<1>7. ASSUME NEW s \in Systems, cache[s] # <<>>
      PROVE  PointsInto(s, cache[s])' /\ Fresh(s, cache[s])'
  <2>1. PointsInto(s, cache[s]) /\ Fresh(s, cache[s])
    BY <1>3, <1>7 DEF CacheInv
  <2>2. PointsInto(s, cache[s])'
    BY <2>1, <1>4 DEF PointsInto
  <2>3. ASSUME NEW i \in DOMAIN Args[s], Args[s][i].type \notin touched'
        PROVE  cache[s][i] = store'[Args[s][i].type]
    <3>1. Args[s][i].type \in Types
      BY ArgType
    <3> QED
      BY <3>1, <2>1, <2>3, <1>4, <1>5 DEF Fresh
  <2> QED
    BY <2>2, <2>3, <1>4 DEF Fresh
<1>8. CacheInv'
  BY <1>3, <1>4, <1>7 DEF CacheInv
<1> QED
  BY <1>1, <1>6, <1>8 DEF ResourcesInv

LEMMA CacheInputsStep == ResourcesInv /\ CacheInputs => ResourcesInv'
<1> SUFFICES ASSUME ResourcesInv, CacheInputs PROVE ResourcesInv'
  OBVIOUS
<1>1. OrderInv' /\ HoldsInv'
  BY IdleStep DEF CacheInputs
<1>2. StoreInv /\ CacheInv /\ added \subseteq Systems
  BY DEF ResourcesInv, CacheInv
<1>3. store' = store /\ boxes' = boxes /\ touched' = {} /\ added' = added
  BY DEF CacheInputs
<1>4. StoreInv'
  BY <1>2, <1>3 DEF StoreInv
<1>5. ASSUME NEW s \in Systems
      PROVE  /\ s \in added => cache'[s] = FetchArgs(s) /\ Present(s)
             /\ s \notin added => cache'[s] = <<>>
  BY <1>2 DEF CacheInputs, CachedUpTo, CacheInv
<1>6. ASSUME NEW s \in Systems, s \in added
      PROVE  /\ cache'[s] \in Seq(Nat)
             /\ PointsInto(s, cache[s])' /\ Fresh(s, cache[s])'
  <2>1. /\ FetchArgs(s) \in Seq(Nat)
        /\ PointsInto(s, FetchArgs(s))
        /\ \A i \in DOMAIN Args[s] : FetchArgs(s)[i] = store[Args[s][i].type]
    BY <1>2, <1>5, <1>6, FetchGood
  <2> QED
    BY <2>1, <1>3, <1>5, <1>6 DEF PointsInto, Fresh
<1>7. cache' \in [Systems -> Seq(Nat)]
  <2>1. ASSUME NEW s \in Systems PROVE cache'[s] \in Seq(Nat)
    <3>1. CASE s \in added
      BY <3>1, <1>6
    <3>2. CASE s \notin added
      <4>1. cache'[s] = <<>>
        BY <3>2, <1>5
      <4> QED
        BY <4>1
    <3> QED
      BY <3>1, <3>2
  <2>2. cache' = [s \in Systems |-> cache'[s]]
    BY DEF CacheInputs, CachedUpTo
  <2> QED
    BY <2>1, <2>2
<1>8. CacheInv'
  BY <1>2, <1>3, <1>5, <1>6, <1>7 DEF CacheInv
<1> QED
  BY <1>1, <1>4, <1>8 DEF ResourcesInv

LEMMA CacheInputsPanicsStep == ResourcesInv /\ CacheInputsPanics => ResourcesInv'
<1> SUFFICES ASSUME ResourcesInv, CacheInputsPanics PROVE ResourcesInv'
  OBVIOUS
<1>1. OrderInv' /\ HoldsInv'
  BY IdleStep DEF CacheInputsPanics
<1>2. StoreInv /\ CacheInv
  BY DEF ResourcesInv
<1>3. store' = store /\ boxes' = boxes /\ touched' = touched /\ added' = added
  BY DEF CacheInputsPanics, storeVars
<1>4. StoreInv'
  BY <1>2, <1>3 DEF StoreInv
<1>5. PICK done \in SUBSET added : CachedUpTo(done) /\ \A r \in done : Present(r)
  BY DEF CacheInputsPanics
<1>6. ASSUME NEW s \in Systems
      PROVE  /\ s \in done => cache'[s] = FetchArgs(s) /\ Present(s)
             /\ s \notin done => cache'[s] = cache[s]
  BY <1>5 DEF CachedUpTo
<1>7. ASSUME NEW s \in Systems
      PROVE  /\ cache'[s] \in Seq(Nat)
             /\ cache'[s] # <<>> => PointsInto(s, cache[s])' /\ Fresh(s, cache[s])'
  <2>1. CASE s \in done
    <3>1. FetchArgs(s) \in Seq(Nat) /\ PointsInto(s, FetchArgs(s)) /\ Fresh(s, FetchArgs(s))
      BY <2>1, <1>2, <1>6, FetchGood
    <3> QED
      BY <3>1, <2>1, <1>3, <1>6 DEF PointsInto, Fresh
  <2>2. CASE s \notin done
    BY <2>2, <1>2, <1>3, <1>6 DEF CacheInv, PointsInto, Fresh
  <2> QED
    BY <2>1, <2>2
<1>8. cache' \in [Systems -> Seq(Nat)]
  BY <1>5, <1>7 DEF CachedUpTo
<1>9. CacheInv'
  BY <1>2, <1>3, <1>5, <1>6, <1>7, <1>8 DEF CacheInv
<1> QED
  BY <1>1, <1>4, <1>9 DEF ResourcesInv

LEMMA ScheduleStep ==
    ResourcesInv /\ ((\E S \in SUBSET (Systems \ added) : S # {} /\ AddSystems(S)) \/ AddSchedule)
        => ResourcesInv'
<1> SUFFICES ASSUME ResourcesInv,
                    (\E S \in SUBSET (Systems \ added) : S # {} /\ AddSystems(S)) \/ AddSchedule
             PROVE  ResourcesInv'
  OBVIOUS
<1>1. OrderInv' /\ HoldsInv'
  BY IdleStep DEF AddSystems, AddSchedule
<1>2. StoreInv /\ CacheInv
  BY DEF ResourcesInv
<1>3. store' = store /\ boxes' = boxes /\ touched' = touched
  BY DEF AddSystems, AddSchedule, storeVars
<1>4. StoreInv'
  BY <1>2, <1>3 DEF StoreInv
<1>5. CASE \E S \in SUBSET (Systems \ added) : S # {} /\ AddSystems(S)
  <2>1. PICK S \in SUBSET (Systems \ added) : AddSystems(S)
    BY <1>5
  <2>2. added' = added \cup S /\ cache' = cache
    BY <2>1 DEF AddSystems
  <2>3. CacheInv'
    BY <2>2, <1>2, <1>3 DEF CacheInv, PointsInto, Fresh
  <2> QED
    BY <2>3, <1>1, <1>4 DEF ResourcesInv
<1>6. CASE AddSchedule
  <2>1. added' = {} /\ cache' = [s \in Systems |-> <<>>]
    BY <1>6 DEF AddSchedule
  <2>2. CacheInv'
    BY <2>1 DEF CacheInv
  <2> QED
    BY <2>2, <1>1, <1>4 DEF ResourcesInv
<1> QED
  BY <1>5, <1>6

LEMMA RunStep == ResourcesInv /\ Run => ResourcesInv'
<1> SUFFICES ASSUME ResourcesInv, Run PROVE ResourcesInv'
  OBVIOUS
<1>1. OrderInv /\ StoreInv /\ CacheInv /\ HoldsInv
  BY DEF ResourcesInv
<1>2. /\ finished = Systems \X (1..runs) /\ runs' = runs + 1
      /\ started' = started /\ finished' = finished /\ failed' = failed
      /\ store' = store /\ boxes' = boxes /\ touched' = touched
      /\ added' = added /\ cache' = cache /\ holds' = holds
  BY DEF Run, Begin, storeVars
<1>3. StoreInv' /\ CacheInv'
  BY <1>1, <1>2 DEF StoreInv, CacheInv, PointsInto, Fresh
<1>4. OrderInv'
  <2>1. runs \in Nat /\ 1..runs \subseteq 1..runs' /\ \A k \in 1..runs' : k # runs' => k \in 1..runs
    BY <1>1, <1>2 DEF OrderInv
  <2>2. \A s \in Systems : \A k \in 1..runs' : <<s, k>> \in started => k \in 1..runs
    BY <1>1 DEF OrderInv
  <2> QED
    BY <2>1, <2>2, <1>1, <1>2 DEF OrderInv
<1>5. InProgress' = {}
  BY <1>1, <1>2 DEF OrderInv, InProgress
<1>6. HoldsInv'
  BY <1>5, <1>1, <1>2 DEF HoldsInv
<1> QED
  BY <1>3, <1>4, <1>6 DEF ResourcesInv

\* A step of OrderedRun within a run, whatever becomes of the arguments.
LEMMA StartOrder ==
    ASSUME OrderInv, NEW s \in Systems, NEW k \in 1..runs, Start(s, k),
           failed' \in {failed, failed \cup {<<s, k>>}}
    PROVE  OrderInv' /\ k = runs
<1>1. /\ <<s, k>> \notin started /\ started' = started \cup {<<s, k>>}
      /\ runs' = runs /\ finished' = finished
      /\ \A p \in After[s] : <<p, k>> \in finished
  BY DEF Start
<1>2. <<s, k>> \notin finished
  BY <1>1 DEF OrderInv
<1>3. k = runs
  BY <1>2 DEF OrderInv
<1> QED
  BY <1>1, <1>2, <1>3 DEF OrderInv

LEMMA StartSystemStep ==
    ASSUME NEW s \in Systems, NEW k \in 1..runs, ResourcesInv, StartSystem(s, k)
    PROVE  ResourcesInv'
<1>1. OrderInv /\ StoreInv /\ CacheInv /\ HoldsInv
  BY DEF ResourcesInv
<1>2. Start(s, k) /\ failed' = failed
  BY DEF StartSystem
<1>3. OrderInv' /\ k = runs
  BY <1>1, <1>2, StartOrder
<1>4. /\ store' = store /\ boxes' = boxes /\ touched' = touched
      /\ added' = added /\ cache' = cache
  BY DEF StartSystem, storeVars
<1>5. StoreInv' /\ CacheInv'
  BY <1>1, <1>4 DEF StoreInv, CacheInv, PointsInto, Fresh
<1>6. PICK pointers \in Seq(Nat) : /\ holds' = [holds EXCEPT ![s] = pointers]
                                  /\ PointsInto(s, pointers) /\ Fresh(s, pointers)
  <2>1. CASE cache[s] # <<>>
    BY <2>1, <1>1 DEF StartSystem, CacheInv
  <2>2. CASE cache[s] = <<>>
    BY <2>2, <1>1, FetchGood DEF StartSystem
  <2> QED
    BY <2>1, <2>2
<1>7. InProgress' \subseteq InProgress \cup {s}
  BY <1>2 DEF InProgress, Start
<1>8. /\ holds' \in [Systems -> Seq(Nat)]
      /\ holds'[s] = pointers
      /\ \A u \in Systems \ {s} : holds'[u] = holds[u]
  BY <1>1, <1>6 DEF HoldsInv
<1>9. ASSUME NEW u \in InProgress' PROVE PointsInto(u, holds[u])' /\ Fresh(u, holds[u])'
  <2>1. PointsInto(u, holds'[u]) /\ Fresh(u, holds'[u])
    <3>1. CASE u = s
      BY <3>1, <1>6, <1>8
    <3>2. CASE u # s
      <4>1. u \in InProgress /\ u \in Systems
        BY <3>2, <1>7 DEF InProgress
      <4> QED
        BY <4>1, <3>2, <1>1, <1>8 DEF HoldsInv
    <3> QED
      BY <3>1, <3>2
  <2> QED
    BY <2>1, <1>4 DEF PointsInto, Fresh
<1>10. HoldsInv'
  BY <1>8, <1>9 DEF HoldsInv
<1> QED
  BY <1>3, <1>5, <1>10 DEF ResourcesInv

LEMMA StartPanicsStep ==
    ASSUME NEW s \in Systems, NEW k \in 1..runs, ResourcesInv, StartPanics(s, k)
    PROVE  ResourcesInv'
<1>1. OrderInv /\ StoreInv /\ CacheInv /\ HoldsInv
  BY DEF ResourcesInv
<1>2. Start(s, k) /\ failed' = failed \cup {<<s, k>>}
  BY DEF StartPanics
<1>3. OrderInv' /\ k = runs
  BY <1>1, <1>2, StartOrder
<1>4. /\ store' = store /\ boxes' = boxes /\ touched' = touched
      /\ added' = added /\ cache' = cache /\ holds' = holds
  BY DEF StartPanics, storeVars
<1>5. StoreInv' /\ CacheInv'
  BY <1>1, <1>4 DEF StoreInv, CacheInv, PointsInto, Fresh
<1>6. InProgress' \subseteq InProgress
  BY <1>2, <1>3 DEF InProgress, Start
<1>7. HoldsInv'
  BY <1>1, <1>4, <1>6 DEF HoldsInv, PointsInto, Fresh
<1> QED
  BY <1>3, <1>5, <1>7 DEF ResourcesInv

LEMMA SystemReturnsStep ==
    ASSUME NEW s \in Systems, NEW k \in 1..runs, ResourcesInv, SystemReturns(s, k)
    PROVE  ResourcesInv'
<1>1. OrderInv /\ StoreInv /\ CacheInv /\ HoldsInv
  BY DEF ResourcesInv
<1>2. /\ <<s, k>> \in started \ finished /\ finished' = finished \cup {<<s, k>>}
      /\ runs' = runs /\ started' = started
      /\ <<s, k>> \notin failed /\ failed' = failed
  BY DEF SystemReturns, Finish
<1>3. OrderInv'
  BY <1>1, <1>2 DEF OrderInv
<1>4. /\ store' = store /\ boxes' = boxes /\ touched' = touched
      /\ added' = added /\ cache' = cache /\ holds' = holds
  BY DEF SystemReturns, storeVars
<1>5. StoreInv' /\ CacheInv'
  BY <1>1, <1>4 DEF StoreInv, CacheInv, PointsInto, Fresh
<1>6. InProgress' \subseteq InProgress
  BY <1>2 DEF InProgress
<1>7. HoldsInv'
  BY <1>1, <1>4, <1>6 DEF HoldsInv, PointsInto, Fresh
<1> QED
  BY <1>3, <1>5, <1>7 DEF ResourcesInv

LEMMA ResourcesStep == ResourcesInv /\ [ResourcesNext]_resourceVars => ResourcesInv'
<1>1. ASSUME ResourcesInv, ResourcesNext PROVE ResourcesInv'
  BY <1>1, InsertStep, RemoveStep, CacheInputsStep, CacheInputsPanicsStep, ScheduleStep, RunStep,
     StartSystemStep, StartPanicsStep, SystemReturnsStep DEF ResourcesNext
<1>2. ASSUME ResourcesInv, UNCHANGED resourceVars PROVE ResourcesInv'
  BY <1>2 DEF ResourcesInv, OrderInv, StoreInv, CacheInv, HoldsInv, InProgress, PointsInto, Fresh,
     resourceVars, orderedVars, storeVars
<1> QED
  BY <1>1, <1>2

LEMMA ResourcesInvariant == ResourcesSpec => []ResourcesInv
BY ResourcesInitOK, ResourcesStep, PTL DEF ResourcesSpec

-----------------------------------------------------------------------------
(* Whatever is inserted, removed and cached between the runs, every pointer *)
(* a system has or is called with is to a box of the type it names.         *)
THEOREM ResourcesTypesCorrect == ResourcesSpec => []ResourcesTypeOK
<1>1. ResourcesInv => ResourcesTypeOK
  BY DEF ResourcesInv, OrderInv, StoreInv, CacheInv, HoldsInv, ResourcesTypeOK
<1> QED
  BY <1>1, ResourcesInvariant, PTL

(* A cache that has been rebuilt since the last change is as good as        *)
(* fetching: the systems point at what is in the store.                     *)
THEOREM CacheFresh == ResourcesSpec => []ArgumentsLive
<1>1. ResourcesInv => ArgumentsLive
  BY DEF ResourcesInv, HoldsInv, Fresh, ArgumentsLive
<1> QED
  BY <1>1, ResourcesInvariant, PTL

\* What has to be over before s starts: the least set that has what s waits
\* for, and what the members of the set wait for.
Upstream(s) ==
    {p \in Systems : \A A \in SUBSET Systems :
        After[s] \subseteq A /\ (\A a \in A : After[a] \subseteq A) => p \in A}

\* What Exclusive asks of a schedule: no system names a type twice, which is
\* what fetch_args checks, and of two systems that conflict one is upstream
\* of the other.
ConflictsOrdered ==
    /\ \A s \in Systems : Disjoint(s)
    /\ \A s, u \in Systems :
          s # u /\ Conflict(s, u) => s \in Upstream(u) \/ u \in Upstream(s)

\* Everything upstream of a system in progress has returned.
LEMMA UpstreamDone ==
    ASSUME OrderInv, NEW s \in InProgress, NEW p \in Upstream(s)
    PROVE  p \notin InProgress
<1> DEFINE A == {a \in Systems : <<a, runs>> \in finished}
<1>1. s \in Systems /\ <<s, runs>> \in started /\ runs \in 1..runs
  BY DEF InProgress, OrderInv
<1>2. After[s] \subseteq A
  BY <1>1, AfterAssumption DEF OrderInv
<1>3. ASSUME NEW a \in A PROVE After[a] \subseteq A
  BY <1>1, AfterAssumption DEF OrderInv
<1>4. p \in A
  BY <1>2, <1>3 DEF Upstream
<1> QED
  BY <1>4 DEF InProgress

(* Systems whose conflicts the plan orders, directly or through others, get *)
(* exclusive access to what they write, cached or not, without any check    *)
(* when their arguments are fetched (resources/fetch.rs:31-32).             *)
THEOREM WritersExclusive ==
    ASSUME ConflictsOrdered
    PROVE  ResourcesSpec => []Exclusive
<1>1. ResourcesInv => Exclusive
  <2> SUFFICES ASSUME ResourcesInv, NEW s \in InProgress, NEW u \in InProgress,
                      NEW i \in DOMAIN Args[s], NEW j \in DOMAIN Args[u],
                      <<s, i>> # <<u, j>>, holds[s][i] = holds[u][j]
               PROVE  Args[s][i].access = Ref /\ Args[u][j].access = Ref
    BY DEF Exclusive
  <2>1. s \in Systems /\ u \in Systems /\ OrderInv
    BY DEF InProgress, ResourcesInv
  <2>2. Args[s][i].type = Args[u][j].type
    BY DEF ResourcesInv, HoldsInv, PointsInto
  <2>3. s # u
    BY <2>1, <2>2 DEF ConflictsOrdered, Disjoint
  <2>4. ~Conflict(s, u)
    BY <2>1, <2>3, UpstreamDone DEF ConflictsOrdered
  <2>5. Mut \notin {Args[s][i].access, Args[u][j].access}
    BY <2>2, <2>4 DEF Conflict
  <2>6. Args[s][i].access \in {Ref, Mut} /\ Args[u][j].access \in {Ref, Mut}
    BY <2>1, ArgType
  <2> QED
    BY <2>5, <2>6
<1> QED
  BY <1>1, ResourcesInvariant, PTL
=============================================================================
