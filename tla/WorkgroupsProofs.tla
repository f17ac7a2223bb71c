---------------------------- MODULE WorkgroupsProofs ----------------------------
(***************************************************************************)
(* What full_sync and full_shutdown promise of all workgroups, for every   *)
(* number of labels, groups, threads, systems and runs: that the loops     *)
(* over the groups miss none, whatever the threads of the others do.       *)
(***************************************************************************)
EXTENDS Workgroups, FiniteSetTheorems, TLAPS

PCs == {"none", "start", "settle", "drained", "ready", "park", "exited"}
Mains == {"idle", "count", "wake", "sync", "parked", "stop", "join"}

HandlerOK ==
    /\ made \in 0..MaxGroups
    /\ workgroups \in [Labels -> 0..made]
    /\ \A l, m \in Labels : workgroups[l] = workgroups[m] /\ workgroups[l] # None => l = m
    /\ threads \in [Groups -> ThreadCounts \cup {0}]
    /\ \A g \in Groups : g > made => threads[g] = 0

\* The threads there are, and that only those are in a pool, Ready or unparked
\* by a token; a thread whose handle is gone has ended.
ThreadsOK ==
    /\ pc \in [Workers -> PCs]
    /\ \A w \in Workers : pc[w] # "none" <=> w[2] <= threads[w[1]]
    /\ thread_pool \subseteq Workers /\ ready \subseteq Workers /\ token \subseteq Workers
    /\ \A w \in thread_pool \cup ready \cup token : pc[w] # "none"
    /\ \A w \in Workers : pc[w] # "none" /\ w \notin thread_pool => pc[w] = "exited"

CountersOK ==
    /\ tasks \in [Groups -> 0..Usize - 1]
    /\ queue \in [Groups -> Nat] /\ taken \in [Workers -> Nat]
    /\ \A g \in Groups : g > made => tasks[g] = 0 /\ queue[g] = 0
    /\ \A w \in Workers : taken[w] # 0 => pc[w] = "settle"

\* The groups that the main thread is at, and has before it.
MainOK ==
    /\ main \in Mains
    /\ rest \subseteq Attached /\ at \in Attached \cup {None}
    /\ runs \in 0..MaxRuns /\ quiet \in BOOLEAN /\ ended \in BOOLEAN
    /\ main \in {"idle", "count", "wake"} => rest = {}
    /\ main = "idle" => at = None
    /\ main \in {"count", "wake", "parked", "join"} => at # None

TypeInv == HandlerOK /\ ThreadsOK /\ CountersOK /\ MainOK

-----------------------------------------------------------------------------
(* Workers and groups.                                                     *)

LEMMA WorkerFacts ==
    \A w \in Workers : w = <<w[1], w[2]>> /\ w[1] \in Groups /\ w[2] \in Nat \ {0}
BY WorkgroupsAssumption DEF Workers, Groups

LEMMA GroupFacts == \A g \in Groups : g \in Nat \ {0} /\ g # None
BY WorkgroupsAssumption DEF Groups, None

LEMMA AttachedFacts ==
    ASSUME HandlerOK
    PROVE  /\ \A g \in Attached : g \in Groups /\ g <= made /\ g # None
           /\ \A g : g \in Attached <=> g # None /\ \E l \in Labels : workgroups[l] = g
<1>1. made \in Nat /\ made <= MaxGroups BY WorkgroupsAssumption DEF HandlerOK
<1>2. DOMAIN workgroups = Labels /\ \A l \in Labels : workgroups[l] \in 0..made BY DEF HandlerOK
<1>3. \A g : g \in Attached <=> g # None /\ \E l \in Labels : workgroups[l] = g
  BY <1>2 DEF Attached, Range
<1> QED BY <1>1, <1>2, <1>3, WorkgroupsAssumption DEF Groups, None

LEMMA PoolFacts ==
    ASSUME HandlerOK, NEW g \in Groups
    PROVE  /\ threads[g] \in Nat
           /\ \A w : w \in Pool(g) <=> w \in Workers /\ w[1] = g /\ w[2] <= threads[g]
<1>1. threads[g] \in ThreadCounts \cup {0} /\ threads[g] \in Nat
  <2>1. threads[g] \in ThreadCounts \cup {0} BY DEF HandlerOK
  <2>2. ThreadCounts \subseteq Nat BY WorkgroupsAssumption
  <2>3. \A n \in ThreadCounts \cup {0} : n \in Nat BY <2>2
  <2> QED BY <2>1, <2>3
<1>2. \A w \in Pool(g) : w \in Workers /\ w[1] = g /\ w[2] <= threads[g]
  <2> TAKE w \in Pool(g)
  <2>1. w[1] = g /\ w[2] \in 1..threads[g] /\ w = <<g, w[2]>> BY DEF Pool
  <2>2. threads[g] \in ThreadCounts BY <1>1, <2>1
  <2>3. w[2] \in UNION {1..n : n \in ThreadCounts} BY <2>1, <2>2
  <2> QED BY <1>1, <2>1, <2>3 DEF Workers
<1>3. ASSUME NEW w \in Workers, w[1] = g, w[2] <= threads[g] PROVE w \in Pool(g)
  <2>1. w = <<g, w[2]>> /\ w[2] \in 1..threads[g] BY <1>1, <1>3, WorkerFacts
  <2> QED BY <2>1 DEF Pool
<1> QED BY <1>1, <1>2, <1>3

-----------------------------------------------------------------------------
(* Type correctness.                                                       *)

LEMMA TypeInvInit == ASSUME WorkgroupsInit PROVE TypeInv
<1>1. HandlerOK BY WorkgroupsAssumption DEF WorkgroupsInit, HandlerOK, None
<1>2. ThreadsOK
  <2>1. \A w \in Workers : w[2] > 0 /\ threads[w[1]] = 0 /\ w[2] \in Nat
    BY WorkerFacts DEF WorkgroupsInit
  <2> QED BY <2>1 DEF WorkgroupsInit, ThreadsOK, PCs
<1>3. CountersOK BY WorkgroupsAssumption DEF WorkgroupsInit, CountersOK
<1>4. MainOK
  <2>1. main = "idle" /\ rest = {} /\ at = None /\ runs = 0 /\ quiet = TRUE /\ ended = FALSE
    BY DEF WorkgroupsInit
  <2>2. runs \in 0..MaxRuns BY <2>1, WorkgroupsAssumption
  <2> QED BY <2>1, <2>2 DEF MainOK, Mains
<1> QED BY <1>1, <1>2, <1>3, <1>4 DEF TypeInv

\* A step of a worker moves that worker.
LEMMA WorkerMoves ==
    ASSUME NEW w \in Workers, Worker(w), ThreadsOK
    PROVE  /\ pc' = [pc EXCEPT ![w] = pc'[w]] /\ pc[w] \notin {"none", "exited"}
           /\ pc'[w] \in PCs \ {"none"} /\ w \in thread_pool
           /\ UNCHANGED <<groupVars, mainVars>>
           /\ ready' \subseteq ready \cup {w} /\ token' \subseteq token
<1>1. PICK from \in PCs \ {"none", "exited"}, to \in PCs \ {"none"} : Goto(w, from, to)
  BY DEF Worker, Works, Settles, ChecksShutdown, Parks, Unparked, PCs
<1>2. pc[w] = from /\ pc' = [pc EXCEPT ![w] = to] BY <1>1 DEF Goto
<1>3. w \in DOMAIN pc BY DEF ThreadsOK
<1>4. pc'[w] = to BY <1>2, <1>3
<1>5. UNCHANGED <<groupVars, mainVars>> /\ ready' \subseteq ready \cup {w} /\ token' \subseteq token
  BY DEF Worker, Works, Settles, ChecksShutdown, Parks, Unparked, wakeVars
<1>6. w \in thread_pool BY <1>2 DEF ThreadsOK
<1> QED BY <1>2, <1>4, <1>5, <1>6

LEMMA WorkerTypes ==
    ASSUME TypeInv, NEW w \in Workers, Worker(w)
    PROVE  TypeInv'
<1>1. /\ pc' = [pc EXCEPT ![w] = pc'[w]] /\ pc[w] \notin {"none", "exited"}
      /\ pc'[w] \in PCs \ {"none"} /\ w \in thread_pool
      /\ UNCHANGED <<groupVars, mainVars>>
      /\ ready' \subseteq ready \cup {w} /\ token' \subseteq token
  BY WorkerMoves DEF TypeInv
<1>2. UNCHANGED <<workgroups, made, threads, ended, thread_pool, main, rest, at, runs, quiet>>
  BY <1>1 DEF groupVars, handlerVars, mainVars, runVars
<1>3. HandlerOK' BY <1>2 DEF TypeInv, HandlerOK
<1>4. MainOK' BY <1>2 DEF TypeInv, MainOK, Attached
<1>5. ThreadsOK'
  <2>1. \A v \in Workers : v # w => pc'[v] = pc[v] BY <1>1 DEF TypeInv, ThreadsOK
  <2>2. pc' \in [Workers -> PCs] BY <1>1 DEF TypeInv, ThreadsOK
  <2>3. \A v \in Workers : pc'[v] # "none" <=> pc[v] # "none" BY <1>1, <2>1
  <2>4. \A v \in Workers : pc'[v] # "none" <=> v[2] <= threads'[v[1]]
    BY <1>2, <2>3 DEF TypeInv, ThreadsOK
  <2>5. \A v \in thread_pool' \cup ready' \cup token' : v \in Workers /\ pc'[v] # "none"
    BY <1>1, <1>2, <2>3 DEF TypeInv, ThreadsOK
  <2>6. \A v \in Workers : pc'[v] # "none" /\ v \notin thread_pool' => pc'[v] = "exited"
    BY <1>1, <1>2, <2>1 DEF TypeInv, ThreadsOK
  <2> QED BY <2>2, <2>4, <2>5, <2>6 DEF ThreadsOK
<1>6. CountersOK'
  <2> USE DEF TypeInv, CountersOK
  <2>1. CASE Works(w)
    <3>1. PICK n \in (IF queue[w[1]] = 0 THEN {0} ELSE 1..queue[w[1]]) :
             /\ taken' = [taken EXCEPT ![w] = n]
             /\ queue' = [queue EXCEPT ![w[1]] = @ - n]
      BY <2>1 DEF Works
    <3>2. n \in Nat /\ queue[w[1]] - n \in Nat /\ (queue[w[1]] = 0 => n = 0) BY <3>1, WorkerFacts
    <3>3. pc'[w] = "settle" /\ tasks' = tasks BY <2>1, <1>1 DEF Works, Goto, ThreadsOK
    <3>4. taken' \in [Workers -> Nat] /\ queue' \in [Groups -> Nat] BY <3>1, <3>2
    <3>5. \A g \in Groups : g > made => queue'[g] = 0 BY <3>1, <3>2
    <3>6. \A v \in Workers : taken'[v] # 0 => pc'[v] = "settle"
      BY <3>1, <3>3, <1>1 DEF ThreadsOK
    <3> QED BY <3>3, <3>4, <3>5, <3>6, <1>2
  <2>2. CASE Settles(w)
    <3>1. /\ tasks' = [tasks EXCEPT ![w[1]] = (tasks[w[1]] - taken[w]) % Usize]
          /\ taken' = [taken EXCEPT ![w] = 0] /\ queue' = queue
      BY <2>2 DEF Settles
    <3>2. (tasks[w[1]] - taken[w]) % Usize \in 0..Usize - 1 BY WorkgroupsAssumption, WorkerFacts
    <3>3. w[1] <= made
      <4>1. w[2] <= threads[w[1]] /\ w[2] > 0 BY <1>1, WorkerFacts DEF ThreadsOK
      <4> QED BY <4>1, WorkerFacts, GroupFacts DEF HandlerOK
    <3>4. tasks' \in [Groups -> 0..Usize - 1] /\ taken' \in [Workers -> Nat] BY <3>1, <3>2
    <3>5. \A g \in Groups : g > made => tasks'[g] = 0 BY <3>1, <3>3, GroupFacts, WorkerFacts DEF HandlerOK
    <3>6. \A v \in Workers : taken'[v] # 0 => pc'[v] = "settle"
      BY <3>1, <1>1 DEF ThreadsOK
    <3> QED BY <3>1, <3>4, <3>5, <3>6, <1>2
  <2>3. CASE pc[w] # "settle" /\ UNCHANGED taskVars
    <3>1. \A v \in Workers : taken'[v] # 0 => pc'[v] = "settle"
      BY <2>3, <1>1 DEF taskVars, ThreadsOK
    <3> QED BY <2>3, <3>1, <1>2 DEF taskVars
  <2>4. ChecksShutdown(w) \/ Parks(w) \/ Unparked(w) => pc[w] # "settle" /\ UNCHANGED taskVars
    BY DEF ChecksShutdown, Parks, Unparked, Goto
  <2> QED BY <2>1, <2>2, <2>3, <2>4 DEF Worker
<1> QED BY <1>3, <1>4, <1>5, <1>6 DEF TypeInv

LEMMA AddWorkgroupTypes ==
    ASSUME TypeInv, NEW l \in Labels, NEW n \in ThreadCounts, AddWorkgroup(l, n)
    PROVE  TypeInv'
<1> USE DEF TypeInv
<1> DEFINE g == made + 1
           new == {g} \X (1..n)
<1>1. /\ main = "idle" /\ made < MaxGroups /\ made' = g
      /\ workgroups' = [workgroups EXCEPT ![l] = g]
      /\ threads' = [threads EXCEPT ![g] = n]
      /\ thread_pool' = thread_pool \cup new /\ ready' = ready \cup new
      /\ pc' = [w \in Workers |-> IF w \in new THEN "start" ELSE pc[w]]
      /\ ended' = FALSE
  BY DEF AddWorkgroup
<1>2. UNCHANGED <<shutdown, tasks, queue, taken, token, main_token, main, rest, at, runs, quiet>>
  BY DEF AddWorkgroup, taskVars, mainVars, runVars
<1>3. made \in Nat /\ g \in Groups /\ g \in Nat /\ n \in Nat
  BY <1>1, WorkgroupsAssumption DEF HandlerOK, Groups
<1>4. rest = {} /\ at = None BY <1>1 DEF MainOK
<1> HIDE DEF new
<1>5. HandlerOK'
  <2>1. made' \in 0..MaxGroups /\ \A i \in 0..made : i \in 0..made' BY <1>1, <1>3, WorkgroupsAssumption
  <2>2. workgroups' \in [Labels -> 0..made'] BY <1>1, <1>3, <2>1 DEF HandlerOK
  <2>3. \A k, m \in Labels : workgroups'[k] = workgroups'[m] /\ workgroups'[k] # None => k = m
    <3>1. \A k \in Labels : k # l => workgroups'[k] = workgroups[k] /\ workgroups[k] # g
      BY <1>1, <1>3 DEF HandlerOK
    <3>2. workgroups'[l] = g BY <1>1 DEF HandlerOK
    <3> QED BY <3>1, <3>2 DEF HandlerOK
  <2>4. threads' \in [Groups -> ThreadCounts \cup {0}] BY <1>1 DEF HandlerOK
  <2>5. \A i \in Groups : i > made' => threads'[i] = 0
    BY <1>1, <1>3, GroupFacts DEF HandlerOK
  <2> QED BY <2>1, <2>2, <2>3, <2>4, <2>5 DEF HandlerOK
<1>6. \A w : w \in new <=> w \in Workers /\ w[1] = g /\ w[2] <= n
  <2>1. \A w \in new : w \in Workers /\ w[1] = g /\ w[2] <= n
    BY <1>3 DEF new, Workers
  <2>2. \A w \in Workers : w[1] = g /\ w[2] <= n => w \in new BY <1>3, WorkerFacts DEF new
  <2> QED BY <2>1, <2>2
<1>7. \A w \in new : pc[w] = "none"
  <2> TAKE w \in new
  <2>1. threads[g] = 0 BY <1>3 DEF HandlerOK
  <2>2. w \in Workers /\ w[1] = g /\ w[2] > 0 /\ w[2] \in Nat BY <1>6, WorkerFacts
  <2> QED BY <2>1, <2>2 DEF ThreadsOK
<1>8. ThreadsOK'
  <2>1. pc' \in [Workers -> PCs] BY <1>1 DEF ThreadsOK, PCs
  <2>2. \A w \in Workers : pc'[w] # "none" <=> w[2] <= threads'[w[1]]
    <3> TAKE w \in Workers
    <3>1. CASE w[1] = g
      <4>1. threads'[w[1]] = n /\ threads[g] = 0 BY <3>1, <1>1, <1>3 DEF HandlerOK
      <4>2. w[2] > 0 /\ w[2] \in Nat BY WorkerFacts
      <4>3. pc[w] = "none" BY <4>1, <4>2, <3>1 DEF ThreadsOK
      <4> QED BY <4>1, <4>3, <3>1, <1>1, <1>6
    <3>2. CASE w[1] # g
      <4>1. threads'[w[1]] = threads[w[1]] BY <3>2, <1>1, WorkerFacts DEF HandlerOK
      <4>2. pc'[w] = pc[w] BY <3>2, <1>1, <1>6
      <4> QED BY <4>1, <4>2 DEF ThreadsOK
    <3> QED BY <3>1, <3>2
  <2>3. thread_pool' \subseteq Workers /\ ready' \subseteq Workers /\ token' \subseteq Workers
    BY <1>1, <1>2, <1>6 DEF ThreadsOK
  <2>4. \A w \in thread_pool' \cup ready' \cup token' : pc'[w] # "none"
    BY <1>1, <1>2, <1>6 DEF ThreadsOK
  <2>5. \A w \in Workers : pc'[w] # "none" /\ w \notin thread_pool' => pc'[w] = "exited"
    BY <1>1 DEF ThreadsOK
  <2> QED BY <2>1, <2>2, <2>3, <2>4, <2>5 DEF ThreadsOK
<1>9. CountersOK'
  <2>1. \A w \in Workers : taken'[w] # 0 => pc'[w] = "settle"
    BY <1>1, <1>2, <1>7 DEF CountersOK
  <2>2. \A i \in Groups : i > made' => tasks'[i] = 0 /\ queue'[i] = 0
    BY <1>1, <1>2, <1>3, GroupFacts DEF CountersOK
  <2> QED BY <2>1, <2>2, <1>2 DEF CountersOK
<1>10. MainOK'
  <2>1. rest' = {} /\ at' = None /\ ended' \in BOOLEAN BY <1>1, <1>2, <1>4
  <2> QED BY <2>1, <1>1, <1>2 DEF MainOK
<1> QED BY <1>5, <1>8, <1>9, <1>10

LEMMA InstallTypes ==
    ASSUME TypeInv, InstallHandler
    PROVE  TypeInv'
<1> USE DEF TypeInv
<1>1. /\ main = "idle" /\ workgroups' = [l \in Labels |-> None]
      /\ UNCHANGED <<made, threads, ended, thread_pool, taskVars, wakeVars, pc, mainVars>>
  BY DEF InstallHandler
<1>2. HandlerOK' BY <1>1, WorkgroupsAssumption DEF HandlerOK, None
<1>3. ThreadsOK' BY <1>1 DEF ThreadsOK, wakeVars
<1>4. CountersOK' BY <1>1 DEF CountersOK, taskVars
<1>5. MainOK' BY <1>1 DEF MainOK, mainVars, runVars
<1> QED BY <1>2, <1>3, <1>4, <1>5

\* The steps of main that change neither threads nor counters.
LEMMA MainTypes ==
    ASSUME TypeInv, UNCHANGED <<workgroups, made, threads, taskVars, ready, pc>>,
           thread_pool' \subseteq thread_pool,
           \A w \in thread_pool \ thread_pool' : pc[w] = "exited",
           token' \subseteq token \cup thread_pool, MainOK'
    PROVE  TypeInv'
<1> USE DEF TypeInv
<1>1. HandlerOK' BY DEF HandlerOK
<1>2. ThreadsOK' BY DEF ThreadsOK
<1>3. CountersOK' BY DEF CountersOK, taskVars
<1> QED BY <1>1, <1>2, <1>3

LEMMA RunTypes ==
    ASSUME TypeInv, NEW l \in Labels, Run(l)
    PROVE  TypeInv'
<1> USE DEF TypeInv
<1>1. /\ main = "idle" /\ workgroups[l] # None /\ runs < MaxRuns
      /\ main' = "count" /\ at' = workgroups[l]
      /\ queue' = [queue EXCEPT ![workgroups[l]] = @ + Systems]
      /\ runs' = runs + 1 /\ quiet' = FALSE
      /\ UNCHANGED <<groupVars, tasks, taken, wakeVars, pc, rest>>
  BY DEF Run
<1>2. workgroups[l] \in Attached /\ workgroups[l] \in Groups /\ workgroups[l] <= made
  BY <1>1, AttachedFacts
<1>3. UNCHANGED <<workgroups, made, threads, ended, thread_pool, ready, token>>
  BY <1>1 DEF groupVars, handlerVars, wakeVars
<1>4. HandlerOK' BY <1>3 DEF HandlerOK
<1>5. ThreadsOK' BY <1>1, <1>3 DEF ThreadsOK
<1>6. CountersOK'
  <2>1. queue[workgroups[l]] + Systems \in Nat BY <1>2, WorkgroupsAssumption DEF CountersOK
  <2>3. queue' \in [Groups -> Nat] BY <2>1, <1>1, <1>2 DEF CountersOK
  <2>2. \A g \in Groups : g > made => queue'[g] = 0
    BY <1>1, <1>2, GroupFacts, WorkgroupsAssumption DEF CountersOK, HandlerOK
  <2> QED BY <2>2, <2>3, <1>1, <1>3 DEF CountersOK
<1>7. MainOK'
  <2>1. Attached' = Attached BY <1>3 DEF Attached
  <2>2. runs' \in 0..MaxRuns BY <1>1, WorkgroupsAssumption DEF MainOK
  <2>3. rest' = {} BY <1>1 DEF MainOK
  <2>4. ended' \in BOOLEAN BY <1>3 DEF MainOK
  <2> QED BY <2>1, <2>2, <2>3, <2>4, <1>1, <1>2 DEF MainOK, Mains
<1> QED BY <1>4, <1>5, <1>6, <1>7

LEMMA RunCountsTypes ==
    ASSUME TypeInv, RunCounts
    PROVE  TypeInv'
<1> USE DEF TypeInv
<1>1. /\ main = "count" /\ main' = "wake"
      /\ tasks' = [tasks EXCEPT ![at] = (@ + Systems) % Usize]
      /\ UNCHANGED <<groupVars, queue, taken, wakeVars, pc, rest, at, runVars>>
  BY DEF RunCounts
<1>2. at \in Attached /\ at \in Groups /\ at <= made BY <1>1, AttachedFacts DEF MainOK
<1>3. UNCHANGED <<workgroups, made, threads, ended, thread_pool, ready, token, runs, quiet>>
  BY <1>1 DEF groupVars, handlerVars, wakeVars, runVars
<1>4. HandlerOK' BY <1>3 DEF HandlerOK
<1>5. ThreadsOK' BY <1>1, <1>3 DEF ThreadsOK
<1>6. CountersOK'
  <2>1. (tasks[at] + Systems) % Usize \in 0..Usize - 1 BY <1>2, WorkgroupsAssumption DEF CountersOK
  <2>2. tasks' \in [Groups -> 0..Usize - 1] BY <2>1, <1>1 DEF CountersOK
  <2>3. \A g \in Groups : g > made => tasks'[g] = 0
    BY <1>1, <1>2, GroupFacts DEF CountersOK, HandlerOK
  <2> QED BY <2>2, <2>3, <1>1, <1>3 DEF CountersOK
<1>7. MainOK'
  <2>1. Attached' = Attached BY <1>3 DEF Attached
  <2>2. at' # None /\ at' \in Attached BY <1>1, <1>2, AttachedFacts
  <2> QED BY <2>1, <2>2, <1>1, <1>3 DEF MainOK, Mains
<1> QED BY <1>4, <1>5, <1>6, <1>7

\* The steps of the loops of full_sync and full_shutdown, and their first ones.
Loops ==
    \/ RunWakes \/ SyncNext \/ SyncPasses \/ SyncParks \/ MainUnparked \/ SyncReturns
    \/ StopNext \/ (\E w \in Workers : StopUnparks(w) \/ StopJoins(w)) \/ StopPasses \/ StopReturns
    \/ FullSync \/ FullShutdown

\* What all of them leave alone.
LEMMA LoopFrame ==
    ASSUME Loops, ThreadsOK
    PROVE  /\ UNCHANGED <<workgroups, made, threads, taskVars, ready, pc, runs>>
           /\ thread_pool' \subseteq thread_pool
           /\ \A w \in thread_pool \ thread_pool' : pc[w] = "exited"
           /\ token' \subseteq token \cup thread_pool
           /\ quiet' = quiet \/ (main = "sync" /\ at = None /\ rest = {} /\ quiet' = TRUE)
           /\ ended' = ended \/ (main = "stop" /\ at = None /\ rest = {} /\ ended' = TRUE)
<1> USE DEF groupVars, handlerVars, wakeVars, runVars
<1>1. CASE RunWakes BY <1>1 DEF RunWakes
<1>2. CASE SyncNext \/ SyncPasses \/ SyncParks
  BY <1>2 DEF SyncNext, SyncPasses, SyncParks
<1>3. CASE MainUnparked \/ SyncReturns BY <1>3 DEF MainUnparked, SyncReturns
<1>4. CASE StopNext \/ StopPasses \/ StopReturns BY <1>4 DEF StopNext, StopPasses, StopReturns
<1>5. CASE \E w \in Workers : StopUnparks(w) \/ StopJoins(w)
  BY <1>5 DEF StopUnparks, StopJoins, NextHandle
<1>6. CASE FullSync \/ FullShutdown BY <1>6 DEF FullSync, FullShutdown
<1> QED BY <1>1, <1>2, <1>3, <1>4, <1>5, <1>6 DEF Loops

LEMMA LoopTypes ==
    ASSUME TypeInv, Loops
    PROVE  TypeInv'
<1> USE DEF TypeInv
<1>1. /\ UNCHANGED <<workgroups, made, threads, taskVars, ready, pc, runs>>
      /\ thread_pool' \subseteq thread_pool
      /\ \A w \in thread_pool \ thread_pool' : pc[w] = "exited"
      /\ token' \subseteq token \cup thread_pool
      /\ quiet' = quiet \/ (main = "sync" /\ at = None /\ rest = {} /\ quiet' = TRUE)
      /\ ended' = ended \/ (main = "stop" /\ at = None /\ rest = {} /\ ended' = TRUE)
  BY LoopFrame
<1>2. Attached' = Attached BY <1>1 DEF Attached
<1>3. runs' \in 0..MaxRuns /\ quiet' \in BOOLEAN /\ ended' \in BOOLEAN BY <1>1 DEF MainOK
<1>4. /\ rest' \subseteq Attached /\ at' \in Attached \cup {None} /\ main' \in Mains
      /\ main' \in {"idle", "count", "wake"} => rest' = {}
      /\ main' = "idle" => at' = None
      /\ main' \in {"count", "wake", "parked", "join"} => at' # None
  <2> USE DEF MainOK, Mains
  <2>1. CASE RunWakes BY <2>1 DEF RunWakes
  <2>2. CASE SyncNext BY <2>2, AttachedFacts DEF SyncNext
  <2>3. CASE SyncPasses BY <2>3 DEF SyncPasses
  <2>4. CASE SyncParks BY <2>4 DEF SyncParks
  <2>5. CASE MainUnparked BY <2>5 DEF MainUnparked
  <2>6. CASE SyncReturns BY <2>6 DEF SyncReturns
  <2>7. CASE StopNext BY <2>7, AttachedFacts DEF StopNext
  <2>8. CASE \E w \in Workers : StopUnparks(w) \/ StopJoins(w)
    BY <2>8 DEF StopUnparks, StopJoins
  <2>9. CASE StopPasses BY <2>9 DEF StopPasses
  <2>10. CASE StopReturns BY <2>10 DEF StopReturns
  <2>11. CASE FullSync BY <2>11 DEF FullSync
  <2>12. CASE FullShutdown BY <2>12 DEF FullShutdown
  <2> QED
    BY <2>1, <2>2, <2>3, <2>4, <2>5, <2>6, <2>7, <2>8, <2>9, <2>10, <2>11, <2>12 DEF Loops
<1>5. MainOK' BY <1>2, <1>3, <1>4 DEF MainOK
<1> QED BY <1>1, <1>5, MainTypes

LEMMA TypeInvNext ==
    ASSUME TypeInv, [WorkgroupsNext]_workgroupsVars
    PROVE  TypeInv'
<1>1. CASE UNCHANGED workgroupsVars
  BY <1>1 DEF workgroupsVars, groupVars, handlerVars, taskVars, wakeVars, mainVars, runVars,
              TypeInv, HandlerOK, ThreadsOK, CountersOK, MainOK, Attached
<1>2. CASE Loops BY <1>2, LoopTypes
<1>3. CASE RunCounts BY <1>3, RunCountsTypes
<1>4. CASE InstallHandler BY <1>4, InstallTypes
<1>5. CASE \E l \in Labels : Run(l) \/ \E n \in ThreadCounts : AddWorkgroup(l, n)
  BY <1>5, RunTypes, AddWorkgroupTypes
<1>6. CASE \E w \in Workers : Worker(w) BY <1>6, WorkerTypes
<1> QED BY <1>1, <1>2, <1>3, <1>4, <1>5, <1>6 DEF WorkgroupsNext, Main, Client, Loops

(* Type correctness, for all groups: labels are not shared, a thread for   *)
(* every handle.                                                           *)
LEMMA TypeInvOK == ASSUME TypeInv PROVE WorkgroupsTypeOK
<1> USE DEF TypeInv
<1>1. /\ workgroups \in [Labels -> 0..made] /\ made \in 0..MaxGroups
      /\ threads \in [Groups -> ThreadCounts \cup {0}]
      /\ tasks \in [Groups -> 0..Usize - 1] /\ queue \in [Groups -> Nat]
      /\ taken \in [Workers -> Nat] /\ rest \subseteq Attached /\ at \in Attached \cup {None}
  BY DEF HandlerOK, CountersOK, MainOK
<1>2. IsInjective(Restrict(workgroups, {l \in Labels : workgroups[l] # None}))
  BY DEF HandlerOK, IsInjective, Restrict
<1>3. thread_pool \cup ready \cup token \subseteq {w \in Workers : pc[w] # "none"}
  BY DEF ThreadsOK
<1>4. {w \in Workers : pc[w] # "none"} = UNION {Pool(g) : g \in Groups}
  <2>1. ASSUME NEW w \in Workers, pc[w] # "none" PROVE \E g \in Groups : w \in Pool(g)
    <3>1. w[2] <= threads[w[1]] /\ w[1] \in Groups BY <2>1, WorkerFacts DEF ThreadsOK
    <3> QED BY <3>1, PoolFacts
  <2>2. ASSUME NEW g \in Groups, NEW w \in Pool(g) PROVE w \in Workers /\ pc[w] # "none"
    BY PoolFacts DEF ThreadsOK
  <2> QED BY <2>1, <2>2
<1> QED BY <1>1, <1>2, <1>3, <1>4 DEF WorkgroupsTypeOK

LEMMA TypeInvariant == WorkgroupsSpec => []TypeInv
BY TypeInvInit, TypeInvNext, PTL DEF WorkgroupsSpec

(* There is a thread for every handle, whatever is installed and added     *)
(* (workgroups.rs:129 to 167).                                             *)
THEOREM WorkgroupsTypeCorrect == WorkgroupsSpec => []WorkgroupsTypeOK
BY TypeInvariant, TypeInvOK, PTL

-----------------------------------------------------------------------------
(* full_shutdown                                                           *)

\* The groups that full_shutdown has been at have no handles left.
StopInv ==
    /\ ended => \A g \in Attached : \A w \in Pool(g) : pc[w] = "exited"
    /\ main \in {"stop", "join"} =>
          \A g \in Attached \ rest : g # at => thread_pool \cap Pool(g) = {}

LEMMA StopInvLoops ==
    ASSUME TypeInv, StopInv, Loops
    PROVE  StopInv'
<1>1. /\ UNCHANGED <<workgroups, made, threads, taskVars, ready, pc, runs>>
      /\ thread_pool' \subseteq thread_pool
      /\ ended' = ended \/ (main = "stop" /\ at = None /\ rest = {} /\ ended' = TRUE)
  BY LoopFrame DEF TypeInv
<1>2. Attached' = Attached /\ \A g : Pool(g)' = Pool(g) BY <1>1 DEF Attached, Pool
<1>3. \A g \in Attached : g \in Groups /\ g # None BY AttachedFacts DEF TypeInv
<1>4. ended' => \A g \in Attached : \A w \in Pool(g) : pc[w] = "exited"
  <2>1. CASE ended' = ended BY <2>1 DEF StopInv
  <2>2. CASE main = "stop" /\ at = None /\ rest = {}
    <3> SUFFICES ASSUME NEW g \in Attached, NEW w \in Pool(g) PROVE pc[w] = "exited"
      OBVIOUS
    <3>1. thread_pool \cap Pool(g) = {} BY <2>2, <1>3 DEF StopInv
    <3>2. w \in Workers /\ w[2] <= threads[w[1]] BY <1>3, PoolFacts DEF TypeInv
    <3> QED BY <3>1, <3>2 DEF TypeInv, ThreadsOK
  <2> QED BY <2>1, <2>2, <1>1
<1>5. main' \in {"stop", "join"} =>
         \A g \in Attached \ rest' : g # at' => thread_pool' \cap Pool(g) = {}
  <2>1. CASE RunWakes BY <2>1 DEF RunWakes
  <2>2. CASE SyncNext BY <2>2 DEF SyncNext
  <2>3. CASE SyncPasses BY <2>3 DEF SyncPasses
  <2>4. CASE SyncParks BY <2>4 DEF SyncParks
  <2>5. CASE MainUnparked BY <2>5 DEF MainUnparked
  <2>6. CASE SyncReturns BY <2>6 DEF SyncReturns
  <2>7. CASE StopNext BY <2>7, <1>1, <1>3 DEF StopNext, StopInv
  <2>8. CASE \E w \in Workers : StopUnparks(w) \/ StopJoins(w)
    BY <2>8, <1>1 DEF StopUnparks, StopJoins, StopInv
  <2>9. CASE StopPasses BY <2>9, <1>1 DEF StopPasses, StopInv
  <2>10. CASE StopReturns BY <2>10 DEF StopReturns
  <2>11. CASE FullSync BY <2>11 DEF FullSync
  <2>12. CASE FullShutdown BY <2>12 DEF FullShutdown
  <2> QED
    BY <2>1, <2>2, <2>3, <2>4, <2>5, <2>6, <2>7, <2>8, <2>9, <2>10, <2>11, <2>12 DEF Loops
<1> QED BY <1>1, <1>2, <1>4, <1>5 DEF StopInv

LEMMA StopInvNext ==
    ASSUME TypeInv, StopInv, [WorkgroupsNext]_workgroupsVars
    PROVE  StopInv'
<1> USE DEF groupVars, handlerVars, mainVars
<1>1. CASE UNCHANGED workgroupsVars
  BY <1>1 DEF workgroupsVars, StopInv, Attached, Pool
<1>2. CASE Loops BY <1>2, StopInvLoops
<1>3. CASE RunCounts BY <1>3 DEF RunCounts, StopInv, Attached, Pool
<1>4. CASE InstallHandler
  <2>1. Attached' = {} BY <1>4 DEF InstallHandler, Attached, Range
  <2> QED BY <2>1 DEF StopInv
<1>5. CASE \E l \in Labels : Run(l) BY <1>5 DEF Run, StopInv, Attached, Pool
<1>6. CASE \E l \in Labels, n \in ThreadCounts : AddWorkgroup(l, n)
  BY <1>6 DEF AddWorkgroup, StopInv
<1>7. CASE \E w \in Workers : Worker(w)
  <2>1. PICK w \in Workers : Worker(w) BY <1>7
  <2>2. /\ pc' = [pc EXCEPT ![w] = pc'[w]] /\ pc[w] # "exited"
        /\ UNCHANGED <<groupVars, mainVars>>
    BY <2>1, WorkerMoves DEF TypeInv
  <2>3. Attached' = Attached /\ \A g : Pool(g)' = Pool(g) BY <2>2 DEF Attached, Pool
  <2>4. \A v \in Workers : pc[v] = "exited" => pc'[v] = "exited"
    BY <2>2 DEF TypeInv, ThreadsOK
  <2>5. \A g \in Attached : Pool(g) \subseteq Workers
    BY AttachedFacts, PoolFacts DEF TypeInv
  <2> QED BY <2>2, <2>3, <2>4, <2>5 DEF StopInv
<1> QED BY <1>1, <1>2, <1>3, <1>4, <1>5, <1>6, <1>7 DEF WorkgroupsNext, Main, Client, Loops

(* When full_shutdown has returned the threads of every group that has a   *)
(* label have ended (workgroups.rs:90 to 108).                             *)
THEOREM ShutdownReachesAll == WorkgroupsSpec => []ShutdownCoversAttached
<1>1. WorkgroupsInit => StopInv BY DEF WorkgroupsInit, StopInv
<1>2. StopInv => ShutdownCoversAttached BY DEF StopInv, ShutdownCoversAttached
<1> QED BY <1>1, <1>2, StopInvNext, TypeInvariant, PTL DEF WorkgroupsSpec

-----------------------------------------------------------------------------
(* full_sync: how many tasks a group has left.  They are counted as a set, *)
(* one element for each task in the queue (place 0) or with a worker.      *)

UnitsOf(m, f) == {u \in (0..m) \X Nat : 1 <= u[2] /\ u[2] <= f[u[1]]}

\* g is f with n more at j.
More(f, g, j, n) == g = [f EXCEPT ![j] = f[j] + n]

\* More tasks at one place.
LEMMA UnitsAdded ==
    ASSUME NEW m \in Nat, NEW f \in [0..m -> Nat], NEW j \in 0..m, NEW n \in Nat,
           IsFiniteSet(UnitsOf(m, f)),
           NEW g, More(f, g, j, n)
    PROVE  /\ IsFiniteSet(UnitsOf(m, g)) /\ Cardinality(UnitsOf(m, f)) \in Nat
           /\ Cardinality(UnitsOf(m, g)) = Cardinality(UnitsOf(m, f)) + n
<1> DEFINE more == {j} \X (f[j] + 1 .. f[j] + n)
<1>1. f[j] \in Nat /\ g[j] = f[j] + n /\ \A i \in 0..m : i # j => g[i] = f[i] BY DEF More
<1>2. IsFiniteSet(more) /\ Cardinality(more) = n
  <2> DEFINE lo == f[j] + 1
             hi == f[j] + n
             seg == lo..hi
  <2>1. IsFiniteSet({j}) /\ Cardinality({j}) = 1 BY FS_Singleton
  <2>2. lo \in Int /\ hi \in Int /\ (lo > hi <=> n = 0) BY <1>1
  <2>3. hi - lo + 1 = n BY <1>1
  <2> HIDE DEF lo, hi
  <2>4. IsFiniteSet(seg) /\ Cardinality(seg) = IF lo > hi THEN 0 ELSE hi - lo + 1
    BY <2>2, FS_Interval
  <2>5. IsFiniteSet(seg) /\ Cardinality(seg) = n BY <2>2, <2>3, <2>4
  <2> HIDE DEF seg
  <2>6. IsFiniteSet({j} \X seg) /\ Cardinality({j} \X seg) = Cardinality({j}) * Cardinality(seg)
    BY <2>1, <2>5, FS_Product
  <2>7. Cardinality({j}) * Cardinality(seg) = n BY <2>1, <2>5
  <2> QED BY <2>6, <2>7 DEF seg, lo, hi
<1>3. UnitsOf(m, g) = UnitsOf(m, f) \cup more
  <2>1. ASSUME NEW u \in UnitsOf(m, g) PROVE u \in UnitsOf(m, f) \cup more
    <3>1. u \in (0..m) \X Nat /\ 1 <= u[2] /\ u[2] <= g[u[1]] BY <2>1 DEF UnitsOf
    <3>2. CASE u[1] # j BY <3>1, <3>2, <1>1 DEF UnitsOf
    <3>3. CASE u[1] = j /\ u[2] <= f[j] BY <3>1, <3>3, <1>1 DEF UnitsOf
    <3>4. CASE u[1] = j /\ ~(u[2] <= f[j])
      <4>1. u = <<j, u[2]>> /\ u[2] \in f[j] + 1 .. f[j] + n BY <3>1, <3>4, <1>1
      <4> QED BY <4>1
    <3> QED BY <3>2, <3>3, <3>4
  <2>2. ASSUME NEW u \in UnitsOf(m, f) PROVE u \in UnitsOf(m, g)
    <3>1. u \in (0..m) \X Nat /\ 1 <= u[2] /\ u[2] <= f[u[1]] BY <2>2 DEF UnitsOf
    <3>2. f[u[1]] <= g[u[1]] /\ g[u[1]] \in Nat /\ f[u[1]] \in Nat BY <3>1, <1>1
    <3> QED BY <3>1, <3>2 DEF UnitsOf
  <2>3. ASSUME NEW u \in more PROVE u \in UnitsOf(m, g)
    <3>1. u[1] = j /\ u[2] \in f[j] + 1 .. f[j] + n /\ u \in (0..m) \X Nat BY <2>3, <1>1
    <3> QED BY <3>1, <1>1 DEF UnitsOf
  <2> QED BY <2>1, <2>2, <2>3
<1>4. UnitsOf(m, f) \cap more = {}
  <2>1. \A u \in more : u[1] = j /\ u[2] > f[j] BY <1>1
  <2>2. \A u \in UnitsOf(m, f) : u[2] \in Nat /\ u[2] <= f[u[1]] BY DEF UnitsOf
  <2> QED BY <2>1, <2>2, <1>1, SMTT(30)
<1> DEFINE old == UnitsOf(m, f)
<1> HIDE DEF more, old
<1>5. IsFiniteSet(old) /\ old \cap more = {} BY <1>4 DEF old
<1>6. IsFiniteSet(old \cup more)
      /\ Cardinality(old \cup more) = Cardinality(old) + Cardinality(more) - Cardinality(old \cap more)
  BY <1>2, <1>5, FS_Union
<1>7. Cardinality(old \cap more) = 0 /\ Cardinality(old) \in Nat
  BY <1>5, FS_EmptySet, FS_CardinalityType
<1>8. Cardinality(old \cup more) = Cardinality(old) + n BY <1>2, <1>6, <1>7
<1> QED BY <1>3, <1>6, <1>7, <1>8 DEF old

\* Fewer tasks at one place.
LEMMA UnitsRemoved ==
    ASSUME NEW m \in Nat, NEW f \in [0..m -> Nat], NEW j \in 0..m, NEW n \in Nat,
           IsFiniteSet(UnitsOf(m, f)),
           NEW g \in [0..m -> Nat], More(g, f, j, n)
    PROVE  /\ IsFiniteSet(UnitsOf(m, g)) /\ Cardinality(UnitsOf(m, g)) \in Nat
           /\ Cardinality(UnitsOf(m, f)) = Cardinality(UnitsOf(m, g)) + n
<1>1. UnitsOf(m, g) \subseteq UnitsOf(m, f)
  <2> SUFFICES ASSUME NEW u \in UnitsOf(m, g) PROVE u \in UnitsOf(m, f)
    OBVIOUS
  <2>1. u \in (0..m) \X Nat /\ 1 <= u[2] /\ u[2] <= g[u[1]] BY DEF UnitsOf
  <2>2. g[u[1]] <= f[u[1]] /\ g[u[1]] \in Nat /\ f[u[1]] \in Nat BY <2>1 DEF More
  <2> QED BY <2>1, <2>2 DEF UnitsOf
<1>2. IsFiniteSet(UnitsOf(m, g)) BY <1>1, FS_Subset
<1> QED BY <1>2, UnitsAdded

\* No tasks.
LEMMA UnitsEmpty ==
    ASSUME NEW m \in Nat, NEW f \in [0..m -> Nat]
    PROVE  UnitsOf(m, f) = {} <=> \A j \in 0..m : f[j] = 0
<1>1. ASSUME NEW j \in 0..m, f[j] # 0 PROVE <<j, 1>> \in UnitsOf(m, f)
  <2>1. f[j] \in Nat /\ f[j] >= 1 BY <1>1
  <2> QED BY <2>1 DEF UnitsOf
<1>2. ASSUME NEW u \in UnitsOf(m, f) PROVE f[u[1]] # 0 /\ u[1] \in 0..m
  BY <1>2 DEF UnitsOf
<1> QED BY <1>1, <1>2

\* The tasks of group g at each place.
Load(g) == [j \in 0..threads[g] |-> IF j = 0 THEN queue[g] ELSE taken[<<g, j>>]]
Units(g) == UnitsOf(threads[g], Load(g))

\* The tasks that execute() has pushed and not yet counted in.
Uncounted(g) == IF main = "count" /\ at = g THEN Systems ELSE 0

\* A counter of c tasks of which u are not counted in yet.
Counter(c, u) == IF c < u THEN c - u + Usize ELSE c - u

\* The counter, modulo its width, is the number of tasks there are.
Counted(g) ==
    /\ IsFiniteSet(Units(g)) /\ Cardinality(Units(g)) \in Nat
    /\ Cardinality(Units(g)) <= runs * Systems
    /\ tasks[g] = Counter(Cardinality(Units(g)), Uncounted(g))

CountInv == \A g \in Groups : Counted(g)

\* The groups that full_sync has been at have no tasks left.
SyncInv ==
    /\ quiet => \A g \in Attached : Units(g) = {}
    /\ main \in {"sync", "parked"} => \A g \in Attached \ rest : g # at => Units(g) = {}

LEMMA LoadFacts ==
    ASSUME TypeInv, NEW g \in Groups
    PROVE  /\ threads[g] \in Nat
           /\ Load(g) \in [0..threads[g] -> Nat]
           /\ \A j \in 1..threads[g] : <<g, j>> \in Workers /\ <<g, j>> \in Pool(g)
<1>1. threads[g] \in Nat BY PoolFacts DEF TypeInv
<1>2. \A j \in 1..threads[g] : <<g, j>> \in Workers /\ <<g, j>> \in Pool(g)
  <2> TAKE j \in 1..threads[g]
  <2>1. <<g, j>> \in Pool(g) BY DEF Pool
  <2> QED BY <2>1, PoolFacts DEF TypeInv
<1>3. queue[g] \in Nat /\ \A w \in Workers : taken[w] \in Nat BY DEF TypeInv, CountersOK
<1>4. \A j \in 0..threads[g] : j = 0 \/ j \in 1..threads[g] BY <1>1
<1> QED BY <1>1, <1>2, <1>3, <1>4 DEF Load

\* A group without tasks has none in its queues or with its workers.
LEMMA EmptyGroup ==
    ASSUME TypeInv, NEW g \in Groups, Units(g) = {}
    PROVE  queue[g] = 0 /\ \A w \in Pool(g) : taken[w] = 0
<1>1. \A j \in 0..threads[g] : Load(g)[j] = 0 BY LoadFacts, UnitsEmpty DEF Units
<1>2. Load(g)[0] = queue[g] /\ 0 \in 0..threads[g] BY LoadFacts DEF Load
<1>3. \A w \in Pool(g) : w = <<g, w[2]>> /\ w[2] \in 1..threads[g] BY DEF Pool
<1>4. \A j \in 1..threads[g] : j \in 0..threads[g] /\ j # 0 BY LoadFacts
<1>5. \A j \in 1..threads[g] : Load(g)[j] = taken[<<g, j>>] BY <1>4 DEF Load
<1> QED BY <1>1, <1>2, <1>3, <1>4, <1>5

\* A step of a worker loses no task, and counts those that it ends.
LEMMA WorkerUnits ==
    ASSUME TypeInv, NEW w \in Workers, Worker(w), NEW g \in Groups, IsFiniteSet(Units(g))
    PROVE  /\ IsFiniteSet(Units(g)')
           /\ \E k \in Nat : /\ Cardinality(Units(g)) = Cardinality(Units(g)') + k
                             /\ Cardinality(Units(g)') \in Nat
                             /\ \/ k = 0 /\ tasks'[g] = tasks[g]
                                \/ tasks'[g] = (tasks[g] - k) % Usize
<1> DEFINE m == threads[g]
           f == Load(g)
           h == [j \in 0..m |-> IF j = 0 THEN queue'[g] ELSE taken'[<<g, j>>]]
<1>1. /\ pc[w] # "none" /\ threads' = threads
  BY WorkerMoves DEF TypeInv, groupVars, handlerVars
<1>2. m \in Nat /\ f \in [0..m -> Nat] /\ IsFiniteSet(UnitsOf(m, f)) BY LoadFacts DEF Units
<1>3. Units(g)' = UnitsOf(m, h) /\ Units(g) = UnitsOf(m, f) BY <1>1 DEF Units, Load
<1>4. h \in [0..m -> Nat]
  <2>1. TypeInv' BY WorkerTypes
  <2>2. queue' \in [Groups -> Nat] /\ taken' \in [Workers -> Nat] BY <2>1 DEF TypeInv, CountersOK
  <2>3. \A j \in 0..m : j = 0 \/ <<g, j>> \in Workers BY <1>2, LoadFacts
  <2> QED BY <2>2, <2>3
<1>5. CASE queue'[g] = queue[g] /\ tasks'[g] = tasks[g] /\ \A j \in 1..m : taken'[<<g, j>>] = taken[<<g, j>>]
  <2>1. \A j \in 0..m : j = 0 \/ j \in 1..m BY <1>2
  <2>2. h = f BY <1>5, <2>1 DEF Load
  <2> HIDE DEF m, f, h
  <2>3. Cardinality(UnitsOf(m, f)) \in Nat BY <1>2, FS_CardinalityType
  <2>4. /\ IsFiniteSet(UnitsOf(m, h)) /\ Cardinality(UnitsOf(m, h)) \in Nat
        /\ Cardinality(UnitsOf(m, f)) = Cardinality(UnitsOf(m, h)) + 0
    BY <2>2, <2>3, <1>2
  <2>5. tasks'[g] = tasks[g] BY <1>5
  <2> QED BY <2>4, <2>5, <1>3
<1>6. ASSUME w[1] = g PROVE w[2] \in 1..m /\ w = <<g, w[2]>> /\ w[2] # 0
  BY <1>1, <1>6, WorkerFacts, <1>2 DEF TypeInv, ThreadsOK
<1>7. ASSUME w[1] # g PROVE \A j \in 1..m : <<g, j>> # w
  BY <1>7
<1>8. CASE Works(w) /\ w[1] = g
  <2>1. PICK n \in (IF queue[w[1]] = 0 THEN {0} ELSE 1..queue[w[1]]) :
           /\ taken' = [taken EXCEPT ![w] = n]
           /\ queue' = [queue EXCEPT ![w[1]] = @ - n]
    BY <1>8 DEF Works
  <2>2. queue[g] \in Nat /\ n \in Nat /\ queue[g] - n \in Nat
    <3>1. queue[g] \in Nat BY DEF TypeInv, CountersOK
    <3> QED BY <3>1, <2>1, <1>8
  <2>3. taken[w] = 0
    <3>1. pc[w] = "start" BY <1>8 DEF Works, Goto
    <3> QED BY <3>1 DEF TypeInv, CountersOK
  <2>4. /\ queue'[g] = queue[g] - n /\ taken'[w] = n
        /\ \A v \in Workers : v # w => taken'[v] = taken[v]
    BY <2>1, <1>8 DEF TypeInv, CountersOK
  <2> DEFINE mid == [j \in 0..m |-> IF j = 0 THEN queue[g] - n ELSE f[j]]
  <2>5. mid \in [0..m -> Nat] /\ More(mid, f, 0, n) /\ 0 \in 0..m
    <3>1. mid \in [0..m -> Nat] /\ 0 \in 0..m BY <1>2, <2>2
    <3>2. f[0] = queue[g] BY <1>2 DEF Load
    <3>3. f = [mid EXCEPT ![0] = mid[0] + n] BY <1>2, <2>2, <3>1, <3>2
    <3> QED BY <3>1, <3>3 DEF More
  <2>6. More(mid, h, w[2], n) /\ w[2] \in 0..m
    <3>1. w[2] \in 0..m /\ w[2] # 0 /\ w[2] \in 1..m BY <1>2, <1>6, <1>8
    <3>2. mid[w[2]] = 0
      <4>1. f[w[2]] = taken[<<g, w[2]>>] BY <3>1 DEF Load
      <4> QED BY <4>1, <3>1, <2>3, <1>6, <1>8
    <3>3. \A j \in 0..m : h[j] = IF j = w[2] THEN n ELSE mid[j]
      <4> TAKE j \in 0..m
      <4>1. CASE j = 0 BY <4>1, <3>1, <2>4
      <4>2. CASE j = w[2] BY <4>2, <3>1, <2>4, <1>6, <1>8
      <4>3. CASE j # 0 /\ j # w[2]
        <5>1. j \in 1..m /\ <<g, j>> \in Workers /\ <<g, j>> # w BY <4>3, <1>2, LoadFacts
        <5>2. h[j] = taken[<<g, j>>] BY <5>1, <4>3, <2>4
        <5>3. mid[j] = f[j] /\ f[j] = taken[<<g, j>>] BY <4>3 DEF Load
        <5> QED BY <5>2, <5>3, <4>3
      <4> QED BY <4>1, <4>2, <4>3
    <3> HIDE DEF m, mid, h, f
    <3>4. h = [mid EXCEPT ![w[2]] = mid[w[2]] + n]
      <4>1. mid \in [0..m -> Nat] /\ h \in [0..m -> Nat] BY <1>4, <2>5
      <4> QED BY <4>1, <3>1, <3>2, <3>3, <2>2
    <3> QED BY <3>1, <3>4 DEF More
  <2> HIDE DEF m, mid, h, f
  <2> DEFINE j == w[2]
  <2>11. j \in 0..m /\ More(mid, h, j, n) BY <2>6
  <2> HIDE DEF j
  <2>7. /\ IsFiniteSet(UnitsOf(m, mid)) /\ Cardinality(UnitsOf(m, mid)) \in Nat
        /\ Cardinality(UnitsOf(m, f)) = Cardinality(UnitsOf(m, mid)) + n
    BY <1>2, <2>2, <2>5, UnitsRemoved, ZenonT(60)
  <2>8. /\ IsFiniteSet(UnitsOf(m, h))
        /\ Cardinality(UnitsOf(m, h)) = Cardinality(UnitsOf(m, mid)) + n
    <3>1. m \in Nat /\ mid \in [0..m -> Nat] /\ n \in Nat /\ IsFiniteSet(UnitsOf(m, mid))
      BY <1>2, <2>2, <2>5, <2>7
    <3> QED BY <3>1, <2>11, UnitsAdded
  <2>9. Cardinality(UnitsOf(m, f)) = Cardinality(UnitsOf(m, h)) + 0
        /\ Cardinality(UnitsOf(m, h)) \in Nat
    BY <2>2, <2>7, <2>8
  <2>10. tasks'[g] = tasks[g] BY <1>8 DEF Works
  <2> QED BY <2>8, <2>9, <2>10, <1>3
<1>9. CASE Settles(w) /\ w[1] = g
  <2> DEFINE n == taken[w]
  <2>1. /\ tasks' = [tasks EXCEPT ![w[1]] = (tasks[w[1]] - n) % Usize]
        /\ taken' = [taken EXCEPT ![w] = 0] /\ queue' = queue
    BY <1>9 DEF Settles
  <2>2. /\ n \in Nat /\ tasks'[g] = (tasks[g] - n) % Usize /\ taken'[w] = 0
        /\ \A v \in Workers : v # w => taken'[v] = taken[v]
    BY <2>1, <1>9 DEF TypeInv, CountersOK
  <2>3. More(h, f, w[2], n) /\ w[2] \in 0..m
    <3>1. w[2] \in 0..m /\ w[2] # 0 /\ w[2] \in 1..m BY <1>2, <1>6, <1>9
    <3>2. f[w[2]] = n /\ h[w[2]] = 0 BY <3>1, <2>2, <1>6, <1>9 DEF Load
    <3>3. \A j \in 0..m : j # w[2] => f[j] = h[j]
      <4> SUFFICES ASSUME NEW j \in 0..m, j # w[2] PROVE f[j] = h[j]
        OBVIOUS
      <4>1. CASE j = 0 BY <4>1, <2>1 DEF Load
      <4>2. CASE j # 0
        <5>1. j \in 1..m /\ <<g, j>> \in Workers /\ <<g, j>> # w BY <4>2, <1>2, LoadFacts
        <5>2. f[j] = taken[<<g, j>>] BY <4>2 DEF Load
        <5> QED BY <5>1, <5>2, <4>2, <2>2
      <4> QED BY <4>1, <4>2
    <3> HIDE DEF f, h, n
    <3>4. f = [h EXCEPT ![w[2]] = h[w[2]] + n] BY <3>1, <3>2, <3>3, <1>2, <1>4, <2>2
    <3> QED BY <3>1, <3>4 DEF More
  <2> HIDE DEF m, f, h, n
  <2> DEFINE j == w[2]
  <2>11. j \in 0..m /\ More(h, f, j, n) BY <2>3
  <2> HIDE DEF j
  <2>4. /\ IsFiniteSet(UnitsOf(m, h)) /\ Cardinality(UnitsOf(m, h)) \in Nat
        /\ Cardinality(UnitsOf(m, f)) = Cardinality(UnitsOf(m, h)) + n
    <3>1. /\ m \in Nat /\ f \in [0..m -> Nat] /\ h \in [0..m -> Nat] /\ n \in Nat
          /\ IsFiniteSet(UnitsOf(m, f))
      BY <1>2, <1>4, <2>2
    <3> QED BY <3>1, <2>11, UnitsRemoved
  <2> QED BY <2>2, <2>4, <1>3
<1>10. CASE (Works(w) \/ Settles(w)) /\ w[1] # g
  <2>1. queue'[g] = queue[g] /\ tasks'[g] = tasks[g]
    BY <1>10 DEF Works, Settles, TypeInv, CountersOK
  <2>2. \A v \in Workers : v # w => taken'[v] = taken[v]
    BY <1>10 DEF Works, Settles, TypeInv, CountersOK
  <2> QED BY <2>1, <2>2, <1>5, <1>7, <1>10, LoadFacts
<1>11. CASE ChecksShutdown(w) \/ Parks(w) \/ Unparked(w)
  BY <1>5, <1>11 DEF ChecksShutdown, Parks, Unparked, taskVars
<1> QED BY <1>8, <1>9, <1>10, <1>11 DEF Worker

\* The counters do not wrap.
NoWrap == MaxRuns * Systems < Usize

LEMMA RunsBound ==
    ASSUME NoWrap, NEW r \in 0..MaxRuns
    PROVE  /\ r * Systems \in Nat /\ r * Systems < Usize
           /\ (r + 1) * Systems = r * Systems + Systems
<1>1. MaxRuns \in Nat /\ Systems \in Nat /\ Usize \in Nat BY WorkgroupsAssumption
<1>2. r \in Nat /\ MaxRuns - r \in Nat BY <1>1
<1>3. (MaxRuns - r) * Systems \in Nat BY <1>1, <1>2
<1>4. MaxRuns * Systems = r * Systems + (MaxRuns - r) * Systems BY <1>1, <1>2
<1> QED BY <1>1, <1>2, <1>3, <1>4 DEF NoWrap

LEMMA SmallMod ==
    ASSUME NEW U \in Nat, U > 0
    PROVE  /\ \A c \in 0..U - 1 : c % U = c
           /\ \A c \in (-U)..(-1) : c % U = c + U
           /\ \A c \in U..2 * U - 1 : c % U = c - U
<1>1. \A c \in 0..U - 1 : c % U = c OBVIOUS
<1>2. \A c \in (-U)..(-1) : c % U = c + U OBVIOUS
<1>3. \A c \in U..2 * U - 1 : c % U = c - U OBVIOUS
<1> QED BY <1>1, <1>2, <1>3

\* fetch_sub and fetch_add of the counter.
LEMMA CounterSteps ==
    ASSUME NEW c \in Nat, c < Usize, NEW u \in {0, Systems}
    PROVE  /\ \A k \in Nat : \A d \in Nat :
                c = d + k => (Counter(c, u) - k) % Usize = Counter(d, u)
           /\ (Counter(c, Systems) + Systems) % Usize = Counter(c, 0)
<1>1. /\ Usize \in Nat /\ Usize > 0 /\ Systems \in Nat /\ Systems < Usize /\ Systems > 0
  BY WorkgroupsAssumption
<1>2. u \in Nat /\ u < Usize BY <1>1
<1>3. ASSUME NEW k \in Nat, NEW d \in Nat, c = d + k
      PROVE  (Counter(c, u) - k) % Usize = Counter(d, u)
  <2>1. CASE c < u
    <3>1. Counter(c, u) - k = d - u + Usize /\ Counter(d, u) = d - u + Usize
      BY <1>1, <1>2, <1>3, <2>1 DEF Counter
    <3>2. d - u + Usize \in 0..Usize - 1 BY <1>1, <1>2, <1>3, <2>1
    <3> QED BY <1>1, <3>1, <3>2, SmallMod
  <2>2. CASE ~(c < u)
    <3>1. Counter(c, u) - k = d - u BY <1>1, <1>2, <1>3, <2>2 DEF Counter
    <3>2. CASE d < u
      <4>1. d - u \in (-Usize)..(-1) BY <1>1, <1>2, <1>3, <3>2
      <4> QED BY <1>1, <3>1, <3>2, <4>1, SmallMod DEF Counter
    <3>3. CASE ~(d < u)
      <4>1. d - u \in 0..Usize - 1 BY <1>1, <1>2, <1>3, <3>3
      <4> QED BY <1>1, <3>1, <3>3, <4>1, SmallMod DEF Counter
    <3> QED BY <3>2, <3>3
  <2> QED BY <2>1, <2>2
<1>4. (Counter(c, Systems) + Systems) % Usize = Counter(c, 0)
  <2>1. Counter(c, 0) = c BY DEF Counter
  <2>2. CASE c < Systems
    <3>1. Counter(c, Systems) + Systems = c + Usize BY <1>1, <2>2 DEF Counter
    <3>2. c + Usize \in Usize..2 * Usize - 1 /\ (c + Usize) - Usize = c BY <1>1
    <3>3. (c + Usize) % Usize = (c + Usize) - Usize BY <1>1, <3>2, SmallMod
    <3> QED BY <2>1, <3>1, <3>2, <3>3
  <2>3. CASE ~(c < Systems)
    <3>1. Counter(c, Systems) + Systems = c BY <1>1, <2>3 DEF Counter
    <3>2. c \in 0..Usize - 1 BY <1>1
    <3> QED BY <1>1, <2>1, <3>1, <3>2, SmallMod
  <2> QED BY <2>2, <2>3
<1> QED BY <1>3, <1>4

LEMMA UnitsKept ==
    ASSUME UNCHANGED <<threads, queue, taken>>
    PROVE  \A g : Units(g)' = Units(g)
BY DEF Units, Load

LEMMA UncountedFacts == \A g : Uncounted(g) \in {0, Systems} /\ (main # "count" => Uncounted(g) = 0)
BY DEF Uncounted

LEMMA CountInvWorker ==
    ASSUME NoWrap, TypeInv, CountInv, NEW w \in Workers, Worker(w), NEW g \in Groups
    PROVE  Counted(g)'
<1> DEFINE c == Cardinality(Units(g))
           d == Cardinality(Units(g)')
           u == Uncounted(g)
<1>1. IsFiniteSet(Units(g)) /\ c \in Nat /\ c <= runs * Systems /\ tasks[g] = Counter(c, u)
  BY DEF CountInv, Counted
<1>2. UNCHANGED <<main, at, runs>> BY WorkerMoves DEF TypeInv, mainVars, runVars
<1>3. Uncounted(g)' = u /\ u \in {0, Systems} BY <1>2, UncountedFacts DEF Uncounted
<1>4. runs * Systems \in Nat /\ runs * Systems < Usize BY RunsBound DEF TypeInv, MainOK
<1>5. /\ IsFiniteSet(Units(g)')
      /\ \E k \in Nat : /\ c = d + k /\ d \in Nat
                        /\ \/ k = 0 /\ tasks'[g] = tasks[g]
                           \/ tasks'[g] = (tasks[g] - k) % Usize
  BY <1>1, WorkerUnits
<1>6. PICK k \in Nat : /\ c = d + k /\ d \in Nat
                       /\ \/ k = 0 /\ tasks'[g] = tasks[g]
                          \/ tasks'[g] = (tasks[g] - k) % Usize
  BY <1>5
<1> HIDE DEF c, d, u
<1>7. c < Usize /\ d <= runs * Systems
  <2>1. c \in Nat /\ c <= runs * Systems /\ Usize \in Nat BY <1>1, WorkgroupsAssumption
  <2> DEFINE b == runs * Systems
  <2>2. b \in Nat /\ b < Usize /\ c <= b BY <1>4, <2>1
  <2> HIDE DEF b
  <2>3. c < Usize /\ d <= b BY <1>6, <2>1, <2>2
  <2> QED BY <2>3 DEF b
<1>8. tasks'[g] = Counter(d, u)
  <2>1. CASE k = 0 /\ tasks'[g] = tasks[g]
    <3>1. c = d BY <1>6, <2>1
    <3> QED BY <1>1, <2>1, <3>1
  <2>2. CASE tasks'[g] = (tasks[g] - k) % Usize
    <3>1. (Counter(c, u) - k) % Usize = Counter(d, u)
      BY <1>1, <1>3, <1>6, <1>7, CounterSteps
    <3> QED BY <1>1, <2>2, <3>1
  <2> QED BY <1>6, <2>1, <2>2
<1>9. /\ Cardinality(Units(g)') = d /\ Cardinality(Units(g)') \in Nat
      /\ Cardinality(Units(g)') <= runs' * Systems
  BY <1>2, <1>6, <1>7 DEF d
<1> QED BY <1>3, <1>5, <1>8, <1>9 DEF Counted

\* execute() pushes ...
LEMMA CountInvRun ==
    ASSUME NoWrap, TypeInv, CountInv, NEW l \in Labels, Run(l), NEW g \in Groups
    PROVE  Counted(g)'
<1> DEFINE c == Cardinality(Units(g))
           d == Cardinality(Units(g)')
           b == runs * Systems
           x == workgroups[l]
<1>1. /\ main = "idle" /\ x # None /\ runs < MaxRuns
      /\ main' = "count" /\ at' = x
      /\ queue' = [queue EXCEPT ![x] = @ + Systems]
      /\ runs' = runs + 1 /\ UNCHANGED <<threads, tasks, taken>>
  BY DEF Run, groupVars, handlerVars
<1>2. IsFiniteSet(Units(g)) /\ c \in Nat /\ c <= b /\ tasks[g] = Counter(c, Uncounted(g))
  BY DEF CountInv, Counted
<1>3. Uncounted(g) = 0 BY <1>1, UncountedFacts
<1>4. runs' * Systems = b + Systems /\ b \in Nat BY <1>1, RunsBound DEF TypeInv, MainOK
<1>5. Systems \in Nat BY WorkgroupsAssumption
<1>6. CASE g = x
  <2>1. Uncounted(g)' = Systems BY <1>1, <1>6 DEF Uncounted
  <2>2. queue'[g] = queue[g] + Systems BY <1>1, <1>6 DEF TypeInv, CountersOK
  <2> DEFINE m == threads[g]
             f == Load(g)
             h == [j \in 0..m |-> IF j = 0 THEN queue'[g] ELSE taken'[<<g, j>>]]
  <2>3. Units(g)' = UnitsOf(m, h) /\ Units(g) = UnitsOf(m, f) BY <1>1 DEF Units, Load
  <2>4. m \in Nat /\ f \in [0..m -> Nat] /\ 0 \in 0..m BY LoadFacts
  <2>5. h = [f EXCEPT ![0] = f[0] + Systems]
    <3>1. f[0] = queue[g] BY <2>4 DEF Load
    <3>2. h[0] = f[0] + Systems BY <3>1, <2>2, <2>4
    <3>3. \A j \in 0..m : j # 0 => h[j] = f[j] BY <1>1 DEF Load
    <3> QED BY <2>4, <3>2, <3>3
  <2>6. More(f, h, 0, Systems) BY <2>5 DEF More
  <2> HIDE DEF m, f, h, c, d, b, x
  <2>7. IsFiniteSet(UnitsOf(m, f)) BY <1>2, <2>3
  <2>8. /\ IsFiniteSet(UnitsOf(m, h))
        /\ Cardinality(UnitsOf(m, h)) = Cardinality(UnitsOf(m, f)) + Systems
    BY <1>5, <2>4, <2>6, <2>7, UnitsAdded
  <2>9. IsFiniteSet(Units(g)') /\ d = c + Systems BY <2>3, <2>8 DEF c, d
  <2>10. d \in Nat /\ d <= b + Systems BY <1>2, <1>4, <1>5, <2>9
  <2>11. Counter(d, Systems) = Counter(c, 0) BY <1>2, <1>5, <2>9 DEF Counter
  <2>12. Cardinality(Units(g)') = d BY DEF d
  <2> QED BY <1>1, <1>2, <1>3, <1>4, <2>1, <2>9, <2>10, <2>11, <2>12 DEF Counted
<1>7. CASE g # x
  <2>1. Uncounted(g)' = 0 BY <1>1, <1>7 DEF Uncounted
  <2>2. queue'[g] = queue[g] BY <1>1, <1>7 DEF TypeInv, CountersOK
  <2>3. Units(g)' = Units(g) BY <1>1, <2>2 DEF Units, Load
  <2>4. c <= b + Systems BY <1>2, <1>4, <1>5
  <2> QED BY <1>1, <1>2, <1>3, <1>4, <2>1, <2>3, <2>4 DEF Counted
<1> QED BY <1>6, <1>7

\* ... and counts in.
LEMMA CountInvRunCounts ==
    ASSUME NoWrap, TypeInv, CountInv, RunCounts, NEW g \in Groups
    PROVE  Counted(g)'
<1> DEFINE c == Cardinality(Units(g))
           b == runs * Systems
<1>1. /\ main = "count" /\ main' = "wake"
      /\ tasks' = [tasks EXCEPT ![at] = (@ + Systems) % Usize]
      /\ UNCHANGED <<threads, queue, taken, at, runs>>
  BY DEF RunCounts, groupVars, handlerVars, runVars
<1>2. IsFiniteSet(Units(g)) /\ c \in Nat /\ c <= b /\ tasks[g] = Counter(c, Uncounted(g))
  BY DEF CountInv, Counted
<1>3. b \in Nat /\ b < Usize BY RunsBound DEF TypeInv, MainOK
<1>4. Units(g)' = Units(g) /\ Uncounted(g)' = 0 BY <1>1, UnitsKept DEF Uncounted
<1>5. tasks'[g] = Counter(c, 0)
  <2>1. CASE g = at
    <3>1. Uncounted(g) = Systems BY <1>1, <2>1 DEF Uncounted
    <3>2. tasks'[g] = (Counter(c, Systems) + Systems) % Usize
      BY <1>1, <1>2, <2>1, <3>1 DEF TypeInv, CountersOK
    <3> HIDE DEF c, b
    <3>3. c < Usize BY <1>2, <1>3, WorkgroupsAssumption
    <3> QED BY <1>2, <3>2, <3>3, CounterSteps
  <2>2. CASE g # at
    <3>1. Uncounted(g) = 0 /\ tasks'[g] = tasks[g] BY <1>1, <2>2 DEF Uncounted, TypeInv, CountersOK
    <3> QED BY <1>2, <3>1
  <2> QED BY <2>1, <2>2
<1> QED BY <1>1, <1>2, <1>4, <1>5 DEF Counted

\* A new group has no tasks.
LEMMA AddWorkgroupUnits ==
    ASSUME TypeInv, TypeInv', NEW l \in Labels, NEW n \in ThreadCounts, AddWorkgroup(l, n),
           NEW g \in Groups, IsFiniteSet(Units(g))
    PROVE  /\ g # made + 1 => Units(g)' = Units(g)
           /\ g = made + 1 => Units(g)' = {} /\ Units(g) = {}
<1> DEFINE x == made + 1
           new == {x} \X (1..n)
<1>1. /\ threads' = [threads EXCEPT ![x] = n] /\ UNCHANGED taskVars
      /\ pc' = [w \in Workers |-> IF w \in new THEN "start" ELSE pc[w]]
      /\ made < MaxGroups /\ made' = x
  BY DEF AddWorkgroup
<1>2. CASE g # x
  <2>1. threads'[g] = threads[g] BY <1>1, <1>2 DEF TypeInv, HandlerOK
  <2> QED BY <1>1, <1>2, <2>1 DEF Units, Load, taskVars
<1>3. CASE g = x
  <2>1. made \in Nat BY WorkgroupsAssumption DEF TypeInv, HandlerOK
  <2>2. queue[g] = 0 /\ threads[g] = 0 BY <1>3, <2>1 DEF TypeInv, HandlerOK, CountersOK
  <2>3. threads'[g] \in Nat /\ n \in Nat /\ threads'[g] = n
    BY <1>1, <1>3, WorkgroupsAssumption DEF TypeInv, HandlerOK
  <2>4. \A j \in 1..n : taken[<<g, j>>] = 0
    <3> TAKE j \in 1..n
    <3>1. <<g, j>> \in new /\ <<g, j>> \in Workers BY <1>3 DEF Workers
    <3>2. pc'[<<g, j>>] = "start" BY <1>1, <3>1
    <3>3. taken'[<<g, j>>] = 0 BY <3>1, <3>2 DEF TypeInv, CountersOK
    <3> QED BY <1>1, <3>3 DEF taskVars
  <2> DEFINE h == [j \in 0..n |-> IF j = 0 THEN queue[g] ELSE taken[<<g, j>>]]
  <2>5. Units(g)' = UnitsOf(n, h) BY <1>1, <2>3 DEF Units, Load, taskVars
  <2>6. \A j \in 0..n : h[j] = 0
    <3> TAKE j \in 0..n
    <3>1. CASE j = 0 BY <2>2, <3>1
    <3>2. CASE j # 0
      <4>1. j \in 1..n BY <2>3, <3>2
      <4> QED BY <2>4, <3>2, <4>1
    <3> QED BY <3>1, <3>2
  <2>7. h \in [0..n -> Nat]
    <3>1. \A j \in 0..n : h[j] \in Nat BY <2>6
    <3> QED BY <3>1
  <2>8. \A j \in 0..threads[g] : Load(g)[j] = 0 BY <2>2 DEF Load
  <2>9. Units(g) = {} BY <2>8, LoadFacts, UnitsEmpty DEF Units
  <2> HIDE DEF h
  <2>10. UnitsOf(n, h) = {} BY <2>3, <2>6, <2>7, UnitsEmpty
  <2> QED BY <2>5, <2>9, <2>10, <1>3
<1> QED BY <1>2, <1>3

LEMMA CountInvNext ==
    ASSUME NoWrap, TypeInv, TypeInv', CountInv, [WorkgroupsNext]_workgroupsVars
    PROVE  CountInv'
<1> SUFFICES ASSUME NEW g \in Groups PROVE Counted(g)'
  BY DEF CountInv
<1>0. Counted(g) BY DEF CountInv
<1>1. CASE UNCHANGED <<threads, taskVars, runs>> /\ Uncounted(g)' = Uncounted(g)
  BY <1>0, <1>1, UnitsKept DEF Counted, taskVars
<1>2. CASE UNCHANGED workgroupsVars
  BY <1>1, <1>2 DEF workgroupsVars, groupVars, handlerVars, mainVars, runVars, Uncounted
<1>3. CASE Loops
  <2>1. UNCHANGED <<threads, taskVars, runs>> BY <1>3, LoopFrame DEF TypeInv
  <2>2. main # "count" /\ main' # "count"
    <3> USE DEF MainOK, Mains
    <3> QED BY <1>3 DEF Loops, RunWakes, SyncNext, SyncPasses, SyncParks, MainUnparked, SyncReturns,
                        StopNext, StopUnparks, StopJoins, StopPasses, StopReturns, FullSync, FullShutdown
  <2> QED BY <1>1, <2>1, <2>2 DEF Uncounted
<1>4. CASE RunCounts BY <1>4, CountInvRunCounts
<1>5. CASE InstallHandler
  BY <1>1, <1>5 DEF InstallHandler, mainVars, runVars, Uncounted
<1>6. CASE \E l \in Labels : Run(l) BY <1>6, CountInvRun
<1>7. CASE \E l \in Labels, n \in ThreadCounts : AddWorkgroup(l, n)
  <2>1. PICK l \in Labels, n \in ThreadCounts : AddWorkgroup(l, n) BY <1>7
  <2>2. UNCHANGED <<tasks, main, at, runs>> BY <2>1 DEF AddWorkgroup, taskVars, mainVars, runVars
  <2>3. Units(g)' = Units(g) BY <2>1, <1>0, AddWorkgroupUnits DEF Counted
  <2>4. Uncounted(g)' = Uncounted(g) BY <2>2 DEF Uncounted
  <2> QED BY <1>0, <2>2, <2>3, <2>4 DEF Counted
<1>8. CASE \E w \in Workers : Worker(w) BY <1>8, CountInvWorker
<1> QED BY <1>2, <1>3, <1>4, <1>5, <1>6, <1>7, <1>8 DEF WorkgroupsNext, Main, Client, Loops

-----------------------------------------------------------------------------
(* full_sync: the groups it has been at.                                   *)

\* No task is left where the counter is zero, unless execute() is at it.
LEMMA ZeroIsEmpty ==
    ASSUME NoWrap, TypeInv, CountInv, NEW g \in Groups, main # "count"
    PROVE  Units(g) = {} <=> tasks[g] = 0
<1>1. /\ IsFiniteSet(Units(g)) /\ Cardinality(Units(g)) \in Nat
      /\ tasks[g] = Counter(Cardinality(Units(g)), 0)
  BY UncountedFacts DEF CountInv, Counted
<1>2. tasks[g] = Cardinality(Units(g)) BY <1>1 DEF Counter
<1> QED BY <1>1, <1>2, FS_EmptySet

LEMMA SyncInvLoops ==
    ASSUME NoWrap, TypeInv, CountInv, SyncInv, Loops
    PROVE  SyncInv'
<1>1. /\ UNCHANGED <<workgroups, threads, queue, taken>>
      /\ quiet' = quiet \/ (main = "sync" /\ at = None /\ rest = {} /\ quiet' = TRUE)
  BY LoopFrame DEF TypeInv, taskVars
<1>2. Attached' = Attached /\ \A g : Units(g)' = Units(g) BY <1>1, UnitsKept DEF Attached
<1>3. \A g \in Attached : g \in Groups /\ g # None BY AttachedFacts DEF TypeInv
<1>4. quiet' => \A g \in Attached : Units(g) = {} BY <1>1, <1>3 DEF SyncInv
<1>5. main' \in {"sync", "parked"} => \A g \in Attached \ rest' : g # at' => Units(g) = {}
  <2>1. CASE RunWakes BY <2>1 DEF RunWakes
  <2>2. CASE SyncNext BY <2>2, <1>3 DEF SyncNext, SyncInv
  <2>3. CASE SyncPasses
    <3>1. main = "sync" /\ tasks[at] = 0 /\ at # None /\ at' = None /\ rest' = rest
      BY <2>3 DEF SyncPasses
    <3>2. at \in Groups BY <3>1, <1>3 DEF TypeInv, MainOK
    <3>3. Units(at) = {} BY <3>1, <3>2, ZeroIsEmpty
    <3> QED BY <3>1, <3>3 DEF SyncInv
  <2>4. CASE SyncParks BY <2>4 DEF SyncParks, SyncInv
  <2>5. CASE MainUnparked BY <2>5 DEF MainUnparked, SyncInv
  <2>6. CASE SyncReturns BY <2>6 DEF SyncReturns
  <2>7. CASE StopNext BY <2>7 DEF StopNext
  <2>8. CASE \E w \in Workers : StopUnparks(w) \/ StopJoins(w) BY <2>8 DEF StopUnparks, StopJoins
  <2>9. CASE StopPasses BY <2>9 DEF StopPasses
  <2>10. CASE StopReturns BY <2>10 DEF StopReturns
  <2>11. CASE FullSync BY <2>11 DEF FullSync
  <2>12. CASE FullShutdown BY <2>12 DEF FullShutdown
  <2> QED
    BY <2>1, <2>2, <2>3, <2>4, <2>5, <2>6, <2>7, <2>8, <2>9, <2>10, <2>11, <2>12 DEF Loops
<1> QED BY <1>2, <1>4, <1>5 DEF SyncInv

LEMMA SyncInvNext ==
    ASSUME NoWrap, TypeInv, TypeInv', CountInv, SyncInv, [WorkgroupsNext]_workgroupsVars
    PROVE  SyncInv'
<1> USE DEF groupVars, handlerVars, mainVars, runVars, taskVars
<1>1. CASE UNCHANGED <<quiet, main, at, rest>> /\ Attached' \subseteq Attached
           /\ \A g \in Attached : Units(g) = {} => Units(g)' = {}
  BY <1>1 DEF SyncInv
<1>2. CASE UNCHANGED workgroupsVars
  BY <1>1, <1>2, UnitsKept DEF workgroupsVars, Attached
<1>3. CASE Loops BY <1>3, SyncInvLoops
<1>4. CASE RunCounts
  <2>1. /\ main' = "wake" /\ UNCHANGED <<workgroups, quiet, threads, queue, taken>>
    BY <1>4 DEF RunCounts
  <2> QED BY <2>1, UnitsKept DEF SyncInv, Attached
<1>5. CASE InstallHandler
  <2>1. Attached' = {} BY <1>5 DEF InstallHandler, Attached, Range
  <2> QED BY <1>1, <1>5, <2>1 DEF InstallHandler, SyncInv
<1>6. CASE \E l \in Labels : Run(l) BY <1>6 DEF Run, SyncInv
<1>7. CASE \E l \in Labels, n \in ThreadCounts : AddWorkgroup(l, n)
  <2>1. PICK l \in Labels, n \in ThreadCounts : AddWorkgroup(l, n) BY <1>7
  <2>2. /\ main = "idle" /\ workgroups' = [workgroups EXCEPT ![l] = made + 1]
        /\ UNCHANGED <<quiet, main>>
    BY <2>1 DEF AddWorkgroup
  <2>3. \A g \in Groups : Units(g) = {} \/ g = made + 1 => Units(g)' = {}
    <3> TAKE g \in Groups
    <3>1. IsFiniteSet(Units(g)) BY DEF CountInv, Counted
    <3> QED BY <2>1, <3>1, AddWorkgroupUnits
  <2>4. \A g : g \in Attached <=> g # None /\ \E k \in Labels : workgroups[k] = g
    BY AttachedFacts DEF TypeInv
  <2>5. \A g \in Attached' : g \in Groups /\ g # None /\ \E k \in Labels : workgroups'[k] = g
    <3>1. /\ workgroups' \in [Labels -> 0..made'] /\ made' \in 0..MaxGroups
          /\ MaxGroups \in Nat
      BY WorkgroupsAssumption DEF TypeInv, HandlerOK
    <3>2. \A k \in Labels : workgroups'[k] \in 0..MaxGroups BY <3>1
    <3> QED BY <3>1, <3>2 DEF Attached, Range, Groups, None
  <2>6. \A k \in Labels : workgroups'[k] = made + 1 \/ workgroups'[k] = workgroups[k]
    BY <2>2 DEF TypeInv, HandlerOK
  <2>7. \A g \in Attached' : g \in Groups /\ (g = made + 1 \/ g \in Attached)
    BY <2>4, <2>5, <2>6
  <2> QED BY <2>2, <2>3, <2>7 DEF SyncInv
<1>8. CASE \E w \in Workers : Worker(w)
  <2>1. PICK w \in Workers : Worker(w) BY <1>8
  <2>2. UNCHANGED <<workgroups, quiet, main, at, rest>> BY <2>1, WorkerMoves DEF TypeInv
  <2>3. ASSUME NEW g \in Groups, Units(g) = {} PROVE Units(g)' = {}
    <3> DEFINE c == Cardinality(Units(g))
               d == Cardinality(Units(g)')
    <3>1. IsFiniteSet(Units(g)) /\ c = 0 BY <2>3, FS_EmptySet
    <3>2. IsFiniteSet(Units(g)') /\ \E k \in Nat : c = d + k /\ d \in Nat
      BY <2>1, <3>1, WorkerUnits
    <3> HIDE DEF c, d
    <3>3. d = 0 BY <3>1, <3>2
    <3> QED BY <3>2, <3>3, FS_EmptySet DEF d
  <2>4. \A g \in Attached : g \in Groups BY AttachedFacts DEF TypeInv
  <2> QED BY <1>1, <2>2, <2>3, <2>4 DEF Attached
<1> QED BY <1>2, <1>3, <1>4, <1>5, <1>6, <1>7, <1>8 DEF WorkgroupsNext, Main, Client, Loops

LEMMA CountInvInit == ASSUME WorkgroupsInit PROVE CountInv /\ SyncInv
<1>1. TypeInv BY TypeInvInit
<1>2. ASSUME NEW g \in Groups PROVE Units(g) = {} /\ Counted(g)
  <2>1. /\ threads[g] = 0 /\ queue[g] = 0 /\ tasks[g] = 0 /\ runs = 0 /\ main = "idle"
    BY DEF WorkgroupsInit
  <2>2. \A j \in 0..threads[g] : Load(g)[j] = 0 BY <2>1 DEF Load
  <2>3. Units(g) = {} BY <1>1, <2>2, LoadFacts, UnitsEmpty DEF Units
  <2>4. IsFiniteSet(Units(g)) /\ Cardinality(Units(g)) = 0 BY <2>3, FS_EmptySet
  <2>5. 0 <= runs * Systems BY <2>1, WorkgroupsAssumption
  <2>6. Counter(0, Uncounted(g)) = 0 BY <2>1, UncountedFacts DEF Counter
  <2> QED BY <2>1, <2>3, <2>4, <2>5, <2>6 DEF Counted
<1>3. \A g \in Attached : g \in Groups BY <1>1, AttachedFacts DEF TypeInv
<1>4. main = "idle" BY DEF WorkgroupsInit
<1> QED BY <1>2, <1>3, <1>4 DEF CountInv, SyncInv

LEMMA SyncInvCovers ==
    ASSUME NoWrap, TypeInv, CountInv, SyncInv
    PROVE  SyncCoversAttached
<1> SUFFICES ASSUME quiet, main = "idle", NEW g \in Attached
             PROVE  tasks[g] = 0 /\ queue[g] = 0 /\ \A w \in Pool(g) : taken[w] = 0
  BY DEF SyncCoversAttached
<1>1. g \in Groups BY AttachedFacts DEF TypeInv
<1>2. Units(g) = {} BY DEF SyncInv
<1> QED BY <1>1, <1>2, ZeroIsEmpty, EmptyGroup

(* If no counter is ever wide enough to wrap, then when full_sync has      *)
(* returned nothing run on a group that has a label is unfinished          *)
(* (workgroups.rs:69 to 88), whichever threads unparked it meanwhile.      *)
THEOREM SyncReachesAll ==
    ASSUME MaxRuns * Systems < Usize
    PROVE  WorkgroupsSpec => []SyncCoversAttached
<1>1. NoWrap BY DEF NoWrap
<1>2. WorkgroupsInit => CountInv /\ SyncInv BY CountInvInit
<1>3. TypeInv /\ TypeInv' /\ CountInv /\ SyncInv /\ [WorkgroupsNext]_workgroupsVars
      => CountInv' /\ SyncInv'
  BY <1>1, CountInvNext, SyncInvNext
<1>4. TypeInv /\ CountInv /\ SyncInv => SyncCoversAttached BY <1>1, SyncInvCovers
<1> QED BY <1>2, <1>3, <1>4, TypeInvariant, PTL DEF WorkgroupsSpec
=============================================================================
