------------------------------- MODULE Workgroups -------------------------------
(***************************************************************************)
(* All the workgroups of an app (WorkgroupHandler in workgroups.rs): their *)
(* labels, runs on any of them, and full_sync and full_shutdown, which go  *)
(* through them one after the other while their threads all unpark the     *)
(* same main thread.                                                       *)
(*                                                                         *)
(* Workgroup and MultiExecutor have the steps inside one group; here a     *)
(* worker takes tasks in one step and subtracts them in another, and the   *)
(* systems of a run are all in its root batch.                             *)
(***************************************************************************)
EXTENDS Integers, FiniteSets, Functions

CONSTANTS
    Labels,        \* the types that name workgroups
    ThreadCounts,  \* the threads arguments of add_workgroup
    Systems,       \* how many systems a schedule has
    MaxGroups,     \* bound on the number of workgroups ever made
    MaxRuns,       \* bound on the number of runs
    Usize          \* how many values a tasks counter has

ASSUME WorkgroupsAssumption ==
    /\ ThreadCounts \subseteq Nat /\ IsFiniteSet(ThreadCounts)
    /\ MaxGroups \in Nat /\ MaxRuns \in Nat /\ Usize \in Nat
    /\ Systems \in Nat \ {0} /\ Systems < Usize

None == 0              \* no workgroup under a label, none at hand
Groups == 1..MaxGroups
Workers == Groups \X UNION {1..n : n \in ThreadCounts}

VARIABLES
    workgroups,  \* WorkgroupHandler.workgroups: the group under each label
    made,        \* history: how many groups have been made
    threads,     \* threads[g]: how many threads were spawned for g
    thread_pool, \* the workers whose JoinHandle has not been taken
    shutdown,    \* the groups whose shutdown flag is set
    tasks,       \* tasks[g]: the counter of unfinished tasks
    queue,       \* queue[g]: how many tasks wait in its queues
    taken,       \* taken[w]: the tasks w has taken and not subtracted yet
    ready,       \* the workers whose status is Ready
    token,       \* the workers that have an unpark to consume
    main_token,  \* whether the main thread has
    pc,          \* pc[w]: where worker_logic is, "none" without a thread
    main,        \* where the main thread is
    rest,        \* the groups a loop over workgroups has not come to
    at,          \* the group it is at
    runs,        \* history: how many runs have begun
    quiet,       \* history: full_sync has returned since the last run
    ended        \* history: full_shutdown has returned since the last add_workgroup

handlerVars == <<workgroups, made, threads, ended>>
groupVars == <<handlerVars, thread_pool, shutdown>>
taskVars  == <<tasks, queue, taken>>
wakeVars  == <<ready, token, main_token>>
runVars   == <<runs, quiet>>
mainVars  == <<main, rest, at, runVars>>
workgroupsVars == <<groupVars, taskVars, wakeVars, pc, mainVars>>

WorkgroupsInit ==
    /\ workgroups = [l \in Labels |-> None]
    /\ made = 0
    /\ threads = [g \in Groups |-> 0]
    /\ thread_pool = {} /\ shutdown = {}
    /\ tasks = [g \in Groups |-> 0] /\ queue = [g \in Groups |-> 0]
    /\ taken = [w \in Workers |-> 0]
    /\ ready = {} /\ token = {} /\ main_token = FALSE
    /\ pc = [w \in Workers |-> "none"]
    /\ main = "idle" /\ rest = {} /\ at = None
    /\ runs = 0 /\ quiet = TRUE /\ ended = FALSE

Attached == Range(workgroups) \ {None}
Pool(g) == {g} \X (1..threads[g])

-----------------------------------------------------------------------------
(* worker_logic, in large steps *)

Goto(w, from, to) == pc[w] = from /\ pc' = [pc EXCEPT ![w] = to]

\* From the head of the outer loop to its fetch_sub: run what there is.
Works(w) ==
    /\ Goto(w, "start", "settle")
    /\ ready' = ready \ {w}
    /\ \E n \in (IF queue[w[1]] = 0 THEN {0} ELSE 1..queue[w[1]]) :
          /\ taken' = [taken EXCEPT ![w] = n]
          /\ queue' = [queue EXCEPT ![w[1]] = @ - n]
    /\ UNCHANGED <<groupVars, tasks, token, main_token, mainVars>>

Settles(w) ==
    LET left == (tasks[w[1]] - taken[w]) % Usize
    IN  /\ Goto(w, "settle", IF left = 0 THEN "drained" ELSE "start")
        /\ tasks' = [tasks EXCEPT ![w[1]] = left]
        /\ taken' = [taken EXCEPT ![w] = 0]
        /\ UNCHANGED <<groupVars, queue, wakeVars, mainVars>>

\* The counter is zero: look at the shutdown flag ...
ChecksShutdown(w) ==
    /\ Goto(w, "drained", IF w[1] \in shutdown THEN "exited" ELSE "ready")
    /\ UNCHANGED <<groupVars, taskVars, wakeVars, mainVars>>

\* Mutant of the operator below: main_thread.unpark() is forgotten.
Parks_Silent(w) ==
    /\ Goto(w, "ready", "park")
    /\ ready' = ready \cup {w}
    /\ UNCHANGED <<groupVars, taskVars, token, main_token, mainVars>>

\* ... then status Ready, main_thread.unpark() and park() ...
Parks(w) ==
    /\ Goto(w, "ready", "park")
    /\ ready' = ready \cup {w}
    /\ main_token' = TRUE
    /\ UNCHANGED <<groupVars, taskVars, token, mainVars>>

\* ... until unparked.  (Spurious wakeups are left to Workgroup.)
Unparked(w) ==
    /\ Goto(w, "park", "start")
    /\ w \in token
    /\ token' = token \ {w}
    /\ UNCHANGED <<groupVars, taskVars, ready, main_token, mainVars>>

Worker(w) ==
    Works(w) \/ Settles(w) \/ ChecksShutdown(w) \/ Parks(w) \/ Unparked(w)

-----------------------------------------------------------------------------
(* The handler *)

\* install(WorkgroupHandler::new()) on an app that has one replaces it: all
\* its groups are dropped, and their threads go on by themselves.
InstallHandler ==
    /\ main = "idle" /\ Attached # {}
    /\ workgroups' = [l \in Labels |-> None]
    /\ UNCHANGED <<made, threads, ended, thread_pool, shutdown, taskVars, wakeVars, pc, mainVars>>

\* Mutant of the operator below: groups are told apart by workgroups.len().
AddWorkgroup_ByLen(l, n) ==
    /\ main = "idle" /\ made < MaxGroups
    /\ LET g == Cardinality(Attached) + 1
           new == {g} \X (1..n)
       IN  /\ made' = g
           /\ workgroups' = [workgroups EXCEPT ![l] = g]
           /\ threads' = [threads EXCEPT ![g] = n]
           /\ thread_pool' = thread_pool \cup new
           /\ ready' = ready \cup new
           /\ pc' = [w \in Workers |-> IF w \in new THEN "start" ELSE pc[w]]
    /\ ended' = FALSE
    /\ UNCHANGED <<shutdown, taskVars, token, main_token, mainVars>>

\* add_workgroup; the group that had the label, if any, is dropped likewise.
AddWorkgroup(l, n) ==
    /\ main = "idle" /\ made < MaxGroups
    /\ LET g == made + 1
           new == {g} \X (1..n)
       IN  /\ made' = g
           /\ workgroups' = [workgroups EXCEPT ![l] = g]
           /\ threads' = [threads EXCEPT ![g] = n]
           /\ thread_pool' = thread_pool \cup new
           /\ ready' = ready \cup new
           /\ pc' = [w \in Workers |-> IF w \in new THEN "start" ELSE pc[w]]
    /\ ended' = FALSE
    /\ UNCHANGED <<shutdown, taskVars, token, main_token, mainVars>>

-----------------------------------------------------------------------------
(* run(), with a schedule whose executor has label l *)

\* All tasks are pushed ...
Run(l) ==
    /\ main = "idle" /\ workgroups[l] # None /\ runs < MaxRuns
    /\ main' = "count" /\ at' = workgroups[l]
    /\ queue' = [queue EXCEPT ![workgroups[l]] = @ + Systems]
    /\ runs' = runs + 1 /\ quiet' = FALSE
    /\ UNCHANGED <<groupVars, tasks, taken, wakeVars, pc, rest>>

\* ... then counted in ...
RunCounts ==
    /\ main = "count"
    /\ main' = "wake"
    /\ tasks' = [tasks EXCEPT ![at] = (@ + Systems) % Usize]
    /\ UNCHANGED <<groupVars, queue, taken, wakeVars, pc, rest, at, runVars>>

\* ... and the first workers that are Ready, no more than there are systems,
\* are unparked, if they have not been joined.
RunWakes ==
    /\ main = "wake"
    /\ main' = "idle" /\ at' = None
    /\ LET Candidates == ready \cap thread_pool \cap Pool(at)
       IN  token' = token \cup {w \in Candidates :
                                  Cardinality({v \in Candidates : v[2] < w[2]}) < Systems}
    /\ UNCHANGED <<groupVars, taskVars, ready, main_token, pc, rest, runVars>>

-----------------------------------------------------------------------------
(* full_sync *)

FullSync ==
    /\ main = "idle"
    /\ main' = "sync" /\ rest' = Attached
    /\ UNCHANGED <<groupVars, taskVars, wakeVars, pc, at, runVars>>

\* The next group, in whatever order the map has them.
SyncNext ==
    /\ main = "sync" /\ at = None
    /\ \E g \in rest : at' = g /\ rest' = rest \ {g}
    /\ UNCHANGED <<groupVars, taskVars, wakeVars, pc, main, runVars>>

\* Its counter is zero: on to the next ...
SyncPasses ==
    /\ main = "sync" /\ at # None /\ tasks[at] = 0
    /\ at' = None
    /\ UNCHANGED <<groupVars, taskVars, wakeVars, pc, main, rest, runVars>>

\* ... or not: park ...
SyncParks ==
    /\ main = "sync" /\ at # None /\ tasks[at] # 0
    /\ main' = "parked"
    /\ UNCHANGED <<groupVars, taskVars, wakeVars, pc, rest, at, runVars>>

\* Mutant of the operator below: park() is taken to return when the group is done.
MainUnparked_Trusts ==
    /\ main = "parked" /\ main_token
    /\ main' = "sync" /\ main_token' = FALSE /\ at' = None
    /\ UNCHANGED <<groupVars, taskVars, ready, token, pc, rest, runVars>>

\* ... and look again when unparked, by a worker of whatever group.
MainUnparked ==
    /\ main = "parked" /\ main_token
    /\ main' = "sync" /\ main_token' = FALSE
    /\ UNCHANGED <<groupVars, taskVars, ready, token, pc, rest, at, runVars>>

SyncReturns ==
    /\ main = "sync" /\ at = None /\ rest = {}
    /\ main' = "idle" /\ quiet' = TRUE
    /\ UNCHANGED <<groupVars, taskVars, wakeVars, pc, rest, at, runs>>

-----------------------------------------------------------------------------
(* full_shutdown *)

FullShutdown ==
    /\ main = "idle"
    /\ main' = "stop" /\ rest' = Attached
    /\ UNCHANGED <<groupVars, taskVars, wakeVars, pc, at, runVars>>

\* The next group: set its flag.
StopNext ==
    /\ main = "stop" /\ at = None
    /\ \E g \in rest : at' = g /\ rest' = rest \ {g} /\ shutdown' = shutdown \cup {g}
    /\ UNCHANGED <<handlerVars, thread_pool, taskVars, wakeVars, pc, main, runVars>>

\* The worker of the group that the loop over thread_pool comes to next.
NextHandle(w) == w \in thread_pool \cap Pool(at) /\ \A v \in thread_pool \cap Pool(at) : w[2] <= v[2]

\* Mutant of the operator below: the worker is joined while it is parked.
StopUnparks_Skip(w) ==
    /\ main = "stop" /\ at # None /\ NextHandle(w)
    /\ main' = "join"
    /\ UNCHANGED <<groupVars, taskVars, wakeVars, pc, rest, at, runVars>>

\* take() its handle, unpark() it ...
StopUnparks(w) ==
    /\ main = "stop" /\ at # None /\ NextHandle(w)
    /\ main' = "join"
    /\ token' = token \cup {w}
    /\ UNCHANGED <<groupVars, taskVars, ready, main_token, pc, rest, at, runVars>>

\* Mutant of the operator below: the handle is dropped without a join.
StopJoins_Detach(w) ==
    /\ main = "join" /\ NextHandle(w)
    /\ main' = "stop"
    /\ thread_pool' = thread_pool \ {w}
    /\ UNCHANGED <<handlerVars, shutdown, taskVars, wakeVars, pc, rest, at, runVars>>

\* ... and join() it.
StopJoins(w) ==
    /\ main = "join" /\ NextHandle(w) /\ pc[w] = "exited"
    /\ main' = "stop"
    /\ thread_pool' = thread_pool \ {w}
    /\ UNCHANGED <<handlerVars, shutdown, taskVars, wakeVars, pc, rest, at, runVars>>

\* The group has no handle left.
StopPasses ==
    /\ main = "stop" /\ at # None /\ thread_pool \cap Pool(at) = {}
    /\ at' = None
    /\ UNCHANGED <<groupVars, taskVars, wakeVars, pc, main, rest, runVars>>

StopReturns ==
    /\ main = "stop" /\ at = None /\ rest = {}
    /\ main' = "idle" /\ ended' = TRUE
    /\ UNCHANGED <<workgroups, made, threads, thread_pool, shutdown, taskVars, wakeVars, pc, rest, at, runVars>>
-----------------------------------------------------------------------------
Main ==
    \/ RunCounts \/ RunWakes
    \/ SyncNext \/ SyncPasses \/ SyncParks \/ MainUnparked \/ SyncReturns
    \/ StopNext \/ (\E w \in Workers : StopUnparks(w) \/ StopJoins(w)) \/ StopPasses \/ StopReturns

Client ==
    \/ InstallHandler \/ FullSync \/ FullShutdown
    \/ \E l \in Labels : Run(l) \/ \E n \in ThreadCounts : AddWorkgroup(l, n)

WorkgroupsNext ==
    Main \/ Client \/ \E w \in Workers : Worker(w)

\* As in MultiExecutor, threads get to run and systems return.
WorkgroupsFairness ==
    WF_workgroupsVars(Main) /\ \A w \in Workers : WF_workgroupsVars(Worker(w))

WorkgroupsSpec == WorkgroupsInit /\ [][WorkgroupsNext]_workgroupsVars /\ WorkgroupsFairness

-----------------------------------------------------------------------------
(* Type correctness: there is a thread for every handle. *)
WorkgroupsTypeOK ==
    /\ workgroups \in [Labels -> 0..made] /\ made \in 0..MaxGroups
    /\ IsInjective(Restrict(workgroups, {l \in Labels : workgroups[l] # None}))
    /\ threads \in [Groups -> ThreadCounts \cup {0}]
    /\ tasks \in [Groups -> 0..Usize - 1] /\ queue \in [Groups -> Nat] /\ taken \in [Workers -> Nat]
    /\ thread_pool \cup ready \cup token \subseteq {w \in Workers : pc[w] # "none"}
    /\ {w \in Workers : pc[w] # "none"} = UNION {Pool(g) : g \in Groups}
    /\ rest \subseteq Attached /\ at \in Attached \cup {None}

(* When full_sync has returned, nothing that was ever run is unfinished,    *)
(* except in groups that have lost their label: it waits for each of the    *)
(* others, whichever group's workers unpark it in the meantime.             *)
SyncCoversAttached ==
    quiet /\ main = "idle" =>
        \A g \in Attached : /\ tasks[g] = 0 /\ queue[g] = 0
                            /\ \A w \in Pool(g) : taken[w] = 0

(* When full_shutdown has returned, the threads of every group have ended,  *)
(* except of groups that have lost their label, also if it is called again  *)
(* or something has been run since.                                         *)
ShutdownCoversAttached ==
    ended /\ main = "idle" => \A g \in Attached : \A w \in Pool(g) : pc[w] = "exited"

\* Tasks are left and no worker will take them: the group has no threads, or
\* they have ended or are parked with no unpark on its way.
Stuck(g) ==
    tasks[g] # 0 /\ \A w \in Pool(g) : pc[w] = "exited" \/ (pc[w] = "park" /\ w \notin token)

(* full_sync returns, or has come to a group that is stuck: the unparks of  *)
(* other groups never make it miss the one it waits for.                    *)
SyncEndsUnlessStuck == (main = "sync") ~> (main = "idle" \/ (at # None /\ Stuck(at)))

(* full_shutdown ends every group in turn, with work left in it or not.     *)
ShutdownEnds == (main = "stop") ~> (main = "idle")
=============================================================================
