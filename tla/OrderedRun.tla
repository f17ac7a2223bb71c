------------------------------- MODULE OrderedRun -------------------------------
(***************************************************************************)
(* What running a schedule promises, whatever executes it: each run starts *)
(* every system once, a system starts only after everything ordered before *)
(* it has returned in the same run, and runs do not overlap.  Nothing else *)
(* is said: systems that are not ordered may overlap in any way.           *)
(*                                                                         *)
(* A task <<s, k>> is system s in the k-th run.                            *)
(***************************************************************************)
EXTENDS Naturals

CONSTANTS Systems,
          After      \* After[s]: the systems that must have returned before s starts

VARIABLES runs,      \* how many runs have begun
          started,   \* the tasks whose system has been called
          finished   \* the tasks whose system has returned

orderedVars == <<runs, started, finished>>

OrderedInit ==
    /\ runs = 0
    /\ started = {}
    /\ finished = {}

\* A run begins when nothing of an earlier one is left.
Begin ==
    /\ finished = Systems \X (1..runs)
    /\ runs' = runs + 1
    /\ UNCHANGED <<started, finished>>

Start(s, k) ==
    /\ <<s, k>> \in (Systems \X (1..runs)) \ started
    /\ \A p \in After[s] : <<p, k>> \in finished
    /\ started' = started \cup {<<s, k>>}
    /\ UNCHANGED <<runs, finished>>

Finish(s, k) ==
    /\ <<s, k>> \in started \ finished
    /\ finished' = finished \cup {<<s, k>>}
    /\ UNCHANGED <<runs, started>>

OrderedNext ==
    \/ Begin
    \/ \E s \in Systems, k \in 1..runs : Start(s, k) \/ Finish(s, k)

OrderedSpec == OrderedInit /\ [][OrderedNext]_orderedVars
=============================================================================
