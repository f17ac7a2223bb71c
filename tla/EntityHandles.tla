----------------------------- MODULE EntityHandles -----------------------------
(***************************************************************************)
(* What World promises of entities, whatever it keeps them in: a spawn     *)
(* gives out a handle that no spawn has given before, and a despawn that   *)
(* succeeds takes back one handle, which had not been taken back before.   *)
(***************************************************************************)
EXTENDS Naturals

CONSTANT Handles

VARIABLES given,     \* the handles given out so far
          live,      \* those that have not been despawned
          successes  \* how many calls have succeeded

handleVars == <<given, live, successes>>

HandlesInit == given = {} /\ live = {} /\ successes = 0

Give(h) ==
    /\ h \notin given
    /\ given' = given \cup {h}
    /\ live' = live \cup {h}
    /\ successes' = successes + 1

TakeBack(h) ==
    /\ h \in live
    /\ live' = live \ {h}
    /\ successes' = successes + 1
    /\ UNCHANGED given

HandlesNext == \E h \in Handles : Give(h) \/ TakeBack(h)

HandlesSpec == HandlesInit /\ [][HandlesNext]_handleVars
=============================================================================
