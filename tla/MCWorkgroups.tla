------------------------------ MODULE MCWorkgroups ------------------------------
(***************************************************************************)
(* Two labels and two groups, each of no thread or one: the groups sit     *)
(* beside each other under two labels, or the second takes the label of    *)
(* the first or the place of its whole handler.                            *)
(***************************************************************************)
EXTENDS Workgroups
=============================================================================
