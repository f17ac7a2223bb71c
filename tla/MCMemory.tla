-------------------------------- MODULE MCMemory --------------------------------
(***************************************************************************)
(* The instances of MCMultiExecutor, with the views of MultiExecutorMemory. *)
(***************************************************************************)
EXTENDS MultiExecutorMemory, MCMultiExecutor
=============================================================================
