----------------------------- MODULE MCNodeLive -----------------------------
(***************************************************************************)
(* Values for model checking DtnNodeHistory: those of MCNode.              *)
(***************************************************************************)
EXTENDS MCNode, DtnNodeHistory
=============================================================================
