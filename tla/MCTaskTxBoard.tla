---------------------------- MODULE MCTaskTxBoard ----------------------------
(* TaskTxBoard on the small trees of MCTaskTx. *)
EXTENDS TaskTxBoard, MCTaskTx
=============================================================================
