---------------------------- MODULE MCTxSafety ----------------------------
(* TxSafety on one transmit task and two handler tasks, one of which also  *)
(* runs the startup path.                                                  *)
EXTENDS TxSafety

MCTasks        == {"tx", "main", "op"}
MCTransmitters == {"tx"}
MCMain         == "main"
MCInterlocks   == {"cat", "audio"}
=============================================================================
