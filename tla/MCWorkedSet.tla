---------------------------- MODULE MCWorkedSet ----------------------------
(* The queue with a head and one behind it, one reader that runs in a      *)
(* thread beside the decode handler, one QSO in the JTDX log.              *)
EXTENDS WorkedSet

MCQsos == {"q1", "q2"}
MCReaders == {"r1"}
MCImports == {"j1"}
=============================================================================
