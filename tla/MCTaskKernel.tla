---------------------------- MODULE MCTaskKernel ----------------------------
(* Small instances of TaskKernel for TLC.                                  *)
EXTENDS TaskKernel, TLC

CONSTANTS t1, t2, w1

MCipri2 == t1 :> 1 @@ t2 :> 0
MCTorder2 == <<t1, t2>>

MCNoCeiling == <<>>
=============================================================================
