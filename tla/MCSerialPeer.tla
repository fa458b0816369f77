---------------------------- MODULE MCSerialPeer -----------------------------
(* A small instance of SerialPeer for TLC: one task that reads.            *)
EXTENDS SerialPeer, TLC

CONSTANT t1

MCTexts == t1 :> {<<"b">>}
MCLengths == t1 :> {2}
=============================================================================
