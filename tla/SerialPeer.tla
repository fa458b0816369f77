------------------------------ MODULE SerialPeer ------------------------------
(***************************************************************************)
(* SerialPort seen from the peer: told is the last START or STOP that it   *)
(* was sent.  A START or STOP finds its way to the UART directly, from a   *)
(* task or from the handler, or through receiveFlowControl when the UART   *)
(* is busy.                                                                *)
(***************************************************************************)
EXTENDS SerialPort

VARIABLE told

peerVars == <<serialVars, told>>

FlowControlSent ==
  told' = IF p'.tx # p.tx /\ p'.tx \in {FC_START, FC_STOP} THEN p'.tx ELSE told

PeerInit == Init /\ told = FC_START

(* The port stays open once it is.                                         *)
PeerNext == Next /\ (p.openFlag => p'.openFlag) /\ FlowControlSent

PeerSpec == PeerInit /\ [][PeerNext]_peerVars

(* receiveStopped says whether STOP was sent ("STOPを送った状態か？",      *)
(* tSerialPort.cdl): once nothing waits to be sent the peer was told so.   *)
PeerToldRight ==
  p.openFlag /\ p.receiveFlowControl = NoChar => (p.receiveStopped <=> told = FC_STOP)
=============================================================================
