---------------------------- MODULE MCSerialPort -----------------------------
EXTENDS SerialPort, TLC

CONSTANTS t1, t2

MCTexts == [t \in Task |-> IF t = t1 THEN {<<"b">>} ELSE {}]
MCLengths == [t \in Task |-> IF t = t1 THEN {} ELSE {2}]
MCControls == {{"CRLF", "FCSND", "FCRCV", "FCANY"}}
=============================================================================
