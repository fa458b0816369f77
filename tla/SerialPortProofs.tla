-------------------------- MODULE SerialPortProofs --------------------------
(***************************************************************************)
(* The serial port, for any number of tasks and any sizes of the buffers:  *)
(* the rights to send and to receive are conserved, no character is left   *)
(* behind with its interrupt disabled, and what goes out is what the paced *)
(* line promises.                                                          *)
(***************************************************************************)
EXTENDS SerialPort, TLAPS, FiniteSetTheorems

Chars == Char \cup {FC_START, FC_STOP}

Port ==
  [openFlag : BOOLEAN, errorFlag : BOOLEAN, ioControl : Controls \cup {AllControls, {}},
   receiveBuffer : Seq(Chars), receiveFlowControl : {NoChar, FC_START, FC_STOP},
   receiveStopped : BOOLEAN, sendBuffer : Seq(Chars), sendStopped : BOOLEAN,
   sendSemaphore : {0, 1}, receiveSemaphore : {0, 1},
   enabled : BOOLEAN, rx : Chars \cup {NoChar}, tx : Chars \cup {NoChar}, txim : BOOLEAN,
   receiveLost : BOOLEAN]

(* What a step leaves alone.                                               *)
SameMode(q, r) ==
  /\ r.openFlag = q.openFlag /\ r.ioControl = q.ioControl /\ r.enabled = q.enabled
  /\ r.receiveLost = q.receiveLost
SameReceive(q, r) ==
  /\ r.receiveBuffer = q.receiveBuffer /\ r.receiveSemaphore = q.receiveSemaphore
SameSend(q, r) == r.sendBuffer = q.sendBuffer /\ r.sendSemaphore = q.sendSemaphore
SameFlow(q, r) ==
  /\ r.receiveFlowControl = q.receiveFlowControl /\ r.receiveStopped = q.receiveStopped
SameUart(q, r) == r.tx = q.tx /\ r.txim = q.txim

(* A character is put on the line.                                         *)
LEMMA PutChar ==
  ASSUME NEW q \in Port, NEW c \in Chars
  PROVE  LET r == putchar(q, c)
         IN  /\ r \in Port /\ SameMode(q, r) /\ SameReceive(q, r) /\ SameSend(q, r)
             /\ SameFlow(q, r) /\ r.sendStopped = q.sendStopped /\ r.errorFlag = q.errorFlag
             /\ r.rx = q.rx /\ r.tx = c /\ r.txim = q.txim
BY DEF Port, putchar, SameMode, SameReceive, SameSend, SameFlow

(* A unit that is given back, unless it is there already.                  *)
LEMMA SignalSend ==
  ASSUME NEW q \in Port
  PROVE  LET r == signalSend(q)
         IN  /\ r \in Port /\ SameMode(q, r) /\ SameReceive(q, r)
             /\ SameFlow(q, r) /\ r.sendStopped = q.sendStopped /\ r.rx = q.rx /\ SameUart(q, r)
             /\ r.sendBuffer = q.sendBuffer /\ r.sendSemaphore = 1
             /\ q.sendSemaphore # 1 => r.errorFlag = q.errorFlag
<1>1. CASE q.sendSemaphore = 1
  <2> DEFINE r == [q EXCEPT !.errorFlag = TRUE]
  <2>1. /\ r \in Port /\ SameMode(q, r) /\ SameReceive(q, r)
        /\ SameFlow(q, r) /\ r.sendStopped = q.sendStopped /\ r.rx = q.rx /\ SameUart(q, r)
        /\ r.sendBuffer = q.sendBuffer /\ r.sendSemaphore = 1
    BY <1>1 DEF Port, SameMode, SameReceive, SameFlow, SameUart
  <2> QED BY <1>1, <2>1 DEF signalSend
<1>2. CASE q.sendSemaphore # 1
  <2> DEFINE r == [q EXCEPT !.sendSemaphore = 1]
  <2>1. /\ r \in Port /\ SameMode(q, r) /\ SameReceive(q, r)
        /\ SameFlow(q, r) /\ r.sendStopped = q.sendStopped /\ r.rx = q.rx /\ SameUart(q, r)
        /\ r.sendBuffer = q.sendBuffer /\ r.sendSemaphore = 1 /\ r.errorFlag = q.errorFlag
    BY <1>2 DEF Port, SameMode, SameReceive, SameFlow, SameUart
  <2> QED BY <1>2, <2>1 DEF signalSend
<1> QED BY <1>1, <1>2

(* The same for the right to receive.                                      *)
LEMMA SignalReceive ==
  ASSUME NEW q \in Port
  PROVE  LET r == signalReceive(q)
         IN  /\ r \in Port /\ SameMode(q, r) /\ SameSend(q, r)
             /\ SameFlow(q, r) /\ r.sendStopped = q.sendStopped /\ r.rx = q.rx /\ SameUart(q, r)
             /\ r.receiveBuffer = q.receiveBuffer /\ r.receiveSemaphore = 1
             /\ q.receiveSemaphore # 1 => r.errorFlag = q.errorFlag
<1>1. CASE q.receiveSemaphore = 1
  <2> DEFINE r == [q EXCEPT !.errorFlag = TRUE]
  <2>1. /\ r \in Port /\ SameMode(q, r) /\ SameSend(q, r)
        /\ SameFlow(q, r) /\ r.sendStopped = q.sendStopped /\ r.rx = q.rx /\ SameUart(q, r)
        /\ r.receiveBuffer = q.receiveBuffer /\ r.receiveSemaphore = 1
    BY <1>1 DEF Port, SameMode, SameSend, SameFlow, SameUart
  <2> QED BY <1>1, <2>1 DEF signalReceive
<1>2. CASE q.receiveSemaphore # 1
  <2> DEFINE r == [q EXCEPT !.receiveSemaphore = 1]
  <2>1. /\ r \in Port /\ SameMode(q, r) /\ SameSend(q, r)
        /\ SameFlow(q, r) /\ r.sendStopped = q.sendStopped /\ r.rx = q.rx /\ SameUart(q, r)
        /\ r.receiveBuffer = q.receiveBuffer /\ r.receiveSemaphore = 1
        /\ r.errorFlag = q.errorFlag
    BY <1>2 DEF Port, SameMode, SameSend, SameFlow, SameUart
  <2> QED BY <1>2, <2>1 DEF signalReceive
<1> QED BY <1>1, <1>2

(* The first character of the buffer is put on the line; when the buffer   *)
(* was full, the right to send is given back.                              *)
LEMMA SendFirst ==
  ASSUME NEW q \in Port, q.sendBuffer # <<>>
  PROVE  LET r == sendFirst(q)
         IN  /\ r \in Port /\ SameMode(q, r) /\ SameReceive(q, r)
             /\ SameFlow(q, r) /\ r.sendStopped = q.sendStopped
             /\ r.rx = q.rx /\ r.tx = Head(q.sendBuffer) /\ r.txim = q.txim
             /\ r.sendBuffer = Tail(q.sendBuffer)
             /\ r.sendSemaphore = IF SendFull(q) THEN 1 ELSE q.sendSemaphore
             /\ (r.errorFlag => q.errorFlag \/ (SendFull(q) /\ q.sendSemaphore = 1))
<1>1. Head(q.sendBuffer) \in Chars /\ Tail(q.sendBuffer) \in Seq(Chars)
  BY DEF Port
<1> DEFINE a == putchar(q, Head(q.sendBuffer))
           b == IF SendFull(a) THEN signalSend(a) ELSE a
           r == sendFirst(q)
<1>2. /\ a \in Port /\ SameMode(q, a) /\ SameReceive(q, a) /\ SameSend(q, a)
      /\ SameFlow(q, a) /\ a.sendStopped = q.sendStopped /\ a.errorFlag = q.errorFlag
      /\ a.rx = q.rx /\ a.tx = Head(q.sendBuffer) /\ a.txim = q.txim
  BY <1>1, PutChar
<1>3. (SendFull(a) <=> SendFull(q)) /\ r = [b EXCEPT !.sendBuffer = Tail(b.sendBuffer)]
  BY <1>2 DEF SendFull, SameSend, sendFirst, Dequeued
<1> HIDE DEF a, r
<1>4. /\ b \in Port /\ SameMode(a, b) /\ SameReceive(a, b)
      /\ SameFlow(a, b) /\ b.sendStopped = a.sendStopped /\ b.rx = a.rx /\ SameUart(a, b)
      /\ b.sendBuffer = a.sendBuffer
      /\ b.sendSemaphore = IF SendFull(a) THEN 1 ELSE a.sendSemaphore
      /\ (b.errorFlag => a.errorFlag \/ (SendFull(a) /\ a.sendSemaphore = 1))
  <2>1. CASE SendFull(a)
    BY <1>2, <2>1, SignalSend DEF Port
  <2>2. CASE ~ SendFull(a)
    BY <1>2, <2>2 DEF SameMode, SameReceive, SameFlow, SameUart
  <2> QED BY <2>1, <2>2
<1> HIDE DEF b
<1>5. /\ r \in Port /\ SameMode(b, r) /\ SameReceive(b, r)
      /\ SameFlow(b, r) /\ r.sendStopped = b.sendStopped /\ r.rx = b.rx /\ SameUart(b, r)
      /\ r.sendBuffer = Tail(b.sendBuffer) /\ r.sendSemaphore = b.sendSemaphore
      /\ r.errorFlag = b.errorFlag
  <2>1. Tail(b.sendBuffer) \in Seq(Chars)
    BY <1>1, <1>2, <1>4 DEF SameSend
  <2> QED BY <1>3, <1>4, <2>1 DEF Port, SameMode, SameReceive, SameFlow, SameUart
<1>6. /\ SameMode(q, r) /\ SameReceive(q, r) /\ SameFlow(q, r)
      /\ r.sendStopped = q.sendStopped
      /\ r.rx = q.rx /\ r.tx = Head(q.sendBuffer) /\ r.txim = q.txim
  BY <1>2, <1>4, <1>5 DEF SameMode, SameReceive, SameFlow, SameUart
<1>7. r.sendBuffer = Tail(q.sendBuffer)
  BY <1>2, <1>4, <1>5 DEF SameSend
<1>8. r.sendSemaphore = IF SendFull(q) THEN 1 ELSE q.sendSemaphore
  BY <1>2, <1>3, <1>4, <1>5 DEF SameSend
<1>9. r.errorFlag => q.errorFlag \/ (SendFull(q) /\ q.sendSemaphore = 1)
  BY <1>2, <1>3, <1>4, <1>5 DEF SameSend
<1> QED BY <1>5, <1>6, <1>7, <1>8, <1>9 DEF r

(* What becomes of the right to send and of the send buffer when its first *)
(* character goes out.                                                     *)
FirstSent(q, r) ==
  /\ q.sendBuffer # <<>> /\ q.tx = NoChar
  /\ r.tx = Head(q.sendBuffer) /\ r.sendBuffer = Tail(q.sendBuffer)
  /\ r.sendSemaphore = IF SendFull(q) THEN 1 ELSE q.sendSemaphore
  /\ r.errorFlag => q.errorFlag \/ (SendFull(q) /\ q.sendSemaphore = 1)

Unsent(q, r) == SameSend(q, r) /\ r.errorFlag = q.errorFlag

(* The interrupt of the UART is enabled or disabled.                       *)
LEMMA Callback ==
  ASSUME NEW q \in Port, NEW on \in BOOLEAN, NEW r, r = [q EXCEPT !.txim = on]
  PROVE  /\ r \in Port /\ SameMode(q, r) /\ SameReceive(q, r) /\ Unsent(q, r)
         /\ SameFlow(q, r) /\ r.sendStopped = q.sendStopped
         /\ r.rx = q.rx /\ r.tx = q.tx /\ r.txim = on
BY DEF Port, SameMode, SameReceive, SameSend, SameFlow, Unsent

(* What readySend does: START or STOP first, then the buffer, if the peer  *)
(* does not hold the line.                                                 *)
LEMMA ReadySend ==
  ASSUME NEW q \in Port, q.tx = NoChar
  PROVE  LET r == readySend(q)
         IN  /\ r \in Port /\ SameMode(q, r) /\ SameReceive(q, r)
             /\ r.sendStopped = q.sendStopped /\ r.rx = q.rx /\ r.receiveFlowControl = NoChar
             /\ \/ /\ q.receiveFlowControl # NoChar /\ r.tx = q.receiveFlowControl
                   /\ Unsent(q, r) /\ r.txim = q.txim
                \/ ~ q.sendStopped /\ FirstSent(q, r) /\ r.txim = q.txim
                \/ /\ q.sendStopped \/ q.sendBuffer = <<>>
                   /\ Unsent(q, r) /\ r.tx = NoChar /\ r.txim = FALSE
<1> DEFINE r == readySend(q)
<1>1. ASSUME q.receiveFlowControl # NoChar
      PROVE  /\ r \in Port /\ SameMode(q, r) /\ SameReceive(q, r)
             /\ r.sendStopped = q.sendStopped /\ r.rx = q.rx /\ r.receiveFlowControl = NoChar
             /\ r.tx = q.receiveFlowControl /\ Unsent(q, r) /\ r.txim = q.txim
  <2> DEFINE a == putchar(q, q.receiveFlowControl)
  <2>1. q.receiveFlowControl \in Chars
    BY <1>1 DEF Port, Chars
  <2>2. /\ a \in Port /\ SameMode(q, a) /\ SameReceive(q, a) /\ SameSend(q, a)
        /\ SameFlow(q, a) /\ a.sendStopped = q.sendStopped /\ a.errorFlag = q.errorFlag
        /\ a.rx = q.rx /\ a.tx = q.receiveFlowControl /\ a.txim = q.txim
    BY <2>1, PutChar
  <2> HIDE DEF a
  <2>3. r = [a EXCEPT !.receiveFlowControl = NoChar]
    BY <1>1 DEF readySend, a
  <2> HIDE DEF r
  <2>4. /\ r \in Port /\ SameMode(a, r) /\ SameReceive(a, r) /\ Unsent(a, r)
        /\ r.sendStopped = a.sendStopped /\ r.rx = a.rx /\ r.tx = a.tx /\ r.txim = a.txim
        /\ r.receiveFlowControl = NoChar
    <3>1. r \in Port
      <4>1. a \in Port
        BY <2>2
      <4> QED BY <2>3, <4>1 DEF Port
    <3>2. SameMode(a, r) /\ SameReceive(a, r) /\ Unsent(a, r)
      BY <2>2, <2>3 DEF Port, SameMode, SameReceive, SameSend, Unsent
    <3>3. /\ r.sendStopped = a.sendStopped /\ r.rx = a.rx /\ r.tx = a.tx /\ r.txim = a.txim
          /\ r.receiveFlowControl = NoChar
      BY <2>2, <2>3 DEF Port
    <3> QED BY <3>1, <3>2, <3>3
  <2> QED BY <2>2, <2>4 DEF SameMode, SameReceive, SameSend, Unsent
<1>2. ASSUME q.receiveFlowControl = NoChar, ~ q.sendStopped, q.sendBuffer # <<>>
      PROVE  /\ r \in Port /\ SameMode(q, r) /\ SameReceive(q, r)
             /\ r.sendStopped = q.sendStopped /\ r.rx = q.rx /\ r.receiveFlowControl = NoChar
             /\ FirstSent(q, r) /\ r.txim = q.txim
  <2>1. r = sendFirst(q)
    BY <1>2 DEF readySend
  <2> HIDE DEF r
  <2> QED BY <1>2, <2>1, SendFirst DEF FirstSent, SameFlow
<1>3. ASSUME q.receiveFlowControl = NoChar, q.sendStopped \/ q.sendBuffer = <<>>
      PROVE  /\ r \in Port /\ SameMode(q, r) /\ SameReceive(q, r)
             /\ r.sendStopped = q.sendStopped /\ r.rx = q.rx /\ r.receiveFlowControl = NoChar
             /\ Unsent(q, r) /\ r.tx = NoChar /\ r.txim = FALSE
  <2>1. r = [q EXCEPT !.txim = FALSE]
    BY <1>3 DEF readySend, disableCBR
  <2> HIDE DEF r
  <2> QED BY <1>3, <2>1, Callback DEF SameFlow
<1> HIDE DEF r
<1> QED BY <1>1, <1>2, <1>3 DEF r

(* What resumeSend does when START has arrived.                            *)
LEMMA ResumeSend ==
  ASSUME NEW q \in Port
  PROVE  LET r == resumeSend(q)
         IN  /\ r \in Port /\ SameMode(q, r) /\ SameReceive(q, r) /\ SameFlow(q, r)
             /\ r.sendStopped = q.sendStopped /\ r.rx = q.rx /\ (q.txim => r.txim)
             /\ r.sendBuffer # <<>> => r.txim
             /\ \/ Unsent(q, r) /\ r.tx = q.tx /\ (q.tx = NoChar => q.sendBuffer = <<>>)
                \/ FirstSent(q, r)
<1> DEFINE r == resumeSend(q)
<1>1. ASSUME q.sendBuffer = <<>>
      PROVE  r = q
  BY <1>1 DEF resumeSend
<1>2. ASSUME q.sendBuffer # <<>>, q.tx # NoChar
      PROVE  /\ r \in Port /\ SameMode(q, r) /\ SameReceive(q, r) /\ SameFlow(q, r)
             /\ r.sendStopped = q.sendStopped /\ r.rx = q.rx /\ r.txim = TRUE
             /\ Unsent(q, r) /\ r.tx = q.tx
  <2>1. r = [q EXCEPT !.txim = TRUE]
    BY <1>2 DEF resumeSend, putready, enableCBR
  <2> HIDE DEF r
  <2> QED BY <2>1, Callback
<1>3. ASSUME q.sendBuffer # <<>>, q.tx = NoChar
      PROVE  /\ r \in Port /\ SameMode(q, r) /\ SameReceive(q, r) /\ SameFlow(q, r)
             /\ r.sendStopped = q.sendStopped /\ r.rx = q.rx /\ (q.txim => r.txim)
             /\ r.sendBuffer # <<>> => r.txim
             /\ FirstSent(q, r)
  <2> DEFINE a == sendFirst(q)
             b == [a EXCEPT !.txim = TRUE]
  <2>1. r = IF a.sendBuffer = <<>> THEN a ELSE b
    BY <1>3 DEF resumeSend, putready, enableCBR
  <2>2. /\ a \in Port /\ SameMode(q, a) /\ SameReceive(q, a) /\ SameFlow(q, a)
        /\ a.sendStopped = q.sendStopped /\ a.rx = q.rx /\ a.txim = q.txim /\ FirstSent(q, a)
    BY <1>3, SendFirst DEF FirstSent
  <2> HIDE DEF a, r
  <2>3. /\ b \in Port /\ SameMode(a, b) /\ SameReceive(a, b) /\ Unsent(a, b)
        /\ SameFlow(a, b) /\ b.sendStopped = a.sendStopped
        /\ b.rx = a.rx /\ b.tx = a.tx /\ b.txim = TRUE
    BY <2>2, Callback
  <2> HIDE DEF b
  <2>4. CASE a.sendBuffer = <<>>
    BY <2>1, <2>2, <2>4
  <2>5. CASE a.sendBuffer # <<>>
    <3>1. r = b
      BY <2>1, <2>5
    <3>2. FirstSent(q, b)
      BY <2>2, <2>3 DEF FirstSent, Unsent, SameSend
    <3> QED BY <2>2, <2>3, <3>1, <3>2 DEF SameMode, SameReceive, SameFlow
  <2> QED BY <2>4, <2>5
<1>4. ASSUME r = q, q.sendBuffer = <<>>
      PROVE  /\ r \in Port /\ SameMode(q, r) /\ SameReceive(q, r) /\ SameFlow(q, r)
             /\ r.sendStopped = q.sendStopped /\ r.rx = q.rx /\ (q.txim => r.txim)
             /\ Unsent(q, r) /\ r.tx = q.tx /\ r.sendBuffer = <<>>
  BY <1>4 DEF SameMode, SameReceive, SameSend, SameFlow, Unsent
<1> HIDE DEF r
<1> QED BY <1>1, <1>2, <1>3, <1>4 DEF r

(* What becomes of the right to receive when a character is stored.        *)
Stored(q, r) ==
  /\ \E c \in Chars : r.receiveBuffer = Append(q.receiveBuffer, c)
  /\ r.receiveSemaphore = IF q.receiveBuffer = <<>> THEN 1 ELSE q.receiveSemaphore
  /\ r.errorFlag => q.errorFlag \/ (q.receiveBuffer = <<>> /\ q.receiveSemaphore = 1)

(* START or STOP goes out at once, or waits for the interrupt.             *)
FlowSent(q, r) ==
  \/ /\ q.tx = NoChar /\ r.tx \in {FC_START, FC_STOP} /\ r.txim = q.txim
     /\ r.receiveFlowControl = q.receiveFlowControl
  \/ q.tx # NoChar /\ r.tx = q.tx /\ r.txim = TRUE

FlowKept(q, r) ==
  r.tx = q.tx /\ r.txim = q.txim /\ r.receiveFlowControl = q.receiveFlowControl

(* What sendFlowControl does.                                              *)
LEMMA FlowControl ==
  ASSUME NEW q \in Port, NEW f \in {FC_START, FC_STOP}, NEW s \in BOOLEAN
  PROVE  LET r == sendFlowControl(q, f, s)
         IN  /\ r \in Port /\ SameMode(q, r) /\ SameReceive(q, r) /\ Unsent(q, r)
             /\ r.sendStopped = q.sendStopped /\ r.rx = q.rx
             /\ FlowSent(q, r)
<1> DEFINE a == IF putready(q) THEN putchar(q, f)
                ELSE [enableCBR(q) EXCEPT !.receiveFlowControl = f]
           r == sendFlowControl(q, f, s)
<1>1. r = [a EXCEPT !.receiveStopped = s]
  BY DEF sendFlowControl
<1>2. /\ a \in Port /\ SameMode(q, a) /\ SameReceive(q, a) /\ Unsent(q, a)
      /\ a.sendStopped = q.sendStopped /\ a.rx = q.rx /\ FlowSent(q, a)
  <2>1. CASE q.tx = NoChar
    <3>1. a = putchar(q, f) /\ f \in Chars
      BY <2>1 DEF putready, Chars
    <3> HIDE DEF a
    <3> QED BY <2>1, <3>1, PutChar DEF SameFlow, FlowSent, Unsent
  <2>2. CASE q.tx # NoChar
    <3> DEFINE b == [q EXCEPT !.txim = TRUE]
    <3>1. a = [b EXCEPT !.receiveFlowControl = f]
      BY <2>2 DEF putready, enableCBR
    <3>2. /\ b \in Port /\ SameMode(q, b) /\ SameReceive(q, b) /\ Unsent(q, b)
          /\ b.sendStopped = q.sendStopped /\ b.rx = q.rx /\ b.tx = q.tx /\ b.txim = TRUE
      BY Callback
    <3> HIDE DEF a, b
    <3>3. /\ a \in Port /\ SameMode(b, a) /\ SameReceive(b, a) /\ Unsent(b, a)
          /\ a.sendStopped = b.sendStopped /\ a.rx = b.rx /\ a.tx = b.tx /\ a.txim = b.txim
      BY <3>1, <3>2 DEF Port, SameMode, SameReceive, SameSend, Unsent
    <3> QED BY <2>2, <3>2, <3>3 DEF SameMode, SameReceive, SameSend, Unsent, FlowSent
  <2> QED BY <2>1, <2>2
<1> HIDE DEF a, r
<1>3. /\ r \in Port /\ SameMode(a, r) /\ SameReceive(a, r) /\ Unsent(a, r)
      /\ r.sendStopped = a.sendStopped /\ r.rx = a.rx /\ r.tx = a.tx /\ r.txim = a.txim
      /\ r.receiveFlowControl = a.receiveFlowControl
  BY <1>1, <1>2 DEF Port, SameMode, SameReceive, SameSend, Unsent
<1>4. /\ SameMode(q, r) /\ SameReceive(q, r) /\ Unsent(q, r)
      /\ r.sendStopped = q.sendStopped /\ r.rx = q.rx
  BY <1>2, <1>3 DEF SameMode, SameReceive, SameSend, Unsent
<1>5. FlowSent(q, r)
  BY <1>2, <1>3 DEF FlowSent
<1> QED BY <1>3, <1>4, <1>5 DEF r

(* A character is stored in the receive buffer.                            *)
LEMMA Store ==
  ASSUME NEW q \in Port, NEW c \in Chars
  PROVE  LET r == store(q, c)
         IN  /\ r \in Port /\ SameMode(q, r) /\ SameSend(q, r) /\ FlowKept(q, r)
             /\ r.sendStopped = q.sendStopped /\ r.rx = q.rx /\ Stored(q, r)
<1> DEFINE a == IF q.receiveBuffer = <<>> THEN signalReceive(q) ELSE q
           r == store(q, c)
<1>1. r = [a EXCEPT !.receiveBuffer = Append(a.receiveBuffer, c)]
  BY DEF store
<1>2. /\ a \in Port /\ SameMode(q, a) /\ SameSend(q, a) /\ FlowKept(q, a)
      /\ a.sendStopped = q.sendStopped /\ a.rx = q.rx /\ a.receiveBuffer = q.receiveBuffer
      /\ a.receiveSemaphore = IF q.receiveBuffer = <<>> THEN 1 ELSE q.receiveSemaphore
      /\ a.errorFlag => q.errorFlag \/ (q.receiveBuffer = <<>> /\ q.receiveSemaphore = 1)
  <2>1. CASE q.receiveBuffer = <<>>
    <3>1. a = signalReceive(q)
      BY <2>1
    <3> HIDE DEF a
    <3> QED BY <2>1, <3>1, SignalReceive DEF FlowKept, SameFlow, SameUart
  <2>2. CASE q.receiveBuffer # <<>>
    <3>1. a = q
      BY <2>2
    <3> HIDE DEF a
    <3> QED BY <2>2, <3>1 DEF FlowKept, SameMode, SameSend
  <2> QED BY <2>1, <2>2
<1> HIDE DEF a, r
<1>3. Append(a.receiveBuffer, c) \in Seq(Chars)
  BY <1>2 DEF Port
<1>4. /\ r \in Port /\ SameMode(a, r) /\ SameSend(a, r) /\ FlowKept(a, r)
      /\ r.sendStopped = a.sendStopped /\ r.rx = a.rx
      /\ r.receiveBuffer = Append(a.receiveBuffer, c)
      /\ r.receiveSemaphore = a.receiveSemaphore /\ r.errorFlag = a.errorFlag
  BY <1>1, <1>2, <1>3 DEF Port, SameMode, SameSend, FlowKept
<1>5. SameMode(q, r) /\ SameSend(q, r) /\ FlowKept(q, r)
  BY <1>2, <1>4 DEF SameMode, SameSend, FlowKept
<1>6. Stored(q, r)
  BY <1>2, <1>4 DEF Stored
<1> QED BY <1>2, <1>4, <1>5, <1>6 DEF r

(* STOP is sent when the receive buffer fills, START when it empties.      *)
LEMMA FlowDecision ==
  ASSUME NEW q \in Port, NEW r, r = stopPeer(q) \/ r = startPeer(q)
  PROVE  /\ r \in Port /\ SameMode(q, r) /\ SameReceive(q, r) /\ Unsent(q, r)
         /\ r.sendStopped = q.sendStopped /\ r.rx = q.rx
         /\ FlowSent(q, r) \/ FlowKept(q, r)
<1>1. \/ r = q \/ r = sendFlowControl(q, FC_STOP, TRUE)
      \/ r = sendFlowControl(q, FC_START, FALSE)
  BY DEF stopPeer, startPeer
<1>2. CASE r = q
  BY <1>2 DEF SameMode, SameReceive, SameSend, Unsent, FlowKept
<1>3. CASE r = sendFlowControl(q, FC_STOP, TRUE)
  BY <1>3, FlowControl
<1>4. CASE r = sendFlowControl(q, FC_START, FALSE)
  BY <1>4, FlowControl
<1> QED BY <1>1, <1>2, <1>3, <1>4

(* A received STOP or START is obeyed, and may release the first waiting   *)
(* character; any other character is stored, or dropped for want of room.  *)
Obeyed(q, r) ==
  /\ r.receiveFlowControl = q.receiveFlowControl /\ SameReceive(q, r)
  /\ (q.txim => r.txim)
  /\ \/ Unsent(q, r) /\ r.tx = q.tx /\ r.sendStopped = TRUE
     \/ /\ q.sendStopped /\ r.sendStopped = FALSE /\ (r.sendBuffer # <<>> => r.txim)
        /\ \/ Unsent(q, r) /\ r.tx = q.tx /\ (q.tx = NoChar => q.sendBuffer = <<>>)
           \/ FirstSent(q, r)
Dropped(q, r) ==
  SameReceive(q, r) /\ Unsent(q, r) /\ FlowKept(q, r) /\ r.sendStopped = q.sendStopped
Accepted(q, r) ==
  /\ Stored(q, r) /\ SameSend(q, r) /\ r.sendStopped = q.sendStopped
  /\ FlowSent(q, r) \/ FlowKept(q, r)

(* The callback for a character that has arrived.                          *)
LEMMA ReadyReceive ==
  ASSUME NEW q \in Port, q.rx # NoChar
  PROVE  LET r == readyReceive(q)
         IN  /\ r \in Port /\ SameMode(q, r) /\ r.rx = NoChar
             /\ Obeyed(q, r) \/ Dropped(q, r) \/ Accepted(q, r)
<1> DEFINE c == q.rx
           a == [q EXCEPT !.rx = NoChar]
           r == readyReceive(q)
           fcsnd == "FCSND" \in q.ioControl
           on == [a EXCEPT !.sendStopped = FALSE]
           off == [a EXCEPT !.sendStopped = TRUE]
           Result == /\ r \in Port /\ SameMode(q, r) /\ r.rx = NoChar
                     /\ Obeyed(q, r) \/ Dropped(q, r) \/ Accepted(q, r)
<1>1. /\ a \in Port /\ SameMode(q, a) /\ SameReceive(q, a) /\ Unsent(q, a)
      /\ FlowKept(q, a) /\ a.sendStopped = q.sendStopped /\ a.rx = NoChar
      /\ c \in Chars
  BY DEF Port, SameMode, SameReceive, SameSend, Unsent, FlowKept
<1>2. r = IF fcsnd /\ c = FC_STOP THEN off
          ELSE IF q.sendStopped /\ (c = FC_START \/ "FCANY" \in q.ioControl)
          THEN resumeSend(on)
          ELSE IF (fcsnd /\ c = FC_START) \/ Len(q.receiveBuffer) = receiveBufferSize THEN a
          ELSE stopPeer(store(a, c))
  <2>1. /\ a.sendStopped = q.sendStopped /\ a.ioControl = q.ioControl
        /\ a.receiveBuffer = q.receiveBuffer
    BY <1>1 DEF SameMode, SameReceive
  <2> QED BY <2>1 DEF readyReceive
<1> HIDE DEF a, r, c, fcsnd, Result
<1>3. r = off \/ (q.sendStopped /\ r = resumeSend(on)) \/ r = a \/ r = stopPeer(store(a, c))
  BY <1>2
<1>4. ASSUME r = off PROVE Result
  <2>1. /\ off \in Port /\ SameMode(a, off) /\ SameReceive(a, off) /\ Unsent(a, off)
        /\ FlowKept(a, off) /\ off.sendStopped = TRUE /\ off.rx = NoChar
    BY <1>1, ZenonT(60) DEF Port, SameMode, SameReceive, SameSend, Unsent, FlowKept
  <2> HIDE DEF off
  <2>2. SameMode(q, off) /\ Obeyed(q, off)
    BY <1>1, <2>1 DEF SameMode, SameReceive, SameSend, Unsent, FlowKept, Obeyed
  <2> QED BY <1>4, <2>1, <2>2 DEF Result
<1>5. ASSUME q.sendStopped, r = resumeSend(on) PROVE Result
  <2>1. /\ on \in Port /\ SameMode(a, on) /\ SameReceive(a, on) /\ Unsent(a, on)
        /\ FlowKept(a, on) /\ on.sendStopped = FALSE /\ on.rx = NoChar
    BY <1>1, ZenonT(60) DEF Port, SameMode, SameReceive, SameSend, Unsent, FlowKept
  <2> HIDE DEF on
  <2>2. /\ r \in Port /\ SameMode(on, r) /\ SameReceive(on, r) /\ SameFlow(on, r)
        /\ r.sendStopped = on.sendStopped /\ r.rx = on.rx /\ (on.txim => r.txim)
        /\ r.sendBuffer # <<>> => r.txim
        /\ \/ Unsent(on, r) /\ r.tx = on.tx /\ (on.tx = NoChar => on.sendBuffer = <<>>)
           \/ FirstSent(on, r)
    BY <1>5, <2>1, ResumeSend
  <2>3. /\ SameMode(q, on) /\ SameReceive(q, on) /\ Unsent(q, on) /\ FlowKept(q, on)
    BY <1>1, <2>1 DEF SameMode, SameReceive, SameSend, Unsent, FlowKept
  <2>4. FirstSent(on, r) => FirstSent(q, r)
    BY <2>3 DEF FirstSent, Unsent, SameSend, FlowKept, SendFull
  <2>5. Unsent(on, r) => Unsent(q, r)
    BY <2>3 DEF Unsent, SameSend
  <2>6. /\ r.receiveFlowControl = q.receiveFlowControl /\ SameReceive(q, r) /\ SameMode(q, r)
        /\ (q.txim => r.txim) /\ r.sendStopped = FALSE /\ r.rx = NoChar
        /\ on.tx = q.tx /\ on.sendBuffer = q.sendBuffer
    BY <2>1, <2>2, <2>3 DEF SameFlow, SameReceive, SameMode, FlowKept, Unsent, SameSend
  <2>7. Obeyed(q, r)
    BY <1>5, <2>2, <2>4, <2>5, <2>6 DEF Obeyed
  <2> QED BY <2>2, <2>6, <2>7 DEF Result
<1>6. ASSUME r = a PROVE Result
  BY <1>1, <1>6 DEF Result, Dropped
<1>7. ASSUME r = stopPeer(store(a, c)) PROVE Result
  <2> DEFINE b == store(a, c)
  <2>1. /\ b \in Port /\ SameMode(a, b) /\ SameSend(a, b) /\ FlowKept(a, b)
        /\ b.sendStopped = a.sendStopped /\ b.rx = a.rx /\ Stored(a, b)
    BY <1>1, Store
  <2>2. r = stopPeer(b)
    BY <1>7
  <2> HIDE DEF b
  <2>3. /\ r \in Port /\ SameMode(b, r) /\ SameReceive(b, r) /\ Unsent(b, r)
        /\ r.sendStopped = b.sendStopped /\ r.rx = b.rx
        /\ FlowSent(b, r) \/ FlowKept(b, r)
    BY <2>1, <2>2, FlowDecision
  <2>4. Stored(q, r)
    BY <1>1, <2>1, <2>3 DEF Stored, SameReceive, Unsent
  <2>5. SameSend(q, r) /\ r.sendStopped = q.sendStopped /\ SameMode(q, r) /\ r.rx = NoChar
    BY <1>1, <2>1, <2>3 DEF SameSend, Unsent, SameMode
  <2>6. FlowSent(q, r) \/ FlowKept(q, r)
    BY <1>1, <2>1, <2>3 DEF FlowSent, FlowKept
  <2> QED BY <2>3, <2>4, <2>5, <2>6 DEF Result, Accepted
<1>8. Result
  BY <1>3, <1>4, <1>5, <1>6, <1>7
<1> QED BY <1>8 DEF Result, r

-----------------------------------------------------------------------------
(* The right whose semaphore is sem is in one place: the semaphore, one of *)
(* the tasks in holders, or nowhere while nothing can be done with it or   *)
(* after it was lost.                                                      *)
Placed(sem, holders, useless) ==
  \/ sem = 1 /\ holders = {} /\ ~useless
  \/ sem = 0 /\ holders = {} /\ useless
  \/ sem = 0 /\ ~useless /\ \E t \in Task : holders = {t}

Rights(q, senders, receivers) ==
  /\ ~q.errorFlag
  /\ Placed(q.sendSemaphore, senders, SendFull(q))
  /\ Placed(q.receiveSemaphore, receivers, q.receiveBuffer = <<>> \/ q.receiveLost)
  /\ q.receiveLost => q.receiveBuffer # <<>>

(* The interrupt is enabled while there is something for it to send.       *)
Going(q) ==
  q.receiveFlowControl # NoChar \/ (q.sendBuffer # <<>> /\ ~q.sendStopped) => q.txim

(* What the line sees.                                                     *)
Quiet(q, r) == r.sendBuffer = q.sendBuffer /\ r.tx = q.tx
Overtaken(q, r) ==
  r.sendBuffer = q.sendBuffer /\ q.tx = NoChar /\ r.tx \in {FC_START, FC_STOP}
Sends(q, r) ==
  /\ q.sendBuffer # <<>> /\ q.tx = NoChar /\ ~r.sendStopped
  /\ r.tx = Head(q.sendBuffer) /\ r.sendBuffer = Tail(q.sendBuffer)

(* The handler never takes a right, and gives one back just when what it   *)
(* does makes it useful.                                                   *)
HandlerStep(q, r) ==
  \/ Unsent(q, r) /\ SameReceive(q, r)
  \/ FirstSent(q, r) /\ SameReceive(q, r)
  \/ Stored(q, r) /\ SameSend(q, r)

LEMMA RightsKept ==
  ASSUME NEW q \in Port, NEW r \in Port, Len(q.sendBuffer) <= sendBufferSize,
         HandlerStep(q, r), SameMode(q, r),
         NEW senders \in SUBSET Task, NEW receivers \in SUBSET Task
  PROVE  /\ Len(r.sendBuffer) <= sendBufferSize
         /\ Rights(q, senders, receivers) => Rights(r, senders, receivers)
<1> USE SizesAssumption
<1>0. r.receiveLost = q.receiveLost
  BY DEF SameMode
<1>1. CASE Unsent(q, r) /\ SameReceive(q, r)
  BY <1>0, <1>1 DEF Unsent, SameSend, SameReceive, Rights, SendFull
<1>2. CASE FirstSent(q, r) /\ SameReceive(q, r)
  <2>1. /\ Len(q.sendBuffer) \in Nat /\ Len(r.sendBuffer) = Len(q.sendBuffer) - 1
        /\ q.sendSemaphore \in {0, 1}
    BY <1>2 DEF FirstSent, Port
  <2>2. ~ SendFull(r) /\ Len(r.sendBuffer) <= sendBufferSize
    BY <2>1 DEF SendFull
  <2>3. /\ r.sendSemaphore = IF SendFull(q) THEN 1 ELSE q.sendSemaphore
        /\ r.errorFlag => q.errorFlag \/ (SendFull(q) /\ q.sendSemaphore = 1)
        /\ r.receiveBuffer = q.receiveBuffer /\ r.receiveSemaphore = q.receiveSemaphore
    BY <1>2 DEF FirstSent, SameReceive
  <2>4. CASE SendFull(q)
    BY <1>0, <2>2, <2>3, <2>4 DEF Rights, Placed
  <2>5. CASE ~ SendFull(q)
    BY <1>0, <2>2, <2>3, <2>5 DEF Rights, Placed
  <2> QED BY <2>4, <2>5
<1>3. CASE Stored(q, r) /\ SameSend(q, r)
  <2>1. r.receiveBuffer # <<>>
    BY <1>3, SMTT(60) DEF Stored, Port
  <2>2. /\ r.receiveSemaphore = IF q.receiveBuffer = <<>> THEN 1 ELSE q.receiveSemaphore
        /\ r.errorFlag => q.errorFlag \/ (q.receiveBuffer = <<>> /\ q.receiveSemaphore = 1)
        /\ r.sendSemaphore = q.sendSemaphore /\ r.sendBuffer = q.sendBuffer
        /\ (SendFull(r) <=> SendFull(q))
    BY <1>3 DEF Stored, SameSend, SendFull
  <2>3. CASE q.receiveBuffer = <<>>
    BY <1>0, <2>1, <2>2, <2>3 DEF Rights, Placed
  <2>4. CASE q.receiveBuffer # <<>>
    BY <1>0, <2>1, <2>2, <2>4 DEF Rights, Placed
  <2> QED BY <2>3, <2>4
<1> QED BY <1>1, <1>2, <1>3 DEF HandlerStep

(* What the two halves of the handler do to rights, interrupt and line.    *)
LEMMA FirstHalf ==
  ASSUME NEW q \in Port, q.rx # NoChar, Going(q)
  PROVE  LET r == readyReceive(q)
         IN  /\ r \in Port /\ SameMode(q, r) /\ HandlerStep(q, r) /\ Going(r)
             /\ \/ Quiet(q, r) /\ r.sendStopped = q.sendStopped
                \/ Quiet(q, r) /\ r.sendStopped
                \/ Quiet(q, r) /\ (q.tx = NoChar => q.sendBuffer = <<>>)
                \/ Overtaken(q, r) \/ Sends(q, r)
<1> DEFINE r == readyReceive(q)
           Result == /\ HandlerStep(q, r) /\ Going(r)
                     /\ \/ Quiet(q, r) /\ r.sendStopped = q.sendStopped
                        \/ Quiet(q, r) /\ r.sendStopped
                        \/ Quiet(q, r) /\ (q.tx = NoChar => q.sendBuffer = <<>>)
                        \/ Overtaken(q, r) \/ Sends(q, r)
<1>1. /\ r \in Port /\ SameMode(q, r)
      /\ Obeyed(q, r) \/ Dropped(q, r) \/ Accepted(q, r)
  BY ReadyReceive
<1> HIDE DEF r, Result
<1>2. ASSUME Obeyed(q, r) PROVE Result
  <2>1. CASE Unsent(q, r) /\ r.tx = q.tx /\ r.sendStopped = TRUE
    <3>1. Going(r)
      BY <1>2, <2>1 DEF Obeyed, Going
    <3> QED BY <1>2, <2>1, <3>1
            DEF Obeyed, Result, HandlerStep, Quiet, Unsent, SameSend
  <2>2. CASE /\ q.sendStopped /\ r.sendStopped = FALSE /\ (r.sendBuffer # <<>> => r.txim)
             /\ Unsent(q, r) /\ r.tx = q.tx /\ (q.tx = NoChar => q.sendBuffer = <<>>)
    <3>1. Going(r)
      BY <1>2, <2>2 DEF Obeyed, Going
    <3> QED BY <1>2, <2>2, <3>1
            DEF Obeyed, Result, HandlerStep, Quiet, Unsent, SameSend
  <2>3. CASE /\ q.sendStopped /\ r.sendStopped = FALSE /\ (r.sendBuffer # <<>> => r.txim)
             /\ FirstSent(q, r)
    <3>1. Going(r)
      BY <1>2, <2>3 DEF Obeyed, Going
    <3> QED BY <1>2, <2>3, <3>1 DEF Obeyed, Result, HandlerStep, Sends, FirstSent
  <2> QED BY <1>2, <2>1, <2>2, <2>3 DEF Obeyed
<1>3. ASSUME Dropped(q, r) PROVE Result
  BY <1>3 DEF Dropped, Result, HandlerStep, Quiet, Going, Unsent, SameSend, FlowKept
<1>4. ASSUME Accepted(q, r) PROVE Result
  <2>1. Going(r)
    BY <1>4 DEF Accepted, Going, SameSend, FlowSent, FlowKept
  <2>2. (Quiet(q, r) /\ r.sendStopped = q.sendStopped) \/ Overtaken(q, r)
    BY <1>4 DEF Accepted, Quiet, Overtaken, SameSend, FlowSent, FlowKept
  <2> QED BY <1>4, <2>1, <2>2 DEF Accepted, Result, HandlerStep
<1>5. Result
  BY <1>1, <1>2, <1>3, <1>4
<1> QED BY <1>1, <1>5 DEF r, Result

LEMMA SecondHalf ==
  ASSUME NEW q \in Port, q.tx = NoChar, Going(q)
  PROVE  LET r == readySend(q)
         IN  /\ r \in Port /\ SameMode(q, r) /\ HandlerStep(q, r) /\ Going(r)
             /\ r.sendStopped = q.sendStopped
             /\ Quiet(q, r) \/ Overtaken(q, r) \/ Sends(q, r)
<1> DEFINE r == readySend(q)
<1>1. /\ r \in Port /\ SameMode(q, r) /\ SameReceive(q, r)
      /\ r.sendStopped = q.sendStopped /\ r.rx = q.rx /\ r.receiveFlowControl = NoChar
      /\ \/ /\ q.receiveFlowControl # NoChar /\ r.tx = q.receiveFlowControl
            /\ Unsent(q, r) /\ r.txim = q.txim
         \/ ~ q.sendStopped /\ FirstSent(q, r) /\ r.txim = q.txim
         \/ /\ q.sendStopped \/ q.sendBuffer = <<>>
            /\ Unsent(q, r) /\ r.tx = NoChar /\ r.txim = FALSE
  BY ReadySend
<1>2. q.receiveFlowControl \in {NoChar, FC_START, FC_STOP}
  BY DEF Port
<1> HIDE DEF r
<1>3. CASE /\ q.receiveFlowControl # NoChar /\ r.tx = q.receiveFlowControl
           /\ Unsent(q, r) /\ r.txim = q.txim
  BY <1>1, <1>2, <1>3 DEF HandlerStep, Going, Overtaken, Unsent, SameSend, r
<1>4. CASE ~ q.sendStopped /\ FirstSent(q, r) /\ r.txim = q.txim
  BY <1>1, <1>4 DEF HandlerStep, Going, Sends, FirstSent, r
<1>5. CASE /\ q.sendStopped \/ q.sendBuffer = <<>>
           /\ Unsent(q, r) /\ r.tx = NoChar /\ r.txim = FALSE
  BY <1>1, <1>5 DEF HandlerStep, Going, Quiet, Unsent, SameSend, r
<1> QED BY <1>1, <1>3, <1>4, <1>5

(* The handler.                                                            *)
LEMMA Handler ==
  ASSUME NEW q \in Port, Len(q.sendBuffer) <= sendBufferSize, Going(q),
         NEW senders \in SUBSET Task, NEW receivers \in SUBSET Task
  PROVE  LET r == ISR(q)
         IN  /\ r \in Port /\ SameMode(q, r) /\ Len(r.sendBuffer) <= sendBufferSize
             /\ Going(r)
             /\ Rights(q, senders, receivers) => Rights(r, senders, receivers)
             /\ Quiet(q, r) \/ Overtaken(q, r) \/ Sends(q, r)
<1> DEFINE m == IF q.rx # NoChar THEN readyReceive(q) ELSE q
           r == ISR(q)
<1>1. r = IF m.tx = NoChar THEN readySend(m) ELSE m
  BY DEF ISR, putready
<1>2. /\ m \in Port /\ SameMode(q, m) /\ HandlerStep(q, m) /\ Going(m)
      /\ \/ Quiet(q, m) /\ m.sendStopped = q.sendStopped
         \/ Quiet(q, m) /\ m.sendStopped
         \/ Quiet(q, m) /\ (q.tx = NoChar => q.sendBuffer = <<>>)
         \/ Overtaken(q, m) \/ Sends(q, m)
  <2>1. CASE q.rx # NoChar
    BY <2>1, FirstHalf
  <2>2. CASE q.rx = NoChar
    BY <2>2 DEF SameMode, HandlerStep, Unsent, SameSend, SameReceive, Quiet
  <2> QED BY <2>1, <2>2
<1> HIDE DEF m, r
<1>3. /\ Len(m.sendBuffer) <= sendBufferSize
      /\ Rights(q, senders, receivers) => Rights(m, senders, receivers)
  BY <1>2, RightsKept
<1>4. CASE m.tx # NoChar
  BY <1>1, <1>2, <1>3, <1>4 DEF r
<1>5. CASE m.tx = NoChar
  <2>1. /\ r \in Port /\ SameMode(m, r) /\ HandlerStep(m, r) /\ Going(r)
        /\ r.sendStopped = m.sendStopped
        /\ Quiet(m, r) \/ Overtaken(m, r) \/ Sends(m, r)
    BY <1>1, <1>2, <1>5, SecondHalf
  <2>2. /\ Len(r.sendBuffer) <= sendBufferSize
        /\ Rights(m, senders, receivers) => Rights(r, senders, receivers)
    BY <1>2, <1>3, <2>1, RightsKept
  <2>3. SameMode(q, r)
    BY <1>2, <2>1 DEF SameMode
  <2>4. Quiet(q, m)
    <3>1. ~ Overtaken(q, m)
      BY <1>5, SizesAssumption DEF Overtaken
    <3>2. ~ Sends(q, m)
      BY <1>5, SizesAssumption DEF Sends, Port, Chars
    <3> QED BY <1>2, <3>1, <3>2
  <2>5. Quiet(q, r) \/ Overtaken(q, r) \/ Sends(q, r)
    BY <2>1, <2>4 DEF Quiet, Overtaken, Sends
  <2> QED BY <1>3, <2>1, <2>2, <2>3, <2>5 DEF r
<1> QED BY <1>4, <1>5

-----------------------------------------------------------------------------
(* What a task is doing in the port.                                       *)
Call ==
  [pc : {"idle", "sendwait", "put", "sendsignal", "receivewait", "get", "receivesignal", "closing"},
   op : {"none", "read", "write"}, text : Seq(Chars), crsent : BOOLEAN, want : Nat,
   empty : BOOLEAN]

Sound(r) ==
  /\ r \in Call
  /\ r.pc = "idle" => r = Idle
  /\ r.pc \in {"sendwait", "put"} => r.text # <<>> /\ r.op # "none"
  /\ r.pc = "sendsignal" => r.op # "none"
  /\ r.pc \in {"receivewait", "get"} => r.op = "read" /\ r.want > 0
  /\ r.pc = "receivewait" => r.empty
  /\ r.pc = "receivesignal" => r.op = "read"
  /\ r.pc = "closing" => r.op = "none"

KeepsSend(r) == r.pc \in {"put", "sendsignal"}

KeepsReceive(r) ==
  r.pc \in {"get", "receivesignal"} \/ (r.op = "read" /\ ~r.empty /\ r.pc # "idle")

Senders == {t \in Task : KeepsSend(call[t])}
Receivers == {t \in Task : KeepsReceive(call[t])}

(* What a task does in a port that is being closed.                        *)
Parked(t) == call[t].pc = "idle" \/ (Waits(t) /\ ~InterruptPending)

(* The port is open; or a task is closing it, and the others wait or do    *)
(* nothing; or it is closed, nobody is in it and nothing more happens.     *)
Phases ==
  /\ p.enabled = p.openFlag
  /\ p.openFlag => /\ Rights(p, Senders, Receivers)
                   /\ \A t \in Task : call[t].pc # "closing"
  /\ \A t \in Task : call[t].pc = "closing" =>
       ~p.openFlag /\ \A u \in Task \ {t} : Parked(u)
  /\ ~p.openFlag /\ (\A t \in Task : call[t].pc # "closing") =>
       /\ \A t \in Task : call[t].pc = "idle"
       /\ p.sendSemaphore = 1 /\ p.receiveSemaphore = 0
       /\ ~InterruptPending /\ ~p.receiveLost

PortInv ==
  /\ p \in Port /\ Len(p.sendBuffer) <= sendBufferSize
  /\ DOMAIN call = Task /\ call \in [Task -> Call] /\ \A t \in Task : Sound(call[t])
  /\ Phases
  /\ Going(p)

(* Records of calls.                                                       *)
LEMMA IdleSound == Sound(Idle) /\ ~KeepsSend(Idle) /\ ~KeepsReceive(Idle) /\ Idle \in Call
BY DEF Sound, Call, Idle, KeepsSend, KeepsReceive

(* Where a read goes on.                                                   *)
LEMMA ReadOnSound ==
  ASSUME NEW r \in Call, r.op = "read"
  PROVE  /\ Sound(ReadOn(r)) /\ ~KeepsSend(ReadOn(r)) /\ ReadOn(r).pc # "closing"
         /\ KeepsReceive(ReadOn(r)) <=> ~r.empty
<1> DEFINE a == [r EXCEPT !.pc = "receivewait"]
           b == [r EXCEPT !.pc = "get"]
           c == [r EXCEPT !.pc = "receivesignal"]
           d == ReadOn(r)
<1>1. d = IF r.want > 0 THEN (IF r.empty THEN a ELSE b) ELSE IF r.empty THEN Idle ELSE c
  BY DEF ReadOn
<1>2. /\ a \in Call /\ a.pc = "receivewait" /\ a.op = "read" /\ a.want = r.want
      /\ a.empty = r.empty
      /\ b \in Call /\ b.pc = "get" /\ b.op = "read" /\ b.want = r.want /\ b.empty = r.empty
      /\ c \in Call /\ c.pc = "receivesignal" /\ c.op = "read" /\ c.empty = r.empty
  BY DEF Call
<1> HIDE DEF a, b, c, d
<1>3. CASE r.want > 0 /\ r.empty
  BY <1>1, <1>2, <1>3 DEF Sound, KeepsSend, KeepsReceive, d
<1>4. CASE r.want > 0 /\ ~ r.empty
  BY <1>1, <1>2, <1>4 DEF Sound, KeepsSend, KeepsReceive, d
<1>5. CASE ~ (r.want > 0) /\ r.empty
  <2>1. d = Idle /\ Idle.pc = "idle"
    BY <1>1, <1>5 DEF Idle
  <2> QED BY <1>5, <2>1, IdleSound DEF d
<1>6. CASE ~ (r.want > 0) /\ ~ r.empty
  BY <1>1, <1>2, <1>6 DEF Sound, KeepsSend, KeepsReceive, d
<1> QED BY <1>3, <1>4, <1>5, <1>6

LEMMA AfterSendingSound ==
  ASSUME NEW r \in Call, r.op # "none"
  PROVE  /\ Sound(AfterSending(r)) /\ ~KeepsSend(AfterSending(r))
         /\ AfterSending(r).pc # "closing"
         /\ KeepsReceive(AfterSending(r)) <=> r.op = "read" /\ ~r.empty
<1>1. CASE r.op = "read"
  BY <1>1, ReadOnSound DEF AfterSending
<1>2. CASE r.op # "read"
  <2>1. AfterSending(r) = Idle /\ Idle.pc = "idle"
    BY <1>2 DEF AfterSending, Idle
  <2> QED BY <1>2, <2>1, IdleSound
<1> QED BY <1>1, <1>2

(* One task goes on in the open port, or leaves it.                        *)
LEMMA TaskMoves ==
  ASSUME PortInv, p.openFlag, NEW t \in Task, NEW r, Sound(r), r.pc # "closing",
         call' = [call EXCEPT ![t] = r],
         p' \in Port, Len(p'.sendBuffer) <= sendBufferSize, Going(p'),
         p'.openFlag = p.openFlag, p'.enabled = p.enabled,
         Rights(p', (Senders \ {t}) \cup (IF KeepsSend(r) THEN {t} ELSE {}),
                    (Receivers \ {t}) \cup (IF KeepsReceive(r) THEN {t} ELSE {}))
  PROVE  PortInv'
<1>1. /\ call'[t] = r /\ \A u \in Task \ {t} : call'[u] = call[u]
      /\ DOMAIN call' = Task /\ call' \in [Task -> Call]
  BY DEF PortInv, Sound
<1>2. \A u \in Task : Sound(call'[u]) /\ call'[u].pc # "closing"
  BY <1>1 DEF PortInv, Phases
<1>3. /\ Senders' = (Senders \ {t}) \cup (IF KeepsSend(r) THEN {t} ELSE {})
      /\ Receivers' = (Receivers \ {t}) \cup (IF KeepsReceive(r) THEN {t} ELSE {})
  <2>1. Senders' = {u \in Task : KeepsSend(call'[u])}
    BY DEF Senders, KeepsSend
  <2>2. Receivers' = {u \in Task : KeepsReceive(call'[u])}
    BY DEF Receivers, KeepsReceive
  <2>3. \A u \in Task : /\ KeepsSend(call'[u]) <=> KeepsSend(IF u = t THEN r ELSE call[u])
                        /\ KeepsReceive(call'[u]) <=> KeepsReceive(IF u = t THEN r ELSE call[u])
    BY <1>1
  <2> QED BY <2>1, <2>2, <2>3 DEF Senders, Receivers
<1>4. p'.openFlag /\ p'.enabled = p'.openFlag
  BY DEF PortInv, Phases
<1>5. Phases'
  BY <1>2, <1>3, <1>4 DEF Phases, Rights
<1> QED BY <1>1, <1>2, <1>5 DEF PortInv, Sound, Going

LEMMA TaskGoesOn ==
  ASSUME PortInv, p.openFlag, NEW t \in Task, NEW r, Sound(r), r.pc # "closing",
         call' = [call EXCEPT ![t] = r],
         p' \in Port, Len(p'.sendBuffer) <= sendBufferSize, SameMode(p, p'), Going(p'),
         Rights(p', (Senders \ {t}) \cup (IF KeepsSend(r) THEN {t} ELSE {}),
                    (Receivers \ {t}) \cup (IF KeepsReceive(r) THEN {t} ELSE {}))
  PROVE  PortInv'
<1>1. p'.openFlag = p.openFlag /\ p'.enabled = p.enabled
  BY DEF SameMode
<1> QED BY <1>1, TaskMoves

-----------------------------------------------------------------------------
(* A task in the port, unless it is closing it, finds it open.             *)
LEMMA InsideOpen ==
  ASSUME PortInv, NEW t \in Task, NEW pc, At(t, pc), pc \notin {"idle", "closing"}
  PROVE  p.openFlag
<1>1. \A u \in Task : call[u].pc # "closing"
  BY DEF At
<1> QED BY <1>1 DEF PortInv, Phases, At

(* What the one who holds a right may rely on.                             *)
LEMMA HoldingSend ==
  ASSUME PortInv, p.openFlag, NEW t \in Task, KeepsSend(call[t])
  PROVE  Senders = {t} /\ p.sendSemaphore = 0 /\ ~SendFull(p)
<1>1. t \in Senders /\ Placed(p.sendSemaphore, Senders, SendFull(p))
  BY DEF Senders, PortInv, Phases, Rights
<1> QED BY <1>1 DEF Placed

LEMMA HoldingReceive ==
  ASSUME PortInv, p.openFlag, NEW t \in Task, KeepsReceive(call[t])
  PROVE  /\ Receivers = {t} /\ p.receiveSemaphore = 0
         /\ p.receiveBuffer # <<>> /\ ~p.receiveLost
<1>1. /\ t \in Receivers
      /\ Placed(p.receiveSemaphore, Receivers, p.receiveBuffer = <<>> \/ p.receiveLost)
  BY DEF Receivers, PortInv, Phases, Rights
<1> QED BY <1>1 DEF Placed

(* A call that goes on with the rights it has.                             *)
LEMMA SameSenders ==
  ASSUME NEW t \in Task, NEW r, KeepsSend(r) <=> KeepsSend(call[t])
  PROVE  (Senders \ {t}) \cup (IF KeepsSend(r) THEN {t} ELSE {}) = Senders
BY DEF Senders

LEMMA SameReceivers ==
  ASSUME NEW t \in Task, NEW r, KeepsReceive(r) <=> KeepsReceive(call[t])
  PROVE  (Receivers \ {t}) \cup (IF KeepsReceive(r) THEN {t} ELSE {}) = Receivers
BY DEF Receivers

(* A call begins, and the port does not change.                            *)
LEMMA CallOnly ==
  ASSUME PortInv, p.openFlag, NEW t \in Task, NEW r, Sound(r), r.pc # "closing",
         call' = [call EXCEPT ![t] = r], p' = p,
         KeepsSend(r) <=> KeepsSend(call[t]), KeepsReceive(r) <=> KeepsReceive(call[t])
  PROVE  PortInv'
<1>1. /\ (Senders \ {t}) \cup (IF KeepsSend(r) THEN {t} ELSE {}) = Senders
      /\ (Receivers \ {t}) \cup (IF KeepsReceive(r) THEN {t} ELSE {}) = Receivers
  BY SameSenders, SameReceivers
<1>2. /\ p' \in Port /\ Len(p'.sendBuffer) <= sendBufferSize /\ SameMode(p, p') /\ Going(p')
      /\ Rights(p', Senders, Receivers)
  BY DEF PortInv, Phases, SameMode
<1> QED BY <1>1, <1>2, TaskGoesOn

LEMMA WriteStep ==
  ASSUME PortInv, NEW t \in Task, write(t)
  PROVE  PortInv'
<1> USE CallsAssumption, SizesAssumption
<1>1. PICK s \in Texts[t] :
        call' = [call EXCEPT ![t] = [Idle EXCEPT !.pc = "sendwait", !.op = "write", !.text = s]]
  BY DEF write, Becomes
<1> DEFINE r == [Idle EXCEPT !.pc = "sendwait", !.op = "write", !.text = s]
<1>2. s \in Seq(Chars) /\ s # <<>>
  <2>1. s \in Seq(Char) \ {<<>>}
    BY <1>1
  <2>2. Seq(Char) \subseteq Seq(Chars)
    BY DEF Chars
  <2> QED BY <2>1, <2>2
<1>3. r.pc = "sendwait" /\ r.op = "write" /\ r.text # <<>> /\ r \in Call
  BY <1>2 DEF Idle, Call
<1> HIDE DEF r
<1>4. Sound(r) /\ ~ KeepsSend(r) /\ ~ KeepsReceive(r)
  BY <1>3 DEF Sound, KeepsSend, KeepsReceive
<1>5. call[t].pc = "idle" /\ p.openFlag /\ p' = p
  BY DEF write, At, Ready
<1>6. ~ KeepsSend(call[t]) /\ ~ KeepsReceive(call[t])
  BY <1>5 DEF PortInv, Sound, KeepsSend, KeepsReceive
<1>7. call' = [call EXCEPT ![t] = r]
  BY <1>1 DEF r
<1> QED BY <1>3, <1>4, <1>5, <1>6, <1>7, CallOnly

LEMMA ReadStep ==
  ASSUME PortInv, NEW t \in Task, read(t)
  PROVE  PortInv'
<1> USE CallsAssumption
<1>1. PICK n \in Lengths[t] :
        call' = [call EXCEPT ![t] = [Idle EXCEPT !.pc = "receivewait", !.op = "read", !.want = n]]
  BY DEF read, Becomes
<1> DEFINE r == [Idle EXCEPT !.pc = "receivewait", !.op = "read", !.want = n]
<1>2. n \in Nat /\ n > 0
  BY <1>1
<1>3. /\ r.pc = "receivewait" /\ r.op = "read" /\ r.want > 0 /\ r.empty = TRUE /\ r \in Call
  <2>1. <<>> \in Seq(Chars) /\ 0 \in Nat
    OBVIOUS
  <2> QED BY <1>2, <2>1 DEF Idle, Call
<1> HIDE DEF r
<1>4. Sound(r) /\ ~ KeepsSend(r) /\ ~ KeepsReceive(r)
  BY <1>3 DEF Sound, KeepsSend, KeepsReceive
<1>5. call[t].pc = "idle" /\ p.openFlag /\ p' = p
  BY DEF read, At, Ready
<1>6. ~ KeepsSend(call[t]) /\ ~ KeepsReceive(call[t])
  BY <1>5 DEF PortInv, Sound, KeepsSend, KeepsReceive
<1>7. call' = [call EXCEPT ![t] = r]
  BY <1>1 DEF r
<1> QED BY <1>3, <1>4, <1>5, <1>6, <1>7, CallOnly

(* rel_wai takes no right to send along, but may the one to receive.       *)
LEMMA ReleasedStep ==
  ASSUME PortInv, NEW t \in Task, released(t)
  PROVE  PortInv'
<1> DEFINE lost == KeepsReceive(call[t])
           q == [p EXCEPT !.receiveLost = p.receiveLost \/ lost]
<1>1. /\ call[t].pc \in {"sendwait", "receivewait"} /\ At(t, call[t].pc)
      /\ call' = [call EXCEPT ![t] = Idle] /\ p' = q /\ Idle.pc # "closing"
  BY DEF released, Waits, Becomes, Idle, HoldsReceive, KeepsReceive
<1>2. p.openFlag
  BY <1>1, InsideOpen
<1>3. /\ p \in Port /\ Going(p) /\ Len(p.sendBuffer) <= sendBufferSize
      /\ Rights(p, Senders, Receivers)
  BY <1>2 DEF PortInv, Phases
<1>4. lost \in BOOLEAN
  BY DEF KeepsReceive
<1> HIDE DEF lost
<1>5. /\ q \in Port /\ SameSend(p, q) /\ SameReceive(p, q) /\ SameFlow(p, q)
      /\ q.sendStopped = p.sendStopped /\ q.txim = p.txim /\ q.errorFlag = p.errorFlag
      /\ q.openFlag = p.openFlag /\ q.enabled = p.enabled
      /\ q.receiveLost = (p.receiveLost \/ lost)
  BY <1>3, <1>4 DEF Port, SameSend, SameReceive, SameFlow
<1> HIDE DEF q
<1>6. (Senders \ {t}) \cup (IF KeepsSend(Idle) THEN {t} ELSE {}) = Senders
  BY <1>1, IdleSound, SameSenders DEF KeepsSend
<1>7. (Receivers \ {t}) \cup (IF KeepsReceive(Idle) THEN {t} ELSE {}) = Receivers \ {t}
  BY IdleSound
<1>8. Rights(q, Senders, Receivers \ {t})
  <2>1. CASE lost
    <3>1. Receivers = {t} /\ p.receiveSemaphore = 0 /\ p.receiveBuffer # <<>>
      BY <1>2, <2>1, HoldingReceive DEF lost
    <3>2. Receivers \ {t} = {}
      BY <3>1
    <3> QED BY <1>3, <1>5, <2>1, <3>1, <3>2
            DEF Rights, Placed, SameSend, SameReceive, SendFull
  <2>2. CASE ~ lost
    <3>1. Receivers \ {t} = Receivers
      BY <2>2 DEF Receivers, lost
    <3>2. q.receiveLost <=> p.receiveLost
      BY <1>5, <2>2
    <3> QED BY <1>3, <1>5, <3>1, <3>2 DEF Rights, SameSend, SameReceive, SendFull
  <2> QED BY <2>1, <2>2
<1>9. Len(q.sendBuffer) <= sendBufferSize /\ Going(q)
  BY <1>3, <1>5 DEF Going, SameFlow, SameSend
<1> QED BY <1>1, <1>2, <1>5, <1>6, <1>7, <1>8, <1>9, IdleSound, TaskMoves

-----------------------------------------------------------------------------
(* The rights change hands.                                                *)
LEMMA TakeSendStep ==
  ASSUME PortInv, NEW t \in Task, takeSend(t)
  PROVE  PortInv'
<1> DEFINE r == [call[t] EXCEPT !.pc = "put"]
           q == [p EXCEPT !.sendSemaphore = 0]
<1>1. call[t].pc = "sendwait" /\ call' = [call EXCEPT ![t] = r] /\ p' = q /\ p.sendSemaphore = 1
  BY DEF takeSend, At, Goes, Becomes
<1>2. p.openFlag
  BY InsideOpen DEF takeSend
<1>3. /\ q \in Port /\ Len(q.sendBuffer) <= sendBufferSize /\ SameMode(p, q) /\ Going(q)
      /\ q.sendSemaphore = 0 /\ (SendFull(q) <=> SendFull(p))
      /\ SameReceive(p, q) /\ q.errorFlag = p.errorFlag
  <2>1. p \in Port /\ Going(p) /\ Len(p.sendBuffer) <= sendBufferSize
    BY DEF PortInv
  <2>2. q \in Port
    BY <2>1 DEF Port
  <2> QED BY <2>1, <2>2 DEF Port, SameMode, Going, SendFull, SameReceive
<1>4. /\ r \in Call /\ r.pc = "put" /\ r.op = call[t].op /\ r.text = call[t].text
      /\ r.empty = call[t].empty /\ Sound(call[t])
  BY DEF PortInv, Sound, Call
<1> HIDE DEF q, r
<1>5. /\ Sound(r) /\ KeepsSend(r) /\ (KeepsReceive(r) <=> KeepsReceive(call[t]))
  BY <1>1, <1>4 DEF Sound, KeepsSend, KeepsReceive
<1>6. /\ Rights(p, Senders, Receivers)
      /\ (Receivers \ {t}) \cup (IF KeepsReceive(r) THEN {t} ELSE {}) = Receivers
  BY <1>2, <1>5, SameReceivers DEF PortInv, Phases
<1>7. Senders = {} /\ ~ SendFull(p)
  BY <1>1, <1>6 DEF Rights, Placed
<1>8. (Senders \ {t}) \cup (IF KeepsSend(r) THEN {t} ELSE {}) = {t}
  BY <1>5, <1>7
<1>9. Rights(q, {t}, Receivers)
  BY <1>3, <1>6, <1>7 DEF Rights, Placed, SameReceive, SameMode
<1>10. r.pc # "closing"
  BY <1>4
<1> QED BY <1>1, <1>2, <1>3, <1>5, <1>6, <1>8, <1>9, <1>10, TaskGoesOn

LEMMA TakeReceiveStep ==
  ASSUME PortInv, NEW t \in Task, takeReceive(t)
  PROVE  PortInv'
<1> DEFINE r == [call[t] EXCEPT !.pc = "get"]
           q == [p EXCEPT !.receiveSemaphore = 0]
<1>1. /\ call[t].pc = "receivewait" /\ call' = [call EXCEPT ![t] = r] /\ p' = q
      /\ p.receiveSemaphore = 1
  BY DEF takeReceive, At, Goes, Becomes
<1>2. p.openFlag
  BY InsideOpen DEF takeReceive
<1>3. /\ q \in Port /\ Len(q.sendBuffer) <= sendBufferSize /\ SameMode(p, q) /\ Going(q)
      /\ q.receiveSemaphore = 0 /\ q.receiveBuffer = p.receiveBuffer
      /\ SameSend(p, q) /\ q.errorFlag = p.errorFlag
  <2>1. p \in Port /\ Going(p) /\ Len(p.sendBuffer) <= sendBufferSize
    BY DEF PortInv
  <2>2. q \in Port
    BY <2>1 DEF Port
  <2> QED BY <2>1, <2>2 DEF Port, SameMode, Going, SameSend
<1>4. /\ r \in Call /\ r.pc = "get" /\ r.op = call[t].op /\ r.want = call[t].want
      /\ r.empty = call[t].empty /\ Sound(call[t])
  BY DEF PortInv, Sound, Call
<1> HIDE DEF q, r
<1>5. /\ Sound(r) /\ KeepsReceive(r) /\ (KeepsSend(r) <=> KeepsSend(call[t]))
  BY <1>1, <1>4 DEF Sound, KeepsSend, KeepsReceive
<1>6. /\ Rights(p, Senders, Receivers)
      /\ (Senders \ {t}) \cup (IF KeepsSend(r) THEN {t} ELSE {}) = Senders
  BY <1>2, <1>5, SameSenders DEF PortInv, Phases
<1>7. Receivers = {} /\ p.receiveBuffer # <<>> /\ ~p.receiveLost
  BY <1>1, <1>6 DEF Rights, Placed
<1>8. (Receivers \ {t}) \cup (IF KeepsReceive(r) THEN {t} ELSE {}) = {t}
  BY <1>5, <1>7
<1>9. Rights(q, Senders, {t})
  BY <1>3, <1>6, <1>7 DEF Rights, Placed, SameSend, SendFull, SameMode
<1>10. r.pc # "closing"
  BY <1>4
<1> QED BY <1>1, <1>2, <1>3, <1>5, <1>6, <1>8, <1>9, <1>10, TaskGoesOn

LEMMA GiveSendStep ==
  ASSUME PortInv, NEW t \in Task, giveSend(t)
  PROVE  PortInv'
<1> DEFINE r == AfterSending(call[t])
           q == signalSend(p)
<1>1. call[t].pc = "sendsignal" /\ p' = q
  BY DEF giveSend, At
<1>2. p.openFlag
  BY InsideOpen DEF giveSend
<1>3. Senders = {t} /\ p.sendSemaphore = 0 /\ ~SendFull(p)
  BY <1>1, <1>2, HoldingSend DEF KeepsSend
<1>4. call' = [call EXCEPT ![t] = r]
  BY <1>3 DEF giveSend, Becomes
<1>5. /\ p \in Port /\ Going(p) /\ Len(p.sendBuffer) <= sendBufferSize
      /\ call[t] \in Call /\ call[t].op # "none" /\ Rights(p, Senders, Receivers)
  BY <1>1, <1>2 DEF PortInv, Phases, Sound
<1>6. /\ q \in Port /\ SameMode(p, q) /\ SameReceive(p, q)
      /\ SameFlow(p, q) /\ q.sendStopped = p.sendStopped /\ SameUart(p, q)
      /\ q.sendBuffer = p.sendBuffer /\ q.sendSemaphore = 1 /\ q.errorFlag = p.errorFlag
  BY <1>3, <1>5, SignalSend
<1>7. /\ Sound(r) /\ ~ KeepsSend(r) /\ r.pc # "closing"
      /\ KeepsReceive(r) <=> KeepsReceive(call[t])
  BY <1>1, <1>5, AfterSendingSound DEF KeepsReceive
<1> HIDE DEF q, r
<1>8. (Receivers \ {t}) \cup (IF KeepsReceive(r) THEN {t} ELSE {}) = Receivers
  BY <1>7, SameReceivers
<1>9. (Senders \ {t}) \cup (IF KeepsSend(r) THEN {t} ELSE {}) = {}
  BY <1>3, <1>7
<1>10. Rights(q, {}, Receivers)
  BY <1>3, <1>5, <1>6 DEF Rights, Placed, SameReceive, SendFull, SameMode
<1>11. Len(q.sendBuffer) <= sendBufferSize /\ Going(q)
  BY <1>5, <1>6 DEF Going, SameFlow, SameUart
<1> QED BY <1>1, <1>2, <1>4, <1>6, <1>7, <1>8, <1>9, <1>10, <1>11, TaskGoesOn

LEMMA GiveReceiveStep ==
  ASSUME PortInv, NEW t \in Task, giveReceive(t)
  PROVE  PortInv'
<1> DEFINE q == signalReceive(p)
<1>1. call[t].pc = "receivesignal" /\ p' = q /\ call' = [call EXCEPT ![t] = Idle]
  BY DEF giveReceive, At, Becomes
<1>2. p.openFlag
  BY InsideOpen DEF giveReceive
<1>3. Receivers = {t} /\ p.receiveSemaphore = 0 /\ p.receiveBuffer # <<>> /\ ~p.receiveLost
  BY <1>1, <1>2, HoldingReceive DEF KeepsReceive
<1>5. /\ p \in Port /\ Going(p) /\ Len(p.sendBuffer) <= sendBufferSize
      /\ Rights(p, Senders, Receivers)
  BY <1>1, <1>2 DEF PortInv, Phases
<1>6. /\ q \in Port /\ SameMode(p, q) /\ SameSend(p, q)
      /\ SameFlow(p, q) /\ q.sendStopped = p.sendStopped /\ SameUart(p, q)
      /\ q.receiveBuffer = p.receiveBuffer /\ q.receiveSemaphore = 1
      /\ q.errorFlag = p.errorFlag
  BY <1>3, <1>5, SignalReceive
<1>7. KeepsSend(Idle) <=> KeepsSend(call[t])
  BY <1>1, IdleSound DEF KeepsSend
<1> HIDE DEF q
<1>8. (Senders \ {t}) \cup (IF KeepsSend(Idle) THEN {t} ELSE {}) = Senders
  BY <1>7, SameSenders
<1>9. (Receivers \ {t}) \cup (IF KeepsReceive(Idle) THEN {t} ELSE {}) = {}
  BY <1>3, IdleSound
<1>10. Rights(q, Senders, {})
  BY <1>3, <1>5, <1>6 DEF Rights, Placed, SameSend, SendFull, SameMode
<1>11. Len(q.sendBuffer) <= sendBufferSize /\ Going(q)
  BY <1>5, <1>6 DEF Going, SameFlow, SameUart, SameSend
<1>12. Sound(Idle) /\ Idle.pc # "closing"
  BY IdleSound DEF Idle
<1> QED BY <1>1, <1>2, <1>6, <1>8, <1>9, <1>10, <1>11, <1>12, TaskGoesOn

-----------------------------------------------------------------------------
(* What writeChar does with the right to send in hand.                     *)
Written(q, r, c) ==
  \/ /\ q.sendBuffer = <<>> /\ ~q.sendStopped /\ q.tx = NoChar
     /\ r.sendBuffer = q.sendBuffer /\ r.tx = c
  \/ r.sendBuffer = Append(q.sendBuffer, c) /\ r.tx = q.tx

LEMMA WriteChar ==
  ASSUME NEW q \in Port, NEW c \in Chars, Len(q.sendBuffer) <= sendBufferSize,
         ~ SendFull(q), Going(q)
  PROVE  LET r == writeChar(q, c)
         IN  /\ r \in Port /\ SameMode(q, r) /\ SameReceive(q, r)
             /\ r.sendStopped = q.sendStopped /\ r.rx = q.rx /\ r.errorFlag = q.errorFlag
             /\ r.sendSemaphore = q.sendSemaphore /\ Len(r.sendBuffer) <= sendBufferSize
             /\ Going(r) /\ Written(q, r, c)
<1> DEFINE free == q.sendBuffer = <<>> /\ ~q.sendStopped
           m == IF free THEN [q EXCEPT !.txim = TRUE] ELSE q
           r == writeChar(q, c)
<1>1. r = IF free /\ q.tx = NoChar THEN putchar(q, c)
          ELSE [m EXCEPT !.sendBuffer = Append(m.sendBuffer, c)]
  BY DEF writeChar, putready, enableCBR
<1>2. CASE free /\ q.tx = NoChar
  <2>1. r = putchar(q, c)
    BY <1>1, <1>2
  <2> HIDE DEF r
  <2>2. /\ r \in Port /\ SameMode(q, r) /\ SameReceive(q, r) /\ SameSend(q, r)
        /\ SameFlow(q, r) /\ r.sendStopped = q.sendStopped /\ r.errorFlag = q.errorFlag
        /\ r.rx = q.rx /\ r.tx = c /\ r.txim = q.txim
    BY <2>1, PutChar
  <2>3. Going(r) /\ Written(q, r, c)
    BY <1>2, <2>2 DEF Going, Written, SameSend, SameFlow
  <2> QED BY <2>2, <2>3 DEF SameSend, r
<1>3. CASE ~ (free /\ q.tx = NoChar)
  <2>1. r = [m EXCEPT !.sendBuffer = Append(m.sendBuffer, c)]
    BY <1>1, <1>3
  <2>2. /\ m \in Port /\ SameMode(q, m) /\ SameReceive(q, m) /\ Unsent(q, m)
        /\ SameFlow(q, m) /\ m.sendStopped = q.sendStopped
        /\ m.rx = q.rx /\ m.tx = q.tx
        /\ m.txim = IF free THEN TRUE ELSE q.txim
    <3>1. CASE free
      <4>1. m = [q EXCEPT !.txim = TRUE]
        BY <3>1
      <4> HIDE DEF m
      <4> QED BY <3>1, <4>1, Callback, ZenonT(60)
    <3>2. CASE ~ free
      BY <3>2 DEF SameMode, SameReceive, SameSend, SameFlow, Unsent
    <3> QED BY <3>1, <3>2
  <2> HIDE DEF m, r
  <2>3. Append(m.sendBuffer, c) \in Seq(Chars)
    BY <2>2 DEF Port
  <2>4. /\ r \in Port /\ SameMode(m, r) /\ SameReceive(m, r) /\ SameFlow(m, r)
        /\ r.sendStopped = m.sendStopped /\ r.rx = m.rx /\ r.tx = m.tx /\ r.txim = m.txim
        /\ r.errorFlag = m.errorFlag /\ r.sendSemaphore = m.sendSemaphore
        /\ r.sendBuffer = Append(m.sendBuffer, c)
    BY <2>1, <2>2, <2>3 DEF Port, SameMode, SameReceive, SameFlow
  <2>5. /\ SameMode(q, r) /\ SameReceive(q, r) /\ SameFlow(q, r)
        /\ r.sendBuffer = Append(q.sendBuffer, c) /\ r.sendSemaphore = q.sendSemaphore
        /\ r.errorFlag = q.errorFlag /\ r.sendStopped = q.sendStopped /\ r.rx = q.rx
        /\ r.tx = q.tx /\ r.txim = IF free THEN TRUE ELSE q.txim
    BY <2>2, <2>4 DEF SameMode, SameReceive, SameFlow, Unsent, SameSend
  <2>6. Len(r.sendBuffer) <= sendBufferSize
    <3>1. /\ q.sendBuffer \in Seq(Chars) /\ Len(q.sendBuffer) \in Nat
          /\ Len(q.sendBuffer) # sendBufferSize /\ sendBufferSize \in Nat
      BY SizesAssumption DEF Port, SendFull
    <3>2. Len(r.sendBuffer) = Len(q.sendBuffer) + 1
      BY <2>5, <3>1
    <3> QED BY <3>1, <3>2
  <2>7. Going(r)
    BY <2>5 DEF Going, SameFlow
  <2>8. Written(q, r, c)
    BY <2>5 DEF Written
  <2> QED BY <2>4, <2>5, <2>6, <2>7, <2>8 DEF r
<1> QED BY <1>2, <1>3

(* The character a task writes next.                                       *)
NextChar(t) ==
  IF Head(call[t].text) = LF /\ "CRLF" \in p.ioControl /\ ~call[t].crsent
  THEN CR ELSE Head(call[t].text)

LEMMA PutWrites ==
  ASSUME PortInv, NEW t \in Task, put(t)
  PROVE  /\ p.openFlag /\ Senders = {t} /\ p.sendSemaphore = 0 /\ ~SendFull(p)
         /\ NextChar(t) \in Chars /\ p' = writeChar(p, NextChar(t))
         /\ p' \in Port /\ SameMode(p, p') /\ SameReceive(p, p')
         /\ p'.sendStopped = p.sendStopped /\ p'.rx = p.rx /\ p'.errorFlag = p.errorFlag
         /\ p'.sendSemaphore = 0 /\ Len(p'.sendBuffer) <= sendBufferSize
         /\ Going(p') /\ Written(p, p', NextChar(t))
<1>1. call[t].pc = "put" /\ p' = writeChar(p, NextChar(t))
  BY DEF put, At, NextChar
<1>2. p.openFlag
  BY InsideOpen DEF put
<1>3. Senders = {t} /\ p.sendSemaphore = 0 /\ ~SendFull(p)
  BY <1>1, <1>2, HoldingSend DEF KeepsSend
<1>4. NextChar(t) \in Chars
  <2>1. call[t].text \in Seq(Chars) /\ call[t].text # <<>>
    BY <1>1 DEF PortInv, Sound, Call
  <2>2. Head(call[t].text) \in Chars /\ CR \in Chars
    BY <2>1, SizesAssumption DEF Chars
  <2> QED BY <2>2 DEF NextChar
<1>5. p \in Port /\ Len(p.sendBuffer) <= sendBufferSize /\ Going(p)
  BY DEF PortInv
<1> QED BY <1>1, <1>2, <1>3, <1>4, <1>5, WriteChar

LEMMA PutStep ==
  ASSUME PortInv, NEW t \in Task, put(t)
  PROVE  PortInv'
<1> DEFINE old == call[t]
           first == Head(old.text) = LF /\ "CRLF" \in p.ioControl /\ ~old.crsent
           rest == IF first THEN old.text ELSE Tail(old.text)
           m == [old EXCEPT !.text = rest, !.crsent = first]
           r == IF rest # <<>> THEN [m EXCEPT !.pc = IF SendFull(p') THEN "sendwait" ELSE "put"]
                ELSE IF SendFull(p') THEN AfterSending(m)
                ELSE [m EXCEPT !.pc = "sendsignal"]
<1>1. /\ p.openFlag /\ Senders = {t} /\ p.sendSemaphore = 0 /\ ~SendFull(p)
      /\ p' \in Port /\ SameMode(p, p') /\ SameReceive(p, p')
      /\ p'.errorFlag = p.errorFlag /\ p'.sendSemaphore = 0
      /\ Len(p'.sendBuffer) <= sendBufferSize /\ Going(p')
  BY PutWrites
<1>2. call' = [call EXCEPT ![t] = r]
  BY DEF put, Becomes
<1>3. /\ old \in Call /\ old.pc = "put" /\ old.op # "none" /\ old.text # <<>>
      /\ old.text \in Seq(Chars) /\ Rights(p, Senders, Receivers)
  BY <1>1 DEF put, At, PortInv, Phases, Sound, Call
<1>4. rest \in Seq(Chars) /\ first \in BOOLEAN
  BY <1>3
<1> HIDE DEF rest, first
<1>5. /\ m \in Call /\ m.pc = "put" /\ m.op = old.op /\ m.text = rest /\ m.empty = old.empty
  BY <1>3, <1>4 DEF Call
<1> HIDE DEF m
<1>6. /\ Sound(r) /\ r.pc # "closing" /\ (KeepsReceive(r) <=> KeepsReceive(old))
      /\ KeepsSend(r) <=> ~SendFull(p')
  <2>1. CASE rest # <<>> /\ SendFull(p')
    <3>1. r = [m EXCEPT !.pc = "sendwait"]
      BY <2>1
    <3> HIDE DEF r
    <3>2. /\ r \in Call /\ r.pc = "sendwait" /\ r.op = m.op /\ r.text = m.text
          /\ r.empty = m.empty
      BY <1>5, <3>1 DEF Call
    <3> QED BY <1>3, <1>5, <2>1, <3>2 DEF Sound, KeepsSend, KeepsReceive
  <2>2. CASE rest # <<>> /\ ~ SendFull(p')
    <3>1. r = [m EXCEPT !.pc = "put"]
      BY <2>2
    <3> HIDE DEF r
    <3>2. /\ r \in Call /\ r.pc = "put" /\ r.op = m.op /\ r.text = m.text
          /\ r.empty = m.empty
      BY <1>5, <3>1 DEF Call
    <3> QED BY <1>3, <1>5, <2>2, <3>2 DEF Sound, KeepsSend, KeepsReceive
  <2>3. CASE rest = <<>> /\ SendFull(p')
    <3>1. r = AfterSending(m)
      BY <2>3
    <3> HIDE DEF r
    <3> QED BY <1>3, <1>5, <2>3, <3>1, AfterSendingSound DEF KeepsReceive
  <2>4. CASE rest = <<>> /\ ~ SendFull(p')
    <3>1. r = [m EXCEPT !.pc = "sendsignal"]
      BY <2>4
    <3> HIDE DEF r
    <3>2. /\ r \in Call /\ r.pc = "sendsignal" /\ r.op = m.op /\ r.text = m.text
          /\ r.empty = m.empty
      BY <1>5, <3>1 DEF Call
    <3> QED BY <1>3, <1>5, <2>4, <3>2 DEF Sound, KeepsSend, KeepsReceive
  <2> QED BY <2>1, <2>2, <2>3, <2>4
<1> HIDE DEF r
<1>7. (Receivers \ {t}) \cup (IF KeepsReceive(r) THEN {t} ELSE {}) = Receivers
  BY <1>6, SameReceivers
<1>8. (Senders \ {t}) \cup (IF KeepsSend(r) THEN {t} ELSE {}) = IF SendFull(p') THEN {} ELSE {t}
  BY <1>1, <1>6
<1>9. Rights(p', IF SendFull(p') THEN {} ELSE {t}, Receivers)
  <2>1. CASE SendFull(p')
    BY <1>1, <1>3, <2>1 DEF Rights, Placed, SameReceive, SameMode
  <2>2. CASE ~ SendFull(p')
    BY <1>1, <1>3, <2>2 DEF Rights, Placed, SameReceive, SameMode
  <2> QED BY <2>1, <2>2
<1> QED BY <1>1, <1>2, <1>6, <1>7, <1>8, <1>9, TaskGoesOn

(* A character is taken from the receive buffer.                           *)
LEMMA GetReads ==
  ASSUME PortInv, NEW t \in Task, get(t)
  PROVE  /\ p.openFlag /\ Receivers = {t} /\ p.receiveSemaphore = 0 /\ p.receiveBuffer # <<>>
         /\ ~p.receiveLost
         /\ Head(p.receiveBuffer) \in Chars /\ p' \in Port /\ SameMode(p, p') /\ Unsent(p, p')
         /\ p'.sendStopped = p.sendStopped /\ p'.receiveSemaphore = 0 /\ Going(p')
         /\ (FlowSent(p, p') \/ FlowKept(p, p'))
<1> DEFINE q == [p EXCEPT !.receiveBuffer = Tail(p.receiveBuffer)]
<1>1. call[t].pc = "get" /\ p' = startPeer(q)
  BY DEF get, At
<1>2. p.openFlag
  BY InsideOpen DEF get
<1>3. Receivers = {t} /\ p.receiveSemaphore = 0 /\ p.receiveBuffer # <<>> /\ ~p.receiveLost
  BY <1>1, <1>2, HoldingReceive DEF KeepsReceive
<1>4. p \in Port /\ Going(p) /\ p.receiveBuffer \in Seq(Chars)
  BY DEF PortInv, Port
<1>5. Head(p.receiveBuffer) \in Chars /\ Tail(p.receiveBuffer) \in Seq(Chars)
  BY <1>3, <1>4
<1>6. /\ q \in Port /\ SameMode(p, q) /\ Unsent(p, q) /\ FlowKept(p, q)
      /\ q.sendStopped = p.sendStopped /\ q.receiveSemaphore = p.receiveSemaphore
  BY <1>4, <1>5 DEF Port, SameMode, Unsent, SameSend, FlowKept
<1> HIDE DEF q
<1>7. /\ p' \in Port /\ SameMode(q, p') /\ SameReceive(q, p') /\ Unsent(q, p')
      /\ p'.sendStopped = q.sendStopped
      /\ (FlowSent(q, p') \/ FlowKept(q, p'))
  BY <1>1, <1>6, FlowDecision
<1>8. SameMode(p, p') /\ Unsent(p, p') /\ p'.receiveSemaphore = 0 /\ p'.sendStopped = p.sendStopped
  BY <1>3, <1>6, <1>7 DEF SameMode, Unsent, SameSend, SameReceive
<1>9. FlowSent(p, p') \/ FlowKept(p, p')
  BY <1>6, <1>7 DEF FlowSent, FlowKept
<1>10. Going(p')
  BY <1>4, <1>8, <1>9 DEF Going, Unsent, SameSend, FlowSent, FlowKept
<1> QED BY <1>2, <1>3, <1>5, <1>7, <1>8, <1>9, <1>10

LEMMA GetStep ==
  ASSUME PortInv, NEW t \in Task, get(t)
  PROVE  PortInv'
<1> DEFINE old == call[t]
           c == Head(p.receiveBuffer)
           gone == p'.receiveBuffer = <<>>
           m == [old EXCEPT !.want = old.want - 1, !.empty = gone]
           e == [m EXCEPT !.pc = "sendwait", !.text = <<c>>]
           r == IF "ECHO" \in p.ioControl THEN e ELSE ReadOn(m)
<1>1. /\ p.openFlag /\ Receivers = {t} /\ p.receiveSemaphore = 0 /\ p.receiveBuffer # <<>>
      /\ ~p.receiveLost
      /\ c \in Chars /\ p' \in Port /\ SameMode(p, p') /\ Unsent(p, p')
      /\ p'.receiveSemaphore = 0 /\ Going(p')
  BY GetReads
<1>2. call' = [call EXCEPT ![t] = r]
  BY DEF get, Becomes
<1>3. /\ old \in Call /\ old.pc = "get" /\ old.op = "read" /\ old.want > 0 /\ old.want \in Nat
      /\ Rights(p, Senders, Receivers) /\ Len(p.sendBuffer) <= sendBufferSize
  BY <1>1 DEF get, At, PortInv, Phases, Sound, Call
<1>4. gone \in BOOLEAN /\ (gone <=> p'.receiveBuffer = <<>>)
  OBVIOUS
<1> HIDE DEF gone
<1>5. /\ m \in Call /\ m.pc = "get" /\ m.op = "read" /\ m.empty = gone
  <2>1. old.want - 1 \in Nat
    BY <1>3
  <2> HIDE DEF old
  <2> QED BY <1>3, <1>4, <2>1 DEF Call
<1> HIDE DEF m, c
<1>6. /\ Sound(r) /\ r.pc # "closing" /\ ~ KeepsSend(r)
      /\ KeepsReceive(r) <=> ~gone
  <2>1. CASE "ECHO" \in p.ioControl
    <3>1. r = e
      BY <2>1
    <3>2. /\ e \in Call /\ e.pc = "sendwait" /\ e.op = "read" /\ e.text = <<c>>
          /\ e.empty = gone /\ <<c>> # <<>>
      <4>1. <<c>> \in Seq(Chars) /\ <<c>> # <<>>
        BY <1>1
      <4> DEFINE s == <<c>>
      <4>2. e = [m EXCEPT !.pc = "sendwait", !.text = s]
        OBVIOUS
      <4> HIDE DEF s
      <4> QED BY <1>5, <4>1, <4>2 DEF Call, s
    <3> HIDE DEF e, r
    <3> QED BY <3>1, <3>2 DEF Sound, KeepsSend, KeepsReceive
  <2>2. CASE "ECHO" \notin p.ioControl
    <3>1. r = ReadOn(m)
      BY <2>2
    <3> HIDE DEF r
    <3> QED BY <1>5, <3>1, ReadOnSound
  <2> QED BY <2>1, <2>2
<1> HIDE DEF r
<1>7. (Senders \ {t}) \cup (IF KeepsSend(r) THEN {t} ELSE {}) = Senders
  <2>1. ~ KeepsSend(call[t])
    BY <1>3 DEF KeepsSend
  <2> QED BY <1>6, <2>1, SameSenders
<1>8. (Receivers \ {t}) \cup (IF KeepsReceive(r) THEN {t} ELSE {}) = IF gone THEN {} ELSE {t}
  BY <1>1, <1>6
<1>9. Rights(p', Senders, IF gone THEN {} ELSE {t})
  <2>1. /\ p'.errorFlag = p.errorFlag /\ p'.sendSemaphore = p.sendSemaphore
        /\ ~p'.receiveLost
        /\ SendFull(p') <=> SendFull(p)
    BY <1>1 DEF Unsent, SameSend, SendFull, SameMode
  <2>2. CASE gone
    BY <1>1, <1>3, <1>4, <2>1, <2>2 DEF Rights, Placed
  <2>3. CASE ~ gone
    BY <1>1, <1>3, <1>4, <2>1, <2>3 DEF Rights, Placed
  <2> QED BY <2>2, <2>3
<1>10. Len(p'.sendBuffer) <= sendBufferSize
  BY <1>1, <1>3 DEF Unsent, SameSend
<1> QED BY <1>1, <1>2, <1>6, <1>7, <1>8, <1>9, <1>10, TaskGoesOn

-----------------------------------------------------------------------------
(* The port is opened and closed.                                          *)
LEMMA OpenStep ==
  ASSUME PortInv, NEW t \in Task, open(t)
  PROVE  PortInv'
<1>1. ~ p.openFlag /\ \A u \in Task : call[u].pc # "closing"
  BY DEF open, At
<1>2. \A u \in Task : call[u] = Idle
  BY <1>1 DEF PortInv, Phases, Sound
<1>3. Senders = {} /\ Receivers = {}
  BY <1>2, IdleSound DEF Senders, Receivers
<1>4. /\ p \in Port /\ p.sendSemaphore = 1 /\ p.receiveSemaphore = 0 /\ ~p.receiveLost
  BY <1>1 DEF PortInv, Phases
<1>5. /\ p' \in Port /\ p'.openFlag = TRUE /\ p'.enabled = TRUE /\ p'.errorFlag = FALSE
      /\ p'.sendBuffer = <<>> /\ p'.receiveBuffer = <<>> /\ p'.receiveFlowControl = NoChar
      /\ p'.sendSemaphore = 1 /\ p'.receiveSemaphore = 0 /\ ~p'.receiveLost
  <2>1. <<>> \in Seq(Chars)
    OBVIOUS
  <2> QED BY <1>4, <2>1 DEF open, Port
<1>6. call' = call
  BY DEF open
<1>7. Senders' = {} /\ Receivers' = {}
  BY <1>3, <1>6 DEF Senders, Receivers
<1>8. Len(p'.sendBuffer) = 0 /\ ~ SendFull(p') /\ Len(p'.sendBuffer) <= sendBufferSize
  BY <1>5, SizesAssumption DEF SendFull
<1>9. Rights(p', {}, {})
  BY <1>5, <1>8 DEF Rights, Placed
<1>10. Phases'
  BY <1>1, <1>5, <1>6, <1>7, <1>9 DEF Phases
<1>11. Going(p')
  BY <1>5 DEF Going
<1> QED BY <1>5, <1>6, <1>8, <1>10, <1>11 DEF PortInv, Going, Sound

LEMMA CloseStep ==
  ASSUME PortInv, NEW t \in Task, close(t), Unused
  PROVE  PortInv'
<1> DEFINE r == [call[t] EXCEPT !.pc = "closing"]
<1>1. /\ call[t].pc = "idle" /\ p.openFlag /\ call' = [call EXCEPT ![t] = r]
      /\ \A u \in Task : Parked(u)
  BY DEF close, At, Goes, Becomes, Unused, Parked
<1>2. /\ p' \in Port /\ p'.openFlag = FALSE /\ p'.enabled = FALSE
      /\ p'.sendBuffer = p.sendBuffer /\ p'.receiveFlowControl = p.receiveFlowControl
      /\ p'.sendStopped = p.sendStopped /\ p'.txim = p.txim
      /\ p'.sendSemaphore = p.sendSemaphore /\ p'.receiveSemaphore = p.receiveSemaphore
      /\ p'.rx = p.rx /\ p'.tx = p.tx
  BY DEF close, PortInv, Port
<1>3. call[t] = Idle
  BY <1>1 DEF PortInv, Sound
<1>4. /\ r \in Call /\ r.pc = "closing" /\ r.op = "none"
  BY <1>3, IdleSound DEF Idle, Call
<1>5. Sound(r)
  BY <1>4 DEF Sound
<1> HIDE DEF r
<1>6. /\ call'[t] = r /\ \A u \in Task \ {t} : call'[u] = call[u]
      /\ DOMAIN call' = Task /\ call' \in [Task -> Call]
  BY <1>1, <1>4 DEF PortInv
<1>7. \A u \in Task : Sound(call'[u])
  BY <1>5, <1>6 DEF PortInv
<1>8. \A u \in Task \ {t} : call'[u].pc # "closing" /\ Parked(u)'
  BY <1>1, <1>2, <1>6 DEF Parked, Waits, InterruptPending, putready
<1>9. Phases'
  <2>1. \A u \in Task : call'[u].pc = "closing" => u = t
    BY <1>8
  <2> QED BY <1>2, <1>4, <1>6, <1>8, <2>1 DEF Phases
<1>10. Len(p'.sendBuffer) <= sendBufferSize /\ Going(p')
  BY <1>2 DEF PortInv, Going
<1> QED BY <1>2, <1>6, <1>7, <1>9, <1>10 DEF PortInv, Sound, Going

LEMMA InitializeStep ==
  ASSUME PortInv, NEW t \in Task, initializeSemaphores(t)
  PROVE  PortInv'
<1>1. /\ call[t].pc = "closing" /\ ~InterruptPending
      /\ call' = [u \in Task |-> IF u = t \/ Waits(u) THEN Idle ELSE call[u]]
  BY DEF initializeSemaphores, At
<1>2. ~p.openFlag /\ \A u \in Task \ {t} : Parked(u)
  BY <1>1 DEF PortInv, Phases
<1>3. \A u \in Task : call'[u] = Idle
  <2> SUFFICES ASSUME NEW u \in Task PROVE call'[u] = Idle
    OBVIOUS
  <2>1. u = t \/ Waits(u) \/ call[u].pc = "idle"
    BY <1>2 DEF Parked
  <2>2. call[u].pc = "idle" => call[u] = Idle
    BY DEF PortInv, Sound
  <2> QED BY <1>1, <2>1, <2>2
<1>4. /\ p' \in Port /\ p'.openFlag = FALSE /\ p'.enabled = p.enabled
      /\ p'.sendBuffer = p.sendBuffer /\ p'.receiveFlowControl = p.receiveFlowControl
      /\ p'.sendStopped = p.sendStopped /\ p'.txim = p.txim /\ p'.rx = p.rx /\ p'.tx = p.tx
      /\ p'.sendSemaphore = 1 /\ p'.receiveSemaphore = 0 /\ p'.receiveLost = FALSE
  BY <1>2 DEF initializeSemaphores, PortInv, Port
<1>5. ~ InterruptPending'
  BY <1>1, <1>4 DEF InterruptPending, putready
<1>6. p'.enabled = p'.openFlag
  BY <1>2, <1>4 DEF PortInv, Phases, Port
<1>7. Idle.pc = "idle"
  BY DEF Idle
<1>8. Phases'
  BY <1>3, <1>4, <1>5, <1>6, <1>7 DEF Phases
<1>9. Len(p'.sendBuffer) <= sendBufferSize /\ Going(p')
  BY <1>4 DEF PortInv, Going
<1>10. DOMAIN call' = Task /\ call' \in [Task -> Call] /\ \A u \in Task : Sound(call'[u])
  BY <1>1, <1>3, IdleSound DEF PortInv
<1> QED BY <1>4, <1>8, <1>9, <1>10 DEF PortInv, Sound, Going

-----------------------------------------------------------------------------
(* The port goes on while no call does.                                    *)
LEMMA PortGoesOn ==
  ASSUME PortInv, call' = call,
         p' \in Port, Len(p'.sendBuffer) <= sendBufferSize, Going(p'),
         p'.openFlag = p.openFlag, p'.enabled = p.enabled,
         p.openFlag \/ (InterruptPending /\ \E t \in Task : call[t].pc = "closing"),
         Rights(p, Senders, Receivers) => Rights(p', Senders, Receivers)
  PROVE  PortInv'
<1>1. Senders' = Senders /\ Receivers' = Receivers
  BY DEF Senders, Receivers
<1>2. p.openFlag => Rights(p', Senders', Receivers')
  BY <1>1 DEF PortInv, Phases
<1>3. Phases'
  BY <1>2 DEF PortInv, Phases, Parked
<1> QED BY <1>3 DEF PortInv, Going, Sound

LEMMA InterruptStep ==
  ASSUME PortInv, Interrupt
  PROVE  PortInv' /\ (Quiet(p, p') \/ Overtaken(p, p') \/ Sends(p, p'))
<1>1. InterruptPending /\ p' = ISR(p) /\ call' = call
  BY DEF Interrupt
<1>2. /\ p \in Port /\ Len(p.sendBuffer) <= sendBufferSize /\ Going(p)
      /\ Senders \in SUBSET Task /\ Receivers \in SUBSET Task
  BY DEF PortInv, Senders, Receivers
<1>3. /\ p' \in Port /\ SameMode(p, p') /\ Len(p'.sendBuffer) <= sendBufferSize
      /\ Going(p')
      /\ Rights(p, Senders, Receivers) => Rights(p', Senders, Receivers)
      /\ (Quiet(p, p') \/ Overtaken(p, p') \/ Sends(p, p'))
  BY <1>1, <1>2, Handler
<1>4. p.openFlag \/ (InterruptPending /\ \E t \in Task : call[t].pc = "closing")
  BY <1>1 DEF PortInv, Phases
<1>5. p'.openFlag = p.openFlag /\ p'.enabled = p.enabled
  BY <1>3 DEF SameMode
<1>6. PortInv'
  BY <1>1, <1>3, <1>4, <1>5, PortGoesOn
<1> QED BY <1>3, <1>6

(* The line moves on, or the controls are set.                             *)
LEMMA LineStep ==
  ASSUME PortInv, Arrive \/ Gone \/ \E t \in Task : control(t)
  PROVE  PortInv'
<1>1. p.openFlag /\ call' = call /\ p \in Port /\ Len(p.sendBuffer) <= sendBufferSize /\ Going(p)
  BY DEF Arrive, Gone, control, Ready, PortInv, Phases
<1>2. CASE Arrive
  <2>1. PICK c \in Arriving \cup {FC_START, FC_STOP} : p' = [p EXCEPT !.rx = c]
    BY <1>2 DEF Arrive
  <2>2. c \in Chars
    BY SizesAssumption DEF Chars
  <2>3. p' \in Port
    BY <1>1, <2>1, <2>2 DEF Port
  <2>4. /\ p'.openFlag = p.openFlag /\ p'.enabled = p.enabled /\ p'.txim = p.txim
        /\ p'.sendBuffer = p.sendBuffer /\ p'.sendStopped = p.sendStopped
        /\ p'.receiveFlowControl = p.receiveFlowControl /\ p'.errorFlag = p.errorFlag
        /\ SameReceive(p, p') /\ p'.sendSemaphore = p.sendSemaphore
        /\ p'.receiveLost = p.receiveLost
    BY <1>1, <2>1 DEF Port, SameReceive
  <2>5. Going(p') /\ (Rights(p, Senders, Receivers) => Rights(p', Senders, Receivers))
    BY <1>1, <2>4 DEF Going, Rights, SendFull, SameReceive
  <2> QED BY <1>1, <2>3, <2>4, <2>5, PortGoesOn
<1>3. CASE Gone
  <2>1. p' = [p EXCEPT !.tx = NoChar]
    BY <1>3 DEF Gone
  <2>3. p' \in Port
    BY <1>1, <2>1 DEF Port
  <2>4. /\ p'.openFlag = p.openFlag /\ p'.enabled = p.enabled /\ p'.txim = p.txim
        /\ p'.sendBuffer = p.sendBuffer /\ p'.sendStopped = p.sendStopped
        /\ p'.receiveFlowControl = p.receiveFlowControl /\ p'.errorFlag = p.errorFlag
        /\ SameReceive(p, p') /\ p'.sendSemaphore = p.sendSemaphore
        /\ p'.receiveLost = p.receiveLost
    BY <1>1, <2>1 DEF Port, SameReceive
  <2>5. Going(p') /\ (Rights(p, Senders, Receivers) => Rights(p', Senders, Receivers))
    BY <1>1, <2>4 DEF Going, Rights, SendFull, SameReceive
  <2> QED BY <1>1, <2>3, <2>4, <2>5, PortGoesOn
<1>4. CASE \E t \in Task : control(t)
  <2>1. PICK io \in Controls : p' = [p EXCEPT !.ioControl = io]
    BY <1>4 DEF control
  <2>3. p' \in Port
    BY <1>1, <2>1 DEF Port
  <2>4. /\ p'.openFlag = p.openFlag /\ p'.enabled = p.enabled /\ p'.txim = p.txim
        /\ p'.sendBuffer = p.sendBuffer /\ p'.sendStopped = p.sendStopped
        /\ p'.receiveFlowControl = p.receiveFlowControl /\ p'.errorFlag = p.errorFlag
        /\ SameReceive(p, p') /\ p'.sendSemaphore = p.sendSemaphore
        /\ p'.receiveLost = p.receiveLost
    BY <1>1, <2>1 DEF Port, SameReceive
  <2>5. Going(p') /\ (Rights(p, Senders, Receivers) => Rights(p', Senders, Receivers))
    BY <1>1, <2>4 DEF Going, Rights, SendFull, SameReceive
  <2> QED BY <1>1, <2>3, <2>4, <2>5, PortGoesOn
<1> QED BY <1>2, <1>3, <1>4

LEMMA InitPort == Init => PortInv
<1> SUFFICES ASSUME Init PROVE PortInv
  OBVIOUS
<1>1. /\ p \in Port /\ p.openFlag = FALSE /\ p.enabled = FALSE /\ p.sendBuffer = <<>>
      /\ p.sendSemaphore = 1 /\ p.receiveSemaphore = 0 /\ p.receiveFlowControl = NoChar
      /\ p.rx = NoChar /\ p.txim = FALSE /\ p.receiveLost = FALSE
  <2>1. <<>> \in Seq(Chars)
    OBVIOUS
  <2> QED BY <2>1 DEF Init, Port
<1>2. /\ DOMAIN call = Task /\ call \in [Task -> Call] /\ \A t \in Task : Sound(call[t])
      /\ \A t \in Task : call[t] = Idle
  BY IdleSound DEF Init
<1>3. Idle.pc = "idle"
  BY DEF Idle
<1>4. Phases
  BY <1>1, <1>2, <1>3 DEF Phases, InterruptPending
<1>5. Len(p.sendBuffer) <= sendBufferSize /\ Going(p)
  BY <1>1, SizesAssumption DEF Going
<1> QED BY <1>1, <1>2, <1>4, <1>5 DEF PortInv

LEMMA NextPort == PortInv /\ [Next]_serialVars => PortInv'
<1> SUFFICES ASSUME PortInv, [Next]_serialVars PROVE PortInv'
  OBVIOUS
<1>1. CASE UNCHANGED serialVars
  <2>1. p' = p /\ call' = call
    BY <1>1 DEF serialVars
  <2>2. Senders' = Senders /\ Receivers' = Receivers /\ (InterruptPending' <=> InterruptPending)
    BY <2>1 DEF Senders, Receivers, InterruptPending
  <2>3. Phases'
    BY <2>1, <2>2 DEF PortInv, Phases, Parked, Waits
  <2> QED BY <2>1, <2>3 DEF PortInv, Going, Sound
<1>2. ASSUME NEW t \in Task, write(t) PROVE PortInv'
  BY <1>2, WriteStep
<1>3. ASSUME NEW t \in Task, read(t) PROVE PortInv'
  BY <1>3, ReadStep
<1>4. ASSUME NEW t \in Task, open(t) PROVE PortInv'
  BY <1>4, OpenStep
<1>5. ASSUME NEW t \in Task, Unused /\ close(t) PROVE PortInv'
  BY <1>5, CloseStep
<1>6. ASSUME NEW t \in Task, put(t) PROVE PortInv'
  BY <1>6, PutStep
<1>7. ASSUME NEW t \in Task, giveSend(t) PROVE PortInv'
  BY <1>7, GiveSendStep
<1>8. ASSUME NEW t \in Task, get(t) PROVE PortInv'
  BY <1>8, GetStep
<1>9. ASSUME NEW t \in Task, giveReceive(t) PROVE PortInv'
  BY <1>9, GiveReceiveStep
<1>10. ASSUME NEW t \in Task, initializeSemaphores(t) PROVE PortInv'
  BY <1>10, InitializeStep
<1>11. ASSUME NEW t \in Task, takeSend(t) PROVE PortInv'
  BY <1>11, TakeSendStep
<1>12. ASSUME NEW t \in Task, takeReceive(t) PROVE PortInv'
  BY <1>12, TakeReceiveStep
<1>13. ASSUME NEW t \in Task, released(t) PROVE PortInv'
  BY <1>13, ReleasedStep
<1>14. CASE Interrupt
  BY <1>14, InterruptStep
<1>15. CASE Arrive \/ Gone \/ \E t \in Task : control(t)
  BY <1>15, LineStep
<1> QED BY <1>1, <1>2, <1>3, <1>4, <1>5, <1>6, <1>7, <1>8, <1>9, <1>10, <1>11, <1>12, <1>13,
           <1>14, <1>15, Zenon DEF Next, Begin, Step

(* The invariant of the port.                                              *)
THEOREM PortCorrect == Spec => []PortInv
<1>1. Init => PortInv
  BY InitPort
<1>2. PortInv /\ [Next]_serialVars => PortInv'
  BY NextPort
<1> QED BY <1>1, <1>2, PTL DEF Spec

(* The rights to send and to receive are each in exactly one place while   *)
(* the port is open, so that no signal fails: whatever writers, readers,   *)
(* echoes, rel_wai, flow control and the interrupt handler do, and however *)
(* often the port is closed and opened.  A reader released out of its echo *)
(* loses the right to receive; nothing else does.                          *)
THEOREM RightsCorrect == Spec => []RightsConserved
<1>1. PortInv => RightsConserved
  <2> SUFFICES ASSUME PortInv PROVE RightsConserved
    OBVIOUS
  <2>1. ASSUME p.openFlag
        PROVE  /\ Held(HoldsSend) = Cardinality(Senders)
               /\ Held(HoldsReceive) = Cardinality(Receivers)
    <3>1. {t \in Task : HoldsSend(t)} = Senders
      BY DEF HoldsSend, Senders, KeepsSend
    <3>2. {t \in Task : HoldsReceive(t)} = Receivers
      BY DEF HoldsReceive, Receivers, KeepsReceive
    <3> QED BY <3>1, <3>2 DEF Held
  <2>2. Cardinality({}) = 0 /\ \A t \in Task : Cardinality({t}) = 1
    BY FS_EmptySet, FS_Singleton
  <2>3. ASSUME p.openFlag
        PROVE  /\ ~p.errorFlag
               /\ p.sendSemaphore + Held(HoldsSend) + (IF SendFull(p) THEN 1 ELSE 0) = 1
               /\ p.receiveSemaphore + Held(HoldsReceive)
                    + (IF p.receiveBuffer = <<>> THEN 1 ELSE 0)
                    + (IF p.receiveLost THEN 1 ELSE 0) = 1
    <3>1. /\ ~p.errorFlag
          /\ Placed(p.sendSemaphore, Senders, SendFull(p))
          /\ Placed(p.receiveSemaphore, Receivers, p.receiveBuffer = <<>> \/ p.receiveLost)
          /\ p.receiveLost => p.receiveBuffer # <<>>
      BY <2>3 DEF PortInv, Phases, Rights
    <3>2. p.sendSemaphore + Cardinality(Senders) + (IF SendFull(p) THEN 1 ELSE 0) = 1
      <4>1. CASE p.sendSemaphore = 1 /\ Senders = {} /\ ~SendFull(p)
        BY <2>2, <4>1
      <4>2. CASE p.sendSemaphore = 0 /\ Senders = {} /\ SendFull(p)
        BY <2>2, <4>2
      <4>3. CASE p.sendSemaphore = 0 /\ ~SendFull(p) /\ \E t \in Task : Senders = {t}
        BY <2>2, <4>3
      <4> QED BY <3>1, <4>1, <4>2, <4>3 DEF Placed
    <3>3. p.receiveSemaphore + Cardinality(Receivers)
            + (IF p.receiveBuffer = <<>> THEN 1 ELSE 0)
            + (IF p.receiveLost THEN 1 ELSE 0) = 1
      <4>1. CASE p.receiveBuffer = <<>>
        <5>1. p.receiveSemaphore = 0 /\ Receivers = {} /\ ~p.receiveLost
          BY <3>1, <4>1 DEF Placed
        <5> QED BY <2>2, <4>1, <5>1
      <4>2. CASE p.receiveLost
        <5>1. p.receiveSemaphore = 0 /\ Receivers = {} /\ p.receiveBuffer # <<>>
          BY <3>1, <4>2 DEF Placed
        <5> QED BY <2>2, <4>2, <5>1
      <4>3. CASE p.receiveBuffer # <<>> /\ ~p.receiveLost
        <5>1. \/ p.receiveSemaphore = 1 /\ Receivers = {}
              \/ p.receiveSemaphore = 0 /\ \E t \in Task : Receivers = {t}
          BY <3>1, <4>3 DEF Placed
        <5> QED BY <2>2, <4>3, <5>1
      <4> QED BY <4>1, <4>2, <4>3
    <3> QED BY <2>1, <2>3, <3>1, <3>2, <3>3
  <2>4. ASSUME NEW t \in Task, call[t].pc = "get"
        PROVE  p.receiveBuffer # <<>>
    <3>1. \A u \in Task : call[u].pc # "closing"
      BY <2>4 DEF PortInv, Phases, Parked, Waits
    <3>2. p.openFlag
      BY <2>4, <3>1 DEF PortInv, Phases
    <3> QED BY <2>4, <3>2, HoldingReceive DEF KeepsReceive
  <2> QED BY <2>3, <2>4 DEF RightsConserved
<1> QED BY <1>1, PortCorrect, PTL

(* While a START or STOP waits, or characters do and the peer allows them, *)
(* the interrupt that sends them is enabled, although the handler disables *)
(* it when it finds nothing to send and tasks add to the buffer meanwhile. *)
THEOREM SendingKept == Spec => []SendingGoesOn
<1>1. PortInv => SendingGoesOn
  BY DEF PortInv, Going, SendingGoesOn
<1> QED BY <1>1, PortCorrect, PTL

-----------------------------------------------------------------------------
(* Every step is a step of the paced line, or none.                        *)
LEMMA LineSteps ==
  ASSUME PortInv, PortInv', [Next]_serialVars
  PROVE  [Line!Next]_(Line!lineVars)
<1> USE DEF Line!lineVars
<1>1. ASSUME p'.sendBuffer = p.sendBuffer, p'.tx = p.tx
      PROVE  [Line!Next]_(Line!lineVars)
  <2>1. p.sendStopped \in BOOLEAN /\ p'.sendStopped \in BOOLEAN
    BY DEF PortInv, Port
  <2>2. p'.sendStopped = p.sendStopped \/ Line!HoldOrRelease
    BY <1>1, <2>1 DEF Line!HoldOrRelease
  <2> QED BY <1>1, <2>2 DEF Line!Next
<1>2. ASSUME Overtaken(p, p')
      PROVE  [Line!Next]_(Line!lineVars)
  <2>1. p'.sendStopped \in BOOLEAN
    BY DEF PortInv, Port
  <2>2. Line!Overtake(p'.tx)
    BY <1>2, <2>1 DEF Overtaken, Line!Overtake, Line!Emit
  <2> QED BY <1>2, <2>2 DEF Overtaken, Line!Next
<1>3. ASSUME Sends(p, p')
      PROVE  [Line!Next]_(Line!lineVars)
  <2>1. Line!Send
    BY <1>3 DEF Sends, Line!Send, Line!Emit
  <2> QED BY <2>1 DEF Line!Next
<1>4. ASSUME NEW t \in Task, put(t)
      PROVE  [Line!Next]_(Line!lineVars)
  <2> DEFINE c == NextChar(t)
  <2>1. /\ ~SendFull(p) /\ c \in Chars /\ p'.sendStopped = p.sendStopped /\ Written(p, p', c)
    BY <1>4, PutWrites
  <2> HIDE DEF c
  <2>2. Len(p.sendBuffer) < sendBufferSize
    <3>1. Len(p.sendBuffer) \in Nat /\ Len(p.sendBuffer) <= sendBufferSize
      BY DEF PortInv, Port
    <3> QED BY <2>1, <3>1, SizesAssumption DEF SendFull
  <2>3. Line!Accept(c) \/ Line!Straight(c)
    BY <2>1, <2>2 DEF Written, Line!Accept, Line!Straight, Line!Emit
  <2> QED BY <2>1, <2>3 DEF Chars, Line!Next
<1>5. ASSUME NEW t \in Task, get(t)
      PROVE  [Line!Next]_(Line!lineVars)
  <2>1. Unsent(p, p') /\ (FlowSent(p, p') \/ FlowKept(p, p'))
    BY <1>5, GetReads
  <2>2. Overtaken(p, p') \/ (p'.sendBuffer = p.sendBuffer /\ p'.tx = p.tx)
    BY <2>1 DEF Unsent, SameSend, FlowSent, FlowKept, Overtaken
  <2> QED BY <1>1, <1>2, <2>2
<1>6. ASSUME NEW t \in Task, giveSend(t)
      PROVE  [Line!Next]_(Line!lineVars)
  <2>1. p'.sendBuffer = p.sendBuffer /\ p'.tx = p.tx
    BY <1>6, SignalSend DEF giveSend, PortInv, SameUart
  <2> QED BY <1>1, <2>1
<1>7. ASSUME NEW t \in Task, giveReceive(t)
      PROVE  [Line!Next]_(Line!lineVars)
  <2>1. p'.sendBuffer = p.sendBuffer /\ p'.tx = p.tx
    BY <1>7, SignalReceive DEF giveReceive, PortInv, SameUart, SameSend
  <2> QED BY <1>1, <2>1
<1>8. ASSUME NEW t \in Task,
             \/ close(t) \/ control(t) \/ initializeSemaphores(t)
             \/ takeSend(t) \/ takeReceive(t) \/ released(t) \/ Arrive
      PROVE  [Line!Next]_(Line!lineVars)
  <2>1. p'.sendBuffer = p.sendBuffer /\ p'.tx = p.tx
    BY <1>8 DEF close, control, initializeSemaphores, takeSend, takeReceive, released, Arrive,
                PortInv, Port
  <2> QED BY <1>1, <2>1
<1>9. ASSUME NEW t \in Task, write(t) \/ read(t)
      PROVE  [Line!Next]_(Line!lineVars)
  <2>1. p' = p
    BY <1>9 DEF write, read
  <2> QED BY <1>1, <2>1
<1>10. ASSUME NEW t \in Task, open(t)
       PROVE  [Line!Next]_(Line!lineVars)
  <2>1. p'.sendBuffer = <<>> /\ p'.sendStopped = FALSE /\ p'.tx = p.tx
    BY <1>10 DEF open, PortInv, Port
  <2>2. Line!Restart
    BY <2>1 DEF Line!Restart
  <2> QED BY <2>2 DEF Line!Next
<1>11. ASSUME Gone
       PROVE  [Line!Next]_(Line!lineVars)
  <2>1. p'.sendBuffer = p.sendBuffer /\ p'.sendStopped = p.sendStopped /\ p'.tx = NoChar
    BY <1>11 DEF Gone, PortInv, Port
  <2>2. Line!Sent
    BY <2>1 DEF Line!Sent
  <2> QED BY <2>2 DEF Line!Next
<1>12. ASSUME Interrupt
       PROVE  [Line!Next]_(Line!lineVars)
  BY <1>1, <1>2, <1>3, <1>12, InterruptStep DEF Quiet
<1>13. ASSUME Arrive
       PROVE  [Line!Next]_(Line!lineVars)
  <2>1. p'.sendBuffer = p.sendBuffer /\ p'.tx = p.tx
    BY <1>13 DEF Arrive, PortInv, Port
  <2> QED BY <1>1, <2>1
<1>14. ASSUME UNCHANGED serialVars
       PROVE  [Line!Next]_(Line!lineVars)
  BY <1>1, <1>14 DEF serialVars
<1> QED BY <1>4, <1>5, <1>6, <1>7, <1>8, <1>9, <1>10, <1>11, <1>12, <1>13, <1>14, Zenon
        DEF Next, Begin, Step

(* The port implements the paced line, for any tasks and any sizes of its  *)
(* buffers: no character is lost, doubled, overtaken but by START and      *)
(* STOP, or sent while the peer holds the line.                            *)
THEOREM LineImplemented == Spec => LinePromised
<1>1. Init => Line!Init
  BY DEF Init, Line!Init
<1>2. PortInv /\ PortInv' /\ [Next]_serialVars => [Line!Next]_(Line!lineVars)
  BY LineSteps
<1>3. Spec => Line!Spec
  BY <1>1, <1>2, PortCorrect, PTL DEF Spec, Line!Spec
<1> QED BY <1>3 DEF LinePromised
=============================================================================
