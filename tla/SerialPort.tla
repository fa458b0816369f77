------------------------------ MODULE SerialPort ------------------------------
(***************************************************************************)
(* The serial interface driver (syssvc/tSerialPortMain.c) on the PL011     *)
(* UART (arch/arm_gcc/common/tUartPL011.c).  Tasks and the interrupt       *)
(* handler share the two buffers.  Each buffer is guarded by a semaphore   *)
(* with at most one unit, a right: whoever finds the send buffer not full  *)
(* after a write, or the receive buffer not empty after a read, passes the *)
(* right on, and otherwise the handler gives it back when there is room or *)
(* a character again.  p is the port with its UART, call what each task is *)
(* doing in it.  A region with the CPU locked is one step; between regions *)
(* any task may run.  Which task gets a unit is left open.                 *)
(***************************************************************************)
EXTENDS Integers, Sequences, FiniteSets

CONSTANTS Task, Char,            (* characters other than START and STOP   *)
          LF, CR, FC_START, FC_STOP, NoChar,
          sendBufferSize, receiveBufferSize,
          Arriving,              (* the characters that the peer sends     *)
          Texts,                 (* task |-> what it may ask to write      *)
          Lengths,               (* task |-> how much it may ask to read   *)
          Managers,              (* the tasks that open, close and control *)
          Controls               (* the settings of ioControl              *)

ASSUME SizesAssumption ==
  /\ sendBufferSize \in Nat \ {0} /\ receiveBufferSize \in Nat \ {0, 1}
  /\ {LF, CR} \subseteq Char /\ NoChar \notin Char \cup {FC_START, FC_STOP}
  /\ {FC_START, FC_STOP} \cap Char = {} /\ FC_START # FC_STOP
  /\ Arriving \subseteq Char

(* A call with nothing to write or to read returns at once.                *)
ASSUME CallsAssumption ==
  /\ Texts \in [Task -> SUBSET (Seq(Char) \ {<<>>})]
  /\ Lengths \in [Task -> SUBSET (Nat \ {0})]

(* The field receiveLost of p is history: a read has been released with    *)
(* the right to receive, which nobody has since.  No guard reads it.       *)
VARIABLES p, call

serialVars == <<p, call>>

BUFCNT_STOP == (receiveBufferSize * 3) \div 4
BUFCNT_START == receiveBufferSize \div 2

(* tSerialPort opens with every control but FCANY.                         *)
AllControls == {"ECHO", "CRLF", "FCSND", "FCRCV"}

Idle == [pc |-> "idle", op |-> "none", text |-> <<>>, crsent |-> FALSE,
         want |-> 0, empty |-> TRUE]

Init ==
  /\ p = [openFlag |-> FALSE, errorFlag |-> FALSE, ioControl |-> {},
          receiveBuffer |-> <<>>, receiveFlowControl |-> NoChar, receiveStopped |-> FALSE,
          sendBuffer |-> <<>>, sendStopped |-> FALSE,
          sendSemaphore |-> 1, receiveSemaphore |-> 0,
          enabled |-> FALSE, rx |-> NoChar, tx |-> NoChar, txim |-> FALSE,
          receiveLost |-> FALSE]
  /\ call = [t \in Task |-> Idle]

-----------------------------------------------------------------------------
(* The UART and the two rights.                                            *)

putready(q) == q.tx = NoChar

putchar(q, c) == [q EXCEPT !.tx = c]

enableCBR(q) == [q EXCEPT !.txim = TRUE]

disableCBR(q) == [q EXCEPT !.txim = FALSE]

sendChar(q, c) == IF putready(q) THEN putchar(q, c) ELSE enableCBR(q)

(* A unit too many is E_QOVR, which marks the port as broken.              *)
signalSend(q) ==
  IF q.sendSemaphore = 1 THEN [q EXCEPT !.errorFlag = TRUE] ELSE [q EXCEPT !.sendSemaphore = 1]

signalReceive(q) ==
  IF q.receiveSemaphore = 1 THEN [q EXCEPT !.errorFlag = TRUE] ELSE [q EXCEPT !.receiveSemaphore = 1]

-----------------------------------------------------------------------------
(* The callbacks, which run in the interrupt handler.                      *)

SendFull(q) == Len(q.sendBuffer) = sendBufferSize

Dequeued_Late(q) ==                                            (* mutant *)
  LET r == [q EXCEPT !.sendBuffer = Tail(@)] IN IF SendFull(r) THEN signalSend(r) ELSE r
Dequeued_Silent(q) == [q EXCEPT !.sendBuffer = Tail(@)]         (* mutant *)
Dequeued(q) == [(IF SendFull(q) THEN signalSend(q) ELSE q) EXCEPT !.sendBuffer = Tail(@)]

sendFirst(q) == Dequeued(putchar(q, Head(q.sendBuffer)))

readySend(q) ==
  IF q.receiveFlowControl # NoChar
  THEN [putchar(q, q.receiveFlowControl) EXCEPT !.receiveFlowControl = NoChar]
  ELSE IF ~q.sendStopped /\ q.sendBuffer # <<>> THEN sendFirst(q) ELSE disableCBR(q)

(* The loop that resumes sending stops as soon as the UART is busy.        *)
resumeSend_Once(q) ==                                          (* mutant *)
  IF q.sendBuffer = <<>> \/ ~putready(q) THEN q ELSE sendFirst(q)
resumeSend(q) ==
  IF q.sendBuffer = <<>> THEN q
  ELSE IF ~putready(q) THEN enableCBR(q)
  ELSE LET r == sendFirst(q) IN IF r.sendBuffer = <<>> THEN r ELSE enableCBR(r)

store(q, c) ==
  [(IF q.receiveBuffer = <<>> THEN signalReceive(q) ELSE q)
     EXCEPT !.receiveBuffer = Append(@, c)]

sendFlowControl(q, f, stopped) ==
  [(IF putready(q) THEN putchar(q, f) ELSE [enableCBR(q) EXCEPT !.receiveFlowControl = f])
     EXCEPT !.receiveStopped = stopped]

stopPeer(q) ==
  IF "FCRCV" \in q.ioControl /\ ~q.receiveStopped /\ Len(q.receiveBuffer) >= BUFCNT_STOP
  THEN sendFlowControl(q, FC_STOP, TRUE)
  ELSE q

readyReceive(q) ==
  LET c == q.rx
      r == [q EXCEPT !.rx = NoChar]
      fcsnd == "FCSND" \in q.ioControl
  IN IF fcsnd /\ c = FC_STOP THEN [r EXCEPT !.sendStopped = TRUE]
     ELSE IF q.sendStopped /\ (c = FC_START \/ "FCANY" \in q.ioControl)
     THEN resumeSend([r EXCEPT !.sendStopped = FALSE])
     ELSE IF (fcsnd /\ c = FC_START) \/ Len(q.receiveBuffer) = receiveBufferSize THEN r
     ELSE stopPeer(store(r, c))

ISR(q) ==
  LET r == IF q.rx # NoChar THEN readyReceive(q) ELSE q
  IN IF putready(r) THEN readySend(r) ELSE r

InterruptPending == p.rx # NoChar \/ (p.txim /\ putready(p))

Interrupt == InterruptPending /\ p' = ISR(p) /\ UNCHANGED call

-----------------------------------------------------------------------------
(* The line: a character arrives, one has gone out.                        *)

Arrive ==
  /\ p.enabled /\ p.rx = NoChar
  /\ \E c \in Arriving \cup {FC_START, FC_STOP} : p' = [p EXCEPT !.rx = c]
  /\ UNCHANGED call

Gone ==
  /\ p.enabled /\ p.tx # NoChar
  /\ p' = [p EXCEPT !.tx = NoChar]
  /\ UNCHANGED call

-----------------------------------------------------------------------------
(* The calls of tasks, step by step.  Dispatching is disabled in close.    *)

At(t, pc) == call[t].pc = pc /\ \A u \in Task \ {t} : call[u].pc # "closing"

Ready == p.openFlag /\ ~p.errorFlag

Becomes(t, r) == call' = [call EXCEPT ![t] = r]

Goes(t, pc) == Becomes(t, [call[t] EXCEPT !.pc = pc])

write(t) ==
  /\ At(t, "idle") /\ Ready
  /\ \E s \in Texts[t] : Becomes(t, [Idle EXCEPT !.pc = "sendwait", !.op = "write", !.text = s])
  /\ UNCHANGED p

read(t) ==
  /\ At(t, "idle") /\ Ready
  /\ \E n \in Lengths[t] : Becomes(t, [Idle EXCEPT !.pc = "receivewait", !.op = "read", !.want = n])
  /\ UNCHANGED p

takeSend(t) ==
  /\ At(t, "sendwait") /\ p.sendSemaphore = 1
  /\ p' = [p EXCEPT !.sendSemaphore = 0]
  /\ Goes(t, "put")

takeReceive(t) ==
  /\ At(t, "receivewait") /\ p.receiveSemaphore = 1
  /\ p' = [p EXCEPT !.receiveSemaphore = 0]
  /\ Goes(t, "get")

writeChar_Overtakes(q, c) ==                                   (* mutant *)
  IF ~q.sendStopped /\ putready(q) THEN putchar(q, c)
  ELSE [enableCBR(q) EXCEPT !.sendBuffer = Append(@, c)]
writeChar(q, c) ==
  LET free == q.sendBuffer = <<>> /\ ~q.sendStopped
  IN IF free /\ putready(q) THEN putchar(q, c)
     ELSE [(IF free THEN enableCBR(q) ELSE q) EXCEPT !.sendBuffer = Append(@, c)]

(* A read goes on until it has what it wants; it keeps the right while     *)
(* there are characters left.                                              *)
ReadOn(r) ==
  IF r.want > 0 THEN [r EXCEPT !.pc = IF r.empty THEN "receivewait" ELSE "get"]
  ELSE IF r.empty THEN Idle
  ELSE [r EXCEPT !.pc = "receivesignal"]

AfterSending(r) == IF r.op = "read" THEN ReadOn(r) ELSE Idle

(* One character, of a write or of the echo of a read; CR goes before LF.  *)
put(t) ==
  /\ At(t, "put")
  /\ LET c == Head(call[t].text)
         first == c = LF /\ "CRLF" \in p.ioControl /\ ~call[t].crsent
         rest == IF first THEN call[t].text ELSE Tail(call[t].text)
         r == [call[t] EXCEPT !.text = rest, !.crsent = first]
     IN \E q \in {writeChar(p, IF first THEN CR ELSE c)} :
          /\ p' = q
          /\ Becomes(t, IF rest # <<>> THEN [r EXCEPT !.pc = IF SendFull(q) THEN "sendwait" ELSE "put"]
                        ELSE IF SendFull(q) THEN AfterSending(r)
                        ELSE [r EXCEPT !.pc = "sendsignal"])

giveSend(t) ==
  /\ At(t, "sendsignal")
  /\ p' = signalSend(p)
  /\ Becomes(t, IF p.sendSemaphore = 1 THEN Idle ELSE AfterSending(call[t]))

startPeer(q) ==
  IF q.receiveStopped /\ Len(q.receiveBuffer) <= BUFCNT_START
  THEN sendFlowControl(q, FC_START, FALSE)
  ELSE q

get(t) ==
  /\ At(t, "get")
  /\ \E q \in {startPeer([p EXCEPT !.receiveBuffer = Tail(@)])} :
       LET r == [call[t] EXCEPT !.want = @ - 1, !.empty = q.receiveBuffer = <<>>]
       IN /\ p' = q
          /\ Becomes(t, IF "ECHO" \in p.ioControl
                        THEN [r EXCEPT !.pc = "sendwait", !.text = <<Head(p.receiveBuffer)>>]
                        ELSE ReadOn(r))

giveReceive(t) ==
  /\ At(t, "receivesignal")
  /\ p' = signalReceive(p)
  /\ Becomes(t, Idle)

(* Who has a right.  A read keeps the right to receive while it echoes.    *)
HoldsSend(t) == call[t].pc \in {"put", "sendsignal"}

HoldsReceive(t) ==
  \/ call[t].pc \in {"get", "receivesignal"}
  \/ call[t].op = "read" /\ ~call[t].empty /\ call[t].pc # "idle"

(* A task waits while there is no unit: one that is there is as good as    *)
(* handed over.                                                            *)
Waits(t) ==
  \/ call[t].pc = "sendwait" /\ p.sendSemaphore = 0
  \/ call[t].pc = "receivewait" /\ p.receiveSemaphore = 0

(* rel_wai and the like take a task out of its wait.  The call returns     *)
(* without a signal: released from the wait for its echo, a read takes the *)
(* right to receive along.                                                 *)
released(t) ==
  /\ Waits(t) /\ At(t, call[t].pc)
  /\ p' = [p EXCEPT !.receiveLost = @ \/ HoldsReceive(t)]
  /\ Becomes(t, Idle)

-----------------------------------------------------------------------------
(* Opening, closing and the setting of the controls.                       *)

open(t) ==
  /\ At(t, "idle") /\ ~p.openFlag
  /\ p' = [p EXCEPT !.ioControl = AllControls,
                    !.receiveBuffer = <<>>, !.receiveFlowControl = NoChar, !.receiveStopped = FALSE,
                    !.sendBuffer = <<>>, !.sendStopped = FALSE,
                    !.enabled = TRUE, !.openFlag = TRUE, !.errorFlag = FALSE]
  /\ UNCHANGED call

close(t) ==
  /\ At(t, "idle") /\ p.openFlag
  /\ p' = [p EXCEPT !.enabled = FALSE, !.openFlag = FALSE]
  /\ Goes(t, "closing")

(* The interrupts that were pending come before the semaphores are         *)
(* initialised, which ends the waits.                                      *)
initializeSemaphores(t) ==
  /\ At(t, "closing") /\ ~InterruptPending
  /\ p' = [p EXCEPT !.sendSemaphore = 1, !.receiveSemaphore = 0, !.receiveLost = FALSE]
  /\ call' = [u \in Task |-> IF u = t \/ Waits(u) THEN Idle ELSE call[u]]

control(t) ==
  /\ At(t, "idle") /\ Ready
  /\ \E io \in Controls : p' = [p EXCEPT !.ioControl = io]
  /\ UNCHANGED call

-----------------------------------------------------------------------------

(* What is assumed of the application: it does not close a port that a     *)
(* task is using.  A task that waits in it is not using it, unless an      *)
(* interrupt is pending, which may hand the task a right while it closes.  *)
Unused == \A t \in Task : call[t].pc = "idle" \/ (Waits(t) /\ ~InterruptPending)

Begin(t) ==
  \/ write(t) \/ read(t)
  \/ t \in Managers /\ (open(t) \/ control(t) \/ (Unused /\ close(t)))

Step(t) ==
  put(t) \/ giveSend(t) \/ get(t) \/ giveReceive(t) \/ initializeSemaphores(t)

Next ==
  \/ \E t \in Task : Begin(t) \/ Step(t) \/ takeSend(t) \/ takeReceive(t) \/ released(t)
  \/ Interrupt \/ Arrive \/ Gone

Spec == Init /\ [][Next]_serialVars

(* Interrupts are taken, the UART sends, tasks get the processor, and the  *)
(* semaphores, whose queues are first come first served, reach everybody.  *)
Fairness ==
  /\ WF_serialVars(Interrupt) /\ WF_serialVars(Gone)
  /\ \A t \in Task : /\ WF_serialVars(Step(t))
                     /\ SF_serialVars(takeSend(t)) /\ SF_serialVars(takeReceive(t))

FairSpec == Spec /\ Fairness

-----------------------------------------------------------------------------

Held(holds(_)) == Cardinality({t \in Task : holds(t)})

(* The right to send is in exactly one place: in the semaphore, with one   *)
(* task, or nowhere because the buffer is full and the handler will give   *)
(* it back.  The same for the right to receive and the empty buffer,       *)
(* except that a reader released out of its echo has lost it, which is the *)
(* only way to lose it, and with it every later reader's until the port is *)
(* closed.  Neither is ever there twice: no signal fails, and the port is  *)
(* never marked as broken.                                                 *)
RightsConserved ==
  /\ p.openFlag => /\ ~p.errorFlag
                   /\ p.sendSemaphore + Held(HoldsSend) + (IF SendFull(p) THEN 1 ELSE 0) = 1
                   /\ p.receiveSemaphore + Held(HoldsReceive)
                        + (IF p.receiveBuffer = <<>> THEN 1 ELSE 0)
                        + (IF p.receiveLost THEN 1 ELSE 0) = 1
  /\ \A t \in Task : call[t].pc = "get" => p.receiveBuffer # <<>>

(* What is to be sent is never forgotten: while a START or STOP waits, or  *)
(* characters do and the peer allows them, the interrupt that sends them   *)
(* is enabled, though handler and tasks enable and disable it.             *)
SendingGoesOn ==
  p.receiveFlowControl # NoChar \/ (p.sendBuffer # <<>> /\ ~p.sendStopped) => p.txim

Line == INSTANCE PacedLine
  WITH Char <- Char \cup {FC_START, FC_STOP}, FlowChar <- {FC_START, FC_STOP},
       capacity <- sendBufferSize,
       pending <- p.sendBuffer, held <- p.sendStopped, line <- p.tx

(* The port implements the paced line: whether a character is sent by a    *)
(* task, by the handler when the UART is free, or when START arrives, none *)
(* is lost, doubled, overtaken or sent while the peer holds the line.      *)
LinePromised == Line!Spec

Writing(t) == call[t].op = "write"

Starving(t) == call[t].pc = "receivewait" /\ p.receiveBuffer # <<>>

(* The peer has nothing to send and does not hold the line.                *)
Calm == ~p.sendStopped /\ p.rx = NoChar

Stuck(t) == (Calm /\ Writing(t)) \/ (Starving(t) /\ ~p.receiveLost)

(* No task is for ever in a write while the peer is calm, however often it *)
(* held the line before, nor for ever waiting to read while there are      *)
(* characters, unless a released reader has lost the right to.  (START and *)
(* STOP go first, so that a peer that sends for ever could keep a writer   *)
(* waiting.)                                                               *)
PortServes == \A t \in Task : []<>~Stuck(t)

(* The release of a task is no error of the port (gen_ercd_wait leaves     *)
(* errorFlag alone), so whatever was released before, nobody waits to read *)
(* for ever while there are characters.                                    *)
ReadersServed == \A t \in Task : []<>~Starving(t)
=============================================================================
