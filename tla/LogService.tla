------------------------------ MODULE LogService ------------------------------
(***************************************************************************)
(* The system log (syssvc/tSysLog.c) and the system log task, which prints *)
(* it (syssvc/tLogTaskMain.c), on a serial port of which they need no more *)
(* than PacedLine promises.  Tasks and handlers of any kind write entries; *)
(* all the operations of the log run with interrupts disabled.  Entries    *)
(* are numbered as they are recorded.  An entry, or the message that tells *)
(* how many were lost, is printed as one character; low-level output of an *)
(* entry as it is written leaves no trace in the log and is left out.      *)
(***************************************************************************)
EXTENDS PacedLine, FiniteSets

CONSTANTS logBufferSize,
          Priority,       (* the priorities of entries                     *)
          Masks,          (* the settings of logMask                       *)
          FlushCounts,    (* what eLogTask_flush is asked for              *)
          MaxEntries      (* bound on the entries recorded                 *)

ASSUME LogAssumption ==
  /\ logBufferSize \in Nat \ {0} /\ MaxEntries \in Nat
  /\ \A m \in Masks : m \subseteq Priority
  /\ FlushCounts \subseteq Nat
  /\ NoChar \notin [kind : {"entry", "lost"}, n : Nat]

VARIABLES
  syslog,     (* buffer, lost, logMask and the number of entries recorded  *)
  text,       (* what the log task has read and not yet printed            *)
  logtask,    (* where the log task is: "start", "reading" or "delaying"   *)
  flush,      (* where a task in eLogTask_flush is, and what it waits for  *)
  ended,      (* the kernel has terminated                                 *)
  out, low    (* what has gone out on the line, and by low-level output    *)

logVars == <<lineVars, syslog, text, logtask, flush, ended, out, low>>

Lost(n) == [kind |-> "lost", n |-> n]
Entry(k) == [kind |-> "entry", n |-> k]

NotFlushing == [at |-> "none", count |-> 0]

LogInit ==
  /\ Init
  /\ syslog = [buffer |-> <<>>, lost |-> 0, logMask |-> Priority, recorded |-> 0]
  /\ text = <<>> /\ logtask = "start" /\ flush = NotFlushing /\ ended = FALSE
  /\ out = <<>> /\ low = <<>>

-----------------------------------------------------------------------------
(* eSysLog_write, eSysLog_read and eSysLog_mask.                           *)

Recorded(s) ==
  LET k == s.recorded + 1
  IN  IF Len(s.buffer) < logBufferSize
      THEN [s EXCEPT !.recorded = k, !.buffer = Append(@, k)]
      ELSE [s EXCEPT !.recorded = k, !.buffer = Append(Tail(@), k), !.lost = @ + 1]

sysLogWrite(s, pri) == IF pri \in s.logMask THEN Recorded(s) ELSE s

Readable(s) == s.buffer # <<>>

AfterRead_KeepsLost(s) == [s EXCEPT !.buffer = Tail(@)]         (* mutant *)
AfterRead(s) == [s EXCEPT !.buffer = Tail(@), !.lost = 0]

(* What is printed of one read.                                            *)
ReadText(s) == (IF s.lost > 0 THEN <<Lost(s.lost)>> ELSE <<>>) \o <<Entry(Head(s.buffer))>>

(* What is printed of reading until nothing is left.                       *)
WholeText(s) ==
  IF ~Readable(s) THEN <<>>
  ELSE ReadText(s) \o [i \in 1 .. Len(s.buffer) - 1 |-> Entry(s.buffer[i + 1])]

AfterReadAll(s) == IF Readable(s) THEN [s EXCEPT !.buffer = <<>>, !.lost = 0] ELSE s

write ==
  /\ ~ended /\ syslog.recorded < MaxEntries
  /\ \E pri \in Priority : syslog' = sysLogWrite(syslog, pri)
  /\ UNCHANGED <<lineVars, text, logtask, flush, ended, out, low>>

mask ==
  /\ ~ended
  /\ \E m \in Masks : syslog' = [syslog EXCEPT !.logMask = m]
  /\ UNCHANGED <<lineVars, text, logtask, flush, ended, out, low>>

(* eSysLog_flush prints everything that is left by low-level output.       *)
sysLogFlush ==
  /\ ~ended /\ Readable(syslog)
  /\ low' = low \o WholeText(syslog)
  /\ syslog' = AfterReadAll(syslog)
  /\ UNCHANGED <<lineVars, text, logtask, flush, ended, out>>

-----------------------------------------------------------------------------
(* The log task.                                                           *)

logTaskStart ==
  /\ ~ended /\ logtask = "start" /\ logtask' = "reading"
  /\ syslog' = sysLogWrite(syslog, "notice")
  /\ UNCHANGED <<lineVars, text, flush, ended, out, low>>

logTaskRead ==
  /\ ~ended /\ logtask = "reading" /\ text = <<>>
  /\ IF Readable(syslog)
     THEN /\ text' = ReadText(syslog) /\ syslog' = AfterRead(syslog)
          /\ UNCHANGED logtask
     ELSE logtask' = "delaying" /\ UNCHANGED <<text, syslog>>
  /\ UNCHANGED <<lineVars, flush, ended, out, low>>

logTaskWakes ==
  /\ ~ended /\ logtask = "delaying" /\ logtask' = "reading"
  /\ UNCHANGED <<lineVars, syslog, text, flush, ended, out, low>>

(* logtask_putc: one character at a time goes to the serial port.          *)
logtask_putc ==
  /\ ~ended /\ text # <<>>
  /\ Accept(Head(text)) \/ Straight(Head(text))
  /\ text' = Tail(text)
  /\ UNCHANGED <<syslog, logtask, flush, ended, out, low>>

-----------------------------------------------------------------------------
(* eLogTask_flush looks at the log and, to wait for everything, at the     *)
(* serial port after it, and looks again some time later.                  *)

flushBegin ==
  /\ ~ended /\ flush = NotFlushing
  /\ \E n \in FlushCounts : flush' = [at |-> "log", count |-> n]
  /\ UNCHANGED <<lineVars, syslog, text, logtask, ended, out, low>>

FlushedLog_Fewer == Len(syslog.buffer) < flush.count            (* mutant *)
FlushedLog == Len(syslog.buffer) <= flush.count

flushLooks ==
  /\ ~ended /\ flush # NotFlushing
  /\ flush' = CASE flush.at = "log" /\ ~FlushedLog -> [flush EXCEPT !.at = "delay"]
                [] flush.at = "log" /\ FlushedLog /\ flush.count > 0 -> NotFlushing
                [] flush.at = "log" /\ FlushedLog /\ flush.count = 0 -> [flush EXCEPT !.at = "port"]
                [] flush.at = "port" /\ pending # <<>> -> [flush EXCEPT !.at = "delay"]
                [] flush.at = "port" /\ pending = <<>> -> NotFlushing
                [] flush.at = "delay" -> [flush EXCEPT !.at = "log"]
  /\ UNCHANGED <<lineVars, syslog, text, logtask, ended, out, low>>

(* A task in dly_tsk may be released.                                      *)
flushReleased ==
  /\ ~ended /\ flush.at = "delay" /\ flush' = NotFlushing
  /\ UNCHANGED <<lineVars, syslog, text, logtask, ended, out, low>>

-----------------------------------------------------------------------------
(* eLogTaskTerminate_main: with the kernel terminated, the characters that *)
(* the port still has and then the entries that the log still has are      *)
(* printed by low-level output.  What the log task had in hand is not.     *)
terminate ==
  /\ ~ended /\ ended' = TRUE
  /\ low' = low \o pending \o WholeText(syslog)
  /\ pending' = <<>>
  /\ syslog' = AfterReadAll(syslog)
  /\ UNCHANGED <<held, line, text, logtask, flush, out>>

(* The line.                                                               *)
LineSends == ~ended /\ UNCHANGED held /\ Send /\ UNCHANGED <<syslog, text, logtask, flush, ended, out, low>>

LineSent ==
  /\ line # NoChar /\ Sent
  /\ out' = Append(out, line)
  /\ UNCHANGED <<syslog, text, logtask, flush, ended, low>>

PeerHolds == ~ended /\ HoldOrRelease /\ UNCHANGED <<syslog, text, logtask, flush, ended, out, low>>

-----------------------------------------------------------------------------

LogTaskStep == logTaskStart \/ logTaskRead \/ logTaskWakes \/ logtask_putc

LogNext ==
  \/ write \/ mask \/ sysLogFlush \/ LogTaskStep
  \/ flushBegin \/ flushLooks \/ flushReleased
  \/ terminate \/ LineSends \/ LineSent \/ PeerHolds

LogSpec == LogInit /\ [][LogNext]_logVars

(* The log task and the flushing task get the processor, and the line      *)
(* sends whenever the peer lets it, however often the peer holds it.       *)
LogFairSpec ==
  /\ LogSpec
  /\ WF_logVars(logTaskStart \/ logTaskRead \/ logTaskWakes) /\ SF_logVars(logtask_putc)
  /\ WF_logVars(flushLooks) /\ SF_logVars(LineSends) /\ WF_logVars(LineSent)

-----------------------------------------------------------------------------
(* Everything printed or in hand, as far as the serial port goes.          *)
Printed ==
  out \o (IF line = NoChar THEN <<>> ELSE <<line>>) \o pending \o text

EntriesIn(s) == {s[i].n : i \in {j \in DOMAIN s : s[j].kind = "entry"}}

LostIn(s) ==
  LET sum[i \in 0 .. Len(s)] ==
        IF i = 0 THEN 0 ELSE sum[i - 1] + IF s[i].kind = "lost" THEN s[i].n ELSE 0
  IN  sum[Len(s)]

Increasing(s) ==
  \A i, j \in DOMAIN s : i < j /\ s[i].kind = "entry" /\ s[j].kind = "entry" => s[i].n < s[j].n

(* Nothing gets lost unnoticed: every entry recorded is printed, in the    *)
(* hands of the log task, in the log, or counted in lost or in a message   *)
(* printed.  Entries are printed once and in their order, and the log      *)
(* holds the newest.                                                       *)
EntriesAccounted ==
  /\ syslog.recorded = Cardinality(EntriesIn(Printed) \cup EntriesIn(low))
                       + LostIn(Printed) + LostIn(low) + syslog.lost + Len(syslog.buffer)
  /\ EntriesIn(Printed) \cap EntriesIn(low) = {}
  /\ Increasing(Printed)
  /\ \A i \in DOMAIN syslog.buffer :
       syslog.buffer[i] = syslog.recorded - Len(syslog.buffer) + i

(* A flush returns once writing has stopped, unless the peer holds the     *)
(* line for ever.                                                          *)
FlushEnds == []<>(held \/ ended \/ flush = NotFlushing)
=============================================================================
