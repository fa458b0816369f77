------------------------------ MODULE Eventflag ------------------------------
(***************************************************************************)
(* Event flags: kernel/eventflag.zig on top of TaskKernel.  A FLGPTN is    *)
(* the set of its bits.                                                    *)
(***************************************************************************)
EXTENDS TaskKernel

CONSTANTS Eventflag,  (* the event flags                                   *)
          Bit,        (* the bits of a pattern                             *)
          iflgptn,    (* initial patterns                                  *)
          TA_CLR,     (* the flags that are cleared when a wait is served  *)
          TA_WMUL     (* the flags on which several tasks may wait         *)

ASSUME EventflagAssumption ==
  /\ Eventflag \subseteq Wobj \ Mutex
  /\ iflgptn \in [Eventflag -> SUBSET Bit]
  /\ TA_CLR \subseteq Eventflag /\ TA_WMUL \subseteq Eventflag

VARIABLES
  flgptn,     (* FLGCB.flgptn                                              *)
  waiptn,     (* WINFO_FLG.waiptn: the pattern a task waits for, then the  *)
              (* one it was released with; also what *p_flgptn is given    *)
              (* when a call need not wait                                 *)
  wfmode      (* WINFO_FLG.wfmode                                          *)

flgOwn  == <<flgptn, waiptn, wfmode>>
flgVars == <<vars, flgOwn>>

FLGPTN == SUBSET Bit
MODE   == {"TWF_ANDW", "TWF_ORW"}

FlgInit ==
  /\ Init
  /\ flgptn = iflgptn
  /\ waiptn = [t \in Task |-> {}] /\ wfmode = [t \in Task |-> "TWF_ANDW"]

Cond(ptn, wai, mode) ==
  IF mode = "TWF_ORW" THEN ptn \cap wai # {} ELSE wai \subseteq ptn

(* check_flg_cond leaves this pattern when a wait is served.               *)
Consumed_Never(f, ptn) == ptn                                   (* mutant *)
Consumed(f, ptn) == IF f \in TA_CLR THEN {} ELSE ptn

(* The tasks set_flg serves: the loop over the queue ends with the first   *)
(* one when that has cleared the flag.                                     *)
Satisfied(f, ptn) == {t \in Waiters(f) : Cond(ptn, waiptn[t], wfmode[t])}

InFront(f, t, u) ==
  \E i, j \in DOMAIN wait_queue[f] :
    i <= j /\ wait_queue[f][i] = t /\ wait_queue[f][j] = u

Released_HeadOnly(f, ptn) ==                                    (* mutant *)
  {t \in Satisfied(f, ptn) : \A u \in Waiters(f) : InFront(f, t, u)}
Released(f, ptn) ==
  {t \in Satisfied(f, ptn) :
     f \in TA_CLR => \A u \in Satisfied(f, ptn) : InFront(f, t, u)}

ResultPattern_Before(f, setptn) == flgptn[f]                    (* mutant *)
ResultPattern(f, setptn) == flgptn[f] \cup setptn

set_flg(f, setptn) ==
  LET ptn == flgptn[f] \cup setptn
      S   == Released(f, ptn)
  IN  /\ wobj_release(f, S, "ok")
      /\ flgptn' = [flgptn EXCEPT ![f] = IF S = {} THEN ptn ELSE Consumed(f, ptn)]
      /\ waiptn' = [t \in Task |-> IF t \in S THEN ResultPattern(f, setptn) ELSE waiptn[t]]
      /\ UNCHANGED wfmode

clr_flg(f, clrptn) ==
  /\ checkContextTaskUnlock
  /\ flgptn' = [flgptn EXCEPT ![f] = @ \cap clrptn]
  /\ UNCHANGED <<vars, waiptn, wfmode>>

MayWait(f) == f \in TA_WMUL \/ wait_queue[f] = <<>>

(* check_flg_cond for the caller, when it is true.                         *)
accept(f, wai, mode) ==
  /\ Cond(flgptn[f], wai, mode)
  /\ flgptn' = [flgptn EXCEPT ![f] = Consumed(f, @)]
  /\ waiptn' = [waiptn EXCEPT ![runtsk] = flgptn[f]]
  /\ UNCHANGED <<vars, wfmode>>

(* wai_flg (not timed), twai_flg with TMO_FEVR (not timed) or a time.      *)
wai_flg(f, wai, mode, timed) ==
  /\ checkDispatch /\ ~ raster[runtsk]
  /\ MayWait(f)
  /\ \/ accept(f, wai, mode)
     \/ /\ ~ Cond(flgptn[f], wai, mode)
        /\ wobj_wait(f, timed)
        /\ waiptn' = [waiptn EXCEPT ![runtsk] = wai]
        /\ wfmode' = [wfmode EXCEPT ![runtsk] = mode]
        /\ UNCHANGED flgptn

pol_flg(f, wai, mode) == checkContextTaskUnlock /\ MayWait(f) /\ accept(f, wai, mode)

ini_flg(f) ==
  /\ checkContextTaskUnlock
  /\ wobj_release(f, Waiters(f), "error")
  /\ flgptn' = [flgptn EXCEPT ![f] = iflgptn[f]]
  /\ UNCHANGED <<waiptn, wfmode>>

EventflagCall ==
  \E f \in Eventflag :
    \/ ini_flg(f)
    \/ \E ptn \in FLGPTN : set_flg(f, ptn) \/ clr_flg(f, ptn)
    \/ \E wai \in FLGPTN \ {{}}, mode \in MODE :
          \/ pol_flg(f, wai, mode)
          \/ \E timed \in BOOLEAN : wai_flg(f, wai, mode, timed)

FlgNext == (KernelCall /\ UNCHANGED flgOwn) \/ EventflagCall

FlgSpec == FlgInit /\ [][FlgNext]_flgVars
-----------------------------------------------------------------------------
(* No task waits for a pattern that is set: the walk of set_flg over the   *)
(* queue passes over nobody whose condition holds in the end, and stops    *)
(* early only when nothing is left to be served with.                      *)
NoMissedFlag ==
  \A f \in Eventflag : Satisfied(f, flgptn[f]) = {}

(* A served task is told a pattern that satisfies the condition it waited  *)
(* with, although waiptn is overwritten by the check that reads it.        *)
PatternTold ==
  [][\A f \in Eventflag, t \in Task :
       Served(f, t) => Cond(waiptn'[t], waiptn[t], wfmode[t])]_flgVars

(* With TA_CLR a pattern serves one task only, the first in the queue that *)
(* it satisfies.                                                           *)
ServedOnceInOrder ==
  [][\A f \in TA_CLR : \A t, u \in Task :
       Served(f, t) /\ waiton[u] = f /\ Cond(waiptn'[t], waiptn[u], wfmode[u]) =>
         InFront(f, t, u) /\ flgptn'[f] = {}]_flgVars
=============================================================================
